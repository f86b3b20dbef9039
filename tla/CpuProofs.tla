------------------------------ MODULE CpuProofs ------------------------------
(* Theorems about Cpu for every program, table, register file and memory.  *)
EXTENDS Cpu, MemoryOpsProofs, SumProofs, TLAPS

-----------------------------------------------------------------------------
(* The layout of a number in bytes, by induction on the bytes.             *)

LEMMA DivisionUnique ==
    ASSUME NEW d \in Nat, d > 0, NEW q \in Nat, NEW r \in Nat, r < d,
           NEW n \in Nat, n = d * q + r
    PROVE  n \div d = q /\ n % d = r
<1>1. PICK p \in Nat, s \in Nat : n = d * p + s /\ s < d /\ s = n % d /\ p = n \div d
  <2>1. n = d * (n \div d) + (n % d) /\ n \div d \in Nat /\ n % d \in Nat /\ n % d < d
    OBVIOUS
  <2> QED BY <2>1
<1>2. ~(p < q)
  <2> SUFFICES ASSUME p < q PROVE FALSE
    OBVIOUS
  <2>1. PICK k \in Nat : q = p + 1 + k
    <3>1. q - (p + 1) \in Nat
      OBVIOUS
    <3> QED BY <3>1
  <2>2. d * q = d * p + d + d * k /\ d * k \in Nat /\ d * p \in Nat
    BY <2>1
  <2> QED BY <1>1, <2>2
<1>3. ~(q < p)
  <2> SUFFICES ASSUME q < p PROVE FALSE
    OBVIOUS
  <2>1. PICK k \in Nat : p = q + 1 + k
    <3>1. p - (q + 1) \in Nat
      OBVIOUS
    <3> QED BY <3>1
  <2>2. d * p = d * q + d + d * k /\ d * k \in Nat /\ d * q \in Nat
    BY <2>1
  <2> QED BY <1>1, <2>2
<1>4. p = q
  BY <1>2, <1>3
<1>5. d * p = d * q /\ d * q \in Nat
  BY <1>4
<1>6. s = r
  BY <1>1, <1>5
<1> QED BY <1>1, <1>6

USE MemoryAssumption

(* The weight of byte k, its value in v, and the numbers with the first n   *)
(* bytes of w.                                                              *)
Weight(k) == ByteBase ^ k
ByteIn(v, k) == (v \div Weight(k)) % ByteBase
NumberOf(v, n, w) == v < Weight(n) /\ \A k \in 0..(n - 1) : ByteIn(v, k) = w[k]

(* Whether the weight q has a byte, of weight p, below it.                 *)
Divides(p, q) == \E c \in Nat : q = p * (ByteBase * c)

LEMMA Weights ==
    /\ Weight(0) = 1 /\ Weight(RegBytes) = AddrSpace
    /\ \A n \in Nat : n + 1 \in 0..RegBytes => Weight(n + 1) = ByteBase * Weight(n)
<1>1. \A n \in Nat : n + 1 \in 0..RegBytes => n \in Offsets
  BY DEF Offsets
<1> QED BY Zenon, <1>1, LayoutAssumption DEF Weight

LEMMA WeightType == \A k \in 0..RegBytes : Weight(k) \in Nat /\ Weight(k) > 0
<1> DEFINE T == {n \in Nat : n \in 0..RegBytes => Weight(n) \in Nat /\ Weight(n) > 0}
<1>1. 0 \in T
  BY Weights
<1>2. ASSUME NEW n \in Nat, n \in T PROVE n + 1 \in T
  <2> SUFFICES ASSUME n + 1 \in 0..RegBytes
               PROVE  Weight(n + 1) \in Nat /\ Weight(n + 1) > 0
    OBVIOUS
  <2>1. Weight(n) \in Nat /\ Weight(n) > 0
    BY <1>2
  <2>2. Weight(n + 1) = ByteBase * Weight(n)
    BY Weights
  <2>3. \A b, p \in Nat : b > 0 /\ p > 0 => b * p \in Nat /\ b * p > 0
    OBVIOUS
  <2> QED BY <2>1, <2>2, <2>3
<1> HIDE DEF T
<1>3. Nat \subseteq T
  BY <1>1, <1>2, SetInduction
<1> QED BY <1>3 DEF T

LEMMA NextDivides ==
    \A p, q \in Nat : /\ Divides(p, ByteBase * p)
                      /\ Divides(p, q) => Divides(p, ByteBase * q)
<1> SUFFICES ASSUME NEW p \in Nat, NEW q \in Nat
             PROVE  /\ Divides(p, ByteBase * p)
                    /\ Divides(p, q) => Divides(p, ByteBase * q)
  OBVIOUS
<1>1. ByteBase * p = p * (ByteBase * 1)
  OBVIOUS
<1>2. ASSUME NEW c \in Nat, q = p * (ByteBase * c)
      PROVE  ByteBase * q = p * (ByteBase * (ByteBase * c)) /\ ByteBase * c \in Nat
  <2>1. \A b, e \in Nat : b * (p * (b * e)) = p * (b * (b * e)) /\ b * e \in Nat
    OBVIOUS
  <2> QED BY Zenon, <1>2, <2>1, ByteBase \in Nat
<1>3. Divides(p, ByteBase * p)
  BY Zenon, <1>1, 1 \in Nat DEF Divides
<1>4. Divides(p, q) => Divides(p, ByteBase * q)
  BY Zenon, <1>2 DEF Divides
<1> QED BY <1>3, <1>4

(* The weight of a byte divides those of the later bytes, more than once.  *)
LEMMA WeightDivides ==
    \A n \in 0..RegBytes : \A k \in 0..(n - 1) : Divides(Weight(k), Weight(n))
<1> DEFINE T == {n \in Nat : n \in 0..RegBytes =>
                                 \A k \in 0..(n - 1) : Divides(Weight(k), Weight(n))}
<1>1. 0 \in T
  OBVIOUS
<1>2. ASSUME NEW n \in Nat, n \in T PROVE n + 1 \in T
  <2> SUFFICES ASSUME n + 1 \in 0..RegBytes, NEW k \in 0..n
               PROVE  Divides(Weight(k), Weight(n + 1))
    OBVIOUS
  <2>1. n \in 0..RegBytes /\ k \in 0..RegBytes
    OBVIOUS
  <2>2. Weight(n + 1) = ByteBase * Weight(n)
    BY Weights
  <2>3. Weight(n) \in Nat /\ Weight(k) \in Nat
    BY <2>1, WeightType
  <2>4. CASE k = n
    BY Zenon, <2>2, <2>3, <2>4, NextDivides
  <2>5. CASE k # n
    <3>1. k \in 0..(n - 1)
      BY <2>5
    <3>2. Divides(Weight(k), Weight(n))
      BY <1>2, <2>1, <3>1
    <3> QED BY Zenon, <2>2, <2>3, <3>2, NextDivides
  <2> QED BY <2>4, <2>5
<1> HIDE DEF T
<1>3. Nat \subseteq T
  BY <1>1, <1>2, SetInduction
<1> QED BY <1>3 DEF T

(* Adding later bytes leaves the byte of weight p.                         *)
LEMMA ByteBelow ==
    \A v, p, c \in Nat : p > 0 =>
        ((v + p * (ByteBase * c)) \div p) % ByteBase = (v \div p) % ByteBase
<1> SUFFICES ASSUME NEW v \in Nat, NEW p \in Nat, NEW c \in Nat, p > 0
             PROVE  ((v + p * (ByteBase * c)) \div p) % ByteBase = (v \div p) % ByteBase
  BY Zenon
<1> DEFINE b == ByteBase  q == v \div p  r == v % p
<1>1. v = p * q + r /\ q \in Nat /\ r \in 0..(p - 1) /\ b \in Nat /\ b > 0
  OBVIOUS
<1> HIDE MemoryAssumption DEF b, q, r
<1>2. b * c \in Nat
  BY <1>1
<1>3. v + p * (b * c) = p * (q + b * c) + r /\ v + p * (b * c) \in Nat
  BY <1>1, <1>2
<1>4. q + b * c \in Nat
  BY <1>1, <1>2
<1>5. (v + p * (b * c)) \div p = q + b * c
  <2> DEFINE y == q + b * c  z == v + p * (b * c)
  <2>1. z = p * y + r /\ y \in Nat /\ z \in Nat
    BY <1>3, <1>4
  <2> HIDE DEF y, z
  <2>2. z \div p = y
    BY <1>1, <2>1, DivisionUnique
  <2> QED BY Zenon, <2>2 DEF y, z
<1>6. (q + b * c) % b = q % b
  <2> DEFINE s == q % b  t == q \div b
  <2>1. q = b * t + s /\ t \in Nat /\ s \in 0..(b - 1)
    BY <1>1
  <2> HIDE DEF s, t
  <2>2. q + b * c = b * (t + c) + s /\ t + c \in Nat
    BY <1>1, <2>1
  <2> DEFINE y == q + b * c
  <2>3. y = b * (t + c) + s /\ y \in Nat
    BY <2>2, <1>4
  <2> HIDE DEF y
  <2>4. y % b = s
    BY <1>1, <2>1, <2>2, <2>3, DivisionUnique
  <2> QED BY Zenon, <2>4 DEF s, y
<1> QED BY Zenon, <1>5, <1>6 DEF b, q

(* A number with the first n bytes of a word gets the next one added.      *)
LEMMA OneByteMore ==
    \A n \in Offsets : \A w \in Word : \A v \in Nat :
        NumberOf(v, n, w) => /\ v + Weight(n) * w[n] \in Nat
                             /\ NumberOf(v + Weight(n) * w[n], n + 1, w)
<1> SUFFICES ASSUME NEW n \in Offsets, NEW w \in Word, NEW v \in Nat, NumberOf(v, n, w)
             PROVE  /\ v + Weight(n) * w[n] \in Nat
                    /\ NumberOf(v + Weight(n) * w[n], n + 1, w)
  BY Zenon
<1> DEFINE p == Weight(n)  d == w[n]  u == v + p * d
<1>1. n \in 0..RegBytes /\ n + 1 \in 0..RegBytes /\ n \in Nat
  BY DEF Offsets
<1>2. p \in Nat /\ p > 0 /\ Weight(n + 1) = ByteBase * p
  BY <1>1, WeightType, Weights
<1>3. v < p /\ \A k \in 0..(n - 1) : ByteIn(v, k) = w[k]
  BY DEF NumberOf
<1>4. d \in Nat /\ d < ByteBase
  BY DEF Word, Byte
<1> HIDE DEF p, d
<1>5. u \in Nat /\ u = p * d + v /\ u < ByteBase * p
  <2>1. p * (d + 1) <= p * ByteBase
    BY <1>2, <1>4
  <2> QED BY <1>2, <1>3, <1>4, <2>1
<1>6. ByteIn(u, n) = w[n]
  <2> HIDE DEF u
  <2>1. u \div p = d
    BY <1>2, <1>3, <1>4, <1>5, DivisionUnique
  <2>2. d % ByteBase = d
    BY <1>4
  <2> QED BY Zenon, <2>1, <2>2 DEF ByteIn, p, d
<1>7. ASSUME NEW k \in 0..(n - 1) PROVE ByteIn(u, k) = w[k]
  <2>1. k \in 0..RegBytes /\ Divides(Weight(k), p)
    BY <1>1, WeightDivides DEF p
  <2>2. PICK c \in Nat : p = Weight(k) * (ByteBase * c)
    BY Zenon, <2>1 DEF Divides
  <2>3. Weight(k) \in Nat /\ Weight(k) > 0
    BY <2>1, WeightType
  <2>4. \A q \in Nat : (q * (ByteBase * c)) * d = q * (ByteBase * (c * d)) /\ c * d \in Nat
    BY <1>4
  <2>5. p * d = Weight(k) * (ByteBase * (c * d)) /\ c * d \in Nat
    BY Zenon, <2>2, <2>3, <2>4
  <2>6. ByteIn(v + Weight(k) * (ByteBase * (c * d)), k) = ByteIn(v, k)
    BY Zenon, <2>3, <2>5, ByteBelow DEF ByteIn
  <2> QED BY Zenon, <1>3, <2>5, <2>6
<1>8. \A k \in 0..((n + 1) - 1) : ByteIn(u, k) = w[k]
  <2> HIDE DEF u
  <2>1. \A k \in 0..((n + 1) - 1) : k = n \/ k \in 0..(n - 1)
    BY <1>1
  <2> QED BY Zenon, <1>6, <1>7, <2>1
<1>9. NumberOf(u, n + 1, w)
  BY Zenon, <1>2, <1>5, <1>8 DEF NumberOf
<1> QED BY Zenon, <1>5, <1>9 DEF p, d

LEMMA BytesHaveNumber ==
    \A n \in 0..RegBytes : \A w \in Word : \E v \in Nat : NumberOf(v, n, w)
<1> DEFINE T == {n \in Nat : n \in 0..RegBytes =>
                                 \A w \in Word : \E v \in Nat : NumberOf(v, n, w)}
<1>1. 0 \in T
  <2>1. \A w : NumberOf(0, 0, w)
    BY Weights DEF NumberOf
  <2> QED BY <2>1
<1>2. ASSUME NEW n \in Nat, n \in T PROVE n + 1 \in T
  <2> SUFFICES ASSUME n + 1 \in 0..RegBytes, NEW w \in Word
               PROVE  \E v \in Nat : NumberOf(v, n + 1, w)
    OBVIOUS
  <2>1. n \in 0..RegBytes /\ n \in Offsets
    BY DEF Offsets
  <2>2. PICK v \in Nat : NumberOf(v, n, w)
    BY <1>2, <2>1
  <2> QED BY Zenon, <2>1, <2>2, OneByteMore
<1> HIDE DEF T
<1>3. Nat \subseteq T
  BY <1>1, <1>2, SetInduction
<1> QED BY <1>3 DEF T

LEMMA WordOfBytes == \A v : WordOf(v) = [k \in Offsets |-> ByteIn(v, k)]
BY Zenon DEF WordOf, ByteIn, Weight

LEMMA WordOfType == \A v \in Addr : WordOf(v) \in Word
<1> SUFFICES ASSUME NEW v \in Addr, NEW k \in Offsets PROVE ByteIn(v, k) \in Byte
  BY WordOfBytes DEF Word
<1>1. v \in Nat /\ k \in 0..RegBytes
  BY DEF Addr, Offsets
<1>2. Weight(k) \in Nat /\ Weight(k) > 0
  BY <1>1, WeightType
<1>3. v \div Weight(k) \in Nat
  BY <1>1, <1>2
<1> QED BY <1>3 DEF Byte, ByteIn

(* Each word is the layout of an address.                                  *)
LEMMA ValueOfType == \A w \in Word : ValueOf(w) \in Addr /\ WordOf(ValueOf(w)) = w
<1> SUFFICES ASSUME NEW w \in Word PROVE \E v \in Addr : WordOf(v) = w
  BY Zenon DEF ValueOf
<1>1. PICK v \in Nat : NumberOf(v, RegBytes, w)
  <2>1. RegBytes \in 0..RegBytes
    OBVIOUS
  <2> QED BY Zenon, <2>1, BytesHaveNumber
<1>2. v \in Addr
  BY <1>1, Weights DEF Addr, NumberOf
<1>3. WordOf(v) = w
  BY <1>1, WordOfBytes DEF NumberOf, Word, Offsets
<1> QED BY <1>2, <1>3

USE CpuAssumption, TableAssumption

-----------------------------------------------------------------------------
(* Registers and addresses.                                                *)

LEMMA AddrNat == Addr \subseteq Nat
BY DEF Addr

(* Sums of addresses and steps wrap to addresses.                          *)
LEMMA PlusType == \A x, y \in Nat : Plus(x, y) \in Addr
BY DEF Plus, Addr

(* The remainder of a sum that passes its divisor once.                    *)
LEMMA WrapOnce ==
    ASSUME NEW d \in Nat, NEW n \in Nat, d > 0, n < 2 * d
    PROVE  n % d = IF n < d THEN n ELSE n - d
<1>1. n = (d * (n \div d)) + (n % d) /\ n \div d \in Nat /\ n % d \in 0..(d - 1)
  OBVIOUS
<1>2. PICK q \in Nat, r \in 0..(d - 1) : n = d * q + r /\ r = n % d
  BY <1>1
<1>3. q < 2
  <2> SUFFICES ASSUME q >= 2 PROVE FALSE
    OBVIOUS
  <2>1. d * q >= d * 2
    BY <1>2
  <2> QED BY <1>2, <2>1
<1>4. q = 0 \/ q = 1
  BY <1>2, <1>3
<1>5. CASE q = 0
  BY <1>2, <1>5
<1>6. CASE q = 1
  <2>1. n = d + r
    BY <1>2, <1>6
  <2> QED BY <1>2, <2>1
<1> QED BY <1>4, <1>5, <1>6

LEMMA OneByteType == \A byte \in Byte : OneByte(byte) \in Word
BY ZeroType DEF OneByte, Word

(* A write to a register leaves a register file, and register 0 as it was. *)
LEMMA WriteRegType ==
    ASSUME XPR \in RegFile, NEW r \in Regs, NEW v \in Addr
    PROVE  WriteReg(r, v) \in RegFile /\ WriteReg(r, v)[0] = XPR[0]
BY DEF WriteReg, RegFile

(* What a handler takes from the instruction and from the registers.       *)
LEMMA OperandTypes ==
    ASSUME TypeOK
    PROVE  /\ desc.rd \in Regs /\ desc.imm \in Addr /\ desc.len \in 1..RegBytes
           /\ RS1 \in Addr /\ RS2 \in Addr
           /\ \A r \in Regs : XPR[r] \in Addr /\ FPR[r] \in Addr
           /\ npc \in Addr /\ BranchTarget \in Addr /\ StoreAddress \in Addr
           /\ Plus(RS1, desc.imm) \in Addr /\ SimAddr \in Addr
           /\ FPR[desc.rs1] \in Addr /\ FPR[desc.rs2] \in Addr
<1>1. /\ desc.rd \in Regs /\ desc.rs1 \in Regs /\ desc.rs2 \in Regs
      /\ desc.imm \in Addr /\ desc.len \in 1..RegBytes
  BY DEF TypeOK, desc
<1>2. RS1 \in Addr /\ RS2 \in Addr /\ pc \in Addr
      /\ \A r \in Regs : XPR[r] \in Addr /\ FPR[r] \in Addr
  BY <1>1 DEF TypeOK, RegFile, RS1, RS2
<1>3. Addr \subseteq Nat /\ PC_INC \in Nat
  BY AddrNat DEF PC_INC
<1>4. PICK n \in 0..MaxIO :
          sim \in [addr : Addr, read_num : {n}, buf : [0..(n - 1) -> Byte], i : 0..n]
  BY DEF TypeOK
<1>5. sim.addr \in Addr /\ sim.i \in 0..n
  BY <1>4
<1>6. sim.addr \in Nat /\ sim.i \in Nat
  <2>1. n \in Nat /\ 0..n \subseteq Nat
    OBVIOUS
  <2> QED BY <1>3, <1>5, <2>1
<1> QED BY <1>1, <1>2, <1>3, <1>6, PlusType DEF npc, BranchTarget, StoreAddress, SimAddr

-----------------------------------------------------------------------------
(* Types.  The parts of TypeOK that the actions change one at a time.      *)
ControlOK ==
    /\ forbid \in SUBSET (Addr \X Addr)
    /\ stage \in {"fetch", "decode", "execute", "sim_read", "halted"}
    /\ c_insn \in Word /\ c_desc \in Places
    /\ step \in 0..(IntMod - 1)
    /\ insn_count \in [Places -> 0..(IntMod - 1)]
    /\ outcome \in Outcomes /\ (outcome = "running" <=> stage # "halted")
SimOK ==
    \E n \in 0..MaxIO :
        sim \in [addr : Addr, read_num : {n}, buf : [0..(n - 1) -> Byte], i : 0..n]
OutOK == \E n \in 0..MaxIO : out \in [1..n -> Byte]

LEMMA TypeParts ==
    TypeOK <=> pc \in Addr /\ XPR \in RegFile /\ FPR \in RegFile
               /\ mem \in MemMap /\ ControlOK /\ SimOK /\ OutOK
BY DEF TypeOK, ControlOK, SimOK, OutOK

LEMMA IncrementCases ==
    ASSUME NEW n \in 0..(IntMod - 1)
    PROVE  Increment(n) = IF n = IntMod - 1 THEN 0 ELSE n + 1
<1>1. n + 1 \in Nat /\ IntMod \in Nat /\ n + 1 <= IntMod /\ IntMod > 0
  OBVIOUS
<1> HIDE MemoryAssumption, CpuAssumption, TableAssumption
<1> QED BY <1>1 DEF Increment

LEMMA IncrementType == \A n \in 0..(IntMod - 1) : Increment(n) \in 0..(IntMod - 1)
BY DEF Increment

LEMMA ReturnToType ==
    ASSUME ControlOK, stage # "halted", NEW t \in Addr, Return(t)
    PROVE  pc' \in Addr /\ ControlOK'
BY DEF ControlOK, Return, control

LEMMA ThrowType ==
    ASSUME TypeOK, NEW e \in Outcomes \ {"running"}, Throw(e)
    PROVE  TypeOK'
<1>1. ControlOK'
  BY TypeParts DEF ControlOK, Throw, Stop, control
<1>2. SimOK' /\ OutOK' /\ pc' \in Addr /\ XPR' \in RegFile /\ FPR' \in RegFile
      /\ mem' \in MemMap
  BY TypeParts DEF SimOK, OutOK, Throw
<1> QED BY <1>1, <1>2, TypeParts DEF TypeOK, ControlOK, SimOK, OutOK

(* A handler that returns to t, with or without a write to FPR.            *)
LEMMA FloatHandlerType ==
    ASSUME TypeOK, stage # "halted", NEW t \in Addr, Return(t),
           XPR' \in RegFile, FPR' \in RegFile, mem' \in MemMap, SimOK', OutOK'
    PROVE  TypeOK'
<1>1. pc' \in Addr /\ ControlOK'
  BY ReturnToType, TypeParts
<1> QED BY <1>1 DEF TypeOK, ControlOK, SimOK, OutOK

LEMMA HandlerType ==
    ASSUME TypeOK, stage # "halted", NEW t \in Addr, ReturnTo(t),
           XPR' \in RegFile, mem' \in MemMap, SimOK', OutOK'
    PROVE  TypeOK'
<1>1. FPR' \in RegFile /\ Return(t)
  BY TypeParts DEF ReturnTo
<1> QED BY <1>1, FloatHandlerType

LEMMA ResultType ==
    ASSUME TypeOK, desc.kind \in DOMAIN Result
    PROVE  Result[desc.kind] \in Addr
<1>1. pc \in Nat /\ RS1 \in Nat /\ RS2 \in Nat /\ desc.imm \in Nat
  BY OperandTypes, TypeParts, AddrNat
<1>2. /\ Plus(RS1, RS2) \in Addr /\ Plus(RS1, desc.imm) \in Addr
      /\ Plus(pc, desc.imm) \in Addr /\ desc.imm \in Addr /\ FPR[desc.rs1] \in Addr
  BY <1>1, PlusType, OperandTypes
<1> QED BY <1>2 DEF Result

(* The sign of one register on the magnitude of another is a register.     *)
LEMMA SignInjected ==
    ASSUME NEW v \in Addr, NEW w \in Addr
    PROVE  Magnitude(v) + (w - Magnitude(w)) \in Addr
<1> DEFINE S == SignBit
<1>1. PICK k \in Nat : AddrSpace = 4 * k /\ k > 0
  <2>1. AddrSpace \in Nat /\ AddrSpace > 0 /\ AddrSpace % 4 = 0
    BY AlignmentAssumption
  <2>2. AddrSpace = 4 * (AddrSpace \div 4) /\ AddrSpace \div 4 \in Nat /\ AddrSpace \div 4 > 0
    BY <2>1
  <2> QED BY <2>2
<1>2. S = 2 * k /\ AddrSpace = 2 * S /\ S \in Nat /\ S > 0
  BY <1>1 DEF SignBit
<1>3. v \in Nat /\ w \in Nat /\ v < 2 * S /\ w < 2 * S
  BY <1>2 DEF Addr
<1>4. Magnitude(v) = v % S /\ Magnitude(w) = w % S
  BY DEF Magnitude
<1> HIDE DEF S
<1>5. w % S = IF w < S THEN w ELSE w - S
  BY <1>2, <1>3, WrapOnce
<1>6. v % S \in Nat /\ v % S < S
  BY <1>2, <1>3
<1>7. (v % S) + (w - (w % S)) \in Nat /\ (v % S) + (w - (w % S)) < 2 * S
  <2>1. w - (w % S) = 0 \/ w - (w % S) = S
    BY <1>2, <1>3, <1>5
  <2> QED BY <1>2, <1>6, <2>1
<1> QED BY <1>2, <1>4, <1>7 DEF Addr

LEMMA FloatResultType ==
    ASSUME TypeOK, desc.kind \in DOMAIN FloatResult
    PROVE  FloatResult[desc.kind] \in Addr
<1>1. ValueOf(LoadValue(mem, Plus(RS1, desc.imm), desc.len, "read_uint")) \in Addr
  BY OperandTypes, LoadValueType, ValueOfType, TypeParts
<1>2. Magnitude(FPR[desc.rs1]) + (FPR[desc.rs2] - Magnitude(FPR[desc.rs2])) \in Addr
  BY OperandTypes, SignInjected
<1> QED BY <1>1, <1>2, OperandTypes DEF FloatResult

LEMMA StoredType == TypeOK => Stored \in Word
BY OperandTypes, WordOfType DEF Stored

LEMMA JumpTargetType ==
    ASSUME TypeOK, desc.kind \in DOMAIN JumpTarget
    PROVE  JumpTarget[desc.kind] \in Addr
<1>1. pc \in Nat /\ RS1 \in Nat /\ desc.imm \in Nat
  BY OperandTypes, TypeParts, AddrNat
<1>2. Plus(pc, desc.imm) \in Addr /\ ClearBit0(Plus(RS1, desc.imm)) \in Addr
  <2>1. Plus(pc, desc.imm) \in Addr /\ Plus(RS1, desc.imm) \in Addr
    BY <1>1, PlusType
  <2>2. \A v \in Addr : ClearBit0(v) \in Addr
    BY DEF ClearBit0, Addr
  <2> QED BY <2>1, <2>2
<1> QED BY <1>2 DEF JumpTarget

LEMMA HostBytesType ==
    ASSUME TypeOK, NEW a \in Addr, NEW n \in 0..MaxIO
    PROVE  HostBytes(a, n) \in [1..n -> Byte]
<1> SUFFICES ASSUME NEW k \in 1..n PROVE LoadBytes(mem, Plus(a, k - 1), 1)[0] \in Byte
  BY DEF HostBytes
<1>1. Plus(a, k - 1) \in Addr
  BY PlusType, AddrNat
<1> QED BY <1>1, LoadBytesType DEF TypeOK, Word, Offsets

LEMMA SmallNumbers == 0 \in Addr /\ MinusOne \in Addr /\ 0..MaxIO \subseteq Addr
BY DEF Addr, MinusOne

(* The steps of the loop outside the handlers.                             *)
LEMMA StepTypes ==
    ASSUME TypeOK, LoadInsn \/ LoadInsnFault \/ DecodeInsn
    PROVE  TypeOK'
<1>1. SimOK' /\ OutOK' /\ pc' \in Addr /\ XPR' \in RegFile /\ FPR' \in RegFile
      /\ mem' \in MemMap
  <2>1. UNCHANGED <<pc, XPR, FPR, mem, sim, out>>
    BY DEF LoadInsn, LoadInsnFault, DecodeInsn
  <2>2. SimOK /\ OutOK /\ pc \in Addr /\ XPR \in RegFile /\ FPR \in RegFile /\ mem \in MemMap
    BY TypeParts
  <2> QED BY <2>1, <2>2 DEF SimOK, OutOK
<1>2. ControlOK'
  <2>1. CASE LoadInsn
    BY <2>1, FetchValueType, IncrementType DEF LoadInsn, TypeOK, ControlOK
  <2>2. CASE LoadInsnFault
    BY <2>2, IncrementType DEF LoadInsnFault, Stop, TypeOK, ControlOK, Outcomes
  <2>3. CASE DecodeInsn
    <3>1. PICK d \in Places : /\ c_desc' = d
                              /\ insn_count' = [insn_count EXCEPT ![d] = Increment(@)]
      BY <2>3 DEF DecodeInsn
    <3>2. insn_count' \in [Places -> 0..(IntMod - 1)]
      BY <3>1, IncrementType DEF TypeOK
    <3> QED BY <2>3, <3>1, <3>2 DEF DecodeInsn, TypeOK, ControlOK, Outcomes
  <2> QED BY <2>1, <2>2, <2>3
<1> QED BY <1>1, <1>2 DEF TypeOK, ControlOK, SimOK, OutOK

(* Handlers of instructions that return and touch neither sim nor out.     *)
LEMMA InstructionTypes ==
    ASSUME TypeOK,
           \/ ExecInteger \/ ExecFence \/ ExecBranch \/ ExecJump \/ ExecLoad
           \/ ExecFloat \/ ExecStore \/ ExecIllegal \/ SysIgnored
    PROVE  TypeOK'
<1>0. stage = "execute" /\ UNCHANGED <<sim, out>>
  BY DEF ExecInteger, ExecFence, ExecBranch, ExecJump, ExecLoad, ExecFloat, ExecStore,
         ExecIllegal, SysIgnored, Calling, Executing
<1>1. SimOK' /\ OutOK'
  BY <1>0, TypeParts DEF SimOK, OutOK
<1>2. CASE ExecInteger
  <2>1. XPR' \in RegFile
    BY <1>2, ResultType, OperandTypes, WriteRegType, TypeParts DEF ExecInteger, Executing
  <2> QED BY <1>0, <1>1, <1>2, <2>1, OperandTypes, HandlerType, TypeParts DEF ExecInteger
<1>3. CASE ExecFence \/ SysIgnored
  BY <1>0, <1>1, <1>3, OperandTypes, HandlerType, TypeParts DEF ExecFence, SysIgnored
<1>4. CASE ExecBranch
  <2>1. (IF Taken[desc.kind] THEN BranchTarget ELSE npc) \in Addr
    BY OperandTypes
  <2> QED BY <1>0, <1>1, <1>4, <2>1, HandlerType, TypeParts DEF ExecBranch
<1>5. CASE ExecJump
  <2>1. JumpTarget[desc.kind] \in Addr
    BY <1>5, JumpTargetType DEF ExecJump, Executing
  <2>2. XPR' \in RegFile
    BY <1>5, OperandTypes, WriteRegType, TypeParts DEF ExecJump
  <2> QED BY <1>0, <1>1, <1>5, <2>1, <2>2, HandlerType, TypeParts DEF ExecJump
<1>6. CASE ExecLoad
  <2>1. ValueOf(LoadValue(mem, Plus(RS1, desc.imm), desc.len, desc.kind)) \in Addr
    BY OperandTypes, LoadValueType, ValueOfType, TypeParts
  <2>2. XPR' \in RegFile
    BY <1>6, <2>1, OperandTypes, WriteRegType, TypeParts DEF ExecLoad
  <2> QED BY <1>0, <1>1, <1>6, <2>2, OperandTypes, HandlerType, TypeParts DEF ExecLoad
<1>7. CASE ExecStore
  <2>1. mem' \in MemMap
    BY <1>7, OperandTypes, StoredType, StoreBytesType, TypeParts DEF ExecStore
  <2> QED BY <1>0, <1>1, <1>7, <2>1, OperandTypes, HandlerType, TypeParts DEF ExecStore
<1>8. CASE ExecIllegal
  BY <1>0, <1>1, <1>8, SmallNumbers, HandlerType, TypeParts DEF ExecIllegal
<1>9. CASE ExecFloat
  <2>1. FPR' \in RegFile
    BY <1>9, FloatResultType, OperandTypes, TypeParts DEF ExecFloat, Executing, RegFile
  <2> QED BY <1>0, <1>1, <1>9, <2>1, OperandTypes, FloatHandlerType, TypeParts DEF ExecFloat
<1> QED BY <1>2, <1>3, <1>4, <1>5, <1>6, <1>7, <1>8, <1>9

LEMMA ThrowTypes ==
    ASSUME TypeOK, BranchMisaligned \/ JumpMisaligned \/ StoreDenied \/ SimReadDenied \/ SysExit
    PROVE  TypeOK'
<1>1. \E e \in Outcomes \ {"running"} : Throw(e)
  BY DEF BranchMisaligned, JumpMisaligned, StoreDenied, SimReadDenied, SysExit, Outcomes
<1> QED BY <1>1, ThrowType

(* System calls.                                                            *)
LEMMA NoSimType ==
    /\ NoSim \in [addr : Addr, read_num : {0}, buf : [0..(0 - 1) -> Byte], i : 0..0]
    /\ NoBytes \in [1..0 -> Byte] /\ 0 \in 0..MaxIO
<1>1. 0..(0 - 1) = 1..0
  OBVIOUS
<1>2. NoBytes \in [0..(0 - 1) -> Byte]
  BY <1>1 DEF NoBytes
<1> QED BY <1>1, <1>2, SmallNumbers DEF NoSim

LEMMA ReadNumType == TypeOK => sim.read_num \in 0..MaxIO
BY DEF TypeOK

LEMMA SystemCallTypes ==
    ASSUME TypeOK,
           \/ SysWrite \/ SysRead \/ SysReadFails \/ SimReadByte \/ SimReadReturn
           \/ SysTime \/ SysFstat \/ SysGettimeofday
    PROVE  TypeOK'
<1>0. /\ A0 \in Regs /\ A1 \in Regs /\ A2 \in Regs /\ npc \in Addr
      /\ XPR \in RegFile /\ FPR \in RegFile /\ mem \in MemMap /\ pc \in Addr
      /\ ControlOK /\ SimOK /\ OutOK
      /\ \A r \in Regs : XPR[r] \in Addr
  BY OperandTypes, TypeParts
<1>1. CASE SysWrite
  <2>1. XPR[A2] \in 0..MaxIO
    BY <1>0, <1>1, AddrNat DEF SysWrite
  <2>2. ASSUME XPR' = WriteReg(A0, MinusOne), UNCHANGED out
        PROVE  XPR' \in RegFile /\ OutOK'
    BY <1>0, <2>2, SmallNumbers, WriteRegType DEF OutOK
  <2>3. ASSUME NEW n \in 0..XPR[A2], out' = HostBytes(XPR[A1], n), XPR' = WriteReg(A0, n)
        PROVE  XPR' \in RegFile /\ OutOK'
    <3>1. n \in 0..MaxIO /\ n \in Addr
      BY <2>1, SmallNumbers
    <3> QED BY <1>0, <2>3, <3>1, HostBytesType, WriteRegType DEF OutOK
  <2>4. XPR' \in RegFile /\ OutOK'
    BY <1>1, <2>2, <2>3 DEF SysWrite
  <2> QED BY <1>0, <1>1, <2>4, HandlerType DEF SysWrite, Calling, Executing, SimOK
<1>2. CASE SysRead
  <2>1. XPR[A2] \in 0..MaxIO
    BY <1>0, <1>2, AddrNat DEF SysRead
  <2>2. PICK n \in 0..XPR[A2] : \E buf \in [0..(n - 1) -> Byte] :
            sim' = [addr |-> XPR[A1], read_num |-> n, buf |-> buf, i |-> 0]
    BY <1>2 DEF SysRead
  <2>3. n \in 0..MaxIO /\ 0 \in 0..n
    BY <2>1
  <2>4. SimOK'
    BY <1>0, <2>2, <2>3 DEF SimOK
  <2>5. ControlOK' /\ OutOK'
    BY <1>0, <1>2 DEF SysRead, Calling, Executing, ControlOK, OutOK, control
  <2> QED BY <1>0, <1>2, <2>4, <2>5 DEF SysRead, TypeOK, SimOK, ControlOK, OutOK
<1>3. CASE SysReadFails \/ SysFstat
  <2>1. XPR' \in RegFile
    BY <1>0, <1>3, SmallNumbers, WriteRegType DEF SysReadFails, SysFstat
  <2> QED BY <1>0, <1>3, <2>1, HandlerType
          DEF SysReadFails, SysFstat, Calling, Executing, SimOK, OutOK
<1>4. CASE SimReadByte
  <2>1. PICK n \in 0..MaxIO :
            sim \in [addr : Addr, read_num : {n}, buf : [0..(n - 1) -> Byte], i : 0..n]
    BY DEF TypeOK
  <2>2. sim.i \in 0..(n - 1) /\ sim.buf[sim.i] \in Byte
    BY <1>4, <2>1 DEF SimReadByte
  <2>3. mem' \in MemMap
    <3>1. SimAddr \in Addr /\ OneByte(sim.buf[sim.i]) \in Word /\ 1 \in 1..RegBytes
      BY <2>2, OneByteType, OperandTypes
    <3>2. mem' = StoreBytes(mem, SimAddr, 1, OneByte(sim.buf[sim.i]))
      BY <1>4 DEF SimReadByte
    <3> QED BY <1>0, <3>1, <3>2, StoreBytesType
  <2>4. sim.i + 1 \in 0..n
    BY <2>2
  <2>5. SimOK'
    BY <1>4, <2>1, <2>4 DEF SimReadByte, SimOK
  <2>6. ControlOK' /\ OutOK'
    BY <1>0, <1>4 DEF SimReadByte, ControlOK, OutOK, control
  <2> QED BY <1>0, <1>4, <2>3, <2>5, <2>6 DEF SimReadByte, TypeOK, SimOK, ControlOK, OutOK
<1>5. CASE SimReadReturn
  <2>1. XPR' \in RegFile
    BY <1>0, <1>5, ReadNumType, SmallNumbers, WriteRegType DEF SimReadReturn
  <2>2. SimOK'
    BY <1>5, NoSimType DEF SimReadReturn, SimOK
  <2> QED BY <1>0, <1>5, <2>1, <2>2, HandlerType DEF SimReadReturn, OutOK
<1>6. CASE SysTime
  <2>1. CASE XPR[A1] = 0
    <3>1. XPR' \in RegFile
      BY <1>0, <1>6, <2>1, WriteRegType DEF SysTime
    <3> QED BY <1>0, <1>6, <2>1, <3>1, HandlerType
            DEF SysTime, Calling, Executing, SimOK, OutOK
  <2>2. CASE XPR[A1] # 0
    BY <1>6, <2>2, ThrowType DEF SysTime, Outcomes
  <2> QED BY <2>1, <2>2
<1>7. CASE SysGettimeofday
  <2>1. XPR' \in RegFile /\ SimOK' /\ OutOK'
    BY <1>0, <1>7, SmallNumbers, WriteRegType DEF SysGettimeofday, SimOK, OutOK
  <2>2. PICK tv \in Timevals :
            IF WriteDenied(forbid, XPR[A0], RegBytes)
            THEN Stop("no_permission") /\ UNCHANGED <<control, pc, FPR, mem>>
            ELSE /\ mem' = StoreBytes(mem, XPR[A0], RegBytes, tv)
                 /\ ReturnTo(npc)
    BY <1>7 DEF SysGettimeofday
  <2>3. CASE WriteDenied(forbid, XPR[A0], RegBytes)
    <3>1. ControlOK' /\ pc' \in Addr /\ FPR' \in RegFile /\ mem' \in MemMap
      BY <1>0, <2>2, <2>3 DEF ControlOK, Stop, control, Outcomes
    <3> QED BY <2>1, <3>1 DEF TypeOK, SimOK, ControlOK, OutOK
  <2>4. CASE ~WriteDenied(forbid, XPR[A0], RegBytes)
    <3>1. mem' \in MemMap
      BY <1>0, <2>2, <2>4, StoreBytesType
    <3> QED BY <1>0, <1>7, <2>1, <2>2, <2>4, <3>1, HandlerType
            DEF SysGettimeofday, Calling, Executing
  <2> QED BY <2>3, <2>4
<1> QED BY <1>1, <1>2, <1>3, <1>4, <1>5, <1>6, <1>7

LEMMA TypeNext == TypeOK /\ [Next]_vars => TypeOK'
<1> SUFFICES ASSUME TypeOK, [Next]_vars PROVE TypeOK'
  OBVIOUS
<1>1. CASE UNCHANGED vars
  BY <1>1 DEF vars, TypeOK
<1>2. CASE Next
  BY <1>2, StepTypes, InstructionTypes, ThrowTypes, SystemCallTypes DEF Next, Execute
<1> QED BY <1>1, <1>2

(* Every variable of the interpreter keeps its type.                       *)
THEOREM TypeCorrect == Spec => []TypeOK
<1>1. Init => TypeOK
  <2> SUFFICES ASSUME Init PROVE TypeOK
    OBVIOUS
  <2>1. PICK p \in Programs : /\ mem = StoreBytes(p.mem, SP_INIT, RegBytes, Zero)
                             /\ forbid = p.forbid
    BY DEF Init
  <2>2. mem \in MemMap /\ forbid \in SUBSET (Addr \X Addr)
    BY <2>1, ZeroType, StoreBytesType
  <2>3. XPR \in RegFile /\ FPR \in RegFile
    BY DEF Init, RegFile
  <2>4. ControlOK
    BY <2>2, ZeroType DEF Init, ControlOK, Outcomes, Places
  <2>5. SimOK /\ OutOK
    BY NoSimType DEF Init, SimOK, OutOK
  <2> QED BY <2>2, <2>3, <2>4, <2>5, TypeParts DEF Init
<1> QED BY <1>1, TypeNext, PTL DEF Spec

-----------------------------------------------------------------------------
(* Alignment of pc.                                                        *)

(* set_pc looks at bit 1; with bit 0 clear that is alignment to four.       *)
LEMMA EvenTargets ==
    ASSUME NEW v \in Nat, v % 2 = 0, ~Misaligned(v)
    PROVE  v % 4 = 0
BY DEF Misaligned

LEMMA RemainderParity ==
    ASSUME NEW k \in Nat, NEW r \in Nat, NEW s \in Nat, s = 4 * k + r, s % 2 = 0
    PROVE  r % 2 = 0
OBVIOUS

LEMMA PlusEven ==
    ASSUME NEW x \in Nat, NEW y \in Nat, x % 2 = 0, y % 2 = 0
    PROVE  Plus(x, y) % 2 = 0
<1>1. AddrSpace \in Nat /\ AddrSpace > 0 /\ AddrSpace % 4 = 0
  BY AlignmentAssumption
<1>2. PICK n \in Nat : AddrSpace = 4 * n
  <2>1. AddrSpace = 4 * (AddrSpace \div 4)
    BY <1>1
  <2> QED BY <1>1, <2>1
<1>3. PICK q \in Nat : x + y = AddrSpace * q + Plus(x, y)
  <2>1. x + y = (AddrSpace * ((x + y) \div AddrSpace)) + ((x + y) % AddrSpace)
    BY <1>1
  <2>2. (x + y) \div AddrSpace \in Nat
    BY <1>1
  <2> QED BY <2>1, <2>2 DEF Plus
<1>4. Plus(x, y) \in Nat /\ (x + y) % 2 = 0
  BY <1>1 DEF Plus
<1>5. PICK k \in Nat : k = n * q
  OBVIOUS
<1>6. x + y = 4 * k + Plus(x, y)
  BY <1>2, <1>3, <1>5
<1> DEFINE s == x + y  r == Plus(x, y)
<1>7. s \in Nat /\ r \in Nat /\ s % 2 = 0 /\ s = 4 * k + r
  BY <1>4, <1>6
<1> HIDE DEF s, r
<1>8. r % 2 = 0
  BY <1>7, RemainderParity
<1> QED BY <1>8 DEF r

(* The instruction after an aligned one is aligned, across the wrap too.    *)
LEMMA NextAligned ==
    ASSUME NEW x \in Addr, x % 4 = 0
    PROVE  Plus(x, PC_INC) % 4 = 0
<1>1. AddrSpace \in Nat /\ AddrSpace % 4 = 0 /\ AddrSpace > 0 /\ PC_INC = 4
  BY AlignmentAssumption DEF PC_INC
<1>2. x \in Nat /\ x < AddrSpace
  BY DEF Addr
<1>3. x + 4 <= AddrSpace
  <2>1. PICK i \in Nat, n \in Nat : x = 4 * i /\ AddrSpace = 4 * n
    <3>1. x = 4 * (x \div 4) /\ x \div 4 \in Nat
      BY <1>2
    <3>2. AddrSpace = 4 * (AddrSpace \div 4) /\ AddrSpace \div 4 \in Nat
      BY <1>1
    <3> QED BY <3>1, <3>2
  <2>2. i < n
    BY <1>2, <2>1
  <2> QED BY <2>1, <2>2
<1>4. CASE x + 4 = AddrSpace
  <2>1. Plus(x, PC_INC) = 0
    BY <1>1, <1>4 DEF Plus
  <2> QED BY <2>1
<1>5. CASE x + 4 < AddrSpace
  <2>1. Plus(x, PC_INC) = x + 4
    BY <1>1, <1>2, <1>5 DEF Plus
  <2> QED BY <1>2, <2>1
<1> QED BY <1>3, <1>4, <1>5, <1>1, <1>2

LEMMA MultiplesAreEven == \A n \in Nat : n % 4 = 0 => n % 2 = 0
OBVIOUS

LEMMA AlignedIsEven == TypeOK /\ PcAligned => pc \in Nat /\ pc % 2 = 0
<1> SUFFICES ASSUME TypeOK, PcAligned PROVE pc \in Nat /\ pc % 2 = 0
  OBVIOUS
<1>1. pc \in Nat
  BY AddrNat, TypeParts
<1>2. pc % 4 = 0
  BY AlignmentAssumption DEF PcAligned, PC_INC
<1> QED BY <1>1, <1>2, MultiplesAreEven

(* The target of a taken branch or of a jump that set_pc lets pass.        *)
LEMMA BranchTargetAligned ==
    ASSUME TypeOK, PcAligned, desc.kind \in DOMAIN Taken, ~Misaligned(BranchTarget)
    PROVE  BranchTarget % 4 = 0
<1>1. pc \in Nat /\ pc % 2 = 0
  BY AlignedIsEven
<1>2. desc.imm \in Nat /\ desc.imm % 2 = 0
  BY AlignmentAssumption, OperandTypes, AddrNat DEF TypeOK, desc, Even, Taken
<1>3. BranchTarget \in Nat /\ BranchTarget % 2 = 0
  BY <1>1, <1>2, PlusEven, OperandTypes, AddrNat DEF BranchTarget
<1> QED BY <1>3, EvenTargets

LEMMA JumpTargetAligned ==
    ASSUME TypeOK, PcAligned, desc.kind \in DOMAIN JumpTarget,
           ~Misaligned(JumpTarget[desc.kind])
    PROVE  JumpTarget[desc.kind] % 4 = 0
<1>1. pc \in Nat /\ pc % 2 = 0 /\ desc.imm \in Nat
  BY AlignedIsEven, OperandTypes, AddrNat
<1>2. CASE desc.kind = "jal"
  <2>1. desc.imm % 2 = 0
    BY <1>2, AlignmentAssumption DEF TypeOK, desc, Even
  <2>2. Plus(pc, desc.imm) % 2 = 0 /\ Plus(pc, desc.imm) \in Nat
    BY <1>1, <2>1, PlusEven, PlusType, AddrNat
  <2> QED BY <1>2, <2>2, EvenTargets DEF JumpTarget
<1>3. CASE desc.kind = "jalr"
  <2>1. \A v \in Nat : ClearBit0(v) \in Nat /\ ClearBit0(v) % 2 = 0
    BY DEF ClearBit0
  <2>2. Plus(RS1, desc.imm) \in Nat
    BY OperandTypes, AddrNat
  <2>3. JumpTarget[desc.kind] = ClearBit0(Plus(RS1, desc.imm))
    BY <1>3 DEF JumpTarget
  <2> QED BY <2>1, <2>2, <2>3, EvenTargets
<1> QED BY <1>2, <1>3 DEF JumpTarget

(* Every step leaves pc on an instruction boundary.                        *)
LEMMA PcAlignedNext == TypeOK /\ PcAligned /\ [Next]_vars => PcAligned'
<1> SUFFICES ASSUME TypeOK, PcAligned, [Next]_vars PROVE PcAligned'
  OBVIOUS
<1>1. PC_INC = 4 /\ npc % 4 = 0
  BY AlignmentAssumption, NextAligned DEF TypeOK, PcAligned, npc, PC_INC
<1>2. CASE \/ LoadInsn \/ LoadInsnFault \/ DecodeInsn \/ SysRead \/ SimReadByte
           \/ UNCHANGED vars \/ \E e : Throw(e)
  BY <1>2 DEF LoadInsn, LoadInsnFault, DecodeInsn, SysRead, SimReadByte, Throw, vars, PcAligned
<1>3. CASE Return(npc)
  BY <1>1, <1>3 DEF Return, PcAligned
<1>4. CASE \/ ExecInteger \/ ExecFence \/ ExecLoad \/ ExecFloat \/ ExecStore \/ SysWrite
           \/ SysReadFails \/ SimReadReturn \/ SysIgnored \/ SysFstat
  BY <1>3, <1>4 DEF ExecInteger, ExecFence, ExecLoad, ExecFloat, ExecStore, SysWrite,
                    SysReadFails, SimReadReturn, SysIgnored, SysFstat, ReturnTo
<1>5. CASE BranchMisaligned \/ JumpMisaligned \/ StoreDenied \/ SimReadDenied \/ SysExit
  BY <1>2, <1>5 DEF BranchMisaligned, JumpMisaligned, StoreDenied, SimReadDenied, SysExit
<1>6. CASE ExecBranch
  BY <1>1, <1>6, BranchTargetAligned DEF ExecBranch, Executing, ReturnTo, Return, PcAligned
<1>7. CASE ExecJump
  BY <1>1, <1>7, JumpTargetAligned DEF ExecJump, Executing, ReturnTo, Return, PcAligned
<1>8. CASE ExecIllegal
  BY <1>1, <1>8 DEF ExecIllegal, ReturnTo, Return, PcAligned
<1>9. CASE SysTime
  BY <1>2, <1>3, <1>9 DEF SysTime, ReturnTo
<1>10. CASE SysGettimeofday
  BY <1>3, <1>10 DEF SysGettimeofday, ReturnTo, PcAligned
<1> QED BY <1>2, <1>4, <1>5, <1>6, <1>7, <1>8, <1>9, <1>10 DEF Next, Execute

(* pc stays aligned: no branch, jump, system call or illegal instruction    *)
(* of any program brings it off an instruction boundary.                    *)
THEOREM PcStaysAligned == Spec => []PcAligned
<1>1. Init => PcAligned
  BY AlignmentAssumption DEF Init, PcAligned, PC_INC
<1> QED BY <1>1, PcAlignedNext, TypeCorrect, PTL DEF Spec

(* Register 0 never changes.                                               *)
THEOREM ZeroRegisterStays == Spec => ZeroRegisterFixed
<1>1. TypeOK /\ [Next]_vars => [XPR'[0] = XPR[0]]_vars
  <2> SUFFICES ASSUME TypeOK, Next PROVE XPR'[0] = XPR[0]
    OBVIOUS
  <2>1. ASSUME NEW r \in Regs, NEW v, XPR' = WriteReg(r, v) PROVE XPR'[0] = XPR[0]
    BY <2>1 DEF WriteReg, TypeOK, RegFile
  <2>2. desc.rd \in Regs /\ A0 \in Regs
    BY OperandTypes
  <2>3. CASE \/ ExecInteger \/ ExecJump \/ ExecLoad \/ SysReadFails \/ SimReadReturn \/ SysFstat
             \/ SysGettimeofday
    BY <2>1, <2>2, <2>3 DEF ExecInteger, ExecJump, ExecLoad, SysReadFails, SimReadReturn,
                            SysFstat, SysGettimeofday
  <2>4. CASE SysWrite \/ SysTime
    BY <2>1, <2>2, <2>4 DEF SysWrite, SysTime, Throw
  <2>5. CASE \/ LoadInsn \/ LoadInsnFault \/ DecodeInsn \/ ExecFence \/ ExecBranch \/ ExecFloat
             \/ ExecStore \/ ExecIllegal \/ SysRead \/ SimReadByte \/ SysIgnored
    BY <2>5 DEF LoadInsn, LoadInsnFault, DecodeInsn, ExecFence, ExecBranch, ExecFloat,
                ExecStore, ExecIllegal, SysRead, SimReadByte, SysIgnored
  <2>6. CASE BranchMisaligned \/ JumpMisaligned \/ StoreDenied \/ SimReadDenied \/ SysExit
    BY <2>6 DEF BranchMisaligned, JumpMisaligned, StoreDenied, SimReadDenied, SysExit, Throw
  <2> QED BY <2>3, <2>4, <2>5, <2>6 DEF Next, Execute
<1> QED BY <1>1, TypeCorrect, PTL DEF Spec, ZeroRegisterFixed

-----------------------------------------------------------------------------
(* Memory.                                                                  *)

(* Nothing that stores returns to decode or execute.                       *)
LEMMA FreshNext == FetchIsFresh /\ [Next]_vars => FetchIsFresh'
<1> SUFFICES ASSUME FetchIsFresh, [Next]_vars PROVE FetchIsFresh'
  OBVIOUS
<1>1. CASE LoadInsn
  BY <1>1 DEF LoadInsn, FetchIsFresh
<1>2. CASE DecodeInsn
  BY <1>2 DEF DecodeInsn, FetchIsFresh
<1>3. CASE UNCHANGED vars
  BY <1>3 DEF vars, FetchIsFresh
<1>4. CASE LoadInsnFault \/ Execute
  <2>1. stage' \in {"fetch", "halted", "sim_read"}
    BY <1>4 DEF LoadInsnFault, Execute, ExecInteger, ExecFence, ExecBranch, BranchMisaligned,
                ExecJump, JumpMisaligned, ExecLoad, ExecFloat, ExecStore, StoreDenied,
                ExecIllegal, SysWrite, SysRead, SysReadFails, SimReadByte, SimReadDenied,
                SimReadReturn, SysTime, SysExit, SysIgnored, SysFstat, SysGettimeofday,
                ReturnTo, Return, Throw, Stop
  <2> QED BY <2>1 DEF FetchIsFresh
<1> QED BY <1>1, <1>2, <1>3, <1>4 DEF Next

(* What is executed is what memory holds at pc, also for a program that    *)
(* writes its own code: nothing that stores returns to decode or execute.  *)
THEOREM FetchStaysFresh == Spec => []FetchIsFresh
<1>1. Init => FetchIsFresh
  BY DEF Init, FetchIsFresh
<1> QED BY <1>1, FreshNext, PTL DEF Spec

LEMMA WideBlockStays ==
    ASSUME TypeOK, Next, NEW b \in forbid, Wide(b), NEW a \in Block(b)
    PROVE  mem'[a] = mem[a]
<1>1. mem \in MemMap /\ forbid \in SUBSET (Addr \X Addr) /\ 1 \in 1..RegBytes
      /\ RegBytes \in 1..RegBytes
  BY DEF TypeOK
<1>2. CASE ExecStore
  BY <1>1, <1>2, OperandTypes, StoredType, StoreBytesSparesWide DEF ExecStore
<1>3. CASE SimReadByte
  <2>1. OneByte(sim.buf[sim.i]) \in Word
    <3>1. PICK n \in 0..MaxIO :
            sim \in [addr : Addr, read_num : {n}, buf : [0..(n - 1) -> Byte], i : 0..n]
      BY DEF TypeOK
    <3>2. sim.i \in 0..(n - 1) /\ sim.buf[sim.i] \in Byte
      BY <1>3, <3>1 DEF SimReadByte
    <3> QED BY <3>2, OneByteType
  <2>2. /\ mem' = StoreBytes(mem, SimAddr, 1, OneByte(sim.buf[sim.i]))
        /\ ~WriteDenied(forbid, SimAddr, 1) /\ SimAddr \in Addr
    BY <1>3, OperandTypes DEF SimReadByte
  <2> QED BY <1>1, <2>1, <2>2, StoreBytesSparesWide
<1>4. CASE SysGettimeofday
  BY <1>1, <1>4, OperandTypes, StoreBytesSparesWide DEF SysGettimeofday
<1>5. CASE \/ LoadInsn \/ LoadInsnFault \/ DecodeInsn \/ ExecInteger \/ ExecFence \/ ExecBranch
           \/ ExecJump \/ ExecLoad \/ ExecFloat \/ ExecIllegal \/ SysWrite \/ SysRead
           \/ SysReadFails \/ SimReadReturn \/ SysIgnored \/ SysFstat
  BY <1>5 DEF LoadInsn, LoadInsnFault, DecodeInsn, ExecInteger, ExecFence, ExecBranch,
              ExecJump, ExecLoad, ExecFloat, ExecIllegal, SysWrite, SysRead, SysReadFails,
              SimReadReturn, SysIgnored, SysFstat
<1>6. CASE \/ BranchMisaligned \/ JumpMisaligned \/ StoreDenied \/ SimReadDenied \/ SysExit
           \/ SysTime
  BY <1>6 DEF BranchMisaligned, JumpMisaligned, StoreDenied, SimReadDenied, SysExit, SysTime,
              Throw
<1> QED BY <1>2, <1>3, <1>4, <1>5, <1>6 DEF Next, Execute

(* No instruction or system call changes a byte of a wide forbidden block. *)
THEOREM ForbiddenAlwaysStays == Spec => ForbiddenStays
<1> DEFINE Kept == \A b \in forbid : Wide(b) => \A a \in Block(b) : mem'[a] = mem[a]
<1>1. TypeOK /\ [Next]_vars => [Kept]_vars
  BY WideBlockStays
<1> QED BY <1>1, TypeCorrect, PTL DEF Spec, ForbiddenStays

(* Nothing is forbidden or allowed while the guest runs.                    *)
LEMMA BlocksStay == Next => UNCHANGED forbid
<1> SUFFICES ASSUME Next PROVE UNCHANGED forbid
  OBVIOUS
<1>1. CASE \/ LoadInsn \/ LoadInsnFault \/ DecodeInsn \/ SysRead \/ SimReadByte
           \/ \E t : Return(t) \/ \E e : Throw(e)
  BY <1>1 DEF LoadInsn, LoadInsnFault, DecodeInsn, SysRead, SimReadByte, Return, Throw, control
<1>2. CASE \/ ExecInteger \/ ExecFence \/ ExecBranch \/ ExecJump \/ ExecLoad \/ ExecFloat
           \/ ExecStore \/ ExecIllegal \/ SysWrite \/ SysReadFails \/ SimReadReturn
           \/ SysIgnored \/ SysFstat
  BY <1>1, <1>2 DEF ExecInteger, ExecFence, ExecBranch, ExecJump, ExecLoad, ExecFloat,
     ExecStore, ExecIllegal, SysWrite, SysReadFails, SimReadReturn, SysIgnored, SysFstat,
     ReturnTo
<1>3. CASE \/ BranchMisaligned \/ JumpMisaligned \/ StoreDenied \/ SimReadDenied \/ SysExit
           \/ SysTime
  BY <1>1, <1>3 DEF BranchMisaligned, JumpMisaligned, StoreDenied, SimReadDenied, SysExit,
     SysTime, ReturnTo
<1>4. CASE SysGettimeofday
  BY <1>4 DEF SysGettimeofday, ReturnTo, Return, control
<1> QED BY <1>1, <1>2, <1>3, <1>4 DEF Next, Execute

(* Addresses at different distances from one address differ.               *)
LEMMA PlusInjective ==
    ASSUME NEW a \in Addr, NEW j \in Nat, NEW k \in Nat, j < k, k < AddrSpace
    PROVE  Plus(a, j) # Plus(a, k)
<1>1. AddrSpace \in Nat /\ AddrSpace > 0 /\ a \in Nat /\ a < AddrSpace
  BY DEF Addr
<1>2. \A n \in Nat : n < AddrSpace =>
          Plus(a, n) = IF a + n < AddrSpace THEN a + n ELSE (a + n) - AddrSpace
  BY <1>1, WrapOnce DEF Plus
<1>3. /\ Plus(a, j) = a + j \/ Plus(a, j) = (a + j) - AddrSpace
      /\ Plus(a, k) = a + k \/ Plus(a, k) = (a + k) - AddrSpace
  BY <1>2
<1> HIDE MemoryAssumption, CpuAssumption, TableAssumption
<1> QED BY <1>1, <1>3

(* A byte that SIM_read passes does not fall on an earlier one.            *)
LEMMA SimReadNext == TypeOK /\ SimReadInOrder /\ [Next]_vars => SimReadInOrder'
<1> SUFFICES ASSUME TypeOK, SimReadInOrder, [Next]_vars PROVE SimReadInOrder'
  OBVIOUS
<1>1. CASE SimReadByte
  <2>1. PICK n \in 0..MaxIO :
          sim \in [addr : Addr, read_num : {n}, buf : [0..(n - 1) -> Byte], i : 0..n]
    BY DEF TypeOK
  <2>2. sim.addr \in Addr /\ sim.i \in 0..(n - 1) /\ sim.buf[sim.i] \in Byte
    BY <1>1, <2>1 DEF SimReadByte
  <2>3. sim'.addr = sim.addr /\ sim'.buf = sim.buf /\ sim'.i = sim.i + 1
    BY <1>1, <2>1 DEF SimReadByte
  <2>4. /\ mem \in MemMap /\ SimAddr \in Addr /\ OneByte(sim.buf[sim.i]) \in Word
        /\ 1 \in 1..RegBytes /\ 0 \in 0..(1 - 1)
        /\ mem' = StoreBytes(mem, SimAddr, 1, OneByte(sim.buf[sim.i]))
    BY <1>1, <2>2, TypeParts, OperandTypes, OneByteType DEF SimReadByte
  <2>5. Touched(SimAddr, 1) = {SimAddr} /\ At(SimAddr, 0) = SimAddr
    BY <2>4 DEF Touched, At, Addr
  <2>6. mem'[SimAddr] = sim.buf[sim.i]
    <3>1. OneByte(sim.buf[sim.i])[0] = sim.buf[sim.i]
      BY <2>2, ZeroType DEF OneByte, Word, Offsets
    <3> QED BY <2>4, <2>5, <3>1, StoreBytesAt
  <2>7. ASSUME NEW k \in 0..(sim.i - 1) PROVE mem'[Plus(sim.addr, k)] = sim.buf[k]
    <3>1. k \in Nat /\ sim.i \in Nat /\ k < sim.i /\ sim.i < AddrSpace
      BY <2>2
    <3>2. Plus(sim.addr, k) \in Addr /\ Plus(sim.addr, k) # SimAddr
      BY <2>2, <3>1, PlusInjective, PlusType, AddrNat DEF SimAddr
    <3>3. mem'[Plus(sim.addr, k)] = mem[Plus(sim.addr, k)]
      BY <2>4, <2>5, <3>2, StoreBytesElsewhere
    <3> QED BY <1>1, <3>3 DEF SimReadInOrder, SimReadByte
  <2>8. \A k \in 0..(sim'.i - 1) : k \in 0..(sim.i - 1) \/ k = sim.i
    BY <2>2, <2>3
  <2> QED BY <2>3, <2>6, <2>7, <2>8 DEF SimReadInOrder, SimAddr
<1>2. CASE SysRead
  BY <1>2 DEF SysRead, SimReadInOrder
<1>3. CASE UNCHANGED vars
  BY <1>3 DEF vars, SimReadInOrder
<1>4. CASE Next /\ ~SimReadByte /\ ~SysRead
  <2>1. stage' # "sim_read"
    BY <1>4 DEF Next, LoadInsn, LoadInsnFault, DecodeInsn, Execute, ExecInteger, ExecFence,
                ExecBranch, BranchMisaligned, ExecJump, JumpMisaligned, ExecLoad, ExecFloat,
                ExecStore, StoreDenied, ExecIllegal, SysWrite, SysReadFails, SimReadDenied,
                SimReadReturn, SysTime, SysExit, SysIgnored, SysFstat, SysGettimeofday,
                ReturnTo, Return, Throw, Stop
  <2> QED BY <2>1 DEF SimReadInOrder
<1> QED BY <1>1, <1>2, <1>3, <1>4

(* While SIM_read copies, what it has passed stays in memory, in order:     *)
(* later bytes never fall on earlier ones, even in a range that wraps.      *)
THEOREM SimReadAlwaysInOrder == Spec => []SimReadInOrder
<1>1. Init => SimReadInOrder
  BY DEF Init, SimReadInOrder
<1> QED BY <1>1, SimReadNext, TypeCorrect, PTL DEF Spec

-----------------------------------------------------------------------------
(* Counters.                                                               *)

(* A counter that wraps agrees with one that does not, modulo the wrap.    *)
LEMMA IncrementOfRemainder ==
    ASSUME NEW t \in Nat
    PROVE  (t + 1) % IntMod = Increment(t % IntMod)
<1> DEFINE q == t \div IntMod  r == t % IntMod
<1>1. t = IntMod * q + r /\ q \in Nat /\ r \in Nat /\ r < IntMod /\ IntMod \in Nat /\ IntMod > 0
  OBVIOUS
<1> HIDE DEF q, r
<1> HIDE MemoryAssumption, CpuAssumption, TableAssumption
<1>2. CASE r + 1 < IntMod
  <2>1. t + 1 = IntMod * q + (r + 1)
    BY <1>1
  <2>2. (t + 1) % IntMod = r + 1
    BY <1>1, <1>2, <2>1, DivisionUnique
  <2>3. (r + 1) % IntMod = r + 1
    BY <1>1, <1>2
  <2> QED BY <2>2, <2>3 DEF Increment, r
<1>3. CASE r + 1 = IntMod
  <2>1. IntMod * (q + 1) = IntMod * q + IntMod
    BY <1>1
  <2>2. t + 1 = IntMod * (q + 1) + 0 /\ q + 1 \in Nat
    BY <1>1, <1>3, <2>1
  <2>3. (t + 1) % IntMod = 0
    BY <1>1, <2>2, DivisionUnique
  <2>4. (r + 1) % IntMod = 0
    BY <1>1, <1>3
  <2> QED BY <2>3, <2>4 DEF Increment, r
<1> QED BY <1>1, <1>2, <1>3

LEMMA RemainderOfRest ==
    ASSUME NEW t \in Nat, t >= IntMod
    PROVE  (t - IntMod) % IntMod = t % IntMod
<1> DEFINE q == t \div IntMod  r == t % IntMod
<1>1. t = IntMod * q + r /\ q \in Nat /\ r \in Nat /\ r < IntMod /\ IntMod \in Nat /\ IntMod > 0
  OBVIOUS
<1> HIDE DEF q, r
<1> HIDE MemoryAssumption, CpuAssumption, TableAssumption
<1>2. q # 0
  BY <1>1
<1>3. IntMod * q = IntMod * (q - 1) + IntMod /\ q - 1 \in Nat
  BY <1>1, <1>2
<1>4. t - IntMod = IntMod * (q - 1) + r /\ t - IntMod \in Nat
  BY <1>1, <1>3
<1>5. (t - IntMod) % IntMod = r
  BY <1>1, <1>3, <1>4, DivisionUnique
<1> QED BY <1>5 DEF r

Undecoded == stage = "decode" \/ outcome = "invalid_address"
(* One more count, of one entry, is one more in the sum, modulo the wrap.  *)
LEMMA CountOneMore ==
    \A counts, h \in [Places -> 0..(IntMod - 1)] : \A d \in Places :
        /\ h[d] = Increment(counts[d]) /\ \A x \in Places \ {d} : h[x] = counts[x]
        => Sum(h) % IntMod = (Sum(counts) + 1) % IntMod
<1> SUFFICES ASSUME NEW counts \in [Places -> 0..(IntMod - 1)], NEW d \in Places,
                    NEW h \in [Places -> 0..(IntMod - 1)], h[d] = Increment(counts[d]),
                    \A x \in Places \ {d} : h[x] = counts[x]
             PROVE  Sum(h) % IntMod = (Sum(counts) + 1) % IntMod
  OBVIOUS
<1>1. IsFiniteSet(Places)
  BY FS_Interval DEF Places
<1>2. counts \in [Places -> Nat] /\ h \in [Places -> Nat]
  <2>1. 0..(IntMod - 1) \subseteq Nat
    OBVIOUS
  <2> QED BY <2>1
<1>3. Sum(counts) \in Nat /\ Sum(h) \in Nat
  BY <1>1, <1>2, SumType
<1>4. h[d] \in Nat /\ DOMAIN h = Places
  BY <1>2
<1>5. Sum(h) = Sum(counts) + h[d] - counts[d]
  BY <1>1, <1>2, <1>4, SumChanged
<1>6. \/ h[d] = counts[d] + 1
      \/ h[d] = 0 /\ counts[d] = IntMod - 1
  BY IncrementCases
<1>7. counts[d] \in Nat /\ IntMod \in Nat
  BY <1>2
<1>8. CASE h[d] = counts[d] + 1
  <2>1. Sum(h) = Sum(counts) + 1
    BY <1>3, <1>5, <1>7, <1>8
  <2> QED BY <2>1
<1>9. CASE h[d] = 0 /\ counts[d] = IntMod - 1
  <2> DEFINE t == Sum(counts) + 1
  <2>1. Sum(h) = t - IntMod /\ t \in Nat /\ t >= IntMod
    BY <1>3, <1>5, <1>7, <1>9
  <2> HIDE DEF t
  <2>2. Sum(h) % IntMod = t % IntMod
    BY <2>1, RemainderOfRest
  <2> QED BY <2>2 DEF t
<1> QED BY <1>6, <1>8, <1>9

(* CountsMatchSteps, with the sum named.                                   *)
Counted == (Sum(insn_count) + (IF Undecoded THEN 1 ELSE 0)) % IntMod = step

LEMMA CountsAsSum == CountsMatchSteps <=> Counted
BY Zenon DEF CountsMatchSteps, Counted, Undecoded, Sum

LEMMA CountsInit == Init => Counted
<1> SUFFICES ASSUME Init PROVE Counted
  OBVIOUS
<1>1. IsFiniteSet(Places)
  BY FS_Interval DEF Places
<1>2. insn_count = [d \in Places |-> 0] /\ step = 0 /\ ~Undecoded
  BY DEF Init, Undecoded
<1>3. Sum(insn_count) = 0
  BY <1>1, <1>2, SumZero
<1> QED BY <1>2, <1>3 DEF Counted

(* A handler starts with the iteration counted and leaves it so.            *)
LEMMA HandlersCountNothing ==
    ASSUME TypeOK, Execute
    PROVE  UNCHANGED <<step, insn_count>> /\ ~Undecoded /\ ~Undecoded'
<1> USE DEF Undecoded
<1>0. stage \in {"execute", "sim_read"} /\ outcome = "running"
  BY DEF TypeOK, Execute, ExecInteger, ExecFence, ExecBranch, BranchMisaligned,
         ExecJump, JumpMisaligned, ExecLoad, ExecFloat, ExecStore, StoreDenied,
         ExecIllegal, SysWrite, SysRead, SysReadFails, SimReadByte, SimReadDenied, SimReadReturn,
         SysTime, SysExit, SysIgnored, SysFstat, SysGettimeofday, Calling, Executing
<1>1. CASE SysRead \/ SimReadByte \/ \E t : Return(t)
  BY <1>0, <1>1 DEF SysRead, SimReadByte, Return, control
<1>2. CASE \E e \in Outcomes \ {"invalid_address"} : Throw(e)
  BY <1>0, <1>2 DEF Throw, Stop, control
<1>3. CASE \/ ExecInteger \/ ExecFence \/ ExecBranch \/ ExecJump \/ ExecLoad \/ ExecFloat
           \/ ExecStore \/ ExecIllegal \/ SysWrite \/ SysReadFails \/ SimReadReturn
           \/ SysIgnored \/ SysFstat
  BY <1>1, <1>3 DEF ExecInteger, ExecFence, ExecBranch, ExecJump, ExecLoad, ExecFloat,
     ExecStore, ExecIllegal, SysWrite, SysReadFails, SimReadReturn, SysIgnored, SysFstat,
     ReturnTo
<1>4. CASE \/ BranchMisaligned \/ JumpMisaligned \/ StoreDenied \/ SimReadDenied \/ SysExit
           \/ SysTime
  BY <1>1, <1>2, <1>4 DEF BranchMisaligned, JumpMisaligned, StoreDenied, SimReadDenied, SysExit,
     SysTime, ReturnTo, Outcomes
<1>5. CASE SysGettimeofday
  BY <1>0, <1>1, <1>5 DEF SysGettimeofday, ReturnTo, Stop, control
<1> QED BY <1>1, <1>3, <1>4, <1>5 DEF Execute

LEMMA CountsNext == TypeOK /\ Counted /\ [Next]_vars => Counted'
<1> SUFFICES ASSUME TypeOK, Counted, [Next]_vars PROVE Counted'
  OBVIOUS
<1>1. IsFiniteSet(Places) /\ insn_count \in [Places -> 0..(IntMod - 1)]
      /\ insn_count \in [Places -> Nat]
  <2>1. IsFiniteSet(Places)
    BY FS_Interval DEF Places
  <2>2. 0..(IntMod - 1) \subseteq Nat
    OBVIOUS
  <2> QED BY <2>1, <2>2 DEF TypeOK
<1>2. Sum(insn_count) \in Nat
  BY <1>1, SumType
<1>3. (Sum(insn_count) + (IF Undecoded THEN 1 ELSE 0)) % IntMod = step
  BY DEF Counted
<1> SUFFICES (Sum(insn_count') + (IF Undecoded' THEN 1 ELSE 0)) % IntMod = step'
  BY DEF Counted
<1>4. CASE LoadInsn \/ LoadInsnFault
  <2>1. ~Undecoded /\ Undecoded' /\ insn_count' = insn_count /\ step' = Increment(step)
    BY <1>4 DEF LoadInsn, LoadInsnFault, Stop, Undecoded, TypeOK
  <2>2. Sum(insn_count) % IntMod = step
    BY <1>2, <1>3, <2>1
  <2> QED BY <1>2, <2>1, <2>2, IncrementOfRemainder
<1>5. CASE DecodeInsn
  <2>1. PICK d \in Places : insn_count' = [insn_count EXCEPT ![d] = Increment(@)]
    BY <1>5 DEF DecodeInsn
  <2>2. Undecoded /\ ~Undecoded' /\ step' = step
    BY <1>5 DEF DecodeInsn, Undecoded, TypeOK
  <2>3. Sum(insn_count') % IntMod = (Sum(insn_count) + 1) % IntMod
    <3>1. /\ insn_count' \in [Places -> 0..(IntMod - 1)]
          /\ insn_count'[d] = Increment(insn_count[d])
          /\ \A x \in Places \ {d} : insn_count'[x] = insn_count[x]
      BY <1>1, <2>1, IncrementType
    <3> QED BY <1>1, <3>1, CountOneMore
  <2>4. Sum(insn_count') \in Nat
    <3>1. insn_count' \in [Places -> Nat]
      BY <1>1, <2>1, IncrementType
    <3> QED BY <1>1, <3>1, SumType
  <2> QED BY <1>3, <2>2, <2>3, <2>4
<1>6. CASE Execute
  BY <1>3, <1>6, HandlersCountNothing
<1>7. CASE UNCHANGED vars
  BY <1>3, <1>7 DEF vars, Undecoded
<1> QED BY <1>4, <1>5, <1>6, <1>7 DEF Next

(* The counters that print_count shows add up to the steps taken, also     *)
(* after an int has wrapped and whatever stopped the program.              *)
THEOREM CountsAlwaysMatch == Spec => []CountsMatchSteps
BY CountsInit, CountsNext, CountsAsSum, TypeCorrect, PTL DEF Spec
=============================================================================
