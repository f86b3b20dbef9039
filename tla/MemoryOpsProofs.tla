--------------------------- MODULE MemoryOpsProofs ---------------------------
(* What the operators of MemoryOps return, for every address space, byte    *)
(* and register.                                                            *)
EXTENDS MemoryOps, TLAPS

USE MemoryAssumption

(* An address plus an offset within a register is an address.              *)
LEMMA AtType == \A a \in Addr : \A k \in 0..RegBytes : k < RegBytes => At(a, k) \in Addr
BY DEF Addr, At

(* The offsets of a range of addresses are distinct places.                *)
LEMMA AtInjective ==
    \A a \in Addr : \A j, k \in Offsets : At(a, j) = At(a, k) => j = k
BY DEF Addr, At, Offsets

LEMMA ZeroType == Zero \in Word
BY DEF Zero, Word, Byte, Offsets

(* Sign extension of a register is a register.                             *)
LEMMA SignExtendType ==
    \A w \in Word : \A len \in 1..RegBytes : SignExtend(w, len) \in Word
BY DEF Word, SignExtend, Byte, Offsets

(* A store that touches a wide block has one of its ends in it.            *)
LEMMA EndsGuardWideBlocks ==
    ASSUME NEW a \in Addr, NEW len \in 1..RegBytes, NEW k \in 0..(len - 1),
           NEW b \in Addr \X Addr, Wide(b), At(a, k) \in Block(b)
    PROVE  \/ b[1] <= a /\ a <= b[2]
           \/ b[1] <= At(a, len - 1) /\ At(a, len - 1) <= b[2]
<1> DEFINE lo == b[1]  hi == b[2]
<1>1. lo \in Addr /\ hi \in Addr
  OBVIOUS
<1>2. hi - lo >= RegBytes - 2 /\ lo <= At(a, k) /\ At(a, k) <= hi
  BY DEF Wide, Block
<1> HIDE DEF lo, hi
<1>3. (lo <= a /\ a <= hi) \/ (lo <= At(a, len - 1) /\ At(a, len - 1) <= hi)
  BY <1>1, <1>2 DEF At, Addr
<1> QED BY <1>3 DEF lo, hi

(* A load returns a register, whatever is mapped.                          *)
LEMMA LoadBytesType ==
    ASSUME NEW m \in MemMap, NEW a \in Addr, NEW len \in 1..RegBytes
    PROVE  LoadBytes(m, a, len) \in Word
<1> SUFFICES ASSUME NEW k \in Offsets PROVE LoadBytes(m, a, len)[k] \in Byte
  BY DEF LoadBytes, Word
<1> DEFINE j == CHOOSE n \in MappedBelow(m, a, len) :
                    Cardinality(MappedBelow(m, a, n)) = k
<1>1. CASE \E n \in MappedBelow(m, a, len) : Cardinality(MappedBelow(m, a, n)) = k
  <2>1. j \in MappedBelow(m, a, len)
    BY <1>1
  <2>2. m[At(a, j)] # NoByte /\ At(a, j) \in Addr
    BY <2>1, AtType DEF MappedBelow
  <2>3. LoadBytes(m, a, len)[k] = m[At(a, j)]
    BY <1>1 DEF LoadBytes
  <2> QED BY <2>2, <2>3 DEF MemMap
<1>2. CASE ~\E n \in MappedBelow(m, a, len) : Cardinality(MappedBelow(m, a, n)) = k
  BY <1>2 DEF LoadBytes, Byte
<1> QED BY <1>1, <1>2

LEMMA LoadValueType ==
    ASSUME NEW m \in MemMap, NEW a \in Addr, NEW len \in 1..RegBytes, NEW op
    PROVE  LoadValue(m, a, len, op) \in Word
BY LoadBytesType, SignExtendType DEF LoadValue

(* A store puts its bytes at its addresses and leaves the others alone.    *)
LEMMA StoreBytesAt ==
    ASSUME NEW m \in MemMap, NEW a \in Addr, NEW len \in 1..RegBytes,
           NEW w \in Word, NEW k \in 0..(len - 1)
    PROVE  StoreBytes(m, a, len, w)[At(a, k)] = w[k]
<1> DEFINE n == CHOOSE n \in 0..(len - 1) : At(a, n) = At(a, k)
<1>1. n \in 0..(len - 1) /\ At(a, n) = At(a, k)
  OBVIOUS
<1>2. n = k
  BY <1>1, AtInjective DEF Offsets
<1>3. At(a, k) \in Addr
  BY AtType
<1>4. StoreBytes(m, a, len, w)[At(a, k)] = w[n]
  BY <1>3 DEF StoreBytes, StoreFrom
<1> QED BY <1>2, <1>4

LEMMA StoreBytesElsewhere ==
    ASSUME NEW m \in MemMap, NEW a \in Addr, NEW len \in 1..RegBytes,
           NEW w \in Word, NEW b \in Addr, b \notin Touched(a, len)
    PROVE  StoreBytes(m, a, len, w)[b] = m[b]
BY DEF StoreBytes, StoreFrom, Touched

LEMMA StoreBytesType ==
    ASSUME NEW m \in MemMap, NEW a \in Addr, NEW len \in 1..RegBytes, NEW w \in Word
    PROVE  StoreBytes(m, a, len, w) \in MemMap
<1> SUFFICES ASSUME NEW b \in Addr
             PROVE  StoreBytes(m, a, len, w)[b] \in Byte \cup {NoByte}
  BY DEF StoreBytes, StoreFrom, MemMap
<1>1. CASE b \in Touched(a, len)
  <2>1. PICK k \in 0..(len - 1) : b = At(a, k)
    BY <1>1 DEF Touched
  <2> QED BY <2>1, StoreBytesAt DEF Word, Offsets
<1>2. CASE b \notin Touched(a, len)
  BY <1>2, StoreBytesElsewhere DEF MemMap
<1> QED BY <1>1, <1>2

(* A store that passes the test changes no byte of a wide block.           *)
LEMMA StoreBytesSparesWide ==
    ASSUME NEW m \in MemMap, NEW a \in Addr, NEW len \in 1..RegBytes, NEW w \in Word,
           NEW forbid \in SUBSET (Addr \X Addr), ~WriteDenied(forbid, a, len),
           NEW b \in forbid, Wide(b), NEW c \in Block(b)
    PROVE  StoreBytes(m, a, len, w)[c] = m[c]
<1>1. c \in Addr
  BY DEF Block
<1>2. c \notin Touched(a, len)
  <2> SUFFICES ASSUME NEW k \in 0..(len - 1), c = At(a, k) PROVE FALSE
    BY DEF Touched
  <2> QED BY EndsGuardWideBlocks DEF WriteDenied, ban
<1> QED BY <1>1, <1>2, StoreBytesElsewhere

(* A fetch that does not fault returns a register.                         *)
LEMMA FetchValueType ==
    ASSUME NEW m \in MemMap, NEW a \in Addr, ~FetchFaults(m, a)
    PROVE  FetchValue(m, a) \in Word
<1> DEFINE w == [k \in Offsets |-> IF k < FetchBytes THEN m[At(a, k)] ELSE 0]
<1>1. w \in Word
  <2> SUFFICES ASSUME NEW k \in Offsets PROVE w[k] \in Byte
    BY DEF Word
  <2>1. CASE k < FetchBytes
    BY <2>1, AtType DEF FetchFaults, MemMap, Offsets
  <2>2. CASE ~(k < FetchBytes)
    BY <2>2 DEF Byte
  <2> QED BY <2>1, <2>2
<1> QED BY <1>1, SignExtendType DEF FetchValue
=============================================================================
