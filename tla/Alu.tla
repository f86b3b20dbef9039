--------------------------------- MODULE Alu ---------------------------------
(***************************************************************************)
(* Additions, shifts, logic and comparisons of func.h (lines 141-289 and    *)
(* 514-594), and the conditions of the branches.  A shift by s to the left  *)
(* multiplies by 2^s; one to the right divides by it and rounds down.       *)
(***************************************************************************)
EXTENDS Registers, Functions

CONSTANTS
    XLEN,      \* bits of a register, 64 in the code
    Rs2Field   \* the number of the register that holds b, as encoded

ASSUME AluAssumption ==
    /\ XLEN \in Nat \ {0} /\ XLEN % 2 = 0
    /\ H = 2 ^ (XLEN \div 2)
    /\ Rs2Field \in 0..31

(* What a prover needs to know of the factors of the shifts.               *)
ASSUME FactorAssumption ==
    /\ 2 ^ 0 = 1 /\ 2 ^ 1 = 2
    /\ \A s, t \in 0..XLEN : /\ 2 ^ s \in Nat \ {0}
                             /\ s + t <= XLEN => 2 ^ (s + t) = (2 ^ s) * (2 ^ t)

Shl(x, s) == Unsigned(x * 2 ^ s)
Shr(n, s) == n \div 2 ^ s

(* The shift amounts: RS2 & (xlen - 1), and RS2 & 0x1F.  slliw takes SHAMT  *)
(* as it is, but its mask in encoding.h leaves only five bits of it free.   *)
ByReg_Half(y) == y % (XLEN \div 2)
ByReg(y) == y % XLEN
ByHalf(y) == y % (XLEN \div 2)

(* 64-bit results for RS1 = x and RS2 = y, or the immediate of the i form.  *)
add(x, y) == Unsigned(x + y)
sub(x, y) == Unsigned(x - y)
mul(x, y) == Unsigned(x * y)
sll(x, y) == Shl(x, ByReg(y))
srl(x, y) == Shr(x, ByReg(y))
sra(x, y) == Unsigned(Shr(Signed(x), ByReg(y)))
slt(x, y) == IF Signed(x) < Signed(y) THEN 1 ELSE 0
sltiu_Signed(x, y) == IF Signed(x) < Signed(y) THEN 1 ELSE 0
sltiu(x, y) == IF x < y THEN 1 ELSE 0

(* &, | and ^ of RS1 and RS2, or of RS1 and the immediate.                  *)
Bits == 0..(XLEN - 1)
BitSet(x) == {i \in Bits : (x \div 2 ^ i) % 2 = 1}
OfBits(s) == FoldFunction(+, 0, [i \in Bits |-> IF i \in s THEN 2 ^ i ELSE 0])
and(x, y) == OfBits(BitSet(x) \cap BitSet(y))
or_Xor(x, y) == OfBits({i \in Bits : (i \in BitSet(x)) # (i \in BitSet(y))})
or(x, y) == OfBits(BitSet(x) \cup BitSet(y))
xor(x, y) == OfBits({i \in Bits : (i \in BitSet(x)) # (i \in BitSet(y))})

(* sltu compares with i_imm, the twelve bits that hold the number of rs2.   *)
sltu(x) == IF x < Rs2Field THEN 1 ELSE 0

(* Word forms: sext32 of a result of 64 bits, but for sllw.                 *)
addw(x, y) == sext32(add(x, y))
subw(x, y) == sext32(sub(x, y))
mulw(x, y) == sext32(mul(x, y))
slliw(x, y) == sext32(Shl(x, ByHalf(y)))
sllw(x, y) == Shl(x, ByReg(y))
srlw(x, y) == sext32(Shr(zext32(x), ByHalf(y)))
sraw_NoExtension(x, y) == Unsigned(Shr(Signed(x), ByHalf(y))) % H
sraw(x, y) == sext32(Unsigned(Shr(SignedHalf(x), ByHalf(y))))

(* The branches that are taken.                                            *)
beq(x, y) == x = y
bne(x, y) == x # y
blt(x, y) == Signed(x) < Signed(y)
bge(x, y) == Signed(x) >= Signed(y)
bltu_Signed(x, y) == Signed(x) < Signed(y)
bltu(x, y) == x < y
bgeu(x, y) == x >= y

(***************************************************************************)
(* Properties.                                                              *)
(***************************************************************************)
(* The word forms other than sllw read 32 bits of RS1, and write a register *)
(* that is the sign extension of its low half, on which compilers rely.    *)
WordForms(x, y) == <<addw(x, y), subw(x, y), mulw(x, y), slliw(x, y), srlw(x, y), sraw(x, y)>>
Canonical(r) == r \in Reg /\ sext32(r) = r
WordFormsCanonical == \A k \in 1..6 : Canonical(WordForms(a, b)[k])
WordFormsReadHalves == WordForms(a, b) = WordForms(sext32(a), b)
WordFormsKeepWords == WordFormsCanonical /\ WordFormsReadHalves

(* The orders of the branches are total, signed and unsigned, agree on      *)
(* operands of the same sign, and agree with slt and sltiu.                 *)
BranchesConsistent ==
    /\ beq(a, b) # bne(a, b) /\ blt(a, b) # bge(a, b) /\ bltu(a, b) # bgeu(a, b)
    /\ beq(a, b) = (bge(a, b) /\ bge(b, a)) /\ beq(a, b) = (bgeu(a, b) /\ bgeu(b, a))
    /\ (Signed(a) < 0) = (Signed(b) < 0) => blt(a, b) = bltu(a, b)
    /\ blt(a, b) = (slt(a, b) = 1) /\ bltu(a, b) = (sltiu(a, b) = 1)

(* After an immediate a is added to b, sltiu of the sum against a tells     *)
(* whether it wrapped, and the difference gives the operand back.  Every    *)
(* value of a register is taken for a, the sign-extended immediates among   *)
(* them.  With two registers the carry needs sltu, which does not give it   *)
(* (SltuComparesRegisters).                                                *)
CarryRecovered ==
    /\ add(a, b) + M * sltiu(add(a, b), a) = a + b
    /\ sub(add(a, b), b) = a

(* The logic goes with the addition: the bits that both have are those that *)
(* carry, and xori with the immediate -1 is the complement.                 *)
LogicAgrees ==
    /\ add(and(a, b), or(a, b)) = add(a, b)
    /\ add(xor(a, b), sll(and(a, b), 1)) = add(a, b)
    /\ xor(a, M - 1) = sub(M - 1, a)

(* The bits that a pair of shifts by a word and back leaves are those of    *)
(* sext32 and zext32, which is how compilers extend an int.                 *)
ShiftsExtend ==
    /\ sra(sll(a, XLEN \div 2), XLEN \div 2) = sext32(a)
    /\ srl(sll(a, XLEN \div 2), XLEN \div 2) = zext32(a)

(* sllw writes a sign-extended word, as the listings of the test programs   *)
(* have it do: "sllw a2,s1,s0" (tests/sort_rv64.S:375).                     *)
SllwCanonical == Canonical(sllw(a, b))

(* sltu sets rd when RS1 is below RS2: "snez a0,a0" (tests/hello.S:249) is  *)
(* sltu with rs1 zero, and sets a0 when it is not zero.                     *)
SltuComparesRegisters == sltu(a) = IF a < b THEN 1 ELSE 0
=============================================================================
