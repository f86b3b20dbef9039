-------------------------------- MODULE Float --------------------------------
(***************************************************************************)
(* The floating-point instructions of func.h (lines 29-51 and 886-1158) and *)
(* the views of a register in structs.h.  A floating-point register has 64  *)
(* bits: freg_f64 reads all of them as a double, freg_f32 the low half as a *)
(* float, and f32_freg writes a float with an upper half of zeros.          *)
(*                                                                         *)
(* What the host computes is external: a double is a number below M, a      *)
(* float one below H, its bits, and arithmetic any functions of them.       *)
(***************************************************************************)
EXTENDS Registers

CONSTANTS
    DArith(_, _, _),     \* the operation, and two doubles
    SArith(_, _, _),     \* the operation, and two floats
    NaN(_),              \* whether a double is not a number, and which number
    Number(_),           \* it is in units of the smallest, infinity being one more
    DoubleOf(_),         \* the double and the float nearest to an integer
    SingleOf(_),
    Widen(_),            \* a float as a double, and the double as a float
    Narrow(_),
    Trunc(_),            \* the integer part of a double, M when it has none
    RoundTo(_, _)        \* rint, trunc, floor or ceil of a double

Half == 0..(H - 1)
Operations == {"+", "-", "*", "/"}
Ints == -(H \div 2)..(H \div 2 - 1)

ASSUME HostAssumption ==
    /\ \A op \in Operations : \A s, t \in Half : SArith(op, s, t) \in Half
    /\ \A s \in Half : Widen(s) \in Reg
    /\ \A d \in Reg : Narrow(d) \in Half
    /\ \A n \in -(M \div 2)..(M - 1) : DoubleOf(n) \in Reg /\ SingleOf(n) \in Half
    /\ \A rm \in 0..3 : \A d \in Reg : RoundTo(rm, d) \in Reg
    \* a double has the digits of 32 bits
    /\ \A n \in -(H \div 2)..(H - 1) : Trunc(DoubleOf(n)) = n
    \* the upper bit is the sign of the number that the others give
    /\ \A d \in Reg : NaN(d) \in BOOLEAN /\ Number(d) \in Int
    /\ \A d \in 0..(M \div 2 - 1) :
          NaN(d + M \div 2) = NaN(d) /\ Number(d + M \div 2) = -Number(d)

freg_f32(x) == zext32(x)

(* A conversion to an integer type that has not the integer part of d is    *)
(* undefined: any value of the type.                                       *)
ToInteger(d, type) == IF Trunc(d) \in type THEN {Trunc(d)} ELSE type

d_Rounding(d, rm) == IF rm \in 0..3 THEN RoundTo(rm, d) ELSE d

(* Arithmetic on FRS1 = x, FRS2 = y and FRS3 = z: fadd, fsub, fmul and fdiv, *)
(* and fmadd, which rounds twice.                                           *)
farith_d(op, x, y) == DArith(op, x, y)
farith_s(op, x, y) == SArith(op, freg_f32(x), freg_f32(y))
fmadd_d(x, y, z) == farith_d("+", farith_d("*", x, y), z)

(* FRS1 without its sign, and the sign of FRS2: & with INT64_MIN.           *)
Sign(x) == (x \div (M \div 2)) * (M \div 2)
fsgnj_d(x, y) == (x % (M \div 2)) + Sign(y)

(* < and == of the host.                                                   *)
DLess(x, y) == ~NaN(x) /\ ~NaN(y) /\ Number(x) < Number(y)
DEqual(x, y) == ~NaN(x) /\ ~NaN(y) /\ Number(x) = Number(y)

Truth(p) == IF p THEN 1 ELSE 0
feq_d(x, y) == Truth(DEqual(x, y))
flt_d(x, y) == Truth(DLess(x, y))
fle_d_NotGreater(x, y) == Truth(~DLess(y, x))
fle_d(x, y) == Truth(DLess(x, y) \/ DEqual(x, y))

(* Moves and conversions of an integer register RS1 = x.                   *)
fmv_d_x(x) == x
fmv_s_x_Whole(x) == x
fmv_s_x(x) == zext32(x)
fcvt_d_l(x) == DoubleOf(Signed(x))
fcvt_d_w_Unsigned(x) == DoubleOf(zext32(x))
fcvt_d_w(x) == DoubleOf(SignedHalf(x))
fcvt_s_l(x) == SingleOf(Signed(x))
fcvt_s_w(x) == SingleOf(SignedHalf(x))

(* Those of a floating-point register FRS1 = x; the conversions to an       *)
(* integer give the set of values that rd may get.                          *)
fmv_x_d(x) == x
fcvt_d_s(x) == Widen(freg_f32(x))
fcvt_s_d(x) == Narrow(x)
fcvt_w_d(x) == {Unsigned(n) : n \in ToInteger(x, Ints)}
fcvt_wu_d(x) == ToInteger(x, Half)

(* fcvt_l_d reads the integer register RS1 = x, and not FRS1: it converts x, *)
(* without its sign, to a double and that back to an integer.               *)
Longs == -(M \div 2)..(M \div 2 - 1)
fcvt_l_d(x, rm) == {Unsigned(n) : n \in ToInteger(d_Rounding(DoubleOf(x), rm), Longs)}

(***************************************************************************)
(* Properties.                                                              *)
(***************************************************************************)
(* An instruction on floats reads the low halves of its registers, so that  *)
(* what a double left above them never shows, and writes an upper half of   *)
(* zeros, which no instruction on floats reads: registers that mix floats   *)
(* and doubles agree with their low halves.                                 *)
SinglesAreHalves ==
    /\ \A op \in Operations :
          /\ farith_s(op, a, b) \in Half
          /\ farith_s(op, a, b) = farith_s(op, fmv_s_x(a), fmv_s_x(b))
    /\ fcvt_d_s(a) = fcvt_d_s(fmv_s_x(a))
    /\ {fmv_s_x(a), fcvt_s_d(a), fcvt_s_l(a), fcvt_s_w(a)} \subseteq Half

(* A word comes back from a double: fcvt_w_d gives the sign extension that  *)
(* the word forms of Alu take, whatever an overflow does, and fcvt_d_w      *)
(* looks at no bit above the word.                                          *)
WordsComeBack ==
    /\ fcvt_w_d(fcvt_d_w(a)) = {sext32(a)}
    /\ fcvt_d_w(a) = fcvt_d_w(sext32(a))
    /\ \A r \in fcvt_w_d(a) : sext32(r) = r
    /\ 2 * zext32(a) < H => fcvt_wu_d(fcvt_d_w(a)) = {zext32(a)}

(* The comparisons are those of one partial order, that fsgnj_d turns       *)
(* around as fneg, and a double that is not below, equal to or above        *)
(* another is not equal to itself, or the other is not.                     *)
neg(x) == fsgnj_d(x, M - 1 - x)
ComparisonsAgree ==
    /\ fle_d(a, b) = flt_d(a, b) + feq_d(a, b)
    /\ flt_d(neg(a), neg(b)) = flt_d(b, a) /\ neg(neg(a)) = a
    /\ flt_d(a, b) + feq_d(a, b) + flt_d(b, a) = feq_d(a, a) * feq_d(b, b)
=============================================================================
