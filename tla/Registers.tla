------------------------------ MODULE Registers ------------------------------
(***************************************************************************)
(* The two operands of an instruction that computes on registers: RS1 and  *)
(* RS2 of structs.h, or the arguments of the functions of multi.h.  H is    *)
(* 2^32 in the code, so that uint64_t wraps at H * H and a conversion to    *)
(* uint32_t keeps the remainder by H.  A register is its unsigned value.    *)
(* The operands take every pair of values; what is computed from them is    *)
(* stated by the modules that extend this one.                              *)
(***************************************************************************)
EXTENDS Integers

CONSTANT H
ASSUME HAssumption == H \in Nat /\ H >= 2 /\ H % 2 = 0

M == H * H
Reg == 0..(M - 1)

(* sreg_t(v), and the conversions of structs.h to and from 32 bits.         *)
Signed(v) == IF 2 * v >= M THEN v - M ELSE v
Unsigned(n) == n % M
zext32(v) == v % H
SignedHalf(v) == IF 2 * (v % H) >= H THEN (v % H) - H ELSE v % H
sext32(v) == Unsigned(SignedHalf(v))

VARIABLES a, b
vars == <<a, b>>

Init == a \in Reg /\ b \in Reg
Next == UNCHANGED vars
Spec == Init /\ [][Next]_vars
=============================================================================
