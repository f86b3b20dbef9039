------------------------------- MODULE Divide -------------------------------
(***************************************************************************)
(* The division instructions of func.h.  The operators \div and % of TLA+   *)
(* round down; those of C round towards zero, which Quo and Rem do: Rem is  *)
(* defined from Quo, as C defines it.                                       *)
(***************************************************************************)
EXTENDS Registers

Abs(n) == IF n < 0 THEN -n ELSE n
Quo_RoundDown(n, d) == IF d < 0 THEN (-n) \div Abs(d) ELSE n \div d
Quo(n, d) == IF (n < 0) = (d < 0) THEN Abs(n) \div Abs(d) ELSE -(Abs(n) \div Abs(d))
Rem(n, d) == n - d * Quo(n, d)

AllOnes == M - 1
Smallest == -(M \div 2)
Overflows(n, d) == n = Smallest /\ d = -1

(* What the handlers write to rd for RS1 = x and RS2 = y.                   *)
div(x, y) ==
    CASE y = 0 -> AllOnes
      [] Overflows(Signed(x), Signed(y)) -> x
      [] OTHER -> Unsigned(Quo(Signed(x), Signed(y)))

rem_ZeroForZero(x, y) ==
    IF y = 0 \/ Overflows(Signed(x), Signed(y)) THEN 0
    ELSE Unsigned(Rem(Signed(x), Signed(y)))
rem(x, y) ==
    CASE y = 0 -> x
      [] Overflows(Signed(x), Signed(y)) -> 0
      [] OTHER -> Unsigned(Rem(Signed(x), Signed(y)))

divu(x, y) == IF y = 0 THEN AllOnes ELSE x \div y
remu(x, y) == IF y = 0 THEN x ELSE x % y

(* The word forms divide 64-bit values, so that the smallest 32-bit number  *)
(* by -1 needs no case of its own.                                          *)
divw(x, y) ==
    IF SignedHalf(y) = 0 THEN AllOnes
    ELSE sext32(Unsigned(Quo(SignedHalf(x), SignedHalf(y))))
remw_WholeDividend(x, y) ==
    IF SignedHalf(y) = 0 THEN sext32(x)
    ELSE sext32(Unsigned(Rem(Signed(x), SignedHalf(y))))
remw(x, y) ==
    IF SignedHalf(y) = 0 THEN sext32(x)
    ELSE sext32(Unsigned(Rem(SignedHalf(x), SignedHalf(y))))

divuw_SignExtended(x, y) ==
    IF zext32(y) = 0 THEN AllOnes
    ELSE sext32(Unsigned(Quo(SignedHalf(x), SignedHalf(y))))
divuw(x, y) == IF zext32(y) = 0 THEN AllOnes ELSE sext32(zext32(x) \div zext32(y))
remuw(x, y) ==
    IF zext32(y) = 0 THEN sext32(zext32(x)) ELSE sext32(zext32(x) % zext32(y))

(***************************************************************************)
(* Properties.                                                              *)
(***************************************************************************)
(* Quotient and remainder belong together for every pair of operands, zero  *)
(* divisors and the quotient that overflows included: the program that      *)
(* multiplies back and adds the remainder gets its dividend.                *)
DivisionLaw ==
    /\ (div(a, b) * b + rem(a, b)) % M = a
    /\ (divu(a, b) * b + remu(a, b)) % M = a
WordLaw ==
    /\ (divw(a, b) * b + remw(a, b)) % H = a % H
    /\ (divuw(a, b) * b + remuw(a, b)) % H = a % H

(* The remainder is smaller than the divisor and has the dividend's sign.   *)
RemainderBounded ==
    b # 0 =>
        /\ Abs(Signed(rem(a, b))) < Abs(Signed(b))
        /\ Signed(rem(a, b)) # 0 => (Signed(rem(a, b)) < 0) = (Signed(a) < 0)
        /\ remu(a, b) < b

(* The word forms read 32 bits of their operands, and write a register that *)
(* is the sign extension of its low half.                                   *)
Divisions(x, y) == <<divw(x, y), remw(x, y), divuw(x, y), remuw(x, y)>>
DivisionsCanonical ==
    \A k \in 1..4 : LET r == Divisions(a, b)[k] IN r \in Reg /\ sext32(r) = r
DivisionsReadHalves == Divisions(a, b) = Divisions(sext32(a), sext32(b))
DivisionsKeepWords == DivisionsCanonical /\ DivisionsReadHalves
=============================================================================
