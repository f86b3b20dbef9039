-------------------------------- MODULE Multi --------------------------------
(***************************************************************************)
(* multi.h: the upper half of a product of two registers, from products of *)
(* half registers that fit in one.                                          *)
(***************************************************************************)
EXTENDS Registers

Magnitude(v) == IF Signed(v) < 0 THEN (M - v) % M ELSE v

mulhu_NoCarry(x, y) ==
    LET a0 == x % H   a1 == x \div H
        b0 == y % H   b1 == y \div H
        t1 == (a1 * b0 + (a0 * b0) \div H) % M
        t2 == (a0 * b1 + (t1 % H)) % M
        t3 == (a1 * b1 + t1 \div H) % M
    IN  (t3 \div H) * H + (t3 % H)

(* y1, y2 and y3 are uint32_t, t is uint64_t.                              *)
mulhu(x, y) ==
    LET a0 == x % H   a1 == x \div H
        b0 == y % H   b1 == y \div H
        t1 == (a1 * b0 + (a0 * b0) \div H) % M
        t2 == (a0 * b1 + (t1 % H)) % M
        t3 == (a1 * b1 + t1 \div H + t2 \div H) % M
    IN  (t3 \div H) * H + (t3 % H)

(* ~res + (a * b == 0), where the product wraps.                           *)
Negated_Complement(res, x, y) == M - 1 - res
Negated(res, x, y) == (M - 1 - res + (IF (x * y) % M = 0 THEN 1 ELSE 0)) % M

mulh(x, y) ==
    LET res == mulhu(Magnitude(x), Magnitude(y))
    IN  IF (Signed(x) < 0) # (Signed(y) < 0) THEN Negated(res, x, y) ELSE res

mulhsu(x, y) ==
    LET res == mulhu(Magnitude(x), y)
    IN  IF Signed(x) < 0 THEN Negated(res, x, y) ELSE res

(* Each function returns the upper half of the product of its arguments     *)
(* read as unsigned, as signed, and as signed times unsigned: the           *)
(* instructions mulhu, mulh and mulhsu write it to rd (func.h:632-668).     *)
MulhuIsUpperHalf == mulhu(a, b) = (a * b) \div M
SignedUpperHalves ==
    /\ mulh(a, b) = ((Signed(a) * Signed(b)) \div M) % M
    /\ mulhsu(a, b) = ((Signed(a) * b) \div M) % M
=============================================================================
