------------------------------ MODULE Arithmetic ------------------------------
(* The arithmetic of multi.h and func.h over the same two operands.  The    *)
(* run takes H = 16: a register has eight bits and its halves have four.   *)
(* A double has a sign, four bits of exponent and three digits; a float a   *)
(* sign, two bits and one digit.  Their sums and products stand for any.    *)
EXTENDS Multi, Divide, Alu, Float

(* The magnitude of the bits x without a sign, when digits of them are not  *)
(* exponent, in units of the smallest; infinity continues the scale.        *)
Scale(x, digits) ==
    IF x < digits THEN x ELSE (digits + (x % digits)) * 2 ^ (x \div digits - 1)

(* In units of 2^-9.                                                       *)
Double == [d \in 0..255 |-> (IF d < 128 THEN 1 ELSE -1) * Scale(d % 128, 8)]
Single == [s \in 0..15 |-> (IF s < 8 THEN 1 ELSE -1) * 256 * Scale(s % 8, 2)]
DNaN(d) == d % 128 > 120
SNaN(s) == s % 8 > 6

(* The nearest of some bits to a number, an even one if two are.           *)
Nearest(bits, number, n) ==
    LET near == {d \in bits : \A e \in bits : Abs(number[d] - n) <= Abs(number[e] - n)}
    IN  IF \E d \in near : d % 2 = 0 THEN CHOOSE d \in near : d % 2 = 0
        ELSE CHOOSE d \in near : TRUE
NearestDouble(n) ==
    Nearest(IF n < 0 THEN 128..248 ELSE 0..120, Double, n)
NearestSingle(n) ==
    Nearest(IF n < 0 THEN 8..14 ELSE 0..6, Single, n)

DoubleOfTable == [n \in -256..256 |-> NearestDouble(512 * n)]
SingleOfTable == [n \in -256..256 |-> NearestSingle(512 * n)]
NarrowTable ==
    [d \in 0..255 |-> IF DNaN(d) THEN 7
                      ELSE IF d = 128 THEN 8 ELSE NearestSingle(Double[d])]
WidenTable ==
    [s \in 0..15 |-> IF SNaN(s) THEN 127
                     ELSE IF s = 8 THEN 128 ELSE NearestDouble(Single[s])]
(* rint, trunc, floor and ceil of n / 512.                                 *)
RoundInt(rm, n) ==
    LET down == n \div 512
        up == -((-n) \div 512)
        near == (n + 256) \div 512
    IN  <<IF (n + 256) % 512 = 0 /\ near % 2 = 1 THEN near - 1 ELSE near,
          IF n < 0 THEN up ELSE down, down, up>>[rm + 1]
RoundTable ==
    [rm \in 0..3 |-> [d \in 0..255 |->
        IF Abs(Double[d]) >= 4096 THEN d
        ELSE LET r == RoundInt(rm, Double[d])
             IN  IF r = 0 THEN (d \div 128) * 128 ELSE DoubleOfTable[r]]]

MCDArith(op, x, y) == (3 * x + 5 * y) % 256
MCSArith(op, x, y) == (3 * x + 5 * y) % 16
MCNumber(d) == Double[d]
MCDoubleOf(n) == DoubleOfTable[n]
MCSingleOf(n) == SingleOfTable[n]
MCWiden(s) == WidenTable[s]
MCNarrow(d) == NarrowTable[d]
MCTrunc(d) == IF d % 128 >= 120 THEN M ELSE Quo(Double[d], 512)
MCRoundTo(rm, d) == RoundTable[rm][d]
=============================================================================
