--------------------------- MODULE ArithmeticProofs ---------------------------
(* The upper halves of products, the laws of the divisions, and what the    *)
(* instructions on words and floats make of the halves of a register, for   *)
(* registers of every even width.                                          *)
EXTENDS Multi, Divide, Alu, Float, SumProofs, TLAPS

-----------------------------------------------------------------------------
(* Products: the functions of multi.h.                                      *)

(* Division with remainder, as the lemmas below use it.                    *)
LEMMA DivMod ==
    ASSUME NEW x \in Nat, NEW d \in Nat, d > 0
    PROVE  /\ x = d * (x \div d) + (x % d)
           /\ x \div d \in Nat
           /\ x % d \in 0..(d - 1)
OBVIOUS

LEMMA ModSmall ==
    ASSUME NEW d \in Nat, NEW x \in 0..(d - 1)
    PROVE  x % d = x
OBVIOUS

(* A quotient is determined by what it leaves.                             *)
LEMMA DivUnique ==
    ASSUME NEW x \in Nat, NEW d \in Nat, d > 0,
           NEW q \in Nat, NEW r \in Nat, r < d, x = d * q + r
    PROVE  x \div d = q
<1> DEFINE p == x \div d  s == x % d
<1>1. x = d * p + s /\ p \in Nat /\ s \in 0..(d - 1)
  BY DivMod
<1> HIDE DEF p, s
<1>2. p = q
  <2>1. CASE p < q
    <3>1. d * (p + 1) <= d * q
      BY <1>1, <2>1
    <3> QED BY <1>1, <3>1
  <2>2. CASE q < p
    <3>1. d * (q + 1) <= d * p
      BY <1>1, <2>2
    <3> QED BY <1>1, <3>1
  <2> QED BY <1>1, <2>1, <2>2
<1> QED BY <1>2 DEF p

(* A number below d * e has its quotient by d below e.                     *)
LEMMA DivBound ==
    ASSUME NEW x \in Nat, NEW d \in Nat, NEW e \in Nat, d > 0, x < d * e
    PROVE  x \div d < e
<1> DEFINE p == x \div d
<1>1. x = d * p + (x % d) /\ p \in Nat /\ x % d \in 0..(d - 1)
  BY DivMod
<1> HIDE DEF p
<1>2. CASE p >= e
  <2>1. d * p >= d * e
    BY <1>1, <1>2
  <2> QED BY <1>1, <2>1
<1> QED BY <1>1, <1>2 DEF p

(* The product of two halves leaves room for two more halves in a register. *)
LEMMA HalvesFit ==
    ASSUME NEW x \in 0..(H - 1), NEW y \in 0..(H - 1),
           NEW c \in 0..(H - 1), NEW d \in 0..(H - 1)
    PROVE  x * y + c + d \in 0..(M - 1) /\ x * y \in Nat
<1>0. H \in Nat /\ H > 0
  BY HAssumption
<1>1. x * y <= (H - 1) * (H - 1)
  <2>1. x * y <= (H - 1) * y
    BY <1>0
  <2>2. (H - 1) * y <= (H - 1) * (H - 1)
    BY <1>0
  <2> QED BY <1>0, <2>1, <2>2
<1>2. (H - 1) * (H - 1) + (H - 1) + (H - 1) = M - 1
  BY <1>0 DEF M
<1>3. x * y >= 0 /\ x * y \in Int
  BY <1>0
<1> QED BY <1>0, <1>1, <1>2, <1>3 DEF M

(* mulhu returns the upper half of the product, for every pair of registers. *)
LEMMA MulhuCorrect == \A x, y \in Reg : mulhu(x, y) = (x * y) \div M
<1> SUFFICES ASSUME NEW x \in Reg, NEW y \in Reg PROVE mulhu(x, y) = (x * y) \div M
  OBVIOUS
<1> DEFINE a0 == x % H   a1 == x \div H
           b0 == y % H   b1 == y \div H
           q0 == (a0 * b0) \div H
           r0 == (a0 * b0) % H
           u == a1 * b0 + q0
           y1 == u % H
           y2 == u \div H
           v == a0 * b1 + y1
           r2 == v % H
           q2 == v \div H
           w == a1 * b1 + y2 + q2
<1>0. H \in Nat /\ H > 1 /\ M \in Nat /\ M = H * H /\ M > 0
  BY HAssumption DEF M
<1>1. x \in Nat /\ y \in Nat /\ x < H * H /\ y < H * H
  BY <1>0 DEF Reg
<1>2. /\ x = H * a1 + a0 /\ a0 \in 0..(H - 1) /\ a1 \in 0..(H - 1)
      /\ y = H * b1 + b0 /\ b0 \in 0..(H - 1) /\ b1 \in 0..(H - 1)
  <2>1. a1 \in Nat /\ a1 < H /\ b1 \in Nat /\ b1 < H
    BY <1>0, <1>1, DivBound, DivMod
  <2> QED BY <1>0, <1>1, <2>1, DivMod
<1> HIDE DEF a0, a1, b0, b1
<1>3. a0 * b0 = H * q0 + r0 /\ r0 \in 0..(H - 1) /\ q0 \in 0..(H - 1)
  <2>1. a0 * b0 \in Nat /\ a0 * b0 < H * H
    BY <1>0, <1>2, HalvesFit
  <2> QED BY <1>0, <2>1, DivMod, DivBound
<1> HIDE DEF q0, r0
<1>4. u \in 0..(M - 1) /\ u = H * y2 + y1 /\ y1 \in 0..(H - 1) /\ y2 \in 0..(H - 1)
  <2>1. u \in Nat /\ u < H * H
    <3>1. a1 * b0 + q0 + 0 \in 0..(M - 1) /\ a1 * b0 \in Nat
      BY <1>0, <1>2, <1>3, HalvesFit
    <3> QED BY <1>0, <1>3, <3>1
  <2> HIDE DEF u
  <2> QED BY <1>0, <2>1, DivMod, DivBound
<1>5. u % M = u
  <2> HIDE DEF u
  <2> QED BY <1>0, <1>4, ModSmall
<1>5a. a1 * b0 = H * y2 + y1 - q0
  <2>1. a1 * b0 \in Nat
    BY <1>0, <1>2, HalvesFit
  <2> HIDE DEF y1, y2
  <2> QED BY <1>0, <1>3, <1>4, <2>1
<1> HIDE DEF u, y1, y2
<1>6. v \in 0..(M - 1) /\ v = H * q2 + r2 /\ r2 \in 0..(H - 1) /\ q2 \in 0..(H - 1)
  <2>1. v \in Nat /\ v < H * H
    <3>1. a0 * b1 + y1 + 0 \in 0..(M - 1) /\ a0 * b1 \in Nat
      BY <1>0, <1>2, <1>4, HalvesFit
    <3> QED BY <1>0, <1>4, <3>1
  <2> HIDE DEF v
  <2> QED BY <1>0, <2>1, DivMod, DivBound
<1>7. v % M = v
  <2> HIDE DEF v
  <2> QED BY <1>0, <1>6, ModSmall
<1>7a. a0 * b1 = H * q2 + r2 - y1
  <2>1. a0 * b1 \in Nat
    BY <1>0, <1>2, HalvesFit
  <2> HIDE DEF q2, r2
  <2> QED BY <1>0, <1>4, <1>6, <2>1
<1> HIDE DEF v, q2, r2
<1>8. w \in 0..(M - 1)
  BY <1>2, <1>4, <1>6, HalvesFit
<1>9. w % M = w /\ (w \div H) * H + (w % H) = w
  <2> HIDE DEF w
  <2>1. w = H * (w \div H) + (w % H) /\ w \div H \in Nat
    BY <1>0, <1>8, DivMod
  <2> QED BY <1>0, <1>8, <2>1
<1>10. mulhu(x, y) = w
  BY <1>5, <1>7, <1>9 DEF mulhu, a0, a1, b0, b1, q0, u, y1, y2, v, q2
<1>11. x * y = M * w + (H * r2 + r0)
  <2>1. x * y = H * H * (a1 * b1) + H * (a1 * b0) + H * (a0 * b1) + a0 * b0
    BY <1>0, <1>2
  <2>4. H * (a1 * b0) + H * (a0 * b1) + a0 * b0 = H * H * (y2 + q2) + H * r2 + r0
    BY <1>0, <1>3, <1>4, <1>6, <1>5a, <1>7a
  <2>5. a1 * b1 \in Nat
    BY <1>2, <1>0, HalvesFit
  <2>6. M * w = H * H * (a1 * b1) + H * H * (y2 + q2)
    BY <1>0, <1>4, <1>6, <2>5 DEF w
  <2> QED BY <1>0, <1>2, <1>3, <1>4, <1>6, <2>1, <2>4, <2>5, <2>6
<1>12. H * r2 + r0 \in Nat /\ H * r2 + r0 < M
  <2>1. H * r2 <= H * (H - 1)
    BY <1>0, <1>6
  <2> QED BY <1>0, <1>3, <1>6, <2>1
<1>13. x * y \in Nat
  BY <1>1
<1> HIDE DEF w
<1> QED BY <1>0, <1>8, <1>10, <1>11, <1>12, <1>13, DivUnique

(* Whatever the arguments, mulhu(a, b) is the upper half of a * b.         *)
THEOREM MulhuAlways == Spec => []MulhuIsUpperHalf
<1>1. Init => MulhuIsUpperHalf
  BY MulhuCorrect DEF Init, MulhuIsUpperHalf
<1>2. MulhuIsUpperHalf /\ [Next]_vars => MulhuIsUpperHalf'
  BY DEF MulhuIsUpperHalf, Next, vars
<1> QED BY <1>1, <1>2, PTL DEF Spec

-----------------------------------------------------------------------------
(* The signed products are the unsigned one of the magnitudes, negated.    *)

LEMMA MIsPositive == M \in Nat /\ M >= 4 /\ M % 2 = 0
<1>1. PICK k \in Nat : H = 2 * k
  <2> DEFINE k == H \div 2  r == H % 2
  <2>1. H = 2 * k + r /\ k \in Nat /\ r = 0
    BY HAssumption, DivMod
  <2> HIDE DEF k, r
  <2>2. H = 2 * k
    BY <2>1
  <2> QED BY <2>1, <2>2
<1>2. M = 2 * (k * H) /\ k * H \in Nat
  BY <1>1, HAssumption DEF M
<1>3. H * H >= 2 * H
  BY HAssumption
<1> QED BY <1>2, <1>3, HAssumption DEF M

(* DivUnique for the division of a negative number, which rounds down.     *)
LEMMA FloorUnique ==
    ASSUME NEW x \in Int, NEW d \in Nat, d > 0,
           NEW q \in Int, NEW r \in 0..(d - 1), x = d * q + r
    PROVE  x \div d = q /\ x % d = r
<1> DEFINE p == x \div d  s == x % d
<1>1. x = d * p + s /\ p \in Int /\ s \in 0..(d - 1)
  OBVIOUS
<1> HIDE DEF p, s
<1>2. p = q
  <2>1. CASE p < q
    <3>1. d * (p + 1) <= d * q
      BY <1>1, <2>1
    <3> QED BY <1>1, <3>1
  <2>2. CASE q < p
    <3>1. d * (q + 1) <= d * p
      BY <1>1, <2>2
    <3> QED BY <1>1, <3>1
  <2> QED BY <1>1, <2>1, <2>2
<1> QED BY <1>1, <1>2 DEF p, s

(* The complement that Negated takes is the upper half of the negation.    *)
LEMMA UpperHalfOfNegation ==
    ASSUME NEW p \in Nat, p < M * M
    PROVE  LET q == p \div M
               carry == IF p % M = 0 THEN 1 ELSE 0
           IN  (M - 1 - q + carry) % M = ((-p) \div M) % M
<1> DEFINE q == p \div M  r == p % M  carry == IF r = 0 THEN 1 ELSE 0
<1>1. p = M * q + r /\ q \in 0..(M - 1) /\ r \in 0..(M - 1)
  BY MIsPositive, DivMod, DivBound
<1> HIDE DEF q, r
<1>2. CASE r = 0
  <2>1. -p = M * (-q) + 0
    BY <1>1, <1>2, MIsPositive
  <2>2. (-p) \div M = -q
    BY <1>1, <2>1, MIsPositive, FloorUnique
  <2>3. (M - q) % M = (-q) % M
    <3>1. CASE q = 0
      <4>1. M = M * 1 + 0 /\ 0 = M * 0 + 0
        BY MIsPositive
      <4> QED BY <3>1, <4>1, MIsPositive, FloorUnique
    <3>2. CASE q # 0
      <4>1. -q = M * (-1) + (M - q) /\ M - q \in 0..(M - 1)
        BY <1>1, <3>2, MIsPositive
      <4>2. (-q) % M = M - q
        BY <4>1, <1>1, MIsPositive, FloorUnique
      <4> QED BY <4>1, <4>2, ModSmall, MIsPositive
    <3> QED BY <3>1, <3>2
  <2> QED BY <1>1, <1>2, <2>2, <2>3, MIsPositive DEF q, r
<1>3. CASE r # 0
  <2>1. -p = M * (-q - 1) + (M - r) /\ M - r \in 0..(M - 1)
    BY <1>1, <1>3, MIsPositive
  <2>2. (-p) \div M = -q - 1
    BY <1>1, <2>1, MIsPositive, FloorUnique
  <2>3. -q - 1 = M * (-1) + (M - 1 - q) /\ M - 1 - q \in 0..(M - 1)
    BY <1>1, MIsPositive
  <2>4. (-q - 1) % M = M - 1 - q
    BY <1>1, <2>3, MIsPositive, FloorUnique
  <2>5. (M - 1 - q + 0) % M = M - 1 - q
    BY <2>3, ModSmall, MIsPositive
  <2> QED BY <1>1, <1>3, <2>2, <2>4, <2>5 DEF q, r
<1> QED BY <1>2, <1>3

(* The low half of a product is zero exactly when that of its negation is. *)
LEMMA LowHalfOfNegation ==
    ASSUME NEW p \in Nat, NEW k \in Nat, NEW z \in Nat, z = M * k - p
    PROVE  (z % M = 0) <=> (p % M = 0)
<1> DEFINE q == p \div M  r == p % M
<1>1. p = M * q + r /\ q \in Nat /\ r \in 0..(M - 1) /\ M \in Nat /\ M > 0
  BY DivMod, MIsPositive
<1> HIDE DEF q, r
<1>2. CASE r = 0
  <2>1. M * (k - q) = M * k - M * q
    BY <1>1
  <2>2. z = M * (k - q) + 0 /\ k - q \in Int
    BY <1>1, <1>2, <2>1
  <2>3. z % M = 0
    BY <1>1, <2>2, FloorUnique
  <2> QED BY <1>2, <2>3 DEF r
<1>3. CASE r # 0
  <2>1. M * (k - q - 1) = M * k - M * q - M
    <3>1. M * ((k - q) - 1) = M * (k - q) - M
      BY <1>1
    <3>2. M * (k - q) = M * k - M * q
      BY <1>1
    <3>3. (k - q) - 1 = k - q - 1
      BY <1>1
    <3> QED BY <3>1, <3>2, <3>3
  <2>2. z = M * (k - q - 1) + (M - r) /\ k - q - 1 \in Int
    BY <1>1, <2>1
  <2>3. M - r \in 0..(M - 1)
    BY <1>1, <1>3
  <2>4. z % M = M - r
    <3> DEFINE e == k - q - 1  f == M - r
    <3>1. z = M * e + f /\ e \in Int /\ f \in 0..(M - 1)
      BY <2>2, <2>3
    <3> HIDE DEF e, f
    <3>2. z % M = f
      BY <1>1, <3>1, FloorUnique
    <3> QED BY <3>2 DEF f
  <2>5. z % M # 0
    BY <1>1, <2>4
  <2> QED BY <1>3, <2>5 DEF r
<1> QED BY <1>2, <1>3

LEMMA SignAndMagnitude ==
    ASSUME NEW x \in Reg
    PROVE  /\ Magnitude(x) \in Reg /\ Signed(x) \in Int
           /\ Signed(x) >= 0 => Signed(x) = Magnitude(x) /\ x = Magnitude(x)
           /\ Signed(x) < 0 => Signed(x) = -Magnitude(x) /\ x = M - Magnitude(x)
                               /\ Magnitude(x) > 0
<1>1. M - x \in 0..(M - 1) => (M - x) % M = M - x
  BY ModSmall, MIsPositive
<1> QED BY <1>1, MIsPositive DEF Reg, Signed, Magnitude

(* The two steps of mulh and mulhsu, for the magnitudes m and n.           *)
LEMMA ProductOfMagnitudes ==
    ASSUME NEW m \in Reg, NEW n \in Reg
    PROVE  /\ m * n \in Nat /\ m * n < M * M
           /\ mulhu(m, n) = (m * n) \div M
           /\ mulhu(m, n) = ((m * n) \div M) % M
<1>1. m \in Nat /\ n \in Nat /\ m <= M - 1 /\ n <= M - 1 /\ M \in Nat
  BY MIsPositive DEF Reg
<1>2. m * n \in Nat
  BY <1>1
<1>3. m * n < M * M
  <2>1. m * n <= (M - 1) * n
    BY <1>1
  <2>2. (M - 1) * n <= (M - 1) * (M - 1)
    BY <1>1, MIsPositive
  <2>3. (M - 1) * (M - 1) < M * M
    BY MIsPositive
  <2> QED BY <1>1, <1>2, <2>1, <2>2, <2>3
<1>4. (m * n) \div M \in 0..(M - 1)
  BY <1>2, <1>3, DivMod, DivBound, MIsPositive
<1>5. mulhu(m, n) = (m * n) \div M
  BY MulhuCorrect
<1> QED BY <1>2, <1>3, <1>4, <1>5, ModSmall, MIsPositive

LEMMA NegatedCorrect ==
    ASSUME NEW m \in Reg, NEW n \in Reg, NEW x \in Reg, NEW y \in Reg,
           NEW k \in Nat, x * y = M * k - m * n
    PROVE  Negated(mulhu(m, n), x, y) = ((-(m * n)) \div M) % M
<1> DEFINE p == m * n  z == x * y
<1>1. p \in Nat /\ p < M * M /\ mulhu(m, n) = p \div M
  BY ProductOfMagnitudes
<1>2. z \in Nat /\ z = M * k - p
  BY ProductOfMagnitudes
<1>3. Negated(mulhu(m, n), x, y)
        = (M - 1 - (p \div M) + (IF z % M = 0 THEN 1 ELSE 0)) % M
  BY <1>1 DEF Negated
<1> HIDE DEF p, z
<1>4. (z % M = 0) <=> (p % M = 0)
  BY <1>1, <1>2, LowHalfOfNegation
<1>5. (M - 1 - (p \div M) + (IF p % M = 0 THEN 1 ELSE 0)) % M = ((-p) \div M) % M
  BY <1>1, UpperHalfOfNegation
<1> QED BY <1>3, <1>4, <1>5 DEF p

LEMMA MulhCorrect ==
    \A x, y \in Reg : mulh(x, y) = ((Signed(x) * Signed(y)) \div M) % M
<1> SUFFICES ASSUME NEW x \in Reg, NEW y \in Reg
             PROVE  mulh(x, y) = ((Signed(x) * Signed(y)) \div M) % M
  OBVIOUS
<1> DEFINE m == Magnitude(x)  n == Magnitude(y)  s == Signed(x)  t == Signed(y)
<1>1. /\ m \in Reg /\ n \in Reg /\ s \in Int /\ t \in Int
      /\ s >= 0 => s = m /\ x = m
      /\ t >= 0 => t = n /\ y = n
      /\ s < 0 => s = -m /\ x = M - m
      /\ t < 0 => t = -n /\ y = M - n
  BY SignAndMagnitude
<1>2. mulh(x, y) = IF (s < 0) # (t < 0) THEN Negated(mulhu(m, n), x, y) ELSE mulhu(m, n)
  BY DEF mulh
<1> HIDE DEF m, n, s, t
<1>3. m \in Nat /\ n \in Nat /\ M \in Nat
  BY <1>1, MIsPositive DEF Reg
<1>4. CASE (s < 0) = (t < 0)
  <2>1. s * t = m * n
    BY <1>1, <1>3, <1>4
  <2>2. mulhu(m, n) = ((m * n) \div M) % M
    BY <1>1, ProductOfMagnitudes
  <2> QED BY <1>2, <1>4, <2>1, <2>2 DEF s, t
<1>5. CASE (s < 0) # (t < 0)
  <2>1. s * t = -(m * n)
    BY <1>1, <1>3, <1>5
  <2>2. \E k \in Nat : x * y = M * k - m * n
    <3>1. CASE s < 0
      <4>1. x * y = M * n - m * n
        BY <1>1, <1>3, <1>5, <3>1
      <4> QED BY <1>3, <4>1
    <3>2. CASE t < 0
      <4>1. x * y = M * m - m * n
        BY <1>1, <1>3, <1>5, <3>2
      <4> QED BY <1>3, <4>1
    <3> QED BY <1>5, <3>1, <3>2
  <2>3. Negated(mulhu(m, n), x, y) = ((-(m * n)) \div M) % M
    BY <1>1, <2>2, NegatedCorrect
  <2> QED BY <1>2, <1>5, <2>1, <2>3 DEF s, t
<1> QED BY <1>4, <1>5

LEMMA MulhsuCorrect ==
    \A x, y \in Reg : mulhsu(x, y) = ((Signed(x) * y) \div M) % M
<1> SUFFICES ASSUME NEW x \in Reg, NEW y \in Reg
             PROVE  mulhsu(x, y) = ((Signed(x) * y) \div M) % M
  OBVIOUS
<1> DEFINE m == Magnitude(x)  s == Signed(x)
<1>1. /\ m \in Reg /\ s \in Int
      /\ s >= 0 => s = m /\ x = m
      /\ s < 0 => s = -m /\ x = M - m
  BY SignAndMagnitude
<1>2. mulhsu(x, y) = IF s < 0 THEN Negated(mulhu(m, y), x, y) ELSE mulhu(m, y)
  BY DEF mulhsu
<1> HIDE DEF m, s
<1>3. m \in Nat /\ y \in Nat /\ M \in Nat
  BY <1>1, MIsPositive DEF Reg
<1>4. CASE s >= 0
  <2>1. mulhu(m, y) = ((m * y) \div M) % M
    BY <1>1, ProductOfMagnitudes
  <2> QED BY <1>1, <1>2, <1>4, <2>1 DEF s
<1>5. CASE s < 0
  <2>1. s * y = -(m * y)
    BY <1>1, <1>3, <1>5
  <2>2. \E k \in Nat : x * y = M * k - m * y
    <3>1. x * y = M * y - m * y
      BY <1>1, <1>3, <1>5
    <3> QED BY <1>3, <3>1
  <2>3. Negated(mulhu(m, y), x, y) = ((-(m * y)) \div M) % M
    BY <1>1, <2>2, NegatedCorrect
  <2> QED BY <1>2, <1>5, <2>1, <2>3 DEF s
<1> QED BY <1>1, <1>4, <1>5

(* mulh and mulhsu return the upper half of the signed products.           *)
THEOREM MulhAlways == Spec => []SignedUpperHalves
<1>1. Init => SignedUpperHalves
  BY MulhCorrect, MulhsuCorrect DEF Init, SignedUpperHalves
<1>2. SignedUpperHalves /\ [Next]_vars => SignedUpperHalves'
  BY DEF SignedUpperHalves, Next, vars
<1> QED BY <1>1, <1>2, PTL DEF Spec

-----------------------------------------------------------------------------
(* Divisions: remainders of integers.                                       *)

(* A number differs from its register by a multiple of M.                  *)
LEMMA UnsignedShift ==
    ASSUME NEW n \in Int
    PROVE  Unsigned(n) \in Reg /\ \E k \in Int : Unsigned(n) = n + M * k
<1>1. M \in Nat /\ M > 0
  BY MIsPositive
<1>2. n = M * (n \div M) + (n % M) /\ n \div M \in Int /\ n % M \in 0..(M - 1)
  BY <1>1
<1>3. Unsigned(n) = n + M * (-(n \div M)) /\ -(n \div M) \in Int
  BY <1>1, <1>2 DEF Unsigned
<1> QED BY <1>2, <1>3 DEF Unsigned, Reg

LEMMA SignedShift ==
    ASSUME NEW v \in Reg
    PROVE  Signed(v) \in Int /\ \E k \in Int : v = Signed(v) + M * k
<1>1. M \in Nat /\ M > 0 /\ v \in Int
  BY MIsPositive DEF Reg
<1>2. CASE 2 * v >= M
  <2>1. v = Signed(v) + M * 1 /\ Signed(v) \in Int
    BY <1>1, <1>2 DEF Signed
  <2> QED BY <2>1
<1>3. CASE ~(2 * v >= M)
  <2>1. v = Signed(v) + M * 0 /\ Signed(v) \in Int
    BY <1>1, <1>3 DEF Signed
  <2> QED BY <2>1
<1> QED BY <1>2, <1>3

LEMMA QuoType ==
    ASSUME NEW n \in Int, NEW d \in Int, d # 0
    PROVE  Quo(n, d) \in Int
<1>1. Abs(n) \in Nat /\ Abs(d) \in Nat /\ Abs(d) > 0
  BY DEF Abs
<1> DEFINE q == Abs(n) \div Abs(d)
<1>2. q \in Int
  BY <1>1, DivMod
<1> HIDE DEF q
<1>3. Quo(n, d) = (IF (n < 0) = (d < 0) THEN q ELSE -q)
  BY DEF Quo, q
<1> QED BY <1>2, <1>3

(* The product of two numbers, each off by a multiple of M, is off by one. *)
LEMMA ShiftedProduct ==
    ASSUME NEW q \in Int, NEW j \in Int, NEW t \in Int, NEW k \in Int
    PROVE  /\ q * k + j * t + M * (j * k) \in Int
           /\ (q + M * j) * (t + M * k) = t * q + M * (q * k + j * t + M * (j * k))
BY MIsPositive

-----------------------------------------------------------------------------
(* The laws of the divisions.                                              *)

LEMMA UnsignedLawHolds ==
    \A x, y \in Reg : (divu(x, y) * y + remu(x, y)) % M = x
<1> SUFFICES ASSUME NEW x \in Reg, NEW y \in Reg
             PROVE  (divu(x, y) * y + remu(x, y)) % M = x
  OBVIOUS
<1>1. M \in Nat /\ M > 0 /\ x \in 0..(M - 1) /\ y \in Nat
  BY MIsPositive DEF Reg
<1>2. divu(x, y) * y + remu(x, y) = x
  <2>1. CASE y = 0
    BY <1>1, <2>1 DEF divu, remu, AllOnes
  <2>2. CASE y # 0
    <3>1. x = y * (x \div y) + (x % y) /\ x \div y \in Nat
      BY <1>1, <2>2, DivMod
    <3> QED BY <1>1, <2>2, <3>1 DEF divu, remu
  <2> QED BY <2>1, <2>2
<1> QED BY <1>1, <1>2, ModSmall

LEMMA SignedLawHolds ==
    \A x, y \in Reg : (div(x, y) * y + rem(x, y)) % M = x
<1> SUFFICES ASSUME NEW x \in Reg, NEW y \in Reg
             PROVE  (div(x, y) * y + rem(x, y)) % M = x
  OBVIOUS
<1> DEFINE s == Signed(x)  t == Signed(y)
<1>1. M \in Nat /\ M > 0 /\ x \in 0..(M - 1) /\ y \in Nat
  BY MIsPositive DEF Reg
<1>0. (t = 0) <=> (y = 0)
  BY <1>1 DEF Signed, Reg
<1>2. CASE y = 0
  <2>0. ~Overflows(s, t)
    BY <1>0, <1>2 DEF Overflows
  <2>1. div(x, y) = AllOnes /\ rem(x, y) = x
    <3> HIDE DEF s, t
    <3> QED BY <1>2, <2>0 DEF div, rem, s, t
  <2>2. div(x, y) * y + rem(x, y) = x
    BY <1>1, <1>2, <2>1 DEF AllOnes
  <2> QED BY <1>1, <2>2, ModSmall
<1>3. CASE y # 0 /\ Overflows(s, t)
  <2>1. div(x, y) = x /\ rem(x, y) = 0
    BY <1>3 DEF div, rem
  <2>2. y = M - 1 /\ 2 * x = M
    <3>1. M = 2 * (M \div 2) /\ M \div 2 \in Nat
      BY MIsPositive, DivMod
    <3>2. s = -(M \div 2) /\ t = -1
      BY <1>3 DEF Overflows, Smallest
    <3>3. s < 0 /\ t < 0
      BY <1>1, <3>1, <3>2
    <3>4. s = x - M /\ t = y - M
      BY <1>1, <3>3 DEF Signed
    <3> HIDE DEF s, t
    <3> QED BY <1>1, <3>1, <3>2, <3>4
  <2>3. x * y + 0 = M * (x - 1) + x /\ x - 1 \in Int
    <3>1. x * (M - 1) = M * (x - 1) + (M - x)
      BY <1>1
    <3> QED BY <1>1, <2>2, <3>1
  <2> QED BY <1>1, <2>1, <2>3, FloorUnique
<1>4. CASE y # 0 /\ ~Overflows(s, t)
  <2> DEFINE q == Quo(s, t)  r == Rem(s, t)
  <2>1. div(x, y) = Unsigned(q) /\ rem(x, y) = Unsigned(r)
    BY <1>4 DEF div, rem
  <2>2. s \in Int /\ \E k \in Int : x = s + M * k
    BY SignedShift
  <2>3. t \in Int /\ \E k \in Int : y = t + M * k
    BY SignedShift
  <2>4. t # 0
    BY <1>0, <1>4
  <2>5. q \in Int
    BY <2>2, <2>3, <2>4, QuoType
  <2>6. r = s - t * q
    BY DEF Rem
  <2> HIDE DEF q, r, s, t
  <2>7. t * q \in Int
    BY <2>3, <2>5
  <2>8. r \in Int
    BY <2>2, <2>6, <2>7
  <2>9. PICK j \in Int : div(x, y) = q + M * j
    BY <2>1, <2>5, UnsignedShift
  <2>10. PICK h \in Int : rem(x, y) = r + M * h
    BY <2>1, <2>8, UnsignedShift
  <2>11. PICK g \in Int : x = s + M * g
    BY <2>2
  <2>12. PICK k \in Int : y = t + M * k
    BY <2>3
  <2> DEFINE l == q * k + j * t + M * (j * k)
  <2>13. div(x, y) * y = t * q + M * l /\ l \in Int
    <3>1. q \in Int /\ j \in Int /\ t \in Int /\ k \in Int
      BY <2>3, <2>5
    <3> QED BY <2>9, <2>12, <3>1, ShiftedProduct
  <2> HIDE DEF l
  <2>14. M * (l + h - g) = M * l + M * h - M * g
    BY <1>1, <2>13
  <2>15. M * l \in Int /\ M * h \in Int /\ M * g \in Int
    BY <1>1, <2>13
  <2>16. t * q + M * l + (s - t * q + M * h) = M * (l + h - g) + (s + M * g)
    BY <2>2, <2>7, <2>14, <2>15
  <2>17. div(x, y) * y + rem(x, y) = M * (l + h - g) + x /\ l + h - g \in Int
    BY <2>6, <2>10, <2>11, <2>13, <2>16
  <2>18. div(x, y) * y + rem(x, y) \in Int
    BY <1>1, <2>17
  <2> QED BY <1>1, <2>17, <2>18, FloorUnique
<1> QED BY <1>2, <1>3, <1>4

(* Quotient times divisor plus remainder is the dividend, modulo 2^64, for *)
(* div with rem and for divu with remu, whatever the operands.             *)
THEOREM LawsAlways == Spec => []DivisionLaw
<1>1. Init => DivisionLaw
  BY SignedLawHolds, UnsignedLawHolds DEF Init, DivisionLaw
<1>2. DivisionLaw /\ [Next]_vars => DivisionLaw'
  BY DEF DivisionLaw, Next, vars
<1> QED BY <1>1, <1>2, PTL DEF Spec

-----------------------------------------------------------------------------
(* Words: the halves of a register.                                         *)

LEMMA HIsPositive == H \in Nat /\ H >= 2 /\ H <= M /\ 2 * H <= M
<1>1. H * 2 <= H * H
  BY HAssumption
<1> QED BY <1>1, HAssumption DEF M

(* H is twice a natural number, the half of it.                            *)
LEMMA HIsEven ==
    /\ H \div 2 \in Nat /\ H = 2 * (H \div 2)
    /\ M \div 2 \in Nat /\ M = 2 * (M \div 2)
BY HAssumption, MIsPositive

LEMMA ModOfShift ==
    ASSUME NEW n \in Int, NEW k \in Int
    PROVE  (n + H * k) % H = n % H
<1> DEFINE q == n \div H  r == n % H
<1>0. H \in Nat /\ H > 0
  BY HIsPositive
<1>1. n = H * q + r /\ q \in Int /\ r \in 0..(H - 1)
  BY <1>0
<1> HIDE DEF q, r
<1>2. n + H * k = H * (q + k) + r /\ q + k \in Int /\ n + H * k \in Int
  BY <1>0, <1>1
<1>3. (n + H * k) % H = r
  BY <1>0, <1>1, <1>2, FloorUnique
<1> QED BY <1>3 DEF r

(* The low half of a register that wraps is that of the number.            *)
LEMMA LowOfUnsigned ==
    ASSUME NEW n \in Int
    PROVE  Unsigned(n) % H = n % H
<1>1. PICK k \in Int : Unsigned(n) = n + M * k
  BY UnsignedShift
<1>2. M * k = H * (H * k) /\ H * k \in Int
  BY <1>1, HIsPositive DEF M
<1> QED BY <1>1, <1>2, ModOfShift

LEMMA SignedHalfRange ==
    ASSUME NEW n \in Int
    PROVE  SignedHalf(n) \in -(H \div 2)..(H \div 2 - 1)
<1> DEFINE r == n % H
<1>1. r \in 0..(H - 1)
  BY HIsPositive
<1>2. SignedHalf(n) = IF 2 * r >= H THEN r - H ELSE r
  BY DEF SignedHalf
<1> HIDE DEF r
<1> QED BY <1>1, <1>2, HIsEven, HIsPositive

(* A word that fits is its own low half with the sign.                     *)
LEMMA SignedHalfOf ==
    ASSUME NEW n \in -(H \div 2)..(H \div 2 - 1)
    PROVE  SignedHalf(n) = n
<1>0. H \in Nat /\ H > 0 /\ H = 2 * (H \div 2) /\ H \div 2 \in Nat /\ n \in Int
  BY HIsPositive, HIsEven
<1>1. CASE n >= 0
  <2>1. n % H = n
    BY <1>0, <1>1, ModSmall
  <2> QED BY <1>0, <1>1, <2>1 DEF SignedHalf
<1>2. CASE n < 0
  <2>1. n + H \in 0..(H - 1)
    BY <1>0, <1>2
  <2>2. n = H * (-1) + (n + H)
    BY <1>0
  <2>3. n % H = n + H
    BY <1>0, <2>1, <2>2, FloorUnique
  <2> QED BY <1>0, <1>2, <2>3 DEF SignedHalf
<1> QED BY <1>0, <1>1, <1>2

LEMMA SignedHalfOfLow ==
    ASSUME NEW n \in Int, NEW m \in Int, n % H = m % H
    PROVE  SignedHalf(n) = SignedHalf(m) /\ sext32(n) = sext32(m) /\ zext32(n) = zext32(m)
BY DEF SignedHalf, sext32, zext32

(* sext32 keeps the low half, and gives registers it leaves alone.         *)
LEMMA SignExtension ==
    ASSUME NEW n \in Int
    PROVE  sext32(n) \in Reg /\ sext32(n) % H = n % H /\ sext32(sext32(n)) = sext32(n)
<1>1. SignedHalf(n) \in Int
  BY SignedHalfRange, HIsEven
<1>2. sext32(n) \in Reg /\ sext32(n) % H = SignedHalf(n) % H
  BY <1>1, UnsignedShift, LowOfUnsigned DEF sext32
<1>3. SignedHalf(n) % H = n % H
  <2> DEFINE r == n % H
  <2>1. r \in 0..(H - 1)
    BY HIsPositive
  <2>2. SignedHalf(n) = r \/ SignedHalf(n) = r + H * (-1)
    <3>1. SignedHalf(n) = IF 2 * r >= H THEN r - H ELSE r
      BY DEF SignedHalf
    <3> HIDE DEF r
    <3> QED BY <2>1, <3>1, HIsPositive
  <2> HIDE DEF r
  <2>3. SignedHalf(n) % H = r % H
    BY <2>1, <2>2, ModOfShift
  <2>4. r % H = r
    BY <2>1, HIsPositive, ModSmall
  <2> QED BY <2>3, <2>4 DEF r
<1>4. sext32(n) \in Int
  BY <1>2, MIsPositive DEF Reg
<1> QED BY <1>2, <1>3, <1>4, SignedHalfOfLow

(* A word that fits, as a register, is canonical.                          *)
LEMMA WordIsCanonical ==
    ASSUME NEW n \in -(H \div 2)..(H \div 2 - 1)
    PROVE  Unsigned(n) \in Reg /\ sext32(Unsigned(n)) = Unsigned(n)
<1>1. n \in Int /\ Unsigned(n) \in Int
  BY HIsEven, UnsignedShift, MIsPositive DEF Reg
<1>2. sext32(Unsigned(n)) = sext32(n)
  BY <1>1, LowOfUnsigned, SignedHalfOfLow
<1>3. sext32(n) = Unsigned(n)
  BY SignedHalfOf DEF sext32
<1> QED BY <1>1, <1>2, <1>3, UnsignedShift

-----------------------------------------------------------------------------
(* The word forms of func.h.                                               *)

LEMMA SumOfLow ==
    ASSUME NEW n \in Int, NEW m \in Int, NEW p \in Int, n % H = m % H
    PROVE  /\ (n + p) % H = (m + p) % H /\ (n - p) % H = (m - p) % H
           /\ (n * p) % H = (m * p) % H
<1> DEFINE r == n % H  k == n \div H  j == m \div H
<1>1. /\ n = r + H * k /\ m = r + H * j
      /\ k \in Int /\ j \in Int /\ r \in Int /\ H \in Int
  BY HIsPositive
<1> HIDE DEF r, k, j
<1>2. n = m + H * (k - j) /\ k - j \in Int
  BY <1>1
<1>3. n + p = (m + p) + H * (k - j) /\ n - p = (m - p) + H * (k - j)
  BY <1>1, <1>2
<1>4. n * p = m * p + H * ((k - j) * p) /\ (k - j) * p \in Int /\ m * p \in Int
  <2> DEFINE l == k - j
  <2>1. n = m + H * l /\ l \in Int
    BY <1>2
  <2> HIDE DEF l
  <2>2. n * p = m * p + (H * l) * p /\ (H * l) * p = H * (l * p)
    BY <1>1, <2>1
  <2> QED BY <2>1, <2>2 DEF l
<1> QED BY <1>2, <1>3, <1>4, ModOfShift

LEMMA Factors ==
    ASSUME NEW y \in Int
    PROVE  ByHalf(y) \in 0..XLEN /\ 2 ^ ByHalf(y) \in Nat /\ 2 ^ ByHalf(y) > 0
<1>1. XLEN \div 2 \in Nat /\ XLEN \div 2 > 0 /\ XLEN \div 2 <= XLEN
  <2>1. XLEN \in Nat /\ XLEN # 0 /\ XLEN % 2 = 0
    BY AluAssumption
  <2> QED BY <2>1
<1>2. ByHalf(y) \in 0..XLEN
  <2> DEFINE k == XLEN \div 2
  <2>1. k \in Nat /\ k > 0 /\ k <= XLEN /\ XLEN \in Nat
    BY <1>1, AluAssumption
  <2>2. ByHalf(y) = y % k
    BY DEF ByHalf
  <2> HIDE DEF k
  <2> QED BY <2>1, <2>2
<1> QED BY <1>2, FactorAssumption

LEMMA WordFormsHold == a \in Reg /\ b \in Reg => WordFormsKeepWords
<1> SUFFICES ASSUME a \in Reg, b \in Reg PROVE WordFormsCanonical /\ WordFormsReadHalves
  BY DEF WordFormsKeepWords
<1> DEFINE c == sext32(a)  f == 2 ^ ByHalf(b)
<1>1. a \in Int /\ b \in Int /\ c \in Int /\ c % H = a % H
  <2>1. a \in Int /\ b \in Int
    BY MIsPositive DEF Reg
  <2> QED BY <2>1, SignExtension, MIsPositive DEF Reg
<1>2. f \in Nat /\ f > 0
  BY <1>1, Factors
<1> HIDE DEF c, f
<1>3. /\ a + b \in Int /\ a - b \in Int /\ a * b \in Int /\ a * f \in Int
      /\ c + b \in Int /\ c - b \in Int /\ c * b \in Int /\ c * f \in Int
  BY <1>1, <1>2
<1>4. /\ (a + b) % H = (c + b) % H /\ (a - b) % H = (c - b) % H
      /\ (a * b) % H = (c * b) % H /\ (a * f) % H = (c * f) % H
  <2>1. a % H = c % H /\ f \in Int
    BY <1>1, <1>2
  <2>2. /\ (a + b) % H = (c + b) % H /\ (a - b) % H = (c - b) % H
        /\ (a * b) % H = (c * b) % H
    BY <1>1, <2>1, SumOfLow
  <2>3. (a * f) % H = (c * f) % H
    BY <1>1, <2>1, SumOfLow
  <2> QED BY <2>2, <2>3
<1>5. \A n \in Int : Unsigned(n) \in Int /\ sext32(Unsigned(n)) = sext32(n)
  <2> SUFFICES ASSUME NEW n \in Int
               PROVE  Unsigned(n) \in Int /\ sext32(Unsigned(n)) = sext32(n)
    OBVIOUS
  <2>1. Unsigned(n) \in Int
    BY UnsignedShift, MIsPositive DEF Reg
  <2> QED BY <2>1, LowOfUnsigned, SignedHalfOfLow
<1>6. \A n \in Int : Canonical(sext32(n))
  BY SignExtension DEF Canonical
<1>7. SignedHalf(a) \in Int /\ zext32(a) \in Int
  BY <1>1, SignedHalfRange, HIsEven, HIsPositive DEF zext32
<1>8. zext32(a) \div f \in Int /\ SignedHalf(a) \div f \in Int
  BY <1>2, <1>7
<1>9. SignedHalf(a) = SignedHalf(c) /\ zext32(a) = zext32(c)
  BY <1>1, SignedHalfOfLow
<1>10. /\ addw(a, b) = sext32(a + b) /\ subw(a, b) = sext32(a - b)
       /\ mulw(a, b) = sext32(a * b) /\ slliw(a, b) = sext32(a * f)
       /\ srlw(a, b) = sext32(zext32(a) \div f)
       /\ sraw(a, b) = sext32(SignedHalf(a) \div f)
  BY <1>3, <1>5, <1>8 DEF addw, subw, mulw, mul, slliw, srlw, sraw, add, sub, Shl,
                                       Shr, f
<1>11. /\ addw(c, b) = sext32(c + b) /\ subw(c, b) = sext32(c - b)
       /\ mulw(c, b) = sext32(c * b) /\ slliw(c, b) = sext32(c * f)
       /\ srlw(c, b) = sext32(zext32(a) \div f)
       /\ sraw(c, b) = sext32(SignedHalf(a) \div f)
  BY <1>3, <1>5, <1>8, <1>9 DEF addw, subw, mulw, mul, slliw, srlw, sraw, add, sub, Shl,
                                       Shr, f
<1>12. WordFormsCanonical
  <2>1. /\ Canonical(addw(a, b)) /\ Canonical(subw(a, b)) /\ Canonical(mulw(a, b))
        /\ Canonical(slliw(a, b)) /\ Canonical(srlw(a, b)) /\ Canonical(sraw(a, b))
    BY <1>3, <1>6, <1>8, <1>10
  <2> QED BY <2>1 DEF WordFormsCanonical, WordForms
<1>13. /\ addw(a, b) = addw(c, b) /\ subw(a, b) = subw(c, b) /\ mulw(a, b) = mulw(c, b)
       /\ slliw(a, b) = slliw(c, b) /\ srlw(a, b) = srlw(c, b) /\ sraw(a, b) = sraw(c, b)
  <2>1. \A n, m \in Int : n % H = m % H => sext32(n) = sext32(m)
    BY SignedHalfOfLow
  <2> QED BY <1>3, <1>4, <1>10, <1>11, <2>1
<1> QED BY <1>12, <1>13 DEF WordFormsReadHalves, WordForms, c

(* The carry of a sum, and the difference that undoes it.                  *)
LEMMA CarryHolds == a \in Reg /\ b \in Reg => CarryRecovered
<1> SUFFICES ASSUME a \in Reg, b \in Reg PROVE CarryRecovered
  OBVIOUS
<1>0. /\ M \in Nat /\ M > 0 /\ a \in Int /\ b \in Int
      /\ 0 <= a /\ a < M /\ 0 <= b /\ b < M
  BY MIsPositive DEF Reg
<1>1. CASE a + b < M
  <2>1. add(a, b) = a + b
    BY <1>0, <1>1, ModSmall DEF add, Unsigned
  <2>2. sub(add(a, b), b) = a
    BY <1>0, <2>1, ModSmall DEF sub, Unsigned
  <2> QED BY <1>0, <2>1, <2>2 DEF CarryRecovered, sltiu
<1>2. CASE a + b >= M
  <2>1. a + b = M * 1 + (a + b - M) /\ a + b - M \in 0..(M - 1)
    BY <1>0, <1>2
  <2>2. add(a, b) = a + b - M
    BY <1>0, <2>1, FloorUnique DEF add, Unsigned
  <2>3. add(a, b) - b = M * (-1) + a /\ a \in 0..(M - 1) /\ add(a, b) - b \in Int
    BY <1>0, <2>2
  <2>4. sub(add(a, b), b) = a
    BY <1>0, <2>3, FloorUnique DEF sub, Unsigned
  <2> QED BY <1>0, <2>2, <2>4 DEF CarryRecovered, sltiu
<1> QED BY <1>0, <1>1, <1>2

LEMMA BranchesHold == a \in Reg /\ b \in Reg => BranchesConsistent
<1> SUFFICES ASSUME a \in Reg, b \in Reg PROVE BranchesConsistent
  OBVIOUS
<1>0. /\ M \in Nat /\ M > 0 /\ a \in Int /\ b \in Int
      /\ 0 <= a /\ a < M /\ 0 <= b /\ b < M
  BY MIsPositive DEF Reg
<1>1. /\ Signed(a) \in Int /\ Signed(b) \in Int
      /\ Signed(a) = (IF 2 * a >= M THEN a - M ELSE a)
      /\ Signed(b) = (IF 2 * b >= M THEN b - M ELSE b)
  BY <1>0 DEF Signed
<1>2. (Signed(a) = Signed(b)) <=> (a = b)
  BY <1>0, <1>1
<1>3. (Signed(a) < 0) = (Signed(b) < 0) => (Signed(a) < Signed(b)) = (a < b)
  BY <1>0, <1>1
<1>4. /\ beq(a, b) # bne(a, b) /\ blt(a, b) # bge(a, b) /\ bltu(a, b) # bgeu(a, b)
      /\ beq(a, b) = (bgeu(a, b) /\ bgeu(b, a))
  BY <1>0, <1>1 DEF beq, bne, blt, bge, bltu, bgeu
<1>5. beq(a, b) = (bge(a, b) /\ bge(b, a))
  BY <1>1, <1>2 DEF beq, bge
<1>6. (Signed(a) < 0) = (Signed(b) < 0) => blt(a, b) = bltu(a, b)
  BY <1>3 DEF blt, bltu
<1>7. blt(a, b) = (slt(a, b) = 1) /\ bltu(a, b) = (sltiu(a, b) = 1)
  BY DEF blt, bltu, slt, sltiu
<1> QED BY <1>4, <1>5, <1>6, <1>7 DEF BranchesConsistent

-----------------------------------------------------------------------------
(* Logic: a register is the sum of its bits.                               *)

LEMMA HalfWidth == XLEN \div 2 \in 0..XLEN /\ (XLEN \div 2) + (XLEN \div 2) = XLEN /\ XLEN >= 2
<1>1. XLEN \in Nat /\ XLEN # 0 /\ XLEN % 2 = 0
  BY AluAssumption
<1> QED BY <1>1

LEMMA Powers ==
    /\ \A s \in 0..XLEN : 2 ^ s \in Nat /\ 2 ^ s > 0
    /\ \A s \in Bits : 2 ^ (s + 1) = 2 * 2 ^ s /\ s + 1 \in 0..XLEN /\ s \in 0..XLEN
    /\ 2 ^ XLEN = M
<1>1. \A s \in 0..XLEN : 2 ^ s \in Nat /\ 2 ^ s > 0
  BY FactorAssumption
<1>2. ASSUME NEW s \in Bits
      PROVE  2 ^ (s + 1) = 2 * 2 ^ s /\ s + 1 \in 0..XLEN /\ s \in 0..XLEN
  <2>1. s \in 0..XLEN /\ 1 \in 0..XLEN /\ s + 1 \in 0..XLEN /\ s + 1 <= XLEN
    BY HalfWidth, AluAssumption DEF Bits
  <2>2. 2 ^ (s + 1) = (2 ^ s) * (2 ^ 1) /\ 2 ^ 1 = 2
    BY <2>1, FactorAssumption
  <2> QED BY <1>1, <2>1, <2>2
<1>3. 2 ^ XLEN = M
  <2> DEFINE k == XLEN \div 2
  <2>1. k \in 0..XLEN /\ k + k <= XLEN /\ k + k = XLEN
    BY HalfWidth, AluAssumption
  <2>2. 2 ^ k = H
    BY AluAssumption
  <2> HIDE DEF k
  <2>3. 2 ^ (k + k) = (2 ^ k) * (2 ^ k)
    BY <2>1, FactorAssumption
  <2> QED BY <2>1, <2>2, <2>3 DEF M
<1> QED BY <1>1, <1>2, <1>3

(* The bits of s, each as what it counts; OfBits adds them up.             *)
Values(s) == [i \in Bits |-> IF i \in s THEN 2 ^ i ELSE 0]

LEMMA OfBitsIsSum == \A s : OfBits(s) = Sum(Values(s))
BY Zenon DEF OfBits, Sum, Values

LEMMA ValuesType == IsFiniteSet(Bits) /\ \A s : Values(s) \in [Bits -> Nat]
<1>1. IsFiniteSet(Bits)
  BY FS_Interval, AluAssumption DEF Bits
<1>2. \A i \in Bits : 2 ^ i \in Nat
  BY Powers
<1> QED BY <1>1, <1>2 DEF Values

(* One bit more of a number.                                               *)
LEMMA OneBitMore ==
    ASSUME NEW x \in Nat, NEW p \in Nat, p > 0
    PROVE  x % (2 * p) = (x % p) + (IF (x \div p) % 2 = 1 THEN p ELSE 0)
<1> DEFINE q == x \div p  r == x % p  k == q \div 2  e == q % 2
<1>1. x = p * q + r /\ q \in Nat /\ r \in 0..(p - 1)
  BY DivMod
<1> HIDE DEF q, r
<1>2. q = 2 * k + e /\ k \in Nat /\ e \in 0..1
  BY <1>1
<1>3. (q % 2 = 1) <=> (e = 1)
  OBVIOUS
<1> HIDE DEF k, e
<1>4. p * q = (2 * p) * k + p * e
  <2>1. p * (2 * k + e) = p * (2 * k) + p * e /\ p * (2 * k) = (2 * p) * k
    BY <1>2
  <2> QED BY <1>2, <2>1
<1>5. p * e = IF e = 1 THEN p ELSE 0
  BY <1>2
<1>6. x = (2 * p) * k + (p * e + r) /\ p * e + r \in 0..(2 * p - 1)
  <2> DEFINE u == p * e  w == (2 * p) * k
  <2>1. x = (w + u) + r /\ u \in 0..p /\ w \in Int
    BY <1>1, <1>2, <1>4, <1>5
  <2> HIDE DEF u, w
  <2>2. x = w + (u + r) /\ u + r \in 0..(2 * p - 1)
    BY <1>1, <2>1
  <2> QED BY <2>2 DEF u, w
<1>7. x % (2 * p) = p * e + r
  <2> DEFINE d == 2 * p  s == p * e + r
  <2>1. d \in Nat /\ d > 0 /\ s \in 0..(d - 1) /\ x = d * k + s /\ k \in Int /\ x \in Int
    BY <1>2, <1>6
  <2> HIDE DEF d, s
  <2>2. x % d = s
    BY <2>1, FloorUnique
  <2> QED BY <2>2 DEF d, s
<1> QED BY <1>1, <1>2, <1>3, <1>5, <1>7 DEF q, r

(* The sum of the bits of x below n is the remainder of x by 2^n, so that   *)
(* the sum of all of them is x.                                            *)
Prefix(x, n) == {i \in BitSet(x) : i < n}

LEMMA PrefixSum ==
    ASSUME NEW x \in Nat
    PROVE  \A n \in 0..XLEN : Sum(Values(Prefix(x, n))) = x % 2 ^ n
<1> DEFINE T == {n \in Nat : n <= XLEN => Sum(Values(Prefix(x, n))) = x % 2 ^ n}
<1>1. 0 \in T
  <2>1. Values(Prefix(x, 0)) = [i \in Bits |-> 0]
    <3>1. \A i \in Bits : i \notin Prefix(x, 0)
      BY DEF Prefix, Bits
    <3> QED BY <3>1 DEF Values
  <2>2. Sum(Values(Prefix(x, 0))) = 0
    BY <2>1, ValuesType, SumZero
  <2>3. x % 2 ^ 0 = 0
    BY FactorAssumption
  <2> QED BY <2>2, <2>3
<1>2. ASSUME NEW n \in Nat, n \in T PROVE n + 1 \in T
  <2> SUFFICES ASSUME n + 1 <= XLEN
               PROVE  Sum(Values(Prefix(x, n + 1))) = x % 2 ^ (n + 1)
    OBVIOUS
  <2>1. n \in Bits /\ n <= XLEN
    BY AluAssumption DEF Bits
  <2> DEFINE f == Values(Prefix(x, n))  g == Values(Prefix(x, n + 1))
             v == IF (x \div 2 ^ n) % 2 = 1 THEN 2 ^ n ELSE 0
  <2>2. Sum(f) = x % 2 ^ n
    BY <1>2, <2>1
  <2>3. v \in Nat /\ 2 ^ n \in Nat /\ 2 ^ n > 0 /\ 2 ^ (n + 1) = 2 * 2 ^ n
    BY <2>1, Powers
  <2>4. f \in [Bits -> Nat] /\ g \in [Bits -> Nat] /\ DOMAIN g = Bits
    BY ValuesType
  <2>5. f[n] = 0 /\ g[n] = v
    BY <2>1 DEF Values, Prefix, BitSet
  <2>6. \A i \in Bits \ {n} : g[i] = f[i]
    <3> SUFFICES ASSUME NEW i \in Bits \ {n} PROVE g[i] = f[i]
      OBVIOUS
    <3>1. i \in Nat /\ i # n
      BY AluAssumption DEF Bits
    <3>2. (i < n) <=> (i < n + 1)
      BY <3>1
    <3> QED BY <3>2 DEF Values, Prefix
  <2> HIDE DEF f, g
  <2>7. Sum(g) = Sum(f) + g[n] - f[n]
    BY <2>1, <2>4, <2>6, ValuesType, SumChanged
  <2>8. x % (2 * 2 ^ n) = (x % 2 ^ n) + v
    BY <2>3, OneBitMore
  <2>9. Sum(f) \in Nat
    BY <2>4, ValuesType, SumType
  <2>10. Sum(g) = x % 2 ^ (n + 1)
    BY <2>2, <2>3, <2>5, <2>7, <2>8, <2>9
  <2> QED BY <2>10 DEF g
<1>3. Nat \subseteq T
  <2> HIDE DEF T
  <2> QED BY <1>1, <1>2, SetInduction
<1> QED BY <1>3, AluAssumption

LEMMA SumOfBits == \A x \in Reg : OfBits(BitSet(x)) = x
<1> SUFFICES ASSUME NEW x \in Reg PROVE OfBits(BitSet(x)) = x
  OBVIOUS
<1>1. x \in Nat /\ x \in 0..(M - 1) /\ M \in Nat
  BY MIsPositive DEF Reg
<1>2. Prefix(x, XLEN) = BitSet(x)
  BY AluAssumption DEF Prefix, BitSet, Bits
<1>3. Sum(Values(BitSet(x))) = x % 2 ^ XLEN
  BY <1>1, <1>2, PrefixSum, AluAssumption
<1>4. x % M = x
  BY <1>1, ModSmall
<1> QED BY <1>3, <1>4, OfBitsIsSum, Powers

(* Bits that are not shared add up.                                        *)
LEMMA DisjointBits ==
    \A s, t : s \cap t = {} => OfBits(s \cup t) = OfBits(s) + OfBits(t)
<1> SUFFICES ASSUME NEW s, NEW t, s \cap t = {}
             PROVE  OfBits(s \cup t) = OfBits(s) + OfBits(t)
  OBVIOUS
<1>1. \A i \in Bits : Values(s \cup t)[i] = Values(s)[i] + Values(t)[i]
  <2> SUFFICES ASSUME NEW i \in Bits
               PROVE  Values(s \cup t)[i] = Values(s)[i] + Values(t)[i]
    OBVIOUS
  <2>1. 2 ^ i \in Nat /\ ~(i \in s /\ i \in t)
    BY Powers
  <2> QED BY <2>1 DEF Values
<1>2. Sum(Values(s \cup t)) = Sum(Values(s)) + Sum(Values(t))
  <2> DEFINE f == Values(s)  g == Values(t)  h == Values(s \cup t)
  <2>1. f \in [Bits -> Nat] /\ g \in [Bits -> Nat] /\ h \in [Bits -> Nat]
    BY ValuesType
  <2>2. \A i \in Bits : h[i] = f[i] + g[i]
    BY <1>1
  <2> HIDE DEF f, g, h
  <2>3. Sum(h) = Sum(f) + Sum(g)
    BY <2>1, <2>2, ValuesType, SumAdd
  <2> QED BY <2>3 DEF f, g, h
<1> QED BY <1>2, OfBitsIsSum

LEMMA OfBitsType == \A s : OfBits(s) \in Nat
BY ValuesType, SumType, OfBitsIsSum

(* The register of -1 has every bit.                                       *)
LEMMA AllBits == BitSet(M - 1) = Bits
<1> SUFFICES ASSUME NEW i \in Bits PROVE ((M - 1) \div 2 ^ i) % 2 = 1
  BY DEF BitSet
<1> DEFINE j == XLEN - (i + 1)  p == 2 ^ i  m == 2 ^ j
<1>1. j \in Bits /\ i \in 0..XLEN /\ j + 1 \in 0..XLEN /\ i + (j + 1) = XLEN
  BY AluAssumption DEF Bits
<1>2. p \in Nat /\ p > 0 /\ m \in Nat /\ m > 0 /\ 2 ^ (j + 1) = 2 * m
  BY <1>1, Powers
<1>3. M = p * (2 * m)
  <2>1. 2 ^ (i + (j + 1)) = (2 ^ i) * (2 ^ (j + 1))
    BY <1>1, FactorAssumption, AluAssumption
  <2> QED BY <1>1, <1>2, <2>1, Powers
<1> HIDE DEF p, m, j
<1>4. M - 1 = p * (2 * m - 1) + (p - 1)
  BY <1>2, <1>3
<1>5. (M - 1) \div p = 2 * m - 1
  <2> DEFINE q == 2 * m - 1  r == p - 1  x == M - 1
  <2>1. x \in Nat /\ q \in Nat /\ r \in Nat /\ r < p /\ x = p * q + r
    BY <1>2, <1>4, MIsPositive
  <2> HIDE DEF q, r, x
  <2>2. x \div p = q
    BY <1>2, <2>1, DivUnique
  <2> QED BY <2>2 DEF q, x
<1>6. (2 * m - 1) % 2 = 1
  BY <1>2
<1> QED BY <1>5, <1>6 DEF p

LEMMA UnsignedOfSum ==
    ASSUME NEW x \in Int, NEW y \in Int
    PROVE  Unsigned(x + Unsigned(y)) = Unsigned(x + y)
<1>1. PICK k \in Int : Unsigned(y) = y + M * k
  BY UnsignedShift
<1> DEFINE q == (x + y) \div M  r == (x + y) % M
<1>2. M \in Nat /\ M > 0
  BY MIsPositive
<1>3. x + y = M * q + r /\ q \in Int /\ r \in 0..(M - 1)
  BY <1>2
<1> HIDE DEF q, r
<1>4. x + Unsigned(y) = M * (q + k) + r /\ q + k \in Int /\ x + Unsigned(y) \in Int
  <2>1. M * (q + k) = M * q + M * k /\ M * k \in Int /\ M * q \in Int
    BY <1>1, <1>2, <1>3
  <2> QED BY <1>1, <1>3, <2>1
<1>5. (x + Unsigned(y)) % M = r
  BY <1>2, <1>3, <1>4, FloorUnique
<1> QED BY <1>5 DEF Unsigned, r

(* The bits that both operands have are those that carry.                  *)
LEMMA LogicHolds == a \in Reg /\ b \in Reg => LogicAgrees
<1> SUFFICES ASSUME a \in Reg, b \in Reg PROVE LogicAgrees
  OBVIOUS
<1> DEFINE A == BitSet(a)  B == BitSet(b)  X == (A \cup B) \ (A \cap B)
<1>0. M \in Nat /\ M > 0 /\ a \in Nat /\ b \in Nat /\ M - 1 \in Reg /\ a <= M - 1
  BY MIsPositive DEF Reg
<1>1. A \subseteq Bits /\ B \subseteq Bits
  BY DEF BitSet
<1>2. OfBits(A) = a /\ OfBits(B) = b
  BY SumOfBits
<1>3. and(a, b) = OfBits(A \cap B) /\ or(a, b) = OfBits(A \cup B) /\ xor(a, b) = OfBits(X)
  <2>1. {i \in Bits : (i \in A) # (i \in B)} = X
    BY <1>1
  <2> QED BY <2>1 DEF and, or, xor
<1>4. xor(a, M - 1) = OfBits(Bits \ A)
  <2>1. {i \in Bits : (i \in A) # (i \in Bits)} = Bits \ A
    BY <1>1
  <2> QED BY <2>1, AllBits DEF xor
<1> HIDE DEF A, B
<1>5. OfBits(A \cup B) = a + OfBits(B \ A)
  <2>1. A \cup B = A \cup (B \ A) /\ A \cap (B \ A) = {}
    OBVIOUS
  <2> QED BY <1>2, <2>1, DisjointBits
<1>6. b = OfBits(A \cap B) + OfBits(B \ A)
  <2>1. B = (A \cap B) \cup (B \ A) /\ (A \cap B) \cap (B \ A) = {}
    OBVIOUS
  <2> QED BY <1>2, <2>1, DisjointBits
<1>7. OfBits(A \cup B) = OfBits(X) + OfBits(A \cap B)
  <2>1. A \cup B = X \cup (A \cap B) /\ X \cap (A \cap B) = {}
    OBVIOUS
  <2> QED BY <2>1, DisjointBits
<1>8. M - 1 = a + OfBits(Bits \ A)
  <2>1. Bits = A \cup (Bits \ A) /\ A \cap (Bits \ A) = {}
    BY <1>1
  <2>2. OfBits(Bits) = M - 1
    BY <1>0, AllBits, SumOfBits
  <2> QED BY <1>2, <2>1, <2>2, DisjointBits
<1> HIDE DEF X
<1> DEFINE c == OfBits(A \cap B)  d == OfBits(A \cup B)  e == OfBits(X)  f == OfBits(B \ A)
           g == OfBits(Bits \ A)
<1>9. c \in Nat /\ d \in Nat /\ e \in Nat /\ f \in Nat /\ g \in Nat
  BY OfBitsType
<1>10. d = a + f /\ b = c + f /\ d = e + c /\ M - 1 = a + g
  BY <1>5, <1>6, <1>7, <1>8
<1>11. and(a, b) = c /\ or(a, b) = d /\ xor(a, b) = e /\ xor(a, M - 1) = g
  BY <1>3, <1>4
<1> HIDE DEF c, d, e, f, g
<1>12. add(and(a, b), or(a, b)) = add(a, b)
  <2>1. c + d = a + b
    BY <1>0, <1>9, <1>10
  <2> QED BY <1>11, <2>1 DEF add
<1>13. add(xor(a, b), sll(and(a, b), 1)) = add(a, b)
  <2>1. ByReg(1) = 1 /\ 2 ^ 1 = 2
    BY HalfWidth, FactorAssumption, AluAssumption DEF ByReg
  <2>2. sll(and(a, b), 1) = Unsigned(c * 2)
    BY <1>11, <2>1 DEF sll, Shl
  <2>3. e + c * 2 = a + b /\ c * 2 \in Int /\ e \in Int
    BY <1>0, <1>9, <1>10
  <2>4. Unsigned(e + Unsigned(c * 2)) = Unsigned(e + c * 2)
    BY <2>3, UnsignedOfSum
  <2> QED BY <1>11, <2>2, <2>3, <2>4 DEF add
<1>14. xor(a, M - 1) = sub(M - 1, a)
  <2>1. g = (M - 1) - a /\ g \in 0..(M - 1)
    BY <1>0, <1>9, <1>10
  <2>2. g % M = g
    BY <1>0, <2>1, ModSmall
  <2> QED BY <1>11, <2>1, <2>2 DEF sub, Unsigned
<1> QED BY <1>12, <1>13, <1>14 DEF LogicAgrees

(* A shift to the left and back by half a register.                        *)
LEMMA ShiftsHold == a \in Reg => ShiftsExtend
<1> SUFFICES ASSUME a \in Reg PROVE ShiftsExtend
  OBVIOUS
<1> DEFINE k == XLEN \div 2  q == a \div H  r == a % H  t == r * H
<1>1. H \in Nat /\ H > 0 /\ M = H * H /\ M \in Nat /\ M > 0 /\ a \in Nat
  BY HIsPositive, MIsPositive DEF M, Reg
<1>2. a = H * q + r /\ q \in Int /\ r \in 0..(H - 1)
  BY <1>1, DivMod
<1>3. ByReg(k) = k /\ 2 ^ k = H
  <2>1. XLEN \in Nat /\ XLEN # 0 /\ XLEN % 2 = 0
    BY AluAssumption
  <2>2. k \in 0..(XLEN - 1)
    BY <2>1
  <2>3. 2 ^ k = H
    BY AluAssumption
  <2> HIDE DEF k
  <2> QED BY <2>1, <2>2, <2>3, ModSmall DEF ByReg
<1> HIDE DEF k, q, r
<1>4. t \in 0..(M - 1)
  <2>1. r * H <= (H - 1) * H /\ r * H >= 0 /\ r * H \in Int
    BY <1>1, <1>2
  <2>2. (H - 1) * H = M - H
    BY <1>1
  <2> QED BY <1>1, <2>1, <2>2
<1>5. sll(a, k) = t
  <2>1. a * H = M * q + t
    <3>1. a * H = (H * q) * H + r * H
      BY <1>1, <1>2
    <3>2. (H * q) * H = (H * H) * q
      BY <1>1, <1>2
    <3> QED BY <1>1, <3>1, <3>2
  <2>2. a * H \in Int
    BY <1>1
  <2>3. (a * H) % M = t
    <3> DEFINE z == a * H
    <3> HIDE DEF z, t
    <3>1. z \in Int /\ z = M * q + t
      BY <2>1, <2>2 DEF z
    <3>2. z % M = t
      BY <1>1, <1>2, <1>4, <3>1, FloorUnique
    <3> QED BY <3>2 DEF z
  <2> QED BY <1>3, <2>3 DEF sll, Shl, Unsigned
<1>6. (2 * t >= M) <=> (2 * r >= H)
  <2>1. CASE 2 * r >= H
    <3>1. (2 * r) * H >= H * H
      BY <1>1, <1>2, <2>1
    <3> QED BY <1>1, <1>2, <2>1, <3>1
  <2>2. CASE 2 * r < H
    <3>1. (2 * r) * H < H * H
      BY <1>1, <1>2, <2>2
    <3> QED BY <1>1, <1>2, <2>2, <3>1
  <2> QED BY <1>1, <1>2, <2>1, <2>2
<1>7. t \div H = r
  <2>1. t = H * r + 0 /\ t \in Int
    BY <1>1, <1>2
  <2> HIDE DEF t
  <2> QED BY <1>1, <1>2, <2>1, FloorUnique
<1>8. Signed(t) \div H = SignedHalf(a)
  <2>1. CASE 2 * r >= H
    <3>1. Signed(t) = t - M /\ SignedHalf(a) = r - H
      BY <1>6, <2>1 DEF Signed, SignedHalf, r
    <3>2. t - M = H * (r - H) + 0 /\ r - H \in Int /\ t - M \in Int
      BY <1>1, <1>2
    <3> HIDE DEF t
    <3>3. (t - M) \div H = r - H
      BY <1>1, <3>2, FloorUnique
    <3> QED BY <3>1, <3>3
  <2>2. CASE ~(2 * r >= H)
    <3>1. Signed(t) = t /\ SignedHalf(a) = r
      BY <1>6, <2>2 DEF Signed, SignedHalf, r
    <3> QED BY <1>7, <3>1
  <2> QED BY <2>1, <2>2
<1>9. sra(t, k) = sext32(a)
  BY <1>3, <1>8 DEF sra, Shr, sext32
<1>10. srl(t, k) = zext32(a)
  BY <1>3, <1>7 DEF srl, Shr, zext32, r
<1> QED BY <1>5, <1>9, <1>10 DEF ShiftsExtend, k

-----------------------------------------------------------------------------
(* The divisions of words.                                                 *)

LEMMA WordDivisionsHold ==
    a \in Reg /\ b \in Reg => DivisionsKeepWords
<1> SUFFICES ASSUME a \in Reg, b \in Reg PROVE DivisionsCanonical /\ DivisionsReadHalves
  BY DEF DivisionsKeepWords
<1>1. a \in Int /\ b \in Int
  BY MIsPositive DEF Reg
<1>2. /\ SignedHalf(a) \in Int /\ SignedHalf(b) \in Int
      /\ zext32(a) \in Nat /\ zext32(b) \in Nat
  BY <1>1, SignedHalfRange, HIsEven, HIsPositive DEF zext32
<1>3. \A n \in Int : sext32(n) \in Reg /\ sext32(sext32(n)) = sext32(n)
  BY SignExtension
<1>4. AllOnes \in Reg /\ sext32(AllOnes) = AllOnes
  <2>1. AllOnes = Unsigned(-1)
    <3>1. -1 = M * (-1) + (M - 1) /\ M - 1 \in 0..(M - 1)
      BY MIsPositive
    <3> QED BY <3>1, MIsPositive, FloorUnique DEF AllOnes, Unsigned
  <2>2. -1 \in -(H \div 2)..(H \div 2 - 1)
    BY HIsPositive, HIsEven
  <2> QED BY <2>1, <2>2, WordIsCanonical
<1>5. \A n \in Int : Unsigned(n) \in Int
  BY UnsignedShift, MIsPositive DEF Reg
<1>6. divw(a, b) \in Reg /\ sext32(divw(a, b)) = divw(a, b)
  <2>1. SignedHalf(b) # 0 => Unsigned(Quo(SignedHalf(a), SignedHalf(b))) \in Int
    BY <1>2, <1>5, QuoType
  <2> QED BY <1>3, <1>4, <2>1 DEF divw
<1>7. remw(a, b) \in Reg /\ sext32(remw(a, b)) = remw(a, b)
  <2>1. SignedHalf(b) # 0 => Rem(SignedHalf(a), SignedHalf(b)) \in Int
    BY <1>2, QuoType DEF Rem
  <2> QED BY <1>1, <1>3, <1>5, <2>1 DEF remw
<1>8. divuw(a, b) \in Reg /\ sext32(divuw(a, b)) = divuw(a, b)
  BY <1>2, <1>3, <1>4 DEF divuw
<1>9. remuw(a, b) \in Reg /\ sext32(remuw(a, b)) = remuw(a, b)
  BY <1>2, <1>3 DEF remuw
<1>10. /\ SignedHalf(sext32(a)) = SignedHalf(a) /\ SignedHalf(sext32(b)) = SignedHalf(b)
       /\ zext32(sext32(a)) = zext32(a) /\ zext32(sext32(b)) = zext32(b)
       /\ sext32(sext32(a)) = sext32(a)
  <2>1. /\ sext32(a) \in Int /\ sext32(a) % H = a % H
        /\ sext32(b) \in Int /\ sext32(b) % H = b % H
    BY <1>1, SignExtension, MIsPositive DEF Reg
  <2> QED BY <1>1, <1>3, <2>1, SignedHalfOfLow
<1>11. DivisionsReadHalves
  BY <1>10 DEF DivisionsReadHalves, Divisions, divw, remw, divuw, remuw
<1>12. DivisionsCanonical
  BY <1>6, <1>7, <1>8, <1>9 DEF DivisionsCanonical, Divisions
<1> QED BY <1>11, <1>12

(* The remainder is that of the magnitudes, with the sign of the dividend. *)
LEMMA RemainderOf ==
    ASSUME NEW n \in Int, NEW d \in Int, d # 0
    PROVE  /\ Rem(n, d) \in Int /\ Abs(Rem(n, d)) < Abs(d)
           /\ Rem(n, d) # 0 => (Rem(n, d) < 0) = (n < 0)
<1> DEFINE e == Abs(d)  m == Abs(n)  q == m \div e  r == m % e
<1>1. e \in Nat /\ e > 0 /\ m \in Nat /\ (d = e \/ d = -e) /\ (n = m \/ n = -m)
  BY DEF Abs
<1>2. m = e * q + r /\ q \in Nat /\ r \in 0..(e - 1)
  BY <1>1, DivMod
<1>3. Quo(n, d) = IF (n < 0) = (d < 0) THEN q ELSE -q
  BY DEF Quo
<1>4. /\ n < 0 => n = -m
      /\ ~(n < 0) => n = m
      /\ d < 0 => d = -e
      /\ ~(d < 0) => d = e
  BY DEF Abs
<1> HIDE DEF e, m, q, r
<1>5. d * Quo(n, d) = IF n < 0 THEN -(e * q) ELSE e * q
  <2>1. e * (-q) = -(e * q) /\ (-e) * q = -(e * q) /\ (-e) * (-q) = e * q
    BY <1>1, <1>2
  <2>2. CASE n < 0 /\ d < 0
    BY <1>1, <1>2, <1>3, <1>4, <2>1, <2>2
  <2>3. CASE n < 0 /\ ~(d < 0)
    BY <1>1, <1>2, <1>3, <1>4, <2>1, <2>3
  <2>4. CASE ~(n < 0) /\ d < 0
    BY <1>1, <1>2, <1>3, <1>4, <2>1, <2>4
  <2>5. CASE ~(n < 0) /\ ~(d < 0)
    BY <1>1, <1>2, <1>3, <1>4, <2>1, <2>5
  <2> QED BY <2>2, <2>3, <2>4, <2>5
<1>6. e * q \in Int
  BY <1>1, <1>2
<1>7. Rem(n, d) = IF n < 0 THEN -r ELSE r
  BY <1>1, <1>2, <1>4, <1>5, <1>6 DEF Rem
<1>8. Abs(Rem(n, d)) = r
  BY <1>2, <1>7 DEF Abs
<1> QED BY <1>1, <1>2, <1>7, <1>8 DEF e

LEMMA SignedOfUnsigned ==
    ASSUME NEW n \in -(M \div 2)..(M \div 2 - 1)
    PROVE  Signed(Unsigned(n)) = n
<1>0. M \in Nat /\ M > 0 /\ M = 2 * (M \div 2) /\ M \div 2 \in Nat /\ n \in Int
  BY MIsPositive, HIsEven
<1>1. CASE n >= 0
  <2>1. Unsigned(n) = n
    BY <1>0, <1>1, ModSmall DEF Unsigned
  <2> QED BY <1>0, <1>1, <2>1 DEF Signed
<1>2. CASE n < 0
  <2>1. n + M \in 0..(M - 1) /\ n = M * (-1) + (n + M)
    BY <1>0, <1>2
  <2>2. Unsigned(n) = n + M
    BY <1>0, <2>1, FloorUnique DEF Unsigned
  <2> QED BY <1>0, <1>2, <2>2 DEF Signed
<1> QED BY <1>0, <1>1, <1>2

LEMMA RemaindersHold == a \in Reg /\ b \in Reg => RemainderBounded
<1> SUFFICES ASSUME a \in Reg, b \in Reg, b # 0
             PROVE  /\ Abs(Signed(rem(a, b))) < Abs(Signed(b))
                    /\ Signed(rem(a, b)) # 0 => (Signed(rem(a, b)) < 0) = (Signed(a) < 0)
                    /\ remu(a, b) < b
  BY DEF RemainderBounded
<1> DEFINE n == Signed(a)  d == Signed(b)
<1>1. /\ M \in Nat /\ M > 0 /\ M = 2 * (M \div 2) /\ M \div 2 \in Nat
      /\ a \in Int /\ b \in Int /\ 0 <= a /\ a < M /\ 0 < b /\ b < M
  BY MIsPositive, HIsEven DEF Reg
<1>2. n \in -(M \div 2)..(M \div 2 - 1) /\ d \in -(M \div 2)..(M \div 2 - 1) /\ d # 0
  BY <1>1 DEF Signed
<1>3. n \in Int /\ d \in Int
  BY <1>1, <1>2
<1>4. remu(a, b) < b
  BY <1>1 DEF remu
<1> HIDE DEF n, d
<1>5. CASE Overflows(n, d)
  <2>1. rem(a, b) = 0
    BY <1>1, <1>5 DEF rem, n, d
  <2>2. Signed(0) = 0
    BY <1>1 DEF Signed
  <2>3. Abs(0) < Abs(d)
    BY <1>2, <1>3 DEF Abs
  <2> QED BY <1>4, <2>1, <2>2, <2>3 DEF d
<1>6. CASE ~Overflows(n, d)
  <2> DEFINE r == Rem(n, d)
  <2>1. rem(a, b) = Unsigned(r)
    BY <1>1, <1>6 DEF rem, n, d
  <2>2. r \in Int /\ Abs(r) < Abs(d) /\ (r # 0 => (r < 0) = (n < 0))
    BY <1>2, <1>3, RemainderOf
  <2> HIDE DEF r
  <2>3. r \in -(M \div 2)..(M \div 2 - 1)
    BY <1>1, <1>2, <1>3, <2>2 DEF Abs
  <2>4. Signed(rem(a, b)) = r
    BY <2>1, <2>3, SignedOfUnsigned
  <2> QED BY <1>4, <2>2, <2>4 DEF n, d
<1> QED BY <1>5, <1>6

(* Both, one operation at a time.                                          *)
LEMMA PlusLow == \A n, m, p \in Int : n % H = m % H => (n + p) % H = (m + p) % H
BY SumOfLow

LEMMA TimesLow == \A n, m, p \in Int : n % H = m % H => (n * p) % H = (m * p) % H
BY SumOfLow

(* Numbers that agree in their low halves have products and sums that do.  *)
LowProduct(u, v, w) == (u * v + w) % H

LEMMA LowOfProduct ==
    ASSUME NEW p \in Int, NEW d \in Int, NEW r \in Int,
           NEW u \in Int, NEW v \in Int, NEW w \in Int,
           u % H = p % H, v % H = d % H, w % H = r % H
    PROVE  LowProduct(u, v, w) = LowProduct(p, d, r)
<1>1. /\ u * v \in Int /\ p * v \in Int /\ v * p \in Int /\ d * p \in Int /\ p * d \in Int
      /\ p * v = v * p /\ p * d = d * p
  OBVIOUS
<1>2. (u * v) % H = (p * v) % H
  BY Zenon, TimesLow
<1>3. (v * p) % H = (d * p) % H
  BY Zenon, TimesLow
<1>4. (u * v) % H = (p * d) % H
  BY <1>1, <1>2, <1>3
<1>5. (u * v + w) % H = (p * d + w) % H
  BY <1>1, <1>4, SumOfLow
<1>6. (w + p * d) % H = (r + p * d) % H
  <2> DEFINE t == p * d
  <2>1. t \in Int
    BY <1>1
  <2> HIDE DEF t
  <2>2. (w + t) % H = (r + t) % H
    BY ZenonT(30), <2>1, PlusLow
  <2> QED BY <2>2 DEF t
<1>7. p * d + w = w + p * d /\ p * d + r = r + p * d
  BY <1>1
<1> QED BY <1>5, <1>6, <1>7 DEF LowProduct

LEMMA WordLawHolds == a \in Reg /\ b \in Reg => WordLaw
<1> SUFFICES ASSUME a \in Reg, b \in Reg PROVE WordLaw
  OBVIOUS
<1> DEFINE n == SignedHalf(a)  d == SignedHalf(b)  m == zext32(a)  e == zext32(b)
<1>1. a \in Int /\ b \in Int /\ AllOnes \in Int /\ 0 % H = 0 /\ H \in Nat /\ H > 0
  BY MIsPositive, HIsPositive, ModSmall DEF Reg, AllOnes
<1>2. /\ n \in Int /\ d \in Int /\ m \in Nat /\ e \in Nat
      /\ n % H = a % H /\ d % H = b % H /\ m % H = a % H /\ e % H = b % H
  <2>1. /\ n \in -(H \div 2)..(H \div 2 - 1) /\ d \in -(H \div 2)..(H \div 2 - 1)
    BY <1>1, SignedHalfRange
  <2>2. sext32(a) % H = n % H /\ sext32(b) % H = d % H
    BY <2>1, HIsEven, LowOfUnsigned DEF sext32
  <2>3. sext32(a) % H = a % H /\ sext32(b) % H = b % H
    BY <1>1, SignExtension
  <2>4. m \in 0..(H - 1) /\ e \in 0..(H - 1) /\ m = a % H /\ e = b % H
    BY <1>1 DEF zext32
  <2> HIDE DEF n, d, m, e
  <2> QED BY <1>1, <2>1, <2>2, <2>3, <2>4, ModSmall, HIsEven
<1>3. \A i \in Int : sext32(i) \in Int /\ sext32(i) % H = i % H
  BY SignExtension, MIsPositive DEF Reg
<1>4. \A i \in Int : Unsigned(i) \in Int /\ Unsigned(i) % H = i % H
  BY UnsignedShift, LowOfUnsigned, MIsPositive DEF Reg
<1>5. \A u, v \in Int : v % H = 0 => (u * v + sext32(a)) % H = a % H
  <2> SUFFICES ASSUME NEW u \in Int, NEW v \in Int, v % H = 0
               PROVE  (u * v + sext32(a)) % H = a % H
    OBVIOUS
  <2>1. sext32(a) \in Int /\ sext32(a) % H = a % H
    BY <1>1, <1>3
  <2>2. LowProduct(u, v, sext32(a)) = LowProduct(u, 0, a)
    BY <1>1, <2>1, LowOfProduct
  <2>3. u * 0 + a = a
    BY <1>1
  <2> QED BY <2>2, <2>3 DEF LowProduct
<1>6. (divw(a, b) * b + remw(a, b)) % H = a % H
  <2>1. CASE d = 0
    <3>1. divw(a, b) = AllOnes /\ remw(a, b) = sext32(a)
      BY <2>1 DEF divw, remw
    <3>2. b % H = 0
      BY <1>1, <1>2, <2>1
    <3> QED BY <1>1, <1>5, <3>1, <3>2
  <2>2. CASE d # 0
    <3> DEFINE p == Quo(n, d)  r == Rem(n, d)
    <3>1. p \in Int /\ r \in Int
      BY <1>2, <2>2, QuoType, RemainderOf
    <3>2. d * p + r = n /\ d * p = p * d
      BY <1>2, <3>1 DEF Rem
    <3>3. divw(a, b) = sext32(Unsigned(p)) /\ remw(a, b) = sext32(Unsigned(r))
      BY <2>2 DEF divw, remw
    <3> HIDE DEF p, r, n, d
    <3>4. /\ divw(a, b) \in Int /\ divw(a, b) % H = p % H
          /\ remw(a, b) \in Int /\ remw(a, b) % H = r % H
      BY <1>3, <1>4, <3>1, <3>3
    <3>5. LowProduct(divw(a, b), b, remw(a, b)) = LowProduct(p, d, r)
      BY <1>1, <1>2, <3>1, <3>4, LowOfProduct
    <3> QED BY <1>2, <3>2, <3>5 DEF LowProduct
  <2> QED BY <2>1, <2>2
<1>7. (divuw(a, b) * b + remuw(a, b)) % H = a % H
  <2>1. CASE e = 0
    <3>1. divuw(a, b) = AllOnes /\ remuw(a, b) = sext32(m)
      BY <2>1 DEF divuw, remuw
    <3>2. b % H = 0 /\ sext32(m) = sext32(a)
      BY <1>1, <1>2, <2>1, SignedHalfOfLow
    <3> QED BY <1>1, <1>5, <3>1, <3>2
  <2>2. CASE e # 0
    <3> DEFINE p == m \div e  r == m % e
    <3>1. p \in Int /\ r \in Int /\ m = e * p + r
      <4>1. e > 0 /\ m \in Nat /\ e \in Nat
        BY <1>2, <2>2
      <4> HIDE DEF m, e
      <4> QED BY <4>1, DivMod
    <3>2. divuw(a, b) = sext32(p) /\ remuw(a, b) = sext32(r)
      BY <2>2 DEF divuw, remuw
    <3> HIDE DEF p, r, m, e
    <3>3. /\ divuw(a, b) \in Int /\ divuw(a, b) % H = p % H
          /\ remuw(a, b) \in Int /\ remuw(a, b) % H = r % H
      BY <1>3, <3>1, <3>2
    <3>4. LowProduct(divuw(a, b), b, remuw(a, b)) = LowProduct(p, e, r)
      BY <1>1, <1>2, <3>1, <3>3, LowOfProduct
    <3>5. p * e + r = m
      BY <1>2, <3>1
    <3> QED BY <1>2, <3>4, <3>5 DEF LowProduct
  <2> QED BY <2>1, <2>2
<1> QED BY <1>6, <1>7 DEF WordLaw

-----------------------------------------------------------------------------
(* Floating-point instructions.                                            *)

LEMMA SinglesHold == a \in Reg /\ b \in Reg => SinglesAreHalves
<1> SUFFICES ASSUME a \in Reg, b \in Reg PROVE SinglesAreHalves
  OBVIOUS
<1>1. zext32(a) \in Half /\ zext32(b) \in Half /\ a \in Int /\ b \in Int
  BY HIsPositive, MIsPositive DEF Reg, zext32, Half
<1>2. zext32(zext32(a)) = zext32(a) /\ zext32(zext32(b)) = zext32(b)
  BY <1>1, HIsPositive, ModSmall DEF zext32, Half
<1>3. \A op \in Operations :
         /\ farith_s(op, a, b) \in Half
         /\ farith_s(op, a, b) = farith_s(op, fmv_s_x(a), fmv_s_x(b))
  BY <1>1, <1>2, HostAssumption DEF farith_s, freg_f32, fmv_s_x
<1>4. fcvt_d_s(a) = fcvt_d_s(fmv_s_x(a))
  BY <1>2 DEF fcvt_d_s, freg_f32, fmv_s_x
<1>5. /\ Signed(a) \in -(M \div 2)..(M - 1)
      /\ SignedHalf(a) \in -(M \div 2)..(M - 1)
  <2>1. Signed(a) \in -(M \div 2)..(M - 1)
    BY <1>1, MIsPositive, HIsEven DEF Signed, Reg
  <2>2. H \div 2 <= M \div 2
    BY HIsPositive, HIsEven
  <2> QED BY <1>1, <2>1, <2>2, SignedHalfRange, HIsEven, HIsPositive
<1>6. {fmv_s_x(a), fcvt_s_d(a), fcvt_s_l(a), fcvt_s_w(a)} \subseteq Half
  <2>1. fmv_s_x(a) \in Half /\ fcvt_s_d(a) \in Half
    BY <1>1, HostAssumption DEF fmv_s_x, fcvt_s_d
  <2>2. fcvt_s_l(a) \in Half /\ fcvt_s_w(a) \in Half
    BY <1>5, HostAssumption DEF fcvt_s_l, fcvt_s_w
  <2> QED BY <2>1, <2>2
<1> QED BY <1>3, <1>4, <1>6 DEF SinglesAreHalves

LEMMA WordsHold == a \in Reg => WordsComeBack
<1> SUFFICES ASSUME a \in Reg PROVE WordsComeBack
  OBVIOUS
<1> DEFINE n == SignedHalf(a)
<1>0. a \in Int
  BY MIsPositive DEF Reg
<1>1. n \in Ints /\ n \in -(H \div 2)..(H - 1)
  BY <1>0, SignedHalfRange, HIsEven, HIsPositive DEF Ints
<1>2. Trunc(fcvt_d_w(a)) = n
  BY <1>1, HostAssumption DEF fcvt_d_w
<1>3. fcvt_w_d(fcvt_d_w(a)) = {sext32(a)}
  BY <1>1, <1>2 DEF fcvt_w_d, ToInteger, sext32
<1>4. fcvt_d_w(a) = fcvt_d_w(sext32(a))
  <2>1. sext32(a) \in Int /\ sext32(a) % H = a % H
    BY <1>0, SignExtension, MIsPositive DEF Reg
  <2>2. SignedHalf(sext32(a)) = SignedHalf(a)
    BY <1>0, <2>1, SignedHalfOfLow
  <2> QED BY <2>2 DEF fcvt_d_w
<1>5. \A r \in fcvt_w_d(a) : sext32(r) = r
  <2> SUFFICES ASSUME NEW r \in fcvt_w_d(a) PROVE sext32(r) = r
    OBVIOUS
  <2>1. PICK m \in ToInteger(a, Ints) : r = Unsigned(m)
    BY DEF fcvt_w_d
  <2>2. m \in -(H \div 2)..(H \div 2 - 1)
    BY DEF ToInteger, Ints
  <2> QED BY <2>1, <2>2, WordIsCanonical
<1>6. ASSUME 2 * zext32(a) < H PROVE fcvt_wu_d(fcvt_d_w(a)) = {zext32(a)}
  <2>1. n = zext32(a)
    BY <1>0, <1>6, HIsPositive DEF SignedHalf, zext32
  <2>2. zext32(a) \in Half
    BY <1>0, HIsPositive DEF zext32, Half
  <2> QED BY <1>2, <2>1, <2>2 DEF fcvt_wu_d, ToInteger
<1> QED BY <1>3, <1>4, <1>5, <1>6 DEF WordsComeBack

(* fneg complements the sign of a double, its upper bit.                   *)
LEMMA NegFlips ==
    \A x \in Reg : neg(x) = IF x < M \div 2 THEN x + M \div 2 ELSE x - M \div 2
<1> SUFFICES ASSUME NEW x \in Reg
             PROVE  neg(x) = IF x < M \div 2 THEN x + M \div 2 ELSE x - M \div 2
  OBVIOUS
<1> DEFINE d == M \div 2
<1>1. d \in Nat /\ d > 0 /\ M = 2 * d /\ x \in 0..(2 * d - 1)
  BY HIsEven, MIsPositive DEF Reg
<1>2. neg(x) = (x % d) + ((M - 1 - x) \div d) * d
  BY DEF neg, fsgnj_d, Sign
<1> HIDE DEF d
<1>3. CASE x < d
  <2>1. x % d = x
    BY <1>1, <1>3, ModSmall
  <2>2. (M - 1 - x) \div d = 1
    <3>1. M - 1 - x = d * 1 + (d - 1 - x) /\ d - 1 - x \in 0..(d - 1)
      BY <1>1, <1>3
    <3> QED BY <1>1, <3>1, FloorUnique
  <2> QED BY <1>1, <1>2, <1>3, <2>1, <2>2 DEF d
<1>4. CASE x >= d
  <2>1. x % d = x - d
    <3>1. x = d * 1 + (x - d) /\ x - d \in 0..(d - 1)
      BY <1>1, <1>4
    <3> QED BY <1>1, <3>1, FloorUnique
  <2>2. (M - 1 - x) \div d = 0
    <3>1. M - 1 - x = d * 0 + (M - 1 - x) /\ M - 1 - x \in 0..(d - 1)
      BY <1>1, <1>4
    <3> QED BY <1>1, <3>1, FloorUnique
  <2> QED BY <1>1, <1>2, <1>4, <2>1, <2>2 DEF d
<1> QED BY <1>1, <1>3, <1>4

(* It is its own inverse, and negates the number.                          *)
LEMMA NegOfNumber ==
    \A x \in Reg : /\ neg(x) \in Reg /\ neg(neg(x)) = x
                   /\ NaN(neg(x)) = NaN(x) /\ Number(neg(x)) = -Number(x)
<1> SUFFICES ASSUME NEW x \in Reg
             PROVE  /\ neg(x) \in Reg /\ neg(neg(x)) = x
                    /\ NaN(neg(x)) = NaN(x) /\ Number(neg(x)) = -Number(x)
  OBVIOUS
<1> DEFINE d == M \div 2
<1>1. d \in Nat /\ d > 0 /\ M = 2 * d /\ x \in 0..(2 * d - 1) /\ Reg = 0..(2 * d - 1)
  BY HIsEven, MIsPositive DEF Reg
<1>2. neg(x) = IF x < d THEN x + d ELSE x - d
  BY NegFlips
<1>3. neg(x) \in Reg
  BY <1>1, <1>2
<1>4. neg(neg(x)) = IF neg(x) < d THEN neg(x) + d ELSE neg(x) - d
  BY <1>3, NegFlips
<1>5. neg(neg(x)) = x
  BY <1>1, <1>2, <1>4
<1>6. \A y \in 0..(d - 1) : NaN(y + d) = NaN(y) /\ Number(y + d) = -Number(y)
  BY HostAssumption
<1>7. \A y \in Reg : Number(y) \in Int
  BY HostAssumption
<1> HIDE DEF d
<1>8. NaN(neg(x)) = NaN(x) /\ Number(neg(x)) = -Number(x)
  <2>1. CASE x < d
    BY <1>1, <1>2, <1>6, <2>1
  <2>2. CASE x >= d
    <3>1. x - d \in 0..(d - 1) /\ (x - d) + d = x /\ neg(x) = x - d /\ x - d \in Reg
      BY <1>1, <1>2, <2>2
    <3>2. NaN(x) = NaN(x - d) /\ Number(x) = -Number(x - d)
      BY <1>6, <3>1
    <3> QED BY <1>7, <3>1, <3>2
  <2> QED BY <1>1, <2>1, <2>2
<1> QED BY <1>3, <1>5, <1>8

LEMMA ComparisonsHold == a \in Reg /\ b \in Reg => ComparisonsAgree
<1> SUFFICES ASSUME a \in Reg, b \in Reg PROVE ComparisonsAgree
  OBVIOUS
<1>1. /\ Number(a) \in Int /\ Number(b) \in Int
      /\ NaN(a) \in BOOLEAN /\ NaN(b) \in BOOLEAN
  BY HostAssumption
<1>2. fle_d(a, b) = flt_d(a, b) + feq_d(a, b)
  BY <1>1 DEF fle_d, flt_d, feq_d, Truth, DLess, DEqual
<1>3. flt_d(neg(a), neg(b)) = flt_d(b, a) /\ neg(neg(a)) = a
  <2>1. /\ NaN(neg(a)) = NaN(a) /\ Number(neg(a)) = -Number(a)
        /\ NaN(neg(b)) = NaN(b) /\ Number(neg(b)) = -Number(b)
        /\ neg(neg(a)) = a
    BY NegOfNumber
  <2>2. -Number(a) < -Number(b) <=> Number(b) < Number(a)
    BY <1>1
  <2>3. DLess(neg(a), neg(b)) <=> DLess(b, a)
    BY <2>1, <2>2 DEF DLess
  <2> QED BY <2>1, <2>3 DEF flt_d, Truth
<1>4. flt_d(a, b) + feq_d(a, b) + flt_d(b, a) = feq_d(a, a) * feq_d(b, b)
  <2>1. CASE NaN(a) \/ NaN(b)
    BY <1>1, <2>1 DEF flt_d, feq_d, Truth, DLess, DEqual
  <2>2. CASE ~NaN(a) /\ ~NaN(b)
    BY <1>1, <2>2 DEF flt_d, feq_d, Truth, DLess, DEqual
  <2> QED BY <2>1, <2>2
<1> QED BY <1>2, <1>3, <1>4 DEF ComparisonsAgree

LEMMA OperandsKept == Spec => [](a \in Reg /\ b \in Reg)
<1>1. Init => a \in Reg /\ b \in Reg
  BY DEF Init
<1>2. a \in Reg /\ b \in Reg /\ [Next]_vars => (a \in Reg /\ b \in Reg)'
  BY DEF Next, vars
<1> QED BY <1>1, <1>2, PTL DEF Spec

(* Registers that hold floats and doubles in turn do not mix them up.      *)
THEOREM SinglesAlways == Spec => []SinglesAreHalves
BY OperandsKept, SinglesHold, PTL

(* Words go through doubles unchanged.                                     *)
THEOREM WordsAlways == Spec => []WordsComeBack
BY OperandsKept, WordsHold, PTL

(* A word form gives a sign-extended word that depends on words only.      *)
THEOREM WordFormsAlways == Spec => []WordFormsKeepWords
BY OperandsKept, WordFormsHold, PTL

(* The word divisions are word forms in the same sense.                    *)
THEOREM WordDivisionsAlways == Spec => []DivisionsKeepWords
BY OperandsKept, WordDivisionsHold, PTL

(* sltiu of a sum against the immediate that was added gives the carry.    *)
THEOREM CarryAlways == Spec => []CarryRecovered
BY OperandsKept, CarryHolds, PTL

(* The branches agree with each other and with the comparisons.            *)
THEOREM BranchesAlways == Spec => []BranchesConsistent
BY OperandsKept, BranchesHold, PTL

(* Remainders stay below the divisor, with the sign of the dividend.       *)
THEOREM RemaindersAlways == Spec => []RemainderBounded
BY OperandsKept, RemaindersHold, PTL

(* Word quotients and remainders belong together.                          *)
THEOREM WordLawAlways == Spec => []WordLaw
BY OperandsKept, WordLawHolds, PTL

(* A pair of shifts extends a word, with or without its sign.              *)
THEOREM ShiftsAlways == Spec => []ShiftsExtend
BY OperandsKept, ShiftsHold, PTL

(* The bits that both operands have carry, and xori with -1 complements.   *)
THEOREM LogicAlways == Spec => []LogicAgrees
BY OperandsKept, LogicHolds, PTL

(* The comparisons of doubles follow one order, with NaN outside of it.    *)
THEOREM ComparisonsAlways == Spec => []ComparisonsAgree
BY OperandsKept, ComparisonsHold, PTL
=============================================================================
