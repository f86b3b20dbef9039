------------------------------ MODULE SumProofs ------------------------------
(***************************************************************************)
(* Sums of the values of a function over its finite domain.                *)
(* FoldFunction of the community modules adds the values with a recursive  *)
(* function over the subsets of the domain; that this function exists, and *)
(* what it returns, is proved by induction on a set of naturals, taken     *)
(* from the well-foundedness of < on Nat: the induction rule that takes a  *)
(* predicate as its parameter is not needed.                               *)
(***************************************************************************)
EXTENDS Integers, FiniteSets, Functions, FiniteSetTheorems, WellFoundedInduction, TLAPS

(* The element that the fold takes off a set, and its table of the sums of *)
(* the subsets of S.                                                       *)
Pick(s) == CHOOSE x \in s : TRUE
SumTable(f, S) ==
    CHOOSE g : g = [s \in SUBSET S |-> IF s = {} THEN 0 ELSE f[Pick(s)] + g[s \ {Pick(s)}]]

Sum(f) == FoldFunction(+, 0, f)

(* The sum of the values of f is the entry of its domain in the table.     *)
LEMMA FoldIsSum == \A f : Sum(f) = SumTable(f, DOMAIN f)[DOMAIN f]
BY DEF Sum, FoldFunction, FoldFunctionOnSet, MapThenFoldSet, SumTable, Pick

-----------------------------------------------------------------------------
(* Induction.                                                              *)
Below == {ss \in Nat \X Nat : ss[1] < ss[2]}

(* Every nonempty set of naturals has a least element.                     *)
LEMMA BelowWellFounded == IsWellFoundedOn(Below, Nat)
<1>1. OpToRel(<, Nat) = Below
  BY DEF OpToRel, Below
<1> QED BY <1>1, NatLessThanWellFounded

(* A set that holds 0 and the successors of its members holds every number. *)
LEMMA SetInduction ==
    ASSUME NEW T, 0 \in T, \A n \in Nat : n \in T => n + 1 \in T
    PROVE  Nat \subseteq T
<1> SUFFICES ASSUME Nat \ T # {} PROVE FALSE
  OBVIOUS
<1>1. \E m \in Nat \ T : \A y \in Nat \ T : ~(<<y, m>> \in Below)
  BY BelowWellFounded, WFMin, Nat \ T \subseteq Nat
<1>2. PICK m \in Nat \ T : \A y \in Nat \ T : ~(<<y, m>> \in Below)
  BY <1>1
<1>3. m - 1 \in Nat /\ m = (m - 1) + 1
  OBVIOUS
<1>4. m - 1 \in Nat \ T
  BY <1>3
<1>5. <<m - 1, m>> \in Nat \X Nat /\ m - 1 < m
  BY <1>3
<1>6. <<m - 1, m>> \in Below
  BY <1>5 DEF Below
<1> QED BY <1>2, <1>4, <1>6

(* The entry of s in a table g, the tables over a set D of sets, and the    *)
(* subsets of S with at most n elements.                                   *)
Row(f, g, s) == IF s = {} THEN 0 ELSE f[Pick(s)] + g[s \ {Pick(s)}]
IsSumTable(g, f, D) == g = [s \in D |-> Row(f, g, s)]
Small(S, n) == {s \in SUBSET S : Cardinality(s) <= n}

LEMMA PickIn == \A s : s # {} => Pick(s) \in s
BY DEF Pick

(* What the sizes of the subsets of a finite set are.                      *)
LEMMA SmallerSubset ==
    ASSUME NEW S, IsFiniteSet(S), NEW s \in SUBSET S
    PROVE  /\ IsFiniteSet(s) /\ Cardinality(s) \in Nat
           /\ (s = {} <=> Cardinality(s) = 0)
           /\ s # {} => /\ Cardinality(s \ {Pick(s)}) = Cardinality(s) - 1
                        /\ s \ {Pick(s)} \in SUBSET S
<1>1. IsFiniteSet(s)
  BY FS_Subset
<1>2. Cardinality(s) \in Nat /\ (s = {} <=> Cardinality(s) = 0)
  BY <1>1, FS_CardinalityType, FS_EmptySet
<1>3. ASSUME s # {} PROVE Cardinality(s \ {Pick(s)}) = Cardinality(s) - 1
  BY <1>1, <1>3, PickIn, FS_RemoveElement
<1> QED BY <1>1, <1>2, <1>3

(* A table over the small subsets extends to those with one element more. *)
LEMMA TableExtends ==
    ASSUME NEW f, NEW S, IsFiniteSet(S), NEW n \in Nat,
           NEW g, IsSumTable(g, f, Small(S, n))
    PROVE  \E h : IsSumTable(h, f, Small(S, n + 1))
<1> DEFINE h == [s \in Small(S, n + 1) |-> Row(f, g, s)]
<1>1. \A s \in Small(S, n) : g[s] = Row(f, g, s)
  BY DEF IsSumTable
<1>2. \A s \in Small(S, n) : s \in Small(S, n + 1)
  <2>1. \A s \in SUBSET S : Cardinality(s) \in Nat
    BY SmallerSubset
  <2> QED BY <2>1 DEF Small
<1>3. \A s \in Small(S, n) : h[s] = g[s]
  BY <1>1, <1>2
<1>4. ASSUME NEW s \in Small(S, n + 1), s # {}
      PROVE  s \ {Pick(s)} \in Small(S, n)
  BY <1>4, SmallerSubset DEF Small
<1>5. \A s \in Small(S, n + 1) : Row(f, g, s) = Row(f, h, s)
  BY <1>3, <1>4 DEF Row
<1>6. h = [s \in Small(S, n + 1) |-> Row(f, h, s)]
  BY <1>5
<1> QED BY <1>6 DEF IsSumTable

(* So there is a table over all subsets.                                   *)
LEMMA TableExists ==
    ASSUME NEW f, NEW S, IsFiniteSet(S)
    PROVE  \E g : IsSumTable(g, f, SUBSET S)
<1> DEFINE T == {n \in Nat : \E g : IsSumTable(g, f, Small(S, n))}
<1>1. 0 \in T
  <2>1. Small(S, 0) = {{}}
    <3>1. \A s \in SUBSET S : Cardinality(s) \in Nat /\ (s = {} <=> Cardinality(s) = 0)
      BY SmallerSubset
    <3>2. \A s \in SUBSET S : (Cardinality(s) <= 0) <=> (s = {})
      BY <3>1
    <3> QED BY <3>2 DEF Small
  <2>2. IsSumTable([s \in {{}} |-> 0], f, Small(S, 0))
    BY <2>1 DEF IsSumTable, Row
  <2> QED BY <2>2
<1>2. \A n \in Nat : n \in T => n + 1 \in T
  BY TableExtends
<1>3. Nat \subseteq T
  BY <1>1, <1>2, SetInduction
<1>4. Cardinality(S) \in T
  BY <1>3, FS_CardinalityType
<1>5. Small(S, Cardinality(S)) = SUBSET S
  BY FS_Subset DEF Small
<1> QED BY <1>4, <1>5

(* The table satisfies the equation that defines it.                       *)
LEMMA SumTableRows ==
    ASSUME NEW f, NEW S, IsFiniteSet(S), NEW s \in SUBSET S
    PROVE  SumTable(f, S)[s] = Row(f, SumTable(f, S), s)
<1>1. \E g : IsSumTable(g, f, SUBSET S)
  BY TableExists
<1>2. SumTable(f, S) = CHOOSE g : IsSumTable(g, f, SUBSET S)
  BY DEF SumTable, IsSumTable, Row
<1>3. IsSumTable(SumTable(f, S), f, SUBSET S)
  BY <1>1, <1>2
<1> HIDE DEF SumTable
<1> QED BY <1>3 DEF IsSumTable

(* A set of sets that grows by the elements picked holds every subset.      *)
LEMMA SubsetInduction ==
    ASSUME NEW S, IsFiniteSet(S), NEW T \in SUBSET (SUBSET S), {} \in T,
           \A s \in SUBSET S : s # {} /\ s \ {Pick(s)} \in T => s \in T
    PROVE  \A s \in SUBSET S : s \in T
<1> DEFINE N == {n \in Nat : Small(S, n) \subseteq T}
<1>0. \A s \in SUBSET S : Cardinality(s) \in Nat /\ (s = {} <=> Cardinality(s) = 0)
  BY SmallerSubset
<1>1. 0 \in N
  <2>1. \A s \in SUBSET S : Cardinality(s) <= 0 => s = {}
    BY <1>0
  <2> QED BY <2>1 DEF Small
<1>2. ASSUME NEW n \in Nat, n \in N PROVE n + 1 \in N
  <2> SUFFICES ASSUME NEW s \in Small(S, n + 1), s # {} PROVE s \in T
    OBVIOUS
  <2>1. s \ {Pick(s)} \in Small(S, n)
    BY SmallerSubset DEF Small
  <2> QED BY <1>2, <2>1 DEF Small
<1>3. Nat \subseteq N
  BY <1>1, <1>2, SetInduction
<1> QED BY <1>0, <1>3 DEF Small

-----------------------------------------------------------------------------
(* What the table returns.                                                 *)
LEMMA SumOfNothing ==
    ASSUME NEW f, NEW S, IsFiniteSet(S)
    PROVE  SumTable(f, S)[{}] = 0
BY SumTableRows DEF Row

LEMMA SumOfMore ==
    \A f, S : IsFiniteSet(S) => \A s \in SUBSET S : s # {} =>
        SumTable(f, S)[s] = f[Pick(s)] + SumTable(f, S)[s \ {Pick(s)}]
BY SumTableRows DEF Row

(* ... naturals, when f does;                                              *)
LEMMA SumTableType ==
    ASSUME NEW S, IsFiniteSet(S), NEW f \in [S -> Nat]
    PROVE  \A s \in SUBSET S : SumTable(f, S)[s] \in Nat
<1> DEFINE T == {s \in SUBSET S : SumTable(f, S)[s] \in Nat}
<1>1. {} \in T
  BY SumOfNothing
<1>2. ASSUME NEW s \in SUBSET S, s # {}, s \ {Pick(s)} \in T PROVE s \in T
  <2>1. SumTable(f, S)[s] = f[Pick(s)] + SumTable(f, S)[s \ {Pick(s)}]
    BY <1>2, SumOfMore
  <2>2. Pick(s) \in S
    BY <1>2, PickIn
  <2> QED BY <1>2, <2>1, <2>2
<1>3. T \in SUBSET (SUBSET S)
  OBVIOUS
<1>4. \A s \in SUBSET S : s \in T
  <2> HIDE DEF T
  <2> QED BY <1>1, <1>2, <1>3, SubsetInduction
<1> QED BY <1>4

(* ... zeros, when f does.                                                 *)
LEMMA SumTableZero ==
    ASSUME NEW S, IsFiniteSet(S), NEW f, \A x \in S : f[x] = 0
    PROVE  \A s \in SUBSET S : SumTable(f, S)[s] = 0
<1> DEFINE T == {s \in SUBSET S : SumTable(f, S)[s] = 0}
<1>1. {} \in T
  BY SumOfNothing
<1>2. ASSUME NEW s \in SUBSET S, s # {}, s \ {Pick(s)} \in T PROVE s \in T
  <2>1. SumTable(f, S)[s] = f[Pick(s)] + SumTable(f, S)[s \ {Pick(s)}]
    BY <1>2, SumOfMore
  <2>2. Pick(s) \in S
    BY <1>2, PickIn
  <2> QED BY <1>2, <2>1, <2>2
<1>3. T \in SUBSET (SUBSET S)
  OBVIOUS
<1>4. \A s \in SUBSET S : s \in T
  <2> HIDE DEF T
  <2> QED BY <1>1, <1>2, <1>3, SubsetInduction
<1> QED BY <1>4

(* The sums of two functions add up to those of their pointwise sum.       *)
LEMMA SumTableAdd ==
    ASSUME NEW S, IsFiniteSet(S), NEW f \in [S -> Nat], NEW g \in [S -> Nat],
           NEW h, \A x \in S : h[x] = f[x] + g[x]
    PROVE  \A s \in SUBSET S : SumTable(h, S)[s] = SumTable(f, S)[s] + SumTable(g, S)[s]
<1> DEFINE T == {s \in SUBSET S :
                    SumTable(h, S)[s] = SumTable(f, S)[s] + SumTable(g, S)[s]}
<1>0. ASSUME NEW p, NEW s \in SUBSET S, s # {}
      PROVE  SumTable(p, S)[s] = p[Pick(s)] + SumTable(p, S)[s \ {Pick(s)}]
  <2> HIDE DEF T
  <2> QED BY <1>0, SumOfMore
<1>1. {} \in T
  <2>1. SumTable(h, S)[{}] = 0 /\ SumTable(f, S)[{}] = 0 /\ SumTable(g, S)[{}] = 0
    BY SumOfNothing
  <2> QED BY <2>1
<1>2. ASSUME NEW s \in SUBSET S, s # {}, s \ {Pick(s)} \in T PROVE s \in T
  <2> DEFINE r == s \ {Pick(s)}
  <2>1. /\ SumTable(h, S)[s] = h[Pick(s)] + SumTable(h, S)[r]
        /\ SumTable(f, S)[s] = f[Pick(s)] + SumTable(f, S)[r]
        /\ SumTable(g, S)[s] = g[Pick(s)] + SumTable(g, S)[r]
    BY <1>0, <1>2
  <2>2. SumTable(h, S)[r] = SumTable(f, S)[r] + SumTable(g, S)[r]
    BY <1>2
  <2>3. Pick(s) \in S
    BY <1>2, PickIn
  <2>4. SumTable(f, S)[r] \in Nat /\ SumTable(g, S)[r] \in Nat
    BY SumTableType
  <2>5. f[Pick(s)] \in Nat /\ g[Pick(s)] \in Nat /\ h[Pick(s)] = f[Pick(s)] + g[Pick(s)]
    BY <2>3
  <2> HIDE DEF r
  <2> QED BY <2>1, <2>2, <2>4, <2>5
<1>3. T \in SUBSET (SUBSET S)
  OBVIOUS
<1>4. \A s \in SUBSET S : s \in T
  <2> HIDE DEF T
  <2> QED BY <1>1, <1>2, <1>3, SubsetInduction
<1> QED BY <1>4

(* Changing the value of d changes the sum of each set that d is in.        *)
LEMMA SumTableExcept ==
    ASSUME NEW S, IsFiniteSet(S), NEW f \in [S -> Nat], NEW d \in S, NEW v \in Nat,
           NEW h, h[d] = v, \A x \in S \ {d} : h[x] = f[x]
    PROVE  \A s \in SUBSET S :
              SumTable(h, S)[s] = SumTable(f, S)[s] + (IF d \in s THEN v - f[d] ELSE 0)
<1> DEFINE T == {s \in SUBSET S :
                    SumTable(h, S)[s] = SumTable(f, S)[s] + (IF d \in s THEN v - f[d] ELSE 0)}
<1>0. \A g : \A s \in SUBSET S : s # {} =>
          SumTable(g, S)[s] = g[Pick(s)] + SumTable(g, S)[s \ {Pick(s)}]
  BY SumOfMore
<1>1. {} \in T
  BY SumOfNothing
<1>2. ASSUME NEW s \in SUBSET S, s # {}, s \ {Pick(s)} \in T PROVE s \in T
  <2> DEFINE r == s \ {Pick(s)}
  <2>1. /\ SumTable(h, S)[s] = h[Pick(s)] + SumTable(h, S)[r]
        /\ SumTable(f, S)[s] = f[Pick(s)] + SumTable(f, S)[r]
    BY <1>0, <1>2
  <2>2. SumTable(h, S)[r] = SumTable(f, S)[r] + (IF d \in r THEN v - f[d] ELSE 0)
    BY <1>2
  <2>3. Pick(s) \in S /\ Pick(s) \in s
    BY <1>2, PickIn
  <2>4. SumTable(f, S)[r] \in Nat
    BY SumTableType
  <2>5. h[Pick(s)] = IF Pick(s) = d THEN v ELSE f[Pick(s)]
    BY <2>3
  <2>6. d \in r <=> d \in s /\ Pick(s) # d
    OBVIOUS
  <2>7. f[d] \in Nat /\ f[Pick(s)] \in Nat
    BY <2>3
  <2> HIDE DEF r
  <2> QED BY <2>1, <2>2, <2>3, <2>4, <2>5, <2>6, <2>7
<1>3. T \in SUBSET (SUBSET S)
  OBVIOUS
<1>4. \A s \in SUBSET S : s \in T
  <2> HIDE DEF T
  <2> QED BY <1>1, <1>2, <1>3, SubsetInduction
<1> QED BY <1>4

-----------------------------------------------------------------------------
(* Sums.                                                                   *)
(* A sum of naturals is a natural.                                         *)
LEMMA SumType ==
    ASSUME NEW S, IsFiniteSet(S), NEW f \in [S -> Nat]
    PROVE  Sum(f) \in Nat
<1>1. SumTable(f, S)[S] \in Nat
  BY SumTableType
<1> QED BY <1>1, FoldIsSum

(* A sum of zeros is zero.                                                *)
LEMMA SumZero ==
    ASSUME NEW S, IsFiniteSet(S), NEW f, f = [x \in S |-> 0]
    PROVE  Sum(f) = 0
<1>1. DOMAIN f = S /\ \A x \in S : f[x] = 0
  OBVIOUS
<1>2. SumTable(f, S)[S] = 0
  BY <1>1, SumTableZero
<1> QED BY <1>1, <1>2, FoldIsSum

(* Changing one value changes the sum by as much.                          *)
LEMMA SumChanged ==
    \A S : IsFiniteSet(S) => \A f, h \in [S -> Nat] : \A d \in S :
        (\A x \in S \ {d} : h[x] = f[x]) => Sum(h) = Sum(f) + h[d] - f[d]
<1> SUFFICES ASSUME NEW S, IsFiniteSet(S), NEW f \in [S -> Nat], NEW h \in [S -> Nat],
                    NEW d \in S, \A x \in S \ {d} : h[x] = f[x]
             PROVE  Sum(h) = Sum(f) + h[d] - f[d]
  OBVIOUS
<1> DEFINE v == h[d]
<1>0. v \in Nat /\ h[d] = v /\ DOMAIN h = S
  OBVIOUS
<1> HIDE DEF v
<1>1. DOMAIN f = S
  OBVIOUS
<1>2. \A s \in SUBSET S :
          SumTable(h, S)[s] = SumTable(f, S)[s] + (IF d \in s THEN v - f[d] ELSE 0)
  BY <1>0, SumTableExcept
<1>3. SumTable(h, S)[S] = SumTable(f, S)[S] + (v - f[d])
  BY <1>2
<1>4. SumTable(f, S)[S] \in Nat /\ f[d] \in Nat
  BY SumTableType
<1>5. Sum(h) = SumTable(h, S)[S] /\ Sum(f) = SumTable(f, S)[S]
  BY <1>1, FoldIsSum
<1> QED BY <1>0, <1>3, <1>4, <1>5

(* The sum of two functions, added pointwise.                              *)
LEMMA SumAdd ==
    \A S : IsFiniteSet(S) => \A f, g, h \in [S -> Nat] :
        (\A x \in S : h[x] = f[x] + g[x]) => Sum(h) = Sum(f) + Sum(g)
<1> SUFFICES ASSUME NEW S, IsFiniteSet(S), NEW f \in [S -> Nat], NEW g \in [S -> Nat],
                    NEW h \in [S -> Nat], \A x \in S : h[x] = f[x] + g[x]
             PROVE  Sum(h) = Sum(f) + Sum(g)
  OBVIOUS
<1>1. DOMAIN f = S /\ DOMAIN g = S /\ DOMAIN h = S
  OBVIOUS
<1>2. SumTable(h, S)[S] = SumTable(f, S)[S] + SumTable(g, S)[S]
  BY SumTableAdd
<1> QED BY <1>1, <1>2, FoldIsSum
=============================================================================
