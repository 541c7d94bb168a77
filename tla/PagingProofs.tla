---------------------------- MODULE PagingProofs ----------------------------
(***************************************************************************)
(* What a page of an ordered query over the keys 1..n contains.            *)
(***************************************************************************)
EXTENDS Paging, FiniteSetTheorems, WellFoundedInduction, TLAPS

\* A non-empty set of naturals has a least element.
LEMMA Least ==
  ASSUME NEW S \in SUBSET Nat, S # {}
  PROVE  \E x \in S : \A y \in S : x <= y
<1>1. PICK x \in S : \A y \in S : ~(<<y, x>> \in OpToRel(<, Nat))
  <2> DEFINE R == OpToRel(<, Nat)
  <2>1. IsWellFoundedOn(R, Nat)
    BY NatLessThanWellFounded, Zenon
  <2> HIDE DEF R
  <2>2. \E x \in S : \A y \in S : ~(<<y, x>> \in R)
    BY <2>1, WFMin, Zenon
  <2> QED
    BY <2>2, Zenon DEF R
<1>2. \A y \in S : ~(y < x)
  BY <1>1 DEF OpToRel
<1> QED
  BY <1>2

\* A non-empty set of keys has a greatest element.
LEMMA Greatest ==
  ASSUME NEW n \in Nat, NEW S \in SUBSET (1 .. n), S # {}
  PROVE  \E x \in S : \A y \in S : y <= x
<1> DEFINE T == {n - y : y \in S}
<1>1. T \in SUBSET Nat /\ T # {}
  <2>1. T \in SUBSET Nat
    OBVIOUS
  <2>2. PICK y \in S : TRUE
    OBVIOUS
  <2>3. n - y \in T
    OBVIOUS
  <2> QED
    BY <2>1, <2>3
<1>2. PICK t \in T : \A u \in T : t <= u
  <2> HIDE DEF T
  <2> QED
    BY <1>1, Least
<1>3. PICK x \in S : t = n - x
  OBVIOUS
<1>4. ASSUME NEW y \in S PROVE y <= x
  <2>1. n - y \in T
    OBVIOUS
  <2>2. n - x <= n - y
    BY <1>2, <1>3, <2>1
  <2>3. x \in Int /\ y \in Int
    OBVIOUS
  <2> QED
    BY <2>2, <2>3
<1> QED
  BY <1>4

\* A set of more than k keys, k > 0, has a k-th smallest one: the key a cursor
\* continues after exists, and k keys lie up to it.
LEMMA BoundaryExists ==
  ASSUME NEW n \in Nat, NEW S \in SUBSET (1 .. n), NEW k \in Nat \ {0}, HasMore(S, k)
  PROVE  /\ Boundary(S, k) \in S
         /\ Cardinality({y \in S : y <= Boundary(S, k)}) = k
<1> DEFINE UpTo(x) == {y \in S : y <= x}
           T == {x \in S : Cardinality(UpTo(x)) >= k}
<1>1. \A U \in SUBSET S : IsFiniteSet(U) /\ Cardinality(U) \in Nat
  <2>1. IsFiniteSet(1 .. n)
    BY FS_Interval
  <2>2. ASSUME NEW U \in SUBSET S PROVE IsFiniteSet(U) /\ Cardinality(U) \in Nat
    <3>1. U \in SUBSET (1 .. n)
      OBVIOUS
    <3>2. IsFiniteSet(U)
      BY <2>1, <3>1, FS_Subset
    <3> QED
      BY <3>2, FS_CardinalityType
  <2> QED
    BY <2>2
<1>2. T # {}
  <2>1. S # {}
    BY <1>1, FS_EmptySet DEF HasMore
  <2>2. PICK m \in S : \A y \in S : y <= m
    BY <2>1, Greatest
  <2>3. UpTo(m) = S
    BY <2>2
  <2> QED
    BY <1>1, <2>3 DEF HasMore
<1>3. PICK t \in T : \A u \in T : t <= u
  <2>1. T \in SUBSET Nat
    <3>1. S \in SUBSET Nat
      OBVIOUS
    <3>2. T \in SUBSET S
      BY Zenon
    <3> QED
      BY <3>1, <3>2, Zenon
  <2> HIDE DEF T
  <2> QED
    BY <1>2, <2>1, Least
<1>4. Cardinality(UpTo(t)) = k
  <2> SUFFICES ASSUME Cardinality(UpTo(t)) # k PROVE FALSE
    OBVIOUS
  <2> DEFINE U == {y \in S : y < t}
  <2>1. U = UpTo(t) \ {t} /\ t \in UpTo(t)
    <3>1. t \in S
      BY Zenon
    <3> HIDE DEF T
    <3>2. t \in Nat /\ \A y \in S : y \in Nat
      BY <3>1
    <3>3. \A y \in S : y < t <=> (y <= t /\ y # t)
      BY <3>2
    <3>4. t \in UpTo(t)
      BY <3>1, <3>2
    <3>5. \A y : y \in U <=> y \in UpTo(t) \ {t}
      BY <3>3, Zenon
    <3> HIDE DEF U, UpTo
    <3> QED
      BY <3>4, <3>5
  <2>2. IsFiniteSet(UpTo(t)) /\ Cardinality(UpTo(t)) \in Nat
    BY <1>1
  <2>3. Cardinality(U) = Cardinality(UpTo(t)) - 1
    <3> HIDE DEF U, UpTo
    <3> QED
      BY <2>1, <2>2, FS_RemoveElement
  <2>4. Cardinality(UpTo(t)) >= k
    BY <1>3
  <2>5. Cardinality(U) >= k
    <3> HIDE DEF U, UpTo, T
    <3> QED
      BY <2>2, <2>3, <2>4
  <2>6. U \in SUBSET (1 .. n) /\ U # {}
    <3>1. U \in SUBSET (1 .. n)
      OBVIOUS
    <3> HIDE DEF U
    <3> QED
      BY <2>5, <3>1, FS_EmptySet
  <2>7. PICK m \in U : \A y \in U : y <= m
    <3> HIDE DEF U
    <3> QED
      BY <2>6, Greatest
  <2>8. UpTo(m) = U
    <3>1. m \in S /\ m < t
      OBVIOUS
    <3>2. ASSUME NEW y \in S PROVE y <= m <=> y < t
      BY <2>7, <3>1
    <3> QED
      BY <3>2
  <2>9. m \in T
    BY <2>5, <2>8
  <2> QED
    BY <1>3, <2>9
<1>5. \E x \in S : Cardinality({y \in S : y <= x}) = k
  BY <1>4
<1> QED
  BY <1>5 DEF Boundary

\* The page and the cursor after it.  The page holds only keys of the query; a key
\* it leaves out lies beyond the next cursor, which is then a key of the page; the
\* cursor is 0 exactly when nothing is left out; and a page that leaves something
\* out is full.
THEOREM PageSplits ==
  ASSUME NEW n \in Nat, NEW S \in SUBSET (1 .. n), NEW k \in Nat \ {0}
  PROVE  /\ FirstPage(S, k) \subseteq S
         /\ NextCursor(S, k) \in 0 .. n
         /\ HasMore(S, k) => NextCursor(S, k) \in S /\ NextCursor(S, k) \in FirstPage(S, k)
         /\ HasMore(S, k) => Cardinality(FirstPage(S, k)) = k
         /\ ~HasMore(S, k) => NextCursor(S, k) = 0 /\ FirstPage(S, k) = S
         /\ \A x \in S : x \notin FirstPage(S, k) => HasMore(S, k) /\ x > NextCursor(S, k)
         /\ \A x \in FirstPage(S, k) : HasMore(S, k) => x <= NextCursor(S, k)
<1>1. CASE HasMore(S, k)
  <2> DEFINE b == Boundary(S, k)
  <2>1. b \in S /\ Cardinality({x \in S : x <= b}) = k
    BY <1>1, BoundaryExists
  <2>2. FirstPage(S, k) = {x \in S : x <= b} /\ NextCursor(S, k) = b
    BY <1>1 DEF FirstPage, NextCursor
  <2> HIDE DEF b
  <2>3. Cardinality(FirstPage(S, k)) = k
    BY <2>1, <2>2
  <2> QED
    BY <1>1, <2>1, <2>2, <2>3
<1>2. CASE ~HasMore(S, k)
  BY <1>2 DEF FirstPage, NextCursor
<1> QED
  BY <1>1, <1>2
=============================================================================
