-------------------------------- MODULE Orders ------------------------------
(***************************************************************************)
(* Finite sets, and those that a relation puts in order: there is a first  *)
(* member, and counting those before each one numbers them from 0.  These  *)
(* stand in for inductions wherever the model takes the best, the first or *)
(* the n-th of something.                                                  *)
(***************************************************************************)
EXTENDS Integers, FiniteSets, FiniteSetTheorems, WellFoundedInduction, TLAPS

\* Rel, a set of pairs, is a strict total order of S.
StrictlyOrders(Rel, S) ==
  /\ \A i, j, k \in S : <<i, j>> \in Rel /\ <<j, k>> \in Rel => <<i, k>> \in Rel
  /\ \A i \in S : <<i, i>> \notin Rel
  /\ \A i, j \in S : i # j => <<i, j>> \in Rel \/ <<j, i>> \in Rel

\* The members of S before i.
Prior(Rel, S, i) == {j \in S : <<j, i>> \in Rel}

\* Exactly n - 1 members of S are before one of them.
HasNth(Rel, S, n) == \E i \in S : Cardinality(Prior(Rel, S, i)) = n - 1

LEMMA FiniteImage ==
  ASSUME NEW S, IsFiniteSet(S), NEW f
  PROVE  IsFiniteSet({f[x] : x \in S})
<1> DEFINE T == {f[x] : x \in S}
           to == [x \in S |-> f[x]]
<1>1. to \in Surjection(S, T)
  BY DEF Surjection
<1> HIDE DEF T, to
<1>2. IsFiniteSet(T)
  BY <1>1, FS_Surjection
<1> QED
  BY <1>2 DEF T

\* Finitely many finite sets.
LEMMA FiniteUnion ==
  ASSUME NEW S, IsFiniteSet(S), NEW f, \A x \in S : IsFiniteSet(f[x])
  PROVE  IsFiniteSet(UNION {f[x] : x \in S})
<1> DEFINE T == {f[x] : x \in S}
<1>1. \A t \in T : IsFiniteSet(t)
  OBVIOUS
<1>2. IsFiniteSet(T)
  BY FiniteImage
<1> HIDE DEF T
<1>3. IsFiniteSet(UNION T)
  BY <1>1, <1>2, FS_UNION
<1> QED
  BY <1>3 DEF T

LEMMA LeastNumber ==
  ASSUME NEW T \in SUBSET Nat, T # {}
  PROVE  \E i \in T : \A j \in T : i <= j
<1>1. PICK i \in T : \A j \in T : <<j, i>> \notin OpToRel(<, Nat)
  BY NatLessThanWellFounded, WFMin
<1>2. \A j \in T : ~(j < i)
  BY <1>1 DEF OpToRel
<1> QED
  BY <1>2

\* Whoever comes before another has fewer before it.
LEMMA PriorGrows ==
  ASSUME NEW S, IsFiniteSet(S), NEW Rel, StrictlyOrders(Rel, S),
         NEW i \in S, NEW j \in S, <<i, j>> \in Rel
  PROVE  Cardinality(Prior(Rel, S, i)) < Cardinality(Prior(Rel, S, j))
<1> DEFINE I == Prior(Rel, S, i)
           J == Prior(Rel, S, j)
<1>1. I \in SUBSET J /\ i \in J /\ i \notin I /\ J \in SUBSET S
  BY DEF Prior, StrictlyOrders
<1> HIDE DEF I, J
<1>2. IsFiniteSet(J) /\ IsFiniteSet(I)
  BY <1>1, FS_Subset
<1>3. Cardinality(I) <= Cardinality(J) /\ Cardinality(I) # Cardinality(J)
  BY <1>1, <1>2, FS_Subset
<1>4. Cardinality(I) \in Nat /\ Cardinality(J) \in Nat
  BY <1>2, FS_CardinalityType
<1> QED
  BY <1>3, <1>4 DEF I, J

\* Counting those before it gives each member a number of its own.
LEMMA Numbered ==
  ASSUME NEW S, IsFiniteSet(S), NEW Rel, StrictlyOrders(Rel, S)
  PROVE  /\ Cardinality(S) \in Nat
         /\ \A i \in S : Cardinality(Prior(Rel, S, i)) \in 0..(Cardinality(S) - 1)
         /\ \A i, j \in S :
              Cardinality(Prior(Rel, S, i)) = Cardinality(Prior(Rel, S, j)) => i = j
<1>1. Cardinality(S) \in Nat
  BY FS_CardinalityType
<1>2. ASSUME NEW i \in S
      PROVE  /\ Cardinality(Prior(Rel, S, i)) \in Nat
             /\ Cardinality(Prior(Rel, S, i)) < Cardinality(S)
  <2> DEFINE I == Prior(Rel, S, i)
  <2>1. I \in SUBSET S /\ i \notin I
    BY DEF Prior, StrictlyOrders
  <2> HIDE DEF I
  <2>2. IsFiniteSet(I) /\ Cardinality(I) <= Cardinality(S) /\ Cardinality(I) # Cardinality(S)
    BY <2>1, FS_Subset
  <2>3. Cardinality(I) \in Nat
    BY <2>2, FS_CardinalityType
  <2> QED
    BY <1>1, <2>2, <2>3 DEF I
<1>3. ASSUME NEW i \in S, NEW j \in S, i # j
      PROVE  Cardinality(Prior(Rel, S, i)) # Cardinality(Prior(Rel, S, j))
  <2>1. CASE <<i, j>> \in Rel
    BY <1>2, <2>1, PriorGrows
  <2>2. CASE <<j, i>> \in Rel
    BY <1>2, <2>2, PriorGrows
  <2> QED
    BY <1>3, <2>1, <2>2 DEF StrictlyOrders
<1>4. \A i \in S : Cardinality(Prior(Rel, S, i)) \in 0..(Cardinality(S) - 1)
  BY <1>1, <1>2
<1> QED
  BY <1>1, <1>3, <1>4

\* The one with nobody before it.
LEMMA FirstInOrder ==
  ASSUME NEW S, IsFiniteSet(S), S # {}, NEW Rel, StrictlyOrders(Rel, S)
  PROVE  \E i \in S : \A j \in S \ {i} : <<i, j>> \in Rel
<1> DEFINE number == [i \in S |-> Cardinality(Prior(Rel, S, i))]
           T == {number[i] : i \in S}
<1>1. \A i \in S : number[i] \in Nat
  BY Numbered
<1> HIDE DEF number
<1>2. T \in SUBSET Nat /\ T # {}
  BY <1>1
<1>3. PICK m \in T : \A n \in T : m <= n
  BY <1>2, LeastNumber
<1>4. PICK i \in S : \A j \in S : number[i] <= number[j]
  BY <1>3
<1>5. ASSUME NEW j \in S, <<j, i>> \in Rel
      PROVE  FALSE
  <2>1. number[j] < number[i]
    BY <1>5, PriorGrows DEF number
  <2> QED
    BY <1>1, <1>4, <2>1
<1> QED
  BY <1>5 DEF StrictlyOrders

\* No number is left out: each below the number of members is some member's.
LEMMA EachNumberTaken ==
  ASSUME NEW S, IsFiniteSet(S), NEW Rel, StrictlyOrders(Rel, S)
  PROVE  \A n \in 1..Cardinality(S) : HasNth(Rel, S, n)
<1> SUFFICES ASSUME NEW n \in 1..Cardinality(S)
             PROVE  \E i \in S : Cardinality(Prior(Rel, S, i)) = n - 1
  BY DEF HasNth
<1> DEFINE size == Cardinality(S)
           T == 0..(size - 1)
           number == [i \in S |-> Cardinality(Prior(Rel, S, i))]
<1>1. /\ size \in Nat /\ \A i \in S : number[i] \in T
      /\ \A i, j \in S : number[i] = number[j] => i = j
  BY Numbered
<1> HIDE DEF size
<1>2. number \in Injection(S, T)
  BY <1>1 DEF Injection, IsInjective
<1>3. IsFiniteSet(T) /\ Cardinality(T) = size
  <2>1. /\ IsFiniteSet(0..(size - 1))
        /\ Cardinality(0..(size - 1)) = IF 0 > size - 1 THEN 0 ELSE (size - 1) - 0 + 1
    BY <1>1, FS_Interval
  <2> QED
    BY <1>1, <2>1
<1> HIDE DEF T, number
<1>4. number \in Surjection(S, T)
  BY <1>2, <1>3, FS_Injection DEF size
<1>5. n - 1 \in T
  BY <1>1 DEF T, size
<1> QED
  BY <1>4, <1>5 DEF Surjection, number
=============================================================================
