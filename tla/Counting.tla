------------------------------- MODULE Counting -------------------------------
(***************************************************************************)
(* The code keeps counters beside the states they count (active tasks,     *)
(* clients that failed, clients ready for the next round).  This module    *)
(* has the facts about such counts that the proofs share: what one         *)
(* assignment, or one loop of equal assignments, does to the number of     *)
(* elements whose value lies in a given set.                               *)
(***************************************************************************)
EXTENDS Integers, FiniteSets, FiniteSetTheorems, TLAPS

\* The elements of D that the function f maps into S.
Having(D, f, S) == {x \in D : f[x] \in S}

\* A count of elements of a finite set is a natural number.
LEMMA HavingFinite ==
  ASSUME NEW D, IsFiniteSet(D), NEW f, NEW S
  PROVE  /\ IsFiniteSet(Having(D, f, S))
         /\ Cardinality(Having(D, f, S)) \in Nat
         /\ Cardinality(Having(D, f, S)) <= Cardinality(D)
<1>1. Having(D, f, S) \in SUBSET D
  BY DEF Having
<1> QED
  BY <1>1, FS_Subset, FS_CardinalityType

\* Bringing x into S, and moving nothing else across its border, adds one.
LEMMA HavingEnter ==
  ASSUME NEW D, IsFiniteSet(D), NEW f, NEW g, NEW S, NEW x \in D,
         f[x] \notin S, g[x] \in S,
         \A y \in D \ {x} : f[y] \in S <=> g[y] \in S
  PROVE  Cardinality(Having(D, g, S)) = Cardinality(Having(D, f, S)) + 1
<1>1. Having(D, g, S) = Having(D, f, S) \cup {x}
  BY DEF Having
<1>2. x \notin Having(D, f, S)
  BY DEF Having
<1> QED
  BY <1>1, <1>2, HavingFinite, FS_AddElement

\* Taking x out of S, and moving nothing else across its border, removes one.
LEMMA HavingLeave ==
  ASSUME NEW D, IsFiniteSet(D), NEW f, NEW g, NEW S, NEW x \in D,
         f[x] \in S, g[x] \notin S,
         \A y \in D \ {x} : f[y] \in S <=> g[y] \in S
  PROVE  /\ Cardinality(Having(D, g, S)) = Cardinality(Having(D, f, S)) - 1
         /\ Cardinality(Having(D, f, S)) > 0
<1>1. Having(D, g, S) = Having(D, f, S) \ {x}
  BY DEF Having
<1>2. x \in Having(D, f, S)
  BY DEF Having
<1>3. /\ IsFiniteSet(Having(D, f, S))
      /\ Cardinality(Having(D, f, S)) \in Nat
  BY HavingFinite
<1>4. Cardinality(Having(D, f, S)) # 0
  BY <1>2, <1>3, FS_EmptySet
<1>5. Cardinality(Having(D, f, S) \ {x}) = Cardinality(Having(D, f, S)) - 1
  BY <1>2, <1>3, FS_RemoveElement, ZenonT(60)
<1>6. Cardinality(Having(D, f, S)) > 0
  BY <1>3, <1>4
<1> QED
  BY <1>1, <1>5, <1>6

\* Moving nothing across the border of S changes nothing.
LEMMA HavingStay ==
  ASSUME NEW D, NEW f, NEW g, NEW S,
         \A y \in D : f[y] \in S <=> g[y] \in S
  PROVE  Having(D, g, S) = Having(D, f, S)
BY DEF Having

\* A loop that brings all of a set T, disjoint from S before, into S adds the
\* size of T.
LEMMA HavingEnterAll ==
  ASSUME NEW D, IsFiniteSet(D), NEW f, NEW g, NEW S, NEW T \in SUBSET D,
         \A x \in T : f[x] \notin S /\ g[x] \in S,
         \A x \in D \ T : f[x] \in S <=> g[x] \in S
  PROVE  Cardinality(Having(D, g, S))
           = Cardinality(Having(D, f, S)) + Cardinality(T)
<1>1. Having(D, g, S) = Having(D, f, S) \cup T
  BY DEF Having
<1>2. Having(D, f, S) \cap T = {}
  BY DEF Having
<1>3. /\ IsFiniteSet(Having(D, f, S)) /\ IsFiniteSet(T)
      /\ Cardinality(Having(D, f, S)) \in Nat /\ Cardinality(T) \in Nat
  BY HavingFinite, FS_Subset, FS_CardinalityType
<1>4. Cardinality(Having(D, f, S) \cup T)
        = Cardinality(Having(D, f, S)) + Cardinality(T) - Cardinality({})
  BY <1>2, <1>3, FS_Union
<1> QED
  BY <1>1, <1>3, <1>4, FS_EmptySet

\* What a function maps into one of two disjoint sets is what it maps into the
\* first and what it maps into the second.
LEMMA HavingUnion ==
  ASSUME NEW D, IsFiniteSet(D), NEW f, NEW S, NEW T, S \cap T = {}
  PROVE  Cardinality(Having(D, f, S \cup T))
           = Cardinality(Having(D, f, S)) + Cardinality(Having(D, f, T))
<1>1. Having(D, f, S \cup T) = Having(D, f, S) \cup Having(D, f, T)
  BY DEF Having
<1>2. Having(D, f, S) \cap Having(D, f, T) = {}
  BY DEF Having
<1>3. /\ IsFiniteSet(Having(D, f, S)) /\ IsFiniteSet(Having(D, f, T))
      /\ Cardinality(Having(D, f, S)) \in Nat /\ Cardinality(Having(D, f, T)) \in Nat
  BY HavingFinite
<1> QED
  <2> DEFINE A == Having(D, f, S)
             B == Having(D, f, T)
  <2> HIDE DEF A, B
  <2>1. Cardinality(A \cup B) = Cardinality(A) + Cardinality(B) - Cardinality({})
    BY <1>2, <1>3, FS_Union DEF A, B
  <2>2. Cardinality(A \cup B) = Cardinality(A) + Cardinality(B)
    BY <2>1, <1>3, FS_EmptySet DEF A, B
  <2> QED
    BY <1>1, <2>2, ZenonT(60) DEF A, B

\* A loop that changes the elements of T, each of them on at most one side in
\* S, adds those that arrive in S and removes those that leave it.
LEMMA HavingMove ==
  ASSUME NEW D, IsFiniteSet(D), NEW f, NEW g, NEW S, NEW T \in SUBSET D,
         \A x \in T : ~(f[x] \in S /\ g[x] \in S),
         \A x \in D \ T : f[x] \in S <=> g[x] \in S
  PROVE  Cardinality(Having(D, g, S))
           = Cardinality(Having(D, f, S)) + Cardinality(Having(T, g, S))
                                          - Cardinality(Having(T, f, S))
<1> DEFINE K == {x \in D \ T : f[x] \in S}
           A == Having(T, g, S)
           L == Having(T, f, S)
<1>1. Having(D, f, S) = K \cup L /\ Having(D, g, S) = K \cup A
  BY DEF Having
<1>2. K \cap L = {} /\ K \cap A = {}
  BY DEF Having
<1>3. IsFiniteSet(T)
  BY FS_Subset
<1>4. /\ IsFiniteSet(K) /\ IsFiniteSet(A) /\ IsFiniteSet(L)
      /\ Cardinality(K) \in Nat /\ Cardinality(A) \in Nat /\ Cardinality(L) \in Nat
  <2>1. K \in SUBSET D
    OBVIOUS
  <2> QED
    BY <1>3, <2>1, HavingFinite, FS_Subset, FS_CardinalityType
<1> HIDE DEF K, A, L
<1>5. Cardinality(K \cup L) = Cardinality(K) + Cardinality(L)
  <2>1. Cardinality(K \cup L) = Cardinality(K) + Cardinality(L) - Cardinality({})
    BY <1>2, <1>4, FS_Union
  <2> QED
    BY <2>1, <1>4, FS_EmptySet
<1>6. Cardinality(K \cup A) = Cardinality(K) + Cardinality(A)
  <2>1. Cardinality(K \cup A) = Cardinality(K) + Cardinality(A) - Cardinality({})
    BY <1>2, <1>4, FS_Union
  <2> QED
    BY <2>1, <1>4, FS_EmptySet
<1> QED
  BY <1>1, <1>4, <1>5, <1>6 DEF A, L
=============================================================================
