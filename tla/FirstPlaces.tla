---------------------------- MODULE FirstPlaces ----------------------------
(***************************************************************************)
(* Where a claim about numbers or finite sets fails, it fails at a first   *)
(* place.  The proofs about recursive functions and about rankings look    *)
(* there: the induction theorems of the library take the claim as an       *)
(* operator, and these take the set of the places where it fails.          *)
(***************************************************************************)
EXTENDS Integers, FiniteSetTheorems, WellFoundedInduction, TLAPS

\* Of finite sets, one has none of the others inside it.
LEMMA SmallestSet ==
  ASSUME NEW C, C # {}, \A T \in C : IsFiniteSet(T)
  PROVE  \E T \in C : \A U \in C : ~(U \subseteq T /\ U # T)
<1> DEFINE S == UNION C
<1>1. IsWellFoundedOn(StrictSubsetOrdering(S), FiniteSubsetsOf(S))
  BY FS_StrictSubsetOrderingWellFounded
<1>2. C \subseteq FiniteSubsetsOf(S)
  BY DEF FiniteSubsetsOf
<1>3. PICK T \in C : \A U \in C : <<U, T>> \notin StrictSubsetOrdering(S)
  <2> HIDE DEF S
  <2> QED BY <1>1, <1>2, WFMin
<1>4. ASSUME NEW U \in C, U \subseteq T, U # T PROVE FALSE
  BY <1>3, <1>4 DEF StrictSubsetOrdering
<1> QED BY <1>3, <1>4

\* A set of natural numbers has a least one.
LEMMA LeastNatural ==
  ASSUME NEW X, X \subseteq Nat, X # {}
  PROVE  \E n \in X : \A k \in X : n <= k
<1> DEFINE C == {0 .. n : n \in X}
<1>1. \A T \in C : IsFiniteSet(T)
  BY FS_Interval
<1>2. PICK T \in C : \A U \in C : ~(U \subseteq T /\ U # T)
  <2>1. C # {}
    OBVIOUS
  <2> HIDE DEF C
  <2> QED BY <1>1, <2>1, SmallestSet
<1>3. PICK n \in X : T = 0 .. n
  OBVIOUS
<1>4. ASSUME NEW k \in X, ~(n <= k) PROVE FALSE
  <2>1. 0 .. k \in C /\ n \in Nat /\ k \in Nat /\ k < n
    BY <1>4
  <2>2. 0 .. k \subseteq 0 .. n /\ n \in 0 .. n /\ n \notin 0 .. k
    BY <2>1
  <2> QED BY <1>2, <1>3, <2>1, <2>2
<1> QED BY <1>4
=============================================================================
