------------------------------ MODULE MinFacts ------------------------------
(***************************************************************************)
(* The least element of a bounded set of naturals: what prio_unmap_table   *)
(* looks up in a byte and highest_prio in the run queue.                   *)
(***************************************************************************)
EXTENDS Integers, FiniteSetsExt, FiniteSetTheorems, TLAPS

\* A non-empty set of naturals below some bound has a least element.  (Among
\* the sets of its elements below one of them, a minimal one is empty.)
LEMMA LeastExists ==
  ASSUME NEW n \in Nat, NEW S \in SUBSET (0 .. n), S # {}
  PROVE  \E m \in S : \A x \in S : m <= x
<1> DEFINE Below(x) == {y \in S : y < x}
           T == {Below(x) : x \in S}
<1>1. IsFiniteSet(S)
  <2>1. IsFiniteSet(0 .. n)
    BY FS_Interval
  <2> QED BY <2>1, FS_Subset
<1>2. IsWellFoundedOn(StrictSubsetOrdering(S), SUBSET S)
  BY <1>1, FS_StrictSubsetOrderingWellFounded, FS_FiniteSubsetsOfFinite
<1>3. T \subseteq SUBSET S /\ T # {}
  OBVIOUS
<1>4. PICK U \in T : \A V \in T : ~(<<V, U>> \in StrictSubsetOrdering(S))
  <2> HIDE DEF T
  <2> QED BY <1>2, <1>3, WFMin
<1>5. PICK m \in S : U = Below(m)
  BY <1>4
<1>6. ASSUME NEW x \in S, x < m
      PROVE  FALSE
  <2>1. Below(x) \subseteq Below(m)
    <3>1. S \subseteq Int
      OBVIOUS
    <3>2. \A y \in S : y < x => y < m
      BY <1>6, <3>1
    <3> QED BY <3>2
  <2>2. x \in Below(m) /\ x \notin Below(x)
    BY <1>6
  <2>3. <<Below(x), U>> \in StrictSubsetOrdering(S)
    BY <2>1, <2>2, <1>5 DEF StrictSubsetOrdering
  <2> QED BY <2>3, <1>4
<1> QED
  BY <1>6

LEMMA MinIsLeast ==
  ASSUME NEW n \in Nat, NEW S \in SUBSET (0 .. n), S # {}
  PROVE  /\ Min(S) \in S
         /\ \A x \in S : Min(S) <= x
  BY LeastExists DEF Min
=============================================================================
