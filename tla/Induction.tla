----------------------------- MODULE Induction ------------------------------
(***************************************************************************)
(* Induction over the naturals in the form the proofs use it: a property   *)
(* that some natural number does not have has a smallest counterexample.   *)
(***************************************************************************)
EXTENDS Integers, FiniteSetTheorems, WellFoundedInduction, TLAPS

\* Every set of naturals that is not empty has a least element.  The intervals
\* 0 .. x, for the x of the set below one of them, are subsets of a finite set,
\* and one of them has no proper subset among the others.
LEMMA LeastNatural ==
    ASSUME NEW T \in SUBSET Nat, T # {}
    PROVE  \E x \in T : \A y \in T : x <= y
<1>1. PICK top \in T : TRUE
    OBVIOUS
<1> DEFINE S == 0 .. top
           Down == {0 .. x : x \in {y \in T : y <= top}}
<1>2. IsFiniteSet(S)
    BY <1>1, FS_Interval
<1>3. IsWellFoundedOn(StrictSubsetOrdering(S), SUBSET S)
    BY <1>2, FS_StrictSubsetOrderingWellFounded, FS_FiniteSubsetsOfFinite
<1>4. Down \subseteq SUBSET S /\ Down # {}
    BY <1>1
<1>5. \E d \in Down : \A e \in Down : ~ (<<e, d>> \in StrictSubsetOrdering(S))
    <2> HIDE DEF Down, S
    <2> QED BY <1>3, <1>4, WFMin
<1>6. PICK x \in T : x <= top /\ \A e \in Down : ~ (<<e, 0 .. x>> \in StrictSubsetOrdering(S))
    BY <1>5
<1>7. ASSUME NEW y \in T, y < x PROVE FALSE
    <2>1. 0 .. y \in Down
      BY <1>6, <1>7
    <2>2. 0 .. y \in SUBSET S /\ 0 .. x \in SUBSET S /\ 0 .. y \subseteq 0 .. x
      BY <1>6, <1>7
    <2>3. x \in 0 .. x /\ x \notin 0 .. y
      BY <1>7
    <2>4. <<0 .. y, 0 .. x>> \in StrictSubsetOrdering(S)
      BY <2>2, <2>3 DEF StrictSubsetOrdering
    <2> QED BY <1>6, <2>1, <2>4
<1>8. \A y \in T : x <= y
    BY <1>6, <1>7
<1>9. QED
    BY <1>6, <1>8
=============================================================================
