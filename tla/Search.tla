------------------------------- MODULE Search -------------------------------
(***************************************************************************)
(* What the match finders and the parsers of the formats share: an input,  *)
(* the state a search keeps about it, and how far two of its suffixes      *)
(* agree.  Positions count from 0, as in the code.                         *)
(***************************************************************************)
EXTENDS Integers, Sequences, FiniteSets, SequencesExt

VARIABLES
    trial,  \* the input and its limits: [of, data, ...]
    phase,
    work    \* what the search has found so far

n == Len(trial.data)
Byte(i) == trial.data[i + 1]
None == -1

Smaller(a, b) == IF a < b THEN a ELSE b
Larger(a, b) == IF a > b THEN a ELSE b
Least(S) == CHOOSE x \in S : \A y \in S : x <= y
Greatest(S) == CHOOSE x \in S : \A y \in S : y <= x

(* A set in order.                                                         *)
Ordered(S, Before(_, _)) ==
    [k \in 1 .. Cardinality(S) |-> CHOOSE x \in S : Cardinality({y \in S : Before(y, x)}) = k - 1]

(* The length two suffixes share, up to a bound: `while l < max && ...`.   *)
Shared(i, j, bound) ==
    LET differ == {l \in 0 .. bound - 1 :
                        i + l >= n \/ j + l >= n \/ Byte(i + l) # Byte(j + l)}
    IN  IF differ = {} THEN bound ELSE CHOOSE l \in differ : \A m \in differ : l <= m

Searching(of) == trial.of = of /\ phase = "find"
Proceeds == UNCHANGED <<trial, phase>>
Finished == phase' = "done" /\ UNCHANGED <<trial, work>>
=============================================================================
