------------------------------ MODULE Parsers ------------------------------
(***************************************************************************)
(* The match finders and the parsers, each on the inputs of its trials: a  *)
(* search runs alone, from its input to "done".                            *)
(***************************************************************************)
EXTENDS Search

CONSTANT Trials

Finder    == INSTANCE MatchFinder
Interval  == INSTANCE IntervalFinder
Sais      == INSTANCE ShrinklerFinder
Tscrunch  == INSTANCE TscrunchParse
Bb2       == INSTANCE Bb2Parse
Zx        == INSTANCE ZxParse

StartOf ==
    CASE trial.of = "finder" -> (CASE trial.finder = "chain" -> Finder!ChainStart
                                   [] trial.finder = "exact" -> Finder!ExactStart
                                   [] OTHER -> Finder!FastStart)
      [] trial.of \in {"lzsa2", "apultra"} -> Interval!IntervalStart
      [] trial.of = "shrinkler" -> Sais!ShrinklerStart
      [] trial.of = "tscrunch" -> Tscrunch!TscrunchStart
      [] trial.of = "bb2" -> Bb2!Bb2Start
      [] trial.of = "zx" -> Zx!ZxStart

Init == trial \in Trials /\ phase = "find" /\ work = StartOf

Next == \/ Finder!FinderNext
        \/ Interval!IntervalNext
        \/ Sais!ShrinklerNext
        \/ Tscrunch!TscrunchNext
        \/ Bb2!Bb2Next
        \/ Zx!ZxNext

Spec == Init /\ [][Next]_<<trial, phase, work>>

-----------------------------------------------------------------------------
(* What a search has found is true of its input: a match repeats bytes     *)
(* that were there before, and a parse's tokens say what the input has at  *)
(* their place, one after another, to its end.                             *)
Covers ==
    phase = "done" =>
        CASE trial.of = "finder" -> Finder!FinderCovers
          [] trial.of \in {"lzsa2", "apultra"} -> Interval!IntervalCovers
          [] trial.of = "shrinkler" -> Sais!ShrinklerCovers
          [] trial.of = "tscrunch" -> Tscrunch!TscrunchCovers
          [] trial.of = "bb2" -> Bb2!Bb2Covers
          [] trial.of = "zx" -> Zx!ZxCovers

(* Nothing better was there to be found: a finder gives every length at    *)
(* its nearest source, a parse that claims to be optimal costs what the    *)
(* cheapest does.                                                          *)
Optimal ==
    phase = "done" =>
        CASE trial.of = "finder" -> Finder!FinderOptimal
          [] trial.of \in {"lzsa2", "apultra"} -> Interval!IntervalOptimal
          [] trial.of = "shrinkler" -> Sais!ShrinklerOptimal
          [] trial.of = "tscrunch" -> Tscrunch!TscrunchOptimal
          [] OTHER -> TRUE

(* Between two steps: what a search keeps about its input, in chains,      *)
(* lists, trees and tables that it takes apart as it goes, still agrees    *)
(* with the input.                                                         *)
Structured ==
    CASE trial.of = "finder" -> Finder!FinderStructured
      [] trial.of = "shrinkler" -> Sais!ShrinklerStructured
      [] trial.of = "bb2" -> Bb2!Bb2Structured
      [] trial.of = "zx" -> Zx!ZxStructured
      [] OTHER -> TRUE
=============================================================================
