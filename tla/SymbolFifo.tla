----------------------------- MODULE SymbolFifo -----------------------------
(***************************************************************************)
(* What the bit I/O layer of the LZAN codec promises its callers: a        *)
(* write-once tape of symbols.  The encoder puts symbols on the tape, one  *)
(* after the other, then closes it; the decoder asks for the next symbol   *)
(* and gets exactly the value that was put there.  How symbols share bytes *)
(* (bits of one byte spread among later data bytes, a bit hidden in the    *)
(* low bit of an offset byte) is invisible at this level.                  *)
(***************************************************************************)
EXTENDS Naturals, Sequences

CONSTANT Symbols      \* The symbols that can be put on the tape.

VARIABLES tape,       \* The symbols put so far, oldest first.
          got,        \* The symbols taken so far, oldest first.
          closed      \* The encoder has called finish().

vars == <<tape, got, closed>>

Init ==
    /\ tape = <<>>
    /\ got = <<>>
    /\ closed = FALSE

\* The encoder puts one more symbol.
Put ==
    /\ ~closed
    /\ \E s \in Symbols : tape' = Append(tape, s)
    /\ UNCHANGED <<got, closed>>

\* The encoder hands over the finished stream.
Close ==
    /\ ~closed
    /\ closed' = TRUE
    /\ UNCHANGED <<tape, got>>

\* The decoder takes the next symbol and gets the value that was put.
Take ==
    /\ closed
    /\ Len(got) < Len(tape)
    /\ got' = Append(got, tape[Len(got) + 1])
    /\ UNCHANGED <<tape, closed>>

Next == Put \/ Close \/ Take

Spec == Init /\ [][Next]_vars
=============================================================================
