------------------------------- MODULE Memmove ------------------------------
(***************************************************************************)
(* What render_move of src/lzan-c64/src/emit.rs promises ("overlapping     *)
(* moves are safe", builder.rs): the destination gets the bytes the source *)
(* held, however the two overlap, and no other byte changes.               *)
(***************************************************************************)
EXTENDS Integers

CONSTANTS Memories    \* The memory contents tried: functions from addresses.

VARIABLES mem, src, dst, len, done

vars == <<mem, src, dst, len, done>>

\* m after n bytes at s have been moved to d.
Moved(m, s, d, n) ==
    [a \in DOMAIN m |-> IF a \in d .. (d + n - 1) THEN m[s + (a - d)] ELSE m[a]]

Init == mem \in Memories /\ done = FALSE

Move ==
    /\ ~done
    /\ mem' = Moved(mem, src, dst, len)
    /\ done' = TRUE
    /\ UNCHANGED <<src, dst, len>>

Spec == Init /\ [][Move]_vars
=============================================================================
