------------------------------ MODULE MCSfxBoot -----------------------------
(* SfxBoot in a small address space, with the sizes scaled down: a page of  *)
(* 4 bytes, copy loops of 1, 2 and 3, memory from 6 up, programs at 16.     *)
EXTENDS SfxBoot

Data(src, len, dst) == [src |-> src, len |-> len, dst |-> dst, top_align |-> FALSE]
ToStart(dst) == [src |-> PayloadSrc, len |-> 0, dst |-> dst, top_align |-> FALSE]
ToTop(top) == [src |-> PayloadSrc, len |-> 0, dst |-> top, top_align |-> TRUE]

Base == [org |-> 16, boot |-> 1, core |-> 2, payload |-> [at |-> None, len |-> 5],
         moves |-> <<>>, stage_at |-> None, mover_at |-> None, fold |-> FALSE,
         in_place |-> None, out |-> [at |-> 38, len |-> 2, known |-> TRUE],
         scratch |-> [at |-> 0, len |-> 0]]

Stages == {None, 2, 8}

\* One payload move to anywhere, with the output anywhere.
OneMove ==
    {[Base EXCEPT !.payload = [at |-> p, len |-> n], !.stage_at = s, !.mover_at = m, !.fold = f,
                  !.out.at = o, !.moves = <<mv>>] :
        p \in {None, 9}, n \in {3, 5}, s \in Stages, m \in {None, 6}, f \in BOOLEAN,
        o \in {6, 14, 20, 38}, mv \in {ToStart(d) : d \in 6 .. 36} \cup {ToTop(39)}}

\* No payload move, with scratch anywhere, and an output of unknown length.
NoMove ==
    {[Base EXCEPT !.stage_at = s, !.payload.at = p, !.scratch = [at |-> a, len |-> 2],
                  !.out = [at |-> o, len |-> 4, known |-> k]] :
        s \in Stages, p \in {None, 30}, a \in 5 .. 39, o \in {6, 12, 22, 34}, k \in BOOLEAN}

\* A data move beside a payload move.
TwoMoves ==
    {[Base EXCEPT !.stage_at = s, !.mover_at = m, !.fold = f, !.moves = <<Data(36, 2, e), ToStart(d)>>] :
        s \in {None, 2}, m \in {None, 8}, f \in BOOLEAN, e \in {6, 13, 30, 35}, d \in 6 .. 34}

InPlaceLayouts ==
    {[Base EXCEPT !.payload.len = n, !.core = c, !.stage_at = s, !.in_place = i, !.out.at = o,
                  !.boot = b] :
        n \in {1, 4, 7, 12}, c \in {1, 3, 4}, s \in {2, 6}, i \in 6 .. 16, o \in {6, 22, 38},
        b \in {0, 1}}

Programs == OneMove \cup NoMove \cup TwoMoves \cup InPlaceLayouts
=============================================================================
