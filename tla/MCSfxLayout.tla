---------------------------- MODULE MCSfxLayout -----------------------------
(* SfxLayout with the sizes of the code: programs at $1000 around the      *)
(* boundaries of the copy loops.                                           *)
EXTENDS SfxLayout

Moved(src, len, dst) == [src |-> src, len |-> len, dst |-> dst, top_align |-> FALSE]
Topped(src, len, dst) == [src |-> src, len |-> len, dst |-> dst, top_align |-> TRUE]

Base == [org |-> 4096, boot |-> 5, core |-> 150, payload |-> [at |-> None, len |-> 300],
         moves |-> <<>>, stage_at |-> None, mover_at |-> None, fold |-> FALSE,
         in_place |-> None, out |-> [at |-> 32768, len |-> 512, known |-> TRUE],
         scratch |-> [at |-> 0, len |-> 0]]

\* A payload moved to anywhere near itself, by inline, relocated or folded code.
NearMoves ==
    {[Base EXCEPT !.payload.len = n, !.stage_at = s, !.mover_at = m, !.fold = f,
                  !.moves = <<Moved(PayloadSrc, 0, d)>>] :
        n \in {0, 200, 256, 257}, s \in {None, 256}, m \in {None, 820}, f \in BOOLEAN,
        d \in {3000} \cup (4250 .. 4330) \cup {4500, 16384}}

\* The same with a second move, of data or again of the payload.
TwoMoves ==
    {[Base EXCEPT !.payload.len = 257, !.stage_at = 256, !.mover_at = m, !.fold = TRUE,
                  !.moves = <<second, Moved(PayloadSrc, 0, d)>>] :
        m \in {None, 820}, d \in {4285 + i : i \in 0 .. 24},
        second \in {Moved(8192, 100, 8200), Moved(8192, 300, 8000), Topped(PayloadSrc, 0, 49151),
                    Moved(PayloadSrc, 0, 4300)}}

\* A blob that crosses a page when its loop changes, with its install loop, and
\* a move that begins, or ends, where the payload begins.
PageMoves ==
    {[Base EXCEPT !.core = c, !.payload.len = 300, !.stage_at = 820, !.fold = TRUE,
                  !.moves = <<Moved(PayloadSrc, 0, d)>>] :
        c \in {230, 233, 234, 243, 244}, d \in (4070 .. 4130) \cup (4370 .. 4430)}

\* In-place layouts: heads around a page, with and without other moves.
InPlaceLayouts ==
    {[Base EXCEPT !.payload.len = n, !.core = c, !.in_place = fs, !.stage_at = 256,
                  !.fold = f, !.moves = mvs] :
        n \in {0, 1, 40, 256, 600}, c \in {150, 200, 243, 244}, f \in BOOLEAN,
        fs \in {3800, 3850, 3859, 3860, 3861, 3862, 3869, 3870, 3871, 4000, 4095, 4096},
        mvs \in {<<>>, <<Moved(8192, 100, 8200)>>}}

\* Plans with a check to fail: output, scratch, an external payload, no stage.
Placements ==
    {[Base EXCEPT !.stage_at = s, !.out.at = o, !.out.known = k, !.scratch = [at |-> a, len |-> 32],
                  !.payload.at = p, !.in_place = i] :
        s \in {None, 256, 360, 4200}, o \in {0, 300, 4000, 4200, 65200, 60000}, k \in BOOLEAN,
        a \in {0, 500, 4200, 60100, 65520}, p \in {None, 24576}, i \in {None, 4000}}

AllLayouts == NearMoves \cup TwoMoves \cup PageMoves \cup InPlaceLayouts \cup Placements
=============================================================================
