------------------------------- MODULE SfxBoot ------------------------------
(***************************************************************************)
(* The program SfxLayout builds, running: the boot code installs the       *)
(* blobs, the moves are made (inline, by the relocated mover, or by the    *)
(* front of the staged blob), control goes to the decoder and the decoder  *)
(* writes the output.  Every byte of memory says what it is, so that a     *)
(* region can be asked whether it still is what runs there.                *)
(*                                                                         *)
(* A copy loop is one action here, with the result its direction gives     *)
(* even where that is the wrong one (CopyLoop models the loop itself).     *)
(***************************************************************************)
EXTENDS SfxLayout

VARIABLES pc,    \* "off", "install", "move", "decode", "tail", "done"
          step,  \* the blob or move that is next
          mem    \* the memory

bootvars == <<vars, pc, step, mem>>

Addr == 0 .. (Space - 1)
Within(a, r) == r[1] <= a /\ a < r[2]

\* The stored image of blob b, behind those before it.
BlobImage(b) ==
    LET before == SumTo([c \in DOMAIN program.blobs |-> program.blobs[c].len], b - 1) IN
    <<program.blob_data + before, program.blob_data + before + program.blobs[b].len>>

\* Offset in the stream of the embedded payload's i-th stored byte: an in-place
\* layout stores the head behind the bulk.
StreamOffset(i) == (i + program.head) % cfg.payload.len

Payload ==
    IF Embedded THEN <<program.payload_data, program.payload_data + cfg.payload.len>>
    ELSE <<cfg.payload.at, cfg.payload.at + cfg.payload.len>>

\* The blob whose stored image a is in.
Holder(a) == CHOOSE b \in DOMAIN program.blobs : Within(a, BlobImage(b))

\* Memory after the program (and an external payload) has been loaded.
Loaded ==
    [a \in Addr |->
        IF Within(a, Payload) THEN <<"payload", StreamOffset(a - Payload[1])>>
        ELSE IF Within(a, <<cfg.org, program.code_end>>) THEN <<"program", a - cfg.org>>
        ELSE IF \E b \in DOMAIN program.blobs : Within(a, BlobImage(b))
        THEN <<program.blobs[Holder(a)].name, a - BlobImage(Holder(a))[1]>>
        ELSE <<"ram", a>>]

\* A copy of n bytes from s to d from the bottom up, or from the top down: a
\* byte the loop has already overwritten is read as what it has become.
Up(m, s, d, n) ==
    [a \in Addr |-> IF ~Within(a, <<d, d + n>>) THEN m[a]
                    ELSE m[s + (IF d > s THEN (a - d) % (d - s) ELSE a - d)]]
Down(m, s, d, n) ==
    [a \in Addr |-> IF ~Within(a, <<d, d + n>>) THEN m[a]
                    ELSE m[s + (IF d < s THEN n - 1 - ((d + n - 1 - a) % (s - d)) ELSE a - d)]]
-----------------------------------------------------------------------------
Unchanged == UNCHANGED vars

\* start:
Load ==
    /\ phase = "built" /\ pc = "off"
    /\ mem' = Loaded
    /\ pc' = "install" /\ step' = 1
    /\ Unchanged

\* install_<blob>
Install ==
    /\ pc = "install" /\ step <= Len(program.blobs)
    /\ LET b == program.blobs[step] IN mem' = Up(mem, BlobImage(step)[1], b.at, b.len)
    /\ step' = step + 1
    /\ UNCHANGED pc
    /\ Unchanged

Installed ==
    /\ pc = "install" /\ step > Len(program.blobs)
    /\ pc' = "move" /\ step' = 1
    /\ UNCHANGED mem
    /\ Unchanged

\* The copies that stand in the code.  The front of an in-place blob is the
\* head move, in the place of everything else.
HeadMove ==
    [src |-> cfg.org + BootLen(hm) + cfg.payload.len - program.head,
     dst |-> cfg.in_place, len |-> program.head, down |-> FALSE]

\* A copy in the program names the payload by its label, one in a blob by its
\* address in the pass before, which also decides the direction.
Known(mv) == SourceOf(mv, Label(used))
CopyGoing(mv, down) ==
    [src |-> IF Folded \/ Relocated THEN Known(mv) ELSE SourceOf(mv, program.payload_data),
     dst |-> mv.dst, len |-> mv.len, down |-> down]

\* (Mutants of Copy: always one direction.)
CopyUp(mv) == CopyGoing(mv, FALSE)
CopyDown(mv) == CopyGoing(mv, TRUE)

Copy(mv) == CopyGoing(mv, Descending(Known(mv), mv.dst, mv.len))
Copies == IF InPlace THEN <<HeadMove>> ELSE [i \in DOMAIN Moves |-> Copy(Moves[i])]

Move ==
    /\ pc = "move" /\ step <= Len(Copies)
    /\ LET c == Copies[step] IN
       mem' = IF c.down THEN Down(mem, c.src, c.dst, c.len) ELSE Up(mem, c.src, c.dst, c.len)
    /\ step' = step + 1
    /\ UNCHANGED pc
    /\ Unchanged

\* after_moves: the mover's JMP, the fall-through of a folded one.
Moved ==
    /\ pc = "move" /\ step > Len(Copies)
    /\ pc' = "decode"
    /\ UNCHANGED <<step, mem>>
    /\ Unchanged

\* JSR to the decoder: it reads the stream and writes output and scratch.
Decode ==
    /\ pc = "decode"
    /\ mem' = [a \in Addr |-> IF Within(a, Output) THEN <<"output", a - cfg.out.at>>
                              ELSE IF HasScratch /\ Within(a, Scratch) THEN <<"scratch", a>>
                              ELSE mem[a]]
    /\ pc' = "tail"
    /\ UNCHANGED step
    /\ Unchanged

\* The done tail behind the JSR.
DoneTail ==
    /\ pc = "tail"
    /\ pc' = "done"
    /\ UNCHANGED <<step, mem>>
    /\ Unchanged

BootInit == Init /\ pc = "off" /\ step = 0 /\ mem = [a \in Addr |-> <<"ram", a>>]
Boot == Load \/ Install \/ Installed \/ Move \/ Moved \/ Decode \/ DoneTail
BootNext == (Build /\ UNCHANGED <<pc, step, mem>>) \/ Boot
BootSpec == BootInit /\ [][BootNext]_bootvars
-----------------------------------------------------------------------------
(* Properties. *)

\* Whose code is executing.
Mover == IF InPlace \/ Folded THEN "staged_decruncher"
         ELSE IF Relocated THEN "relocated_mover" ELSE "program"
Decoder == IF Staged THEN "staged_decruncher" ELSE "program"
Runner == CASE pc = "install" -> "program"
            [] pc = "move" -> Mover
            [] pc \in {"decode", "tail"} -> Decoder
            [] OTHER -> "none"

\* Where the named piece runs, and that it is all there.
RunRange(name) ==
    IF name = "program" THEN <<cfg.org, program.code_end>>
    ELSE BlobRange(program.blobs[CHOOSE b \in DOMAIN program.blobs : program.blobs[b].name = name])
Intact(name) ==
    LET r == RunRange(name) IN \A a \in r[1] .. (r[2] - 1) : mem[a] = <<name, a - r[1]>>

\* The stream, where the decoder's comp_data says it is.
StreamAt == IF CompData = None THEN Label(used) ELSE CompData
Stream == <<StreamAt, StreamAt + cfg.payload.len>>

HeadWindow == IF InPlace THEN {<<cfg.in_place, cfg.in_place + program.head>>} ELSE {}
Targets == {MoveRange(Moves[i]) : i \in DOMAIN Moves} \cup HeadWindow
Runs == {BlobRange(program.blobs[b]) : b \in DOMAIN program.blobs}
Source(c) == <<c.src, c.src + c.len>>
Target(c) == <<c.dst, c.dst + c.len>>

\* What validate_plan leaves to the caller: blobs end in memory and keep clear of
\* one another, of what is moved and of the stream; a stream loaded elsewhere
\* keeps clear of the image; moves do not spoil each other.
Careful ==
    /\ \A r \in Runs : r[2] <= Space
    /\ \A b, c \in DOMAIN program.blobs :
           b # c => ~Overlap(BlobRange(program.blobs[b]), BlobRange(program.blobs[c]))
    /\ \A t \in Targets, r \in Runs : ~Overlap(t, r)
    /\ \A r \in Runs : ~Overlap(Stream, r) /\ \A i \in DOMAIN Copies : ~Overlap(Source(Copies[i]), r)
    /\ ~Embedded => Payload[2] <= Space /\ ~Overlap(Payload, Image)
    /\ \A i \in DOMAIN Copies : Source(Copies[i])[2] <= Space
    /\ \A i, j \in DOMAIN Copies : i # j =>
           /\ ~Overlap(Target(Copies[i]), Source(Copies[j]))
           /\ ~Overlap(Target(Copies[i]), Target(Copies[j]))
    /\ PayloadMoves = {} => \A i \in DOMAIN Moves : ~Overlap(MoveRange(Moves[i]), Stream)

\* No step runs code that an install, a move, the output or the scratch buffer
\* has overwritten - whichever of them may land on the program's own image.
RunsOwnCode ==
    Settled /\ Careful /\ (cfg.out.known \/ pc # "tail") => Runner = "none" \/ Intact(Runner)

\* When the decoder starts, the whole stream is where it will look for it.
StreamReady ==
    pc = "decode" /\ Settled /\ Careful =>
        \A i \in 0 .. (cfg.payload.len - 1) : mem[StreamAt + i] = <<"payload", i>>

\* ... and what move_data was asked to move has been moved (builder.rs: "Move
\* `len` bytes from `src` to `dst` before decrunching").  Not so in an in-place
\* layout: render writes its head move in their place, and folded moves are lost.
DataMoved ==
    pc = "decode" /\ Careful /\ ~InPlace =>
        \A i \in DOMAIN Moves : cfg.moves[i].src # PayloadSrc =>
            \A j \in 0 .. (Moves[i].len - 1) :
                mem[Moves[i].dst + j] = Loaded[Moves[i].src + j]
=============================================================================
