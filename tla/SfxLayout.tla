----------------------------- MODULE SfxLayout ------------------------------
(***************************************************************************)
(* Decruncher::build of src/lzan-c64/src/emit.rs: how a self-extracting    *)
(* C64 program is laid out.  Code that runs elsewhere than it is stored (a *)
(* decruncher staged in the stack page, a relocated mover) is assembled at *)
(* its run address and embedded as a blob, so the blobs need addresses of  *)
(* the program that contains them.  build renders and assembles up to four *)
(* times, each pass with the addresses the pass before observed, and then  *)
(* checks the plan against the layout of the last pass.                    *)
(*                                                                         *)
(* A program is modelled by the sizes and addresses of its parts.  Sizes   *)
(* do not depend on addresses except through render_move, whose descending *)
(* loop is longer than its ascending ones.                                 *)
(***************************************************************************)
EXTENDS Integers, Sequences

CONSTANTS Configs,     \* The decrunchers built (see Init).
          Space,       \* Size of the address space ($10000 in the code).
          Page,        \* Longest copy of a single-page loop (256).
          ShortLoop,   \* Size of copy_forward up to a page (13),
          LongLoop,    \* of copy_forward above (22),
          DownLoop,    \* of copy_backward (23),
          Jmp,         \* of a JMP (3).
          StackPage,   \* First address of the CPU stack's page ($0100),
          StackLimit,  \* highest end of a blob in that page ($01F4),
          LowMem,      \* first address above it ($0200).
          Placeholder, \* Address assumed before the first pass ($C000).
          Passes       \* Passes made at most (4).

ASSUME SizesAssumption ==
    /\ Page \in Nat \ {0} /\ Jmp \in Nat \ {0}
    /\ ShortLoop \in Nat \ {0} /\ LongLoop \in Nat /\ DownLoop \in Nat
    /\ ShortLoop < LongLoop /\ LongLoop < DownLoop
ASSUME SpaceAssumption == Space \in Nat \ {0}
ASSUME PassesAssumption == Passes \in Nat \ {0}

None == -1           \* an Option that is None
PayloadSrc == -2     \* MoveSrc::Payload
Address == 0 .. (Space - 1)

ASSUME PlacesAssumption ==
    StackPage \in Nat /\ StackLimit \in Nat /\ LowMem \in Nat /\ Placeholder \in Address

\* Addresses and moves are u16 in the builder; a stream is as long as it is.
ASSUME ConfigsAssumption ==
    Configs \subseteq
        [org : Address, boot : Nat, core : Nat, payload : [at : Address \cup {None}, len : Nat],
         moves : Seq([src : Address \cup {PayloadSrc}, dst : Address, len : Nat,
                      top_align : BOOLEAN]),
         stage_at : Address \cup {None}, mover_at : Address \cup {None}, fold : BOOLEAN,
         in_place : Address \cup {None}, out : [at : Address, len : Nat, known : BOOLEAN],
         scratch : [at : Address, len : Nat]]

VARIABLES cfg,      \* the Decruncher: org, boot (bytes ahead of the installs), core
                    \* (bytes of wrapper and decoder), payload, moves, stage_at,
                    \* mover_at, fold, in_place, out, scratch
          phase,    \* "plan", "render", "split", "assemble", "validate", "built", "rejected",
                    \* or "drift", the error of a payload that landed elsewhere
          pass,     \* passes completed
          env,      \* addresses observed: payload_data, after_moves
          used,     \* env as the last pass rendered it
          hm,       \* in-place split: size of the head move assumed
          program   \* the layout of the last pass

vars == <<cfg, phase, pass, env, used, hm, program>>
-----------------------------------------------------------------------------
(* plan(). *)

Staged == cfg.stage_at # None
Embedded == cfg.payload.at = None
InPlace == cfg.in_place # None
PayloadMoves == {i \in DOMAIN cfg.moves : cfg.moves[i].src = PayloadSrc}

\* The resolved moves: a move of the payload has its length, and the embedded
\* payload's address is not known yet.
ResolvedMove(mv) ==
    LET len == IF mv.src = PayloadSrc THEN cfg.payload.len ELSE mv.len IN
    [src |-> IF mv.src = PayloadSrc THEN cfg.payload.at ELSE mv.src,
     dst |-> IF mv.top_align THEN (mv.dst - len + 1) % Space ELSE mv.dst,
     len |-> len]
Moves == [i \in DOMAIN cfg.moves |-> ResolvedMove(cfg.moves[i])]

LastPayloadMove == CHOOSE i \in PayloadMoves : \A j \in PayloadMoves : j <= i

\* Where the decoder reads the stream; None for the payload's label.
CompData ==
    IF InPlace THEN cfg.in_place
    ELSE IF PayloadMoves # {} THEN Moves[LastPayloadMove].dst
    ELSE cfg.payload.at

PlanAccepts == InPlace => PayloadMoves = {} /\ Staged /\ Embedded

Folded == cfg.fold /\ cfg.mover_at = None /\ Staged /\ cfg.moves # <<>>
Relocated == cfg.mover_at # None /\ cfg.moves # <<>>

Plan ==
    /\ phase = "plan"
    /\ phase' = IF PlanAccepts THEN "render" ELSE "rejected"
    /\ UNCHANGED <<cfg, pass, env, used, hm, program>>
-----------------------------------------------------------------------------
(* render(). *)

\* The sum of the first n of some sizes.
SumTo(sizes, n) ==
    LET sum[k \in 0 .. n] == IF k = 0 THEN 0 ELSE sum[k - 1] + sizes[k]
    IN  sum[n]

\* (Mutant of LoopSize: every long copy sized as a descending one.)
LoopSizeDown(n) == IF n = 0 THEN 0 ELSE IF n <= Page THEN ShortLoop ELSE DownLoop

\* Sizes of the copy loops (copy_forward, copy_backward, render_move).
LoopSize(n) == IF n = 0 THEN 0 ELSE IF n <= Page THEN ShortLoop ELSE LongLoop
\* (Mutant of Descending: source and destination exchanged.)
DescendingSwapped(s, d, n) == s > d /\ s < d + n
Descending(s, d, n) == d > s /\ d < s + n
MoveSize(s, mv) == IF Descending(s, mv.dst, mv.len) THEN DownLoop ELSE LoopSize(mv.len)

Label(e) == IF e.payload_data = None THEN Placeholder ELSE e.payload_data
SourceOf(mv, label) == IF mv.src = None THEN label ELSE mv.src
MovesSize(label) ==
    SumTo([i \in DOMAIN Moves |-> MoveSize(SourceOf(Moves[i], label), Moves[i])], Len(cfg.moves))

\* (Mutant of BootLen: the blob's own head move is not counted in its length.)
BootLenBare(h) == cfg.boot + LoopSize(cfg.core) + Jmp

\* The in-place split: how much of the stream's head must wait at the end of
\* the file when the copy loop at the front of the blob has size h.
BootLen(h) == cfg.boot + LoopSize(h + cfg.core) + Jmp
HeadLen(h) ==
    LET window == BootLen(h) + cfg.org - cfg.in_place IN
    IF window <= cfg.payload.len THEN window ELSE cfg.payload.len

Render ==
    /\ phase = "render"
    /\ used' = env
    /\ hm' = ShortLoop
    /\ phase' = IF ~InPlace THEN "assemble"
                ELSE IF cfg.in_place >= cfg.org THEN "rejected" ELSE "split"
    /\ UNCHANGED <<cfg, pass, env, program>>

\* (Mutant of Split: the search waits for the size it began with.)
SplitRestless ==
    /\ phase = "split"
    /\ hm' = LoopSize(HeadLen(hm))
    /\ phase' = IF hm' = ShortLoop THEN "assemble" ELSE "split"
    /\ UNCHANGED <<cfg, pass, env, used, program>>

Split ==
    /\ phase = "split"
    /\ hm' = LoopSize(HeadLen(hm))
    /\ phase' = IF hm' = hm THEN "assemble" ELSE "split"
    /\ UNCHANGED <<cfg, pass, env, used, program>>

\* The relocated pieces: name, run address and size.
Blobs(label) ==
    LET front == IF InPlace THEN LoopSize(HeadLen(hm))
                 ELSE IF Folded THEN MovesSize(label) ELSE 0
        staged == [name |-> "staged_decruncher", at |-> cfg.stage_at, len |-> front + cfg.core]
        mover == [name |-> "relocated_mover", at |-> cfg.mover_at, len |-> MovesSize(label) + Jmp]
    IN (IF Staged THEN <<staged>> ELSE <<>>) \o (IF Relocated THEN <<mover>> ELSE <<>>)

\* The loops that install the blobs, and their images.
Installs(blobs) == SumTo([b \in DOMAIN blobs |-> LoopSize(blobs[b].len)], Len(blobs))
Stored(blobs) == SumTo([b \in DOMAIN blobs |-> blobs[b].len], Len(blobs))

\* The program one pass renders from the addresses in e, as the assembler lays
\* it out: boot code, moves, decoder or jump, then blobs and payload.
Layout(e) ==
    LET label == Label(e)
        blobs == Blobs(label)
        after == cfg.org + cfg.boot + Installs(blobs)
                 + (IF Folded THEN 0 ELSE IF Relocated THEN Jmp ELSE MovesSize(label))
        code_end == after + (IF Staged THEN Jmp ELSE cfg.core)
        head == IF InPlace THEN HeadLen(hm) ELSE 0
        embedded == IF Embedded THEN cfg.payload.len ELSE 0
    IN [blobs |-> blobs,
        after_moves |-> after,
        code_end |-> code_end,
        payload_data |-> IF InPlace THEN code_end
                         ELSE IF Embedded THEN code_end + Stored(blobs) ELSE None,
        head |-> head,
        blob_data |-> IF InPlace THEN code_end + embedded ELSE code_end,
        end |-> code_end + Stored(blobs) + embedded]
-----------------------------------------------------------------------------
(* build(). *)

\* Where render expected the stream's bulk (and, head_len bytes less than the
\* stream behind it, its head).
Drifted(layout) == InPlace /\ layout.payload_data # cfg.org + BootLen(hm)

Assemble ==
    /\ phase = "assemble"
    /\ program' = Layout(env)
    /\ pass' = pass + 1
    /\ IF Drifted(program')
       THEN phase' = "drift" /\ UNCHANGED env
       ELSE /\ env' = [payload_data |-> program'.payload_data,
                       after_moves |-> program'.after_moves]
            /\ phase' = IF env' = env \/ pass' = Passes THEN "validate" ELSE "render"
    /\ UNCHANGED <<cfg, used, hm>>

\* Half-open ranges of addresses.
Overlap(a, b) == a[1] < b[2] /\ b[1] < a[2]
Image == <<cfg.org, program.end>>
BlobRange(b) == <<b.at, b.at + b.len>>
MoveRange(mv) == <<mv.dst, mv.dst + mv.len>>
Output == <<cfg.out.at, cfg.out.at + cfg.out.len>>
\* What validate_plan sees of the output when its length is unknown.
SeenOutput == IF cfg.out.known THEN Output ELSE <<cfg.out.at, cfg.out.at + 1>>
HasScratch == cfg.scratch.len # 0
Scratch == <<cfg.scratch.at, cfg.scratch.at + cfg.scratch.len>>

OutputAccepted ==
    /\ cfg.out.at >= LowMem
    /\ SeenOutput[2] <= Space
    /\ Overlap(SeenOutput, Image) => Staged
    /\ \A i \in DOMAIN program.blobs : ~Overlap(SeenOutput, BlobRange(program.blobs[i]))

\* (Mutant of MoveAccepted: the copy code itself may be overwritten.)
MoveAcceptedLoose(mv) ==
    /\ MoveRange(mv)[2] <= Space
    /\ Overlap(MoveRange(mv), Image) => Staged

\* A move onto the image needs copy code that survives it, and a staged decoder.
MoveAccepted(mv) ==
    /\ MoveRange(mv)[2] <= Space
    /\ Overlap(MoveRange(mv), Image) => Staged /\ (cfg.mover_at # None \/ cfg.fold)

BlobAccepted(b) ==
    /\ Overlap(BlobRange(b), <<StackPage, LowMem>>) => b.at + b.len <= StackLimit
    /\ ~Overlap(BlobRange(b), Image)

ScratchAccepted ==
    HasScratch =>
        /\ Scratch[2] <= Space /\ Scratch[1] >= LowMem
        /\ cfg.out.known => ~Overlap(Scratch, Output)
        /\ Overlap(Scratch, Image) => Staged
        /\ \A i \in DOMAIN program.blobs : ~Overlap(Scratch, BlobRange(program.blobs[i]))
        /\ \A i \in DOMAIN Moves : ~Overlap(Scratch, MoveRange(Moves[i]))

\* The size check of build and the errors of validate_plan.
Accepted ==
    /\ program.end <= Space
    /\ OutputAccepted
    /\ \A i \in DOMAIN Moves : MoveAccepted(Moves[i])
    /\ \A i \in DOMAIN program.blobs : BlobAccepted(program.blobs[i])
    /\ ScratchAccepted

Validate ==
    /\ phase = "validate"
    /\ phase' = IF Accepted THEN "built" ELSE "rejected"
    /\ UNCHANGED <<cfg, pass, env, used, hm, program>>
-----------------------------------------------------------------------------
NoEnv == [payload_data |-> None, after_moves |-> None]
NoProgram == [blobs |-> <<>>, after_moves |-> 0, code_end |-> 0, payload_data |-> None,
              head |-> 0, blob_data |-> 0, end |-> 0]

Init ==
    /\ cfg \in Configs
    /\ phase = "plan"
    /\ pass = 0 /\ hm = 0
    /\ env = NoEnv /\ used = NoEnv
    /\ program = NoProgram

Build == Plan \/ Render \/ Split \/ Assemble \/ Validate
Next == Build

\* build is a loop that runs on.
Spec == Init /\ [][Next]_vars /\ WF_vars(Build)
-----------------------------------------------------------------------------
(* Properties. *)

Phases == {"plan", "render", "split", "assemble", "validate", "built", "rejected", "drift"}
TypeOK ==
    /\ cfg.core \in Nat /\ phase \in Phases
    /\ pass \in 0 .. Passes
    /\ hm \in {0, ShortLoop, LongLoop}
    /\ {env.payload_data, env.after_moves, used.payload_data, used.after_moves}
           \subseteq Nat \cup {None}
    /\ {program.after_moves, program.code_end, program.head, program.end} \subseteq Nat

\* The constants of the program handed out are the addresses of that program
\* (emit.rs: "until the output is stable").
Settled == used = env

\* Embedded-payload moves that are rendered into a blob, whose size then
\* depends on where the payload ends up.
BlobMoves == IF Folded \/ Relocated THEN {i \in DOMAIN Moves : Moves[i].src = None} ELSE {}

\* How far the payload moves when one loop in a blob changes: by the loop itself,
\* and by the install loop when the blob crosses a page.
Window == (DownLoop - ShortLoop) + (LongLoop - ShortLoop)

\* A build that did not settle had such a move, to a destination the payload
\* only just fails to reach when the loop is an ascending one.  (For programs of
\* at most two payload moves: three can still push one another up at the last pass.)
StaleOnlyInWindow ==
    phase = "built" /\ ~Settled =>
        \E i \in BlobMoves : program.payload_data - Moves[i].dst \in -Window .. (Window - 1)

\* What build promises of every program (emit.rs, "Two-pass fix-point").
BuiltSettled == phase = "built" => Settled

\* In an in-place layout without other moves the boot code never drifts from
\* its predicted size, and the bulk of the stream is loaded where the decoder
\* will read it.
BulkInPlace ==
    /\ InPlace /\ cfg.moves = <<>> => phase # "drift"
    /\ InPlace /\ phase = "built" /\ program.head < cfg.payload.len =>
           program.payload_data = cfg.in_place + program.head

\* The search for the in-place split ends; so does build.
BuildReturns == <>(phase \in {"built", "rejected", "drift"})
=============================================================================
