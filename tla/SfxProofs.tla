------------------------------ MODULE SfxProofs -----------------------------
(***************************************************************************)
(* Proofs about the self-extracting programs, for every configuration and  *)
(* every size of the copy loops.  SfxLayout: the layout that is handed out *)
(* is the one the program is made of, and loads a stream where it is       *)
(* decoded.  SfxBoot, in an address space of any size: what the boot code  *)
(* copies arrives, and nothing that runs is overwritten.                   *)
(***************************************************************************)
EXTENDS SfxBoot, SequenceTheorems, Induction

-----------------------------------------------------------------------------
(* Sums. *)

IsSum(f, sizes, n) == f = [k \in 0 .. n |-> IF k = 0 THEN 0 ELSE f[k - 1] + sizes[k]]

\* The table of partial sums exists.
LEMMA SumExists ==
    ASSUME NEW sizes, NEW n \in Nat
    PROVE  \E f : IsSum(f, sizes, n)
<1> DEFINE Bad == {m \in Nat : ~ \E f : IsSum(f, sizes, m)}
<1>1. ASSUME Bad # {} PROVE FALSE
    <2>1. PICK m \in Bad : \A y \in Bad : m <= y
      BY <1>1, LeastNatural
    <2>2. CASE m = 0
      <3>1. IsSum([j \in 0 .. 0 |-> 0], sizes, 0)
        BY DEF IsSum
      <3> QED BY <2>1, <2>2, <3>1
    <2>3. CASE m # 0
      <3>1. m - 1 \in Nat /\ m - 1 \notin Bad
        BY <2>1, <2>3
      <3>2. PICK g : IsSum(g, sizes, m - 1)
        BY <3>1
      <3>3. \A j \in 0 .. (m - 1) : g[j] = IF j = 0 THEN 0 ELSE g[j - 1] + sizes[j]
        BY <3>2 DEF IsSum
      <3> DEFINE f == [j \in 0 .. m |-> IF j = m THEN g[m - 1] + sizes[m] ELSE g[j]]
      <3>4. ASSUME NEW j \in 0 .. m PROVE f[j] = IF j = 0 THEN 0 ELSE f[j - 1] + sizes[j]
        <4>1. CASE j = m
          <5>1. m - 1 \in 0 .. m /\ m - 1 # m
            BY <3>1
          <5> QED BY <4>1, <5>1, <2>3
        <4>2. CASE j # m
          <5>1. j \in 0 .. (m - 1) /\ (j # 0 => j - 1 \in 0 .. m /\ j - 1 # m)
            BY <4>2, <3>1
          <5>2. f[j] = g[j] /\ (j # 0 => f[j - 1] = g[j - 1])
            BY <4>2, <5>1
          <5> QED BY <5>1, <5>2, <3>3
        <4> QED BY <4>1, <4>2
      <3> HIDE DEF f
      <3>5. f = [j \in 0 .. m |-> f[j]]
        BY DEF f
      <3>6. IsSum(f, sizes, m)
        BY <3>4, <3>5 DEF IsSum
      <3> QED BY <3>6, <2>1
    <2> QED BY <2>2, <2>3
<1> QED BY <1>1

\* The sum of the first n sizes is a number: nothing for none of them, and the
\* first, or the first and the second, for one or two.
LEMMA SumToType ==
    ASSUME NEW sizes, NEW n \in Nat, \A k \in 1 .. n : sizes[k] \in Nat
    PROVE  /\ SumTo(sizes, n) \in Nat
           /\ n = 0 => SumTo(sizes, n) = 0
           /\ n = 1 => SumTo(sizes, n) = sizes[1]
           /\ n = 2 => SumTo(sizes, n) = sizes[1] + sizes[2]
<1> DEFINE f == CHOOSE g : IsSum(g, sizes, n)
<1>1. IsSum(f, sizes, n)
    BY SumExists
<1>2. SumTo(sizes, n) = f[n]
    BY DEF SumTo, IsSum
<1> HIDE DEF f
<1>3. \A k \in 0 .. n : f[k] = IF k = 0 THEN 0 ELSE f[k - 1] + sizes[k]
    BY <1>1 DEF IsSum
<1>4. f[0] = 0 /\ \A k \in 1 .. n : f[k] = f[k - 1] + sizes[k]
    BY <1>3
<1> DEFINE Bad == {k \in Nat : k \in 0 .. n /\ f[k] \notin Nat}
<1>5. ASSUME Bad # {} PROVE FALSE
    <2>1. PICK k \in Bad : \A y \in Bad : k <= y
      BY <1>5, LeastNatural
    <2>2. CASE k = 0
      BY <1>4, <2>1, <2>2
    <2>3. CASE k # 0
      <3>0. k \in Nat /\ k \in 0 .. n
        BY <2>1
      <3>1. k - 1 \in 0 .. n /\ k - 1 \in Nat /\ k \in 1 .. n /\ ~ (k <= k - 1)
        BY <2>3, <3>0
      <3>2. f[k - 1] \in Nat
        BY <2>1, <3>1
      <3>3. f[k] = f[k - 1] + sizes[k] /\ sizes[k] \in Nat
        BY <1>4, <3>1
      <3> QED BY <2>1, <3>2, <3>3
    <2> QED BY <2>2, <2>3
<1>6. n \in 0 .. n
    OBVIOUS
<1>7. f[n] \in Nat
    BY <1>5, <1>6
<1>8. n = 1 => f[n] = sizes[1]
    <2> HAVE n = 1
    <2>1. f[1] = f[1 - 1] + sizes[1] /\ sizes[1] \in Nat
      BY <1>4
    <2> QED BY <1>4, <2>1
<1>9. n = 2 => f[n] = sizes[1] + sizes[2]
    <2> HAVE n = 2
    <2>1. f[2] = f[2 - 1] + sizes[2] /\ f[1] = f[1 - 1] + sizes[1] /\ sizes[1] \in Nat
      BY <1>4
    <2> QED BY <1>4, <2>1
<1> QED BY <1>2, <1>4, <1>7, <1>8, <1>9

-----------------------------------------------------------------------------
(* The types of what render computes. *)

Blob == [name : {"staged_decruncher", "relocated_mover"}, at : Address, len : Nat]
Env == [payload_data : Nat \cup {None}, after_moves : Nat \cup {None}]
Program == [blobs : Seq(Blob), after_moves : Nat, code_end : Nat,
            payload_data : Nat \cup {None}, head : Nat, blob_data : Nat, end : Nat]
Placed == [src : Nat \cup {None}, dst : Nat, len : Nat]

\* The parts of a configuration.
LEMMA ConfigType ==
    ASSUME cfg \in Configs
    PROVE  /\ cfg.org \in Address /\ cfg.boot \in Nat /\ cfg.core \in Nat
           /\ cfg.payload.at \in Address \cup {None} /\ cfg.payload.len \in Nat
           /\ cfg.moves \in Seq([src : Address \cup {PayloadSrc}, dst : Address, len : Nat,
                                 top_align : BOOLEAN])
           /\ cfg.stage_at \in Address \cup {None} /\ cfg.mover_at \in Address \cup {None}
           /\ cfg.fold \in BOOLEAN /\ cfg.in_place \in Address \cup {None}
           /\ cfg.out.at \in Address /\ cfg.out.len \in Nat /\ cfg.out.known \in BOOLEAN
           /\ cfg.scratch.at \in Address /\ cfg.scratch.len \in Nat
BY ConfigsAssumption

\* An address is a number.
LEMMA AddressType == Address \subseteq Nat
BY SpaceAssumption DEF Address

\* The size of a copy loop.
LEMMA LoopSizeType ==
    ASSUME NEW n \in Nat
    PROVE  /\ LoopSize(n) \in {0, ShortLoop, LongLoop} /\ LoopSize(n) \in Nat
           /\ n = 0 <=> LoopSize(n) = 0
BY SizesAssumption DEF LoopSize

\* The size of a move.
LEMMA MoveSizeType ==
    ASSUME NEW s, NEW mv, mv.len \in Nat
    PROVE  MoveSize(s, mv) \in Nat
BY LoopSizeType, SizesAssumption DEF MoveSize

\* The resolved moves.
LEMMA MovesType ==
    ASSUME cfg \in Configs
    PROVE  /\ DOMAIN Moves = 1 .. Len(cfg.moves) /\ Len(cfg.moves) \in Nat
           /\ DOMAIN Moves = DOMAIN cfg.moves
           /\ \A i \in DOMAIN Moves : Moves[i] \in Placed /\ Moves[i] = ResolvedMove(cfg.moves[i])
<1> DEFINE Given == [src : Address \cup {PayloadSrc}, dst : Address, len : Nat,
                     top_align : BOOLEAN]
<1>1. cfg.moves \in Seq(Given) /\ cfg.payload.len \in Nat
      /\ cfg.payload.at \in Address \cup {None}
    BY ConfigType
<1>2. /\ DOMAIN Moves = DOMAIN cfg.moves
      /\ DOMAIN cfg.moves = 1 .. Len(cfg.moves) /\ Len(cfg.moves) \in Nat
    BY <1>1, LenProperties DEF Moves
<1>3. ASSUME NEW i \in DOMAIN Moves PROVE ResolvedMove(cfg.moves[i]) \in Placed
    <2> DEFINE mv == cfg.moves[i]
               len == IF mv.src = PayloadSrc THEN cfg.payload.len ELSE mv.len
               top == mv.dst - len + 1
    <2>1. mv \in Given
      BY <1>1, <1>2, ElementOfSeq
    <2>2. /\ mv.src \in Address \cup {PayloadSrc} /\ mv.dst \in Address /\ mv.len \in Nat
      BY <2>1
    <2>3. len \in Nat
      BY <1>1, <2>2
    <2>4. top % Space \in Nat
      <3>1. top \in Int
        <4>1. mv.dst \in Nat
          BY <2>2, AddressType
        <4> HIDE DEF mv, len
        <4> QED BY <2>3, <4>1
      <3> HIDE DEF top
      <3> QED BY <3>1, SpaceAssumption
    <2>5. (IF mv.src = PayloadSrc THEN cfg.payload.at ELSE mv.src) \in Nat \cup {None}
      BY <1>1, <2>2, AddressType DEF PayloadSrc
    <2>6. (IF mv.top_align THEN top % Space ELSE mv.dst) \in Nat
      BY <2>2, <2>4, AddressType
    <2> QED BY <2>3, <2>5, <2>6 DEF ResolvedMove, Placed
<1>4. \A i \in DOMAIN Moves : Moves[i] = ResolvedMove(cfg.moves[i])
    BY DEF Moves
<1> QED BY <1>2, <1>3, <1>4

\* The size of all moves.
LEMMA MovesSizeType ==
    ASSUME cfg \in Configs, NEW label
    PROVE  MovesSize(label) \in Nat /\ (cfg.moves = <<>> => MovesSize(label) = 0)
<1> DEFINE sizes == [i \in DOMAIN Moves |-> MoveSize(SourceOf(Moves[i], label), Moves[i])]
           n == Len(cfg.moves)
<1>1. ASSUME NEW i \in 1 .. n PROVE sizes[i] \in Nat
    <2>1. i \in DOMAIN Moves /\ Moves[i].len \in Nat
      BY MovesType DEF Placed
    <2>2. sizes[i] = MoveSize(SourceOf(Moves[i], label), Moves[i])
      BY <2>1
    <2> QED BY <2>1, <2>2, MoveSizeType
<1>2. n \in Nat
    BY MovesType
<1>3. MovesSize(label) = SumTo(sizes, n)
    BY DEF MovesSize
<1>4. cfg.moves = <<>> => n = 0
    BY EmptySeq
<1> HIDE DEF sizes, n
<1> QED BY <1>1, <1>2, <1>3, <1>4, SumToType

\* The head of an in-place stream is not longer than the stream.
LEMMA HeadLenType ==
    ASSUME cfg \in Configs, NEW h \in Nat, InPlace, cfg.in_place < cfg.org
    PROVE  /\ BootLen(h) \in Nat /\ HeadLen(h) \in Nat /\ HeadLen(h) <= cfg.payload.len
           /\ HeadLen(h) < cfg.payload.len =>
                  HeadLen(h) = BootLen(h) + cfg.org - cfg.in_place
<1>1. /\ cfg.org \in Nat /\ cfg.in_place \in Nat /\ cfg.payload.len \in Nat
      /\ cfg.boot \in Nat /\ cfg.core \in Nat
    BY ConfigType, AddressType DEF InPlace
<1>2. LoopSize(h + cfg.core) \in Nat
    BY <1>1, LoopSizeType
<1>3. BootLen(h) \in Nat
    BY <1>1, <1>2, SizesAssumption DEF BootLen
<1>4. BootLen(h) + cfg.org - cfg.in_place \in Nat
    BY <1>1, <1>3
<1> QED BY <1>1, <1>3, <1>4 DEF HeadLen

\* What a pass knows of the layout: the shape of the blobs.
Shape(blobs, label) ==
    LET front == IF InPlace THEN LoopSize(HeadLen(hm))
                 ELSE IF Folded THEN MovesSize(label) ELSE 0
        staged == [name |-> "staged_decruncher", at |-> cfg.stage_at, len |-> front + cfg.core]
        mover == [name |-> "relocated_mover", at |-> cfg.mover_at, len |-> MovesSize(label) + Jmp]
    IN  /\ Staged /\ ~Relocated => blobs = <<staged>>
        /\ ~Staged /\ Relocated => blobs = <<mover>>
        /\ Staged /\ Relocated => blobs = <<staged, mover>>
        /\ ~Staged /\ ~Relocated => blobs = <<>>

\* Joining sequences of at most one element.
LEMMA Joins ==
    ASSUME NEW a, NEW b
    PROVE  /\ <<a>> \o <<>> = <<a>> /\ <<>> \o <<b>> = <<b>>
           /\ <<a>> \o <<b>> = <<a, b>> /\ <<>> \o <<>> = <<>>
<1>1. <<a>> \in Seq({a, b}) /\ <<b>> \in Seq({a, b}) /\ <<>> \in Seq({a, b})
    OBVIOUS
<1>2. <<a>> \o <<>> = <<a>> /\ <<>> \o <<b>> = <<b>> /\ <<>> \o <<>> = <<>>
    BY <1>1, ConcatEmptySeq
<1>3. <<a>> \o <<b>> = <<a, b>>
    <2> DEFINE s == <<a>>
               t == <<b>>
               u == s \o t
               v == <<a, b>>
    <2>1. Len(s) = 1 /\ Len(t) = 1 /\ s[1] = a /\ t[1] = b
      OBVIOUS
    <2>2. v \in Seq({a, b}) /\ Len(v) = 2 /\ v[1] = a /\ v[2] = b
      OBVIOUS
    <2> HIDE DEF s, t
    <2>3. /\ u \in Seq({a, b}) /\ Len(u) = 2
          /\ \A i \in 1 .. 1 : u[i] = s[i] /\ u[1 + i] = t[i]
      BY <1>1, <2>1, ConcatProperties DEF s, t
    <2>4. u[1] = a /\ u[1 + 1] = b
      BY <2>1, <2>3
    <2>5. \A i \in 1 .. 2 : u[i] = v[i]
      <3> HIDE DEF u, v
      <3>1. \A i \in 1 .. 2 : i = 1 \/ i = 1 + 1
        OBVIOUS
      <3> QED BY <2>2, <2>4, <3>1
    <2> HIDE DEF u, v
    <2>6. u = v
      BY <2>2, <2>3, <2>5, SeqEqual
    <2> QED BY <2>6 DEF u, v, s, t
<1> QED BY <1>2, <1>3

\* Sequences of one or two elements.
LEMMA OneOrTwo ==
    ASSUME NEW S, NEW a, NEW b
    PROVE  /\ a \in S => <<a>> \in Seq(S) /\ Len(<<a>>) \in 0 .. 2
           /\ a \in S /\ b \in S => <<a, b>> \in Seq(S) /\ Len(<<a, b>>) \in 0 .. 2
OBVIOUS

\* The blobs, and the sums over them.
LEMMA BlobsType ==
    ASSUME cfg \in Configs, NEW label, hm \in Nat, InPlace => cfg.in_place < cfg.org
    PROVE  Blobs(label) \in Seq(Blob) /\ Len(Blobs(label)) \in 0 .. 2 /\ Shape(Blobs(label), label)
<1> DEFINE front == IF InPlace THEN LoopSize(HeadLen(hm))
                    ELSE IF Folded THEN MovesSize(label) ELSE 0
           staged == [name |-> "staged_decruncher", at |-> cfg.stage_at, len |-> front + cfg.core]
           mover == [name |-> "relocated_mover", at |-> cfg.mover_at, len |-> MovesSize(label) + Jmp]
<1>1. front \in Nat
    BY HeadLenType, LoopSizeType, MovesSizeType
<1>2. Staged => staged \in Blob
    <2>1. front + cfg.core \in Nat
      <3> HIDE DEF front
      <3> QED BY <1>1, ConfigType
    <2> QED BY <2>1, ConfigType DEF Staged, Blob
<1>3. Relocated => mover \in Blob
    <2>1. MovesSize(label) + Jmp \in Nat
      BY MovesSizeType, SizesAssumption
    <2> QED BY <2>1, ConfigType DEF Relocated, Blob
<1>4. Blobs(label) = (IF Staged THEN <<staged>> ELSE <<>>) \o (IF Relocated THEN <<mover>> ELSE <<>>)
    BY DEF Blobs
<1>5. /\ Staged /\ ~Relocated => Blobs(label) = <<staged>>
      /\ ~Staged /\ Relocated => Blobs(label) = <<mover>>
      /\ Staged /\ Relocated => Blobs(label) = <<staged, mover>>
      /\ ~Staged /\ ~Relocated => Blobs(label) = <<>>
    <2> HIDE DEF staged, mover
    <2>1. /\ <<staged>> \o <<>> = <<staged>> /\ <<>> \o <<mover>> = <<mover>>
          /\ <<staged>> \o <<mover>> = <<staged, mover>> /\ <<>> \o <<>> = <<>>
      BY Joins
    <2> QED BY <1>4, <2>1
<1>6. Shape(Blobs(label), label)
    BY <1>5 DEF Shape
<1>7. Blobs(label) \in Seq(Blob) /\ Len(Blobs(label)) \in 0 .. 2
    <2> HIDE DEF staged, mover
    <2>1. CASE Staged /\ Relocated
      BY <1>2, <1>3, <1>5, <2>1, OneOrTwo
    <2>2. CASE Staged /\ ~Relocated
      BY <1>2, <1>5, <2>2, OneOrTwo
    <2>3. CASE ~Staged /\ Relocated
      BY <1>3, <1>5, <2>3, OneOrTwo
    <2>4. CASE ~Staged /\ ~Relocated
      BY <1>5, <2>4, EmptySeq
    <2> QED BY <2>1, <2>2, <2>3, <2>4
<1> QED BY <1>6, <1>7

\* Facts of the layout of a pass.
LEMMA LayoutType ==
    ASSUME cfg \in Configs, NEW e \in Env, hm \in Nat, InPlace => cfg.in_place < cfg.org,
           NEW p, p = Layout(e)
    PROVE  /\ p \in Program /\ p.blobs = Blobs(Label(e))
           /\ p.head = IF InPlace THEN HeadLen(hm) ELSE 0
           /\ p.payload_data = (IF InPlace THEN p.code_end
                                ELSE IF Embedded
                                THEN p.code_end + Stored(p.blobs)
                                ELSE None)
           /\ p.blob_data = p.code_end + (IF InPlace /\ Embedded THEN cfg.payload.len ELSE 0)
           /\ p.end = p.code_end + Stored(p.blobs)
                      + (IF Embedded THEN cfg.payload.len ELSE 0)
           /\ p.after_moves = cfg.org + cfg.boot
                 + Installs(p.blobs)
                 + (IF Folded THEN 0 ELSE IF Relocated THEN Jmp ELSE MovesSize(Label(e)))
           /\ p.code_end = p.after_moves + (IF Staged THEN Jmp ELSE cfg.core)
           /\ Stored(p.blobs) \in Nat
           /\ Installs(p.blobs) \in Nat
           /\ cfg.org <= p.code_end /\ p.code_end <= p.end
<1> DEFINE label == Label(e)
           blobs == Blobs(label)
           installs == Installs(blobs)
           stored == Stored(blobs)
           tail == IF Folded THEN 0 ELSE IF Relocated THEN Jmp ELSE MovesSize(label)
           after == cfg.org + cfg.boot + installs + tail
           rest == IF Staged THEN Jmp ELSE cfg.core
           code_end == after + rest
           head == IF InPlace THEN HeadLen(hm) ELSE 0
           embedded == IF Embedded THEN cfg.payload.len ELSE 0
<1>1. blobs \in Seq(Blob) /\ Len(blobs) \in Nat /\ DOMAIN blobs = 1 .. Len(blobs)
    BY BlobsType, LenProperties
<1>2. stored \in Nat
    <2> DEFINE s == [b \in DOMAIN blobs |-> blobs[b].len]
    <2>0. ASSUME NEW b \in 1 .. Len(blobs) PROVE blobs[b].len \in Nat
      <3>1. blobs[b] \in Blob
        BY <1>1, ElementOfSeq
      <3> QED BY <3>1 DEF Blob
    <2>1. \A b \in 1 .. Len(blobs) : s[b] \in Nat
      BY <1>1, <2>0
    <2> HIDE DEF s, blobs
    <2>2. SumTo(s, Len(blobs)) \in Nat
      BY <1>1, <2>1, SumToType
    <2> QED BY <2>2 DEF s, Stored
<1>3. installs \in Nat
    <2> DEFINE s == [b \in DOMAIN blobs |-> LoopSize(blobs[b].len)]
    <2>0. ASSUME NEW b \in 1 .. Len(blobs) PROVE LoopSize(blobs[b].len) \in Nat
      <3>1. blobs[b] \in Blob
        BY <1>1, ElementOfSeq
      <3>2. blobs[b].len \in Nat
        BY <3>1 DEF Blob
      <3> QED BY <3>2, LoopSizeType
    <2>1. \A b \in 1 .. Len(blobs) : s[b] \in Nat
      BY <1>1, <2>0
    <2> HIDE DEF s, blobs
    <2>2. SumTo(s, Len(blobs)) \in Nat
      BY <1>1, <2>1, SumToType
    <2> QED BY <2>2 DEF s, Installs
<1>4. tail \in Nat /\ rest \in Nat /\ cfg.org \in Nat /\ cfg.boot \in Nat /\ embedded \in Nat
      /\ head \in Nat /\ cfg.payload.len \in Nat
    BY ConfigType, MovesSizeType, SizesAssumption, AddressType, HeadLenType
<1>5. p = [blobs |-> blobs,
           after_moves |-> after,
           code_end |-> code_end,
           payload_data |-> IF InPlace THEN code_end
                            ELSE IF Embedded THEN code_end + stored ELSE None,
           head |-> head,
           blob_data |-> IF InPlace THEN code_end + embedded ELSE code_end,
           end |-> code_end + stored + embedded]
    BY DEF Layout
<1> HIDE DEF blobs, installs, stored, tail, rest, head, embedded, label
<1>6. after \in Nat /\ code_end \in Nat /\ cfg.org <= code_end /\ code_end <= code_end + stored + embedded
      /\ code_end + stored \in Nat /\ code_end + embedded \in Nat /\ code_end + 0 = code_end
      /\ code_end + stored + embedded \in Nat
    BY <1>2, <1>3, <1>4
<1> HIDE DEF after, code_end
<1>7. /\ p \in Program /\ p.blobs = blobs /\ p.after_moves = after /\ p.code_end = code_end
      /\ p.head = head /\ p.end = code_end + stored + embedded
      /\ p.payload_data = (IF InPlace THEN code_end ELSE IF Embedded THEN code_end + stored ELSE None)
      /\ p.blob_data = (IF InPlace THEN code_end + embedded ELSE code_end)
    BY <1>1, <1>4, <1>5, <1>6 DEF Program
<1>8. p.blob_data = p.code_end + (IF InPlace /\ Embedded THEN cfg.payload.len ELSE 0)
    BY <1>6, <1>7 DEF embedded
<1> QED BY <1>2, <1>3, <1>6, <1>7, <1>8
        DEF blobs, installs, stored, tail, rest, head, embedded, label, after, code_end

-----------------------------------------------------------------------------
(* The inductive invariant. *)

Seen(layout) == [payload_data |-> layout.payload_data, after_moves |-> layout.after_moves]

TypeInv ==
    /\ cfg \in Configs /\ phase \in Phases
    /\ pass \in 0 .. Passes
    /\ hm \in {0, ShortLoop, LongLoop}
    /\ env \in Env /\ used \in Env /\ program \in Program

\* The split of an in-place stream whose front copies as much as h says.
Fixed(h) == h = LoopSize(HeadLen(h))

\* Where the passes stand.
PassInv ==
    /\ phase \in {"plan", "render", "split", "assemble"} => pass < Passes
    /\ phase \notin {"plan", "rejected"} => PlanAccepts
    /\ phase \in {"split", "assemble", "validate", "built", "drift"} /\ InPlace =>
           cfg.in_place < cfg.org
    /\ phase = "split" => InPlace
    /\ phase \in {"split", "assemble"} => used = env
    /\ phase \in {"assemble", "validate", "built"} /\ InPlace => \E h \in Nat : h = hm /\ Fixed(h)

\* What the last pass built: the layout of the addresses it used, with the ones
\* it found; an error of the layout has a move to thank for it.
ProgramInv ==
    /\ phase \in {"validate", "built"} =>
           /\ \E e \in Env : e = used /\ program = Layout(e)
           /\ env = Seen(program)
           /\ ~Drifted(program)
    /\ phase = "built" => Accepted
    /\ phase = "drift" => InPlace /\ cfg.moves # <<>>

LayoutInv == TypeInv /\ PassInv /\ ProgramInv

\* What render computes depends on the configuration and the split only.
LEMMA RenderKept ==
    ASSUME cfg' = cfg
    PROVE  /\ Moves' = Moves
           /\ InPlace' = InPlace /\ Staged' = Staged /\ Embedded' = Embedded
           /\ Folded' = Folded /\ Relocated' = Relocated /\ PlanAccepts' = PlanAccepts
           /\ \A l : MovesSize(l)' = MovesSize(l)
           /\ \A h : BootLen(h)' = BootLen(h) /\ HeadLen(h)' = HeadLen(h) /\ Fixed(h)' = Fixed(h)
<1>1. Moves' = Moves
    BY DEF Moves, ResolvedMove
<1>2. /\ InPlace' = InPlace /\ Staged' = Staged /\ Embedded' = Embedded
      /\ Folded' = Folded /\ Relocated' = Relocated
    BY DEF InPlace, Staged, Embedded, Folded, Relocated
<1>3. PlanAccepts' = PlanAccepts
    BY DEF PlanAccepts, InPlace, Staged, Embedded, PayloadMoves
<1>4. \A l : MovesSize(l)' = MovesSize(l)
    BY <1>1 DEF MovesSize, MoveSize, LoopSize, Descending, SourceOf
<1>5. \A h : BootLen(h)' = BootLen(h)
    BY DEF BootLen, LoopSize
<1>6. \A h : HeadLen(h)' = HeadLen(h)
    BY <1>5 DEF HeadLen
<1>7. \A h : Fixed(h)' = Fixed(h)
    BY <1>6 DEF Fixed, LoopSize
<1> QED BY <1>1, <1>2, <1>3, <1>4, <1>5, <1>6, <1>7

\* ... and so is the layout of a pass.
LEMMA LayoutKept ==
    ASSUME cfg' = cfg, hm' = hm
    PROVE  \A e : Layout(e)' = Layout(e)
<1>1. \A l : Blobs(l)' = Blobs(l)
    <2> USE RenderKept
    <2>1. HeadLen(hm)' = HeadLen(hm)
      BY DEF HeadLen, BootLen, LoopSize
    <2> QED BY <2>1 DEF Blobs, LoopSize
<1>2. HeadLen(hm)' = HeadLen(hm)
    BY DEF HeadLen, BootLen, LoopSize
<1>3. ASSUME NEW e PROVE Layout(e)' = Layout(e)
    <2>1. Blobs(Label(e))' = Blobs(Label(e)) /\ MovesSize(Label(e))' = MovesSize(Label(e))
      BY <1>1, RenderKept
    <2> QED BY <1>2, <2>1, RenderKept DEF Layout
<1> QED BY <1>3

\* The start.
LEMMA LayoutInvInit == Init => LayoutInv
<1> SUFFICES ASSUME Init PROVE LayoutInv
    OBVIOUS
<1> USE DEF Init
<1>1. NoEnv \in Env
    BY DEF NoEnv, Env, None
<1>2. NoProgram \in Program
    <2>1. <<>> \in Seq(Blob)
      BY EmptySeq
    <2> QED BY <2>1 DEF NoProgram, Program, None
<1>3. TypeInv
    BY <1>1, <1>2, PassesAssumption DEF TypeInv, Phases
<1>4. PassInv
    BY PassesAssumption DEF PassInv
<1>5. ProgramInv
    BY DEF ProgramInv
<1> QED BY <1>3, <1>4, <1>5 DEF LayoutInv

\* plan
LEMMA PlanStep == LayoutInv /\ Plan => LayoutInv'
<1> SUFFICES ASSUME LayoutInv, Plan PROVE LayoutInv'
    OBVIOUS
<1> USE DEF Plan
<1>1. cfg' = cfg
    OBVIOUS
<1>2. TypeInv'
    BY DEF LayoutInv, TypeInv, Phases
<1>3. PassInv'
    BY <1>1, RenderKept DEF LayoutInv, PassInv
<1>4. ProgramInv'
    BY DEF ProgramInv
<1> QED BY <1>2, <1>3, <1>4 DEF LayoutInv

\* render
LEMMA RenderStep == LayoutInv /\ Render => LayoutInv'
<1> SUFFICES ASSUME LayoutInv, Render PROVE LayoutInv'
    OBVIOUS
<1> USE DEF Render
<1>1. cfg' = cfg
    OBVIOUS
<1>2. TypeInv'
    BY DEF LayoutInv, TypeInv, Phases
<1>3. PassInv'
    <2>1. phase' \in {"rejected", "split", "assemble"} /\ InPlace' = InPlace
          /\ PlanAccepts' = PlanAccepts /\ PlanAccepts /\ pass' = pass /\ pass < Passes
      BY <1>1, RenderKept DEF LayoutInv, PassInv
    <2>2. used' = env' /\ (phase' = "split" => InPlace)
      OBVIOUS
    <2>3. (phase' = "assemble" => ~InPlace) /\ (phase' = "split" => cfg'.in_place < cfg'.org)
      <3>1. InPlace => cfg.in_place \in Nat /\ cfg.org \in Nat
        BY ConfigType, AddressType DEF LayoutInv, TypeInv, InPlace
      <3> QED BY <3>1
    <2> QED BY <2>1, <2>2, <2>3 DEF PassInv
<1>4. ProgramInv'
    BY DEF ProgramInv
<1> QED BY <1>2, <1>3, <1>4 DEF LayoutInv

\* The loop sizes are numbers.
LEMMA LoopNat == ASSUME TypeInv PROVE hm \in Nat
BY SizesAssumption DEF TypeInv

\* The search of the in-place split
LEMMA SplitStep == LayoutInv /\ Split => LayoutInv'
<1> SUFFICES ASSUME LayoutInv, Split PROVE LayoutInv'
    OBVIOUS
<1> USE DEF Split
<1>0. InPlace
    BY DEF LayoutInv, PassInv
<1>1. cfg' = cfg
    OBVIOUS
<1>2. PICK h \in Nat : h = hm
    BY LoopNat DEF LayoutInv
<1>3. HeadLen(h) \in Nat
    BY <1>0, <1>2, HeadLenType DEF LayoutInv, PassInv, TypeInv
<1>4. hm' = LoopSize(HeadLen(h))
    BY <1>2
<1>5. TypeInv'
    BY <1>3, <1>4, LoopSizeType DEF LayoutInv, TypeInv, Phases
<1>6. phase' = "assemble" => h = hm' /\ Fixed(h)
    BY <1>2, <1>4 DEF Fixed
<1>7. PassInv'
    BY <1>0, <1>1, <1>2, <1>6, RenderKept DEF LayoutInv, PassInv
<1>8. ProgramInv'
    BY DEF ProgramInv
<1> QED BY <1>5, <1>7, <1>8 DEF LayoutInv

\* The sums over at most two blobs.
LEMMA SumsOfBlobs ==
    ASSUME NEW blobs \in Seq(Blob), Len(blobs) \in 0 .. 2
    PROVE  /\ Len(blobs) = 0 => Stored(blobs) = 0 /\ Installs(blobs) = 0
           /\ Len(blobs) = 1 => /\ Stored(blobs) = blobs[1].len
                                /\ Installs(blobs) = LoopSize(blobs[1].len)
           /\ Len(blobs) = 2 => /\ Stored(blobs) = blobs[1].len + blobs[2].len
                                /\ Installs(blobs) = LoopSize(blobs[1].len) + LoopSize(blobs[2].len)
<1> DEFINE n == Len(blobs)
           s == [b \in DOMAIN blobs |-> blobs[b].len]
           t == [b \in DOMAIN blobs |-> LoopSize(blobs[b].len)]
<1>1. DOMAIN blobs = 1 .. n
    BY LenProperties
<1>2. ASSUME NEW b \in 1 .. n PROVE blobs[b].len \in Nat
    <2>1. blobs[b] \in Blob
      BY ElementOfSeq
    <2> QED BY <2>1 DEF Blob
<1>3. \A b \in 1 .. n : s[b] = blobs[b].len /\ s[b] \in Nat
    BY <1>1, <1>2
<1>4. \A b \in 1 .. n : t[b] = LoopSize(blobs[b].len) /\ t[b] \in Nat
    BY <1>1, <1>2, LoopSizeType
<1>5. Stored(blobs) = SumTo(s, n) /\ Installs(blobs) = SumTo(t, n) /\ n \in Nat
    BY DEF Stored, Installs
<1> HIDE DEF s, t, n
<1>6. /\ n = 0 => SumTo(s, n) = 0
      /\ n = 1 => SumTo(s, n) = s[1]
      /\ n = 2 => SumTo(s, n) = s[1] + s[2]
    BY <1>3, <1>5, SumToType
<1>7. /\ n = 0 => SumTo(t, n) = 0
      /\ n = 1 => SumTo(t, n) = t[1]
      /\ n = 2 => SumTo(t, n) = t[1] + t[2]
    BY <1>4, <1>5, SumToType
<1>8. (n = 1 => 1 \in 1 .. n) /\ (n = 2 => 1 \in 1 .. n /\ 2 \in 1 .. n)
    OBVIOUS
<1> QED BY <1>3, <1>4, <1>5, <1>6, <1>7, <1>8 DEF n

\* An in-place layout without other moves has the boot code its split assumed.
LEMMA InPlaceBoot ==
    ASSUME cfg \in Configs, InPlace, PlanAccepts, cfg.in_place < cfg.org, cfg.moves = <<>>,
           NEW h \in Nat, h = hm, Fixed(h), NEW e \in Env
    PROVE  Layout(e).payload_data = cfg.org + BootLen(h)
<1> DEFINE p == Layout(e)
           label == Label(e)
           front == LoopSize(HeadLen(h))
           staged == [name |-> "staged_decruncher", at |-> cfg.stage_at, len |-> front + cfg.core]
<1>1. Staged /\ Embedded /\ ~Folded /\ ~Relocated /\ MovesSize(label) = 0
    BY MovesSizeType DEF PlanAccepts, Folded, Relocated
<1>2. Blobs(label) = <<staged>> /\ Blobs(label) \in Seq(Blob)
    BY <1>1, BlobsType DEF Shape
<1>3. staged.len = h + cfg.core
    BY DEF Fixed
<1>4. Installs(Blobs(label)) = LoopSize(h + cfg.core)
    <2> HIDE DEF staged
    <2>1. Len(<<staged>>) = 1 /\ <<staged>>[1] = staged
      OBVIOUS
    <2>2. Len(Blobs(label)) = 1 /\ Blobs(label)[1] = staged
      BY <1>2, <2>1
    <2>3. Len(Blobs(label)) \in 0 .. 2
      BY <2>2
    <2>4. Installs(Blobs(label)) = LoopSize(Blobs(label)[1].len)
      BY <1>2, <2>2, <2>3, SumsOfBlobs
    <2> QED BY <1>3, <2>2, <2>4
<1>5. /\ p.payload_data = p.code_end /\ p.blobs = Blobs(label)
      /\ p.code_end = p.after_moves + Jmp
      /\ p.after_moves = cfg.org + cfg.boot + Installs(p.blobs) + 0
    BY <1>1, LayoutType
<1>6. cfg.org \in Nat /\ cfg.boot \in Nat /\ LoopSize(h + cfg.core) \in Nat /\ Jmp \in Nat
    <2>1. h + cfg.core \in Nat
      BY ConfigType
    <2>2. LoopSize(h + cfg.core) \in Nat
      BY <2>1, LoopSizeType
    <2> QED BY <2>2, ConfigType, AddressType, SizesAssumption
<1> HIDE DEF p
<1>7. p.payload_data = cfg.org + (cfg.boot + LoopSize(h + cfg.core) + Jmp)
    <2>1. p.after_moves = cfg.org + cfg.boot + LoopSize(h + cfg.core) + 0
      BY <1>4, <1>5
    <2>2. p.payload_data = p.after_moves + Jmp
      BY <1>5
    <2>3. cfg.org + cfg.boot + LoopSize(h + cfg.core) + 0 + Jmp
          = cfg.org + (cfg.boot + LoopSize(h + cfg.core) + Jmp)
      BY <1>6
    <2> QED BY <2>1, <2>2, <2>3
<1> QED BY <1>7 DEF BootLen, p

\* build: one pass
LEMMA AssembleStep == LayoutInv /\ Assemble => LayoutInv'
<1> SUFFICES ASSUME LayoutInv, Assemble PROVE LayoutInv'
    OBVIOUS
<1> USE DEF Assemble
<1>1. cfg' = cfg /\ hm' = hm /\ used' = used /\ phase = "assemble"
    OBVIOUS
<1>2. PICK h \in Nat : h = hm
    BY LoopNat DEF LayoutInv
<1>3. PICK e \in Env : e = env
    BY DEF LayoutInv, TypeInv
<1>4. cfg \in Configs /\ (InPlace => cfg.in_place < cfg.org) /\ PlanAccepts /\ used = e
      /\ pass \in Nat /\ pass < Passes
    BY <1>1, <1>3 DEF LayoutInv, PassInv, TypeInv
<1>5. program' = Layout(e) /\ program' \in Program
    BY <1>2, <1>3, <1>4, LayoutType
<1>6. pass' = pass + 1 /\ pass' \in 0 .. Passes
    BY <1>4, PassesAssumption
<1>7. CASE Drifted(program')
    <2>1. phase' = "drift" /\ env' = env
      BY <1>7
    <2>2. InPlace /\ Layout(e).payload_data # cfg.org + BootLen(h)
      BY <1>2, <1>5, <1>7 DEF Drifted
    <2>3. cfg.moves # <<>>
      <3>1. Fixed(h)
        BY <1>1, <1>2, <2>2 DEF LayoutInv, PassInv
      <3> QED BY <1>2, <1>4, <2>2, <3>1, InPlaceBoot
    <2>4. TypeInv'
      BY <1>1, <1>5, <1>6, <2>1 DEF LayoutInv, TypeInv, Phases
    <2>5. InPlace' = InPlace /\ PlanAccepts' = PlanAccepts
      BY <1>1, RenderKept
    <2>6. PassInv'
      BY <1>1, <1>4, <2>1, <2>5 DEF PassInv
    <2>7. ProgramInv'
      BY <1>1, <2>1, <2>2, <2>3, <2>5 DEF ProgramInv
    <2> QED BY <2>4, <2>6, <2>7 DEF LayoutInv
<1>8. CASE ~Drifted(program')
    <2>1. env' = Seen(program') /\ phase' \in {"validate", "render"}
          /\ (phase' # "validate" => pass' # Passes)
      BY <1>8 DEF Seen
    <2>2. env' \in Env
      BY <1>5, <2>1 DEF Env, Program, Seen
    <2>3. TypeInv'
      BY <1>1, <1>5, <1>6, <2>1, <2>2 DEF LayoutInv, TypeInv, Phases
    <2>4. InPlace' = InPlace /\ PlanAccepts' = PlanAccepts /\ Fixed(h)' = Fixed(h)
      BY <1>1, RenderKept
    <2>5. PassInv'
      <3>1. InPlace => Fixed(h)
        BY <1>1, <1>2 DEF LayoutInv, PassInv
      <3>2. phase' # "validate" => pass' < Passes
        <4> Passes \in Nat
          BY PassesAssumption
        <4> QED BY <1>6, <2>1
      <3> QED BY <1>1, <1>2, <1>4, <2>1, <2>4, <3>1, <3>2 DEF PassInv
    <2>6. ProgramInv'
      <3>1. Layout(e)' = Layout(e)
        BY <1>1, LayoutKept
      <3>2. ~Drifted(program)'
        <4>1. InPlace => program'.payload_data = cfg.org + BootLen(h)
          BY <1>2, <1>8 DEF Drifted
        <4>2. BootLen(h)' = BootLen(h)
          BY <1>1, RenderKept
        <4> QED BY <1>1, <1>2, <2>4, <4>1, <4>2 DEF Drifted
      <3> QED BY <1>1, <1>4, <1>5, <2>1, <3>1, <3>2 DEF ProgramInv, Seen
    <2> QED BY <2>3, <2>5, <2>6 DEF LayoutInv
<1> QED BY <1>7, <1>8

\* A program that does not change stays what its pass made of it.
LEMMA ProgramKept ==
    ASSUME cfg' = cfg, hm' = hm, used' = used, env' = env, program' = program
    PROVE  /\ Drifted(program)' = Drifted(program) /\ Accepted' = Accepted
           /\ \A e : (program = Layout(e))' <=> program = Layout(e)
           /\ (env = Seen(program))' <=> env = Seen(program)
<1>1. Drifted(program)' = Drifted(program)
    BY DEF Drifted, InPlace, BootLen
<1>2. Moves' = Moves /\ Staged' = Staged
    BY RenderKept
<1>3. /\ OutputAccepted' = OutputAccepted
      BY <1>2 DEF OutputAccepted, SeenOutput, Output, Image
<1>4. ScratchAccepted' = ScratchAccepted
      BY <1>2 DEF ScratchAccepted, HasScratch, Scratch, Output, Image
<1>5. \A mv : MoveAccepted(mv)' = MoveAccepted(mv)
      BY <1>2 DEF MoveAccepted, Image
<1>6. \A b : BlobAccepted(b)' = BlobAccepted(b)
      BY DEF BlobAccepted, Image
<1>7. Accepted' = Accepted
      BY <1>2, <1>3, <1>4, <1>5, <1>6 DEF Accepted
<1> QED BY <1>1, <1>7, LayoutKept

\* validate_plan
LEMMA ValidateStep == LayoutInv /\ Validate => LayoutInv'
<1> SUFFICES ASSUME LayoutInv, Validate PROVE LayoutInv'
    OBVIOUS
<1> USE DEF Validate
<1>1. cfg' = cfg /\ hm' = hm /\ used' = used /\ env' = env /\ program' = program /\ pass' = pass
      /\ phase = "validate" /\ phase' \in {"built", "rejected"} /\ (phase' = "built" => Accepted)
    OBVIOUS
<1>2. TypeInv'
    BY <1>1 DEF LayoutInv, TypeInv, Phases
<1>3. PassInv'
    BY <1>1, RenderKept DEF LayoutInv, PassInv
<1>4. ProgramInv'
    BY <1>1, ProgramKept DEF LayoutInv, ProgramInv
<1> QED BY <1>2, <1>3, <1>4 DEF LayoutInv

\* Nothing happens.
LEMMA LayoutStutter == LayoutInv /\ UNCHANGED vars => LayoutInv'
<1> SUFFICES ASSUME LayoutInv, UNCHANGED vars PROVE LayoutInv'
    OBVIOUS
<1>1. cfg' = cfg /\ hm' = hm /\ used' = used /\ env' = env /\ program' = program /\ pass' = pass
      /\ phase' = phase
    BY DEF vars
<1>2. TypeInv'
    BY <1>1 DEF LayoutInv, TypeInv
<1>3. PassInv'
    BY <1>1, RenderKept DEF LayoutInv, PassInv
<1>4. ProgramInv'
    BY <1>1, ProgramKept, RenderKept DEF LayoutInv, ProgramInv
<1> QED BY <1>2, <1>3, <1>4 DEF LayoutInv

\* A step of build keeps the invariant.
LEMMA LayoutStep == LayoutInv /\ Next => LayoutInv'
<1> SUFFICES ASSUME LayoutInv, Next PROVE LayoutInv'
    OBVIOUS
<1> QED BY SplitStep, PlanStep, RenderStep, AssembleStep, ValidateStep DEF Next, Build

-----------------------------------------------------------------------------
(* The theorems. *)

\* The invariant holds in every state of build.
THEOREM LayoutInvHolds == Spec => []LayoutInv
<1>1. LayoutInv /\ [Next]_vars => LayoutInv'
    BY LayoutStep, LayoutStutter
<1> QED BY <1>1, LayoutInvInit, PTL DEF Spec

\* The values have their types.
THEOREM LayoutTypeCorrect == Spec => []TypeOK
<1>1. LayoutInv => TypeOK
    <2> SUFFICES ASSUME LayoutInv PROVE TypeOK
      OBVIOUS
    <2>1. cfg.core \in Nat /\ phase \in Phases /\ pass \in 0 .. Passes
          /\ hm \in {0, ShortLoop, LongLoop}
      BY ConfigType DEF LayoutInv, TypeInv
    <2>2. {env.payload_data, env.after_moves, used.payload_data, used.after_moves}
              \subseteq Nat \cup {None}
      BY DEF LayoutInv, TypeInv, Env
    <2>3. {program.after_moves, program.code_end, program.head, program.end} \subseteq Nat
      BY DEF LayoutInv, TypeInv, Program
    <2> QED BY <2>1, <2>2, <2>3 DEF TypeOK
<1> QED BY <1>1, LayoutInvHolds, PTL

\* The bulk of an in-place stream is loaded where the decoder will read it, and
\* without other moves its layout is never refused for having drifted.
THEOREM BulkLoadsInPlace == Spec => []BulkInPlace
<1>1. LayoutInv => BulkInPlace
    <2> SUFFICES ASSUME LayoutInv PROVE BulkInPlace
      OBVIOUS
    <2>1. InPlace /\ cfg.moves = <<>> => phase # "drift"
      BY DEF LayoutInv, ProgramInv
    <2>2. ASSUME InPlace, phase = "built", program.head < cfg.payload.len
          PROVE  program.payload_data = cfg.in_place + program.head
      <3>1. PICK h \in Nat : h = hm /\ Fixed(h)
        BY <2>2 DEF LayoutInv, PassInv
      <3>2. cfg \in Configs /\ cfg.in_place < cfg.org
        BY <2>2 DEF LayoutInv, PassInv, TypeInv
      <3>3. PICK e \in Env : program = Layout(e)
        BY <2>2 DEF LayoutInv, ProgramInv
      <3>4. program.head = HeadLen(h)
        BY <2>2, <3>1, <3>2, <3>3, LayoutType
      <3>5. HeadLen(h) = BootLen(h) + cfg.org - cfg.in_place /\ BootLen(h) \in Nat
        BY <2>2, <3>2, <3>4, HeadLenType
      <3>6. program.payload_data = cfg.org + BootLen(h)
        BY <2>2, <3>1 DEF LayoutInv, ProgramInv, Drifted
      <3>7. cfg.org \in Nat /\ cfg.in_place \in Nat
        BY <2>2, <3>2, ConfigType, AddressType DEF InPlace
      <3> QED BY <3>4, <3>5, <3>6, <3>7
    <2> QED BY <2>1, <2>2 DEF BulkInPlace
<1> QED BY <1>1, LayoutInvHolds, PTL

-----------------------------------------------------------------------------
(* A build settles when its moves do not depend on where the payload ends   *)
(* up: the second pass repeats the first.                                   *)

KnownSources == ~InPlace /\ \A i \in DOMAIN Moves : Moves[i].src # None

SettledInv ==
    /\ phase = "plan" => pass = 0
    /\ KnownSources =>
        /\ pass >= 1 /\ phase \in {"render", "assemble"} =>
               \E e \in Env : env = Seen(Layout(e))
        /\ phase \in {"validate", "built"} => Settled

\* The same program for every address of the payload.
LEMMA OneLayout ==
    ASSUME KnownSources, NEW d, NEW e
    PROVE  Layout(d) = Layout(e)
<1>1. MovesSize(Label(d)) = MovesSize(Label(e))
    <2> DEFINE sizes(l) == [i \in DOMAIN Moves |-> MoveSize(SourceOf(Moves[i], l), Moves[i])]
    <2>1. \A i \in DOMAIN Moves : SourceOf(Moves[i], Label(d)) = SourceOf(Moves[i], Label(e))
      BY DEF KnownSources, SourceOf
    <2>2. sizes(Label(d)) = sizes(Label(e))
      BY <2>1
    <2> QED BY <2>2 DEF MovesSize
<1>2. Blobs(Label(d)) = Blobs(Label(e))
    BY <1>1 DEF Blobs
<1> QED BY <1>1, <1>2 DEF Layout

\* ... and whatever the split, which is for in-place layouts.
LEMMA KnownKept ==
    ASSUME cfg' = cfg
    PROVE  KnownSources' = KnownSources /\ (KnownSources => \A e : Layout(e)' = Layout(e))
<1>1. KnownSources' = KnownSources
    BY RenderKept DEF KnownSources
<1>2. ASSUME KnownSources, NEW e PROVE Layout(e)' = Layout(e)
    <2>1. ~InPlace
      BY <1>2 DEF KnownSources
    <2>2. Blobs(Label(e))' = Blobs(Label(e)) /\ MovesSize(Label(e))' = MovesSize(Label(e))
      BY <2>1, RenderKept DEF Blobs
    <2> QED BY <2>1, <2>2, RenderKept DEF Layout
<1> QED BY <1>1, <1>2

\* Every pass after the first renders from the label the one before it saw.
LEMMA SettledStep ==
    ASSUME LayoutInv, SettledInv, [Next]_vars, Passes >= 2
    PROVE  SettledInv'
<1>1. cfg' = cfg
    BY DEF Next, Build, Plan, Render, Split, Assemble, Validate, vars
<1>0. phase' = "plan" => pass' = 0
    BY DEF Next, Build, Plan, Render, Split, Assemble, Validate, vars, SettledInv
<1> SUFFICES ASSUME KnownSources PROVE
        /\ pass' >= 1 /\ phase' \in {"render", "assemble"} =>
               (\E e \in Env : env = Seen(Layout(e)))'
        /\ phase' \in {"validate", "built"} => Settled'
    BY <1>0, <1>1, KnownKept DEF SettledInv
<1>2. ~InPlace
    BY DEF KnownSources
<1>3. \A e : Layout(e)' = Layout(e)
    BY <1>1, KnownKept
<1>4. ASSUME NEW e \in Env, env' = Seen(Layout(e))
      PROVE  (\E x \in Env : env = Seen(Layout(x)))'
    BY <1>3, <1>4 DEF Seen
<1>5. CASE Plan \/ Render \/ UNCHANGED vars
    <2>1. /\ env' = env /\ pass' = pass
          /\ pass' >= 1 /\ phase' \in {"render", "assemble"} => phase \in {"render", "assemble"}
      <3>1. phase = "plan" => pass = 0
        BY DEF SettledInv
      <3> QED BY <1>2, <1>5, <3>1 DEF Plan, Render, vars
    <2>2. phase' \in {"validate", "built"} => phase' = phase /\ used' = used
      BY <1>2, <1>5 DEF Plan, Render, vars
    <2> QED BY <1>4, <2>1, <2>2 DEF SettledInv, Settled
<1>6. CASE Split
    BY <1>2, <1>6 DEF Split, LayoutInv, PassInv
<1>7. CASE Validate
    BY <1>7 DEF Validate, SettledInv, Settled
<1>8. CASE Assemble
    <2>1. PICK d \in Env : d = env
      BY DEF LayoutInv, TypeInv
    <2>2. /\ program' = Layout(d) /\ pass' = pass + 1 /\ used' = used /\ used = d
          /\ pass \in Nat /\ hm' = hm /\ phase = "assemble"
      BY <1>8, <2>1 DEF Assemble, LayoutInv, TypeInv, PassInv
    <2>3. ~Drifted(program')
      BY <1>2 DEF Drifted
    <2>4. /\ env' = Seen(Layout(d))
          /\ phase' = IF env' = d \/ pass' = Passes THEN "validate" ELSE "render"
      BY <1>8, <2>1, <2>2, <2>3 DEF Assemble, Seen
    <2>5. pass >= 1 => env' = d
      <3> HAVE pass >= 1
      <3>1. PICK e \in Env : d = Seen(Layout(e))
        BY <2>1, <2>2 DEF SettledInv
      <3> QED BY <2>4, <3>1, OneLayout
    <2>6. phase' = "validate" => env' = d
      <3>1. pass' = Passes => pass >= 1
        BY <2>2, PassesAssumption
      <3> QED BY <2>4, <2>5, <3>1
    <2> QED BY <1>4, <2>2, <2>4, <2>6 DEF Settled
<1> QED BY <1>5, <1>6, <1>7, <1>8 DEF Next, Build

\* A program without a move of the embedded payload is built from its own
\* addresses, if two passes are made (build makes up to four).
THEOREM KnownSettles ==
    ASSUME Passes >= 2
    PROVE  Spec => [](phase = "built" /\ KnownSources => Settled)
<1>1. Init => SettledInv
    BY DEF Init, SettledInv
<1>2. LayoutInv /\ SettledInv /\ [Next]_vars => SettledInv'
    BY SettledStep
<1>3. SettledInv => (phase = "built" /\ KnownSources => Settled)
    BY DEF SettledInv
<1> QED BY <1>1, <1>2, <1>3, LayoutInvHolds, PTL DEF Spec

-----------------------------------------------------------------------------
(* Where the passes alternate: a program with one move of the payload that  *)
(* is not settled has it end a loop's length behind the payload.            *)

\* Two sequences of sizes that differ in one place have sums that differ as they do.
LEMMA SumDiffers ==
    ASSUME NEW s, NEW t, NEW n \in Nat, NEW i \in 1 .. n,
           \A k \in 1 .. n : s[k] \in Nat /\ t[k] \in Nat,
           \A k \in 1 .. n : k # i => s[k] = t[k]
    PROVE  SumTo(s, n) + t[i] = SumTo(t, n) + s[i]
<1> DEFINE f == CHOOSE h : IsSum(h, s, n)
           g == CHOOSE h : IsSum(h, t, n)
<1>1. IsSum(f, s, n) /\ IsSum(g, t, n)
    BY SumExists
<1>2. SumTo(s, n) = f[n] /\ SumTo(t, n) = g[n]
    BY DEF SumTo, IsSum
<1> HIDE DEF f, g
<1>3. /\ \A k \in 0 .. n : f[k] = IF k = 0 THEN 0 ELSE f[k - 1] + s[k]
      /\ \A k \in 0 .. n : g[k] = IF k = 0 THEN 0 ELSE g[k - 1] + t[k]
    BY <1>1 DEF IsSum
<1>4. /\ f[0] = 0 /\ g[0] = 0
      /\ \A k \in 1 .. n : f[k] = f[k - 1] + s[k] /\ g[k] = g[k - 1] + t[k]
    BY <1>3
<1> DEFINE Alike(k) == /\ f[k] \in Nat /\ g[k] \in Nat
                       /\ k < i => f[k] = g[k]
                       /\ i <= k => f[k] + t[i] = g[k] + s[i]
           Bad == {k \in Nat : k \in 0 .. n /\ ~ Alike(k)}
<1>5. ASSUME Bad # {} PROVE FALSE
    <2>1. PICK k \in Bad : \A y \in Bad : k <= y
      BY <1>5, LeastNatural
    <2>2. CASE k = 0
      BY <1>4, <2>1, <2>2
    <2>3. CASE k # 0
      <3>1. k \in Nat /\ k \in 1 .. n /\ k - 1 \in Nat /\ k - 1 \in 0 .. n /\ ~ (k <= k - 1)
        BY <2>1, <2>3
      <3>2. Alike(k - 1)
        BY <2>1, <3>1
      <3>3. f[k] = f[k - 1] + s[k] /\ g[k] = g[k - 1] + t[k] /\ s[k] \in Nat /\ t[k] \in Nat
            /\ s[i] \in Nat /\ t[i] \in Nat /\ (k # i => s[k] = t[k])
        BY <1>4, <3>1
      <3>4. Alike(k)
        <4>1. CASE k < i
          BY <3>1, <3>2, <3>3, <4>1
        <4>2. CASE k = i
          BY <3>1, <3>2, <3>3, <4>2
        <4>3. CASE i < k
          BY <3>1, <3>2, <3>3, <4>3
        <4> QED BY <3>1, <4>1, <4>2, <4>3
      <3> QED BY <2>1, <3>4
    <2> QED BY <2>2, <2>3
<1>6. n \in 0 .. n /\ i <= n
    OBVIOUS
<1>7. Alike(n)
    BY <1>5, <1>6
<1> QED BY <1>2, <1>6, <1>7

\* The program has at most one move of the payload.
OneMove == \A i, j \in PayloadMoves : i = j

\* A move with an unknown source is the one move of the embedded payload.
LEMMA UnknownSource ==
    ASSUME cfg \in Configs, NEW i \in DOMAIN Moves, Moves[i].src = None
    PROVE  Embedded /\ i \in PayloadMoves
<1>1. /\ i \in DOMAIN cfg.moves /\ Moves[i] = ResolvedMove(cfg.moves[i])
      /\ DOMAIN cfg.moves = 1 .. Len(cfg.moves)
    BY MovesType
<1>2. cfg.moves[i] \in [src : Address \cup {PayloadSrc}, dst : Address, len : Nat,
                        top_align : BOOLEAN]
    BY <1>1, ConfigType, ElementOfSeq
<1>3. cfg.moves[i].src \in Address \cup {PayloadSrc}
    BY <1>2
<1>4. cfg.moves[i].src # None
    BY <1>3, AddressType DEF None, PayloadSrc
<1>5. cfg.moves[i].src = PayloadSrc /\ cfg.payload.at = None
    BY <1>1, <1>4 DEF ResolvedMove
<1> QED BY <1>1, <1>5 DEF Embedded, PayloadMoves

\* How the size of the moves depends on where the payload is.
LEMMA OneMoveSize ==
    ASSUME cfg \in Configs, OneMove, NEW i \in DOMAIN Moves, Moves[i].src = None
    PROVE  \A k, l : /\ MovesSize(k) + MoveSize(l, Moves[i]) = MovesSize(l) + MoveSize(k, Moves[i])
                     /\ MoveSize(k, Moves[i]) <= MovesSize(k)
<1> TAKE k, l
<1> DEFINE s == [j \in DOMAIN Moves |-> MoveSize(SourceOf(Moves[j], k), Moves[j])]
           t == [j \in DOMAIN Moves |-> MoveSize(SourceOf(Moves[j], l), Moves[j])]
           n == Len(cfg.moves)
<1>1. DOMAIN Moves = 1 .. n /\ n \in Nat
    BY MovesType
<1>2. ASSUME NEW j \in 1 .. n PROVE s[j] \in Nat /\ t[j] \in Nat
    <2>1. Moves[j].len \in Nat
      BY <1>1, MovesType DEF Placed
    <2> QED BY <1>1, <2>1, MoveSizeType
<1>3. ASSUME NEW j \in 1 .. n, j # i PROVE s[j] = t[j]
    <2>1. Moves[j].src # None
      BY <1>1, <1>3, UnknownSource DEF OneMove
    <2> QED BY <1>1, <2>1 DEF SourceOf
<1>4. s[i] = MoveSize(k, Moves[i]) /\ t[i] = MoveSize(l, Moves[i])
    BY DEF SourceOf
<1>5. MovesSize(k) = SumTo(s, n) /\ MovesSize(l) = SumTo(t, n)
    BY DEF MovesSize
<1> HIDE DEF s, t, n
<1>6. SumTo(s, n) + t[i] = SumTo(t, n) + s[i]
    BY <1>1, <1>2, <1>3, SumDiffers
<1>7. s[i] <= SumTo(s, n)
    <2> DEFINE u == [j \in 1 .. n |-> IF j = i THEN 0 ELSE s[j]]
    <2>1. \A j \in 1 .. n : u[j] \in Nat /\ (j # i => s[j] = u[j])
      BY <1>2
    <2>2. u[i] = 0
      BY <1>1
    <2> HIDE DEF u
    <2>3. SumTo(s, n) + u[i] = SumTo(u, n) + s[i]
      BY <1>1, <1>2, <2>1, SumDiffers
    <2>4. SumTo(s, n) \in Nat /\ SumTo(u, n) \in Nat /\ s[i] \in Nat
      BY <1>1, <1>2, <2>1, SumToType
    <2> QED BY <2>2, <2>3, <2>4
<1> QED BY <1>4, <1>5, <1>6, <1>7

\* Where the embedded payload is when the moves have size m.
Rest == cfg.org + cfg.boot + cfg.core + (IF Staged THEN Jmp ELSE 0)
        + (IF Relocated THEN Jmp + Jmp ELSE 0)
        + (IF Staged /\ ~Folded THEN LoopSize(cfg.core) ELSE 0)
InstallOf(m) == IF Folded THEN LoopSize(m + cfg.core)
              ELSE IF Relocated THEN LoopSize(m + Jmp) ELSE 0
PayloadAt(m) == Rest + InstallOf(m) + m

LEMMA PayloadIs ==
    ASSUME cfg \in Configs, hm \in Nat, ~InPlace, Embedded, NEW e \in Env
    PROVE  /\ Layout(e).payload_data = PayloadAt(MovesSize(Label(e)))
           /\ Layout(e).end = Layout(e).payload_data + cfg.payload.len
           /\ cfg.org <= Layout(e).payload_data /\ Layout(e).payload_data \in Nat
<1> DEFINE p == Layout(e)
           m == MovesSize(Label(e))
           front == IF Folded THEN m ELSE 0
           staged == [name |-> "staged_decruncher", at |-> cfg.stage_at, len |-> front + cfg.core]
           mover == [name |-> "relocated_mover", at |-> cfg.mover_at, len |-> m + Jmp]
<1>1. m \in Nat /\ cfg.core \in Nat /\ Jmp \in Nat /\ cfg.org \in Nat /\ cfg.boot \in Nat
      /\ cfg.payload.len \in Nat
    BY MovesSizeType, ConfigType, AddressType, SizesAssumption
<1>2. /\ p.payload_data = p.code_end + Stored(p.blobs)
      /\ p.end = p.code_end + Stored(p.blobs) + cfg.payload.len
      /\ p.after_moves = cfg.org + cfg.boot + Installs(p.blobs)
             + (IF Folded THEN 0 ELSE IF Relocated THEN Jmp ELSE m)
      /\ p.code_end = p.after_moves + (IF Staged THEN Jmp ELSE cfg.core)
      /\ Stored(p.blobs) \in Nat /\ Installs(p.blobs) \in Nat
      /\ cfg.org <= p.code_end /\ p.blobs = Blobs(Label(e))
    BY LayoutType
<1>3. p.blobs \in Seq(Blob) /\ Len(p.blobs) \in 0 .. 2 /\ Shape(p.blobs, Label(e))
    BY <1>2, BlobsType
<1>4. /\ Staged /\ ~Relocated => p.blobs = <<staged>>
      /\ ~Staged /\ Relocated => p.blobs = <<mover>>
      /\ Staged /\ Relocated => p.blobs = <<staged, mover>>
      /\ ~Staged /\ ~Relocated => p.blobs = <<>>
    BY <1>3 DEF Shape
<1>5. staged.len = front + cfg.core /\ mover.len = m + Jmp
    OBVIOUS
<1> HIDE DEF p, m, staged, mover
<1>6. /\ Staged /\ ~Relocated => /\ Stored(p.blobs) = front + cfg.core
                                 /\ Installs(p.blobs) = LoopSize(front + cfg.core)
      /\ ~Staged /\ Relocated => /\ Stored(p.blobs) = m + Jmp
                                 /\ Installs(p.blobs) = LoopSize(m + Jmp)
      /\ Staged /\ Relocated => /\ Stored(p.blobs) = front + cfg.core + (m + Jmp)
                                /\ Installs(p.blobs) = LoopSize(front + cfg.core) + LoopSize(m + Jmp)
      /\ ~Staged /\ ~Relocated => Stored(p.blobs) = 0 /\ Installs(p.blobs) = 0
    <2>1. /\ Len(<<staged>>) = 1 /\ <<staged>>[1] = staged
          /\ Len(<<mover>>) = 1 /\ <<mover>>[1] = mover
          /\ Len(<<staged, mover>>) = 2 /\ <<staged, mover>>[1] = staged
          /\ <<staged, mover>>[2] = mover /\ Len(<<>>) = 0
      OBVIOUS
    <2>2. /\ Staged /\ ~Relocated => Len(p.blobs) = 1 /\ p.blobs[1] = staged
          /\ ~Staged /\ Relocated => Len(p.blobs) = 1 /\ p.blobs[1] = mover
          /\ Staged /\ Relocated => Len(p.blobs) = 2 /\ p.blobs[1] = staged /\ p.blobs[2] = mover
          /\ ~Staged /\ ~Relocated => Len(p.blobs) = 0
      BY <1>4, <2>1
    <2>3. /\ Len(p.blobs) = 0 => Stored(p.blobs) = 0 /\ Installs(p.blobs) = 0
          /\ Len(p.blobs) = 1 => /\ Stored(p.blobs) = p.blobs[1].len
                                 /\ Installs(p.blobs) = LoopSize(p.blobs[1].len)
          /\ Len(p.blobs) = 2 =>
                 /\ Stored(p.blobs) = p.blobs[1].len + p.blobs[2].len
                 /\ Installs(p.blobs) = LoopSize(p.blobs[1].len) + LoopSize(p.blobs[2].len)
      BY <1>3, SumsOfBlobs
    <2> QED BY <1>5, <2>2, <2>3
<1>7. Folded => Staged /\ ~Relocated
    BY DEF Folded, Relocated
<1>8. LoopSize(cfg.core) \in Nat /\ LoopSize(m + cfg.core) \in Nat /\ LoopSize(m + Jmp) \in Nat
      /\ 0 + cfg.core = cfg.core
    BY <1>1, LoopSizeType
<1>9. p.payload_data = PayloadAt(m)
    <2> USE <1>1, <1>2, <1>8 DEF PayloadAt, Rest, InstallOf
    <2>1. CASE Folded
      BY <1>6, <1>7, <2>1
    <2>2. CASE ~Folded /\ Relocated /\ Staged
      BY <1>6, <2>2
    <2>3. CASE ~Folded /\ Relocated /\ ~Staged
      BY <1>6, <2>3
    <2>4. CASE ~Folded /\ ~Relocated /\ Staged
      BY <1>6, <2>4
    <2>5. CASE ~Folded /\ ~Relocated /\ ~Staged
      BY <1>6, <2>5
    <2> QED BY <2>1, <2>2, <2>3, <2>4, <2>5
<1>10. p.code_end \in Nat
    BY <1>1, <1>2
<1>11. p.payload_data \in Nat /\ cfg.org <= p.payload_data
       /\ p.end = p.payload_data + cfg.payload.len
    BY <1>1, <1>2, <1>10
<1> QED BY <1>9, <1>11 DEF p, m

\* A larger copy moves the payload, by no more than itself and an install loop.
LEMMA PayloadGrows ==
    ASSUME cfg \in Configs, NEW m \in Nat \ {0}, NEW k \in Nat, m < k
    PROVE  /\ PayloadAt(m) < PayloadAt(k)
           /\ PayloadAt(k) - PayloadAt(m) <= (k - m) + (LongLoop - ShortLoop)
<1>1. cfg.core \in Nat /\ Jmp \in Nat /\ cfg.org \in Nat /\ cfg.boot \in Nat
      /\ ShortLoop \in Nat /\ LongLoop \in Nat /\ ShortLoop < LongLoop /\ Page \in Nat
    BY ConfigType, AddressType, SizesAssumption
<1>2. Rest \in Nat
    <2>1. LoopSize(cfg.core) \in Nat
      BY <1>1, LoopSizeType
    <2> QED BY <1>1, <2>1 DEF Rest
<1>3. ASSUME NEW a \in Nat, NEW b \in Nat, 0 < a, a <= b
      PROVE  /\ LoopSize(a) \in Nat /\ LoopSize(b) \in Nat
             /\ LoopSize(a) <= LoopSize(b) /\ LoopSize(b) - LoopSize(a) <= LongLoop - ShortLoop
    BY <1>1, <1>3 DEF LoopSize
<1>4. /\ InstallOf(m) \in Nat /\ InstallOf(k) \in Nat
      /\ InstallOf(m) <= InstallOf(k) /\ InstallOf(k) - InstallOf(m) <= LongLoop - ShortLoop
    <2>1. CASE Folded
      <3>1. m + cfg.core \in Nat /\ k + cfg.core \in Nat /\ 0 < m + cfg.core
            /\ m + cfg.core <= k + cfg.core
        BY <1>1
      <3> QED BY <1>3, <2>1, <3>1 DEF InstallOf
    <2>2. CASE ~Folded /\ Relocated
      <3>1. m + Jmp \in Nat /\ k + Jmp \in Nat /\ 0 < m + Jmp /\ m + Jmp <= k + Jmp
        BY <1>1
      <3> QED BY <1>3, <2>2, <3>1 DEF InstallOf
    <2>3. CASE ~Folded /\ ~Relocated
      BY <1>1, <2>3 DEF InstallOf
    <2> QED BY <2>1, <2>2, <2>3
<1> QED BY <1>1, <1>2, <1>4 DEF PayloadAt

\* Passes that size the moves alike make the same program.
LEMMA SameMoves ==
    ASSUME ~InPlace, NEW d, NEW e, MovesSize(Label(d)) = MovesSize(Label(e))
    PROVE  Layout(d) = Layout(e)
<1>1. Blobs(Label(d)) = Blobs(Label(e))
    BY DEF Blobs
<1> QED BY <1>1 DEF Layout

\* What one pass, and what two, can have observed.
Once(e) == \E x \in Env : e = Seen(Layout(x))
Twice(e) == \E x \in Env : Once(x) /\ e = Seen(Layout(x))

\* When a third pass still finds another address, the move ends between the two
\* places where the payload is found in turn: it descends from the lower only.
LEMMA Alternates ==
    ASSUME cfg \in Configs, hm \in Nat, ~InPlace, OneMove,
           NEW e \in Env, Twice(e), e # Seen(Layout(e))
    PROVE  \E i \in DOMAIN Moves : \E a, b \in Nat :
               /\ Moves[i].src = None /\ Embedded
               /\ cfg.org <= a /\ b - a <= Window
               /\ Layout(e).payload_data \in {a, b}
               /\ a < Moves[i].dst /\ Moves[i].dst <= b
               /\ Moves[i].dst < a + Moves[i].len
<1>1. PICK x \in Env : Once(x) /\ e = Seen(Layout(x))
    BY DEF Twice
<1>2. PICK y \in Env : x = Seen(Layout(y))
    BY <1>1 DEF Once
<1>3. MovesSize(Label(e)) # MovesSize(Label(x))
    BY <1>1, SameMoves
<1>4. PICK i \in DOMAIN Moves : Moves[i].src = None
    <2>1. ~KnownSources
      BY <1>1, OneLayout
    <2> QED BY <2>1 DEF KnownSources
<1>5. Embedded
    BY <1>4, UnknownSource
<1>6. PICK n, d \in Nat : n = Moves[i].len /\ d = Moves[i].dst
    BY MovesType DEF Placed
<1> DEFINE M(l) == MovesSize(l)
           F(l) == PayloadAt(M(l))
           S(l) == MoveSize(l, Moves[i])
           z == Label(y)
           p == Layout(e).payload_data
           q == Label(e)
           r == Label(x)
           short == LoopSize(n)
<1>7. /\ p = F(q) /\ q = F(r) /\ r = F(z) /\ q \in Nat /\ r \in Nat
      /\ cfg.org <= p /\ cfg.org <= q /\ cfg.org <= r /\ p \in Nat
    <2>1. \A u \in Env : /\ Layout(u).payload_data = F(Label(u))
                         /\ cfg.org <= Layout(u).payload_data /\ Layout(u).payload_data \in Nat
      BY <1>5, PayloadIs
    <2>2. ASSUME NEW u \in Env PROVE Label(Seen(Layout(u))) = Layout(u).payload_data
      <3>1. Layout(u).payload_data # None
        BY <2>1 DEF None
      <3> QED BY <3>1 DEF Label, Seen
    <2>3. q = Layout(x).payload_data /\ r = Layout(y).payload_data
      BY <1>1, <1>2, <2>2
    <2> HIDE DEF F
    <2> QED BY <2>1, <2>3
<1>8. ASSUME NEW l PROVE S(l) = IF l < d /\ d < l + n THEN DownLoop ELSE short
    BY <1>6 DEF MoveSize, Descending
<1>9. \A k, l : M(k) + S(l) = M(l) + S(k)
    BY <1>4, OneMoveSize
<1>10. \A l : M(l) \in Nat
    BY MovesSizeType
<1>11. S(q) # S(r)
    <2>1. \A l : S(l) \in Nat
      BY <1>6, MoveSizeType
    <2> HIDE DEF M, S
    <2> QED BY <1>3, <1>9, <1>10, <2>1 DEF M
<1>12. n > 0 /\ short \in Nat /\ DownLoop \in Nat /\ ShortLoop \in Nat /\ LongLoop \in Nat
       /\ ShortLoop <= short /\ short < DownLoop
    <2>1. n # 0
      BY <1>6, <1>7, <1>8, <1>11
    <2> QED BY <1>6, <2>1, SizesAssumption DEF LoopSize
<1>13. PICK down, up \in Nat :
           /\ (q = down /\ r = up) \/ (q = up /\ r = down)
           /\ S(down) = DownLoop /\ S(up) = short
           /\ down < d /\ d < down + n /\ ~ (up < d /\ d < up + n)
    <2> HIDE DEF S, short, q, r
    <2>1. CASE q < d /\ d < q + n
      <3>1. S(q) = DownLoop /\ S(r) = short /\ ~ (r < d /\ d < r + n)
        BY <1>8, <1>11, <2>1
      <3> QED BY <1>7, <2>1, <3>1
    <2>2. CASE ~ (q < d /\ d < q + n)
      <3>1. S(q) = short /\ S(r) = DownLoop /\ r < d /\ d < r + n
        BY <1>8, <1>11, <2>2
      <3> QED BY <1>7, <2>2, <3>1
    <2> QED BY <2>1, <2>2
<1>14. M(down) = M(up) + (DownLoop - short) /\ M(up) \in Nat \ {0}
    <2> HIDE DEF M, S, short
    <2>1. M(up) + DownLoop = M(down) + short
      BY <1>9, <1>13
    <2>2. short <= M(up)
      BY <1>4, <1>13, OneMoveSize DEF M, S
    <2> QED BY <1>10, <1>12, <2>1, <2>2, SizesAssumption
<1>15. F(up) < F(down) /\ F(down) - F(up) <= Window
    <2> HIDE DEF M, short
    <2>1. M(up) < M(down) /\ M(down) - M(up) <= DownLoop - ShortLoop /\ M(down) \in Nat
      BY <1>10, <1>12, <1>14
    <2>2. /\ PayloadAt(M(up)) < PayloadAt(M(down))
          /\ PayloadAt(M(down)) - PayloadAt(M(up)) <= (M(down) - M(up)) + (LongLoop - ShortLoop)
      BY <1>14, <2>1, PayloadGrows
    <2>3. PayloadAt(M(up)) \in Int /\ PayloadAt(M(down)) \in Int
      BY <1>7, <1>13 DEF M
    <2> QED BY <1>10, <1>12, <2>1, <2>2, <2>3 DEF Window
<1>16. F(z) \in {F(up), F(down)}
    <2> HIDE DEF M, S, short, z
    <2>1. M(z) + S(up) = M(up) + S(z)
      BY <1>9
    <2>2. S(z) = short \/ S(z) = DownLoop
      BY <1>8
    <2>3. M(z) = M(up) \/ M(z) = M(down)
      BY <1>10, <1>12, <1>13, <1>14, <2>1, <2>2
    <2> QED BY <2>3
\* The payload is found where the copy ascends when it was where it descends,
\* and the other way round.
<1>17. /\ down = F(up) /\ up = F(down) /\ p \in {down, up}
    <2> HIDE DEF S, F, z, q, r, p, short
    <2>1. r # q /\ r \in {F(up), F(down)}
      BY <1>7, <1>11, <1>16
    <2>2. CASE q = down /\ r = up
      BY <1>7, <2>1, <2>2
    <2>3. CASE q = up /\ r = down
      BY <1>7, <2>1, <2>3
    <2> QED BY <1>13, <2>2, <2>3
<1>18. /\ cfg.org <= down /\ up - down <= Window /\ d <= up
    <2> HIDE DEF F, q, r, p
    <2>1. down < up /\ up - down <= Window
      BY <1>15, <1>17
    <2>2. d <= up
      BY <1>6, <1>13, <2>1
    <2> QED BY <1>7, <1>13, <2>1, <2>2
<1> QED BY <1>4, <1>5, <1>6, <1>13, <1>17, <1>18

\* Where an in-place stream is when nothing but its own split decides.
Split1 == LoopSize(HeadLen(ShortLoop))
InPlaceEnv == [payload_data |-> cfg.org + BootLen(Split1),
               after_moves |-> cfg.org + BootLen(Split1) - Jmp]

\* The search of the split is over after one step: more to wait for never
\* makes the head shorter.
LEMMA SplitsOnce ==
    ASSUME cfg \in Configs, InPlace, cfg.in_place < cfg.org
    PROVE  Split1 \in Nat /\ Fixed(Split1)
<1>1. /\ cfg.org \in Nat /\ cfg.in_place \in Nat /\ cfg.payload.len \in Nat
      /\ cfg.boot \in Nat /\ cfg.core \in Nat
      /\ ShortLoop \in Nat \ {0} /\ LongLoop \in Nat /\ ShortLoop < LongLoop /\ Jmp \in Nat
      /\ Page \in Nat \ {0}
    BY ConfigType, AddressType, SizesAssumption DEF InPlace
<1>2. Split1 \in {0, ShortLoop, LongLoop} /\ Split1 \in Nat
      /\ HeadLen(ShortLoop) \in Nat
    BY <1>1, HeadLenType, LoopSizeType DEF Split1
<1>3. CASE Split1 = ShortLoop
    BY <1>2, <1>3 DEF Fixed, Split1
<1>4. CASE Split1 = 0
    <2>1. HeadLen(ShortLoop) = 0
      BY <1>2, <1>4, LoopSizeType DEF Split1
    <2>2. BootLen(ShortLoop) \in Nat
      BY <1>1, HeadLenType
    <2>3. cfg.payload.len = 0
      <3>1. BootLen(ShortLoop) + cfg.org - cfg.in_place > 0
        BY <1>1, <2>2
      <3> QED BY <1>1, <2>1, <2>2, <3>1 DEF HeadLen
    <2>4. HeadLen(Split1) = 0
      <3>1. HeadLen(Split1) \in Nat /\ HeadLen(Split1) <= cfg.payload.len
        BY <1>2, HeadLenType
      <3> QED BY <2>3, <3>1
    <2> QED BY <1>4, <2>4 DEF Fixed, LoopSize
<1>5. CASE Split1 = LongLoop
    <2>1. HeadLen(ShortLoop) > Page
      BY <1>1, <1>2, <1>5 DEF Split1, LoopSize
    <2>2. /\ BootLen(ShortLoop) \in Nat /\ BootLen(LongLoop) \in Nat
          /\ BootLen(ShortLoop) <= BootLen(LongLoop)
      <3>1. LoopSize(ShortLoop + cfg.core) <= LoopSize(LongLoop + cfg.core)
        BY <1>1 DEF LoopSize
      <3>2. LoopSize(ShortLoop + cfg.core) \in Nat /\ LoopSize(LongLoop + cfg.core) \in Nat
        BY <1>1, LoopSizeType
      <3> QED BY <1>1, <3>1, <3>2 DEF BootLen
    <2>3. HeadLen(LongLoop) > Page /\ HeadLen(LongLoop) \in Nat
      BY <1>1, <2>1, <2>2 DEF HeadLen
    <2>4. LoopSize(HeadLen(LongLoop)) = LongLoop
      BY <1>1, <2>3 DEF LoopSize
    <2> QED BY <1>2, <1>5, <2>4 DEF Fixed
<1> QED BY <1>2, <1>3, <1>4, <1>5

\* What a pass observes of an in-place layout that has not drifted.
LEMMA InPlaceSeen ==
    ASSUME cfg \in Configs, InPlace, cfg.in_place < cfg.org, PlanAccepts,
           hm = Split1, NEW e \in Env, ~Drifted(Layout(e))
    PROVE  Seen(Layout(e)) = InPlaceEnv
<1>1. hm \in Nat
    BY SplitsOnce
<1>2. /\ Layout(e).payload_data = Layout(e).code_end
      /\ Layout(e).code_end = Layout(e).after_moves + (IF Staged THEN Jmp ELSE cfg.core)
      /\ Layout(e) \in Program
    BY <1>1, LayoutType
<1>3. Staged /\ Jmp \in Nat /\ Layout(e).after_moves \in Nat
    BY <1>2, SizesAssumption DEF PlanAccepts, Program
<1>4. Layout(e).payload_data = cfg.org + BootLen(Split1)
    BY DEF Drifted
<1>5. Layout(e).after_moves = cfg.org + BootLen(Split1) - Jmp
    <2>1. cfg.org + BootLen(Split1) = Layout(e).after_moves + Jmp
      BY <1>2, <1>3, <1>4
    <2>2. cfg.org \in Nat /\ BootLen(Split1) \in Nat
      BY ConfigType, AddressType, SplitsOnce, HeadLenType
    <2> QED BY <1>3, <2>1, <2>2
<1> QED BY <1>4, <1>5 DEF Seen, InPlaceEnv

\* What the passes so far have observed.
ChainInv ==
    /\ phase = "plan" => pass = 0
    /\ InPlace =>
        /\ phase = "split" => hm \in {ShortLoop, Split1}
        /\ phase = "assemble" => hm = Split1
        /\ pass >= 1 /\ phase \in {"render", "split", "assemble"} => env = InPlaceEnv
        /\ phase \in {"validate", "built"} => Settled
    /\ ~InPlace =>
        /\ phase \in {"render", "assemble"} =>
               (pass >= 1 => Once(env)) /\ (pass >= 2 => Twice(env))
        /\ phase \in {"validate", "built"} => Settled \/ Twice(used)

\* The parts of it depend on the configuration only.
LEMMA ChainKept ==
    ASSUME cfg' = cfg
    PROVE  /\ InPlace' = InPlace /\ Split1' = Split1 /\ InPlaceEnv' = InPlaceEnv
           /\ ~InPlace => \A e : /\ Layout(e)' = Layout(e)
                                 /\ (Once(e)' <=> Once(e)) /\ (Twice(e)' <=> Twice(e))
<1>1. InPlace' = InPlace /\ Split1' = Split1
    BY RenderKept DEF Split1, LoopSize
<1>2. BootLen(Split1)' = BootLen(Split1)
    BY <1>1 DEF BootLen, LoopSize
<1>3. ASSUME ~InPlace
      PROVE  \A e : Layout(e)' = Layout(e) /\ (Once(e)' <=> Once(e)) /\ (Twice(e)' <=> Twice(e))
    <2>1. ASSUME NEW e PROVE Layout(e)' = Layout(e)
      <3>1. Blobs(Label(e))' = Blobs(Label(e)) /\ MovesSize(Label(e))' = MovesSize(Label(e))
        BY <1>3, RenderKept DEF Blobs
      <3> QED BY <1>3, <3>1, RenderKept DEF Layout
    <2>2. \A e : Seen(Layout(e))' = Seen(Layout(e))
      BY <2>1 DEF Seen
    <2>3. \A e : Once(e)' <=> Once(e)
      BY <2>2 DEF Once
    <2>4. \A e : Twice(e)' <=> Twice(e)
      BY <2>2, <2>3 DEF Twice
    <2> QED BY <2>1, <2>3, <2>4
<1> QED BY <1>1, <1>2, <1>3 DEF InPlaceEnv

\* A step of build adds one pass to what has been observed.
LEMMA ChainStep ==
    ASSUME LayoutInv, ChainInv, [Next]_vars, Passes >= 3
    PROVE  ChainInv'
<1>1. cfg' = cfg
    BY DEF Next, Build, Plan, Render, Split, Assemble, Validate, vars
<1>2. phase' = "plan" => pass' = 0
    BY DEF Next, Build, Plan, Render, Split, Assemble, Validate, vars, ChainInv
<1>3. ASSUME InPlace PROVE
        /\ phase' = "split" => hm' \in {ShortLoop, Split1}
        /\ phase' = "assemble" => hm' = Split1
        /\ pass' >= 1 /\ phase' \in {"render", "split", "assemble"} => env' = InPlaceEnv
        /\ phase' \in {"validate", "built"} => Settled'
    <2> USE <1>3
    <2>1. CASE Plan \/ UNCHANGED vars
      BY <2>1 DEF ChainInv, Plan, vars, Settled
    <2>2. CASE Render
      BY <2>2 DEF ChainInv, Render, Settled
    <2>3. CASE Split
      <3>1. cfg \in Configs /\ cfg.in_place < cfg.org
        BY <2>3 DEF Split, LayoutInv, TypeInv, PassInv
      <3>2. Split1 = LoopSize(HeadLen(Split1))
        BY <3>1, SplitsOnce DEF Fixed
      <3>3. hm' = Split1
        <4>1. hm = ShortLoop \/ hm = Split1
          BY <2>3 DEF Split, ChainInv
        <4>2. CASE hm = ShortLoop
          BY <2>3, <4>2 DEF Split, Split1
        <4>3. CASE hm = Split1
          BY <2>3, <3>2, <4>3 DEF Split
        <4> QED BY <4>1, <4>2, <4>3
      <3> QED BY <2>3, <3>3 DEF ChainInv, Split
    <2>4. CASE Assemble
      <3>1. /\ cfg \in Configs /\ cfg.in_place < cfg.org /\ PlanAccepts
            /\ used = env /\ pass \in Nat
        BY <2>4 DEF Assemble, LayoutInv, TypeInv, PassInv
      <3>2. PICK e \in Env : e = env
        BY DEF LayoutInv, TypeInv
      <3>3. hm = Split1 /\ (pass >= 1 => e = InPlaceEnv)
        BY <2>4, <3>2 DEF Assemble, ChainInv
      <3>4. CASE Drifted(Layout(e))
        BY <2>4, <3>2, <3>4 DEF Assemble, Drifted
      <3>5. CASE ~Drifted(Layout(e))
        <4>1. /\ env' = Seen(Layout(e)) /\ used' = e /\ pass' = pass + 1
              /\ phase' = IF env' = e \/ pass' = Passes THEN "validate" ELSE "render"
          BY <2>4, <3>1, <3>2, <3>5 DEF Assemble, Seen, Drifted
        <4>2. env' = InPlaceEnv
          BY <3>1, <3>3, <3>5, <4>1, InPlaceSeen
        <4>3. phase' = "validate" => env' = e
          <5>1. pass' = Passes => pass >= 1
            BY <3>1, <4>1, PassesAssumption
          <5> QED BY <3>3, <4>1, <4>2, <5>1
        <4> QED BY <4>1, <4>2, <4>3 DEF Settled
      <3> QED BY <3>4, <3>5
    <2>5. CASE Validate
      BY <2>5 DEF ChainInv, Validate, Settled
    <2> QED BY <2>1, <2>2, <2>3, <2>4, <2>5 DEF Next, Build
<1>4. ASSUME ~InPlace PROVE
        /\ phase' \in {"render", "assemble"} =>
               (pass' >= 1 => Once(env')) /\ (pass' >= 2 => Twice(env'))
        /\ phase' \in {"validate", "built"} => Settled' \/ Twice(used')
    <2> USE <1>4
    <2>1. CASE Plan \/ UNCHANGED vars
      BY <2>1 DEF ChainInv, Plan, vars, Settled
    <2>2. CASE Render
      BY <2>2 DEF ChainInv, Render
    <2>3. CASE Split
      BY <2>3 DEF Split, LayoutInv, PassInv
    <2>4. CASE Assemble
      <3>1. PICK e \in Env : e = env
        BY DEF LayoutInv, TypeInv
      <3>2. /\ env' = Seen(Layout(e)) /\ used' = e /\ pass' = pass + 1
            /\ phase' = IF env' = e \/ pass' = Passes THEN "validate" ELSE "render"
            /\ pass \in Nat
        BY <2>4, <3>1 DEF Assemble, Seen, Drifted, LayoutInv, TypeInv, PassInv
      <3>3. (pass >= 1 => Once(e)) /\ (pass >= 2 => Twice(e))
        BY <2>4, <3>1 DEF Assemble, ChainInv
      <3>4. Once(env') /\ (pass' >= 2 => Twice(env'))
        <4>1. Once(env')
          BY <3>2 DEF Once
        <4>2. pass' >= 2 => pass >= 1
          BY <3>2
        <4> QED BY <3>2, <3>3, <4>1, <4>2 DEF Twice
      <3>5. phase' = "validate" => Settled' \/ Twice(used')
        <4>1. pass' = Passes => pass >= 2
          BY <3>2, PassesAssumption
        <4> QED BY <3>2, <3>3, <4>1 DEF Settled
      <3> QED BY <3>2, <3>4, <3>5
    <2>5. CASE Validate
      BY <2>5 DEF ChainInv, Validate, Settled
    <2> QED BY <2>1, <2>2, <2>3, <2>4, <2>5 DEF Next, Build
<1>5. InPlace' = InPlace /\ Split1' = Split1 /\ InPlaceEnv' = InPlaceEnv
    BY <1>1, ChainKept
<1>6. ASSUME ~InPlace, NEW v, v = env', NEW w, w = used'
      PROVE  (Once(v) => Once(env)') /\ (Twice(v) => Twice(env)') /\ (Twice(w) => Twice(used)')
    <2>1. (Once(v) => Once(v)') /\ (Twice(v) => Twice(v)') /\ (Twice(w) => Twice(w)')
      BY <1>1, <1>6, ChainKept
    <2>2. (Once(v)' => Once(env)') /\ (Twice(v)' => Twice(env)') /\ (Twice(w)' => Twice(used)')
      BY <1>6 DEF Once, Twice
    <2> QED BY <2>1, <2>2
<1> QED BY <1>2, <1>3, <1>4, <1>5, <1>6 DEF ChainInv

\* A program that was accepted though its last pass found another address for
\* the payload moves it, in a blob, to within a window of where it lies.
LEMMA StaleMove ==
    ASSUME LayoutInv, ChainInv, OneMove, phase = "built", ~Settled
    PROVE  \E i \in BlobMoves : program.payload_data - Moves[i].dst \in -Window .. (Window - 1)
<1>1. ~InPlace /\ Twice(used)
    BY DEF ChainInv
<1>2. PICK e \in Env : e = used /\ program = Layout(e) /\ e # Seen(Layout(e))
    BY DEF LayoutInv, ProgramInv, Settled
<1>3. cfg \in Configs /\ hm \in Nat /\ Accepted
    BY LoopNat DEF LayoutInv, TypeInv, ProgramInv
<1>4. PICK i \in DOMAIN Moves, a \in Nat, b \in Nat :
          /\ Moves[i].src = None /\ Embedded
          /\ cfg.org <= a /\ b - a <= Window
          /\ program.payload_data \in {a, b}
          /\ a < Moves[i].dst /\ Moves[i].dst <= b
          /\ Moves[i].dst < a + Moves[i].len
    <2>1. Twice(e)
      BY <1>1, <1>2
    <2> QED BY <1>1, <1>2, <1>3, <2>1, Alternates
<1>5. Moves[i].dst \in Nat /\ Moves[i].len \in Nat /\ cfg.org \in Nat /\ Window \in Nat
    <2>1. Window \in Nat
      BY SizesAssumption DEF Window
    <2> QED BY <1>3, <2>1, MovesType, ConfigType, AddressType DEF Placed
<1>6. Moves[i].len = cfg.payload.len
    <2>1. i \in PayloadMoves /\ Moves[i] = ResolvedMove(cfg.moves[i])
      BY <1>3, <1>4, UnknownSource, MovesType
    <2> QED BY <2>1 DEF PayloadMoves, ResolvedMove
\* The move is aimed at the program, so its code must be out of the way.
<1>7. Overlap(MoveRange(Moves[i]), Image)
    <2>1. program.end = program.payload_data + Moves[i].len
      BY <1>1, <1>2, <1>3, <1>4, <1>6, PayloadIs
    <2> DEFINE d == Moves[i].dst
               n == Moves[i].len
    <2>2. d < program.end /\ cfg.org < d + n
      <3> HIDE DEF d, n
      <3> QED BY <1>4, <1>5, <2>1 DEF d, n
    <2> QED BY <2>2 DEF Overlap, MoveRange, Image
<1>8. Folded \/ Relocated
    <2>1. Staged /\ (cfg.mover_at # None \/ cfg.fold)
      BY <1>3, <1>7 DEF Accepted, MoveAccepted
    <2>2. cfg.moves # <<>>
      <3>1. DOMAIN Moves = 1 .. Len(cfg.moves)
        BY <1>3, MovesType
      <3>2. cfg.moves = <<>> => Len(cfg.moves) = 0
        BY EmptySeq
      <3> QED BY <3>1, <3>2
    <2> QED BY <2>1, <2>2 DEF Folded, Relocated
<1>9. i \in BlobMoves
    BY <1>4, <1>8 DEF BlobMoves
<1>10. program.payload_data - Moves[i].dst \in -Window .. (Window - 1)
    <2> DEFINE d == Moves[i].dst
    <2> HIDE DEF d
    <2>1. d \in Nat /\ a < d /\ d <= b /\ b - a <= Window
      BY <1>4, <1>5 DEF d
    <2>2. a - d \in -Window .. (Window - 1) /\ b - d \in -Window .. (Window - 1)
      BY <1>5, <2>1
    <2> QED BY <1>4, <2>2 DEF d
<1> QED BY <1>9, <1>10

\* A program with one payload move that is handed out unsettled moves it, in a
\* blob, to within a loop's length of the payload (build makes up to four passes).
THEOREM OnlyStaleInWindow ==
    ASSUME Passes >= 3
    PROVE  Spec => [](OneMove => StaleOnlyInWindow)
<1>1. Init => ChainInv
    BY DEF Init, ChainInv
<1>2. LayoutInv /\ ChainInv /\ [Next]_vars => ChainInv'
    BY ChainStep
<1>3. LayoutInv /\ ChainInv => (OneMove => StaleOnlyInWindow)
    BY StaleMove DEF StaleOnlyInWindow
<1> QED BY <1>1, <1>2, <1>3, LayoutInvHolds, PTL DEF Spec

-----------------------------------------------------------------------------
(* Ranges and copies. *)

\* A remainder of a number below the modulus.
LEMMA ModSmall ==
    ASSUME NEW x \in Nat, NEW k \in Nat, x < k
    PROVE  x % k = x /\ (x + k) % k = x
OBVIOUS

\* n bytes of m from s on are at d in f.
Copied(f, m, s, d, n) == \A j \in 0 .. (n - 1) : f[d + j] = m[s + j]

\* What the two directions copy when they are the right ones, and what they
\* leave alone.
LEMMA UpCopies ==
    ASSUME NEW m, NEW s \in Nat, NEW d \in Nat, NEW n \in Nat,
           s + n <= Space, d + n <= Space, ~Descending(s, d, n)
    PROVE  /\ Copied(Up(m, s, d, n), m, s, d, n)
           /\ \A a \in Addr : ~Within(a, <<d, d + n>>) => Up(m, s, d, n)[a] = m[a]
<1>1. ASSUME NEW j \in 0 .. (n - 1) PROVE Up(m, s, d, n)[d + j] = m[s + j]
    <2>1. d + j \in Addr /\ Within(d + j, <<d, d + n>>) /\ (d + j) - d = j /\ j \in Nat
      BY SpaceAssumption DEF Addr, Within
    <2>2. Up(m, s, d, n)[d + j] = m[s + (IF d > s THEN ((d + j) - d) % (d - s) ELSE (d + j) - d)]
      BY <2>1 DEF Up
    <2>3. d > s => j % (d - s) = j
      <3> HAVE d > s
      <3>1. d - s \in Nat /\ j < d - s
        BY <2>1 DEF Descending
      <3> QED BY <2>1, <3>1, ModSmall
    <2> QED BY <2>1, <2>2, <2>3
<1>2. \A a \in Addr : ~Within(a, <<d, d + n>>) => Up(m, s, d, n)[a] = m[a]
    BY DEF Up
<1> QED BY <1>1, <1>2 DEF Copied

\* ... from the top down.
LEMMA DownCopies ==
    ASSUME NEW m, NEW s \in Nat, NEW d \in Nat, NEW n \in Nat,
           s + n <= Space, d + n <= Space, Descending(s, d, n)
    PROVE  /\ Copied(Down(m, s, d, n), m, s, d, n)
           /\ \A a \in Addr : ~Within(a, <<d, d + n>>) => Down(m, s, d, n)[a] = m[a]
<1>1. ASSUME NEW j \in 0 .. (n - 1) PROVE Down(m, s, d, n)[d + j] = m[s + j]
    <2>1. d + j \in Addr /\ Within(d + j, <<d, d + n>>) /\ (d + j) - d = j /\ ~(d < s)
      BY SpaceAssumption DEF Addr, Within, Descending
    <2>2. Down(m, s, d, n)[d + j] = m[s + ((d + j) - d)]
      BY <2>1 DEF Down
    <2> QED BY <2>1, <2>2
<1>2. \A a \in Addr : ~Within(a, <<d, d + n>>) => Down(m, s, d, n)[a] = m[a]
    BY DEF Down
<1> QED BY <1>1, <1>2 DEF Copied

\* The copy c as its direction makes it.
Done(m, c) == IF c.down THEN Down(m, c.src, c.dst, c.len) ELSE Up(m, c.src, c.dst, c.len)

\* A copy in memory that goes the right way.
Sound(c) ==
    /\ c.src \in Nat /\ c.dst \in Nat /\ c.len \in Nat
    /\ c.src + c.len <= Space /\ c.dst + c.len <= Space

\* Either, when it is the right one.
LEMMA DoneCopies ==
    ASSUME NEW m, NEW c, Sound(c)
    PROVE  /\ (c.down <=> Descending(c.src, c.dst, c.len)) =>
                  Copied(Done(m, c), m, c.src, c.dst, c.len)
           /\ \A a \in Addr : ~Within(a, Target(c)) => Done(m, c)[a] = m[a]
<1> DEFINE s == c.src
           d == c.dst
           n == c.len
<1>1. s \in Nat /\ d \in Nat /\ n \in Nat /\ s + n <= Space /\ d + n <= Space
    BY DEF Sound
<1>2. /\ c.down => Done(m, c) = Down(m, s, d, n)
      /\ ~c.down => Done(m, c) = Up(m, s, d, n)
    BY DEF Done
<1>3. \A a \in Addr : ~Within(a, <<d, d + n>>) => Done(m, c)[a] = m[a]
    <2>1. ASSUME NEW a \in Addr, ~Within(a, <<d, d + n>>) PROVE Done(m, c)[a] = m[a]
      <3>1. Down(m, s, d, n)[a] = m[a] /\ Up(m, s, d, n)[a] = m[a]
        BY <2>1 DEF Down, Up
      <3> QED BY <1>2, <3>1
    <2> QED BY <2>1
<1>4. ASSUME c.down <=> Descending(s, d, n)
      PROVE  Copied(Done(m, c), m, s, d, n)
    <2> HIDE DEF s, d, n
    <2>1. CASE c.down
      <3>1. Descending(s, d, n)
        BY <1>4, <2>1
      <3>2. Copied(Down(m, s, d, n), m, s, d, n)
        BY <1>1, <3>1, DownCopies
      <3> QED BY <1>2, <2>1, <3>2
    <2>2. CASE ~c.down
      <3>1. ~Descending(s, d, n)
        BY <1>4, <2>2
      <3>2. Copied(Up(m, s, d, n), m, s, d, n)
        BY <1>1, <3>1, UpCopies
      <3> QED BY <1>2, <2>2, <3>2
    <2> QED BY <2>1, <2>2
<1> QED BY <1>3, <1>4 DEF Target

-----------------------------------------------------------------------------
(* Where everything is in a program that was built.                        *)

Built == LayoutInv /\ phase = "built" /\ Careful

IsRange(r) == r[1] \in Nat /\ r[2] \in Nat /\ r[1] <= r[2]

\* The parts of the image.
LEMMA BuiltImage ==
    ASSUME Built
    PROVE  /\ cfg \in Configs /\ PlanAccepts /\ program \in Program
           /\ cfg.org \in Nat /\ program.code_end \in Nat /\ program.end \in Nat
           /\ cfg.org <= program.code_end /\ program.code_end <= program.end
           /\ program.end <= Space /\ Space \in Nat
           /\ cfg.payload.len \in Nat /\ program.head \in Nat
           /\ InPlace => cfg.in_place \in Nat /\ cfg.in_place < cfg.org
           /\ program.head = IF InPlace THEN HeadLen(hm) ELSE 0
           /\ program.payload_data = (IF InPlace THEN program.code_end
                                      ELSE IF Embedded
                                      THEN program.code_end + Stored(program.blobs)
                                      ELSE None)
           /\ program.blob_data = program.code_end
                                  + (IF InPlace /\ Embedded THEN cfg.payload.len ELSE 0)
           /\ program.end = program.code_end + Stored(program.blobs)
                            + (IF Embedded THEN cfg.payload.len ELSE 0)
           /\ program.blobs \in Seq(Blob) /\ Len(program.blobs) \in 0 .. 2
           /\ \E l : Shape(program.blobs, l)
           /\ Accepted
<1> USE DEF Built
<1>1. cfg \in Configs /\ PlanAccepts /\ program \in Program /\ Accepted
      /\ (InPlace => cfg.in_place < cfg.org) /\ hm \in Nat
    BY LoopNat DEF LayoutInv, PassInv, ProgramInv, TypeInv
<1>2. PICK e \in Env : program = Layout(e)
    BY DEF LayoutInv, ProgramInv
<1>3. cfg.org \in Nat /\ cfg.payload.len \in Nat /\ (InPlace => cfg.in_place \in Nat)
    BY <1>1, ConfigType, AddressType DEF InPlace
<1>4. /\ program.code_end \in Nat /\ program.end \in Nat /\ program.head \in Nat
      /\ program.blobs \in Seq(Blob)
    BY <1>1 DEF Program
<1>5. program.blobs = Blobs(Label(e)) /\ Len(program.blobs) \in 0 .. 2
      /\ Shape(program.blobs, Label(e))
    BY <1>1, <1>2, LayoutType, BlobsType
<1>6. program.end <= Space /\ Space \in Nat
    BY <1>1, SpaceAssumption DEF Accepted
<1>7. /\ program.head = IF InPlace THEN HeadLen(hm) ELSE 0
      /\ program.payload_data = (IF InPlace THEN program.code_end
                                 ELSE IF Embedded
                                 THEN program.code_end + Stored(program.blobs)
                                 ELSE None)
      /\ program.blob_data = program.code_end
                             + (IF InPlace /\ Embedded THEN cfg.payload.len ELSE 0)
      /\ program.end = program.code_end + Stored(program.blobs)
                       + (IF Embedded THEN cfg.payload.len ELSE 0)
      /\ cfg.org <= program.code_end /\ program.code_end <= program.end
    BY <1>1, <1>2, LayoutType
<1> QED BY <1>1, <1>3, <1>4, <1>5, <1>6, <1>7

\* Where a blob runs.
LEMMA BuiltBlob ==
    ASSUME Built, NEW b \in DOMAIN program.blobs
    PROVE  /\ program.blobs[b].at \in Nat /\ program.blobs[b].len \in Nat
           /\ program.blobs[b].at + program.blobs[b].len <= Space
           /\ ~Overlap(BlobRange(program.blobs[b]), Image)
           /\ BlobRange(program.blobs[b]) \in Runs
           /\ IsRange(BlobRange(program.blobs[b]))
<1> DEFINE blob == program.blobs[b]
<1>1. blob \in Blob
    BY BuiltImage, ElementOfSeq, LenProperties
<1>2. blob.at \in Nat /\ blob.len \in Nat
    BY <1>1, AddressType DEF Blob
<1>3. BlobRange(blob) \in Runs
    BY DEF Runs
<1>4. ~Overlap(BlobRange(blob), Image)
    BY BuiltImage DEF Accepted, BlobAccepted
<1>5. BlobRange(blob)[2] <= Space
    BY <1>3 DEF Built, Careful
<1> HIDE DEF blob
<1>6. BlobRange(blob)[1] = blob.at /\ BlobRange(blob)[2] = blob.at + blob.len
    BY DEF BlobRange
<1> QED BY <1>2, <1>3, <1>4, <1>5, <1>6 DEF blob, IsRange

\* Where it is stored.
LEMMA BuiltStored ==
    ASSUME Built, NEW b \in DOMAIN program.blobs
    PROVE  /\ BlobImage(b)[1] \in Nat
           /\ BlobImage(b)[2] = BlobImage(b)[1] + program.blobs[b].len
           /\ program.code_end <= BlobImage(b)[1] /\ BlobImage(b)[2] <= program.end
           /\ InPlace /\ Embedded => program.code_end + cfg.payload.len <= BlobImage(b)[1]
           /\ BlobImage(b)[2] <= program.blob_data + Stored(program.blobs)
           /\ b = 1 => BlobImage(b)[1] = program.blob_data
           /\ b = 2 => BlobImage(b)[1] = program.blob_data + program.blobs[1].len
           /\ b = 1 \/ b = 2
<1> DEFINE n == Len(program.blobs)
           sizes == [c \in DOMAIN program.blobs |-> program.blobs[c].len]
           before == SumTo(sizes, b - 1)
           x == IF InPlace /\ Embedded THEN cfg.payload.len ELSE 0
           y == IF Embedded THEN cfg.payload.len ELSE 0
<1>1. /\ DOMAIN program.blobs = 1 .. n /\ n \in 0 .. 2 /\ program.blobs \in Seq(Blob)
    BY BuiltImage, LenProperties
<1>2. b \in 1 .. n /\ (b = 1 \/ (b = 2 /\ n = 2)) /\ (n = 1 \/ n = 2)
    <2> HIDE DEF n
    <2>1. b \in 1 .. n /\ (n = 0 \/ n = 1 \/ n = 2)
      BY <1>1
    <2> QED BY <2>1
<1>3. \A c \in 1 .. n : sizes[c] = program.blobs[c].len /\ sizes[c] \in Nat
    BY <1>1, BuiltBlob
<1>4. BlobImage(b) = <<program.blob_data + before,
                       program.blob_data + before + program.blobs[b].len>>
    BY DEF BlobImage
<1>5. /\ b = 1 => before = 0
      /\ b = 2 => before = program.blobs[1].len /\ before \in Nat
    <2>1. b - 1 \in Nat /\ \A c \in 1 .. (b - 1) : sizes[c] \in Nat
      BY <1>1, <1>2, <1>3
    <2>2. (b = 1 => b - 1 = 0) /\ (b = 2 => b - 1 = 1)
      OBVIOUS
    <2>3. b = 2 => sizes[1] = program.blobs[1].len /\ sizes[1] \in Nat
      BY <1>2, <1>3
    <2> HIDE DEF sizes
    <2>4. /\ b - 1 = 0 => SumTo(sizes, b - 1) = 0
          /\ b - 1 = 1 => SumTo(sizes, b - 1) = sizes[1]
      BY <2>1, SumToType
    <2> QED BY <2>2, <2>3, <2>4
<1>6. /\ n = 1 => Stored(program.blobs) = program.blobs[1].len
      /\ n = 2 => Stored(program.blobs) = program.blobs[1].len + program.blobs[2].len
    BY <1>1, SumsOfBlobs
<1>7. /\ n = 1 => program.blobs[1].len \in Nat
      /\ n = 2 => program.blobs[1].len \in Nat /\ program.blobs[2].len \in Nat
    BY <1>1, BuiltBlob
<1>8. /\ program.blob_data = program.code_end + x /\ program.code_end \in Nat
      /\ program.end = program.code_end + Stored(program.blobs) + y
      /\ x \in Nat /\ y \in Nat /\ x <= y
    BY BuiltImage
<1>9. InPlace /\ Embedded => x = cfg.payload.len
    OBVIOUS
<1> DEFINE l1 == program.blobs[1].len
           l2 == program.blobs[2].len
           lb == program.blobs[b].len
           ce == program.code_end
           bd == program.blob_data
<1>10. (b = 1 => lb = l1) /\ (b = 2 => lb = l2)
    OBVIOUS
<1> HIDE DEF l1, l2, lb, before, x, y, n, ce, bd
<1>11. CASE b = 1
    <2>1. bd + before = ce + x /\ bd = ce + x /\ bd + before + lb = ce + x + l1 /\ l1 \in Nat
      BY <1>2, <1>5, <1>7, <1>8, <1>10, <1>11 DEF l1, bd, ce
    <2>2. Stored(program.blobs) \in Nat /\ l1 <= Stored(program.blobs)
      BY <1>2, <1>6, <1>7 DEF l1, l2
    <2> QED BY <1>2, <1>4, <1>8, <1>9, <1>10, <1>11, <2>1, <2>2 DEF ce, bd, lb
<1>12. CASE b = 2
    <2>1. bd + before = ce + x + l1 /\ bd = ce + x /\ bd + before + lb = ce + x + l1 + l2
          /\ l1 \in Nat /\ l2 \in Nat
      BY <1>2, <1>5, <1>7, <1>8, <1>10, <1>12 DEF l1, l2, bd, ce
    <2>2. Stored(program.blobs) = l1 + l2
      BY <1>2, <1>6, <1>12 DEF l1, l2
    <2> QED BY <1>2, <1>4, <1>5, <1>8, <1>9, <1>10, <1>12, <2>1, <2>2 DEF ce, bd, lb, l1
<1> QED BY <1>2, <1>11, <1>12

\* The images of different blobs are apart.
LEMMA ImagesApart ==
    ASSUME Built, NEW b \in DOMAIN program.blobs, NEW c \in DOMAIN program.blobs, b # c
    PROVE  ~Overlap(BlobImage(b), BlobImage(c))
<1>1. 1 \in DOMAIN program.blobs /\ 2 \in DOMAIN program.blobs
      /\ ((b = 1 /\ c = 2) \/ (b = 2 /\ c = 1))
    BY BuiltStored
<1>2. /\ BlobImage(1)[1] = program.blob_data
      /\ BlobImage(1)[2] = BlobImage(1)[1] + program.blobs[1].len
      /\ BlobImage(2)[1] = program.blob_data + program.blobs[1].len
      /\ BlobImage(1)[1] \in Nat /\ BlobImage(2)[1] \in Nat /\ program.blobs[2].len \in Nat
      /\ program.blobs[1].len \in Nat
    BY <1>1, BuiltStored, BuiltBlob
<1>3. BlobImage(1)[2] <= BlobImage(2)[1]
    BY <1>2
<1>4. BlobImage(1)[2] \in Nat /\ BlobImage(2)[1] \in Nat
    BY <1>2
<1> QED BY <1>1, <1>3, <1>4 DEF Overlap

\* Where the payload is loaded.
LEMMA BuiltPayload ==
    ASSUME Built
    PROVE  /\ Payload[1] \in Nat /\ Payload[2] = Payload[1] + cfg.payload.len
           /\ Payload[2] <= Space
           /\ Embedded => /\ Payload[1] = program.payload_data
                          /\ program.code_end <= Payload[1] /\ Payload[2] <= program.end
           /\ ~Embedded => Payload[1] = cfg.payload.at /\ ~Overlap(Payload, Image)
           /\ ~Overlap(Payload, <<cfg.org, program.code_end>>)
           /\ \A b \in DOMAIN program.blobs : ~Overlap(Payload, BlobImage(b))
<1> DEFINE len == cfg.payload.len
           ce == program.code_end
           st == Stored(program.blobs)
<1>1. /\ cfg.org \in Nat /\ ce \in Nat /\ program.end \in Nat /\ len \in Nat /\ Space \in Nat
      /\ cfg.org <= ce /\ ce <= program.end /\ program.end <= Space
      /\ (InPlace => Embedded)
      /\ program.payload_data = (IF InPlace THEN ce ELSE IF Embedded THEN ce + st ELSE None)
      /\ program.blob_data = ce + (IF InPlace /\ Embedded THEN len ELSE 0)
      /\ program.end = ce + st + (IF Embedded THEN len ELSE 0)
    BY BuiltImage DEF PlanAccepts
<1>2. ASSUME NEW b \in DOMAIN program.blobs
      PROVE  /\ BlobImage(b)[1] \in Nat /\ BlobImage(b)[2] \in Nat
             /\ ce <= BlobImage(b)[1] /\ BlobImage(b)[2] <= program.end
             /\ InPlace => ce + len <= BlobImage(b)[1]
             /\ BlobImage(b)[2] <= program.blob_data + st
    BY <1>1, BuiltStored, BuiltBlob
<1>3. st \in Nat
    <2>1. /\ DOMAIN program.blobs = 1 .. Len(program.blobs) /\ Len(program.blobs) \in 0 .. 2
          /\ program.blobs \in Seq(Blob)
      BY BuiltImage, LenProperties
    <2>2. /\ Len(program.blobs) = 1 => program.blobs[1].len \in Nat
          /\ Len(program.blobs) = 2 => program.blobs[1].len \in Nat /\ program.blobs[2].len \in Nat
      BY <2>1, BuiltBlob
    <2>3. Len(program.blobs) = 0 \/ Len(program.blobs) = 1 \/ Len(program.blobs) = 2
      BY <2>1
    <2> QED BY <2>1, <2>2, <2>3, SumsOfBlobs
<1>4. CASE Embedded
    <2>1. Payload[1] = program.payload_data /\ Payload[2] = program.payload_data + len
      BY <1>4 DEF Payload
    <2> HIDE DEF len, ce, st
    <2>2. CASE InPlace
      <3>1. Payload[1] = ce /\ Payload[2] = ce + len /\ program.end = ce + st + len
        BY <1>1, <1>4, <2>1, <2>2
      <3>2. /\ Payload[1] \in Nat /\ Payload[2] <= Space /\ ce <= Payload[1]
            /\ Payload[2] <= program.end /\ Payload[2] \in Nat
        BY <1>1, <1>3, <3>1
      <3>3. ~Overlap(Payload, <<cfg.org, ce>>)
        BY <1>1, <3>2 DEF Overlap
      <3>4. ASSUME NEW b \in DOMAIN program.blobs PROVE ~Overlap(Payload, BlobImage(b))
        BY <1>1, <1>2, <2>2, <3>1 DEF Overlap
      <3> QED BY <1>4, <2>1, <3>1, <3>2, <3>3, <3>4 DEF len, ce
    <2>3. CASE ~InPlace
      <3>1. /\ Payload[1] = ce + st /\ Payload[2] = ce + st + len /\ program.end = ce + st + len
            /\ program.blob_data = ce + 0
        BY <1>1, <1>4, <2>1, <2>3
      <3>2. /\ Payload[1] \in Nat /\ Payload[2] <= Space /\ ce <= Payload[1]
            /\ Payload[2] <= program.end /\ Payload[2] \in Nat /\ Payload[2] = Payload[1] + len
        BY <1>1, <1>3, <3>1
      <3>3. ~Overlap(Payload, <<cfg.org, ce>>)
        BY <1>1, <3>2 DEF Overlap
      <3>4. ASSUME NEW b \in DOMAIN program.blobs PROVE ~Overlap(Payload, BlobImage(b))
        <4>1. BlobImage(b)[2] <= Payload[1]
          BY <1>1, <1>2, <1>3, <3>1
        <4> QED BY <1>2, <3>2, <4>1 DEF Overlap
      <3> QED BY <1>4, <2>1, <3>2, <3>3, <3>4 DEF len, ce
    <2> QED BY <2>2, <2>3
<1>5. CASE ~Embedded
    <2>1. Payload[1] = cfg.payload.at /\ Payload[2] = cfg.payload.at + len
      BY <1>5 DEF Payload
    <2>2. cfg.payload.at \in Nat
      BY <1>5, BuiltImage, ConfigType, AddressType DEF Embedded
    <2>3. Payload[2] <= Space /\ ~Overlap(Payload, Image)
      BY <1>5 DEF Built, Careful
    <2>4. Image[1] = cfg.org /\ Image[2] = program.end
      BY DEF Image
    <2>5. ~(Payload[1] < program.end /\ cfg.org < Payload[2])
      BY <2>3, <2>4 DEF Overlap
    <2> HIDE DEF len, ce, st
    <2>6. Payload[1] \in Nat /\ Payload[2] \in Nat /\ Payload[2] = Payload[1] + len
      BY <1>1, <2>1, <2>2
    <2>7. ~Overlap(Payload, <<cfg.org, ce>>)
      BY <1>1, <2>5, <2>6 DEF Overlap
    <2>8. ASSUME NEW b \in DOMAIN program.blobs PROVE ~Overlap(Payload, BlobImage(b))
      BY <1>1, <1>2, <2>5, <2>6 DEF Overlap
    <2> QED BY <1>5, <2>1, <2>3, <2>6, <2>7, <2>8 DEF len, ce
<1> QED BY <1>4, <1>5

\* An address of a range that another range keeps clear of.
LEMMA NotBoth ==
    ASSUME NEW r, NEW q, IsRange(r), IsRange(q), ~Overlap(r, q) \/ ~Overlap(q, r),
           NEW a \in Nat, Within(a, r)
    PROVE  ~Within(a, q)
BY DEF Overlap, Within, IsRange

\* What is loaded: the code, the payload and the images.
LEMMA BuiltLoaded ==
    ASSUME Built
    PROVE  /\ \A a \in cfg.org .. (program.code_end - 1) : Loaded[a] = <<"program", a - cfg.org>>
           /\ \A i \in 0 .. (cfg.payload.len - 1) :
                  Loaded[Payload[1] + i] = <<"payload", StreamOffset(i)>>
           /\ \A b \in DOMAIN program.blobs : \A j \in 0 .. (program.blobs[b].len - 1) :
                  Loaded[BlobImage(b)[1] + j] = <<program.blobs[b].name, j>>
<1>1. /\ cfg.org \in Nat /\ program.code_end \in Nat /\ program.end \in Nat /\ Space \in Nat
      /\ cfg.org <= program.code_end /\ program.code_end <= program.end /\ program.end <= Space
      /\ cfg.payload.len \in Nat
    BY BuiltImage
<1>2. IsRange(Payload)
    BY <1>1, BuiltPayload DEF IsRange
<1>3. IsRange(<<cfg.org, program.code_end>>)
    BY <1>1 DEF IsRange
<1>4. ASSUME NEW b \in DOMAIN program.blobs PROVE IsRange(BlobImage(b))
    BY BuiltStored, BuiltBlob DEF IsRange
<1>5. ASSUME NEW a \in cfg.org .. (program.code_end - 1)
      PROVE  Loaded[a] = <<"program", a - cfg.org>>
    <2>1. a \in Addr /\ a \in Nat /\ Within(a, <<cfg.org, program.code_end>>)
      BY <1>1 DEF Addr, Within
    <2>2. ~Within(a, Payload)
      BY <1>2, <1>3, <2>1, BuiltPayload, NotBoth
    <2> QED BY <2>1, <2>2 DEF Loaded
<1>6. ASSUME NEW i \in 0 .. (cfg.payload.len - 1)
      PROVE  Loaded[Payload[1] + i] = <<"payload", StreamOffset(i)>>
    <2>1. /\ Payload[1] + i \in Addr /\ Within(Payload[1] + i, Payload)
          /\ (Payload[1] + i) - Payload[1] = i
      BY <1>1, BuiltPayload DEF Addr, Within
    <2> QED BY <2>1 DEF Loaded
<1>7. ASSUME NEW b \in DOMAIN program.blobs, NEW j \in 0 .. (program.blobs[b].len - 1)
      PROVE  Loaded[BlobImage(b)[1] + j] = <<program.blobs[b].name, j>>
    <2> DEFINE s == BlobImage(b)[1]
               a == s + j
    <2>1. /\ s \in Nat /\ BlobImage(b)[2] = s + program.blobs[b].len
          /\ program.code_end <= s /\ BlobImage(b)[2] <= program.end
          /\ program.blobs[b].len \in Nat
      BY BuiltStored, BuiltBlob
    <2>2. a \in Nat /\ a \in Addr /\ Within(a, BlobImage(b)) /\ a - s = j
          /\ ~Within(a, <<cfg.org, program.code_end>>)
      <3> HIDE DEF s
      <3>1. a \in Nat /\ a < s + program.blobs[b].len /\ s <= a /\ a - s = j /\ j \in Nat
        BY <2>1
      <3>2. a < Space /\ ~(a < program.code_end)
        BY <1>1, <2>1, <3>1
      <3> HIDE DEF a
      <3> QED BY <1>1, <2>1, <3>1, <3>2 DEF Addr, Within, s
    <2> HIDE DEF a
    <2>3. ~Within(a, Payload)
      BY <1>2, <1>4, <2>2, BuiltPayload, NotBoth
    <2>4. ASSUME NEW c \in DOMAIN program.blobs, c # b PROVE ~Within(a, BlobImage(c))
      BY <1>4, <2>2, <2>4, ImagesApart, NotBoth
    <2>5. Holder(a) = b
      <3>1. Holder(a) \in DOMAIN program.blobs /\ Within(a, BlobImage(Holder(a)))
        BY <2>2 DEF Holder
      <3> QED BY <2>4, <3>1
    <2>6. Loaded[a] = <<program.blobs[b].name, a - BlobImage(b)[1]>>
      BY <2>2, <2>3, <2>5 DEF Loaded
    <2> QED BY <2>2, <2>6 DEF a
<1> QED BY <1>5, <1>6, <1>7

-----------------------------------------------------------------------------
(* The copies of a program that was built.                                 *)

\* A copy whose direction is the one it needs.
Right(c) == c.down <=> Descending(c.src, c.dst, c.len)

\* The head move of an in-place layout.
LEMMA BuiltHead ==
    ASSUME Built, InPlace
    PROVE  /\ Sound(HeadMove) /\ Right(HeadMove)
           /\ HeadMove.src = program.payload_data + (cfg.payload.len - program.head)
           /\ HeadMove.dst = cfg.in_place /\ HeadMove.len = program.head
           /\ program.head <= cfg.payload.len /\ Embedded
           /\ cfg.in_place + program.head <= program.payload_data
           /\ program.head < cfg.payload.len =>
                  program.payload_data = cfg.in_place + program.head
<1> DEFINE ce == program.code_end
           len == cfg.payload.len
           head == program.head
           org == cfg.org
           at == cfg.in_place
<1>1. PICK h \in Nat : h = hm
    BY LoopNat DEF Built, LayoutInv
<1> DEFINE boot == BootLen(h)
<1>2. /\ cfg \in Configs /\ org \in Nat /\ ce \in Nat /\ len \in Nat /\ head \in Nat
      /\ at \in Nat /\ at < org /\ head = HeadLen(h) /\ program.payload_data = ce /\ Embedded
      /\ program.end <= Space /\ Space \in Nat
    BY <1>1, BuiltImage DEF PlanAccepts
<1>3. /\ boot \in Nat /\ head <= len
      /\ head < len => head = boot + org - at
    BY <1>1, <1>2, HeadLenType
<1>4. ce = org + boot
    BY <1>1, <1>2 DEF Built, LayoutInv, ProgramInv, Drifted
<1>5. HeadMove = [src |-> org + boot + len - head, dst |-> at, len |-> head, down |-> FALSE]
    BY <1>1 DEF HeadMove
<1>6. ce + len <= Space
    BY <1>2, BuiltPayload
<1>7. head = IF boot + org - at <= len THEN boot + org - at ELSE len
    BY <1>2 DEF HeadLen
<1> HIDE DEF ce, len, head, org, at, boot
<1>8. /\ org + boot + len - head \in Nat /\ org + boot + len - head = ce + (len - head)
      /\ at + head <= ce /\ at + head <= Space /\ org + boot + len - head + head <= Space
      /\ ~(at > org + boot + len - head)
      /\ head < len => ce = at + head
    BY <1>2, <1>3, <1>4, <1>6, <1>7
<1>9. /\ HeadMove.src = org + boot + len - head /\ HeadMove.dst = at /\ HeadMove.len = head
      /\ HeadMove.down = FALSE
    BY <1>5
<1>10. Sound(HeadMove)
    BY <1>2, <1>8, <1>9 DEF Sound
<1>11. Right(HeadMove)
    BY <1>8, <1>9 DEF Right, Descending
<1> QED BY <1>2, <1>3, <1>8, <1>9, <1>10, <1>11 DEF ce, len, head, at

\* The copies of a layout with moves.
LEMMA BuiltMove ==
    ASSUME Built, NEW i \in DOMAIN Moves
    PROVE  /\ Copy(Moves[i]).dst = Moves[i].dst /\ Copy(Moves[i]).len = Moves[i].len
           /\ Copy(Moves[i]).src \in Nat
           /\ Moves[i].dst \in Nat /\ Moves[i].len \in Nat
           /\ Moves[i].dst + Moves[i].len <= Space
           /\ Copy(Moves[i]).down <=> Descending(Known(Moves[i]), Moves[i].dst, Moves[i].len)
           /\ Moves[i].src # None => Copy(Moves[i]).src = Moves[i].src
                                     /\ Known(Moves[i]) = Moves[i].src
           /\ Moves[i].src = None /\ ~InPlace /\ Settled =>
                  Copy(Moves[i]).src = program.payload_data
                  /\ Known(Moves[i]) = program.payload_data
<1> DEFINE mv == Moves[i]
           c == Copy(mv)
<1>1. mv \in Placed
    BY BuiltImage, MovesType
<1>2. mv.src \in Nat \cup {None} /\ mv.dst \in Nat /\ mv.len \in Nat
    BY <1>1 DEF Placed
<1>3. MoveRange(mv)[2] <= Space
    BY BuiltImage DEF Accepted, MoveAccepted
<1>4. mv.dst + mv.len <= Space
    BY <1>3 DEF MoveRange
<1>5. c = [src |-> IF Folded \/ Relocated THEN Known(mv) ELSE SourceOf(mv, program.payload_data),
           dst |-> mv.dst, len |-> mv.len, down |-> Descending(Known(mv), mv.dst, mv.len)]
    BY DEF Copy, CopyGoing
<1>6. /\ c.dst = mv.dst /\ c.len = mv.len
      /\ c.src = IF Folded \/ Relocated THEN Known(mv) ELSE SourceOf(mv, program.payload_data)
      /\ c.down <=> Descending(Known(mv), mv.dst, mv.len)
    BY <1>5
<1>7. mv.src # None => c.src = mv.src /\ Known(mv) = mv.src
    BY <1>6 DEF Known, SourceOf
<1>8. Label(used) \in Nat
    <2>1. used \in Env
      BY DEF Built, LayoutInv, TypeInv
    <2>2. used.payload_data \in Nat \cup {None}
      BY <2>1 DEF Env
    <2> QED BY <2>2, PlacesAssumption, AddressType DEF Label
<1>9. mv.src = None => program.payload_data \in Nat
    <2> HAVE mv.src = None
    <2>1. Embedded
      <3>1. mv = ResolvedMove(cfg.moves[i]) /\ i \in 1 .. Len(cfg.moves)
        BY BuiltImage, MovesType
      <3>2. cfg.moves[i].src \in Address \cup {PayloadSrc}
        <4>1. cfg.moves[i] \in [src : Address \cup {PayloadSrc}, dst : Address, len : Nat,
                                top_align : BOOLEAN]
          BY <3>1, BuiltImage, ConfigType, ElementOfSeq
        <4> QED BY <4>1
      <3>3. mv.src = IF cfg.moves[i].src = PayloadSrc THEN cfg.payload.at ELSE cfg.moves[i].src
        BY <3>1 DEF ResolvedMove
      <3> QED BY <3>2, <3>3, AddressType DEF Embedded, None
    <2> QED BY <2>1, BuiltPayload
<1>10. c.src \in Nat
    BY <1>2, <1>6, <1>8, <1>9 DEF Known, SourceOf
<1>11. mv.src = None /\ ~InPlace /\ Settled => c.src = program.payload_data
                                               /\ Known(mv) = program.payload_data
    <2> HAVE mv.src = None /\ ~InPlace /\ Settled
    <2>1. used.payload_data = program.payload_data
      BY DEF Settled, Built, LayoutInv, ProgramInv, Seen
    <2>2. Label(used) = program.payload_data
      BY <1>9, <2>1 DEF Label, None
    <2> QED BY <1>6, <2>2 DEF Known, SourceOf
<1> HIDE DEF mv, c
<1> QED BY <1>2, <1>4, <1>6, <1>7, <1>10, <1>11 DEF mv, c

\* All copies are within memory and clear of the blobs.
LEMMA BuiltCopies ==
    ASSUME Built
    PROVE  /\ Len(Copies) \in Nat /\ DOMAIN Copies = 1 .. Len(Copies)
           /\ InPlace => Copies = <<HeadMove>> /\ Len(Copies) = 1 /\ Copies[1] = HeadMove
           /\ ~InPlace => /\ DOMAIN Copies = DOMAIN Moves
                          /\ \A i \in DOMAIN Moves : Copies[i] = Copy(Moves[i])
           /\ \A i \in DOMAIN Copies :
                  /\ Sound(Copies[i])
                  /\ \A b \in DOMAIN program.blobs :
                         /\ ~Overlap(Target(Copies[i]), BlobRange(program.blobs[b]))
                         /\ ~Overlap(Source(Copies[i]), BlobRange(program.blobs[b]))
<1>1. CASE InPlace
    <2>1. Copies = <<HeadMove>>
      BY <1>1 DEF Copies
    <2> DEFINE c == HeadMove
    <2>2. /\ Sound(c) /\ Target(c) = <<cfg.in_place, cfg.in_place + program.head>>
      BY <1>1, BuiltHead DEF Target
    <2>3. Target(c) \in Targets
      BY <1>1, <2>2 DEF Targets, HeadWindow
    <2> HIDE DEF c
    <2>4. Len(<<c>>) = 1 /\ DOMAIN <<c>> = 1 .. 1 /\ <<c>>[1] = c
      OBVIOUS
    <2>5. Len(Copies) = 1 /\ DOMAIN Copies = 1 .. 1 /\ Copies[1] = c
      BY <2>1, <2>4 DEF c
    <2>6. \A i \in DOMAIN Copies : Copies[i] = c
      BY <2>5
    <2>7. \A b \in DOMAIN program.blobs :
              /\ ~Overlap(Target(c), BlobRange(program.blobs[b]))
              /\ ~Overlap(Source(c), BlobRange(program.blobs[b]))
      <3>1. 1 \in DOMAIN Copies
        BY <2>5
      <3> QED BY <2>3, <2>5, <3>1, BuiltBlob DEF Built, Careful
    <2> QED BY <1>1, <2>1, <2>2, <2>5, <2>6, <2>7 DEF c
<1>2. CASE ~InPlace
    <2> DEFINE n == Len(cfg.moves)
               S == {Copy(Moves[i]) : i \in DOMAIN Moves}
    <2>1. /\ Copies = [i \in DOMAIN Moves |-> Copy(Moves[i])] /\ DOMAIN Moves = 1 .. n /\ n \in Nat
      BY <1>2, BuiltImage, MovesType DEF Copies
    <2>2. Copies \in Seq(S) /\ DOMAIN Copies = 1 .. n
      <3>1. Copies \in [1 .. n -> S]
        BY <2>1
      <3> HIDE DEF S, n
      <3> QED BY <2>1, <3>1
    <2>3. Len(Copies) \in Nat /\ DOMAIN Copies = 1 .. Len(Copies)
      BY <2>2, LenProperties
    <2>4. ASSUME NEW i \in DOMAIN Copies
          PROVE  /\ Sound(Copies[i])
                 /\ \A b \in DOMAIN program.blobs :
                        /\ ~Overlap(Target(Copies[i]), BlobRange(program.blobs[b]))
                        /\ ~Overlap(Source(Copies[i]), BlobRange(program.blobs[b]))
      <3>1. i \in DOMAIN Moves /\ Copies[i] = Copy(Moves[i])
        BY <2>1
      <3>2. /\ Copies[i].src \in Nat /\ Copies[i].dst = Moves[i].dst /\ Copies[i].len = Moves[i].len
            /\ Moves[i].dst \in Nat /\ Moves[i].len \in Nat
            /\ Moves[i].dst + Moves[i].len <= Space
        BY <3>1, BuiltMove
      <3>3. Source(Copies[i])[2] <= Space
        BY DEF Built, Careful
      <3>4. Sound(Copies[i])
        BY <3>2, <3>3 DEF Sound, Source
      <3>5. Target(Copies[i]) = MoveRange(Moves[i])
        BY <3>2 DEF Target, MoveRange
      <3>6. Target(Copies[i]) \in Targets
        BY <3>1, <3>5 DEF Targets
      <3> QED BY <3>4, <3>6, BuiltBlob DEF Built, Careful
    <2> QED BY <1>2, <2>1, <2>3, <2>4
<1> QED BY <1>1, <1>2

-----------------------------------------------------------------------------
(* The memory between the steps of the boot code.                          *)

InRuns(a) == \E b \in DOMAIN program.blobs : Within(a, BlobRange(program.blobs[b]))
InTargets(a, k) == \E i \in DOMAIN Copies : i < k /\ Within(a, Target(Copies[i]))

\* Blob b is where it runs.
BlobIn(m, b) ==
    \A j \in 0 .. (program.blobs[b].len - 1) :
        m[program.blobs[b].at + j] = <<program.blobs[b].name, j>>

\* Before blob k is installed: those before it are, all else is as loaded.
InstallMem(m, k) ==
    /\ \A b \in DOMAIN program.blobs : b < k => BlobIn(m, b)
    /\ \A a \in Addr : ~InRuns(a) => m[a] = Loaded[a]

\* Before copy k is made: the blobs are installed, the copies before it that go
\* the right way are made, all else is as loaded.
MoveMem(m, k) ==
    /\ \A b \in DOMAIN program.blobs : BlobIn(m, b)
    /\ \A a \in Addr : ~InRuns(a) /\ ~InTargets(a, k) => m[a] = Loaded[a]
    /\ \A i \in DOMAIN Copies : i < k /\ Right(Copies[i]) =>
           Copied(m, Loaded, Copies[i].src, Copies[i].dst, Copies[i].len)

\* An address of the image is in no blob's run range.
LEMMA ImageKept ==
    ASSUME Built, NEW a \in Nat, cfg.org <= a, a < program.end
    PROVE  ~InRuns(a) /\ a \in Addr
<1>1. Within(a, Image) /\ IsRange(Image) /\ a \in Addr
    BY BuiltImage DEF Image, Within, IsRange, Addr
<1> QED BY <1>1, BuiltBlob, NotBoth DEF InRuns

\* The loaded program, before any blob is installed.
LEMMA LoadMem ==
    ASSUME Built
    PROVE  InstallMem(Loaded, 1)
<1>1. \A b \in DOMAIN program.blobs : ~(b < 1)
    BY BuiltStored
<1> QED BY <1>1 DEF InstallMem

\* A blob is installed.
LEMMA InstallMemStep ==
    ASSUME Built, NEW m, NEW k \in DOMAIN program.blobs, InstallMem(m, k)
    PROVE  InstallMem(Up(m, BlobImage(k)[1], program.blobs[k].at, program.blobs[k].len), k + 1)
<1> DEFINE s == BlobImage(k)[1]
           d == program.blobs[k].at
           n == program.blobs[k].len
           m2 == Up(m, s, d, n)
<1>1. /\ s \in Nat /\ d \in Nat /\ n \in Nat /\ d + n <= Space /\ s + n <= program.end
      /\ program.end <= Space /\ program.end \in Nat /\ cfg.org \in Nat /\ cfg.org <= s
      /\ Space \in Nat /\ BlobRange(program.blobs[k]) = <<d, d + n>>
    <2>1. program.code_end <= s /\ cfg.org <= program.code_end /\ program.code_end \in Nat
          /\ cfg.org \in Nat /\ s \in Nat
      BY BuiltStored, BuiltImage
    <2>2. cfg.org <= s
      <3> HIDE DEF s
      <3> QED BY <2>1
    <2> QED BY <2>2, BuiltBlob, BuiltStored, BuiltImage DEF BlobRange
<1>2. ~Descending(s, d, n)
    <2>1. ~(d < program.end /\ cfg.org < d + n)
      BY <1>1, BuiltBlob DEF Overlap, Image
    <2> HIDE DEF s, d, n
    <2> QED BY <1>1, <2>1 DEF Descending
<1>3. /\ Copied(m2, m, s, d, n)
      /\ \A a \in Addr : ~Within(a, <<d, d + n>>) => m2[a] = m[a]
    <2> HIDE DEF s, d, n
    <2>1. s + n <= Space
      BY <1>1
    <2> QED BY <1>1, <1>2, <2>1, UpCopies
<1>4. BlobIn(m2, k)
    <2>1. ASSUME NEW j \in 0 .. (n - 1) PROVE m2[d + j] = <<program.blobs[k].name, j>>
      <3>1. m2[d + j] = m[s + j]
        BY <1>3 DEF Copied
      <3>2. s + j \in Nat /\ cfg.org <= s + j /\ s + j < program.end
        <4> HIDE DEF s, n
        <4> QED BY <1>1
      <3>3. m[s + j] = Loaded[s + j]
        BY <3>2, ImageKept DEF InstallMem
      <3> QED BY <3>1, <3>3, BuiltLoaded
    <2> QED BY <2>1 DEF BlobIn
<1>5. ASSUME NEW b \in DOMAIN program.blobs, b # k, BlobIn(m, b) PROVE BlobIn(m2, b)
    <2> DEFINE x == program.blobs[b].at
               l == program.blobs[b].len
    <2>1. ASSUME NEW j \in 0 .. (l - 1) PROVE m2[x + j] = <<program.blobs[b].name, j>>
      <3>1. x \in Nat /\ l \in Nat /\ x + l <= Space
            /\ IsRange(BlobRange(program.blobs[b])) /\ IsRange(BlobRange(program.blobs[k]))
            /\ BlobRange(program.blobs[b]) = <<x, x + l>>
        BY BuiltBlob DEF BlobRange
      <3>2. x + j \in Nat /\ x + j \in Addr /\ Within(x + j, BlobRange(program.blobs[b]))
        <4> HIDE DEF x, l
        <4> QED BY <1>1, <3>1 DEF Addr, Within
      <3>3. ~Overlap(BlobRange(program.blobs[b]), BlobRange(program.blobs[k]))
        BY <1>5 DEF Built, Careful
      <3>4. ~Within(x + j, <<d, d + n>>)
        BY <1>1, <3>1, <3>2, <3>3, NotBoth
      <3>5. m2[x + j] = m[x + j]
        BY <1>3, <3>2, <3>4
      <3> QED BY <1>5, <3>5 DEF BlobIn
    <2> QED BY <2>1 DEF BlobIn
<1>6. \A b \in DOMAIN program.blobs : b < k + 1 => BlobIn(m2, b)
    <2>1. ASSUME NEW b \in DOMAIN program.blobs, b < k + 1 PROVE b = k \/ b < k
      BY <2>1, BuiltStored
    <2> QED BY <1>4, <1>5, <2>1 DEF InstallMem
<1>7. \A a \in Addr : ~InRuns(a) => m2[a] = Loaded[a]
    <2>1. ASSUME NEW a \in Addr, ~InRuns(a) PROVE m2[a] = Loaded[a]
      <3>1. ~Within(a, <<d, d + n>>)
        BY <1>1, <2>1 DEF InRuns
      <3> QED BY <1>3, <2>1, <3>1 DEF InstallMem
    <2> QED BY <2>1
<1> QED BY <1>6, <1>7 DEF InstallMem

\* All blobs are installed.
LEMMA InstalledMem ==
    ASSUME Built, NEW m, InstallMem(m, Len(program.blobs) + 1)
    PROVE  MoveMem(m, 1)
<1>1. \A b \in DOMAIN program.blobs : b < Len(program.blobs) + 1
    <2>1. DOMAIN program.blobs = 1 .. Len(program.blobs) /\ Len(program.blobs) \in Nat
      BY BuiltImage, LenProperties
    <2> QED BY <2>1
<1>2. \A i \in DOMAIN Copies : ~(i < 1)
    BY BuiltCopies
<1> QED BY <1>1, <1>2 DEF InstallMem, MoveMem, InTargets

\* A copy is made.
LEMMA MoveMemStep ==
    ASSUME Built, NEW m, NEW k \in DOMAIN Copies, MoveMem(m, k)
    PROVE  MoveMem(Done(m, Copies[k]), k + 1)
<1> DEFINE c == Copies[k]
           m2 == Done(m, c)
<1>1. Sound(c) /\ k \in Nat
    BY BuiltCopies
<1>2. /\ Right(c) => Copied(m2, m, c.src, c.dst, c.len)
      /\ \A a \in Addr : ~Within(a, Target(c)) => m2[a] = m[a]
    <2> HIDE DEF c
    <2> QED BY <1>1, DoneCopies DEF Right
<1>3. c.src \in Nat /\ c.dst \in Nat /\ c.len \in Nat /\ c.src + c.len <= Space
      /\ c.dst + c.len <= Space /\ IsRange(Target(c)) /\ IsRange(Source(c)) /\ Space \in Nat
    BY <1>1, SpaceAssumption DEF Sound, IsRange, Target, Source
<1>4. ASSUME NEW b \in DOMAIN program.blobs PROVE BlobIn(m2, b)
    <2> DEFINE x == program.blobs[b].at
               l == program.blobs[b].len
    <2>1. ASSUME NEW j \in 0 .. (l - 1) PROVE m2[x + j] = <<program.blobs[b].name, j>>
      <3>1. x \in Nat /\ l \in Nat /\ x + l <= Space
            /\ IsRange(BlobRange(program.blobs[b]))
            /\ BlobRange(program.blobs[b]) = <<x, x + l>>
        BY BuiltBlob DEF BlobRange
      <3>2. x + j \in Nat /\ x + j \in Addr /\ Within(x + j, BlobRange(program.blobs[b]))
        <4> HIDE DEF x, l
        <4> QED BY <1>3, <3>1 DEF Addr, Within
      <3>3. ~Overlap(Target(c), BlobRange(program.blobs[b]))
        BY BuiltCopies
      <3>4. ~Within(x + j, Target(c))
        BY <1>3, <3>1, <3>2, <3>3, NotBoth
      <3>5. m2[x + j] = m[x + j]
        BY <1>2, <3>2, <3>4
      <3> QED BY <3>5 DEF BlobIn, MoveMem
    <2> QED BY <2>1 DEF BlobIn
<1>5. ASSUME NEW a \in Addr, ~InRuns(a), ~InTargets(a, k + 1) PROVE m2[a] = Loaded[a]
    <2>1. ~Within(a, Target(c))
      BY <1>1, <1>5 DEF InTargets
    <2>2. ~InTargets(a, k)
      <3>1. \A i \in DOMAIN Copies : i < k => i < k + 1
        BY <1>1, BuiltCopies
      <3> QED BY <1>5, <3>1 DEF InTargets
    <2> QED BY <1>2, <1>5, <2>1, <2>2 DEF MoveMem
<1>6. ASSUME NEW i \in DOMAIN Copies, i < k + 1, Right(Copies[i])
      PROVE  Copied(m2, Loaded, Copies[i].src, Copies[i].dst, Copies[i].len)
    <2> DEFINE e == Copies[i]
    <2>1. CASE i = k
      <3>1. ASSUME NEW j \in 0 .. (c.len - 1) PROVE m[c.src + j] = Loaded[c.src + j]
        <4>1. c.src + j \in Nat /\ c.src + j \in Addr /\ Within(c.src + j, Source(c))
          <5> DEFINE s == c.src
                     n == c.len
          <5>1. Source(c) = <<s, s + n>>
            BY DEF Source
          <5> HIDE DEF s, n
          <5>2. s + j \in Nat /\ s + j \in Addr /\ Within(s + j, <<s, s + n>>)
            BY <1>3 DEF Addr, Within, s, n
          <5> QED BY <5>1, <5>2 DEF s
        <4>2. ~InRuns(c.src + j)
          <5>1. \A b \in DOMAIN program.blobs : ~Overlap(Source(c), BlobRange(program.blobs[b]))
                                                /\ IsRange(BlobRange(program.blobs[b]))
            BY BuiltCopies, BuiltBlob
          <5> QED BY <1>3, <4>1, <5>1, NotBoth DEF InRuns
        <4>3. ~InTargets(c.src + j, k)
          <5>1. ASSUME NEW h \in DOMAIN Copies, h < k PROVE ~Within(c.src + j, Target(Copies[h]))
            <6>1. h # k
              BY <1>1, <5>1
            <6>2. ~Overlap(Target(Copies[h]), Source(c))
              BY <6>1 DEF Built, Careful
            <6>3. IsRange(Target(Copies[h]))
              <7>1. Sound(Copies[h])
                BY BuiltCopies
              <7> QED BY <7>1 DEF Sound, IsRange, Target
            <6> QED BY <1>3, <4>1, <6>2, <6>3, NotBoth
          <5> QED BY <5>1 DEF InTargets
        <4> QED BY <4>1, <4>2, <4>3 DEF MoveMem
      <3>2. Copied(m2, m, c.src, c.dst, c.len)
        BY <1>2, <1>6, <2>1
      <3> QED BY <2>1, <3>1, <3>2 DEF Copied
    <2>2. CASE i # k
      <3>1. i < k /\ Sound(e)
        BY <1>1, <1>6, <2>2, BuiltCopies
      <3>2. Copied(m, Loaded, e.src, e.dst, e.len)
        BY <1>6, <3>1 DEF MoveMem
      <3>3. ASSUME NEW j \in 0 .. (e.len - 1) PROVE m2[e.dst + j] = m[e.dst + j]
        <4>1. e.dst \in Nat /\ e.len \in Nat /\ e.dst + e.len <= Space
              /\ Target(e) = <<e.dst, e.dst + e.len>> /\ IsRange(Target(e))
          BY <3>1 DEF Sound, Target, IsRange
        <4>2. e.dst + j \in Nat /\ e.dst + j \in Addr /\ Within(e.dst + j, Target(e))
          <5> DEFINE x == e.dst
                     l == e.len
          <5> HIDE DEF x, l
          <5>1. x + j \in Nat /\ x + j \in Addr /\ Within(x + j, <<x, x + l>>)
            BY <1>3, <4>1 DEF Addr, Within, x, l
          <5> QED BY <4>1, <5>1 DEF x, l
        <4>3. ~Overlap(Target(e), Target(c))
          BY <2>2 DEF Built, Careful
        <4>4. ~Within(e.dst + j, Target(c))
          BY <1>3, <4>1, <4>2, <4>3, NotBoth
        <4> QED BY <1>2, <4>2, <4>4
      <3> QED BY <3>2, <3>3 DEF Copied
    <2> QED BY <2>1, <2>2
<1> QED BY <1>4, <1>5, <1>6 DEF MoveMem

-----------------------------------------------------------------------------
(* Who runs is intact.                                                     *)

\* Intact, for a memory m.
IntactIn(m, name) ==
    LET r == RunRange(name) IN \A a \in r[1] .. (r[2] - 1) : m[a] = <<name, a - r[1]>>

\* The blob with a name.
LEMMA NamedBlob ==
    ASSUME Built
    PROVE  /\ Staged => \E b \in DOMAIN program.blobs :
                  /\ program.blobs[b].name = "staged_decruncher"
                  /\ RunRange("staged_decruncher") = BlobRange(program.blobs[b])
           /\ Relocated => \E b \in DOMAIN program.blobs :
                  /\ program.blobs[b].name = "relocated_mover"
                  /\ RunRange("relocated_mover") = BlobRange(program.blobs[b])
<1>1. PICK l : Shape(program.blobs, l)
    BY BuiltImage
<1>2. Staged => \E b \in DOMAIN program.blobs : program.blobs[b].name = "staged_decruncher"
    <2> HAVE Staged
    <2>1. 1 \in DOMAIN program.blobs /\ program.blobs[1].name = "staged_decruncher"
      BY <1>1 DEF Shape
    <2> QED BY <2>1
<1>3. Relocated => \E b \in DOMAIN program.blobs : program.blobs[b].name = "relocated_mover"
    <2> HAVE Relocated
    <2>1. CASE Staged
      <3>1. 2 \in DOMAIN program.blobs /\ program.blobs[2].name = "relocated_mover"
        BY <1>1, <2>1 DEF Shape
      <3> QED BY <3>1
    <2>2. CASE ~Staged
      <3>1. 1 \in DOMAIN program.blobs /\ program.blobs[1].name = "relocated_mover"
        BY <1>1, <2>2 DEF Shape
      <3> QED BY <3>1
    <2> QED BY <2>1, <2>2
<1>4. ASSUME NEW name \in {"staged_decruncher", "relocated_mover"},
             NEW b \in DOMAIN program.blobs, program.blobs[b].name = name
      PROVE  \E c \in DOMAIN program.blobs :
                 /\ program.blobs[c].name = name
                 /\ RunRange(name) = BlobRange(program.blobs[c])
    <2> DEFINE c == CHOOSE x \in DOMAIN program.blobs : program.blobs[x].name = name
    <2>1. c \in DOMAIN program.blobs /\ program.blobs[c].name = name
      BY <1>4
    <2>2. RunRange(name) = BlobRange(program.blobs[c])
      BY DEF RunRange
    <2> QED BY <2>1, <2>2
<1> QED BY <1>2, <1>3, <1>4

\* A blob where it runs is intact.
LEMMA BlobIntact ==
    ASSUME Built, NEW m, NEW name, NEW b \in DOMAIN program.blobs,
           program.blobs[b].name = name, RunRange(name) = BlobRange(program.blobs[b]),
           BlobIn(m, b)
    PROVE  IntactIn(m, name)
<1> DEFINE x == program.blobs[b].at
           l == program.blobs[b].len
<1>1. x \in Nat /\ l \in Nat /\ RunRange(name) = <<x, x + l>>
    BY BuiltBlob DEF BlobRange
<1>2. ASSUME NEW a \in x .. (x + l - 1) PROVE m[a] = <<name, a - x>>
    <2>1. a - x \in 0 .. (l - 1) /\ x + (a - x) = a
      <3> HIDE DEF x, l
      <3> QED BY <1>1
    <2>2. m[x + (a - x)] = <<name, a - x>>
      BY <2>1 DEF BlobIn
    <2> QED BY <2>1, <2>2
<1>3. IntactIn(m, name) <=> \A a \in x .. (x + l - 1) : m[a] = <<name, a - x>>
    <2> HIDE DEF x, l
    <2>1. <<x, x + l>>[1] = x /\ <<x, x + l>>[2] = x + l
      OBVIOUS
    <2> QED BY <1>1, <2>1 DEF IntactIn
<1> QED BY <1>2, <1>3

\* The program itself is intact where nothing has been written to it.
LEMMA ProgramIntact ==
    ASSUME Built, NEW m, \A a \in cfg.org .. (program.code_end - 1) : m[a] = Loaded[a]
    PROVE  IntactIn(m, "program")
<1>1. RunRange("program") = <<cfg.org, program.code_end>>
    BY DEF RunRange
<1>2. <<cfg.org, program.code_end>>[1] = cfg.org /\ <<cfg.org, program.code_end>>[2] = program.code_end
    OBVIOUS
<1> QED BY <1>1, <1>2, BuiltLoaded DEF IntactIn

\* While the blobs are installed the program runs.
LEMMA InstallIntact ==
    ASSUME Built, NEW m, NEW k, InstallMem(m, k)
    PROVE  IntactIn(m, "program")
<1>1. ASSUME NEW a \in cfg.org .. (program.code_end - 1) PROVE m[a] = Loaded[a]
    <2>1. a \in Nat /\ cfg.org <= a /\ a < program.end
      BY BuiltImage
    <2> QED BY <2>1, ImageKept DEF InstallMem
<1> QED BY <1>1, ProgramIntact

\* Moves made by code of the program itself, or before an unstaged decoder,
\* do not reach the image.
LEMMA MovesOffImage ==
    ASSUME Built, Mover = "program" \/ Decoder = "program", NEW i \in DOMAIN Copies
    PROVE  ~Overlap(Target(Copies[i]), Image)
<1>1. ~InPlace
    BY BuiltImage DEF Mover, Decoder, PlanAccepts
<1>2. i \in DOMAIN Moves /\ Copies[i] = Copy(Moves[i])
    BY <1>1, BuiltCopies
<1>3. Target(Copies[i]) = MoveRange(Moves[i])
    BY <1>2, BuiltMove DEF Target, MoveRange
<1>4. cfg.moves # <<>>
    <2>1. i \in 1 .. Len(cfg.moves)
      BY <1>2, BuiltImage, MovesType
    <2> QED BY <2>1, EmptySeq
<1>5. MoveAccepted(Moves[i])
    BY <1>2, BuiltImage DEF Accepted
<1>6. Overlap(MoveRange(Moves[i]), Image) => Staged /\ (cfg.mover_at # None \/ cfg.fold)
    BY <1>5 DEF MoveAccepted
<1>7. Staged /\ (cfg.mover_at # None \/ cfg.fold) => Folded \/ Relocated
    BY <1>4 DEF Folded, Relocated
<1> QED BY <1>3, <1>6, <1>7 DEF Mover, Decoder

\* What makes the moves, and the decoder behind them, are intact.
LEMMA MoveIntact ==
    ASSUME Built, NEW m, NEW k, MoveMem(m, k)
    PROVE  IntactIn(m, Mover) /\ IntactIn(m, Decoder)
<1>1. Staged => IntactIn(m, "staged_decruncher")
    BY NamedBlob, BlobIntact DEF MoveMem
<1>2. Relocated => IntactIn(m, "relocated_mover")
    BY NamedBlob, BlobIntact DEF MoveMem
<1>3. InPlace \/ Folded => Staged
    BY BuiltImage DEF PlanAccepts, Folded
<1>4. Mover = "program" \/ Decoder = "program" => IntactIn(m, "program")
    <2> HAVE Mover = "program" \/ Decoder = "program"
    <2>1. ASSUME NEW a \in cfg.org .. (program.code_end - 1) PROVE m[a] = Loaded[a]
      <3>1. a \in Nat /\ cfg.org <= a /\ a < program.end /\ Within(a, Image) /\ IsRange(Image)
        BY BuiltImage DEF Within, Image, IsRange
      <3>2. ASSUME NEW i \in DOMAIN Copies PROVE ~Within(a, Target(Copies[i]))
        <4>1. Sound(Copies[i])
          BY BuiltCopies
        <4>2. IsRange(Target(Copies[i]))
          BY <4>1 DEF Sound, IsRange, Target
        <4> QED BY <3>1, <4>2, MovesOffImage, NotBoth
      <3>3. ~InTargets(a, k)
        BY <3>2 DEF InTargets
      <3> QED BY <3>1, <3>3, ImageKept DEF MoveMem
    <2> QED BY <2>1, ProgramIntact
<1> QED BY <1>1, <1>2, <1>3, <1>4 DEF Mover, Decoder

-----------------------------------------------------------------------------
(* The decoder, the stream and the moved data.                             *)

\* What the decoder leaves of the memory m.
Decoded(m) ==
    [a \in Addr |-> IF Within(a, Output) THEN <<"output", a - cfg.out.at>>
                    ELSE IF HasScratch /\ Within(a, Scratch) THEN <<"scratch", a>>
                    ELSE m[a]]

\* An output of known length and the scratch buffer keep clear of the decoder.
LEMMA DecoderKeptClear ==
    ASSUME Built, cfg.out.known
    PROVE  /\ IsRange(Output) /\ IsRange(Scratch) /\ IsRange(RunRange(Decoder))
           /\ RunRange(Decoder)[2] <= Space
           /\ ~Overlap(Output, RunRange(Decoder))
           /\ HasScratch => ~Overlap(Scratch, RunRange(Decoder))
<1>1. cfg \in Configs /\ OutputAccepted /\ ScratchAccepted
    BY BuiltImage DEF Accepted
<1>2. /\ cfg.out.at \in Nat /\ cfg.out.len \in Nat
      /\ cfg.scratch.at \in Nat /\ cfg.scratch.len \in Nat
    <2>1. cfg.out \in [at : Address, len : Nat, known : BOOLEAN]
          /\ cfg.scratch \in [at : Address, len : Nat]
      BY <1>1, ConfigsAssumption
    <2> QED BY <2>1, AddressType
<1>3. IsRange(Output) /\ IsRange(Scratch)
    BY <1>2 DEF IsRange, Output, Scratch
<1>4. SeenOutput = Output
    BY DEF SeenOutput
<1>5. CASE Staged
    <2>1. PICK b \in DOMAIN program.blobs :
              RunRange("staged_decruncher") = BlobRange(program.blobs[b])
      BY <1>5, NamedBlob
    <2>2. RunRange(Decoder) = BlobRange(program.blobs[b])
      BY <1>5, <2>1 DEF Decoder
    <2>3. IsRange(RunRange(Decoder)) /\ RunRange(Decoder)[2] <= Space
      BY <2>2, BuiltBlob DEF BlobRange
    <2>4. ~Overlap(Output, RunRange(Decoder)) /\ (HasScratch => ~Overlap(Scratch, RunRange(Decoder)))
      BY <1>1, <1>4, <2>2 DEF OutputAccepted, ScratchAccepted
    <2> QED BY <1>3, <2>3, <2>4
<1>6. CASE ~Staged
    <2>1. RunRange(Decoder) = <<cfg.org, program.code_end>>
      BY <1>6 DEF Decoder, RunRange
    <2>2. /\ cfg.org \in Nat /\ program.code_end \in Nat /\ program.end \in Nat
          /\ cfg.org <= program.code_end /\ program.code_end <= program.end
          /\ program.end <= Space /\ Space \in Nat
      BY BuiltImage
    <2>3. ~Overlap(Output, Image) /\ (HasScratch => ~Overlap(Scratch, Image))
      BY <1>1, <1>4, <1>6 DEF OutputAccepted, ScratchAccepted
    <2>4. Image[1] = cfg.org /\ Image[2] = program.end
      BY DEF Image
    <2>5. ASSUME NEW r, IsRange(r), ~Overlap(r, Image)
          PROVE  ~Overlap(r, <<cfg.org, program.code_end>>)
      BY <2>2, <2>4, <2>5 DEF Overlap, IsRange
    <2> QED BY <1>3, <2>1, <2>2, <2>3, <2>5 DEF IsRange
<1> QED BY <1>5, <1>6

\* The decoder does not overwrite itself.
LEMMA DecoderIntact ==
    ASSUME Built, cfg.out.known, NEW m, IntactIn(m, Decoder)
    PROVE  IntactIn(Decoded(m), Decoder)
<1> DEFINE r == RunRange(Decoder)
<1>1. /\ IsRange(Output) /\ IsRange(Scratch) /\ IsRange(r) /\ r[2] <= Space
      /\ ~Overlap(Output, r) /\ (HasScratch => ~Overlap(Scratch, r))
    BY DecoderKeptClear
<1>2. ASSUME NEW a \in r[1] .. (r[2] - 1) PROVE Decoded(m)[a] = m[a]
    <2> HIDE DEF r
    <2>1. a \in Nat /\ a \in Addr /\ Within(a, r)
      BY <1>1, SpaceAssumption DEF IsRange, Addr, Within
    <2>2. ~Within(a, Output) /\ (HasScratch => ~Within(a, Scratch))
      BY <1>1, <2>1, NotBoth
    <2> QED BY <2>1, <2>2 DEF Decoded
<1> QED BY <1>2 DEF IntactIn

\* The stream is where the decoder looks for it.
StreamIn(m) == \A i \in 0 .. (cfg.payload.len - 1) : m[StreamAt + i] = <<"payload", i>>

\* The last of the moves of the payload.
LEMMA LastPayload ==
    ASSUME Built, PayloadMoves # {}
    PROVE  LastPayloadMove \in PayloadMoves
<1> DEFINE n == Len(cfg.moves)
           T == {n - i : i \in PayloadMoves}
<1>1. PayloadMoves \subseteq 1 .. n /\ n \in Nat
    BY BuiltImage, MovesType DEF PayloadMoves
<1> HIDE DEF n
<1>2. T \subseteq Nat /\ T # {}
    <2>1. \A i \in PayloadMoves : n - i \in Nat
      BY <1>1
    <2> QED BY <2>1
<1>3. PICK x \in T : \A y \in T : x <= y
    BY <1>2, LeastNatural
<1>4. PICK i \in PayloadMoves : x = n - i
    BY <1>3
<1>5. \A j \in PayloadMoves : j <= i
    <2>1. ASSUME NEW j \in PayloadMoves PROVE j <= i
      <3>1. n - i <= n - j
        BY <1>3, <1>4
      <3> QED BY <1>1, <3>1
    <2> QED BY <2>1
<1> QED BY <1>4, <1>5 DEF LastPayloadMove

\* The stream of an in-place layout: its head has been moved in front of the
\* bulk, which was loaded there.
LEMMA StreamInPlace ==
    ASSUME Built, InPlace, NEW m, MoveMem(m, Len(Copies) + 1)
    PROVE  StreamIn(m)
<1> DEFINE len == cfg.payload.len
           head == program.head
           at == cfg.in_place
           pd == program.payload_data
           c == HeadMove
<1>1. /\ Sound(c) /\ Right(c) /\ c.src = pd + (len - head) /\ c.dst = at /\ c.len = head
      /\ head <= len /\ Embedded /\ at + head <= pd
      /\ head < len => pd = at + head
    BY BuiltHead
<1>2. /\ len \in Nat /\ head \in Nat /\ at \in Nat /\ Payload[1] = pd /\ pd \in Nat
      /\ pd + len <= Space /\ Space \in Nat
    BY <1>1, BuiltImage, BuiltPayload
<1>3. Len(Copies) = 1 /\ 1 \in DOMAIN Copies /\ Copies[1] = c /\ DOMAIN Copies = 1 .. 1
    <2>1. Len(Copies) = 1 /\ Copies[1] = c /\ DOMAIN Copies = 1 .. Len(Copies)
      BY BuiltCopies
    <2> HIDE DEF c
    <2> QED BY <2>1
<1>4. StreamAt = at
    BY <1>2 DEF StreamAt, CompData, None
<1>5. Copied(m, Loaded, c.src, c.dst, c.len)
    <2>1. 1 < Len(Copies) + 1
      BY <1>3
    <2> QED BY <1>1, <1>3, <2>1 DEF MoveMem
<1>6. \A i \in 0 .. (len - 1) : Loaded[pd + i] = <<"payload", (i + head) % len>>
    BY <1>2, BuiltLoaded DEF StreamOffset
<1>7. \A r \in Runs : ~Overlap(<<at, at + len>>, r)
    BY <1>4 DEF Built, Careful, Stream
<1>8. \A a : InTargets(a, Len(Copies) + 1) => Within(a, Target(c))
    BY <1>3 DEF InTargets
<1> HIDE DEF len, head, at, pd, c
<1>9. ASSUME NEW i \in 0 .. (len - 1) PROVE m[at + i] = <<"payload", i>>
    <2>1. CASE i < head
      <3>1. m[at + i] = Loaded[pd + (len - head) + i]
        <4>1. i \in 0 .. (head - 1)
          BY <1>2, <2>1
        <4>2. \A j \in 0 .. (head - 1) : m[at + j] = Loaded[pd + (len - head) + j]
          BY <1>1, <1>5 DEF Copied
        <4> QED BY <4>1, <4>2
      <3>2. /\ len - head + i \in 0 .. (len - 1) /\ pd + (len - head) + i = pd + (len - head + i)
            /\ (len - head + i) + head = i + len /\ i \in Nat /\ i < len
        BY <1>1, <1>2, <2>1
      <3>3. (i + len) % len = i
        BY <1>2, <3>2, ModSmall
      <3> QED BY <1>6, <3>1, <3>2, <3>3
    <2>2. CASE ~(i < head)
      <3>1. /\ i - head \in 0 .. (len - 1) /\ at + i = pd + (i - head) /\ i - head + head = i
            /\ i \in Nat /\ i < len /\ at + i \in Nat /\ at + i < Space
        BY <1>1, <1>2, <2>2
      <3>2. at + i \in Addr /\ Within(at + i, <<at, at + len>>) /\ IsRange(<<at, at + len>>)
        BY <1>2, <3>1 DEF Addr, Within, IsRange
      <3>3. ~InRuns(at + i)
        BY <1>7, <3>1, <3>2, BuiltBlob, NotBoth DEF InRuns
      <3>4. ~Within(at + i, Target(c))
        <4>1. Target(c) = <<at, at + head>>
          BY <1>1 DEF Target
        <4> QED BY <1>2, <2>2, <4>1 DEF Within
      <3>5. m[at + i] = Loaded[pd + (i - head)]
        BY <1>8, <3>1, <3>2, <3>3, <3>4 DEF MoveMem
      <3>6. i % len = i
        BY <1>2, <3>1, ModSmall
      <3> QED BY <1>6, <3>1, <3>5, <3>6
    <2> QED BY <2>1, <2>2
<1> QED BY <1>4, <1>9 DEF StreamIn, len

\* The stream of a layout that moves it: the last move that takes it somewhere
\* has taken it whole.
LEMMA StreamMoved ==
    ASSUME Built, ~InPlace, PayloadMoves # {}, Settled, NEW m, MoveMem(m, Len(Copies) + 1)
    PROVE  StreamIn(m)
<1> DEFINE k == LastPayloadMove
           mv == Moves[k]
           c == Copies[k]
           len == cfg.payload.len
<1>1. /\ k \in DOMAIN Moves /\ k \in DOMAIN Copies /\ c = Copy(mv)
      /\ cfg.moves[k].src = PayloadSrc /\ Moves[k] = ResolvedMove(cfg.moves[k])
    <2>1. k \in PayloadMoves
      BY LastPayload
    <2> HIDE DEF k
    <2> QED BY <2>1, BuiltImage, MovesType, BuiltCopies DEF PayloadMoves
<1>2. mv.src = cfg.payload.at /\ mv.len = len
    BY <1>1 DEF ResolvedMove
<1>3. c.dst = mv.dst /\ c.len = len /\ mv.dst \in Nat
    BY <1>1, <1>2, BuiltMove
<1>4. Right(c) /\ c.src = Payload[1]
    <2>1. CASE mv.src = None
      <3>1. Embedded
        BY <1>2, <2>1 DEF Embedded
      <3>2. c.src = program.payload_data /\ Known(mv) = program.payload_data
        BY <1>1, <2>1, BuiltMove
      <3> QED BY <1>1, <1>2, <1>3, <3>1, <3>2, BuiltMove, BuiltPayload DEF Right
    <2>2. CASE mv.src # None
      <3>1. ~Embedded
        BY <1>2, <2>2 DEF Embedded
      <3>2. c.src = mv.src /\ Known(mv) = mv.src
        BY <1>1, <2>2, BuiltMove
      <3> QED BY <1>1, <1>2, <1>3, <3>1, <3>2, BuiltMove, BuiltPayload DEF Right
    <2> QED BY <2>1, <2>2
<1>5. StreamAt = mv.dst
    BY <1>3 DEF StreamAt, CompData, None
<1>6. Copied(m, Loaded, c.src, c.dst, c.len)
    <2>1. k < Len(Copies) + 1
      BY <1>1, BuiltCopies
    <2> QED BY <1>1, <1>4, <2>1 DEF MoveMem
<1>7. len \in Nat /\ program.head = 0
    BY BuiltImage
<1> HIDE DEF k, mv, c, len
<1>8. ASSUME NEW i \in 0 .. (len - 1) PROVE m[StreamAt + i] = <<"payload", i>>
    <2>1. m[StreamAt + i] = Loaded[Payload[1] + i]
      BY <1>3, <1>4, <1>5, <1>6 DEF Copied
    <2>2. Loaded[Payload[1] + i] = <<"payload", StreamOffset(i)>>
      BY BuiltLoaded DEF len
    <2>3. StreamOffset(i) = i % len
      BY <1>7 DEF StreamOffset, len
    <2>4. i % len = i
      <3>1. i \in Nat /\ len \in Nat /\ i < len
        BY <1>7
      <3> QED BY <3>1, ModSmall
    <2> QED BY <2>1, <2>2, <2>3, <2>4
<1> QED BY <1>8 DEF StreamIn, len

\* The stream of a layout that leaves it where it was loaded.
LEMMA StreamLoaded ==
    ASSUME Built, ~InPlace, PayloadMoves = {}, Settled, NEW m, MoveMem(m, Len(Copies) + 1)
    PROVE  StreamIn(m)
<1> DEFINE len == cfg.payload.len
           at == StreamAt
<1>1. at = Payload[1]
    <2>1. CASE Embedded
      <3>1. used.payload_data = program.payload_data
        BY DEF Settled, Built, LayoutInv, ProgramInv, Seen
      <3>2. Payload[1] = program.payload_data /\ Payload[1] \in Nat
        BY <2>1, BuiltPayload
      <3>3. at = Label(used)
        BY <2>1 DEF StreamAt, CompData, Embedded
      <3> QED BY <3>1, <3>2, <3>3 DEF Label, None
    <2>2. CASE ~Embedded
      BY <2>2, BuiltPayload DEF StreamAt, CompData, Embedded
    <2> QED BY <2>1, <2>2
<1>2. /\ len \in Nat /\ program.head = 0 /\ at \in Nat /\ at + len <= Space /\ Space \in Nat
      /\ Stream = <<at, at + len>>
    BY <1>1, BuiltImage, BuiltPayload DEF Stream
<1> HIDE DEF len, at
<1>3. IsRange(Stream)
    BY <1>2 DEF IsRange
<1>4. ASSUME NEW i \in 0 .. (len - 1) PROVE m[at + i] = <<"payload", i>>
    <2>1. at + i \in Nat /\ at + i \in Addr /\ Within(at + i, Stream)
      BY <1>2 DEF Addr, Within
    <2>2. ~InRuns(at + i)
      <3>1. ASSUME NEW b \in DOMAIN program.blobs
            PROVE  IsRange(BlobRange(program.blobs[b])) /\ ~Overlap(Stream, BlobRange(program.blobs[b]))
        BY BuiltBlob DEF Built, Careful
      <3> QED BY <1>3, <2>1, <3>1, NotBoth DEF InRuns
    <2>3. ~InTargets(at + i, Len(Copies) + 1)
      <3>1. ASSUME NEW j \in DOMAIN Copies PROVE ~Within(at + i, Target(Copies[j]))
        <4>1. Sound(Copies[j]) /\ j \in DOMAIN Moves /\ Copies[j] = Copy(Moves[j])
          BY BuiltCopies
        <4>2. Target(Copies[j]) = MoveRange(Moves[j])
          BY <4>1, BuiltMove DEF Target, MoveRange
        <4>3. ~Overlap(Target(Copies[j]), Stream)
          BY <4>1, <4>2 DEF Built, Careful
        <4>4. IsRange(Target(Copies[j]))
          BY <4>1 DEF Sound, IsRange, Target
        <4> QED BY <1>3, <2>1, <4>3, <4>4, NotBoth
      <3> QED BY <3>1 DEF InTargets
    <2>4. m[at + i] = Loaded[Payload[1] + i]
      BY <1>1, <2>1, <2>2, <2>3 DEF MoveMem
    <2>5. Loaded[Payload[1] + i] = <<"payload", StreamOffset(i)>>
      BY BuiltLoaded DEF len
    <2>6. StreamOffset(i) = i % len
      BY <1>2 DEF StreamOffset, len
    <2>7. i % len = i
      <3>1. i \in Nat /\ len \in Nat /\ i < len
        BY <1>2
      <3> QED BY <3>1, ModSmall
    <2> QED BY <2>4, <2>5, <2>6, <2>7
<1> QED BY <1>4 DEF StreamIn, len, at

\* When the moves are made the stream is ready.
LEMMA StreamIsReady ==
    ASSUME Built, Settled, NEW m, MoveMem(m, Len(Copies) + 1)
    PROVE  StreamIn(m)
BY StreamInPlace, StreamMoved, StreamLoaded

\* What move_data asked for has been moved.
MovedIn(m) ==
    \A i \in DOMAIN Moves : cfg.moves[i].src # PayloadSrc =>
        \A j \in 0 .. (Moves[i].len - 1) : m[Moves[i].dst + j] = Loaded[Moves[i].src + j]

\* When the moves are made the data is moved.
LEMMA DataIsMoved ==
    ASSUME Built, ~InPlace, NEW m, MoveMem(m, Len(Copies) + 1)
    PROVE  MovedIn(m)
<1>1. ASSUME NEW i \in DOMAIN Moves, cfg.moves[i].src # PayloadSrc
      PROVE  Copied(m, Loaded, Moves[i].src, Moves[i].dst, Moves[i].len)
    <2>1. i \in DOMAIN Copies /\ Copies[i] = Copy(Moves[i]) /\ i < Len(Copies) + 1
      BY BuiltCopies
    <2>2. Moves[i].src # None
      <3>1. /\ Moves[i] = ResolvedMove(cfg.moves[i]) /\ i \in 1 .. Len(cfg.moves)
            /\ cfg \in Configs
        BY BuiltImage, MovesType
      <3>2. cfg.moves[i] \in [src : Address \cup {PayloadSrc}, dst : Address, len : Nat,
                              top_align : BOOLEAN]
        BY <3>1, ConfigType, ElementOfSeq
      <3>3. cfg.moves[i].src \in Address /\ Moves[i].src = cfg.moves[i].src
        BY <1>1, <3>1, <3>2 DEF ResolvedMove
      <3> QED BY <3>3, AddressType DEF None
    <2>3. /\ Copies[i].src = Moves[i].src /\ Copies[i].dst = Moves[i].dst
          /\ Copies[i].len = Moves[i].len /\ Right(Copies[i])
      BY <2>1, <2>2, BuiltMove DEF Right
    <2>4. Copied(m, Loaded, Copies[i].src, Copies[i].dst, Copies[i].len)
      BY <2>1, <2>3 DEF MoveMem
    <2> QED BY <2>3, <2>4
<1> QED BY <1>1 DEF MovedIn, Copied

-----------------------------------------------------------------------------
(* The steps of the boot code leave the layout as it was built.            *)

\* What plan, render and validate see of it is the same in both states.
LEMMA PartsKept ==
    ASSUME UNCHANGED vars
    PROVE  /\ cfg' = cfg /\ program' = program /\ used' = used /\ hm' = hm /\ env' = env
           /\ phase' = phase /\ pass' = pass
           /\ Moves' = Moves /\ PayloadMoves' = PayloadMoves
           /\ (InPlace' <=> InPlace) /\ (Staged' <=> Staged) /\ (Embedded' <=> Embedded)
           /\ (Folded' <=> Folded) /\ (Relocated' <=> Relocated) /\ (Settled' <=> Settled)
           /\ Image' = Image /\ Output' = Output /\ Payload' = Payload
           /\ Mover' = Mover /\ Decoder' = Decoder /\ CompData' = CompData
           /\ Label(used)' = Label(used)
           /\ \A h : BootLen(h)' = BootLen(h)
<1>1. /\ cfg' = cfg /\ program' = program /\ used' = used /\ hm' = hm /\ env' = env
      /\ phase' = phase /\ pass' = pass
    BY DEF vars
<1>2. /\ Moves' = Moves /\ (InPlace' <=> InPlace) /\ (Staged' <=> Staged)
      /\ (Embedded' <=> Embedded) /\ (Folded' <=> Folded) /\ (Relocated' <=> Relocated)
      /\ \A h : BootLen(h)' = BootLen(h)
    BY <1>1, RenderKept
<1>3. PayloadMoves' = PayloadMoves
    BY <1>1 DEF PayloadMoves
<1>4. CompData' = CompData
    BY <1>1, <1>2, <1>3 DEF CompData, LastPayloadMove
<1>5. Label(used)' = Label(used) /\ (Settled' <=> Settled)
    BY <1>1 DEF Label, Settled
<1>6. Image' = Image /\ Output' = Output /\ Payload' = Payload
    BY <1>1, <1>2 DEF Image, Output, Payload
<1>7. Mover' = Mover /\ Decoder' = Decoder
    BY <1>2 DEF Mover, Decoder
<1> QED BY <1>1, <1>2, <1>3, <1>4, <1>5, <1>6, <1>7

\* ... and so is what the boot code makes of it.
LEMMA BootKept ==
    ASSUME UNCHANGED vars
    PROVE  /\ Copies' = Copies /\ Loaded' = Loaded /\ Stream' = Stream
           /\ Runs' = Runs /\ Targets' = Targets
           /\ (Careful' <=> Careful)
           /\ \A m, k : (InstallMem(m, k)' <=> InstallMem(m, k))
           /\ \A m, k : (MoveMem(m, k)' <=> MoveMem(m, k))
           /\ \A m, name : (IntactIn(m, name)' <=> IntactIn(m, name))
<1> USE PartsKept
<1>1. Loaded' = Loaded
    <2>1. \A i : StreamOffset(i)' = StreamOffset(i)
      BY DEF StreamOffset
    <2>2. \A b : BlobImage(b)' = BlobImage(b)
      BY DEF BlobImage
    <2>3. \A a : Holder(a)' = Holder(a)
      BY <2>2 DEF Holder, Within
    <2> QED BY <2>1, <2>2, <2>3 DEF Loaded, Within
<1>2. Copies' = Copies
    <2>1. HeadMove' = HeadMove
      BY DEF HeadMove
    <2>2. \A mv : Known(mv)' = Known(mv)
      BY DEF Known, SourceOf
    <2>3. \A mv : Copy(mv)' = Copy(mv)
      BY <2>2 DEF Copy, CopyGoing, SourceOf, Descending
    <2> QED BY <2>1, <2>3 DEF Copies
<1>3. Stream' = Stream
    BY DEF Stream, StreamAt
<1>4. Runs' = Runs /\ Targets' = Targets
    BY DEF Runs, Targets, HeadWindow, BlobRange, MoveRange
<1>5. Careful' <=> Careful
    BY <1>2, <1>3, <1>4 DEF Careful, BlobRange, MoveRange, Overlap, Source, Target
<1>6. \A b, m : (BlobIn(m, b)' <=> BlobIn(m, b))
    BY DEF BlobIn
<1>7. \A a, k : (InRuns(a)' <=> InRuns(a)) /\ (InTargets(a, k)' <=> InTargets(a, k))
    BY <1>2 DEF InRuns, InTargets, BlobRange, Target, Within
<1>8. \A m, k : (InstallMem(m, k)' <=> InstallMem(m, k))
    BY <1>1, <1>6, <1>7 DEF InstallMem
<1>9. \A m, k : (MoveMem(m, k)' <=> MoveMem(m, k))
    BY <1>1, <1>2, <1>6, <1>7 DEF MoveMem, Right, Descending, Copied
<1>10. \A m, name : (IntactIn(m, name)' <=> IntactIn(m, name))
    <2>1. \A name : RunRange(name)' = RunRange(name)
      BY DEF RunRange, BlobRange
    <2> QED BY <2>1 DEF IntactIn
<1> QED BY <1>1, <1>2, <1>3, <1>4, <1>5, <1>8, <1>9, <1>10

-----------------------------------------------------------------------------
(* The invariant. *)

\* What the memory holds in each step of a program whose plan is Careful.
MemInv ==
    /\ pc = "install" => InstallMem(mem, step)
    /\ pc = "move" => MoveMem(mem, step)
    /\ pc = "decode" => MoveMem(mem, Len(Copies) + 1)
    /\ pc = "tail" /\ cfg.out.known => IntactIn(mem, Decoder)

BootInv ==
    /\ LayoutInv
    /\ pc \in {"off", "install", "move", "decode", "tail", "done"}
    /\ pc # "off" => phase = "built"
    /\ pc = "install" => step \in 1 .. (Len(program.blobs) + 1)
    /\ pc = "move" => step \in 1 .. (Len(Copies) + 1)
    /\ Careful => MemInv

\* The types of the lengths the steps count to.
LEMMA Lengths ==
    ASSUME LayoutInv
    PROVE  /\ Len(program.blobs) \in Nat /\ DOMAIN program.blobs = 1 .. Len(program.blobs)
           /\ Len(Copies) \in Nat /\ DOMAIN Copies = 1 .. Len(Copies)
<1>1. program.blobs \in Seq(Blob) /\ cfg \in Configs
    <2>1. program \in Program /\ cfg \in Configs
      BY DEF LayoutInv, TypeInv
    <2> QED BY <2>1 DEF Program
<1>2. CASE InPlace
    <2> DEFINE c == HeadMove
    <2>1. Copies = <<c>>
      BY <1>2 DEF Copies
    <2> HIDE DEF c
    <2>2. Len(<<c>>) = 1 /\ DOMAIN <<c>> = 1 .. 1
      OBVIOUS
    <2> QED BY <1>1, <2>1, <2>2, LenProperties
<1>3. CASE ~InPlace
    <2> DEFINE n == Len(cfg.moves)
               S == {Copy(Moves[i]) : i \in DOMAIN Moves}
    <2>1. Copies = [i \in DOMAIN Moves |-> Copy(Moves[i])] /\ DOMAIN Moves = 1 .. n /\ n \in Nat
      BY <1>1, <1>3, MovesType DEF Copies
    <2>2. Copies \in [1 .. n -> S]
      BY <2>1
    <2>3. Copies \in Seq(S)
      <3> HIDE DEF S, n
      <3> QED BY <2>1, <2>2
    <2> QED BY <1>1, <2>3, LenProperties
<1> QED BY <1>2, <1>3

\* It holds before anything is built.
LEMMA BootInvInit == BootInit => BootInv
<1> SUFFICES ASSUME BootInit PROVE BootInv
    OBVIOUS
<1>1. LayoutInv
    BY LayoutInvInit DEF BootInit
<1> QED BY <1>1 DEF BootInit, BootInv, MemInv

\* While build is at work no program runs.
LEMMA BuildStep ==
    ASSUME BootInv, Build, UNCHANGED <<pc, step, mem>>
    PROVE  BootInv'
<1>1. LayoutInv'
    BY LayoutStep DEF BootInv, Next
<1>2. pc = "off"
    BY DEF BootInv, Build, Plan, Render, Split, Assemble, Validate
<1> QED BY <1>1, <1>2 DEF BootInv, MemInv

\* A step of the boot code.
LEMMA BootStep ==
    ASSUME BootInv, Boot
    PROVE  BootInv'
<1>1. UNCHANGED vars
    BY DEF Boot, Load, Install, Installed, Move, Moved, Decode, DoneTail, Unchanged
<1>2. LayoutInv' /\ phase = "built" /\ phase' = "built"
    BY <1>1, LayoutStutter, PartsKept DEF BootInv, Boot, Load, Install, Installed, Move, Moved,
       Decode, DoneTail
<1>3. /\ Len(program.blobs) \in Nat /\ DOMAIN program.blobs = 1 .. Len(program.blobs)
      /\ Len(Copies) \in Nat /\ DOMAIN Copies = 1 .. Len(Copies)
    BY Lengths DEF BootInv
<1>4. Len(program.blobs)' = Len(program.blobs) /\ Len(Copies)' = Len(Copies)
    BY <1>1, PartsKept, BootKept
<1>5. Careful' => Built /\ MemInv
    BY <1>1, <1>2, BootKept DEF BootInv, Built
<1>6. /\ InstallMem(mem', step') => InstallMem(mem, step)'
      /\ MoveMem(mem', step') => MoveMem(mem, step)'
      /\ MoveMem(mem', Len(Copies) + 1) => MoveMem(mem, Len(Copies) + 1)'
      /\ IntactIn(mem', Decoder) => IntactIn(mem, Decoder)'
      /\ cfg' = cfg
    BY <1>1, <1>4, BootKept, PartsKept
<1>7. CASE Load
    <2>1. pc' = "install" /\ step' = 1 /\ mem' = Loaded
      BY <1>7 DEF Load
    <2>2. Careful' => MemInv'
      BY <1>5, <1>6, <2>1, LoadMem DEF MemInv
    <2> QED BY <1>2, <1>3, <1>4, <2>1, <2>2 DEF BootInv
<1>8. CASE Install
    <2>1. /\ pc = "install" /\ pc' = "install" /\ step' = step + 1
          /\ mem' = Up(mem, BlobImage(step)[1], program.blobs[step].at, program.blobs[step].len)
          /\ step <= Len(program.blobs) /\ step \in 1 .. (Len(program.blobs) + 1)
      BY <1>8 DEF Install, BootInv
    <2>2. step \in DOMAIN program.blobs /\ step' \in 1 .. (Len(program.blobs) + 1)
      BY <1>3, <2>1
    <2>3. Careful' => MemInv'
      <3> HAVE Careful'
      <3>1. InstallMem(mem', step')
        BY <1>5, <2>1, <2>2, InstallMemStep DEF MemInv
      <3> QED BY <1>6, <2>1, <3>1 DEF MemInv
    <2> QED BY <1>2, <1>4, <2>1, <2>2, <2>3 DEF BootInv
<1>9. CASE Installed
    <2>1. /\ pc = "install" /\ pc' = "move" /\ step' = 1 /\ mem' = mem
          /\ step > Len(program.blobs) /\ step \in 1 .. (Len(program.blobs) + 1)
      BY <1>9 DEF Installed, BootInv
    <2>2. step = Len(program.blobs) + 1 /\ step' \in 1 .. (Len(Copies) + 1)
      BY <1>3, <2>1
    <2>3. Careful' => MemInv'
      <3> HAVE Careful'
      <3>1. MoveMem(mem', step')
        BY <1>5, <2>1, <2>2, InstalledMem DEF MemInv
      <3> QED BY <1>6, <2>1, <3>1 DEF MemInv
    <2> QED BY <1>2, <1>4, <2>1, <2>2, <2>3 DEF BootInv
<1>10. CASE Move
    <2>1. /\ pc = "move" /\ pc' = "move" /\ step' = step + 1
          /\ mem' = Done(mem, Copies[step])
          /\ step <= Len(Copies) /\ step \in 1 .. (Len(Copies) + 1)
      BY <1>10 DEF Move, BootInv, Done
    <2>2. step \in DOMAIN Copies /\ step' \in 1 .. (Len(Copies) + 1)
      BY <1>3, <2>1
    <2>3. Careful' => MemInv'
      <3> HAVE Careful'
      <3>1. MoveMem(mem', step')
        BY <1>5, <2>1, <2>2, MoveMemStep DEF MemInv
      <3> QED BY <1>6, <2>1, <3>1 DEF MemInv
    <2> QED BY <1>2, <1>4, <2>1, <2>2, <2>3 DEF BootInv
<1>11. CASE Moved
    <2>1. /\ pc = "move" /\ pc' = "decode" /\ mem' = mem
          /\ step > Len(Copies) /\ step \in 1 .. (Len(Copies) + 1)
      BY <1>11 DEF Moved, BootInv
    <2>2. step = Len(Copies) + 1
      BY <1>3, <2>1
    <2>3. Careful' => MemInv'
      BY <1>5, <1>6, <2>1, <2>2 DEF MemInv
    <2> QED BY <1>2, <2>1, <2>3 DEF BootInv
<1>12. CASE Decode
    <2>1. pc = "decode" /\ pc' = "tail" /\ mem' = Decoded(mem)
      BY <1>12 DEF Decode, Decoded
    <2>2. Careful' => MemInv'
      <3> SUFFICES ASSUME Careful', cfg.out.known PROVE IntactIn(mem', Decoder)
        BY <1>6, <2>1 DEF MemInv
      <3>1. IntactIn(mem, Decoder)
        BY <1>5, <2>1, MoveIntact DEF MemInv
      <3> QED BY <1>5, <2>1, <3>1, DecoderIntact
    <2> QED BY <1>2, <2>1, <2>2 DEF BootInv
<1>13. CASE DoneTail
    <2>1. pc' = "done"
      BY <1>13 DEF DoneTail
    <2> QED BY <1>2, <2>1 DEF BootInv, MemInv
<1> QED BY <1>7, <1>8, <1>9, <1>10, <1>11, <1>12, <1>13 DEF Boot

\* Nothing happens.
LEMMA BootStutter ==
    ASSUME BootInv, UNCHANGED bootvars
    PROVE  BootInv'
<1>1. UNCHANGED vars /\ pc' = pc /\ step' = step /\ mem' = mem
    BY DEF bootvars
<1>2. LayoutInv' /\ Len(program.blobs)' = Len(program.blobs) /\ Len(Copies)' = Len(Copies)
      /\ phase' = phase
    BY <1>1, LayoutStutter, PartsKept, BootKept DEF BootInv
<1>3. Careful' => MemInv'
    <2> HAVE Careful'
    <2>1. MemInv
      BY <1>1, BootKept DEF BootInv
    <2> QED BY <1>1, <1>2, <2>1, PartsKept, BootKept DEF MemInv
<1> QED BY <1>1, <1>2, <1>3 DEF BootInv

-----------------------------------------------------------------------------
(* The theorems. *)

\* Every memory the boot code makes is the one the invariant describes.
THEOREM BootInvHolds == BootSpec => []BootInv
<1>1. BootInv /\ [BootNext]_bootvars => BootInv'
    BY BuildStep, BootStep, BootStutter DEF BootNext
<1> QED BY <1>1, BootInvInit, PTL DEF BootSpec

\* The code that runs - program, mover, staged decruncher - is intact at every
\* step, whatever was installed, moved and decoded before.
THEOREM CodeIntact == BootSpec => []RunsOwnCode
<1>1. BootInv => RunsOwnCode
    <2> SUFFICES ASSUME BootInv, Careful, cfg.out.known \/ pc # "tail", Runner # "none"
                 PROVE  Intact(Runner)
      BY DEF RunsOwnCode
    <2>1. pc \in {"install", "move", "decode", "tail"} /\ Built /\ MemInv
      BY DEF BootInv, Runner, Built
    <2>2. IntactIn(mem, Runner)
      <3>1. CASE pc = "install"
        BY <2>1, <3>1, InstallIntact DEF MemInv, Runner
      <3>2. CASE pc = "move"
        BY <2>1, <3>2, MoveIntact DEF MemInv, Runner
      <3>3. CASE pc = "decode"
        BY <2>1, <3>3, MoveIntact DEF MemInv, Runner
      <3>4. CASE pc = "tail"
        BY <2>1, <3>4 DEF MemInv, Runner
      <3> QED BY <2>1, <3>1, <3>2, <3>3, <3>4
    <2> QED BY <2>2 DEF Intact, IntactIn
<1> QED BY <1>1, BootInvHolds, PTL

\* When the decoder starts, all of the stream is where it reads it, in order,
\* in an in-place layout too.
THEOREM StreamArrives == BootSpec => []StreamReady
<1>1. BootInv => StreamReady
    <2> SUFFICES ASSUME BootInv, pc = "decode", Settled, Careful
                 PROVE  StreamIn(mem)
      BY DEF StreamReady, StreamIn
    <2>1. Built /\ MoveMem(mem, Len(Copies) + 1)
      BY DEF BootInv, MemInv, Built
    <2> QED BY <2>1, StreamIsReady
<1> QED BY <1>1, BootInvHolds, PTL

\* ... and what move_data was asked to move has arrived, whether the last pass
\* settled or not.
THEOREM DataArrives == BootSpec => []DataMoved
<1>1. BootInv => DataMoved
    <2> SUFFICES ASSUME BootInv, pc = "decode", Careful, ~InPlace
                 PROVE  MovedIn(mem)
      BY DEF DataMoved, MovedIn
    <2>1. Built /\ MoveMem(mem, Len(Copies) + 1)
      BY DEF BootInv, MemInv, Built
    <2> QED BY <2>1, DataIsMoved
<1> QED BY <1>1, BootInvHolds, PTL
=============================================================================
