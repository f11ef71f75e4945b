------------------------------- MODULE Zx0Opt -------------------------------
(***************************************************************************)
(* The parser of ZX0 and ZX02: optimize_zx0_with_bits (src/src/zx0opt.rs)  *)
(* and optimize (src/src/zx02.rs), which differ in costs and in the        *)
(* shortest match.  For every position and offset it keeps the last run of *)
(* literals and the last match, and for every position the cheapest block  *)
(* that ends there.  Blocks are counted; a block nobody refers to goes on  *)
(* the list of ghosts and is used again, and only then gives up its own    *)
(* reference to the block before it.                                       *)
(*                                                                         *)
(* A step of the model is one pass through the loop over offsets.          *)
(***************************************************************************)
EXTENDS Integers, SequencesExt, FiniteSetsExt

CONSTANT Trials \* What is parsed: records of a variant ("zx0", "zx02"), the input,
                \* limit (greatest offset), low (offsets per low byte, 128) and cap
                \* (greatest value of ZX02's gamma code, 256).

ASSUME TrialsAssumption ==
    /\ Trials \subseteq [variant : {"zx0", "zx02"}, input : Seq(Nat), limit : Nat \ {0},
                        low : Nat \ {0}, cap : Nat \ {0}]
    /\ \A t \in Trials : Len(t.input) >= (IF t.variant = "zx02" THEN 2 ELSE 1)
    \* MAX_OFFSET_ZX02 is 255 * 128
    /\ \A t \in Trials : t.variant = "zx02" => t.limit <= (t.cap - 1) * t.low

VARIABLES trial,
          index, offset,             \* of the loops
          pool,                      \* the blocks and all that refers to them
          match_length, best_length, \* by offset, by length
          best_size,                 \* best_length_size
          units,                     \* the result: offset (0: literals) and length
          least                      \* reference: see Reference

vars == <<trial, index, offset, pool, match_length, best_length, best_size, units, least>>

NIL == 0
INITIAL_OFFSET == 1
BIG == 1048576

input == trial.input
n == Len(input)
Positions == 0 .. n - 1
\* Mutant: not clamped above.
CeilingUnclamped(i) == IF i < INITIAL_OFFSET THEN INITIAL_OFFSET ELSE i

\* offset_ceiling
Ceiling(i) == IF i > trial.limit THEN trial.limit ELSE IF i < INITIAL_OFFSET THEN INITIAL_OFFSET ELSE i
Offsets == 1 .. Ceiling(n - 1)
-----------------------------------------------------------------------------
(* Costs. *)

FloorLog2(v) == LET log[u \in 1 .. v] == IF u = 1 THEN 0 ELSE 1 + log[u \div 2] IN log[v]
Gamma(v) == IF trial.variant = "zx02" /\ v > trial.cap THEN BIG ELSE 1 + 2 * FloorLog2(v)

\* The shortest match at a new offset, and the cost of its length and its offset.
Shortest == IF trial.variant = "zx0" THEN 2 ELSE 1
NewLengthBits(len) ==
    IF len = 1 THEN Gamma(trial.cap)
    ELSE IF trial.variant = "zx02" /\ len > trial.cap THEN BIG
    ELSE Gamma(len - 1)
OffsetBits(off) ==
    8 + Gamma((IF trial.variant = "zx0" THEN off - 1 ELSE off) \div trial.low + 1)

LiteralBits(len) == 1 + Gamma(len) + 8 * len
RepBits(len) == 1 + Gamma(len)
NewBits(off, len) == OffsetBits(off) + NewLengthBits(len)
-----------------------------------------------------------------------------
(* The pool: the blocks, how often each is referred to, the blocks nothing  *)
(* refers to, and what each slot of the three tables refers to.             *)

Slots == ({"last_literal", "last_match"} \X Offsets) \cup ({"optimal"} \X Positions)
LastLiteral(P, o) == P.slot[<<"last_literal", o>>]
LastMatch(P, o) == P.slot[<<"last_match", o>>]
Optimal(P, i) == P.slot[<<"optimal", i>>]

NewId(P) == IF P.ghosts = <<>> THEN Len(P.nodes) + 1 ELSE Head(P.ghosts)

Take(P, id) == IF id = NIL THEN P ELSE [P EXCEPT !.references[id] = @ + 1]
Release(P, id) ==
    IF id = NIL THEN P
    ELSE LET refs == P.references[id] - 1 IN
         [P EXCEPT !.references[id] = refs,
                   !.ghosts = IF refs = 0 THEN <<id>> \o @ ELSE @]

Block(bits, i, off, chain) == [bits |-> bits, index |-> i, offset |-> off, chain |-> chain]
Grow(P, node) == [P EXCEPT !.nodes = Append(@, node), !.references = Append(@, 0)]

\* Mutant: a ghost's reference to the block before it is forgotten, not released.
AllocateForgets(P, bits, i, off, chain) ==
    LET node == Block(bits, i, off, chain)
    IN Take(IF P.ghosts = <<>> THEN Grow(P, node)
            ELSE [P EXCEPT !.ghosts = Tail(@), !.nodes[Head(P.ghosts)] = node,
                           !.references[Head(P.ghosts)] = 0],
            chain)

\* A ghost becomes another block; the one before it loses its reference.
Recycle(P, node) ==
    LET ghost == Head(P.ghosts) IN
    [Release([P EXCEPT !.ghosts = Tail(@)], P.nodes[ghost].chain)
        EXCEPT !.nodes[ghost] = node, !.references[ghost] = 0]

\* Pool::allocate
Allocate(P, bits, i, off, chain) ==
    LET node == Block(bits, i, off, chain)
    IN  Take(IF P.ghosts = <<>> THEN Grow(P, node) ELSE Recycle(P, node), chain)

\* Pool::assign
Assign(P, s, id) == [Release(Take(P, id), P.slot[s]) EXCEPT !.slot[s] = id]

\* A new block for an offset, and for the position when it is the cheapest there.
Relax(P, table, off, bits, chain) ==
    LET new == NewId(P)
        Q == Assign(Allocate(P, bits, index, off, chain), <<table, offset>>, new)
        best == Optimal(Q, index)
    IN  IF best = NIL \/ Q.nodes[best].bits > bits
        THEN Assign(Q, <<"optimal", index>>, new) ELSE Q
-----------------------------------------------------------------------------
(* The loops. *)

Matches == index # 0 /\ index >= offset /\ input[index + 1] = input[index - offset + 1]

\* Mutant: a match will do instead of literals.
LastOffsetBare(P) ==
    LET ll == IF LastLiteral(P, offset) = NIL THEN LastMatch(P, offset) ELSE LastLiteral(P, offset) IN
    IF ll = NIL THEN P
    ELSE Relax(P, "last_match", offset,
               P.nodes[ll].bits + RepBits(index - P.nodes[ll].index), ll)

\* A match at the last offset, behind the literals that were last there.
LastOffset(P) ==
    LET ll == LastLiteral(P, offset) IN
    IF ll = NIL THEN P
    ELSE Relax(P, "last_match", offset,
               P.nodes[ll].bits + RepBits(index - P.nodes[ll].index), ll)

\* Mutant: the loop is entered with the cost of the length best_size.
GrownFromSize(P, size, ml) ==
    LET At(len) == P.nodes[Optimal(P, index - len)].bits + NewLengthBits(len)
        upto[k \in size .. ml] ==
            IF k = size THEN [len |-> best_length[size], bits |-> At(size)]
            ELSE IF At(k) <= upto[k - 1].bits THEN [len |-> k, bits |-> At(k)] ELSE upto[k - 1]
    IN [k \in Positions |-> IF k \in (size + 1) .. ml THEN upto[k].len ELSE best_length[k]]

\* best_length[k] is the best of the lengths up to k for a match that ends at
\* index; it is worked out as far as a match has reached.  The first cost is
\* that of the length best_length[best_size], which need not be best_size.
Grown(P, size, ml) ==
    LET At(len) == P.nodes[Optimal(P, index - len)].bits + NewLengthBits(len)
        upto[k \in size .. ml] ==
            IF k = size THEN [len |-> best_length[size], bits |-> At(best_length[size])]
            ELSE IF At(k) <= upto[k - 1].bits THEN [len |-> k, bits |-> At(k)] ELSE upto[k - 1]
    IN [k \in Positions |-> IF k \in (size + 1) .. ml THEN upto[k].len ELSE best_length[k]]

\* A match at a new offset, of the best length.
NewOffset(P, len) ==
    LET lm == LastMatch(P, offset)
        chain == Optimal(P, index - len)
        bits == P.nodes[chain].bits + NewBits(offset, len)
    IN IF lm = NIL \/ P.nodes[lm].index # index \/ P.nodes[lm].bits > bits
       THEN Relax(P, "last_match", offset, bits, chain) ELSE P
-----------------------------------------------------------------------------
(* The reference: what a parse costs at least.  Row(i) gives, by offset and *)
(* kind, the least cost of the units that cover the first i bytes and end   *)
(* with a unit of that kind with that last offset, if there are any.        *)
(* Neither the parser nor the reference takes as a literal a byte that the  *)
(* last offset would copy, though the format allows it.                     *)

Kinds == {"Literals", "Match"}
RepeatsAt(i, off) == i > off /\ input[i] = input[i - off]   \* 1-based
Copies(i, off, len) == \A j \in (i - len + 1) .. i : RepeatsAt(j, off)
Plain(i, off, len) == \A j \in (i - len + 1) .. i : ~RepeatsAt(j, off)

\* ZX02's writer tells a new match at the old offset, behind a match, from a
\* repetition; ZX0's does not.
Again(k) == trial.variant = "zx02" /\ k = "Match"

After(j, off, k) == least[j + 1][<<off, k>>]
Reach(i, off) == {len \in 1 .. i : Copies(i, off, len)}
LiteralCosts(i, off) ==
    UNION {{c + LiteralBits(len) : c \in After(i - len, off, "Match")} :
              len \in {len \in 1 .. i : Plain(i, off, len)}}
RepCosts(i, off) ==
    UNION {{c + RepBits(len) : c \in After(i - len, off, "Literals")} : len \in Reach(i, off)}
NewCosts(i, off) ==
    UNION {{c + NewBits(off, p[1]) : c \in After(i - p[1], p[2], p[3])} :
              p \in {p \in Reach(i, off) \X Offsets \X Kinds :
                        p[1] >= Shortest /\ (p[2] = off => Again(p[3]))}}

\* The least of some costs, if there is one.
Least(costs) == IF costs = {} THEN {} ELSE {Min(costs)}

Row(i) ==
    [s \in Offsets \X Kinds |->
        Least(IF s[2] = "Literals" THEN LiteralCosts(i, s[1])
              ELSE RepCosts(i, s[1]) \cup NewCosts(i, s[1]))]

LeastCost(i) == Min(UNION {least[i + 1][s] : s \in Offsets \X Kinds})
-----------------------------------------------------------------------------
\* The blocks from the first to id.
Chain(P, id) ==
    LET back[k \in 0 .. n + 1] ==
            IF k = 0 THEN <<id>>
            ELSE LET c == back[k - 1] IN
                 IF P.nodes[Head(c)].chain = NIL THEN c ELSE <<P.nodes[Head(c)].chain>> \o c
    IN  back[n + 1]

\* chain_to_commands and the snapshot of optimize: the units between the blocks.
UnitsOf(P, id) ==
    LET c == Chain(P, id) IN
    [j \in 1 .. Len(c) - 1 |-> [offset |-> P.nodes[c[j + 1]].offset,
                                len |-> P.nodes[c[j + 1]].index - P.nodes[c[j]].index]]

NoBlocks ==
    [nodes |-> <<>>, references |-> <<>>, ghosts |-> <<>>, slot |-> [s \in Slots |-> NIL]]

Init ==
    /\ trial \in Trials
    /\ index = 0 /\ offset = 1
    /\ match_length = [o \in Offsets |-> 0]
    /\ best_length = [k \in Positions |-> IF k = Shortest THEN Shortest ELSE 0]
    /\ best_size = Shortest
    /\ pool = Assign(Allocate(NoBlocks, -1, -1, INITIAL_OFFSET, NIL),
                     <<"last_match", INITIAL_OFFSET>>, 1)
    /\ units = <<>>
    /\ least = <<[s \in Offsets \X Kinds |-> IF s = <<INITIAL_OFFSET, "Match">> THEN {-1} ELSE {}]>>

\* The next offset, or the next position.
Advance(size) ==
    /\ best_size' = IF offset < Ceiling(index) THEN size ELSE Shortest
    /\ IF offset < Ceiling(index)
       THEN /\ offset' = offset + 1
            /\ UNCHANGED <<index, least>>
       ELSE /\ offset' = 1 /\ index' = index + 1
            /\ least' = Append(least, Row(index + 1))
    /\ UNCHANGED <<trial, units>>

\* The byte repeats the one offset bytes before.
Match ==
    /\ index < n /\ Matches
    /\ LET P == LastOffset(pool)
           ml == match_length[offset] + 1
           grows == ml >= Shortest /\ best_size < ml
           best == IF grows THEN Grown(P, best_size, ml) ELSE best_length
       IN /\ match_length' = [match_length EXCEPT ![offset] = ml]
          /\ best_length' = best
          /\ pool' = IF ml >= Shortest THEN NewOffset(P, best[ml]) ELSE P
          /\ Advance(IF grows THEN ml ELSE best_size)

\* Literals, since the last match at this offset.
Literals ==
    /\ index < n /\ ~Matches
    /\ match_length' = [match_length EXCEPT ![offset] = 0]
    /\ LET lm == LastMatch(pool, offset) IN
       pool' = IF lm = NIL THEN pool
               ELSE Relax(pool, "last_literal", 0,
                          pool.nodes[lm].bits + LiteralBits(index - pool.nodes[lm].index), lm)
    /\ UNCHANGED best_length
    /\ Advance(best_size)

Return ==
    /\ index = n /\ units = <<>>
    /\ units' = UnitsOf(pool, Optimal(pool, n - 1))
    /\ UNCHANGED <<trial, index, offset, pool, match_length, best_length, best_size, least>>

Next == Match \/ Literals \/ Return

Spec == Init /\ [][Next]_vars
-----------------------------------------------------------------------------
\* The shape of the tables, and of the blocks: none ends beyond the loop, and no length
\* is taken to be better than itself.
TypeOK ==
    /\ index \in 0 .. n /\ offset \in 1 .. Ceiling(index)
    /\ \A o \in Offsets : match_length[o] \in 0 .. index
    /\ \A k \in Positions : best_length[k] \in 0 .. k
    /\ best_size \in Shortest .. n + 1
    /\ \A id \in 1 .. Len(pool.nodes) :
        /\ pool.nodes[id].index \in -1 .. index /\ pool.nodes[id].bits \in Nat \cup {-1}
        /\ pool.nodes[id].offset \in 0 .. trial.limit /\ pool.nodes[id].chain \in 0 .. Len(pool.nodes)

Ids == 1 .. Len(pool.nodes)
InSlots(id) == {s \in Slots : pool.slot[s] = id}
Successors(id) == {m \in Ids : pool.nodes[m].chain = id}

\* The count of a block is the number of slots and of blocks, dead or alive, that
\* refer to it; the ghosts are the blocks nothing refers to, each listed once: no
\* block in use is ever handed out again, and none is lost.
PoolExact ==
    /\ \A id \in Ids : pool.references[id] = Cardinality(InSlots(id)) + Cardinality(Successors(id))
    /\ IsInjective(pool.ghosts)
    /\ Range(pool.ghosts) = {id \in Ids : pool.references[id] = 0}

\* The cheapest block at a position costs what the cheapest parse costs.
Exact == \A i \in Positions : i < index => pool.nodes[Optimal(pool, i)].bits = LeastCost(i + 1)

\* write_interlaced_elias_gamma: two bits for each digit behind the first, one that
\* ends it.  ZX02's takes 0 for cap.
GammaWritten(v) == 1 + 2 * FloorLog2(IF v = 0 THEN trial.cap ELSE v)

\* The part of an offset above its low byte, as the writers code it.
OffsetMsb(off) == (off - 1) \div trial.low + 1

\* What the writers of zx0compat.rs and zx02.rs put out for a unit: a flag, then literals
\* behind their length, a length, or an offset and a length whose first bit is
\* in the offset's low byte.
BitsWritten(u, rep) ==
    IF u.offset = 0 THEN 1 + GammaWritten(u.len) + 8 * u.len
    ELSE IF rep THEN 1 + GammaWritten(u.len)
    ELSE 1 + GammaWritten(OffsetMsb(u.offset)) + 8 + (GammaWritten(u.len - 1) - 1)

\* ZX02's decoder counts in a byte, and cap in place of an offset is the end.
Fits(u, rep) ==
    trial.variant = "zx02" =>
        u.len <= trial.cap /\ (u.offset = 0 \/ rep \/ OffsetMsb(u.offset) < trial.cap)

\* Not one of the offsets for which ZX02's parser may charge too much.
Fair(u) == trial.variant = "zx0" \/ u.offset = 0 \/ u.offset % trial.low # 0

\* What the writers make of the next unit: they tell a match at the last offset by the
\* offset, ZX02's also by the literals before it.
Write(acc, u) ==
    LET rep == u.offset = acc.last /\ (trial.variant = "zx0" \/ acc.literal) IN
    [at |-> acc.at + u.len,
     last |-> IF u.offset = 0 THEN acc.last ELSE u.offset,
     literal |-> u.offset = 0,
     bits |-> acc.bits + BitsWritten(u, rep),
     fits |-> acc.fits /\ Fits(u, rep),
     fair |-> acc.fair /\ Fair(u),
     legal |-> /\ acc.legal
               /\ IF u.offset = 0 THEN ~acc.literal
                  ELSE (rep => acc.literal) /\ Copies(acc.at + u.len, u.offset, u.len)]

\* The flag of the first unit is not put out (zx02.rs:344, zx0compat.rs:54).
Nothing == [at |-> 0, last |-> INITIAL_OFFSET, literal |-> FALSE, bits |-> -1,
            fits |-> TRUE, fair |-> TRUE, legal |-> TRUE]

Written(us) ==
    LET upto[k \in 0 .. Len(us)] == IF k = 0 THEN Nothing ELSE Write(upto[k - 1], us[k])
    IN  upto[Len(us)]

\* The blocks that lead to a position are a parse of the input up to there that
\* the writers write as the parser meant it.  Unless the parser counted a value that
\* ZX02 has no code for, every value has one, and the stream takes the bits it counted: for
\* ZX02 no more than these, since its offset_bits (zx02.rs:69) looks at the offset and
\* not, as the writer does (480), at the offset less 1.
Faithful ==
    \A i \in Positions :
        i < index =>
            LET counted == pool.nodes[Optimal(pool, i)].bits
                result == Written(UnitsOf(pool, Optimal(pool, i)))
            IN /\ result.legal /\ result.at = i + 1
               /\ counted < BIG => result.fits
               /\ result.fits => result.bits <= counted
               /\ result.fits /\ result.fair => result.bits = counted
-----------------------------------------------------------------------------
(* For TLC: all short inputs, and one telling long one.                     *)

Inputs(letters, lengths) == UNION {[1 .. len -> 1 .. letters] : len \in lengths}

Zx(variant, limit, low, cap, inputs) ==
    {[variant |-> variant, limit |-> limit, low |-> low, cap |-> cap, input |-> s] : s \in inputs}

\* The length best_length[best_size] and the length best_size differ in cost here.
Telling == <<9, 9, 9, 9, 9, 9, 1, 9, 9, 9, 9, 8, 9, 9, 9, 1, 9, 9, 9, 9, 9, 9, 2, 9, 9, 9, 9, 8, 9, 9>>

AllTrials ==
    UNION {Zx("zx0", 32640, 128, 256, {Telling}), Zx("zx02", 12, 128, 256, {Telling}),
           Zx("zx0", 32640, 128, 256, Inputs(2, 1 .. 9)), Zx("zx0", 3, 2, 256, Inputs(3, {6})),
           Zx("zx02", 6, 2, 4, Inputs(2, 2 .. 9)), Zx("zx02", 6, 2, 4, Inputs(3, {5}))}
=============================================================================
