------------------------------ MODULE ZxCodec -------------------------------
(***************************************************************************)
(* The LZAN grammar of src/src/zx.rs: encode_with3 and encode_min_eof on   *)
(* one side, decode, decode_backward and decode_min_eof on the other.      *)
(*                                                                         *)
(* The encoder replays the parser's commands, unit by unit (a literal run  *)
(* or a match); the stream carries no unit types beyond a few connecting   *)
(* bits, so the decoder must keep the same queue of recent offsets and     *)
(* know which units can follow which.  The parser is left open: any        *)
(* sequence of units that is a legal parse of some input is tried, the     *)
(* input being built along with it.                                        *)
(*                                                                         *)
(* The stream is the tape of symbols of BitIO (SymbolFifo): bits, literal  *)
(* bytes and low bytes of offsets, in the order they are written.  A       *)
(* backward stream is the stream of the reversed input, and its decoder    *)
(* fills the output from the end.                                          *)
(***************************************************************************)
EXTENDS EliasGamma

CONSTANTS Configs,    \* The grammars tried: records of slots, near, am, eof, and with
                      \* each the bounds it is tried in: alphabet (the literals
                      \* tried at each position; its length bounds the input), run
                      \* (longest literal run), lens and offsets of matches, and
                      \* directions (the values of backward).
          LsbBits,    \* Offset bits in the low byte (7 in the code).
          EOF_MSB     \* Gamma value of the end marker (256 in the code).

ASSUME ConfigsAssumption ==
    \A c \in Configs :
        /\ c.slots \in 1 .. 4 /\ (c.near \/ c.am => c.slots = 4)
        /\ c.near \in BOOLEAN /\ c.am \in BOOLEAN /\ c.eof \in BOOLEAN
        /\ c.eof => c.slots = 1
        /\ c.alphabet \in Seq(SUBSET Nat)
        /\ c.run \in Nat /\ c.lens \subseteq Nat \ {0} /\ c.offsets \subseteq Nat
        /\ c.directions \subseteq BOOLEAN
ASSUME LsbBitsAssumption == LsbBits \in Nat /\ 2^LsbBits \in Nat \ {0}
ASSUME EofAssumption == EOF_MSB \in Nat \ {0, 1}

LsbRange == 2^LsbBits

\* Real offsets have a most significant part below the marker.
EOF_MAX_OFFSET == (EOF_MSB - 1) * LsbRange
MODE_MIN_EOF == 65

VARIABLES cfg,        \* the encoder's arguments: rep_slots, near_rep, am_near_rep; eof
          backward,   \* the stream is for decode_backward
          phase,      \* "encode", "decode" or "done"
          input,      \* the (for a backward stream, reversed) input covered so far
          prev,       \* encoder: Prev
          reps,       \* encoder: the recent offsets, most recent first
          predicted,  \* predicted_payload_bits of the commands so far
          mode,       \* the mode byte
          stream,     \* the payload, as symbols
          marks,      \* history: the encoder at the start and after each unit, with
                      \* the unit (sym, its kind and slot; off; n), its symbols and
                      \* the input it covers
          limit,      \* decoder: orig_len
          d_state,    \* decoder: St, or "AfterMatch" before read_after_match_state
          d_reps,     \* decoder: reps
          rd,         \* decoder: the next symbol to read (1-based)
          out         \* decoder: the output

encoder == <<cfg, backward, input, prev, reps, predicted, mode, stream, marks>>
decoder == <<limit, d_state, d_reps, rd, out>>
vars == <<encoder, phase, decoder>>

\* (Mutant of RepInsert: the offset is stored less one.)
RepInsertLessOne(q, off) == <<off - 1, q[1], q[2], q[3]>>

\* rep_insert and rep_mtf.
RepInsert(q, off) == <<off, q[1], q[2], q[3]>>
RepMtf(q, i) ==
    [j \in 1 .. 4 |-> IF j = 1 THEN q[i] ELSE IF j <= i THEN q[j - 1] ELSE q[j]]
-----------------------------------------------------------------------------
(* Symbols and prefix codes. *)

BitSym(b) == [kind |-> "bit", val |-> b]
ByteSym(v) == [kind |-> "byte", val |-> v]
LsbSym(v) == [kind |-> "lsb", val |-> v]
BitSyms(bits) == [j \in 1 .. Len(bits) |-> BitSym(bits[j])]
Gamma(v) == BitSyms(GammaCode(v))

\* n zeros closed by a 1, the shape of all three prefix trees.
Zeros(n) == [j \in 1 .. n |-> 0]
ZerosThenOne(n) == Append(Zeros(n), 1)

\* (Mutant of RepIndexCode: the codes of the last two slots are exchanged.)
RepIndexCodeSwapped(i) == IF i = 3 THEN Zeros(3) ELSE IF i = 4 THEN ZerosThenOne(2) ELSE ZerosThenOne(i - 1)

\* write_rep_index: 1, 01, 001, 000.
RepIndexCode(i) == IF i = 4 THEN Zeros(3) ELSE ZerosThenOne(i - 1)
\* rep_index_bits
RepIndexBits(i) == CASE i = 1 -> 1 [] i = 2 -> 2 [] OTHER -> 3

\* write_after_lit_prefix: 1 / 01 / 001 / 0001 / 00001 / 000001 / 000000.
NewOffset == [kind |-> "NewOffset", ri |-> 0]
Rep(i) == [kind |-> "Rep", ri |-> i]
NearRep(i) == [kind |-> "NearRep", ri |-> i]
AfterMatchNearRep(i) == [kind |-> "AfterMatchNearRep", ri |-> i]
St(name) == [kind |-> name, ri |-> 0]

AfterLitCode(sym) ==
    CASE sym = NewOffset -> ZerosThenOne(0)
      [] sym = Rep(1) -> ZerosThenOne(1)
      [] sym = Rep(2) -> ZerosThenOne(2)
      [] sym = NearRep(1) -> ZerosThenOne(3)
      [] sym = Rep(4) -> ZerosThenOne(4)
      [] sym = Rep(3) -> ZerosThenOne(5)
      [] OTHER -> Zeros(6)
\* (Mutant of AfterLitBits: slots 3 and 4 are exchanged.)
AfterLitBitsSwapped(sym) ==
    CASE sym = NewOffset -> 1
      [] sym = Rep(1) -> 2
      [] sym = Rep(2) -> 3
      [] sym = Rep(3) -> 5
      [] sym = Rep(4) -> 6
      [] sym = NearRep(1) -> 4
      [] OTHER -> 6
\* after_lit_prefix_bits
AfterLitBits(sym) ==
    CASE sym = NewOffset -> 1
      [] sym = Rep(1) -> 2
      [] sym = Rep(2) -> 3
      [] sym = Rep(3) -> 6
      [] sym = Rep(4) -> 5
      [] sym = NearRep(1) -> 4
      [] OTHER -> 6
-----------------------------------------------------------------------------
(* The encoder. *)

MaxLen == Len(cfg.alphabet)

\* The bytes a match of length n at distance off stands for.
Repeats(s, off, n) == [i \in 1 .. n |-> s[Len(s) - off + 1 + ((i - 1) % off)]]

\* What the parser asked for.
UnitOf(sym, off, n) == [sym |-> sym, off |-> off, n |-> n]

\* One unit: its symbols, the input it covers, what it makes of the queue and
\* what predicted_payload_bits adds for it.
Unit(kind, unit, symbols, covered, queue, bits) ==
    /\ phase = "encode"
    /\ Len(input) + Len(covered) <= MaxLen
    /\ stream' = stream \o symbols
    /\ input' = input \o covered
    /\ reps' = queue
    /\ prev' = kind
    /\ predicted' = predicted + bits
    /\ marks' = Append(marks, [at |-> Len(stream') + 1, len |-> Len(input'),
                               reps |-> queue, prev |-> kind, unit |-> unit,
                               symbols |-> symbols, covered |-> covered])
    /\ UNCHANGED <<cfg, backward, mode, phase, decoder>>

\* A literal run: a 0 if it follows a match, gamma(length), the bytes.
Literals(run) ==
    /\ prev # "Literals"
    /\ LET flag == IF prev = "Match" THEN <<BitSym(0)>> ELSE <<>> IN
       Unit("Literals", UnitOf(St("Literals"), 0, Len(run)),
            flag \o Gamma(Len(run)) \o [j \in 1 .. Len(run) |-> ByteSym(run[j])],
            run, reps,
            Len(flag) + GammaBits(Len(run)) + 8 * Len(run))

LiveSlots(off) == {i \in 1 .. cfg.slots : reps[i] = off}
FirstSlot(off) == CHOOSE i \in LiveSlots(off) : \A j \in LiveSlots(off) : i <= j
LegalOffset(off) == off \in 1 .. Len(input) /\ (cfg.eof => off <= EOF_MAX_OFFSET)

\* A match at an offset still in the queue, right after literals.
RepMatch(off, len) ==
    /\ prev = "Literals"
    /\ LegalOffset(off) /\ LiveSlots(off) # {}
    /\ LET i == FirstSlot(off)
           prefix == IF cfg.near THEN AfterLitCode(Rep(i))
                     ELSE <<0>> \o IF cfg.slots > 1 THEN RepIndexCode(i) ELSE <<>>
           bits == IF cfg.near THEN AfterLitBits(Rep(i))
                   ELSE 1 + IF cfg.slots > 1 THEN RepIndexBits(i) ELSE 0
       IN Unit("Match", UnitOf(Rep(i), off, len), BitSyms(prefix) \o Gamma(len), Repeats(input, off, len),
               RepMtf(reps, i), bits + GammaBits(len))

\* ((off - 1) >> 7) + 1 and the low bits beside it.
Msb(off) == ((off - 1) \div LsbRange) + 1
Lsb(off) == (off - 1) % LsbRange

\* emit_new_offset (the length's first bit rides in the low byte: BitIO).
NewOffsetBody(off, len) == Gamma(Msb(off)) \o <<LsbSym(Lsb(off))>> \o Gamma(len - 1)

\* A match with its offset written out: after a match always, after literals
\* when the offset is not in the queue.
NewMatch(off, len) ==
    /\ prev # "Start"
    /\ LegalOffset(off) /\ len >= 2
    /\ prev = "Literals" => LiveSlots(off) = {}
    /\ LET prefix == IF prev = "Literals" THEN (IF cfg.near THEN AfterLitCode(NewOffset) ELSE <<1>>)
                     ELSE IF cfg.am THEN <<1, 0>> ELSE <<1>>
           bits == IF prev = "Match" /\ cfg.am THEN 2
                   ELSE IF prev = "Literals" /\ cfg.near THEN AfterLitBits(NewOffset) ELSE 1
       IN Unit("Match", UnitOf(NewOffset, off, len), BitSyms(prefix) \o NewOffsetBody(off, len),
               Repeats(input, off, len), RepInsert(reps, off),
               bits + GammaBits(Msb(off)) + LsbBits + GammaBits(len - 1))

\* A match at a small distance from one of the two most recent offsets.
NearMatch(off, len, i) ==
    /\ (prev = "Literals" /\ cfg.near) \/ (prev = "Match" /\ cfg.am)
    /\ LegalOffset(off) /\ len >= 2 /\ i \in {1, 2} /\ reps[i] # off
    /\ LET delta == IF off >= reps[i] THEN off - reps[i] ELSE reps[i] - off
           sign == IF off >= reps[i] THEN 0 ELSE 1
           prefix == IF prev = "Literals" THEN AfterLitCode(NearRep(i)) ELSE <<1, 1, i - 1>>
           bits == IF prev = "Literals" THEN AfterLitBits(NearRep(i)) ELSE 3
       IN Unit("Match", UnitOf(NearRep(i), off, len),
               BitSyms(prefix) \o <<BitSym(sign)>> \o Gamma(delta) \o Gamma(len - 1),
               Repeats(input, off, len), RepInsert(reps, off),
               bits + 1 + GammaBits(delta) + GammaBits(len - 1))

\* (Mutant of EofMarker: no connecting bit.)
EofMarkerUnflagged == Gamma(EOF_MSB) \o <<ByteSym(0)>>

\* The end marker of encode_min_eof: a new offset that cannot be one.
EofMarker == (IF prev = "Start" THEN <<>> ELSE <<BitSym(1)>>) \o Gamma(EOF_MSB) \o <<ByteSym(0)>>

\* The bound the gap functions decode with: more than any stream produces.
GapLimit == MaxLen + 1

\* The stream is complete and a decoder starts on it: decode with the original
\* length or, for a marker stream, max_gap_min_* with a bound (never asked about
\* an empty input, whose marker they would read as literals).
Finish ==
    /\ phase = "encode"
    /\ stream' = IF cfg.eof THEN stream \o EofMarker ELSE stream
    /\ limit' \in {Len(input)}
           \cup (IF cfg.eof /\ input # <<>> THEN {GapLimit} ELSE {})
    /\ phase' = IF limit' = 0 THEN "done" ELSE "decode"
    /\ UNCHANGED <<cfg, backward, input, prev, reps, predicted, mode, marks>>
    /\ UNCHANGED <<d_state, d_reps, rd, out>>
-----------------------------------------------------------------------------
(* The decoder: one action per state of its machine. *)

DecSlots == mode % 16
DecNear == (mode \div 16) % 2 = 1
DecAm == (mode \div 32) % 2 = 1
DecEof == mode = MODE_MIN_EOF

\* What the bit readers return: the bits of the payload, 0 past its end.
At(p) == IF p <= Len(stream) THEN stream[p].val ELSE 0
HasGammaAt(p) == HasGamma(At, Len(stream), p)
ReadGamma(p) == GammaAt(At, Len(stream), p)

\* How many of the next max bits are 0 before the first 1 (max if all are).
LeadingZeros(p, max) ==
    CHOOSE n \in 0 .. max :
        /\ \A j \in 0 .. (n - 1) : At(p + j) = 0
        /\ n < max => At(p + n) = 1

In(state) == phase = "decode" /\ d_state.kind = state
Unchanged == UNCHANGED <<encoder, limit>>

\* The output is filled from the front, or from the end by decode_backward.
Push(o, b) == IF backward THEN <<b>> \o o ELSE Append(o, b)
Source(o, off) == IF backward THEN o[off] ELSE o[Len(o) - off + 1]
PushAll(o, bs) == IF backward THEN Reverse(bs) \o o ELSE o \o bs

\* copy_match: byte by byte, so that a match may overlap what it produces.
CopyMatch(o, off, n) ==
    LET copied[i \in 0 .. n] ==
            IF i = 0 THEN o ELSE Push(copied[i - 1], Source(copied[i - 1], off))
    IN  copied[n]

\* decode stops at orig_len; decode_min_eof only at the marker.
Room(n) == IF DecEof THEN n ELSE IF n <= limit - Len(out) THEN n ELSE limit - Len(out)
Stops(o) == ~DecEof /\ Len(o) >= limit

DecLiterals ==
    /\ In("Literals")
    /\ HasGammaAt(rd)
    /\ LET g == ReadGamma(rd)
           n == Room(g.val)
           o == PushAll(out, [j \in 1 .. n |-> At(g.next + j - 1)])
       IN /\ out' = o
          /\ rd' = g.next + n
          /\ phase' = IF Stops(o) THEN "done" ELSE "decode"
          /\ d_state' = St("AfterLitMatch")
    /\ UNCHANGED d_reps
    /\ Unchanged

\* (Mutant of AfterLitSymbol: slots 3 and 4 in the order of their numbers.)
AfterLitSymbolSwapped(n) ==
    CASE n = 0 -> NewOffset
      [] n \in 1 .. 2 -> Rep(n)
      [] n = 3 -> NearRep(1)
      [] n \in 4 .. 5 -> Rep(n - 1)
      [] n = 6 -> NearRep(2)

\* read_after_lit_prefix
AfterLitSymbol(n) ==
    CASE n = 0 -> NewOffset
      [] n = 1 -> Rep(1)
      [] n = 2 -> Rep(2)
      [] n = 3 -> NearRep(1)
      [] n = 4 -> Rep(4)
      [] n = 5 -> Rep(3)
      [] n = 6 -> NearRep(2)

DecAfterLit ==
    /\ In("AfterLitMatch")
    /\ IF DecNear
       THEN LET n == LeadingZeros(rd, 6) IN
            /\ d_state' = AfterLitSymbol(n)
            /\ rd' = rd + (IF n = 6 THEN 6 ELSE n + 1)
       ELSE IF At(rd) = 1
       THEN d_state' = NewOffset /\ rd' = rd + 1
       ELSE IF DecSlots > 1
       THEN LET n == LeadingZeros(rd + 1, 3) IN
            /\ d_state' = Rep(n + 1)
            /\ rd' = rd + 1 + (IF n = 3 THEN 3 ELSE n + 1)
       ELSE d_state' = Rep(1) /\ rd' = rd + 1
    /\ UNCHANGED <<phase, d_reps, out>>
    /\ Unchanged

\* read_after_match_state
DecAfterMatch ==
    /\ In("AfterMatch")
    /\ IF At(rd) = 0
       THEN d_state' = St("Literals") /\ rd' = rd + 1
       ELSE IF ~DecAm
       THEN d_state' = NewOffset /\ rd' = rd + 1
       ELSE IF At(rd + 1) = 0
       THEN d_state' = NewOffset /\ rd' = rd + 2
       ELSE d_state' = AfterMatchNearRep(At(rd + 2) + 1) /\ rd' = rd + 3
    /\ UNCHANGED <<phase, d_reps, out>>
    /\ Unchanged

\* The copy every kind of match ends with.
Match(off, len, next, queue) ==
    LET o == CopyMatch(out, off, Room(len)) IN
    /\ off \in 1 .. Len(out)
    /\ out' = o
    /\ rd' = next
    /\ d_reps' = queue
    /\ phase' = IF Stops(o) THEN "done" ELSE "decode"
    /\ d_state' = St("AfterMatch")
    /\ Unchanged

DecRep ==
    /\ In("Rep")
    /\ HasGammaAt(rd)
    /\ LET g == ReadGamma(rd) IN
       Match(d_reps[d_state.ri], g.val, g.next, RepMtf(d_reps, d_state.ri))

\* read_near_rep_off, then the length.
DecNearRep ==
    /\ In("NearRep") \/ In("AfterMatchNearRep")
    /\ HasGammaAt(rd + 1)
    /\ LET base == d_reps[d_state.ri]
           delta == ReadGamma(rd + 1)
           off == IF At(rd) = 0 THEN base + delta.val ELSE base - delta.val
       IN /\ HasGammaAt(delta.next)
          /\ LET g == ReadGamma(delta.next) IN
             Match(off, g.val + 1, g.next, RepInsert(d_reps, off))

\* rep_insert_n: the whole queue shifts, however many slots are in use.
RepInsertN(q, off) == RepInsert(q, off)

DecNewOffset ==
    /\ In("NewOffset")
    /\ HasGammaAt(rd)
    /\ LET msb == ReadGamma(rd)
           off == (msb.val - 1) * LsbRange + At(msb.next) + 1
       IN /\ ~(DecEof /\ msb.val >= EOF_MSB)
          /\ HasGammaAt(msb.next + 1)
          /\ LET g == ReadGamma(msb.next + 1) IN
             Match(off, g.val + 1, g.next, RepInsertN(d_reps, off))

\* decode_min_eof: the marker, then out.truncate(orig_len).
DecEofMarker ==
    /\ In("NewOffset") /\ DecEof
    /\ HasGammaAt(rd)
    /\ ReadGamma(rd).val >= EOF_MSB
    /\ rd' = ReadGamma(rd).next
    /\ out' = IF Len(out) > limit THEN SubSeq(out, 1, limit) ELSE out
    /\ phase' = "done"
    /\ UNCHANGED <<d_state, d_reps>>
    /\ Unchanged

Decode ==
    \/ DecLiterals \/ DecAfterLit \/ DecAfterMatch
    \/ DecRep \/ DecNearRep \/ DecNewOffset \/ DecEofMarker
-----------------------------------------------------------------------------
InitReps == <<1, 1, 1, 1>>

Init ==
    /\ cfg \in Configs
    /\ backward \in cfg.directions
    /\ phase = "encode"
    /\ input = <<>> /\ stream = <<>>
    /\ prev = "Start"
    /\ reps = InitReps /\ d_reps = InitReps
    /\ predicted = 0
    /\ mode = IF cfg.eof THEN MODE_MIN_EOF
              ELSE cfg.slots + (IF cfg.near THEN 16 ELSE 0) + (IF cfg.am THEN 32 ELSE 0)
    /\ marks = <<[at |-> 1, len |-> 0, reps |-> InitReps, prev |-> "Start",
                 unit |-> UnitOf(St("Start"), 0, 0), symbols |-> <<>>, covered |-> <<>>]>>
    /\ limit = 0 /\ rd = 1 /\ out = <<>>
    /\ d_state = St("Literals")

Letters == UNION {cfg.alphabet[p] : p \in 1 .. MaxLen}

\* The literal runs that may come next.
Runs ==
    LET room == IF MaxLen - Len(input) < cfg.run THEN MaxLen - Len(input) ELSE cfg.run IN
    UNION {{run \in [1 .. n -> Letters] :
                \A j \in 1 .. n : run[j] \in cfg.alphabet[Len(input) + j]} : n \in 1 .. room}

Encode ==
    \/ \E run \in Runs : Literals(run)
    \/ \E off \in cfg.offsets, len \in cfg.lens :
        \/ RepMatch(off, len)
        \/ NewMatch(off, len)
        \/ \E i \in {1, 2} : NearMatch(off, len, i)
    \/ Finish

Next == Encode \/ Decode

\* A decoder that has been called runs on; nothing makes an encoder stop.
Spec == Init /\ [][Next]_vars /\ WF_vars(Decode)
-----------------------------------------------------------------------------
(* Properties. *)

TypeOK ==
    /\ cfg.slots \in 1 .. 4 /\ backward \in BOOLEAN
    /\ phase \in {"encode", "decode", "done"}
    /\ input \in Seq(Letters) /\ Len(input) <= MaxLen
    /\ prev \in {"Start", "Literals", "Match"}
    /\ reps \in [1 .. 4 -> Nat \ {0}] /\ d_reps \in [1 .. 4 -> Nat \ {0}]
    /\ predicted \in Nat /\ mode \in 0 .. 255
    /\ \A p \in 1 .. Len(stream) : stream[p].kind \in {"bit", "byte", "lsb"}
    /\ d_state.ri \in 0 .. 4
    /\ rd \in Nat /\ limit \in Nat /\ out \in Seq(Letters)

Original == IF backward THEN Reverse(input) ELSE input

\* What the decoder has produced is at every moment the beginning of the input
\* (its end for a backward stream), and all of it when the decoder returns.
RoundTrip ==
    /\ IF backward THEN IsSuffix(out, Original) ELSE IsPrefix(out, Original)
    /\ phase = "done" => out = Original

\* Between two units and after the last decoder and encoder agree: same place in the stream, same
\* amount of output, same kind of unit behind and the same queue of offsets.
Mirrored ==
    d_state.kind \in {"AfterLitMatch", "AfterMatch"} =>
        \E u \in 1 .. Len(marks) :
            /\ marks[u].at = rd /\ marks[u].len = Len(out)
            /\ marks[u].reps = d_reps
            /\ marks[u].prev = IF d_state.kind = "AfterMatch" THEN "Match" ELSE "Literals"

\* predicted_payload_bits is the exact size of what the encoder writes.
SymBits(sym) == CASE sym.kind = "bit" -> 1 [] sym.kind = "byte" -> 8 [] sym.kind = "lsb" -> LsbBits
BitsOf(s) ==
    LET sum[j \in 0 .. Len(s)] == IF j = 0 THEN 0 ELSE sum[j - 1] + SymBits(s[j])
    IN  sum[Len(s)]
CostExact == phase = "encode" => BitsOf(stream) = predicted

\* A decoder that has been started returns.
DecoderReturns == phase = "decode" ~> phase = "done"
-----------------------------------------------------------------------------
(* For TLC: every parse of short inputs in every grammar the public encoder *)
(* accepts, and long parses in the four-slot grammars.                     *)

Grammar(slots, near, am, eof) == [slots |-> slots, near |-> near, am |-> am, eof |-> eof]

Grammars ==
    {Grammar(n, FALSE, FALSE, FALSE) : n \in 1 .. 4}
        \cup {Grammar(4, near, am, FALSE) : near, am \in BOOLEAN}
        \cup {Grammar(1, FALSE, FALSE, TRUE)}

\* Short inputs: every literal may be 0 or 1.
Short(g) == g @@ [alphabet |-> [p \in 1 .. 4 |-> {0, 1}], run |-> 2, lens |-> 1 .. 3,
                  offsets |-> 1 .. 4, directions |-> BOOLEAN]

\* Long inputs: every position has a value of its own, and literals stand at
\* the positions given.  A literal, a match at the initial offset and three new
\* ones fill the queue; the literal after them lets every slot be named.
Long(g, at, len, directions) ==
    g @@ [alphabet |-> [p \in 1 .. len |-> IF p \in at THEN {p} ELSE {}],
          run |-> 1, lens |-> {2}, offsets |-> 1 .. 3, directions |-> directions]

LongGrammars ==
    {Long(Grammar(4, near, FALSE, FALSE), {1, 10}, 12, BOOLEAN) : near \in BOOLEAN}
        \cup {Long(Grammar(4, near, TRUE, FALSE), {1, 8}, 10, {near}) : near \in BOOLEAN}

AllConfigs == {Short(g) : g \in Grammars} \cup LongGrammars
=============================================================================
