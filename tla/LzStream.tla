------------------------------ MODULE LzStream ------------------------------
(***************************************************************************)
(* What the codecs of src/src other than LZAN's own have in common.  An    *)
(* encoder replays the units of a parse; a decoder reads the stream token  *)
(* by token and copies literals and earlier output; a gap function decodes *)
(* once more and reports how far the read head must stay ahead of the      *)
(* write head when stream and output share memory.                         *)
(*                                                                         *)
(* Each format is a module of its own that extends this one.  The stream   *)
(* is a tape of symbols (bits, bytes, runs of bytes, low bytes of offsets),*)
(* as in ZxCodec; each symbol also carries the number of bytes a reader    *)
(* has consumed once it has read it, which is the number of bytes the      *)
(* writer had produced once it had written it (BitIO's Lockstep).  The     *)
(* value of an input byte is the position it first stood at, so that every *)
(* wrong offset and every wrong length shows.                              *)
(***************************************************************************)
EXTENDS Integers, SequencesExt

CONSTANTS Trials,    \* What is tried: records of a format, a direction (backward) and
                     \* bounds: units (most units of a parse), runs (lengths of literal
                     \* runs), lens and offsets of matches.
          ByteBits,  \* Bits in a byte of bits (8).
          LsbBits,   \* Bits of an offset in its low byte (7).
          IntervalBits, \* Bits of Shrinkler's interval and probabilities (16).
          Cap        \* 2^8: the gamma value of an end marker, ZX02's largest value.

\* MAX_OFFSET and MAX_VARLEN of the byte-aligned formats.
SixteenBits == 1 .. 65535

\* What the codes of BoltLZ and LZSA1 can hold.  One run a parser may make is longer:
\* an input of 65536 bytes without any match, whose count of literals LZSA1 cuts to 0,
\* as LZSA2 does.
ASSUME StreamAssumption ==
    /\ ByteBits \in Nat \ {0}
    /\ \A t \in Trials :
        t.format \in {"bolt", "lzsa1"} =>
            t.runs \subseteq SixteenBits /\ t.lens \subseteq SixteenBits /\ t.offsets \subseteq SixteenBits

VARIABLES trial,     \* the format and its bounds
          phase,     \* "encode", "decode" or "done"
          input,     \* the input covered so far
          prev,      \* encoder: the kind of the last unit
          last,      \* encoder: the offset of the last match
          predicted, \* the parser's cost of the units so far, in bits
          tape,      \* the stream
          w,         \* the bit writer: bytes written, bits left in the open one, backtrack
          marks,     \* where each unit ended
          coder,     \* the range coder of the writer, then of the reader
          d_state,   \* decoder: what comes next
          d_last,    \* decoder: the last offset
          rd,        \* decoder: the next symbol (1-based)
          out,       \* decoder: the output
          max_gap,   \* gap function: the greatest produced - consumed it has seen
          peak       \* history: the greatest produced - consumed there was

written == <<trial, input, prev, last, predicted, tape, w, marks>>
encoder == <<written, coder>>
decoder == <<d_state, d_last, rd, out, max_gap, peak>>
vars == <<encoder, phase, decoder>>

Larger(a, b) == IF a >= b THEN a ELSE b

\* FoldLeft of SequencesExt as a recursive function: TLC's time is linear in the
\* length of the sequence.
Fold(Op(_, _), base, seq) ==
    LET f[k \in 0 .. Len(seq)] == IF k = 0 THEN base ELSE Op(f[k - 1], seq[k]) IN f[Len(seq)]
-----------------------------------------------------------------------------
(* Writing. *)

Bit(v) == [kind |-> "bit", val |-> v]
Byte(v) == [kind |-> "byte", val |-> v]
Lsb(v) == [kind |-> "lsb", val |-> v]
Nibble(v) == [kind |-> "nibble", val |-> v]
Bits(seq) == [j \in 1 .. Len(seq) |-> Bit(seq[j])]
Bytes(seq) == [j \in 1 .. Len(seq) |-> Byte(seq[j])]

\* Input bytes not seen before, and the symbol for them: a run is one symbol, and
\* a decoder that asks for another number of bytes gets nothing.
Fresh(n) == [j \in 1 .. n |-> Len(input) + j]
Run(n) == IF n = 0 THEN <<>> ELSE <<[kind |-> "run", val |-> Fresh(n)]>>

\* Mutant: the mask starts one bit too high.
PutWideMask(wr, sym) ==
    IF sym.kind = "bit" /\ ~wr.back /\ wr.left = 0
    THEN [wr EXCEPT !.bytes = @ + 1, !.left = ByteBits]
    ELSE [wr EXCEPT !.bytes = @ + (IF sym.kind = "bit" THEN 0 ELSE 1), !.back = sym.kind = "lsb"]

\* write_byte, write_bit, nibble (two to a byte) and tables.  The first bit after an offset's low byte takes
\* that byte's free bit; the very first bit of a stream has no byte to go to
\* and is not written at all.
Put(wr, sym) ==
    IF sym.kind = "run"
    THEN [wr EXCEPT !.bytes = @ + Len(sym.val), !.back = FALSE]
    ELSE IF sym.kind = "tables" \* a multiple of ByteBits
    THEN [wr EXCEPT !.bytes = @ + sym.val.bits \div ByteBits]
    ELSE IF sym.kind = "nibble"
    THEN [wr EXCEPT !.bytes = @ + 1 - wr.left, !.left = 1 - wr.left]
    ELSE IF sym.kind # "bit"
    THEN [wr EXCEPT !.bytes = @ + 1, !.back = sym.kind = "lsb"]
    ELSE IF wr.back
    THEN [wr EXCEPT !.back = FALSE]
    ELSE IF wr.left = 0
    THEN [wr EXCEPT !.bytes = @ + 1, !.left = ByteBits - 1]
    ELSE [wr EXCEPT !.left = @ - 1]

\* The writer and the tape after some more symbols; a stream laid out anew.  A
\* backward Subsizer stream keeps its first bit for a marker.
PutOn(acc, sym) ==
    LET wr == Put(acc.w, sym) IN
    [w |-> wr,
     tape |-> IF acc.w.back /\ acc.w.bytes = 0 /\ sym.kind = "bit" THEN acc.tape
              ELSE Append(acc.tape, [kind |-> sym.kind, val |-> sym.val, ip |-> wr.bytes])]
More(writer, symbols) == Fold(PutOn, writer, symbols)
NewWriter ==
    IF trial.format = "subsizer" /\ trial.backward THEN [bytes |-> 1, left |-> ByteBits - 1, back |-> FALSE]
    ELSE [bytes |-> 0, left |-> 0, back |-> trial.format \in {"zx0", "zx02"}]
Written(symbols) == More([w |-> w, tape |-> tape], symbols)
Laid(symbols) == More([w |-> NewWriter, tape |-> <<>>], symbols)

\* Bits that fill their last byte, and bytes, laid out at once.
LaidUnits(kind, units, per_byte) ==
    [w |-> [NewWriter EXCEPT !.bytes = Len(units) \div per_byte],
     tape |-> [j \in 1 .. Len(units) |-> [kind |-> kind, val |-> units[j], ip |-> (j + per_byte - 1) \div per_byte]] \o <<>>]

\* The k low bits of v, most significant first.
FloorLog2(v) == CHOOSE k \in 0 .. v : 2^k <= v /\ v < 2^(k + 1)

\* write_interlaced_elias_gamma: control bits that are stop only at the end,
\* data bits between them, inverted or not.
Gamma(v, stop, inverted) ==
    LET k == FloorLog2(v) IN
    Bits([j \in 1 .. (2 * k + 1) |->
             IF j = 2 * k + 1 THEN stop
             ELSE IF j % 2 = 1 THEN 1 - stop
             ELSE LET b == (v \div 2^(k - j \div 2)) % 2 IN IF inverted THEN 1 - b ELSE b])

\* A number in n bits, most significant first.
Width(v, n) == Bits([j \in 1 .. n |-> (v \div 2^(n - j)) % 2])

\* elias_gamma_bits
GammaBits(v) == 1 + 2 * FloorLog2(v)

Units == Len(marks) - 1
Encoding(format) == phase = "encode" /\ trial.format = format

\* The bytes a match stands for.
Repeats(s, off, n) == [j \in 1 .. n |-> s[Len(s) - off + 1 + ((j - 1) % off)]]

\* Where a unit ended: on the input and on the tape.
Mark(wr, n, offset) == [len |-> n, last |-> offset, bytes |-> wr.w.bytes, tape |-> Len(wr.tape)]

\* One unit: its symbols, the input it covers, its kind, the offset it leaves
\* behind and the parser's cost.
Adds(wr, covered, kind, offset, bits) ==
    /\ Units < trial.units
    /\ w' = wr.w
    /\ tape' = wr.tape
    /\ input' = input \o covered
    /\ prev' = kind
    /\ last' = offset
    /\ predicted' = predicted + bits
    /\ marks' = Append(marks, Mark(wr, Len(input'), offset))
    /\ UNCHANGED <<trial, phase, decoder>>
Unit(symbols, covered, kind, offset, bits) ==
    Adds(Written(symbols), covered, kind, offset, bits) /\ UNCHANGED coder

\* The end of the stream, and the decoder's start.
HandOver(wr, covered, state, offset) ==
    /\ w' = wr.w
    /\ tape' = wr.tape
    /\ input' = input \o covered
    /\ marks' = Append(marks, Mark(wr, Len(input'), last))
    /\ phase' = "decode"
    /\ d_state' = state
    /\ d_last' = offset
    /\ UNCHANGED <<trial, prev, last, predicted, rd, out, max_gap, peak>>
Hand(wr, covered, state, offset) == HandOver(wr, covered, state, offset) /\ UNCHANGED coder
Finish(symbols, covered, state, offset) == Hand(Written(symbols), covered, state, offset)
-----------------------------------------------------------------------------
(* Reading.  A decoder binds what it has read as \E n \in {Read(...)}: TLC  *)
(* then reads it once, also where it asks whether the decoder can go on.   *)

Decoding(format, state) == phase = "decode" /\ trial.format = format /\ d_state = state

At(p) == tape[p].val

\* Bytes consumed by a reader whose next symbol is p.
Consumed(p) == IF p = 1 THEN 0 ELSE tape[p - 1].ip

\* read_bit.
IsBit(p, v) == p <= Len(tape) /\ tape[p].kind = "bit" /\ tape[p].val = v

\* read_gamma: the number of data bits, and what they shift together.
HasGamma(p, stop) == \E k \in 0 .. Len(tape) : IsBit(p + 2 * k, stop)
GammaDataBits(p, stop) ==
    CHOOSE k \in 0 .. Len(tape) :
        IsBit(p + 2 * k, stop) /\ \A j \in 0 .. (k - 1) : ~IsBit(p + 2 * j, stop)
ReadGamma(p, stop, inverted) ==
    LET k == GammaDataBits(p, stop) IN
    [val |-> Fold(LAMBDA v, j : 2 * v + (IF inverted THEN 1 - At(p + 2 * j - 1) ELSE At(p + 2 * j - 1)),
                  1, [j \in 1 .. k |-> j]),
     next |-> p + 2 * k + 1]

\* n bits from p on, as a number.
Number(p, n) == Fold(LAMBDA v, j : 2 * v + At(p + j - 1), 0, [j \in 1 .. n |-> j])

\* A run of n bytes, and what comes after it.  A decoder that would take none of a
\* run that is there, or another number of bytes, goes on among data: it stops here.
HasRun(p, n) ==
    LET at_run == p <= Len(tape) /\ tape[p].kind = "run" IN
    IF n = 0 THEN ~at_run ELSE at_run /\ Len(At(p)) = n
Raw(p, n) == IF n = 0 THEN <<>> ELSE At(p)
AfterRun(p, n) == IF n = 0 THEN p ELSE p + 1
Copied(off, n) == out \o Repeats(out, off, n)

\* What a gap function remembers when it looks with output o and reader p.
Looked(o, p) == Larger(max_gap, Len(o) - Consumed(p))

\* The decoder has filled the output to o when it had consumed the stream up to
\* p: unless that was all of it, the last byte written had to stay clear of the
\* next byte to be read.
Produces(o, p) ==
    /\ out' = o
    /\ peak' = IF Consumed(p) < w.bytes THEN Larger(peak, Len(o) - Consumed(p)) ELSE peak

Reads(p, state, offset) ==
    /\ rd' = p
    /\ d_state' = state
    /\ d_last' = offset
    /\ UNCHANGED <<written, phase>>
Goes(p, state, offset) == Reads(p, state, offset) /\ UNCHANGED coder

\* The decoder returns.
Ends(p) ==
    /\ rd' = p
    /\ phase' = "done"
    /\ UNCHANGED <<encoder, d_state, d_last, out, peak>>

\* A range decoder returns where it is.
Stops ==
    /\ phase' = "done"
    /\ UNCHANGED <<written, rd, d_state, d_last, out, max_gap, peak>>

\* What the stream takes, in bits.
BitsOf(sym) ==
    CASE sym.kind = "bit" -> 1 [] sym.kind = "byte" -> 8 [] sym.kind = "nibble" -> 4 [] sym.kind = "lsb" -> LsbBits
      [] sym.kind = "run" -> 8 * Len(sym.val) [] sym.kind = "tables" -> sym.val.bits
TapeBits == Fold(LAMBDA n, sym : n + BitsOf(sym), 0, tape)

\* What max_gap_forward and max_gap_backward return.
Gap == Larger(max_gap - (Len(out) - w.bytes), 0)
-----------------------------------------------------------------------------
\* ZX0 and ZX02 start with offset 1, and a bit ahead: the first flag.
\* PuCrunch's current escape takes the place of an offset.
InitialOffset ==
    CASE trial.format \in {"zx0", "zx02"} -> 1 [] trial.format = "pucrunch" -> trial.start_esc [] OTHER -> 0
InitialBits == IF trial.format \in {"zx0", "zx02"} THEN -1 ELSE 0

\* A range coder that has coded nothing: contexts not touched yet have their first
\* probability.
NewCoder == [contexts |-> <<>>, min |-> 0, size |-> 2^(IntervalBits - 1), bits |-> <<>>, dest |-> -1]

StreamInit ==
    /\ trial \in Trials
    /\ phase = "encode"
    /\ input = <<>> /\ tape = <<>>
    /\ prev = "Start" /\ last = InitialOffset
    /\ predicted = InitialBits
    /\ w = NewWriter
    /\ marks = <<[len |-> 0, last |-> last, bytes |-> 0, tape |-> 0]>>
    /\ d_state = "Start" /\ d_last = 0
    /\ rd = 1 /\ out = <<>>
    /\ max_gap = 0 /\ peak = 0
    /\ coder = NewCoder
-----------------------------------------------------------------------------
(* Tables of intervals, as Exomizer 3 and Subsizer code lengths and        *)
(* offsets with: an interval is the number of its extra bits, and starts   *)
(* where the one before it ends.                                           *)

\* A table of the given size: intervals it does not have get no bits.
Intervals(bits, size) == [i \in 1 .. size |-> IF i <= Len(bits) THEN bits[i] ELSE 0]

BaseOf(bits, i) == Fold(LAMBDA base, b : base + 2^b, 1, SubSeq(bits, 1, i - 1))
Holds(bits, i, v) == BaseOf(bits, i) <= v /\ v < BaseOf(bits, i) + 2^bits[i]
Encodable(bits, v) == \E i \in 1 .. Len(bits) : Holds(bits, i, v)
IntervalOf(bits, v) == CHOOSE i \in 1 .. Len(bits) : Holds(bits, i, v)
-----------------------------------------------------------------------------
(* What the codecs promise, whatever the format.                           *)

\* The states of writer and reader: a bit of every open byte is spoken for, the
\* stream is never longer than what has been written.
TypeOK ==
    /\ phase \in {"encode", "finish", "decode", "done"}
    /\ input \in Seq(Nat) /\ out \in Seq(Nat)
    /\ prev \in {"Start", "Literals", "FullRun", "LiteralsAfterMatch", "Match"}
    /\ last \in Nat /\ d_last \in Nat /\ predicted \in Int
    /\ w.bytes \in Nat /\ w.left \in 0 .. ByteBits - 1 /\ w.back \in BOOLEAN
    /\ \A p \in 1 .. Len(tape) :
        /\ tape[p].kind \in {"tables", "decision"}
            \/ tape[p].val \in (CASE tape[p].kind = "bit" -> 0 .. 1 [] tape[p].kind = "run" -> Seq(Nat) [] OTHER -> Nat)
        /\ tape[p].ip \in 0 .. w.bytes
    /\ rd \in 1 .. Len(tape) + 1 /\ max_gap \in Int /\ peak \in Int

\* What a decoder has produced is at every moment the beginning of the input,
\* and all of it, with the stream read to its end, when it returns.  upkr leaves
\* what its state has no use for; Shrinkler's interval does not tell.
RangeCoded == {"upkr", "shrinkler"}
RoundTrip ==
    /\ IsPrefix(out, input)
    /\ phase = "done" => out = input /\ (trial.format \notin RangeCoded => rd = Len(tape) + 1)

\* A decoder that is about to read a unit stands where a unit of the encoder
\* ended, and has the offset to repeat that the encoder had there; so on the stream, where
\* it has read no flag yet and no header came first.
AtUnit == phase = "decode" /\ d_state \in {"Token", "Literals", "LastOffset", "NewOffset"}
OffsetBias == IF trial.format = "zx02" THEN 1 ELSE 0
NothingAhead == {"bolt", "lzsa1", "lzsa2", "bb2", "apultra", "pucrunch"}
InStep ==
    AtUnit => \E u \in 1 .. Len(marks) :
                  /\ marks[u].len = Len(out) /\ marks[u].last = d_last + OffsetBias
                  /\ trial.format \in NothingAhead => marks[u].tape + 1 = rd

\* What Exomizer's parse was charged too little: the flag of a literal cut off the
\* first sequence; too much: the flag of the first literal, which has none.
Uncharged ==
    LET n == marks[2].len IN IF n = 1 THEN -1 ELSE IF n > 2 /\ n % 256 = 1 THEN 1 ELSE 0

\* The parser's cost of the units is what the stream takes.  ZX02's parser
\* charges two bits too many for some offsets.  ByteBoozer2's leaves the flag of
\* a literal run to the match after it, and forgets what cutting a run costs.
Owed ==
    CASE trial.format = "bb2" -> IF prev = "Literals" THEN 1 ELSE 0
      [] trial.format = "exo3" -> Uncharged
      [] OTHER -> 0
Undercharged == trial.format = "bb2" /\ 255 \in trial.runs
CostExact ==
    phase = "encode" /\ prev # "Start" /\ trial.format \notin RangeCoded =>
        IF trial.format = "zx02" THEN TapeBits <= predicted
        ELSE IF Undercharged THEN TapeBits >= predicted
        ELSE TapeBits = predicted + Owed

\* ByteBoozer2's compute_margin: the writer's own count of how far it ran ahead.
Margin ==
    LET ahead == {marks[u].len - marks[u].bytes : u \in 2 .. (Len(marks) - 1)}
        final == marks[Len(marks)]
    IN (CHOOSE d \in ahead \cup {0} : \A e \in ahead \cup {0} : d >= e) - (final.len - final.bytes)

\* max_gap_forward and max_gap_backward are enough: at no byte the decoder
\* writes had output run further ahead of the stream than the gap allows for,
\* though they look at a few places only.  PuCrunch's container_max_gap lets output
\* start one byte further below the stream; ByteBoozer2's compute_margin finds the same
\* as its gap function.
GapEnough ==
    phase = "done" =>
        /\ CASE trial.format = "pucrunch" -> peak <= max_gap + 1 [] trial.format = "shrinkler" -> TRUE
           [] OTHER -> Gap >= peak - (Len(out) - w.bytes)
        /\ trial.format = "bb2" => Margin = Gap
=============================================================================
