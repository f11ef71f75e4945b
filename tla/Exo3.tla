-------------------------------- MODULE Exo3 --------------------------------
(***************************************************************************)
(* Exomizer 3 raw streams (src/src/exo3.rs).  Lengths and offsets are      *)
(* coded against tables of intervals, which the stream starts with.  The   *)
(* writer works from the end of the stream to its beginning, so that the   *)
(* byte of bits that is not full is the first one; a match that follows    *)
(* one literal node after a match has a bit to repeat that match's offset. *)
(***************************************************************************)
EXTENDS LzStream, FiniteSets

END_OF_STREAM == 16
LITERAL_SEQUENCE == 17
HeaderBits == 4 * (16 + 16 + 16 + 4)

\* optimal_out; trial.tables: of lengths, and of offsets of matches of length 1, 2
\* and more.
Header ==
    [kind |-> "tables",
     val |-> [bits |-> HeaderBits,
              lengths |-> Intervals(trial.tables.lengths, 16), one |-> Intervals(trial.tables.one, 4),
              two |-> Intervals(trial.tables.two, 16), more |-> Intervals(trial.tables.more, 16)]]

\* output_bits (from 8 bits on the low 8 are a byte of their own) and
\* output_gamma_code, in the order in which they are read.
OutputBits(count, v) ==
    IF count > 7 THEN Width(v \div 256, count - 8) \o <<Byte(v % 256)>> ELSE Width(v, count)
GammaCode(k) == Bits([j \in 1 .. (k + 1) |-> IF j = k + 1 THEN 1 ELSE 0])

\* optimal_encode_int: a prefix names the interval, in unary if width is 0.
EncodeInt(bits, v, width) ==
    LET i == IntervalOf(bits, v) IN
    (IF width = 0 THEN GammaCode(i - 1) ELSE Width(i - 1, width)) \o OutputBits(bits[i], v - BaseOf(bits, i))
CostOfInt(bits, v, width) ==
    LET i == IntervalOf(bits, v) IN (IF width = 0 THEN i ELSE width) + bits[i]

OffsetTable(tables, n) == IF n = 1 THEN tables.one ELSE IF n = 2 THEN tables.two ELSE tables.more
OffsetPrefix(n) == IF n = 1 THEN 2 ELSE 4

\* latest_offset of update_snp, zero if there is no offset to repeat.
LatestOffset == IF prev = "LiteralsAfterMatch" THEN last ELSE 0

\* do_output_backwards, a literal node: a sequence and single literals before it.
\* The first byte of all has no flag; no sequence has a length of low byte 0.
SequenceLen(n) ==
    LET l == IF prev = "Start" THEN n - 1 ELSE n IN
    IF n = 1 THEN 0 ELSE IF l > 1 /\ l % 256 = 0 THEN l - 1 ELSE l
Singles(n) ==
    Fold(LAMBDA acc, j : acc \o (IF prev = "Start" /\ j = 1 THEN <<>> ELSE <<Bit(1)>>)
                           \o <<[kind |-> "run", val |-> <<Fresh(n)[j]>>]>>,
         <<>>, [j \in 1 .. (n - SequenceLen(n)) |-> j])
Sequence(n) ==
    LET l == SequenceLen(n) IN
    IF l = 0 THEN <<>>
    ELSE <<Bit(0)>> \o GammaCode(LITERAL_SEQUENCE) \o Bytes(<<l \div 256, l % 256>>)
           \o <<[kind |-> "run", val |-> SubSeq(Fresh(n), n - l + 1, n)]>>

\* search_buffer charges 9 bits for a literal and 8 n + 35 for n of them.
ExoLiterals(n) ==
    /\ Encoding("exo3")
    /\ Unit(Singles(n) \o Sequence(n), Fresh(n), IF prev = "Match" THEN "LiteralsAfterMatch" ELSE "Literals",
            last, IF n = 1 THEN 9 ELSE 8 * n + 35)

\* optimal_encode
ExoMatch(off, n) ==
    LET table == OffsetTable(trial.tables, n)
        same == off = LatestOffset
    IN /\ Encoding("exo3")
       /\ prev # "Start" /\ off \in 1 .. Len(input)
       /\ Encodable(trial.tables.lengths, n) /\ Encodable(table, off)
       /\ Unit(<<Bit(0)>> \o EncodeInt(trial.tables.lengths, n, 0)
                 \o (IF LatestOffset = 0 THEN <<>> ELSE <<Bit(IF same THEN 1 ELSE 0)>>)
                 \o (IF same THEN <<>> ELSE EncodeInt(table, off, OffsetPrefix(n))),
               Repeats(input, off, n), "Match", off,
               1 + CostOfInt(trial.tables.lengths, n, 0) + (IF LatestOffset = 0 THEN 0 ELSE 1)
                 + (IF same THEN 0 ELSE CostOfInt(table, off, OffsetPrefix(n))))

\* The bits are packed from the end of the stream on: the first byte, which the
\* marker of output_bits_flush shares, holds what is left over.  The symbols move
\* from where they would be if the first byte was full.
BytesFor(bits) == (bits + ByteBits - 1) \div ByteBits
BitsUpTo(symbols, p) == Cardinality({q \in 1 .. p : symbols[q].kind = "bit"})
Packed(wr) ==
    LET spare == BitsUpTo(wr.tape, Len(wr.tape)) % ByteBits
        first == 1 + HeaderBits \div ByteBits
        symbols == <<Header @@ [ip |-> first]>>
                     \o [p \in 1 .. Len(wr.tape) |->
                           LET bits == BitsUpTo(wr.tape, p) IN
                           [wr.tape[p] EXCEPT !.ip = @ + first + BytesFor(bits - spare) - BytesFor(bits)]]
    IN [w |-> [wr.w EXCEPT !.bytes = symbols[Len(symbols)].ip], tape |-> symbols]

ExoFinish ==
    /\ Encoding("exo3")
    /\ prev # "Start"
    /\ Hand(Packed(Written(<<Bit(0)>> \o GammaCode(END_OF_STREAM))), <<>>, "Start", 0)
-----------------------------------------------------------------------------
(* decode_with_gap.  d_state holds what the last two tokens were.          *)

ExoStates == {"Token", "LastOffset", "AfterLiterals"}
AtToken == phase = "decode" /\ trial.format = "exo3" /\ d_state \in ExoStates
AfterLiteral == IF d_state = "Token" THEN "LastOffset" ELSE "AfterLiterals"

\* gamma and read_bits
ReadUnary(p) ==
    LET k == CHOOSE k \in 0 .. Len(tape) : IsBit(p + k, 1) /\ \A j \in 0 .. (k - 1) : IsBit(p + j, 0) IN
    [val |-> k, next |-> p + k + 1]
ReadBits(p, n) ==
    IF n > 7 THEN [val |-> 256 * Number(p, n - 8) + At(p + n - 8), next |-> p + n - 7]
    ELSE [val |-> Number(p, n), next |-> p + n]
ReadInt(bits, i, p) ==
    LET extra == ReadBits(p, bits[i]) IN [val |-> BaseOf(bits, i) + extra.val, next |-> extra.next]

\* The first byte has no flag.
ExoDecFirst ==
    /\ Decoding("exo3", "Start")
    /\ max_gap' = Looked(out, rd + 1)
    /\ HasRun(rd + 1, 1)
    /\ Produces(Raw(rd + 1, 1), rd + 2)
    /\ Goes(rd + 2, "AfterLiterals", 0)

ExoDecLiteral ==
    /\ AtToken /\ IsBit(rd, 1)
    /\ max_gap' = Looked(out, rd)
    /\ HasRun(rd + 1, 1)
    /\ Produces(out \o Raw(rd + 1, 1), rd + 2)
    /\ Goes(rd + 2, AfterLiteral, d_last)

\* A length of low byte 0 would make the 6502's loop copy 256 bytes more.
ExoDecSequence ==
    /\ AtToken /\ IsBit(rd, 0)
    /\ max_gap' = Looked(out, rd)
    /\ \E index \in {ReadUnary(rd + 1)} :
        /\ index.val = LITERAL_SEQUENCE
        /\ LET stored == 256 * At(index.next) + At(index.next + 1)
               n == IF stored > 0 /\ stored % 256 = 0 THEN stored + 256 ELSE stored
               run == index.next + 2
           IN /\ HasRun(run, n)
              /\ Produces(out \o Raw(run, n), AfterRun(run, n))
              /\ Goes(AfterRun(run, n), AfterLiteral, d_last)

ExoDecMatch ==
    /\ AtToken /\ IsBit(rd, 0)
    /\ max_gap' = Looked(out, rd)
    /\ \E index \in {ReadUnary(rd + 1)} :
        \/ index.val = END_OF_STREAM /\ Ends(index.next)
        \/ /\ index.val < END_OF_STREAM
           /\ \E n \in {ReadInt(At(1).lengths, index.val + 1, index.next)} :
              LET flagged == d_state = "LastOffset"
                  same == flagged /\ IsBit(n.next, 1)
                  p == IF flagged THEN n.next + 1 ELSE n.next
                  i == Number(p, OffsetPrefix(n.val)) + 1
              IN \E off \in {IF same THEN [val |-> d_last, next |-> p]
                             ELSE ReadInt(OffsetTable(At(1), n.val), i, p + OffsetPrefix(n.val))} :
                    /\ off.val \in 1 .. Len(out)
                    /\ Produces(Copied(off.val, n.val), off.next)
                    /\ Goes(off.next, "Token", off.val)

ExoNext ==
    \/ \E n \in trial.runs : ExoLiterals(n)
    \/ \E off \in trial.offsets, n \in trial.lens : ExoMatch(off, n)
    \/ ExoFinish
    \/ ExoDecFirst \/ ExoDecLiteral \/ ExoDecSequence \/ ExoDecMatch
=============================================================================
