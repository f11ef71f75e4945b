------------------------------ MODULE Subsizer ------------------------------
(***************************************************************************)
(* Subsizer streams (src/src/subsizer.rs): a byte for the length that ends *)
(* the stream, five tables of intervals, and a bit before each token.  The *)
(* stream a stand-alone decoder reads starts with a bit kept for a marker. *)
(***************************************************************************)
EXTENDS LzStream

LEN_PARTS == 16
SINGLE_BYTE_PARTS == 4
LONG_MATCH_PARTS == 16
HeaderBits == 4 * (LEN_PARTS + 3 * LONG_MATCH_PARTS + SINGLE_BYTE_PARTS)

\* generate_into: the tables, of lengths and of offsets of matches of length 1, 2,
\* 3 and more.
Tables ==
    [kind |-> "tables",
     val |-> [bits |-> HeaderBits,
              lengths |-> Intervals(trial.tables.lengths, LEN_PARTS),
              offsets |-> [k \in 1 .. 4 |-> Intervals(trial.tables.offsets[k],
                                                      IF k = 1 THEN SINGLE_BYTE_PARTS ELSE LONG_MATCH_PARTS)]]]
TableOf(tables, n) == IF n >= 4 THEN tables.offsets[4] ELSE tables.offsets[n]

\* write_unary and write_enc: the last interval's unary prefix needs no end.
Unary(i, lim) == Bits([j \in 1 .. (IF i < lim - 1 THEN i + 1 ELSE i) |-> IF j <= i THEN 0 ELSE 1])
PrefixWidth(n) == IF n = 1 THEN 2 ELSE 4
LengthCode(n) ==
    LET parts == Tables.val.lengths
        i == IntervalOf(parts, n)
    IN Unary(i - 1, LEN_PARTS) \o Width(n - BaseOf(parts, i), parts[i])
OffsetCode(off, n) ==
    LET parts == TableOf(Tables.val, n)
        i == IntervalOf(parts, off)
    IN Width(i - 1, PrefixWidth(n)) \o Width(off - BaseOf(parts, i), parts[i])

\* cost_unary and cost_enc
CostOfLength(n) ==
    LET i == IntervalOf(Tables.val.lengths, n) IN
    (IF i = LEN_PARTS THEN i - 1 ELSE i) + Tables.val.lengths[i]
CostOfOffset(off, n) == LET parts == TableOf(Tables.val, n) IN PrefixWidth(n) + parts[IntervalOf(parts, off)]

SubLiteral ==
    /\ Encoding("subsizer")
    /\ IF prev = "Start"
       THEN Unit(<<Byte(trial.endm), Tables, Bit(1)>> \o Run(1), Fresh(1), "Literals", 0, 8 + HeaderBits + 9)
       ELSE Unit(<<Bit(1)>> \o Run(1), Fresh(1), "Literals", 0, 9)

\* path_encodable: no match has the length that ends the stream.
SubMatch(off, n) ==
    /\ Encoding("subsizer")
    /\ prev # "Start" /\ off \in 1 .. Len(input) /\ n # trial.endm
    /\ Encodable(Tables.val.lengths, n) /\ Encodable(TableOf(Tables.val, n), off)
    /\ Unit(<<Bit(0)>> \o LengthCode(n) \o OffsetCode(off, n), Repeats(input, off, n), "Match", 0,
            1 + CostOfLength(n) + CostOfOffset(off, n))

SubFinish ==
    /\ Encoding("subsizer")
    /\ prev # "Start"
    /\ Finish(<<Bit(0)>> \o LengthCode(trial.endm), <<>>, "Start", 0)
-----------------------------------------------------------------------------
(* decrunch_normal_int_with_gap, decrunch_preshift_int_with_gap. *)

\* read_unary and read_enc, i counted from 1.
ReadUnary(p, lim) ==
    LET k == CHOOSE k \in 0 .. (lim - 1) : (k = lim - 1 \/ IsBit(p + k, 1)) /\ \A j \in 0 .. (k - 1) : IsBit(p + j, 0) IN
    [i |-> k + 1, next |-> IF k = lim - 1 THEN p + k ELSE p + k + 1]
ReadEnc(parts, i, p) == [val |-> BaseOf(parts, i) + Number(p, parts[i]), next |-> p + parts[i]]

SubDecHeader ==
    /\ Decoding("subsizer", "Start")
    /\ Goes(rd + 2, "Token", 0)
    /\ UNCHANGED <<out, max_gap, peak>>

SubDecLiteral ==
    /\ Decoding("subsizer", "Token") /\ IsBit(rd, 1)
    /\ max_gap' = Looked(out, rd)
    /\ HasRun(rd + 1, 1)
    /\ Produces(out \o Raw(rd + 1, 1), rd + 2)
    /\ Goes(rd + 2, "Token", 0)

SubDecMatch ==
    /\ Decoding("subsizer", "Token") /\ IsBit(rd, 0)
    /\ max_gap' = Looked(out, rd)
    /\ \E prefix \in {ReadUnary(rd + 1, LEN_PARTS)} : \E n \in {ReadEnc(At(2).lengths, prefix.i, prefix.next)} :
        \/ n.val = At(1) /\ Ends(n.next)
        \/ /\ n.val # At(1)
           /\ \E off \in {ReadEnc(TableOf(At(2), n.val), Number(n.next, PrefixWidth(n.val)) + 1,
                                  n.next + PrefixWidth(n.val))} :
                /\ off.val \in 1 .. Len(out)
                /\ Produces(Copied(off.val, n.val), off.next)
                /\ Goes(off.next, "Token", 0)

SubNext ==
    \/ SubLiteral \/ SubFinish
    \/ \E off \in trial.offsets, n \in trial.lens : SubMatch(off, n)
    \/ SubDecHeader \/ SubDecLiteral \/ SubDecMatch
=============================================================================
