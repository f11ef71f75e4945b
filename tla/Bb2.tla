-------------------------------- MODULE Bb2 ---------------------------------
(***************************************************************************)
(* ByteBoozer2 (src/src/bb2.rs): copy bit, gamma length, two bits for the  *)
(* width of the offset.  After a literal run there is no copy bit: a match *)
(* must follow, unless the run has the greatest length, 255.               *)
(***************************************************************************)
EXTENDS LzStream, FiniteSets

MAX_RUN == 255
MAX_OFFSET == 8192
MAX_OFFSET_SHORT == 1024
EOF == 255

\* NUM_BITS_SHORT_* and NUM_BITS_LONG_*: offset fields of matches of length 2, and
\* of longer ones.
Widths(short) == IF short THEN <<3, 6, 8, 10>> ELSE <<4, 7, 10, 13>>
Selector(o, short) == CHOOSE i \in 1 .. 4 : o < 2^Widths(short)[i] /\ \A j \in 1 .. (i - 1) : o >= 2^Widths(short)[j]

\* cost_of_length, cost_of_offset, calculate_cost_of_match; what
\* calculate_cost_of_literal adds up to over a run.
CostOfLength(n) == IF n >= 128 THEN 14 ELSE GammaBits(n)
CostOfMatch(n, off) == 1 + CostOfLength(n - 1) + 2 + Widths(n = 2)[Selector(off - 1, n = 2)]
CostOfLiterals(n) ==
    8 * n + 2 * Cardinality({b \in {2, 4, 8, 16, 32, 64} : n >= b}) + Cardinality({b \in {1, 128} : n >= b})

\* w_length
Length(n) == LET g == Gamma(n, 0, FALSE) IN IF n >= 128 THEN SubSeq(g, 1, 14) ELSE g

\* w_offset: the bits of a one-byte offset are inverted, of a two-byte offset
\* only the low byte is.
Offset(o, short) ==
    LET i == Selector(o, short)
        n == Widths(short)[i]
    IN Width(i - 1, 2)
        \o (IF n >= 8 THEN Width(o \div 256, n - 8) \o <<Byte(255 - (o % 256))>>
            ELSE Width(2^n - 1 - o, n))

CopyBit == IF prev = "Literals" THEN <<>> ELSE <<Bit(1)>>

\* write_output, one piece of a literal run: a run is cut into pieces of 255, and
\* only what is left at the end may be shorter.
Bb2Literals(n) ==
    /\ Encoding("bb2")
    /\ prev # "Literals" /\ n <= MAX_RUN
    /\ Unit(<<Bit(0)>> \o Length(n) \o Run(n), Fresh(n), IF n = MAX_RUN THEN "FullRun" ELSE "Literals",
            0, IF prev = "FullRun" THEN 8 * n ELSE CostOfLiterals(n))

Bb2Match(off, n) ==
    /\ Encoding("bb2")
    /\ n \in 2 .. MAX_RUN /\ off <= Len(input)
    /\ off <= (IF n = 2 THEN MAX_OFFSET_SHORT ELSE MAX_OFFSET)
    /\ Unit(CopyBit \o Length(n - 1) \o Offset(off - 1, n = 2), Repeats(input, off, n), "Match", 0,
            CostOfMatch(n, off))

Bb2Finish ==
    /\ Encoding("bb2")
    /\ Finish(CopyBit \o Length(EOF), <<>>, "Token", 0)
-----------------------------------------------------------------------------
(* decode_forward_with_gap. *)

\* read_len: a gamma code that also ends once bit 7 is set.
ReadLen(p) ==
    LET ends == {k \in 0 .. 7 : \A j \in 0 .. (k - 1) : IsBit(p + 2 * j, 1)}
        k == CHOOSE k \in ends : k = 7 \/ IsBit(p + 2 * k, 0)
    IN [val |-> 2^k + Fold(LAMBDA v, j : 2 * v + At(p + 2 * j - 1), 0, [j \in 1 .. k |-> j]),
        next |-> IF k = 7 THEN p + 14 ELSE p + 2 * k + 1]

\* The 6502's table: the entry is rotated left, stream bits coming in at the right,
\* until a 0 comes out; a set bit 7 then means that no byte follows.
TAB == <<223, 251, 0, 128, 239, 253, 128, 240>>
LeadingOnes(a) == CHOOSE k \in 0 .. 7 : a \div 2^(7 - k) = 2^(k + 1) - 2
DecodeOffset(p, mlen) ==
    LET entry == TAB[(IF mlen >= 2 THEN 4 ELSE 0) + Number(p, 2) + 1]
        n == IF entry = 0 THEN 0 ELSE LeadingOnes(entry) + 1
        a == (entry * 2^n + Number(p + 2, n)) % 256
        q == p + 2 + n
        disp == IF a >= 128 THEN 256 * 255 + a ELSE 256 * (255 - a) + At(q)
    IN [val |-> (65536 - disp) % 65536, next |-> IF a >= 128 THEN q ELSE q + 1]

\* 'dloop: the copy bit, and a run of literals; a run of 255 comes back here.
Bb2DecToken ==
    /\ Decoding("bb2", "Token")
    /\ max_gap' = Looked(out, rd)
    /\ \/ /\ IsBit(rd, 1)
          /\ Goes(rd + 1, "Match", 0)
          /\ UNCHANGED <<out, peak>>
       \/ /\ IsBit(rd, 0)
          /\ \E n \in {ReadLen(rd + 1)} :
                /\ HasRun(n.next, n.val)
                /\ Produces(out \o Raw(n.next, n.val), AfterRun(n.next, n.val))
                /\ Goes(AfterRun(n.next, n.val), IF n.val = MAX_RUN THEN "Token" ELSE "Match", 0)

Bb2DecMatch ==
    /\ Decoding("bb2", "Match")
    /\ \E n \in {ReadLen(rd)} :
        \/ n.val = EOF /\ Ends(n.next)
        \/ /\ n.val # EOF
           /\ \E off \in {DecodeOffset(n.next, n.val)} :
                /\ off.val \in 1 .. Len(out)
                /\ Produces(Copied(off.val, n.val + 1), off.next)
                /\ Goes(off.next, "Token", 0)
    /\ UNCHANGED max_gap

Bb2Next ==
    \/ \E n \in trial.runs : Bb2Literals(n)
    \/ \E off \in trial.offsets, n \in trial.lens : Bb2Match(off, n)
    \/ Bb2Finish
    \/ Bb2DecToken \/ Bb2DecMatch
=============================================================================
