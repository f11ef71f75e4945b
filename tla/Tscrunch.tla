------------------------------ MODULE Tscrunch ------------------------------
(***************************************************************************)
(* TSCrunch (src/src/tscrunch.rs): one byte-aligned token per edge of the  *)
(* parse.  The stream starts with the length of a run of zeros.  In the    *)
(* in-place layout (backward) a tail that does not shrink is cut off the   *)
(* tokens and shipped raw, with one byte of it in the header.              *)
(***************************************************************************)
EXTENDS LzStream

LONGEST_RLE == 64
LONGEST_LONG_LZ == 64
LONGEST_LZ == 32
LONGEST_LITERAL == 31
LZ_OFFSET == 256
LZ2_OFFSET == 94
LZ2_SIZE == 2
TERMINATOR == LONGEST_LITERAL + 1

LowHigh(v) == <<v % 256, v \div 256>>
LzIsLong(off, n) == off >= LZ_OFFSET \/ n > LONGEST_LZ

\* token_cost: bytes, scaled by MDiv, with a preference among tokens of as many.
MDiv == LONGEST_LITERAL * 65536
TokenCost(type, off, n) ==
    CASE type = "Lz" -> IF LzIsLong(off, n) THEN 3 * MDiv + 138 - n ELSE 2 * MDiv + 134 - n
      [] type = "Rle" -> 2 * MDiv + 128 - n
      [] type = "Zerorun" -> MDiv
      [] type = "Lz2" -> MDiv + 132 - n
      [] type = "Literal" -> MDiv * (n + 1) + 130 - n

\* emit_token, after the token has covered n bytes.
Emit(type, off, n, symbols, covered) ==
    /\ Encoding("tscrunch")
    /\ Unit(symbols, covered, IF type = "Literal" THEN "Literals" ELSE "Match", 0,
            8 * (TokenCost(type, off, n) \div MDiv))

TsLiteral(n) ==
    /\ n <= LONGEST_LITERAL
    /\ Emit("Literal", 0, n, Bytes(<<n>>) \o Run(n), Fresh(n))

TsRle(n) ==
    /\ n \in 2 .. LONGEST_RLE
    /\ LET v == Len(input) + 1 IN
       Emit("Rle", 0, n, Bytes(<<129 + 2 * (n - 1), v>>), [j \in 1 .. n |-> v])

TsZerorun == Emit("Zerorun", 0, trial.zeros, Bytes(<<129>>), [j \in 1 .. trial.zeros |-> 0])

TsLz2(off) ==
    /\ off <= Len(input) /\ off <= LZ2_OFFSET
    /\ Emit("Lz2", off, LZ2_SIZE, Bytes(<<127 - off>>), Repeats(input, off, LZ2_SIZE))

TsLz(off, n) ==
    LET neg == LowHigh(65536 - off) IN
    /\ off <= Len(input) /\ n \in 3 .. LONGEST_LONG_LZ
    /\ Emit("Lz", off, n,
            Bytes(IF LzIsLong(off, n)
                  THEN <<128 + 4 * ((n - 1) \div 2), neg[1], (neg[2] % 128) + 128 * ((n - 1) % 2)>>
                  ELSE <<128 + 4 * (n - 1) + 2, off>>),
            Repeats(input, off, n))

TsFinish ==
    /\ Encoding("tscrunch") /\ ~trial.backward
    /\ Hand(Laid(Bytes(<<trial.zeros - 1>>) \o tape \o Bytes(<<TERMINATOR>>)), <<>>, "Header", 0)

\* The in-place layout: tokens from the end whose payload is no shorter than what
\* they cover go, segment by segment.
Trimmed ==
    Fold(LAMBDA acc, k :
                 LET u == Len(marks) - k
                     crunched == acc.crunched + marks[u + 1].bytes - marks[u].bytes
                     uncrunched == acc.uncrunched + marks[u + 1].len - marks[u].len
                 IN IF uncrunched <= crunched
                    THEN [safety |-> u, crunched |-> 0, uncrunched |-> 0]
                    ELSE [acc EXCEPT !.crunched = crunched, !.uncrunched = uncrunched],
             [safety |-> Len(marks), crunched |-> 0, uncrunched |-> 0],
             [k \in 1 .. Units |-> k]).safety

\* What follows the terminator: the tail without its first byte, which the header
\* holds, and the last byte of the input, which was never crunched.
RawTail(body, last_byte) == IF body = Len(input) THEN <<>>
                            ELSE SubSeq(input, body + 2, Len(input)) \o last_byte

\* crunch_inner with inplace and wrap_inplace (load address 0).
TsFinishInplace ==
    LET last_byte == Fresh(1)
        body == marks[Trimmed].len
        remainder == Append(input, last_byte[1])[body + 1]
        raw == RawTail(body, last_byte)
        crunched == Bytes(<<0, 0, trial.zeros - 1, remainder>>) \o SubSeq(tape, 1, marks[Trimmed].tape)
                        \o Bytes(<<TERMINATOR>>)
                        \o (IF raw = <<>> THEN <<>> ELSE <<[kind |-> "run", val |-> raw]>>)
        load_to == (Len(input) + 1 - Laid(crunched).w.bytes) % 65536
    IN /\ Encoding("tscrunch") /\ trial.backward
       /\ Hand(Laid(Bytes(LowHigh(load_to)) \o crunched), last_byte, "Header", 0)
-----------------------------------------------------------------------------
(* decompress_forward and decompress_inplace, with inplace_required_shift   *)
(* beside them: what each token asks of the distance between the stream and *)
(* the output when the 6502 decoder copies it.                              *)

TsHeader ==
    /\ Decoding("tscrunch", "Header")
    /\ max_gap' = -w.bytes /\ peak' = -w.bytes
    /\ Goes(IF trial.backward THEN 7 ELSE 2, "Token", 0)
    /\ UNCHANGED out

\* A token of n bytes of output that asks for need bytes and is read up to p; held
\* is how far output runs ahead of the bytes still to be read while it is copied.
TsToken(n, covered, p, need, held) ==
    /\ max_gap' = Larger(max_gap, need + Len(out) - Consumed(rd))
    /\ peak' = Larger(peak, held)
    /\ out' = out \o covered
    /\ Goes(p, "Token", 0)

TsDecode ==
    /\ Decoding("tscrunch", "Token")
    /\ LET code == At(rd)
           zeros == At(IF trial.backward THEN 5 ELSE 1) + 1
           ahead == Len(out) - Consumed(rd)
           Match(off, n, size) ==
               /\ off \in 1 .. Len(out)
               /\ TsToken(n, Repeats(out, off, n), rd + size, n - size, ahead + n - size)
           value == At(rd + 1)
       IN \/ /\ code < 32 /\ HasRun(rd + 1, code)
             /\ TsToken(code, At(rd + 1), rd + 2, code - 1, ahead + (IF code = 1 THEN -1 ELSE code - 1))
          \/ /\ code \in 33 .. 127
             /\ Match(127 - code, LZ2_SIZE, 1)
          \/ /\ code > 129 /\ code % 2 = 1
             /\ LET n == (code - 128) \div 2 + 1 IN
                TsToken(n, [j \in 1 .. n |-> value], rd + 2, n - 2, ahead + n - 2)
          \/ /\ code = 129
             /\ TsToken(zeros, [j \in 1 .. zeros |-> 0], rd + 1, zeros - 1, ahead + zeros - 1)
          \/ /\ code >= 128 /\ code % 4 = 2
             /\ Match(value, (code - 128) \div 4 + 1, 2)
          \/ /\ code >= 128 /\ code % 4 = 0
             /\ LET high == At(rd + 2) IN
                Match(32768 - (value + 256 * (high % 128)),
                      1 + 2 * ((code - 128) \div 4) + (high \div 128), 3)

TsEnd ==
    /\ Decoding("tscrunch", "Token")
    /\ At(rd) = TERMINATOR /\ ~trial.backward
    /\ Ends(rd + 1)
    /\ UNCHANGED max_gap

\* The remainder byte of the header, then the raw tail.
TsEndInplace ==
    LET tail == IF rd < Len(tape) THEN At(rd + 1) ELSE <<>> IN
    /\ Decoding("tscrunch", "Token")
    /\ At(rd) = TERMINATOR /\ trial.backward
    /\ max_gap' = Larger(max_gap, Len(out) - Consumed(rd))
    /\ peak' = IF tail = <<>> THEN peak ELSE Larger(peak, Len(out) - Consumed(rd))
    /\ out' = Append(out, At(6)) \o tail
    /\ rd' = Len(tape) + 1
    /\ phase' = "done"
    /\ UNCHANGED <<encoder, d_state, d_last>>

TsNext ==
    \/ \E n \in trial.runs : TsLiteral(n)
    \/ \E n \in trial.lens : TsRle(n)
    \/ TsZerorun
    \/ \E off \in trial.offsets : TsLz2(off) \/ \E n \in trial.lens : TsLz(off, n)
    \/ TsFinish \/ TsFinishInplace
    \/ TsHeader \/ TsDecode \/ TsEnd \/ TsEndInplace
=============================================================================
