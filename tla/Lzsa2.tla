-------------------------------- MODULE Lzsa2 -------------------------------
(***************************************************************************)
(* LZSA2 raw blocks (src/src/lzsa2.rs): LZSA1's commands with nibbles, a   *)
(* repeated offset and five ways to write a new one.                       *)
(***************************************************************************)
EXTENDS LzStream

MIN_MATCH == 2
LITERALS_RUN_LEN == 3
MATCH_RUN_LEN == 7

AtMost(a, b) == IF a <= b THEN a ELSE b
Word(v) == Bytes(<<v % 256, (v \div 256) % 256>>)

\* Writer::literals_varlen and match_varlen, the latter of a length less MIN_MATCH.
LiteralsVarlen(n) ==
    IF n < LITERALS_RUN_LEN THEN <<>>
    ELSE IF n < LITERALS_RUN_LEN + 15 THEN <<Nibble(n - LITERALS_RUN_LEN)>>
    ELSE <<Nibble(15)>> \o (IF n < 256 THEN <<Byte(n - 18)>> ELSE <<Byte(239)>> \o Word(n))

MatchVarlen(enc) ==
    LET actual == enc + MIN_MATCH IN
    IF enc < MATCH_RUN_LEN THEN <<>>
    ELSE IF enc < MATCH_RUN_LEN + 15 THEN <<Nibble(enc - MATCH_RUN_LEN)>>
    ELSE <<Nibble(15)>> \o (IF actual < 256 THEN <<Byte(actual - 24)>> ELSE <<Byte(233)>> \o Word(actual))

\* literals_varlen_size, match_varlen_size, offset_size
LiteralsVarlenSize(n) ==
    IF n < LITERALS_RUN_LEN THEN 0 ELSE IF n < LITERALS_RUN_LEN + 15 THEN 4 ELSE IF n < 256 THEN 12 ELSE 28
MatchVarlenSize(n) ==
    IF n < MATCH_RUN_LEN THEN 0 ELSE IF n < MATCH_RUN_LEN + 15 THEN 4
    ELSE IF n + MIN_MATCH < 256 THEN 12 ELSE 28
OffsetSize(off) == IF off <= 32 THEN 4 ELSE IF off <= 512 THEN 8 ELSE IF off <= 8704 THEN 12 ELSE 16

\* The offset's mode in the token and its own symbols: written negated, with one
\* bit of it, inverted, in the token.
OffsetMode(off) ==
    LET neg == 65536 - off
        far == 65536 - (off - 512)
        BitOf(v, b) == 32 * (1 - ((v \div b) % 2))
    IN CASE off = last -> [mode |-> 224, symbols |-> <<>>]
         [] off # last /\ off <= 32 ->
                [mode |-> BitOf(neg, 1), symbols |-> <<Nibble((neg % 32) \div 2)>>]
         [] off # last /\ off \in 33 .. 512 ->
                [mode |-> 64 + BitOf(neg, 256), symbols |-> <<Byte(neg % 256)>>]
         [] off # last /\ off \in 513 .. 8704 ->
                [mode |-> 128 + BitOf(far, 256), symbols |-> <<Nibble((far \div 512) % 16), Byte(far % 256)>>]
         [] OTHER -> [mode |-> 192, symbols |-> Bytes(<<neg \div 256, neg % 256>>)]

\* write_block, one command: n literals, then a match.
Lzsa2Command(n, off, len) ==
    LET enc == len - MIN_MATCH
        base == input \o Fresh(n)
        offset == OffsetMode(off)
        token == offset.mode + 8 * AtMost(n, LITERALS_RUN_LEN) + AtMost(enc, MATCH_RUN_LEN)
    IN /\ Encoding("lzsa2")
       /\ len >= MIN_MATCH /\ off \in 1 .. Len(base)
       /\ Unit(<<Byte(token)>> \o LiteralsVarlen(n) \o Run(n) \o offset.symbols \o MatchVarlen(enc),
               Fresh(n) \o Repeats(base, off, len), "Match", off,
               8 + 8 * n + LiteralsVarlenSize(n) + (IF off = last THEN 0 ELSE OffsetSize(off))
                 + MatchVarlenSize(enc))

\* The last command has literals only; its match length is the end marker.
Lzsa2Finish(n) ==
    /\ Encoding("lzsa2")
    /\ Finish(<<Byte(8 * AtMost(n, LITERALS_RUN_LEN) + 231)>> \o LiteralsVarlen(n) \o Run(n)
                \o <<Nibble(15), Byte(232)>>, Fresh(n), "Token", 0)

\* build_len: the sum of base, nibble and byte is a length unless it is 256, the
\* end, or 257, which announces two bytes.
BuildLen(p, base) ==
    LET len == base + 15 + At(p + 1) IN
    IF At(p) < 15 THEN [val |-> base + At(p), next |-> p + 1]
    ELSE IF len = 257 THEN [val |-> At(p + 2) + 256 * At(p + 3), next |-> p + 4]
    ELSE [val |-> IF len = 256 THEN 0 ELSE len, next |-> p + 2]

\* The offset of a token, read at p; Flip(v, k) inverts the k low bits of v.
Flip(v, k) == 2^k - 1 - v
ReadOffset(token, p) ==
    LET bit == (token \div 32) % 2 IN
    CASE token < 64 -> [val |-> 2 * (15 - At(p)) + bit + 1, next |-> p + 1]
      [] token \in 64 .. 127 -> [val |-> 256 * bit + Flip(At(p), 8) + 1, next |-> p + 1]
      [] token \in 128 .. 191 ->
            [val |-> 512 * Flip(At(p), 4) + 256 * bit + Flip(At(p + 1), 8) + 513, next |-> p + 2]
      [] token >= 192 ->
            IF bit = 1 THEN [val |-> d_last, next |-> p]
            ELSE [val |-> Flip(256 * At(p) + At(p + 1), 16) + 1, next |-> p + 2]

\* decode_raw_with_gap, one command; the gap is taken before it.
Lzsa2Decode ==
    /\ Decoding("lzsa2", "Token")
    /\ max_gap' = Looked(out, rd)
    /\ \E token \in {At(rd)}, lits \in {IF (At(rd) \div 8) % 4 < LITERALS_RUN_LEN
                                        THEN [val |-> (At(rd) \div 8) % 4, next |-> rd + 1]
                                        ELSE BuildLen(rd + 1, LITERALS_RUN_LEN)} :
        /\ HasRun(lits.next, lits.val)
        /\ \E off \in {ReadOffset(token, AfterRun(lits.next, lits.val))} :
           \E n \in {IF token % 8 < MATCH_RUN_LEN
                     THEN [val |-> (token % 8) + MIN_MATCH, next |-> off.next]
                     ELSE BuildLen(off.next, MATCH_RUN_LEN + MIN_MATCH)},
              so_far \in {out \o Raw(lits.next, lits.val)} :
                \/ /\ n.val = 0
                   /\ out' = so_far
                   /\ rd' = n.next
                   /\ phase' = "done"
                   /\ UNCHANGED <<encoder, d_state, d_last, peak>>
                \/ /\ n.val # 0 /\ off.val \in 1 .. Len(so_far)
                   /\ Produces(so_far \o Repeats(so_far, off.val, n.val), n.next)
                   /\ Goes(n.next, "Token", off.val)

Lzsa2Next ==
    \/ \E n \in trial.runs \cup {0}, off \in trial.offsets, len \in trial.lens : Lzsa2Command(n, off, len)
    \/ \E n \in trial.runs \cup {0} : Lzsa2Finish(n)
    \/ Lzsa2Decode
=============================================================================
