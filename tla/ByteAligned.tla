---------------------------- MODULE ByteAligned -----------------------------
(***************************************************************************)
(* BoltLZ (src/src/bolt.rs): whole bytes only, one token byte per command. *)
(*                                                                         *)
(* LZSA1 raw blocks (src/src/lzsa1.rs): a command is a token, literals and *)
(* a match, the lengths that do not fit the token in one to three bytes.   *)
(***************************************************************************)
EXTENDS LzStream, FiniteSets

\* The shortest match of both.
MIN_MATCH == 3
-----------------------------------------------------------------------------
(* BoltLZ.                                                                 *)

MAX_MATCH == 130
MAX_LIT == 127

\* Literals: the token is the length.
BoltLiterals(n) ==
    /\ Encoding("bolt")
    /\ n \in 1 .. MAX_LIT
    /\ Unit(Bytes(<<n>>) \o Run(n), Fresh(n), "Literals", 0, 8 * (n + 1))

\* A match: the length above $80, the offset negated in two bytes.
BoltMatch(off, n) ==
    /\ Encoding("bolt")
    /\ n \in MIN_MATCH .. MAX_MATCH /\ off \in 1 .. Len(input)
    /\ LET neg == (65536 - off) % 65536 IN
       Unit(Bytes(<<128 + n - MIN_MATCH, neg % 256, neg \div 256>>),
            Repeats(input, off, n), "Match", 0, 8 * 3)

BoltFinish ==
    /\ Encoding("bolt")
    /\ Finish(Bytes(<<0>>), <<>>, "Token", 0)

\* decode_bolt, with the gap taken before each token.
BoltToken ==
    /\ Decoding("bolt", "Token")
    /\ max_gap' = Looked(out, rd)
    /\ LET t == At(rd) IN
       \/ t = 0 /\ Ends(rd + 1)
       \/ /\ t \in 1 .. 127 /\ HasRun(rd + 1, t)
          /\ Produces(out \o Raw(rd + 1, t), rd + 2)
          /\ Goes(rd + 2, "Token", 0)
       \/ /\ t >= 128
          /\ LET d == (65536 - (At(rd + 1) + 256 * At(rd + 2))) % 65536 IN
             /\ d \in 1 .. Len(out)
             /\ Produces(Copied(d, (t % 128) + MIN_MATCH), rd + 3)
             /\ Goes(rd + 3, "Token", 0)

BoltNext ==
    \/ \E n \in trial.runs : BoltLiterals(n)
    \/ \E off \in trial.offsets, n \in trial.lens : BoltMatch(off, n)
    \/ BoltFinish
    \/ BoltToken

-----------------------------------------------------------------------------
(* LZSA1.                                                                  *)

LIT_RUN == 7
MATCH_RUN == 15

Smaller(a, b) == IF a <= b THEN a ELSE b
Word(v) == <<v % 256, (v \div 256) % 256>>

\* write_lit_varlen
LitVarlen(n) ==
    IF n < LIT_RUN THEN <<>>
    ELSE IF n < 256 THEN <<n - LIT_RUN>>
    ELSE IF n < 512 THEN <<250, n - 256>>
    ELSE <<249>> \o Word(n)

\* write_match_varlen, of a length less MIN_MATCH.
MatchVarlen(enc) ==
    LET actual == enc + MIN_MATCH IN
    IF enc < MATCH_RUN THEN <<>>
    ELSE IF actual < 256 THEN <<enc - MATCH_RUN>>
    ELSE IF actual < 512 THEN <<239, actual - 256>>
    ELSE <<238>> \o Word(actual)

\* The parser's costs: eight more bits whenever a run reaches 7, 256 or 512
\* literals, and match_varlen_size.  (Mutant: its bounds are taken for those of
\* the length less MIN_MATCH.)
LitBumps(n) == 8 * Cardinality({b \in {LIT_RUN, 256, 512} : n >= b})
MatchVarlenSizeOff(enc) ==
    IF enc < MATCH_RUN THEN 0 ELSE IF enc < 256 THEN 8 ELSE IF enc < 512 THEN 16 ELSE 24
MatchVarlenSize(enc) ==
    IF enc < MATCH_RUN THEN 0
    ELSE IF enc + MIN_MATCH < 256 THEN 8
    ELSE IF enc + MIN_MATCH < 512 THEN 16
    ELSE 24

Long(off) == off > 256

\* emit_block, one command: n literals, then a match.
Lzsa1Command(n, off, len) ==
    LET enc == len - MIN_MATCH
        token == (IF Long(off) THEN 128 ELSE 0) + 16 * Smaller(n, LIT_RUN) + Smaller(enc, MATCH_RUN)
        neg == 65536 - off
        base == input \o Fresh(n)
    IN /\ Encoding("lzsa1")
       /\ len >= MIN_MATCH /\ off \in 1 .. Len(base)
       /\ Unit(Bytes(<<token>> \o LitVarlen(n)) \o Run(n)
                \o Bytes((IF Long(off) THEN Word(neg) ELSE <<neg % 256>>) \o MatchVarlen(enc)),
               Fresh(n) \o Repeats(base, off, len), "Match", 0,
               8 * n + LitBumps(n) + 8 + (IF Long(off) THEN 16 ELSE 8) + MatchVarlenSize(enc))

\* The last command has literals only; the end marker is a match of length 0.
Lzsa1Finish(n) ==
    /\ Encoding("lzsa1")
    /\ Finish(Bytes(<<16 * Smaller(n, LIT_RUN) + 15>> \o LitVarlen(n)) \o Run(n) \o Bytes(<<0, 238, 0, 0>>),
              Fresh(n), "Token", 0)

\* A length of the token, or what follows at p: its value and where it ends.
ReadLitLen(token, p) ==
    LET n == (token % 128) \div 16
        b == At(p) IN
    IF n < LIT_RUN THEN [val |-> n, next |-> p]
    ELSE IF b = 250 THEN [val |-> 256 + At(p + 1), next |-> p + 2]
    ELSE IF b = 249 THEN [val |-> At(p + 1) + 256 * At(p + 2), next |-> p + 3]
    ELSE [val |-> n + b, next |-> p + 1]

ReadMatchLen(token, p) ==
    LET n == (token % 16) + MIN_MATCH
        b == At(p) IN
    IF n < MATCH_RUN + MIN_MATCH THEN [val |-> n, next |-> p]
    ELSE IF b = 239 THEN [val |-> 256 + At(p + 1), next |-> p + 2]
    ELSE IF b = 238 THEN [val |-> At(p + 1) + 256 * At(p + 2), next |-> p + 3]
    ELSE [val |-> n + b, next |-> p + 1]

\* decode_lzsa1_raw_with_gap, with the gap taken before each command: its token
\* and its literals, then its match.
Lzsa1Literals ==
    /\ Decoding("lzsa1", "Token")
    /\ max_gap' = Looked(out, rd)
    /\ LET token == At(rd)
           n == ReadLitLen(token, rd + 1)
       IN /\ HasRun(n.next, n.val)
          /\ Produces(out \o Raw(n.next, n.val), AfterRun(n.next, n.val))
          /\ Goes(AfterRun(n.next, n.val), "Match", token)

Lzsa1Match ==
    /\ Decoding("lzsa1", "Match")
    /\ LET token == d_last
           long == token >= 128
           off == 1 + (255 - At(rd)) + (IF long THEN 256 * (255 - At(rd + 1)) ELSE 0)
           n == ReadMatchLen(token, IF long THEN rd + 2 ELSE rd + 1)
       IN \/ n.val = 0 /\ Ends(n.next)
          \/ /\ n.val # 0 /\ off \in 1 .. Len(out)
             /\ Produces(Copied(off, n.val), n.next)
             /\ Goes(n.next, "Token", 0)
    /\ UNCHANGED max_gap

Lzsa1Next ==
    \/ \E n \in trial.runs \cup {0}, off \in trial.offsets, len \in trial.lens : Lzsa1Command(n, off, len)
    \/ \E n \in trial.runs \cup {0} : Lzsa1Finish(n)
    \/ Lzsa1Literals \/ Lzsa1Match
-----------------------------------------------------------------------------
Init == StreamInit /\ trial.format \in {"bolt", "lzsa1"}
Next == BoltNext \/ Lzsa1Next

\* A decoder that has been called runs on; nothing makes an encoder stop.
Spec == Init /\ [][Next]_vars /\ WF_vars(phase = "decode" /\ Next)
=============================================================================
