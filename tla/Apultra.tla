------------------------------- MODULE Apultra ------------------------------
(***************************************************************************)
(* aPLib (src/src/apultra.rs): a bit and a byte for a literal, gamma codes *)
(* that start with a data bit, and a repeated offset that can only be      *)
(* named right after a literal.                                            *)
(***************************************************************************)
EXTENDS LzStream

MINMATCH3_OFFSET == 1280
MINMATCH4_OFFSET == 32000
SHORT_OFFSET == 128
MAX_TINY == 15

\* write_gamma2 and _gamma2_size
Gamma2(v) ==
    LET k == FloorLog2(v) IN
    Bits([j \in 1 .. (2 * k) |-> IF j % 2 = 1 THEN (v \div 2^(k - (j + 1) \div 2)) % 2
                                 ELSE IF j = 2 * k THEN 0 ELSE 1])
Gamma2Size(v) == 2 * FloorLog2(v)

\* What a match's length is written less, by its offset.
Bonus(off) ==
    IF off < SHORT_OFFSET \/ off >= MINMATCH4_OFFSET THEN 2 ELSE IF off < MINMATCH3_OFFSET THEN 0 ELSE 1

FollowsLiteral == IF prev = "Literals" THEN 1 ELSE 0
IsShort(off, n) == n <= 3 /\ off < SHORT_OFFSET
IsRepeated(off) == off = last /\ FollowsLiteral = 1

\* get_offset_varlen_size, get_match_varlen_size
OffsetVarlenSize(off, n) ==
    IF IsShort(off, n) THEN 11 ELSE 10 + Gamma2Size((off \div 256) + 2 + FollowsLiteral)
MatchVarlenSize(off, n) == IF IsShort(off, n) THEN 0 ELSE Gamma2Size(n - Bonus(off))

\* write_block: the first byte has no flag.
ApLiteral ==
    /\ Encoding("apultra")
    /\ IF prev = "Start" THEN Unit(Run(1), Fresh(1), "Literals", last, 8)
       ELSE Unit(<<Bit(0)>> \o Run(1), Fresh(1), "Literals", last, 9)

\* A single byte from close by, or a byte of value 0.
ApTiny(off) ==
    /\ Encoding("apultra")
    /\ prev # "Start" /\ off \in 0 .. MAX_TINY /\ off <= Len(input)
    /\ Unit(Width(7, 3) \o Width(off, 4), IF off = 0 THEN <<0>> ELSE Repeats(input, off, 1), "Literals", last, 7)

ApMatch(off, n) ==
    /\ Encoding("apultra")
    /\ prev # "Start" /\ off \in 1 .. Len(input)
    /\ \/ /\ IsRepeated(off) /\ n >= 2
          /\ Unit(Width(2, 2) \o Width(0, 2) \o Gamma2(n), Repeats(input, off, n), "Match", off, 4 + Gamma2Size(n))
       \/ /\ ~IsRepeated(off) /\ (n >= 2 + Bonus(off) \/ (IsShort(off, n) /\ n >= 2))
          /\ Unit(IF IsShort(off, n) THEN Width(6, 3) \o <<Byte(2 * off + n - 2)>>
                  ELSE Width(2, 2) \o Gamma2((off \div 256) + 2 + FollowsLiteral) \o <<Byte(off % 256)>>
                         \o Gamma2(n - Bonus(off)),
                  Repeats(input, off, n), "Match", off, OffsetVarlenSize(off, n) + MatchVarlenSize(off, n))

ApFinish ==
    /\ Encoding("apultra")
    /\ prev # "Start"
    /\ Finish(Width(6, 3) \o <<Byte(0)>>, <<>>, "Start", 0)
-----------------------------------------------------------------------------
(* apultra_decompress_with_gap.  The decoder remembers in d_state whether  *)
(* it follows a literal.                                                   *)

ReadGamma2(p) ==
    LET k == CHOOSE k \in 1 .. Len(tape) : IsBit(p + 2 * k - 1, 0) /\ \A j \in 1 .. (k - 1) : IsBit(p + 2 * j - 1, 1) IN
    [val |-> Fold(LAMBDA v, j : 2 * v + At(p + 2 * j - 2), 1, [j \in 1 .. k |-> j]), next |-> p + 2 * k]

AtToken == phase = "decode" /\ trial.format = "apultra" /\ d_state \in {"Token", "LastOffset"}
Token(bits) == \A j \in 1 .. Len(bits) : IsBit(rd + j - 1, bits[j])
FollowsBias == IF d_state = "LastOffset" THEN 3 ELSE 2

ApDecFirst ==
    /\ Decoding("apultra", "Start")
    /\ HasRun(rd, 1)
    /\ Produces(Raw(rd, 1), rd + 1)
    /\ Goes(rd + 1, "LastOffset", d_last)
    /\ UNCHANGED max_gap

ApDecLiteral ==
    /\ AtToken /\ Token(<<0>>)
    /\ max_gap' = Looked(out, rd)
    /\ HasRun(rd + 1, 1)
    /\ Produces(out \o Raw(rd + 1, 1), rd + 2)
    /\ Goes(rd + 2, "LastOffset", d_last)

ApDecLarge ==
    /\ AtToken /\ Token(<<1, 0>>)
    /\ max_gap' = Looked(out, rd)
    /\ \E hi \in {ReadGamma2(rd + 2)} :
        LET high == hi.val - FollowsBias
            off == IF high < 0 THEN d_last ELSE 256 * high + At(hi.next)
        IN \E n \in {ReadGamma2(IF high < 0 THEN hi.next ELSE hi.next + 1)} :
            /\ off \in 1 .. Len(out)
            /\ Produces(Copied(off, n.val + (IF high < 0 THEN 0 ELSE Bonus(off))), n.next)
            /\ Goes(n.next, "Token", off)

ApDecShort ==
    /\ AtToken /\ Token(<<1, 1, 0>>)
    /\ max_gap' = Looked(out, rd)
    /\ LET command == At(rd + 3) IN
        \/ command = 0 /\ Ends(rd + 4)
        \/ /\ command # 0 /\ command \div 2 \in 1 .. Len(out)
           /\ Produces(Copied(command \div 2, (command % 2) + 2), rd + 4)
           /\ Goes(rd + 4, "Token", command \div 2)

ApDecTiny ==
    /\ AtToken /\ Token(<<1, 1, 1>>)
    /\ max_gap' = Looked(out, rd)
    /\ LET off == Number(rd + 3, 4) IN
        /\ off \in 0 .. Len(out)
        /\ Produces(IF off = 0 THEN Append(out, 0) ELSE Copied(off, 1), rd + 7)
        /\ Goes(rd + 7, "LastOffset", d_last)

ApNext ==
    \/ ApLiteral \/ ApFinish
    \/ \E off \in trial.offsets \cup {0} : ApTiny(off)
    \/ \E off \in trial.offsets, n \in trial.lens : ApMatch(off, n)
    \/ ApDecFirst \/ ApDecLiteral \/ ApDecLarge \/ ApDecShort \/ ApDecTiny
=============================================================================
