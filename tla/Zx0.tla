-------------------------------- MODULE Zx0 ---------------------------------
(***************************************************************************)
(* ZX0 version 2 (src/src/zx0compat.rs): one flag bit per unit, one last   *)
(* offset, an end marker.  The backward stream exchanges the control bits  *)
(* of the gamma code and does not invert what the forward one inverts.     *)
(***************************************************************************)
EXTENDS LzStream

ZxOffset(off) == (off - 1) \div 2^LsbBits < Cap - 1
ZxMsb(off) == (off - 1) \div 2^LsbBits + 1

\* The polarity of a stream: the stop bit, and whether offsets are inverted.
Stop == IF trial.backward THEN 0 ELSE 1
Length(v) == Gamma(v, Stop, FALSE)
OffsetMsb(v) == Gamma(v, Stop, ~trial.backward)

\* The low byte of an offset, counted up or down.
OffsetLsb(off) ==
    LET low == (off - 1) % 2^LsbBits IN
    IF trial.backward THEN Lsb(low) ELSE Lsb(2^LsbBits - 1 - low)

\* emit_zx0_v2.
Zx0Literals(n) ==
    /\ Encoding("zx0")
    /\ prev # "Literals"
    /\ Unit(<<Bit(0)>> \o Length(n) \o Run(n), Fresh(n), "Literals", last,
            1 + GammaBits(n) + 8 * n)

\* The flag of a match at the last offset is that of literals: optimize_zx0 puts
\* one only behind literals.
Zx0LastOffset(off, n) ==
    /\ Encoding("zx0")
    /\ prev = "Literals" /\ off = last /\ off <= Len(input)
    /\ Unit(<<Bit(0)>> \o Length(n), Repeats(input, off, n), "Match", off, 1 + GammaBits(n))

Zx0NewOffset(off, n) ==
    /\ Encoding("zx0")
    /\ prev # "Start" /\ off # last /\ off <= Len(input) /\ ZxOffset(off) /\ n >= 2
    /\ Unit(<<Bit(1)>> \o OffsetMsb(ZxMsb(off)) \o <<OffsetLsb(off)>> \o Length(n - 1),
            Repeats(input, off, n), "Match", off,
            1 + LsbBits + GammaBits(ZxMsb(off)) + GammaBits(n - 1))

Zx0Finish ==
    /\ Encoding("zx0")
    /\ prev # "Start"
    /\ Finish(<<Bit(1)>> \o OffsetMsb(Cap), <<>>, "Literals", 1)

\* dzx0_decode_with_gap and dzx0_decode_backward_with_gap: the gap is taken
\* after each copy, before the flag that follows is read.
Zx0DecLiterals ==
    /\ Decoding("zx0", "Literals")
    /\ HasGamma(rd, Stop)
    /\ LET n == ReadGamma(rd, Stop, FALSE)
           o == out \o Raw(n.next, n.val)
           p == AfterRun(n.next, n.val)
       IN /\ HasRun(n.next, n.val)
          /\ Produces(o, p)
          /\ max_gap' = Larger(Looked(out, rd), Looked(o, p))
          /\ Goes(p + 1, IF IsBit(p, 1) THEN "NewOffset" ELSE "LastOffset", d_last)

Zx0After(p) == IF IsBit(p, 1) THEN "NewOffset" ELSE "Literals"

\* Mutants: the new offset is not kept; the gap is taken after literals only.
Zx0DecCopyForgets(off, n, p) ==
    /\ off \in 1 .. Len(out)
    /\ Produces(Copied(off, n), p)
    /\ max_gap' = Looked(Copied(off, n), p)
    /\ Goes(p + 1, Zx0After(p), d_last)
Zx0DecCopyUnseen(off, n, p) ==
    /\ off \in 1 .. Len(out)
    /\ Produces(Copied(off, n), p)
    /\ UNCHANGED max_gap
    /\ Goes(p + 1, Zx0After(p), off)

Zx0DecCopy(off, n, p) ==
    /\ off \in 1 .. Len(out)
    /\ Produces(Copied(off, n), p)
    /\ max_gap' = Looked(Copied(off, n), p)
    /\ Goes(p + 1, Zx0After(p), off)

Zx0DecLastOffset ==
    /\ Decoding("zx0", "LastOffset")
    /\ HasGamma(rd, Stop)
    /\ LET n == ReadGamma(rd, Stop, FALSE) IN Zx0DecCopy(d_last, n.val, n.next)

Zx0DecNewOffset ==
    /\ Decoding("zx0", "NewOffset")
    /\ HasGamma(rd, Stop)
    /\ LET hi == ReadGamma(rd, Stop, ~trial.backward)
           lo == At(hi.next)
           off == IF trial.backward THEN (hi.val - 1) * 2^LsbBits + lo + 1
                  ELSE hi.val * 2^LsbBits - lo
           n == ReadGamma(hi.next + 1, Stop, FALSE)
       IN \/ hi.val = Cap /\ Ends(hi.next) /\ UNCHANGED max_gap
          \/ hi.val # Cap /\ Zx0DecCopy(off, n.val + 1, n.next)

Zx0Next ==
    \/ \E n \in trial.runs : Zx0Literals(n)
    \/ \E off \in trial.offsets, n \in trial.lens :
        Zx0LastOffset(off, n) \/ Zx0NewOffset(off, n)
    \/ Zx0Finish
    \/ Zx0DecLiterals \/ Zx0DecLastOffset \/ Zx0DecNewOffset

-----------------------------------------------------------------------------
(* ZX02 (src/src/zx02.rs): ZX0 with values capped at 256 so that a decoder *)
(* gets by with bytes.  A new match may have length 1: its length less one *)
(* is 0, written as 256, and the decoder's sum of 257 wraps to 1.          *)

\* write_interlaced_elias_gamma (0 is written as 256) and its cost.
ElidedGamma(v) == Gamma(IF v = 0 THEN Cap ELSE v, 0, FALSE)
ElidedBits(n) == IF n = 1 THEN GammaBits(Cap) ELSE GammaBits(n - 1)

\* The parser charges an offset for gamma(off / 128 + 1), the writer writes
\* gamma((off - 1) / 128 + 1).
OffsetBits(off) == 1 + LsbBits + GammaBits(off \div 2^LsbBits + 1)

Zx02Offset(off) == off <= Len(input) /\ off \div 2^LsbBits + 1 <= Cap /\ (off - 1) \div 2^LsbBits + 1 < Cap

\* compress_forward.
Zx02Literals(n) ==
    /\ Encoding("zx02")
    /\ prev # "Literals" /\ n <= Cap
    /\ Unit(<<Bit(0)>> \o ElidedGamma(n) \o Run(n), Fresh(n), "Literals", last,
            1 + GammaBits(n) + 8 * n)

Zx02LastOffset(off, n) ==
    /\ Encoding("zx02")
    /\ prev = "Literals" /\ off = last /\ off <= Len(input) /\ n <= Cap
    /\ Unit(<<Bit(0)>> \o ElidedGamma(n), Repeats(input, off, n), "Match", off, 1 + GammaBits(n))

Zx02NewOffset(off, n) ==
    /\ Encoding("zx02")
    /\ prev # "Start" /\ Zx02Offset(off) /\ n <= Cap
    /\ ~(prev = "Literals" /\ off = last)
    /\ Unit(<<Bit(1)>> \o ElidedGamma((off - 1) \div 2^LsbBits + 1)
                \o <<Lsb((off - 1) % 2^LsbBits)>> \o ElidedGamma(n - 1),
            Repeats(input, off, n), "Match", off,
            OffsetBits(off) + ElidedBits(n))

Zx02Finish ==
    /\ Encoding("zx02")
    /\ prev # "Start"
    /\ Finish(<<Bit(1)>> \o ElidedGamma(Cap), <<>>, "Literals", 0)

\* decode_loop: the gap is taken at its top, after the flag of the next unit has
\* been read.
Zx02DecLiterals ==
    /\ Decoding("zx02", "Literals")
    /\ HasGamma(rd, 0)
    /\ max_gap' = Looked(out, rd)
    /\ LET n == ReadGamma(rd, 0, FALSE)
           p == AfterRun(n.next, n.val)
       IN /\ HasRun(n.next, n.val)
          /\ Produces(out \o Raw(n.next, n.val), p)
          /\ Goes(p + 1, IF IsBit(p, 1) THEN "NewOffset" ELSE "LastOffset", d_last)

Zx02After(p) == IF IsBit(p, 1) THEN "NewOffset" ELSE "Literals"

\* decode_match: the offset is kept less one, the length wraps above 256.
Zx02DecMatch(off, add, from) ==
    /\ HasGamma(from, 0)
    /\ LET g == ReadGamma(from, 0, FALSE)
           n == IF g.val + add > Cap THEN (g.val + add) % Cap ELSE g.val + add
       IN /\ off < Len(out)
          /\ Produces(Copied(off + 1, n), g.next)
          /\ Goes(g.next + 1, Zx02After(g.next), off)

Zx02DecLastOffset ==
    /\ Decoding("zx02", "LastOffset")
    /\ max_gap' = Looked(out, rd)
    /\ Zx02DecMatch(d_last, 0, rd)

\* Mutant: the end is looked for at 0, not at 0 modulo 256.
Zx02DecNewOffsetEndless ==
    /\ Decoding("zx02", "NewOffset")
    /\ HasGamma(rd, 0)
    /\ max_gap' = Looked(out, rd)
    /\ LET msb == ReadGamma(rd, 0, FALSE) IN
       Zx02DecMatch((msb.val - 1) * 2^LsbBits + At(msb.next), 1, msb.next + 1)

\* decode_offset, then the match.
Zx02DecNewOffset ==
    /\ Decoding("zx02", "NewOffset")
    /\ HasGamma(rd, 0)
    /\ max_gap' = Looked(out, rd)
    /\ LET msb == ReadGamma(rd, 0, FALSE) IN
       \/ msb.val % Cap = 0 /\ Ends(msb.next)
       \/ /\ msb.val % Cap # 0
          /\ Zx02DecMatch((msb.val - 1) * 2^LsbBits + At(msb.next), 1, msb.next + 1)

Zx02Next ==
    \/ \E n \in trial.runs : Zx02Literals(n)
    \/ \E off \in trial.offsets, n \in trial.lens :
        Zx02LastOffset(off, n) \/ Zx02NewOffset(off, n)
    \/ Zx02Finish
    \/ Zx02DecLiterals \/ Zx02DecLastOffset \/ Zx02DecNewOffset
=============================================================================
