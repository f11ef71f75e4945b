----------------------------- MODULE EliasGamma -----------------------------
(***************************************************************************)
(* The interlaced Elias gamma code of src/src/zx.rs, over sequences of     *)
(* bits.  A value v with 2^k <= v < 2^(k+1) is written as its k low bits,  *)
(* most significant first, each after a control bit 0, then a control bit  *)
(* 1.  BitWriter and BitReader move the bits; this module says which.      *)
(***************************************************************************)
EXTENDS Integers, SequencesExt

\* What the leading bits of v spell, from the first one alone to all of them:
\* <<1, ..., v \div 4, v \div 2, v>>.
Halves(v) ==
    LET h[u \in 1 .. v] == IF u = 1 THEN <<1>> ELSE Append(h[u \div 2], u)
    IN  h[v]

\* 31 - value.leading_zeros()
FloorLog2(v) == Len(Halves(v)) - 1

\* (Mutant of GammaCode: least significant bit first.)
GammaCodeReversed(v) ==
    LET k == FloorLog2(v) IN
    [j \in 1 .. (2 * k + 1) |->
        IF j = 2 * k + 1 THEN 1
        ELSE IF j % 2 = 1 THEN 0
        ELSE Halves(v)[k + 2 - j \div 2] % 2]

\* write_gamma: the bits, in order.
GammaCode(v) ==
    LET k == FloorLog2(v) IN
    [j \in 1 .. (2 * k + 1) |->
        IF j = 2 * k + 1 THEN 1
        ELSE IF j % 2 = 1 THEN 0
        ELSE Halves(v)[j \div 2 + 1] % 2]

\* (Mutant of GammaBits: the closing bit is not counted.)
GammaBitsOpen(v) == 2 * FloorLog2(v)

\* gamma_bits: the length the cost model gives the code.
GammaBits(v) == 1 + 2 * FloorLog2(v)

\* read_gamma from position p of a stream of n symbols, the value of the one at
\* q being At(q): the number of data bits before the control bit 1, the value
\* they shift together, and the position after the code.
HasGamma(At(_), n, p) == \E k \in 0 .. n : p + 2 * k <= n /\ At(p + 2 * k) = 1

GammaDataBits(At(_), n, p) ==
    CHOOSE k \in 0 .. n :
        /\ p + 2 * k <= n /\ At(p + 2 * k) = 1
        /\ \A j \in 0 .. (k - 1) : At(p + 2 * j) = 0

GammaAt(At(_), n, p) ==
    LET k == GammaDataBits(At, n, p)
        value[j \in 0 .. k] == IF j = 0 THEN 1 ELSE 2 * value[j - 1] + At(p + 2 * j - 1)
    IN [val |-> value[k], next |-> p + 2 * k + 1]
=============================================================================
