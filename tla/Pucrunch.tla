------------------------------ MODULE Pucrunch ------------------------------
(***************************************************************************)
(* PuCrunch (src/src/pucrunch.rs): a stream of bits.  The top bits of a    *)
(* byte tell a literal from everything else, which the current escape      *)
(* starts; a literal that begins like the escape changes it.  Here bytes   *)
(* have values: what is written depends on them.                           *)
(***************************************************************************)
EXTENDS LzStream

MAX_GAMMA == 7
VALUE_MAX == 2^(MAX_GAMMA + 1) - 1
SENTINEL == VALUE_MAX
MAX_LZ_LEN == VALUE_MAX + 1
SHORT_RLE_LIMIT == 2^MAX_GAMMA

\* The parameters the container holds: the escape's width, the bits of an offset
\* between its high part and its low byte, and the ranked bytes of runs.
e == trial.esc_bits
x == trial.extra
Esc == last

\* BitWriter::gamma and gamma_cost: the longest code needs no end.
BoundedGamma(v) ==
    LET n == FloorLog2(v) IN
    Bits([j \in 1 .. (IF n < MAX_GAMMA THEN n + 1 ELSE n) |-> IF j <= n THEN 1 ELSE 0]) \o Width(v % 2^n, n)
GammaCost(v) == LET n == FloorLog2(v) IN IF n < MAX_GAMMA THEN 2 * n + 1 ELSE 2 * n

\* max_lz_dist, lz_cost, rle_byte_cost, rle_cost
MaxLzDist == (SENTINEL - 2) * 2^(8 + x) + (2^x - 1) * 256 + 256
HighPart(dist) == ((dist - 1) \div 2^(8 + x)) + 1
LzCost(len, dist) == IF len = 2 THEN e + 10 ELSE e + 8 + x + GammaCost(len - 1) + GammaCost(HighPart(dist))
Rank(byte) == IF \E r \in 1 .. Len(trial.table) : trial.table[r] = byte
              THEN CHOOSE r \in 1 .. Len(trial.table) : trial.table[r] = byte ELSE 0
RleByteCost(byte) == IF Rank(byte) # 0 THEN GammaCost(Rank(byte)) ELSE 13
RleCost(len, byte) ==
    IF len - 1 < SHORT_RLE_LIMIT THEN e + 3 + GammaCost(len - 1) + RleByteCost(byte)
    ELSE e + 3 + MAX_GAMMA + 8 + GammaCost(((len - 1) \div 256) + 1) + RleByteCost(byte)
-----------------------------------------------------------------------------
(* emit, one token.                                                        *)

Selector(byte) == byte \div 2^(8 - e)
PuLiteral(byte) ==
    /\ Encoding("pucrunch")
    /\ e > 0 /\ Selector(byte) # Esc
    /\ Unit(Width(byte, 8), <<byte>>, "Literals", Esc, 8)

\* Any new escape will do; optimize_escapes and parse_joint choose one.
PuEscapedLiteral(byte, newesc) ==
    /\ Encoding("pucrunch")
    /\ e = 0 \/ Selector(byte) = Esc
    /\ Unit(Width(Esc, e) \o BoundedGamma(1) \o Width(2, 2) \o Width(newesc, e) \o Width(byte % 2^(8 - e), 8 - e),
            <<byte>>, "Literals", newesc, 8 + 3 + e)

PuLz(dist, len) ==
    LET d == dist - 1 IN
    /\ Encoding("pucrunch")
    /\ dist \in 1 .. Len(input) /\ len \in 2 .. MAX_LZ_LEN
    /\ dist <= (IF len = 2 THEN 256 ELSE MaxLzDist)
    /\ Unit(Width(Esc, e)
              \o (IF len = 2 THEN BoundedGamma(1) \o <<Bit(0)>>
                  ELSE BoundedGamma(len - 1) \o BoundedGamma(HighPart(dist)) \o Width((d \div 256) % 2^x, x))
              \o Width(255 - (d % 256), 8),
            Repeats(input, dist, len), "Match", Esc, LzCost(len, dist))

PuRle(len, byte) ==
    LET n == len - 1
        count == IF n < SHORT_RLE_LIMIT THEN BoundedGamma(n)
                 ELSE BoundedGamma(2^MAX_GAMMA + (n % 256) \div 2^(8 - MAX_GAMMA))
                        \o Width(n % 2^(8 - MAX_GAMMA), 8 - MAX_GAMMA) \o BoundedGamma((n \div 256) + 1)
        what == IF Rank(byte) # 0 THEN BoundedGamma(Rank(byte))
                ELSE BoundedGamma(16 + byte \div 16) \o Width(byte % 16, 4)
    IN /\ Encoding("pucrunch")
       /\ len >= 2
       /\ Unit(Width(Esc, e) \o BoundedGamma(1) \o Width(3, 2) \o count \o what,
               [j \in 1 .. len |-> byte], "Match", Esc, RleCost(len, byte))

PuFinish ==
    /\ Encoding("pucrunch")
    /\ prev # "Start"
    /\ Finish(Width(Esc, e) \o BoundedGamma(2) \o BoundedGamma(SENTINEL), <<>>, "Token", trial.start_esc)
-----------------------------------------------------------------------------
(* decode_stream_gap.  The gap is taken per token, from the byte its first *)
(* bit is in to the last byte it writes.                                   *)

BytesOf(bits) == (bits + 7) \div 8
PuReturns(o, p) ==
    /\ out' = o
    /\ max_gap' = Larger(max_gap, Len(o) - 1 - (rd - 1) \div 8)
    /\ peak' = IF BytesOf(p - 1) < BytesOf(Len(tape)) THEN Larger(peak, Len(o) - BytesOf(p - 1)) ELSE peak

ReadBounded(p) ==
    LET n == CHOOSE k \in 0 .. MAX_GAMMA : (k = MAX_GAMMA \/ IsBit(p + k, 0)) /\ \A j \in 0 .. (k - 1) : IsBit(p + j, 1)
        q == IF n < MAX_GAMMA THEN p + n + 1 ELSE p + n
    IN [val |-> 2^n + Number(q, n), next |-> q + n]

AtToken == Decoding("pucrunch", "Token")
IsLiteral == e > 0 /\ Number(rd, e) # d_last

PuDecLiteral ==
    /\ AtToken /\ IsLiteral
    /\ PuReturns(Append(out, Number(rd, 8)), rd + 8)
    /\ Goes(rd + 8, "Token", d_last)

\* A code that starts with gamma(1): a match of length 2, an escaped literal, a run.
PuDecShort(p) ==
    /\ IsBit(p, 0)
    /\ LET dist == 256 - Number(p + 1, 8) IN
        /\ dist \in 1 .. Len(out)
        /\ PuReturns(Copied(dist, 2), p + 9)
        /\ Goes(p + 9, "Token", d_last)

PuDecEscaped(p) ==
    /\ IsBit(p, 1) /\ IsBit(p + 1, 0)
    /\ PuReturns(Append(out, d_last * 2^(8 - e) + Number(p + 2 + e, 8 - e)), p + 10)
    /\ Goes(p + 10, "Token", Number(p + 2, e))

PuDecRle(p) ==
    /\ IsBit(p, 1) /\ IsBit(p + 1, 1)
    /\ \E first \in {ReadBounded(p + 2)} :
       \E high \in {IF first.val < SHORT_RLE_LIMIT THEN [val |-> 1, next |-> first.next]
                    ELSE ReadBounded(first.next + 8 - MAX_GAMMA)} :
       \E code \in {ReadBounded(high.next)} :
        LET n == IF first.val < SHORT_RLE_LIMIT THEN first.val
                 ELSE 256 * (high.val - 1) + (first.val - 2^MAX_GAMMA) * 2^(8 - MAX_GAMMA)
                        + Number(first.next, 8 - MAX_GAMMA)
            ranked == code.val < 16
            byte == IF ranked THEN trial.table[code.val] ELSE 16 * (code.val - 16) + Number(code.next, 4)
            q == IF ranked THEN code.next ELSE code.next + 4
        IN /\ PuReturns(out \o [j \in 1 .. (n + 1) |-> byte], q)
           /\ Goes(q, "Token", d_last)

PuDecLz(a) ==
    \E b \in {ReadBounded(a.next)} :
        \/ /\ b.val = SENTINEL /\ a.val = 2
           /\ Ends(b.next)
           /\ UNCHANGED max_gap
        \/ LET q == b.next + x
               dist == (b.val - 1) * 2^(8 + x) + 256 * Number(b.next, x) + 256 - Number(q, 8)
           IN /\ b.val # SENTINEL /\ dist \in 1 .. Len(out)
              /\ PuReturns(Copied(dist, a.val + 1), q + 8)
              /\ Goes(q + 8, "Token", d_last)

PuDecControl ==
    /\ AtToken /\ ~IsLiteral
    /\ \E a \in {ReadBounded(rd + e)} :
        IF a.val = 1 THEN PuDecShort(a.next) \/ PuDecEscaped(a.next) \/ PuDecRle(a.next) ELSE PuDecLz(a)

PuNext ==
    \/ /\ Encoding("pucrunch")
       /\ \/ \E byte \in trial.bytes : PuLiteral(byte)
          \/ \E byte \in trial.bytes, newesc \in 0 .. (2^e - 1) : PuEscapedLiteral(byte, newesc)
          \/ \E dist \in trial.offsets, len \in trial.lens : PuLz(dist, len)
          \/ \E len \in trial.runs, byte \in trial.bytes : PuRle(len, byte)
    \/ PuFinish
    \/ PuDecLiteral \/ PuDecControl
=============================================================================
