------------------------------ MODULE Shrinkler -----------------------------
(***************************************************************************)
(* Shrinkler (src/src/shrinkler.rs) without parity contexts: tokens are    *)
(* binary decisions, each in an adaptive context.  A range coder narrows   *)
(* an interval; the bits of its lower end leave as the interval doubles,   *)
(* and a carry may still change bits that have left.  While it encodes,    *)
(* the tape holds the decisions <<context, bit>>.                          *)
(*                                                                         *)
(* Interval and probabilities have IntervalBits bits, 16 in the code.      *)
(***************************************************************************)
EXTENDS LzStream, TLC

ADJUST == 16      \* 2^ADJUST_SHIFT
Whole == 2^IntervalBits
Half == Whole \div 2

\* Contexts, NUM_SINGLE_CONTEXTS included: the repeat bit, the kind and the tree
\* of literals, and two groups for numbers.
CONTEXT_REPEATED == 0
CONTEXT_KIND == 1
GROUP_OFFSET == 1 + 2 * 256
GROUP_LENGTH == 1 + 3 * 256

Prob(contexts, ctx) == IF ctx \in DOMAIN contexts THEN contexts[ctx] ELSE Half
Learns(contexts, ctx, bit) ==
    LET p == Prob(contexts, ctx) IN
    (ctx :> (p - p \div ADJUST + bit * ((Whole - 1) \div ADJUST))) @@ contexts
Threshold == (coder.size * Prob(coder.contexts, coder.ctx)) \div Whole
-----------------------------------------------------------------------------
(* LZEncoder and encode_number.                                             *)

\* A number from 2 on: its length in unary, then the bits below its first.
NumberCode(base, n) ==
    LET i == FloorLog2(n) - 1 IN
    [j \in 1 .. (i + 1) |-> <<base + 2 * j, IF j <= i THEN 1 ELSE 0>>]
        \o [j \in 1 .. (i + 1) |-> <<base + 2 * (i + 1 - j) + 1, (n \div 2^(i + 1 - j)) % 2>>]

KindCode(bit) == IF input = <<>> THEN <<>> ELSE <<<<CONTEXT_KIND, bit>>>>

LiteralCode(byte) ==
    KindCode(0) \o [j \in 1 .. 8 |-> <<1 + 2^(j - 1) + byte \div 2^(9 - j), (byte \div 2^(8 - j)) % 2>>]
RepeatCode(bit) == IF prev = "Match" THEN <<>> ELSE <<<<CONTEXT_REPEATED, bit>>>>
ReferenceCode(off, len) ==
    KindCode(1)
        \o (IF off = last THEN RepeatCode(1) ELSE RepeatCode(0) \o NumberCode(GROUP_OFFSET, off + 2))
        \o NumberCode(GROUP_LENGTH, len)

EndCode == KindCode(1) \o RepeatCode(0) \o NumberCode(GROUP_OFFSET, 2)

Decided(decisions) == tape \o [j \in 1 .. Len(decisions) |-> [kind |-> "decision", val |-> decisions[j], ip |-> 0]]
Token(decisions, covered, kind, offset) ==
    /\ Adds([w |-> w, tape |-> Decided(decisions)], covered, kind, offset, 0)
    /\ UNCHANGED coder

ShrLiteral(byte) ==
    /\ Encoding("shrinkler")
    /\ Token(LiteralCode(byte), <<byte>>, "Literals", last)

\* The parser never refers to the last offset right after a match.
ShrReference(off, len) ==
    /\ Encoding("shrinkler")
    /\ off \in 1 .. Len(input) /\ len >= 2
    /\ ~(prev = "Match" /\ off = last)
    /\ Token(ReferenceCode(off, len), Repeats(input, off, len), "Match", off)
-----------------------------------------------------------------------------
(* RangeCoder: code and finish.                                             *)

ShrEnd ==
    /\ Encoding("shrinkler")
    /\ prev # "Start"
    /\ tape' = Decided(EndCode)
    /\ phase' = "finish"
    /\ coder' = [min |-> 0, size |-> Half, dest |-> -1, bits |-> <<>>, contexts |-> <<>>, final |-> <<0, Whole>>]
    /\ UNCHANGED <<trial, input, prev, last, predicted, w, marks, decoder>>

Finishing == phase = "finish" /\ trial.format = "shrinkler"
\* The bits that have left; the first doubling lets none leave.
Leaves(bits, dest) == IF dest < 0 THEN bits ELSE Append(bits, 0)

\* (Mutant: a carry changes the last bit and goes no further.)
AddBitOnce(bits) ==
    IF bits = <<>> THEN bits ELSE Append(Front(bits), 1 - Last(bits))
\* add_bit: one more, at the last bit that has left; with no bit to take it, the
\* carry is lost.
AddBit(bits) ==
    LET top == CHOOSE t \in 0 .. Len(bits) :
                   (t = 0 \/ bits[t] = 0) /\ \A j \in (t + 1) .. Len(bits) : bits[j] = 1
    IN IF top = 0 THEN [j \in 1 .. Len(bits) |-> 0] \o <<>>
       ELSE SubSeq(bits, 1, top - 1) \o <<1>> \o [j \in 1 .. (Len(bits) - top) |-> 0]
Carry(bits, min) == IF (min \div Whole) % 2 = 1 THEN AddBit(bits) ELSE bits

\* The loop of code that doubles the interval; its lower end is cut to its width
\* only once the interval is wide enough again.
RangeShift ==
    /\ Finishing
    /\ coder.size < Half
    /\ coder' = [coder EXCEPT !.dest = @ + 1, !.size = @ * 2, !.min = (@ * 2) % (2 * Whole),
                              !.bits = Carry(Leaves(@, coder.dest), coder.min * 2)]
    /\ UNCHANGED <<written, phase, decoder>>

RangeCode ==
    /\ Finishing
    /\ coder.size >= Half /\ tape # <<>>
    /\ \E d \in {Head(tape).val} :
       \E lower \in {coder.min % Whole} :
       \E threshold \in {(coder.size * Prob(coder.contexts, d[1])) \div Whole} :
        coder' = [coder EXCEPT
            !.contexts = Learns(@, d[1], d[2]),
            !.min = IF d[2] = 0 THEN lower + threshold ELSE lower,
            !.size = IF d[2] = 0 THEN @ - threshold ELSE threshold,
            !.bits = IF d[2] = 0 THEN Carry(@, lower + threshold) ELSE @]
    /\ tape' = Tail(tape)
    /\ UNCHANGED <<trial, input, prev, last, predicted, w, marks, phase, decoder>>

\* finish: the bits of the widest interval of bits that lies in the coder's.
Coded == Finishing /\ coder.size >= Half /\ tape = <<>>
Lower == coder.min % Whole
Fits == coder.final[1] >= Lower /\ coder.final[1] + coder.final[2] < Lower + coder.size
RangeNarrow ==
    /\ Coded /\ ~Fits
    /\ LET ends == coder.final[1] + coder.final[2]
           upper == ends < Lower + coder.size
       IN coder' = [coder EXCEPT !.final = <<IF upper THEN ends ELSE @[1], @[2] \div 2>>, !.dest = @ + 1,
                                 !.bits = Leaves(IF upper THEN AddBit(@) ELSE @, coder.dest)]
    /\ UNCHANGED <<written, phase, decoder>>

ShrFinish ==
    /\ Coded /\ Fits
    /\ LET padding == (ByteBits - (Len(coder.bits) % ByteBits)) % ByteBits IN
        HandOver(LaidUnits("bit", coder.bits \o [j \in 1 .. padding |-> 0], ByteBits), <<>>, "Literal", 0)
    /\ coder' = [value |-> 0, size |-> 1, contexts |-> <<>>, ctx |-> CONTEXT_KIND + 1, val |-> 0]
-----------------------------------------------------------------------------
(* RangeDecoder and lz_decode, one bit read or decoded at a time.  No gap   *)
(* is measured.                                                             *)

AtRange == phase = "decode" /\ trial.format = "shrinkler"

\* get_bit: zeros follow the stream.
RangeRead ==
    /\ coder.size < Half
    /\ coder' = [coder EXCEPT !.size = @ * 2, !.value = 2 * @ + (IF rd <= Len(tape) THEN At(rd) ELSE 0)]
    /\ Reads(IF rd <= Len(tape) THEN rd + 1 ELSE rd, d_state, d_last)
    /\ UNCHANGED <<out, max_gap, peak>>

Decoded == IF coder.value >= Threshold THEN 0 ELSE 1
After(bit, ctx, val) ==
    coder' = [value |-> IF bit = 0 THEN coder.value - Threshold ELSE coder.value,
              size |-> IF bit = 0 THEN coder.size - Threshold ELSE Threshold,
              contexts |-> Learns(coder.contexts, coder.ctx, bit), ctx |-> ctx, val |-> val]
Deciding(state) == coder.size >= Half /\ d_state = state
Silent(state) == Reads(rd, state, d_last) /\ UNCHANGED <<out, max_gap, peak>>
Puts(o, state) == Reads(rd, state, d_last) /\ out' = o /\ UNCHANGED <<max_gap, peak>>

ShrDecLiteral ==
    /\ Deciding("Literal")
    /\ \E bit \in {Decoded} : \E place \in {2 * (coder.ctx - 1) + bit} :
        \/ place < 256 /\ After(bit, place + 1, 0) /\ Silent("Literal")
        \/ place >= 256 /\ After(bit, CONTEXT_KIND, 0) /\ Puts(Append(out, place - 256), "Token")

\* "LastOffset" is the kind after a match.
ShrDecKind ==
    /\ Deciding("Token") \/ Deciding("LastOffset")
    /\ \E bit \in {Decoded} :
        \/ bit = 0 /\ After(bit, CONTEXT_KIND + 1, 0) /\ Silent("Literal")
        \/ bit = 1 /\ d_state = "Token" /\ After(bit, CONTEXT_REPEATED, 0) /\ Silent("Repeat")
        \/ bit = 1 /\ d_state = "LastOffset" /\ After(bit, GROUP_OFFSET + 2, 1) /\ Silent("Offset")

ShrDecRepeat ==
    /\ Deciding("Repeat")
    /\ \E bit \in {Decoded} :
        \/ bit = 0 /\ After(bit, GROUP_OFFSET + 2, 1) /\ Silent("Offset")
        \/ bit = 1 /\ After(bit, GROUP_LENGTH + 2, 1) /\ Silent("Length")

\* decode_number: even contexts for its length, odd ones for its bits.
DecodeNumber(state, base, bit, Complete(_)) ==
    LET i == coder.ctx - base
        n == 2 * coder.val + bit
    IN \/ i % 2 = 0 /\ After(bit, IF bit = 1 THEN coder.ctx + 2 ELSE coder.ctx - 1, 1) /\ Silent(state)
       \/ i % 2 = 1 /\ i > 1 /\ After(bit, coder.ctx - 2, n) /\ Silent(state)
       \/ i = 1 /\ Complete(n)

ShrDecOffset ==
    /\ Deciding("Offset")
    /\ \E bit \in {Decoded} :
        DecodeNumber("Offset", GROUP_OFFSET, bit, LAMBDA n :
            \/ n # 2 /\ After(bit, GROUP_LENGTH + 2, 1) /\ Reads(rd, "Length", n - 2) /\ UNCHANGED <<out, max_gap, peak>>
            \/ n = 2 /\ After(bit, 0, 0) /\ Stops)

ShrDecLength ==
    /\ Deciding("Length")
    /\ \E bit \in {Decoded} :
        DecodeNumber("Length", GROUP_LENGTH, bit, LAMBDA n :
            d_last \in 1 .. Len(out) /\ After(bit, CONTEXT_KIND, 0) /\ Puts(Copied(d_last, n), "LastOffset"))

ShrDecode ==
    /\ AtRange
    /\ RangeRead \/ ShrDecLiteral \/ ShrDecKind \/ ShrDecRepeat \/ ShrDecOffset \/ ShrDecLength

ShrNext ==
    \/ /\ Encoding("shrinkler")
       /\ \/ \E byte \in trial.bytes : ShrLiteral(byte)
          \/ \E off \in trial.offsets, len \in trial.lens : ShrReference(off, len)
          \/ ShrEnd
    \/ RangeShift \/ RangeCode \/ RangeNarrow \/ ShrFinish
    \/ ShrDecode
=============================================================================
