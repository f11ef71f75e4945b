-------------------------------- MODULE Upkr --------------------------------
(***************************************************************************)
(* upkr (src/src/upkr.rs): tokens are binary decisions, each in an         *)
(* adaptive context, and a rANS coder turns the decisions into a number,   *)
(* last decision first, that the decoder takes apart again.  While it      *)
(* encodes, the tape holds the decisions with the probabilities they were  *)
(* made at; finish lays out the coded stream.                              *)
(***************************************************************************)
EXTENDS LzStream, TLC

ONE_PROB == 256
INIT_PROB == 128
UPDATE == 16       \* 2^UPDATE_RATE
UPDATE_ADD == 8

\* The Config of the trial: units of a byte or a bit, and the senses of three bits.
c == trial.config
Radix == IF c.use_bitstream THEN 2 ELSE 256
Lowest == IF c.use_bitstream THEN 2^15 ELSE 2^12

\* Contexts: the literals' tree, the repeat bit, lengths of offsets, lengths.
REPEAT == 256
OFFSETS == REPEAT + 1
LENGTHS == REPEAT + 65

Prob(contexts, ctx) == IF ctx \in DOMAIN contexts THEN contexts[ctx] ELSE INIT_PROB

\* Context::update
Updated(old, bit) ==
    IF c.simplified_prob_update
    THEN bit * (ONE_PROB \div UPDATE) + old - (old + UPDATE_ADD) \div UPDATE
    ELSE IF bit = 1 THEN old + (ONE_PROB - old + UPDATE_ADD) \div UPDATE
    ELSE old - (old + UPDATE_ADD) \div UPDATE
Learns(contexts, ctx, bit) == (ctx :> Updated(Prob(contexts, ctx), bit)) @@ contexts
-----------------------------------------------------------------------------
(* Op::encode and encode_eof: decisions <<context, bit>>.                   *)

\* encode_length: the bits of the value below its first, lowest first.
LengthCode(start, v) ==
    LET k == FloorLog2(v) IN
    [j \in 1 .. (2 * k + 1) |->
        <<start + j - 1,
          IF j = 2 * k + 1 THEN 1 - c.continue_value_bit
          ELSE IF j % 2 = 1 THEN c.continue_value_bit
          ELSE (v \div 2^(j \div 2 - 1)) % 2>>]

LiteralCode(byte) ==
    <<<<0, 1 - c.is_match_bit>>>>
        \o [j \in 1 .. 8 |-> <<2^(j - 1) + byte \div 2^(9 - j), (byte \div 2^(8 - j)) % 2>>]

\* A repeated offset can only be told where no match came just before.
MayRepeat == prev # "Match"
OffsetCode(off) ==
    <<<<0, c.is_match_bit>>>>
        \o (IF ~MayRepeat THEN <<>>
            ELSE <<<<REPEAT, IF off # last THEN c.new_offset_bit ELSE 1 - c.new_offset_bit>>>>)
        \o (IF MayRepeat /\ off = last THEN <<>> ELSE LengthCode(OFFSETS, off + 1))

EofCode ==
    <<<<0, c.is_match_bit>>>> \o (IF MayRepeat THEN <<<<REPEAT, c.new_offset_bit>>>> ELSE <<>>)
        \o LengthCode(OFFSETS, 1)

\* encode_with_context: the tape and the contexts after some decisions.
Decided(decisions) ==
    Fold(LAMBDA acc, d :
             LET p == Prob(acc.contexts, d[1]) IN
             [tape |-> Append(acc.tape, [kind |-> "decision", val |-> <<d[2], p>>, ip |-> 0]),
              contexts |-> Learns(acc.contexts, d[1], d[2])],
         [tape |-> tape, contexts |-> coder.contexts], decisions)

Token(decisions, covered, kind, offset) ==
    \E d \in {Decided(decisions)} :
        /\ Adds([w |-> w, tape |-> d.tape], covered, kind, offset, 0)
        /\ coder' = [coder EXCEPT !.contexts = d.contexts]

UpkrLiteral(byte) ==
    /\ Encoding("upkr")
    /\ Token(LiteralCode(byte), <<byte>>, "Literals", last)

UpkrMatch(off, len) ==
    /\ Encoding("upkr")
    /\ off \in 1 .. Len(input) /\ len >= 1
    /\ Token(OffsetCode(off) \o LengthCode(LENGTHS, len), Repeats(input, off, len), "Match", off)
-----------------------------------------------------------------------------
(* RansCoder::finish: the decisions from the last to the first are pushed   *)
(* onto the state, which sheds a unit whenever it would grow too large.     *)

UpkrEof ==
    /\ Encoding("upkr")
    /\ prev # "Start"
    /\ \E d \in {Decided(EofCode)} : tape' = d.tape
    /\ phase' = "finish"
    /\ coder' = [state |-> Lowest, flushed |-> <<>>]
    /\ UNCHANGED <<trial, input, prev, last, predicted, w, marks, decoder>>

Finishing == phase = "finish" /\ trial.format = "upkr"
Freq(d) == IF d.val[1] = 1 THEN d.val[2] ELSE ONE_PROB - d.val[2]
MaxState(d) == ((Lowest * Radix) \div ONE_PROB) * Freq(d)

\* flush_state
RansFlush ==
    /\ Finishing
    /\ coder.state >= (IF tape = <<>> THEN 1 ELSE MaxState(Last(tape)))
    /\ coder' = [state |-> coder.state \div Radix, flushed |-> Append(coder.flushed, coder.state % Radix)]
    /\ UNCHANGED <<written, phase, decoder>>

RansPush ==
    /\ Finishing
    /\ tape # <<>>
    /\ LET d == Last(tape) IN
        /\ coder.state < MaxState(d)
        /\ coder' = [coder EXCEPT !.state = (@ \div Freq(d)) * ONE_PROB + (@ % Freq(d)) + (1 - d.val[1]) * d.val[2]]
    /\ tape' = Front(tape)
    /\ UNCHANGED <<trial, input, prev, last, predicted, w, marks, phase, decoder>>

\* The units in the order the decoder takes them; bits fill the last byte they
\* need, so that the first byte may begin with zeros.
UpkrFinish ==
    /\ Finishing
    /\ tape = <<>> /\ coder.state = 0
    /\ LET padding == IF c.use_bitstream THEN (ByteBits - (Len(coder.flushed) % ByteBits)) % ByteBits ELSE 0
           units == [j \in 1 .. padding |-> 0] \o Reverse(coder.flushed)
       IN HandOver(IF c.use_bitstream THEN LaidUnits("bit", units, ByteBits) ELSE LaidUnits("byte", units, 1), <<>>, "Token", 0)
    /\ coder' = [state |-> 0, contexts |-> <<>>, ctx |-> 0, val |-> 0]
-----------------------------------------------------------------------------
(* RansDecoder and unpack_with_gap, one unit taken or one bit decoded at a  *)
(* time: the state, the contexts, the context of the next bit and the bits  *)
(* of a number so far are in coder, the next unit is rd.                    *)

AtRans == phase = "decode" /\ trial.format = "upkr"

\* refill
UpkrRefill ==
    /\ coder.state < Lowest /\ rd <= Len(tape)
    /\ coder' = [coder EXCEPT !.state = @ * Radix + At(rd)]
    /\ Reads(rd + 1, d_state, d_last)
    /\ UNCHANGED <<out, max_gap, peak>>

\* decode_bit, and the decoder after it: the state and the context that follow
\* from the bit, and what it is about to decode.
Decoded == IF coder.state % ONE_PROB < Prob(coder.contexts, coder.ctx) THEN 1 ELSE 0
After(bit, ctx, val) ==
    LET p == Prob(coder.contexts, coder.ctx) IN
    coder' = [state |-> (IF bit = 1 THEN p ELSE ONE_PROB - p) * (coder.state \div ONE_PROB)
                          + (coder.state % ONE_PROB) - (1 - bit) * p,
              contexts |-> Learns(coder.contexts, coder.ctx, bit), ctx |-> ctx, val |-> val]
Deciding(state) == coder.state >= Lowest /\ d_state = state
Silent(state) == Reads(rd, state, d_last) /\ UNCHANGED <<out, max_gap, peak>>

\* A token is complete; the gap is taken at the top of the loop.
Puts(o, state) ==
    /\ Reads(rd, state, d_last)
    /\ Produces(o, rd)
    /\ max_gap' = Looked(o, rd)

\* "LastOffset" is the top of the loop after a match: no repeat bit follows.
UpkrDecToken ==
    /\ Deciding("Token") \/ Deciding("LastOffset")
    /\ \E bit \in {Decoded} :
        \/ /\ bit # c.is_match_bit
           /\ After(bit, 1, 0) /\ Silent("Literal")
        \/ /\ Deciding("Token")
           /\ bit = c.is_match_bit
           /\ After(bit, REPEAT, 0) /\ Silent("Repeat")
        \/ /\ Deciding("LastOffset")
           /\ bit = c.is_match_bit
           /\ After(bit, OFFSETS, 0) /\ Silent("Offset")

\* A bit of a literal: its context is what the bits before it have spelt.
UpkrDecLiteral ==
    /\ Deciding("Literal")
    /\ \E bit \in {Decoded} : \E place \in {2 * coder.ctx + bit} :
        \/ place < 256 /\ After(bit, place, 0) /\ Silent("Literal")
        \/ place >= 256 /\ After(bit, 0, 0) /\ Puts(Append(out, place - 256), "Token")

UpkrDecRepeat ==
    /\ Deciding("Repeat")
    /\ \E bit \in {Decoded} :
        \/ bit = c.new_offset_bit /\ After(bit, OFFSETS, 0) /\ Silent("Offset")
        \/ bit # c.new_offset_bit /\ After(bit, LENGTHS, 0) /\ Silent("Length")

\* decode_length: a bit says whether one more bit of the value follows.
DecodeLength(state, start, bit, Complete(_)) ==
    LET k == (coder.ctx - start) \div 2
        follows == (coder.ctx - start) % 2 = 1
    IN \/ follows /\ After(bit, coder.ctx + 1, coder.val + bit * 2^k) /\ Silent(state)
       \/ ~follows /\ bit = c.continue_value_bit /\ After(bit, coder.ctx + 1, coder.val) /\ Silent(state)
       \/ ~follows /\ bit # c.continue_value_bit /\ Complete(coder.val + 2^k)

UpkrDecOffset ==
    /\ Deciding("Offset")
    /\ \E bit \in {Decoded} :
        DecodeLength("Offset", OFFSETS, bit, LAMBDA n :
            \/ /\ n # 1
               /\ After(bit, LENGTHS, 0)
               /\ Reads(rd, "Length", n - 1)
               /\ UNCHANGED <<out, max_gap, peak>>
            \/ n = 1 /\ After(bit, 0, 0) /\ Stops)

UpkrDecLength ==
    /\ Deciding("Length")
    /\ \E bit \in {Decoded} :
        DecodeLength("Length", LENGTHS, bit, LAMBDA n :
            d_last \in 1 .. Len(out) /\ After(bit, 0, 0) /\ Puts(Copied(d_last, n), "LastOffset"))

UpkrDecode ==
    /\ AtRans
    /\ UpkrRefill \/ UpkrDecToken \/ UpkrDecLiteral \/ UpkrDecRepeat \/ UpkrDecOffset \/ UpkrDecLength

\* The units the decoder leaves are those that would fill its state to the one
\* the coder began with: it fills up only to decode a bit.
BackToStart ==
    Fold(LAMBDA state, unit : state * Radix + unit.val, coder.state, SubSeq(tape, rd, Len(tape))) = Lowest

UpkrNext ==
    \/ /\ Encoding("upkr")
       /\ \/ \E byte \in trial.bytes : UpkrLiteral(byte)
          \/ \E off \in trial.offsets, len \in trial.lens : UpkrMatch(off, len)
          \/ UpkrEof
    \/ RansFlush \/ RansPush \/ UpkrFinish
    \/ UpkrDecode
=============================================================================
