------------------------------- MODULE BitIO --------------------------------
(***************************************************************************)
(* BitWriter, BitReader and BackwardBitReader of src/src/zx.rs: bits and   *)
(* whole bytes interleaved in one byte stream.                             *)
(*                                                                         *)
(* The writer opens a bit byte at the current end of the stream when it    *)
(* needs one and keeps filling it, most significant bit first, while data  *)
(* bytes are appended behind it.  A new-offset match hides one more bit:   *)
(* after the offset's low byte is written (bit 0 left clear) the next bit  *)
(* is OR-ed into bit 0 of that byte (set_backtrack).  The reader sees the  *)
(* bytes in stream order only, and must find every bit again without being *)
(* told where the writer put it.  A backward stream is the same stream     *)
(* with its bytes reversed, read from its end.                             *)
(*                                                                         *)
(* A byte is a function from bit positions to bits, position 1 being the   *)
(* most significant bit (mask 128) and position W bit 0.  A mask of the    *)
(* code is modelled by the position it selects.                            *)
(***************************************************************************)
EXTENDS Integers, Sequences

CONSTANTS W,          \* Bits in a byte (8 in the code).
          MaxOps      \* Bound on the number of symbols written.

ASSUME WAssumption == W \in Nat \ {0, 1}
ASSUME MaxOpsAssumption == MaxOps \in Nat

VARIABLES bytes,        \* BitWriter.bytes
          bit_mask,     \* BitWriter.bit_mask: next position to fill, 0 = no open byte
          bit_index,    \* BitWriter.bit_index: the open byte (1-based)
          w_backtrack,  \* BitWriter.backtrack
          phase,        \* "write" until finish() hands the stream to a reader
          backward,     \* the stream is stored reversed and read from its end
          data,         \* the slice the reader was built on
          pos,          \* reader: bytes before (after, if backward) the next one
          r_mask,       \* reader: position of the last bit read, 0 = none yet
          bit_value,    \* reader: the bit byte being consumed
          r_backtrack,  \* reader: backtrack
          last_byte,    \* reader: the byte fetched last
          tape,         \* history: the symbols written
          got,          \* history: the symbols read
          hist          \* history: the writer's state before each symbol, and now

writer == <<bytes, bit_mask, bit_index, w_backtrack>>
reader == <<data, pos, r_mask, bit_value, r_backtrack, last_byte>>
vars == <<writer, reader, phase, backward, tape, got, hist>>

Positions == 1 .. W
Bit == {0, 1}
Byte == [Positions -> Bit]
ZeroByte == [m \in Positions |-> 0]
\* An offset's low byte is shifted left by one: bit 0 is clear when it is written.
LsbByte == {b \in Byte : b[W] = 0}
\* What `read_byte() >> 1` keeps of a byte.
ShiftRight(b) == [m \in 1 .. (W - 1) |-> b[m]]

Symbol ==
    [kind : {"byte"}, val : Byte]
        \cup [kind : {"lsb"}, val : [1 .. (W - 1) -> Bit]]
        \cup [kind : {"bit"}, val : Bit]
-----------------------------------------------------------------------------
(* The writer. *)

WriterState(len, idx, mask, bt) == [len |-> len, idx |-> idx, mask |-> mask, bt |-> bt]

\* Every write logs its symbol and the writer state it leaves behind.
Logged(kind, val) ==
    /\ tape' = Append(tape, [kind |-> kind, val |-> val])
    /\ hist' = Append(hist, WriterState(Len(bytes'), bit_index', bit_mask', w_backtrack'))
    /\ UNCHANGED <<reader, phase, backward, got>>

MayWrite == phase = "write" /\ Len(tape) < MaxOps

\* write_byte: a literal byte.  Callers never write one while a bit is owed to
\* the low byte of an offset.
WriteByte(v) ==
    /\ MayWrite
    /\ ~w_backtrack
    /\ bytes' = Append(bytes, v)
    /\ UNCHANGED <<bit_mask, bit_index, w_backtrack>>
    /\ Logged("byte", v)

\* emit_new_offset: the low byte, then set_backtrack.
WriteLsb(v) ==
    /\ MayWrite
    /\ ~w_backtrack
    /\ bytes' = Append(bytes, v)
    /\ w_backtrack' = TRUE
    /\ UNCHANGED <<bit_mask, bit_index>>
    /\ Logged("lsb", ShiftRight(v))

\* (Mutant of SetBit: the test of the value is gone.)
SetBitAlways(bs, i, m, value) == [bs EXCEPT ![i][m] = 1]

\* `bytes[i] |= mask` for a bit that is not 0.
SetBit(bs, i, m, value) == IF value # 0 THEN [bs EXCEPT ![i][m] = 1] ELSE bs

\* write_bit, first branch: the bit rides in bit 0 of the byte written last.
BacktrackBit(value) ==
    /\ w_backtrack
    /\ bytes' = SetBit(bytes, Len(bytes), W, value)
    /\ w_backtrack' = FALSE
    /\ UNCHANGED <<bit_mask, bit_index>>

\* (Mutant of NextMask: the mask never shifts out.)
NextMaskStays(m) == m + 1

NextMask(m) == IF m = W THEN 0 ELSE m + 1

\* write_bit, second branch: into the open byte, opening one if there is none.
PlainBit(value) ==
    /\ ~w_backtrack
    /\ IF bit_mask = 0
       THEN /\ bytes' = SetBit(Append(bytes, ZeroByte), Len(bytes) + 1, 1, value)
            /\ bit_index' = Len(bytes) + 1
            /\ bit_mask' = NextMask(1)
       ELSE /\ bytes' = SetBit(bytes, bit_index, bit_mask, value)
            /\ bit_mask' = NextMask(bit_mask)
            /\ UNCHANGED bit_index
    /\ UNCHANGED w_backtrack

WriteBit(value) ==
    /\ MayWrite
    /\ BacktrackBit(value) \/ PlainBit(value)
    /\ Logged("bit", value)

\* (Mutant of Backwards: the bytes are not reversed.)
NotBackwards(s) == s

Backwards(s) == [i \in 1 .. Len(s) |-> s[Len(s) + 1 - i]]

\* (Mutant of Finish: the backward reader starts one byte too low.)
FinishLow ==
    /\ phase = "write"
    /\ ~w_backtrack
    /\ phase' = "read"
    /\ data' = IF backward THEN Backwards(bytes) ELSE bytes
    /\ pos' = IF backward /\ bytes # <<>> THEN Len(bytes) - 1 ELSE 0
    /\ UNCHANGED <<writer, r_mask, bit_value, r_backtrack, last_byte, backward, tape, got, hist>>

\* finish, then BitReader::new or, on the reversed bytes, BackwardBitReader::new.
Finish ==
    /\ phase = "write"
    /\ ~w_backtrack
    /\ phase' = "read"
    /\ data' = IF backward THEN Backwards(bytes) ELSE bytes
    /\ pos' = IF backward THEN Len(bytes) ELSE 0
    /\ UNCHANGED <<writer, r_mask, bit_value, r_backtrack, last_byte, backward, tape, got, hist>>
-----------------------------------------------------------------------------
(* The readers. *)

\* (Mutant of AtEnd: the backward reader never takes the last byte.)
AtEndEarly == IF backward THEN pos <= 1 ELSE pos >= Len(data)

\* read_byte: the next byte of the slice in reading direction, 0 past its end.
AtEnd == IF backward THEN pos = 0 ELSE pos >= Len(data)
Fetched == IF AtEnd THEN ZeroByte ELSE IF backward THEN data[pos] ELSE data[pos + 1]

Fetch ==
    /\ last_byte' = Fetched
    /\ pos' = IF backward THEN (IF AtEnd THEN pos ELSE pos - 1) ELSE pos + 1

\* The decoder asks for what the grammar says comes next; the codec's modules
\* show that this is the kind the encoder wrote.
Expects(kind) ==
    /\ phase = "read"
    /\ Len(got) < Len(tape)
    /\ tape[Len(got) + 1].kind = kind

Gives(kind, val) ==
    /\ got' = Append(got, [kind |-> kind, val |-> val])
    /\ UNCHANGED <<writer, phase, backward, data, tape, hist>>

ReadByte ==
    /\ Expects("byte")
    /\ Fetch
    /\ Gives("byte", Fetched)
    /\ UNCHANGED <<r_mask, bit_value, r_backtrack>>

\* NEW_OFFSET: read_byte() >> 1, then set_backtrack.
ReadLsb ==
    /\ Expects("lsb")
    /\ Fetch
    /\ r_backtrack' = TRUE
    /\ Gives("lsb", ShiftRight(Fetched))
    /\ UNCHANGED <<r_mask, bit_value>>

\* read_bit: the owed bit, the next bit of the current byte, or the first bit
\* of a freshly fetched one (the mask shifts out to 0 after position W).
ReadBit ==
    /\ Expects("bit")
    /\ IF r_backtrack
       THEN /\ r_backtrack' = FALSE
            /\ Gives("bit", last_byte[W])
            /\ UNCHANGED <<pos, r_mask, bit_value, last_byte>>
       ELSE IF r_mask \in {0, W}
       THEN /\ Fetch
            /\ r_mask' = 1
            /\ bit_value' = Fetched
            /\ Gives("bit", Fetched[1])
            /\ UNCHANGED r_backtrack
       ELSE /\ r_mask' = r_mask + 1
            /\ Gives("bit", bit_value[r_mask + 1])
            /\ UNCHANGED <<pos, bit_value, r_backtrack, last_byte>>
-----------------------------------------------------------------------------
Init ==
    /\ bytes = <<>>
    /\ bit_mask = 0
    /\ bit_index = 0
    /\ w_backtrack = FALSE
    /\ phase = "write"
    /\ backward \in BOOLEAN
    /\ data = <<>>
    /\ pos = 0
    /\ r_mask = 0
    /\ bit_value = ZeroByte
    /\ r_backtrack = FALSE
    /\ last_byte = ZeroByte
    /\ tape = <<>>
    /\ got = <<>>
    /\ hist = <<WriterState(0, 0, 0, FALSE)>>

Next ==
    \/ \E v \in Byte : WriteByte(v)
    \/ \E v \in LsbByte : WriteLsb(v)
    \/ \E v \in Bit : WriteBit(v)
    \/ Finish
    \/ ReadByte
    \/ ReadLsb
    \/ ReadBit

Spec == Init /\ [][Next]_vars
-----------------------------------------------------------------------------
(* Properties. *)

TypeOK ==
    /\ bytes \in Seq(Byte)
    /\ bit_mask \in 0 .. W
    /\ bit_index \in 0 .. Len(bytes)
    /\ bit_mask # 0 => bit_index # 0
    /\ w_backtrack \in BOOLEAN
    /\ phase \in {"write", "read"}
    /\ backward \in BOOLEAN
    /\ data \in Seq(Byte)
    /\ pos \in Nat
    /\ r_mask \in 0 .. W
    /\ bit_value \in Byte
    /\ r_backtrack \in BOOLEAN
    /\ last_byte \in Byte
    /\ tape \in Seq(Symbol)
    /\ got \in Seq(Symbol)
    /\ hist \in Seq([len : Nat, idx : Nat, mask : 0 .. W, bt : BOOLEAN])

\* Whatever was interleaved with it, every symbol read back - bit, literal byte
\* or offset low byte - has the value written at that place of the stream.
ReadBack ==
    /\ Len(got) <= Len(tape)
    /\ \A k \in 1 .. Len(got) : got[k] = tape[k]

\* Bytes the reader has consumed.
Consumed == IF backward THEN Len(data) - pos ELSE pos

\* The reader never runs ahead: before a symbol it has consumed exactly the
\* bytes the stream had when the writer wrote that symbol.  (In-place decoding
\* and the gap functions count on `pos` being this number.)
Lockstep == phase = "read" => Consumed = hist[Len(got) + 1].len

\* A stream read to its last symbol is consumed to its last byte, and a reader
\* never needs a byte past the end.
FullyConsumed ==
    phase = "read" =>
        /\ Consumed <= Len(data)
        /\ Len(got) = Len(tape) => Consumed = Len(data)

\* The whole layer is a FIFO of symbols.
Fifo == INSTANCE SymbolFifo WITH Symbols <- Symbol, closed <- (phase = "read")
ImplementsFifo == Fifo!Spec
=============================================================================
