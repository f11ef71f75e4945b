---------------------------- MODULE BitIOProofs -----------------------------
(***************************************************************************)
(* Proofs about BitIO, for every byte width, every bound and both reading  *)
(* directions: a symbol is read back with the value that was written, the  *)
(* reader consumes exactly the bytes the writer had produced, and the      *)
(* layer implements SymbolFifo.                                            *)
(*                                                                         *)
(* The invariant describes where each symbol lives (LocByte, LocBit), that *)
(* it still lives there (Holds), and why no later write can reach it       *)
(* (Safe); the reader is then tied to the writer's history.                *)
(***************************************************************************)
EXTENDS BitIO, SequenceTheorems, TLAPS

\* The k-th symbol is a bit of a bit byte (not one hidden in an offset byte).
Plain(k) == tape[k].kind = "bit" /\ ~hist[k].bt

\* The byte, and for a bit the position in it, that the k-th symbol occupies.
LocByte(k) ==
    IF tape[k].kind = "bit" /\ hist[k].bt THEN hist[k].len
    ELSE IF tape[k].kind = "bit" /\ hist[k].mask # 0 THEN hist[k].idx
    ELSE hist[k].len + 1

LocBit(k) == IF hist[k].bt THEN W ELSE IF hist[k].mask = 0 THEN 1 ELSE hist[k].mask

\* The k-th symbol is where it was put.
Holds(k) ==
    /\ tape[k].kind = "byte" => bytes[LocByte(k)] = tape[k].val
    /\ tape[k].kind = "lsb" => ShiftRight(bytes[LocByte(k)]) = tape[k].val
    /\ tape[k].kind = "bit" => bytes[LocByte(k)][LocBit(k)] = tape[k].val

\* No later write reaches it: the open byte is filled behind it, and only the
\* free bit of an offset's low byte awaits a backtracked bit.
Safe(k) ==
    /\ LocByte(k) \in 1 .. Len(bytes)
    /\ bit_mask # 0 /\ LocByte(k) = bit_index => Plain(k) /\ LocBit(k) < bit_mask
    /\ w_backtrack /\ LocByte(k) = Len(bytes) => tape[k].kind = "lsb"

\* How one symbol moves the writer's state.
Step(h, kind, g) ==
    \/ kind = "byte" /\ ~h.bt /\ g = WriterState(h.len + 1, h.idx, h.mask, FALSE)
    \/ kind = "lsb" /\ ~h.bt /\ g = WriterState(h.len + 1, h.idx, h.mask, TRUE)
    \/ kind = "bit" /\ h.bt /\ g = WriterState(h.len, h.idx, h.mask, FALSE)
    \/ /\ kind = "bit" /\ ~h.bt /\ h.mask = 0
       /\ g = WriterState(h.len + 1, h.len + 1, NextMask(1), FALSE)
    \/ /\ kind = "bit" /\ ~h.bt /\ h.mask # 0
       /\ g = WriterState(h.len, h.idx, NextMask(h.mask), FALSE)

\* The bits still to be filled are 0, so that OR-ing writes the bit's value.
OpenInv ==
    /\ bit_mask # 0 => /\ bit_index \in 1 .. Len(bytes)
                       /\ \A m \in bit_mask .. W : bytes[bit_index][m] = 0
    /\ w_backtrack => /\ Len(bytes) > 0
                      /\ bytes[Len(bytes)][W] = 0
                      /\ bit_mask # 0 => bit_index # Len(bytes)

HistInv ==
    /\ Len(hist) = Len(tape) + 1
    /\ hist[1] = WriterState(0, 0, 0, FALSE)
    /\ hist[Len(hist)] = WriterState(Len(bytes), bit_index, bit_mask, w_backtrack)
    /\ \A k \in 1 .. Len(hist) : hist[k].len <= Len(bytes)
    /\ \A k \in 1 .. Len(tape) : Step(hist[k], tape[k].kind, hist[k + 1])

TapeInv == \A k \in 1 .. Len(tape) : Holds(k) /\ Safe(k)

\* The reader before symbol Len(got) + 1 is where the writer was before it.
ReaderInv ==
    /\ phase = "write" => got = <<>> /\ r_mask = 0 /\ ~r_backtrack
    /\ phase = "read" =>
        LET h == hist[Len(got) + 1] IN
        /\ ~w_backtrack
        /\ data = IF backward THEN Backwards(bytes) ELSE bytes
        /\ pos = IF backward THEN Len(bytes) - h.len ELSE h.len
        /\ r_backtrack = h.bt
        /\ h.bt => h.len > 0 /\ last_byte = bytes[h.len]
        /\ h.mask = 0 => r_mask \in {0, W}
        /\ h.mask # 0 => h.mask = r_mask + 1 /\ r_mask # 0 /\ bit_value = bytes[h.idx]

IInv ==
    /\ TypeOK
    /\ OpenInv
    /\ HistInv
    /\ TapeInv
    /\ ReaderInv
    /\ ReadBack
-----------------------------------------------------------------------------
(* Sequences and bytes. *)

\* What the writer logs for each kind of symbol is a symbol; the empty byte and
\* the low bytes of offsets are bytes.
LEMMA SymbolFacts ==
    /\ \A v \in Byte : [kind |-> "byte", val |-> v] \in Symbol
    /\ \A v \in Byte : [kind |-> "lsb", val |-> ShiftRight(v)] \in Symbol
    /\ \A v \in Bit : [kind |-> "bit", val |-> v] \in Symbol
    /\ ZeroByte \in Byte
    /\ LsbByte \subseteq Byte
  <1>1. \A v \in Byte : ShiftRight(v) \in [1 .. (W - 1) -> Bit]
    BY WAssumption DEF Byte, ShiftRight, Positions
  <1>2. ZeroByte \in Byte /\ LsbByte \subseteq Byte
    BY DEF ZeroByte, Byte, Bit, LsbByte
  <1> QED BY <1>1, <1>2 DEF Symbol

\* The stream as the backward reader sees it is the reversal of the bytes.
LEMMA BackwardsType ==
    ASSUME NEW s \in Seq(Byte)
    PROVE  /\ Backwards(s) \in Seq(Byte)
           /\ Len(Backwards(s)) = Len(s)
           /\ \A i \in 1 .. Len(s) : Backwards(s)[i] = s[Len(s) + 1 - i]
  BY DEF Backwards
-----------------------------------------------------------------------------
(* The invariant holds initially and is preserved by every step. *)

\* The invariant holds of a fresh writer.
LEMMA InitIInv == Init => IInv
  <1> SUFFICES ASSUME Init PROVE IInv
    OBVIOUS
  <1>1. TypeOK
    <2>1. /\ bytes \in Seq(Byte) /\ data \in Seq(Byte) /\ tape \in Seq(Symbol) /\ got \in Seq(Symbol)
          /\ bit_mask \in 0 .. W /\ bit_index \in 0 .. Len(bytes) /\ r_mask \in 0 .. W
          /\ bit_mask = 0 /\ pos \in Nat
      BY WAssumption DEF Init
    <2>2. hist \in Seq([len : Nat, idx : Nat, mask : 0 .. W, bt : BOOLEAN])
      BY WAssumption DEF Init, WriterState
    <2> QED BY <2>1, <2>2, SymbolFacts DEF Init, TypeOK
  <1>2. OpenInv /\ ReaderInv /\ ReadBack /\ TapeInv
    BY DEF Init, OpenInv, ReaderInv, ReadBack, TapeInv
  <1>3. HistInv
    <2> DEFINE h0 == WriterState(0, 0, 0, FALSE)
    <2>1. /\ Len(hist) = 1 /\ hist[1] = h0 /\ Len(tape) = 0 /\ Len(bytes) = 0
          /\ bit_index = 0 /\ bit_mask = 0 /\ w_backtrack = FALSE
      BY DEF Init
    <2>2. h0.len = 0
      BY DEF WriterState
    <2> HIDE DEF h0
    <2>3. /\ hist[1] = WriterState(0, 0, 0, FALSE)
          /\ hist[Len(hist)] = WriterState(Len(bytes), bit_index, bit_mask, w_backtrack)
      BY <2>1 DEF h0
    <2>4. \A k \in 1 .. Len(hist) : hist[k].len <= Len(bytes)
      BY <2>1, <2>2
    <2>5. \A k \in 1 .. Len(tape) : Step(hist[k], tape[k].kind, hist[k + 1])
      BY <2>1
    <2>6. Len(hist) = Len(tape) + 1
      BY <2>1
    <2> QED BY <2>3, <2>4, <2>5, <2>6, Zenon DEF HistInv
  <1> QED BY <1>1, <1>2, <1>3 DEF IInv

\* What logging one symbol does to the history, and what stays as it was.
LEMMA LoggedFacts ==
    ASSUME IInv, NEW kind, NEW val, Logged(kind, val),
           [kind |-> kind, val |-> val] \in Symbol,
           bytes' \in Seq(Byte), bit_mask' \in 0 .. W, w_backtrack' \in BOOLEAN,
           bit_index' \in 0 .. Len(bytes')
    PROVE  /\ tape' \in Seq(Symbol) /\ Len(tape') = Len(tape) + 1
           /\ tape'[Len(tape) + 1] = [kind |-> kind, val |-> val]
           /\ \A k \in 1 .. Len(tape) : tape'[k] = tape[k]
           /\ hist' \in Seq([len : Nat, idx : Nat, mask : 0 .. W, bt : BOOLEAN])
           /\ Len(hist') = Len(tape) + 2
           /\ \A k \in 1 .. Len(tape) + 1 : hist'[k] = hist[k]
           /\ hist'[Len(tape) + 1] = WriterState(Len(bytes), bit_index, bit_mask, w_backtrack)
           /\ hist'[Len(tape) + 2] = WriterState(Len(bytes'), bit_index', bit_mask', w_backtrack')
  <1>1. /\ tape' = Append(tape, [kind |-> kind, val |-> val])
        /\ tape \in Seq(Symbol)
        /\ hist \in Seq([len : Nat, idx : Nat, mask : 0 .. W, bt : BOOLEAN])
        /\ Len(hist) = Len(tape) + 1
        /\ hist[Len(hist)] = WriterState(Len(bytes), bit_index, bit_mask, w_backtrack)
    BY DEF Logged, IInv, TypeOK, HistInv
  <1>2. hist' = Append(hist, WriterState(Len(bytes'), bit_index', bit_mask', w_backtrack'))
    BY DEF Logged
  <1>3. WriterState(Len(bytes'), bit_index', bit_mask', w_backtrack')
            \in [len : Nat, idx : Nat, mask : 0 .. W, bt : BOOLEAN]
    BY DEF WriterState
  <1>4. /\ tape' \in Seq(Symbol) /\ Len(tape') = Len(tape) + 1
        /\ tape'[Len(tape) + 1] = [kind |-> kind, val |-> val]
        /\ \A k \in 1 .. Len(tape) : tape'[k] = tape[k]
    BY <1>1
  <1>5. /\ hist' \in Seq([len : Nat, idx : Nat, mask : 0 .. W, bt : BOOLEAN])
        /\ Len(hist') = Len(hist) + 1
        /\ \A k \in 1 .. Len(hist) : hist'[k] = hist[k]
        /\ hist'[Len(hist) + 1] = WriterState(Len(bytes'), bit_index', bit_mask', w_backtrack')
    BY <1>1, <1>2, <1>3
  <1>6. Len(hist) = Len(tape) + 1 /\ Len(hist) + 1 = Len(tape) + 2
    BY <1>1
  <1>7. Len(hist') = Len(tape) + 2
    BY <1>5, <1>6
  <1>8. Len(hist) \in 1 .. Len(hist)
    BY <1>1
  <1>9. hist'[Len(hist)] = WriterState(Len(bytes), bit_index, bit_mask, w_backtrack)
    BY <1>1, <1>5, <1>8, Zenon
  <1> QED BY <1>1, <1>4, <1>5, <1>6, <1>7, <1>9, Zenon

\* A symbol written keeps the invariant when it keeps the open bits clear, is
\* where LocByte says, and leaves what was written before it in place.
LEMMA LoggedIInv ==
    ASSUME IInv, MayWrite, NEW kind, NEW val, Logged(kind, val),
           [kind |-> kind, val |-> val] \in Symbol,
           bytes' \in Seq(Byte), bit_mask' \in 0 .. W, w_backtrack' \in BOOLEAN,
           bit_index' \in 0 .. Len(bytes'), bit_mask' # 0 => bit_index' # 0,
           Len(bytes') >= Len(bytes),
           Step(WriterState(Len(bytes), bit_index, bit_mask, w_backtrack), kind,
                WriterState(Len(bytes'), bit_index', bit_mask', w_backtrack')),
           OpenInv',
           \A k \in 1 .. Len(tape) + 1 : (Holds(k) /\ Safe(k))'
    PROVE  IInv'
  <1> DEFINE g == WriterState(Len(bytes'), bit_index', bit_mask', w_backtrack')
  <1>1. /\ tape' \in Seq(Symbol) /\ Len(tape') = Len(tape) + 1
        /\ tape'[Len(tape) + 1] = [kind |-> kind, val |-> val]
        /\ \A k \in 1 .. Len(tape) : tape'[k] = tape[k]
        /\ hist' \in Seq([len : Nat, idx : Nat, mask : 0 .. W, bt : BOOLEAN])
        /\ Len(hist') = Len(tape) + 2
        /\ \A k \in 1 .. Len(tape) + 1 : hist'[k] = hist[k]
        /\ hist'[Len(tape) + 1] = WriterState(Len(bytes), bit_index, bit_mask, w_backtrack)
        /\ hist'[Len(tape) + 2] = g
    BY LoggedFacts
  <1>2. /\ UNCHANGED <<reader, phase, backward, got>> /\ phase = "write"
        /\ TypeOK /\ ReaderInv /\ HistInv
        /\ Len(tape) \in Nat /\ Len(bytes) \in Nat /\ Len(bytes') \in Nat
        /\ hist \in Seq([len : Nat, idx : Nat, mask : 0 .. W, bt : BOOLEAN])
        /\ Len(hist) = Len(tape) + 1
    BY DEF Logged, MayWrite, IInv, TypeOK, HistInv
  <1>3. TypeOK'
    BY <1>1, <1>2 DEF TypeOK, reader
  <1>4. HistInv'
    <2>1. g.len = Len(bytes')
      BY DEF WriterState
    <2>2. \A k \in 1 .. Len(hist') : hist'[k].len <= Len(bytes')
      <3> SUFFICES ASSUME NEW k \in 1 .. Len(hist') PROVE hist'[k].len <= Len(bytes')
        OBVIOUS
      <3>1. CASE k = Len(tape) + 2
        BY <1>1, <2>1, <3>1
      <3>2. CASE k # Len(tape) + 2
        <4>1. k \in 1 .. Len(tape) + 1 /\ k \in 1 .. Len(hist) /\ hist'[k] = hist[k]
          <5>1. k \in 1 .. Len(tape) + 1
            BY <1>1, <1>2, <3>2
          <5> QED BY <1>1, <1>2, <5>1
        <4>2. hist[k].len \in Nat /\ hist[k].len <= Len(bytes)
          <5>1. hist[k] \in [len : Nat, idx : Nat, mask : 0 .. W, bt : BOOLEAN]
            BY <1>2, <4>1, ElementOfSeq
          <5> QED BY <1>2, <4>1, <5>1 DEF HistInv
        <4> QED BY <4>1, <4>2, <1>2
      <3> QED BY <3>1, <3>2
    <2>3. \A k \in 1 .. Len(tape') : Step(hist'[k], tape'[k].kind, hist'[k + 1])
      <3> SUFFICES ASSUME NEW k \in 1 .. Len(tape')
                   PROVE Step(hist'[k], tape'[k].kind, hist'[k + 1])
        OBVIOUS
      <3>1. CASE k = Len(tape) + 1
        <4>1. /\ hist'[k] = WriterState(Len(bytes), bit_index, bit_mask, w_backtrack)
              /\ hist'[k + 1] = g /\ tape'[k].kind = kind
          BY <1>1, <1>2, <3>1 DEF TypeOK
        <4> QED BY <4>1
      <3>2. CASE k # Len(tape) + 1
        <4>1. k \in 1 .. Len(tape) /\ k \in 1 .. Len(tape) + 1 /\ k + 1 \in 1 .. Len(tape) + 1
          BY <1>1, <1>2, <3>2 DEF TypeOK
        <4>2. hist'[k] = hist[k] /\ hist'[k + 1] = hist[k + 1] /\ tape'[k] = tape[k]
          BY <1>1, <4>1
        <4>3. Step(hist[k], tape[k].kind, hist[k + 1])
          BY <1>2, <4>1 DEF HistInv
        <4> QED BY <4>2, <4>3
      <3> QED BY <3>1, <3>2
    <2>4. hist'[1] = WriterState(0, 0, 0, FALSE)
      <3>1. 1 \in 1 .. Len(tape) + 1
        BY <1>2
      <3> QED BY <1>1, <1>2, <3>1 DEF HistInv
    <2> QED BY <1>1, <2>2, <2>3, <2>4, <1>2 DEF HistInv
  <1>5. TapeInv'
    BY <1>1 DEF TapeInv
  <1>6. ReaderInv' /\ ReadBack'
    BY <1>1, <1>2 DEF ReaderInv, ReadBack, reader, TypeOK
  <1> QED BY <1>3, <1>4, <1>5, <1>6 DEF IInv

\* Where the symbols are after a write: the old ones where they were, the new
\* one where the writer's state before it says.
LEMMA LocFacts ==
    ASSUME IInv, NEW kind, NEW val, Logged(kind, val),
           [kind |-> kind, val |-> val] \in Symbol,
           bytes' \in Seq(Byte), bit_mask' \in 0 .. W, w_backtrack' \in BOOLEAN,
           bit_index' \in 0 .. Len(bytes'), NEW n, n = Len(tape) + 1
    PROVE  /\ \A k \in 1 .. Len(tape) :
                 /\ tape'[k] = tape[k]
                 /\ LocByte(k)' = LocByte(k)
                 /\ LocBit(k)' = LocBit(k)
                 /\ Plain(k)' <=> Plain(k)
           /\ tape'[n] = [kind |-> kind, val |-> val]
           /\ LocByte(n)' =
                IF kind = "bit" /\ w_backtrack THEN Len(bytes)
                ELSE IF kind = "bit" /\ bit_mask # 0 THEN bit_index
                ELSE Len(bytes) + 1
           /\ LocBit(n)' =
                IF w_backtrack THEN W ELSE IF bit_mask = 0 THEN 1 ELSE bit_mask
           /\ Plain(n)' <=> kind = "bit" /\ ~w_backtrack
  <1>1. /\ tape'[n] = [kind |-> kind, val |-> val]
        /\ \A k \in 1 .. Len(tape) : tape'[k] = tape[k]
        /\ \A k \in 1 .. Len(tape) + 1 : hist'[k] = hist[k]
        /\ hist'[n] = WriterState(Len(bytes), bit_index, bit_mask, w_backtrack)
    BY LoggedFacts
  <1>2. ASSUME NEW k \in 1 .. Len(tape)
        PROVE  /\ LocByte(k)' = LocByte(k)
               /\ LocBit(k)' = LocBit(k)
               /\ Plain(k)' <=> Plain(k)
    <2>1. tape'[k] = tape[k] /\ hist'[k] = hist[k]
      <3>1. k \in 1 .. Len(tape) + 1
        BY DEF IInv, TypeOK
      <3> QED BY <1>1, <3>1
    <2> QED BY <2>1 DEF LocByte, LocBit, Plain
  <1>3. /\ LocByte(n)' =
              IF kind = "bit" /\ w_backtrack THEN Len(bytes)
              ELSE IF kind = "bit" /\ bit_mask # 0 THEN bit_index
              ELSE Len(bytes) + 1
        /\ LocBit(n)' =
              IF w_backtrack THEN W ELSE IF bit_mask = 0 THEN 1 ELSE bit_mask
        /\ Plain(n)' <=> kind = "bit" /\ ~w_backtrack
    BY <1>1 DEF LocByte, LocBit, Plain, WriterState
  <1> QED BY <1>1, <1>2, <1>3

\* Setting a bit that is still clear gives it the value and changes no other.
LEMMA SetBitFacts ==
    ASSUME NEW bs \in Seq(Byte), NEW i \in 1 .. Len(bs), NEW m \in Positions, NEW value \in Bit,
           bs[i][m] = 0
    PROVE  /\ SetBit(bs, i, m, value) \in Seq(Byte)
           /\ Len(SetBit(bs, i, m, value)) = Len(bs)
           /\ \A j \in 1 .. Len(bs) : j # i => SetBit(bs, i, m, value)[j] = bs[j]
           /\ SetBit(bs, i, m, value)[i][m] = value
           /\ \A n \in Positions : n # m => SetBit(bs, i, m, value)[i][n] = bs[i][n]
  <1>1. CASE value = 0
    BY <1>1 DEF SetBit
  <1>2. CASE value # 0
    <2>1. value = 1
      BY <1>2 DEF Bit
    <2>2. bs[i] \in Byte
      BY ElementOfSeq
    <2> DEFINE b == [bs[i] EXCEPT ![m] = 1]
    <2>3. SetBit(bs, i, m, value) = [bs EXCEPT ![i] = b]
      BY <2>1 DEF SetBit
    <2>4. b \in Byte /\ b[m] = 1 /\ \A n \in Positions : n # m => b[n] = bs[i][n]
      BY <2>2 DEF Byte, Bit
    <2> HIDE DEF b
    <2> QED BY <2>1, <2>3, <2>4
  <1> QED BY <1>1, <1>2
-----------------------------------------------------------------------------
(* One lemma per action. *)

\* A literal byte or an offset's low byte goes behind everything written.
LEMMA AppendIInv ==
    ASSUME IInv, MayWrite, ~w_backtrack, NEW v \in Byte, NEW kind, NEW val,
           \/ kind = "byte" /\ val = v /\ ~w_backtrack'
           \/ kind = "lsb" /\ val = ShiftRight(v) /\ w_backtrack' /\ v[W] = 0,
           w_backtrack' \in BOOLEAN,
           bytes' = Append(bytes, v), UNCHANGED <<bit_mask, bit_index>>,
           Logged(kind, val)
    PROVE  IInv'
  <1>1. /\ bytes' \in Seq(Byte) /\ Len(bytes') = Len(bytes) + 1
        /\ Len(bytes) \in Nat /\ Len(tape) \in Nat
        /\ \A i \in 1 .. Len(bytes) : bytes'[i] = bytes[i]
        /\ bytes'[Len(bytes) + 1] = v
        /\ bit_mask \in 0 .. W /\ bit_index \in 0 .. Len(bytes)
        /\ bit_mask # 0 => bit_index # 0
    BY DEF IInv, TypeOK
  <1>2. [kind |-> kind, val |-> val] \in Symbol
    BY SymbolFacts
  <1>3. /\ bit_mask' \in 0 .. W /\ bit_index' \in 0 .. Len(bytes')
        /\ bit_mask' # 0 => bit_index' # 0
        /\ Len(bytes') >= Len(bytes)
    BY <1>1
  <1>4. Step(WriterState(Len(bytes), bit_index, bit_mask, w_backtrack), kind,
             WriterState(Len(bytes'), bit_index', bit_mask', w_backtrack'))
    BY <1>1 DEF Step, WriterState
  <1>5. OpenInv'
    BY <1>1 DEF OpenInv, IInv
  <1>6. ASSUME NEW k \in 1 .. Len(tape) + 1
        PROVE  (Holds(k) /\ Safe(k))'
    <2>1. CASE k = Len(tape) + 1
      <3>1. /\ tape'[k] = [kind |-> kind, val |-> val]
            /\ LocByte(k)' = Len(bytes) + 1
        BY <1>1, <1>2, <1>3, <2>1, LocFacts
      <3> QED BY <1>1, <3>1 DEF Holds, Safe
    <2>2. CASE k # Len(tape) + 1
      <3>1. k \in 1 .. Len(tape)
        BY <1>1, <2>2
      <3>2. /\ tape'[k] = tape[k]
            /\ LocByte(k)' = LocByte(k)
            /\ LocBit(k)' = LocBit(k)
            /\ Plain(k)' <=> Plain(k)
        BY <1>1, <1>2, <1>3, <3>1, LocFacts
      <3>3. Holds(k) /\ Safe(k)
        BY <3>1 DEF IInv, TapeInv
      <3> QED BY <1>1, <3>2, <3>3 DEF Holds, Safe
    <2> QED BY <2>1, <2>2
  <1> QED BY <1>1, <1>2, <1>3, <1>4, <1>5, <1>6, LoggedIInv

\* A bit that rides in bit 0 of the offset's low byte just written.
LEMMA BacktrackIInv ==
    ASSUME IInv, MayWrite, NEW v \in Bit, BacktrackBit(v), Logged("bit", v)
    PROVE  IInv'
  <1> DEFINE last == Len(bytes)
  <1>1. /\ w_backtrack /\ w_backtrack' = FALSE
        /\ bytes' = SetBit(bytes, last, W, v)
        /\ bit_mask' = bit_mask /\ bit_index' = bit_index
        /\ last \in 1 .. Len(bytes) /\ W \in Positions
        /\ bytes[last][W] = 0
        /\ bit_mask # 0 => bit_index # last /\ bit_index \in 1 .. Len(bytes)
        /\ Len(tape) \in Nat /\ Len(bytes) \in Nat /\ bytes \in Seq(Byte)
        /\ bit_mask \in 0 .. W /\ bit_index \in 0 .. Len(bytes)
    BY WAssumption DEF BacktrackBit, IInv, OpenInv, TypeOK, Positions
  <1>2. /\ bytes' \in Seq(Byte) /\ Len(bytes') = Len(bytes)
        /\ \A j \in 1 .. Len(bytes) : j # last => bytes'[j] = bytes[j]
        /\ bytes'[last][W] = v
        /\ \A m \in Positions : m # W => bytes'[last][m] = bytes[last][m]
    BY <1>1, SetBitFacts
  <1>3. ShiftRight(bytes'[last]) = ShiftRight(bytes[last])
    BY <1>2, WAssumption DEF ShiftRight, Positions
  <1>4. [kind |-> "bit", val |-> v] \in Symbol
    BY SymbolFacts
  <1>5. /\ bit_mask' \in 0 .. W /\ bit_index' \in 0 .. Len(bytes')
        /\ bit_mask' # 0 => bit_index' # 0
        /\ Len(bytes') >= Len(bytes) /\ w_backtrack' \in BOOLEAN
    <2>1. w_backtrack' \in BOOLEAN
      BY <1>1
    <2>2. /\ bit_mask' \in 0 .. W /\ bit_index' \in 0 .. Len(bytes')
          /\ bit_mask' # 0 => bit_index' # 0
          /\ Len(bytes') >= Len(bytes)
      BY <1>1, <1>2
    <2> QED BY <2>1, <2>2
  <1>6. Step(WriterState(Len(bytes), bit_index, bit_mask, w_backtrack), "bit",
             WriterState(Len(bytes'), bit_index', bit_mask', w_backtrack'))
    BY <1>1, <1>2 DEF Step, WriterState
  <1>7. OpenInv'
    BY <1>1, <1>2 DEF OpenInv, IInv
  <1> HIDE DEF last
  <1>8. ASSUME NEW k \in 1 .. Len(tape) + 1
        PROVE  (Holds(k) /\ Safe(k))'
    <2>1. CASE k = Len(tape) + 1
      <3>1. /\ tape'[k] = [kind |-> "bit", val |-> v]
            /\ LocByte(k)' = last /\ LocBit(k)' = W
        BY <1>1, <1>2, <1>4, <1>5, <2>1, LocFacts DEF last
      <3> QED BY <1>1, <1>2, <3>1 DEF Holds, Safe
    <2>2. CASE k # Len(tape) + 1
      <3>1. k \in 1 .. Len(tape)
        BY <1>1, <2>2
      <3>2. /\ tape'[k] = tape[k]
            /\ LocByte(k)' = LocByte(k)
            /\ LocBit(k)' = LocBit(k)
            /\ Plain(k)' <=> Plain(k)
        BY <1>2, <1>4, <1>5, <3>1, LocFacts
      <3>3. Holds(k) /\ Safe(k)
        BY <3>1 DEF IInv, TapeInv
      <3>4. LocByte(k) = last => tape[k].kind = "lsb"
        BY <1>1, <3>3 DEF Safe, last
      <3>5. Holds(k)'
        BY <1>2, <1>3, <3>2, <3>3, <3>4 DEF Holds, Safe
      <3>6. Safe(k)'
        BY <1>1, <1>2, <3>2, <3>3 DEF Safe
      <3> QED BY <3>5, <3>6
    <2> QED BY <2>1, <2>2
  <1> QED BY <1>2, <1>4, <1>5, <1>6, <1>7, <1>8, LoggedIInv

\* A bit that goes into the open byte.
LEMMA FillIInv ==
    ASSUME IInv, MayWrite, NEW v \in Bit, bit_mask # 0, PlainBit(v), Logged("bit", v)
    PROVE  IInv'
  <1>1. /\ ~w_backtrack /\ w_backtrack' = w_backtrack
        /\ bytes' = SetBit(bytes, bit_index, bit_mask, v)
        /\ bit_mask' = NextMask(bit_mask) /\ bit_index' = bit_index
        /\ bit_index \in 1 .. Len(bytes) /\ bit_mask \in Positions
        /\ \A m \in bit_mask .. W : bytes[bit_index][m] = 0
        /\ bytes[bit_index][bit_mask] = 0
        /\ Len(tape) \in Nat /\ Len(bytes) \in Nat /\ bytes \in Seq(Byte)
    BY WAssumption DEF PlainBit, IInv, OpenInv, TypeOK, Positions
  <1>2. /\ bytes' \in Seq(Byte) /\ Len(bytes') = Len(bytes)
        /\ \A j \in 1 .. Len(bytes) : j # bit_index => bytes'[j] = bytes[j]
        /\ bytes'[bit_index][bit_mask] = v
        /\ \A m \in Positions : m # bit_mask => bytes'[bit_index][m] = bytes[bit_index][m]
    BY <1>1, SetBitFacts
  <1>3. bit_mask' # 0 => bit_mask' = bit_mask + 1 /\ bit_mask' \in Positions
    BY <1>1, WAssumption DEF NextMask, Positions
  <1>4. [kind |-> "bit", val |-> v] \in Symbol
    BY SymbolFacts
  <1>5. /\ bit_mask' \in 0 .. W /\ bit_index' \in 0 .. Len(bytes')
        /\ bit_mask' # 0 => bit_index' # 0
        /\ Len(bytes') >= Len(bytes) /\ w_backtrack' \in BOOLEAN
    BY <1>1, <1>2, <1>3, WAssumption DEF Positions, IInv, TypeOK
  <1>6. Step(WriterState(Len(bytes), bit_index, bit_mask, w_backtrack), "bit",
             WriterState(Len(bytes'), bit_index', bit_mask', w_backtrack'))
    <2>1. w_backtrack = FALSE /\ w_backtrack' = FALSE
      BY <1>1 DEF IInv, TypeOK
    <2> QED BY <1>1, <1>2, <2>1 DEF Step, WriterState
  <1>7. OpenInv'
    BY <1>1, <1>2, <1>3 DEF OpenInv, Positions
  <1>8. ASSUME NEW k \in 1 .. Len(tape) + 1
        PROVE  (Holds(k) /\ Safe(k))'
    <2>1. CASE k = Len(tape) + 1
      <3>1. /\ tape'[k] = [kind |-> "bit", val |-> v]
            /\ LocByte(k)' = bit_index /\ LocBit(k)' = bit_mask /\ Plain(k)'
        BY <1>1, <1>2, <1>4, <1>5, <2>1, LocFacts
      <3> QED BY <1>1, <1>2, <1>3, <3>1 DEF Holds, Safe, Positions
    <2>2. CASE k # Len(tape) + 1
      <3>1. k \in 1 .. Len(tape)
        BY <1>1, <2>2
      <3>2. /\ tape'[k] = tape[k]
            /\ LocByte(k)' = LocByte(k)
            /\ LocBit(k)' = LocBit(k)
            /\ Plain(k)' <=> Plain(k)
        BY <1>2, <1>4, <1>5, <3>1, LocFacts
      <3>3. Holds(k) /\ Safe(k)
        BY <3>1 DEF IInv, TapeInv
      <3>4. LocByte(k) = bit_index => Plain(k) /\ LocBit(k) < bit_mask /\ LocBit(k) \in Positions
        <4>1. hist[k] \in [len : Nat, idx : Nat, mask : 0 .. W, bt : BOOLEAN]
          <5>1. k \in 1 .. Len(hist)
            BY <1>1, <3>1 DEF IInv, HistInv
          <5> QED BY <5>1, ElementOfSeq DEF IInv, TypeOK
        <4>2. LocBit(k) \in Positions
          BY <4>1, WAssumption DEF LocBit, Positions
        <4> QED BY <3>3, <4>2 DEF Safe
      <3>5. Holds(k)'
        <4>1. CASE LocByte(k) = bit_index
          <5>1. LocBit(k) # bit_mask /\ tape[k].kind = "bit" /\ LocBit(k) \in Positions
            BY <1>1, <3>4, <4>1 DEF Plain, Positions
          <5> QED BY <1>2, <3>2, <3>3, <4>1, <5>1 DEF Holds
        <4>2. CASE LocByte(k) # bit_index
          BY <1>2, <3>2, <3>3, <4>2 DEF Holds, Safe
        <4> QED BY <4>1, <4>2
      <3>6. Safe(k)'
        BY <1>1, <1>2, <1>3, <3>2, <3>3, <3>4 DEF Safe, Positions
      <3> QED BY <3>5, <3>6
    <2> QED BY <2>1, <2>2
  <1> QED BY <1>2, <1>4, <1>5, <1>6, <1>7, <1>8, LoggedIInv

\* A bit that opens a byte behind everything written.
LEMMA OpenIInv ==
    ASSUME IInv, MayWrite, NEW v \in Bit, bit_mask = 0, PlainBit(v), Logged("bit", v)
    PROVE  IInv'
  <1> DEFINE bs == Append(bytes, ZeroByte)
             i == Len(bytes) + 1
  <1>1. /\ ~w_backtrack /\ w_backtrack' = w_backtrack
        /\ bytes' = SetBit(bs, i, 1, v)
        /\ bit_mask' = NextMask(1) /\ bit_index' = i
        /\ Len(tape) \in Nat /\ Len(bytes) \in Nat /\ bytes \in Seq(Byte)
    BY DEF PlainBit, IInv, TypeOK
  <1>2. /\ bs \in Seq(Byte) /\ Len(bs) = i /\ i \in 1 .. Len(bs)
        /\ \A j \in 1 .. Len(bytes) : bs[j] = bytes[j]
        /\ bs[i] = ZeroByte
    BY <1>1, SymbolFacts
  <1>3. 1 \in Positions /\ \A m \in Positions : ZeroByte[m] = 0
    BY WAssumption DEF Positions, ZeroByte
  <1>4. /\ bytes' \in Seq(Byte) /\ Len(bytes') = i
        /\ \A j \in 1 .. Len(bytes) : bytes'[j] = bytes[j]
        /\ bytes'[i][1] = v
        /\ \A m \in Positions : m # 1 => bytes'[i][m] = 0
    <2>1. bs[i][1] = 0
      BY <1>2, <1>3
    <2> HIDE DEF bs
    <2>2. /\ bytes' \in Seq(Byte) /\ Len(bytes') = Len(bs)
          /\ \A j \in 1 .. Len(bs) : j # i => bytes'[j] = bs[j]
          /\ bytes'[i][1] = v
          /\ \A m \in Positions : m # 1 => bytes'[i][m] = bs[i][m]
      BY <1>1, <1>2, <1>3, <2>1, SetBitFacts
    <2> QED BY <1>1, <1>2, <1>3, <2>2
  <1> HIDE DEF bs
  <1>5. bit_mask' = 2 /\ bit_mask' \in Positions
    BY <1>1, WAssumption DEF NextMask, Positions
  <1>6. [kind |-> "bit", val |-> v] \in Symbol
    BY SymbolFacts
  <1>7. /\ bit_mask' \in 0 .. W /\ bit_index' \in 0 .. Len(bytes')
        /\ bit_mask' # 0 => bit_index' # 0
        /\ Len(bytes') >= Len(bytes) /\ w_backtrack' \in BOOLEAN
    BY <1>1, <1>4, <1>5, WAssumption DEF Positions, IInv, TypeOK
  <1>8. Step(WriterState(Len(bytes), bit_index, bit_mask, w_backtrack), "bit",
             WriterState(Len(bytes'), bit_index', bit_mask', w_backtrack'))
    <2>1. w_backtrack = FALSE /\ w_backtrack' = FALSE
      BY <1>1 DEF IInv, TypeOK
    <2> QED BY <1>1, <1>4, <2>1 DEF Step, WriterState
  <1>9. OpenInv'
    BY <1>1, <1>4, <1>5 DEF OpenInv, Positions
  <1>10. ASSUME NEW k \in 1 .. Len(tape) + 1
         PROVE  (Holds(k) /\ Safe(k))'
    <2>1. CASE k = Len(tape) + 1
      <3>1. /\ tape'[k] = [kind |-> "bit", val |-> v]
            /\ LocByte(k)' = i /\ LocBit(k)' = 1 /\ Plain(k)'
        BY <1>1, <1>4, <1>6, <1>7, <2>1, LocFacts
      <3> QED BY <1>1, <1>4, <1>5, <3>1 DEF Holds, Safe
    <2>2. CASE k # Len(tape) + 1
      <3>1. k \in 1 .. Len(tape)
        BY <1>1, <2>2
      <3>2. /\ tape'[k] = tape[k]
            /\ LocByte(k)' = LocByte(k)
            /\ LocBit(k)' = LocBit(k)
            /\ Plain(k)' <=> Plain(k)
        BY <1>4, <1>6, <1>7, <3>1, LocFacts
      <3>3. Holds(k) /\ Safe(k)
        BY <3>1 DEF IInv, TapeInv
      <3> QED BY <1>1, <1>4, <3>2, <3>3 DEF Holds, Safe
    <2> QED BY <2>1, <2>2
  <1> QED BY <1>4, <1>6, <1>7, <1>8, <1>9, <1>10, LoggedIInv

-----------------------------------------------------------------------------
(* The reader's steps. *)

\* Finishing puts the reader before the first symbol, where the writer began.
LEMMA FinishIInv == ASSUME IInv, Finish PROVE IInv'
  <1>1. /\ ~w_backtrack /\ phase' = "read" /\ got = <<>> /\ got' = <<>>
        /\ data' = (IF backward THEN Backwards(bytes) ELSE bytes)
        /\ pos' = (IF backward THEN Len(bytes) ELSE 0)
        /\ UNCHANGED <<writer, r_mask, bit_value, r_backtrack, last_byte, backward, tape, hist>>
        /\ r_mask = 0 /\ ~r_backtrack
        /\ hist[1] = WriterState(0, 0, 0, FALSE)
        /\ Len(bytes) \in Nat /\ bytes \in Seq(Byte)
    BY DEF Finish, IInv, ReaderInv, HistInv, TypeOK
  <1>2. TypeOK'
    <2>1. data' \in Seq(Byte) /\ pos' \in Nat
      BY <1>1, BackwardsType
    <2>2. UNCHANGED <<bytes, bit_mask, bit_index, w_backtrack, r_mask, bit_value, r_backtrack,
                      last_byte, backward, tape, hist, got>>
      BY <1>1 DEF writer
    <2> QED BY <1>1, <2>1, <2>2 DEF IInv, TypeOK
  <1>3. OpenInv' /\ HistInv' /\ TapeInv' /\ ReadBack'
    <2>1. UNCHANGED <<bytes, bit_mask, bit_index, w_backtrack, tape, hist, got>>
      BY <1>1 DEF writer
    <2>2. OpenInv' /\ HistInv' /\ ReadBack'
      BY <2>1 DEF IInv, OpenInv, HistInv, ReadBack
    <2>3. TapeInv'
      BY <2>1 DEF IInv, TapeInv, Holds, Safe, LocByte, LocBit, Plain
    <2> QED BY <2>2, <2>3
  <1>4. ReaderInv'
    <2>1. hist' = hist /\ Len(got') + 1 = 1
      BY <1>1
    <2>2. hist'[Len(got') + 1] = WriterState(0, 0, 0, FALSE)
      BY <1>1, <2>1
    <2>3. /\ bytes' = bytes /\ r_mask' = 0 /\ ~r_backtrack' /\ ~w_backtrack'
          /\ backward' = backward
      BY <1>1 DEF writer
    <2>4. /\ data' = IF backward' THEN Backwards(bytes') ELSE bytes'
          /\ pos' = IF backward' THEN Len(bytes') - 0 ELSE 0
      BY <1>1, <2>3
    <2>5. r_backtrack' = FALSE
      BY <2>3, <1>2 DEF TypeOK
    <2>6. /\ hist'[Len(got') + 1].len = 0 /\ hist'[Len(got') + 1].mask = 0
          /\ hist'[Len(got') + 1].bt = FALSE
      BY <2>2 DEF WriterState
    <2> QED BY <1>1, <2>3, <2>4, <2>5, <2>6 DEF ReaderInv
  <1> QED BY <1>2, <1>3, <1>4 DEF IInv

\* What the reader's invariant says before the next symbol is taken.
LEMMA NextSymbolFacts ==
    ASSUME IInv, NEW kind, Expects(kind), NEW k, k = Len(got) + 1
    PROVE  /\ k \in 1 .. Len(tape) /\ k \in 1 .. Len(hist) /\ k + 1 \in 1 .. Len(hist)
           /\ hist[k] \in [len : Nat, idx : Nat, mask : 0 .. W, bt : BOOLEAN]
           /\ hist[k + 1] \in [len : Nat, idx : Nat, mask : 0 .. W, bt : BOOLEAN]
           /\ hist[k].len <= Len(bytes) /\ hist[k + 1].len <= Len(bytes)
           /\ tape[k].kind = kind /\ tape[k] \in Symbol
           /\ Step(hist[k], kind, hist[k + 1])
           /\ Holds(k) /\ Safe(k)
           /\ bytes \in Seq(Byte) /\ Len(bytes) \in Nat
  <1>1. /\ k \in 1 .. Len(tape) /\ tape[k].kind = kind
        /\ Len(tape) \in Nat /\ Len(hist) = Len(tape) + 1
    <2>1. Len(got) \in Nat /\ Len(tape) \in Nat
      BY DEF IInv, TypeOK
    <2> QED BY <2>1 DEF Expects, IInv, HistInv
  <1>2. k \in 1 .. Len(hist) /\ k + 1 \in 1 .. Len(hist)
    BY <1>1
  <1>3. /\ hist \in Seq([len : Nat, idx : Nat, mask : 0 .. W, bt : BOOLEAN])
        /\ tape \in Seq(Symbol) /\ bytes \in Seq(Byte) /\ Len(bytes) \in Nat
    BY DEF IInv, TypeOK
  <1>4. /\ hist[k] \in [len : Nat, idx : Nat, mask : 0 .. W, bt : BOOLEAN]
        /\ hist[k + 1] \in [len : Nat, idx : Nat, mask : 0 .. W, bt : BOOLEAN]
        /\ tape[k] \in Symbol
    BY <1>1, <1>2, <1>3, ElementOfSeq
  <1>5. /\ hist[k].len <= Len(bytes) /\ hist[k + 1].len <= Len(bytes)
        /\ Step(hist[k], kind, hist[k + 1])
    BY <1>1, <1>2 DEF IInv, HistInv
  <1>6. Holds(k) /\ Safe(k)
    BY <1>1 DEF IInv, TapeInv
  <1> QED BY <1>1, <1>2, <1>3, <1>4, <1>5, <1>6

\* A fetch returns the next byte of the stream as the writer laid it out, and
\* moves the reader past it.
LEMMA FetchFacts ==
    ASSUME IInv, phase = "read", NEW h, h = hist[Len(got) + 1],
           h.len \in Nat, h.len + 1 <= Len(bytes), Fetch
    PROVE  /\ Fetched = bytes[h.len + 1] /\ Fetched \in Byte
           /\ last_byte' = bytes[h.len + 1]
           /\ pos' = IF backward THEN Len(bytes) - (h.len + 1) ELSE h.len + 1
           /\ pos' \in Nat
  <1>1. /\ data = (IF backward THEN Backwards(bytes) ELSE bytes)
        /\ pos = (IF backward THEN Len(bytes) - h.len ELSE h.len)
        /\ bytes \in Seq(Byte) /\ Len(bytes) \in Nat
    BY DEF IInv, ReaderInv, TypeOK
  <1>2. Fetched = bytes[h.len + 1]
    <2>1. CASE backward
      <3>1. pos # 0 /\ pos \in 1 .. Len(bytes) /\ Len(bytes) + 1 - pos = h.len + 1
        BY <1>1, <2>1
      <3> QED BY <1>1, <2>1, <3>1, BackwardsType DEF Fetched, AtEnd
    <2>2. CASE ~backward
      BY <1>1, <2>2 DEF Fetched, AtEnd
    <2> QED BY <2>1, <2>2
  <1>3. h.len + 1 \in 1 .. Len(bytes)
    BY <1>1
  <1>4. Fetched \in Byte
    BY <1>1, <1>2, <1>3, ElementOfSeq
  <1>5. /\ pos' = (IF backward THEN Len(bytes) - (h.len + 1) ELSE h.len + 1)
        /\ pos' \in Nat
    BY <1>1 DEF Fetch, AtEnd
  <1> QED BY <1>2, <1>4, <1>5 DEF Fetch

\* A symbol read with the written value keeps the invariant when it leaves the
\* reader where the writer's history says.
LEMMA ReadIInv ==
    ASSUME IInv, NEW kind, NEW val, Expects(kind), Gives(kind, val),
           val = tape[Len(got) + 1].val,
           pos' \in Nat, r_mask' \in 0 .. W, bit_value' \in Byte, r_backtrack' \in BOOLEAN,
           last_byte' \in Byte,
           NEW g, g = hist[Len(got) + 2],
           pos' = IF backward THEN Len(bytes) - g.len ELSE g.len,
           r_backtrack' = g.bt,
           g.bt => g.len > 0 /\ last_byte' = bytes[g.len],
           g.mask = 0 => r_mask' \in {0, W},
           g.mask # 0 => g.mask = r_mask' + 1 /\ r_mask' # 0 /\ bit_value' = bytes[g.idx]
    PROVE  IInv'
  <1> DEFINE sym == [kind |-> kind, val |-> val]
  <1>1. /\ got' = Append(got, sym)
        /\ UNCHANGED <<writer, phase, backward, data, tape, hist>>
        /\ phase = "read" /\ Len(got) < Len(tape)
        /\ got \in Seq(Symbol) /\ tape \in Seq(Symbol)
        /\ Len(got) \in Nat /\ Len(tape) \in Nat
    <2>1. got \in Seq(Symbol) /\ tape \in Seq(Symbol)
      BY DEF IInv, TypeOK
    <2>2. Len(got) \in Nat /\ Len(tape) \in Nat
      BY <2>1
    <2> QED BY <2>1, <2>2 DEF Gives, Expects
  <1>2. UNCHANGED <<bytes, bit_mask, bit_index, w_backtrack, phase, backward, data, tape, hist>>
    BY <1>1 DEF writer
  <1>3. sym \in Symbol /\ sym = tape[Len(got) + 1]
    <2>1. tape[Len(got) + 1] \in Symbol /\ tape[Len(got) + 1].kind = kind
      BY NextSymbolFacts
    <2> QED BY <2>1 DEF Symbol
  <1>4. /\ got' \in Seq(Symbol) /\ Len(got') = Len(got) + 1
        /\ \A k \in 1 .. Len(got) : got'[k] = got[k]
        /\ got'[Len(got) + 1] = sym
    <2> HIDE DEF sym
    <2> QED BY <1>1, <1>3
  <1>5. TypeOK'
    BY <1>2, <1>4 DEF IInv, TypeOK
  <1>6. OpenInv' /\ HistInv'
    BY <1>2 DEF IInv, OpenInv, HistInv
  <1>7. TapeInv'
    BY <1>2 DEF IInv, TapeInv, Holds, Safe, LocByte, LocBit, Plain
  <1>8. ReadBack'
    <2> SUFFICES ASSUME NEW k \in 1 .. Len(got') PROVE got'[k] = tape[k]
      BY <1>1, <1>2, <1>4 DEF ReadBack
    <2>1. CASE k = Len(got) + 1
      BY <1>3, <1>4, <2>1
    <2>2. CASE k # Len(got) + 1
      BY <1>1, <1>4, <2>2 DEF IInv, ReadBack
    <2> QED BY <2>1, <2>2
  <1>9. ReaderInv'
    <2>1. hist'[Len(got') + 1] = g
      BY <1>1, <1>2, <1>4
    <2>2. ~w_backtrack /\ data = IF backward THEN Backwards(bytes) ELSE bytes
      BY <1>1 DEF IInv, ReaderInv
    <2> QED BY <1>1, <1>2, <2>1, <2>2 DEF ReaderInv
  <1> QED BY <1>5, <1>6, <1>7, <1>8, <1>9 DEF IInv

\* A byte, or an offset's low byte, is the next one of the stream.
LEMMA ReadByteIInv == ASSUME IInv, ReadByte PROVE IInv'
  <1> DEFINE k == Len(got) + 1
             h == hist[k]
             g == hist[k + 1]
  <1>1. Expects("byte") /\ Fetch /\ Gives("byte", Fetched)
        /\ UNCHANGED <<r_mask, bit_value, r_backtrack>>
    BY DEF ReadByte
  <1>2. /\ h.len \in Nat /\ g.len <= Len(bytes) /\ tape[k].kind = "byte"
        /\ Step(h, "byte", g) /\ Holds(k)
        /\ h \in [len : Nat, idx : Nat, mask : 0 .. W, bt : BOOLEAN]
    BY <1>1, NextSymbolFacts
  <1>3. /\ ~h.bt /\ g.len = h.len + 1 /\ g.idx = h.idx /\ g.mask = h.mask /\ g.bt = FALSE
    BY <1>2 DEF Step, WriterState
  <1>4. /\ Fetched = bytes[h.len + 1] /\ Fetched \in Byte /\ last_byte' = Fetched
        /\ pos' = (IF backward THEN Len(bytes) - g.len ELSE g.len)
        /\ pos' \in Nat
    BY <1>1, <1>2, <1>3, FetchFacts DEF Expects, Fetch
  <1>5. Fetched = tape[k].val
    BY <1>2, <1>4 DEF Holds, LocByte
  <1>6. /\ r_backtrack = h.bt
        /\ h.mask = 0 => r_mask \in {0, W}
        /\ h.mask # 0 => h.mask = r_mask + 1 /\ r_mask # 0 /\ bit_value = bytes[h.idx]
        /\ r_mask \in 0 .. W /\ bit_value \in Byte /\ r_backtrack \in BOOLEAN
        /\ Len(got) \in Nat /\ k + 1 = Len(got) + 2
    BY <1>1 DEF IInv, ReaderInv, Expects, TypeOK
  <1> HIDE DEF h
  <1>7. /\ r_backtrack' = g.bt
        /\ g.mask = 0 => r_mask' \in {0, W}
        /\ g.mask # 0 => g.mask = r_mask' + 1 /\ r_mask' # 0 /\ bit_value' = bytes[g.idx]
        /\ r_mask' \in 0 .. W /\ bit_value' \in Byte /\ r_backtrack' \in BOOLEAN
    BY <1>1, <1>3, <1>6
  <1> QED BY <1>1, <1>3, <1>4, <1>5, <1>6, <1>7, ReadIInv

\* The low byte of an offset: its bit 0 may have been filled since, the rest is
\* as written, and the bit asked for next is that bit 0.
LEMMA ReadLsbIInv == ASSUME IInv, ReadLsb PROVE IInv'
  <1> DEFINE k == Len(got) + 1
             h == hist[k]
             g == hist[k + 1]
  <1>1. Expects("lsb") /\ Fetch /\ r_backtrack' = TRUE /\ Gives("lsb", ShiftRight(Fetched))
        /\ UNCHANGED <<r_mask, bit_value>>
    BY DEF ReadLsb
  <1>2. /\ h.len \in Nat /\ g.len <= Len(bytes) /\ tape[k].kind = "lsb"
        /\ Step(h, "lsb", g) /\ Holds(k)
        /\ h \in [len : Nat, idx : Nat, mask : 0 .. W, bt : BOOLEAN]
    BY <1>1, NextSymbolFacts
  <1>3. /\ ~h.bt /\ g.len = h.len + 1 /\ g.idx = h.idx /\ g.mask = h.mask /\ g.bt = TRUE
    BY <1>2 DEF Step, WriterState
  <1>4. /\ Fetched = bytes[h.len + 1] /\ Fetched \in Byte /\ last_byte' = Fetched
        /\ pos' = (IF backward THEN Len(bytes) - g.len ELSE g.len)
        /\ pos' \in Nat
    BY <1>1, <1>2, <1>3, FetchFacts DEF Expects, Fetch
  <1>5. ShiftRight(Fetched) = tape[k].val
    BY <1>2, <1>4 DEF Holds, LocByte
  <1>6. /\ h.mask = 0 => r_mask \in {0, W}
        /\ h.mask # 0 => h.mask = r_mask + 1 /\ r_mask # 0 /\ bit_value = bytes[h.idx]
        /\ r_mask \in 0 .. W /\ bit_value \in Byte
        /\ Len(got) \in Nat /\ k + 1 = Len(got) + 2
    BY <1>1 DEF IInv, ReaderInv, Expects, TypeOK
  <1> HIDE DEF h
  <1>7. /\ r_backtrack' = g.bt /\ r_backtrack' \in BOOLEAN
        /\ g.len > 0 /\ last_byte' = bytes[g.len]
        /\ g.mask = 0 => r_mask' \in {0, W}
        /\ g.mask # 0 => g.mask = r_mask' + 1 /\ r_mask' # 0 /\ bit_value' = bytes[g.idx]
        /\ r_mask' \in 0 .. W /\ bit_value' \in Byte
    <2>1. r_backtrack' = g.bt /\ r_backtrack' \in BOOLEAN
      BY <1>1, <1>3
    <2>2. g.len > 0 /\ last_byte' = bytes[g.len]
      BY <1>2, <1>3, <1>4
    <2>3. /\ g.mask = 0 => r_mask' \in {0, W}
          /\ g.mask # 0 => g.mask = r_mask' + 1 /\ r_mask' # 0 /\ bit_value' = bytes[g.idx]
          /\ r_mask' \in 0 .. W /\ bit_value' \in Byte
      BY <1>1, <1>3, <1>6
    <2> QED BY <2>1, <2>2, <2>3
  <1> QED BY <1>1, <1>3, <1>4, <1>5, <1>6, <1>7, ReadIInv

\* A bit comes from bit 0 of the last byte, from a fresh byte, or from the byte
\* being consumed - whichever the writer used.
LEMMA ReadBitIInv == ASSUME IInv, ReadBit PROVE IInv'
  <1> DEFINE k == Len(got) + 1
             h == hist[k]
             g == hist[k + 1]
  <1>1. Expects("bit")
    BY DEF ReadBit
  <1>2. /\ h.len \in Nat /\ h.idx \in Nat /\ h.mask \in 0 .. W
        /\ g.len <= Len(bytes) /\ tape[k].kind = "bit"
        /\ Step(h, "bit", g) /\ Holds(k) /\ Safe(k)
        /\ h \in [len : Nat, idx : Nat, mask : 0 .. W, bt : BOOLEAN]
        /\ h.len <= Len(bytes) /\ bytes \in Seq(Byte) /\ Len(bytes) \in Nat
    BY <1>1, NextSymbolFacts
  <1>3. /\ r_backtrack = h.bt
        /\ h.bt => h.len > 0 /\ last_byte = bytes[h.len]
        /\ h.mask = 0 => r_mask \in {0, W}
        /\ h.mask # 0 => h.mask = r_mask + 1 /\ r_mask # 0 /\ bit_value = bytes[h.idx]
        /\ pos = (IF backward THEN Len(bytes) - h.len ELSE h.len)
        /\ phase = "read"
    BY <1>1 DEF IInv, ReaderInv, Expects
  <1>4. /\ r_mask \in 0 .. W /\ bit_value \in Byte /\ r_backtrack \in BOOLEAN
        /\ last_byte \in Byte /\ pos \in Nat
        /\ Len(got) \in Nat /\ k + 1 = Len(got) + 2
    BY DEF IInv, TypeOK
  <1>5. bytes[LocByte(k)][LocBit(k)] = tape[k].val
    BY <1>2 DEF Holds
  <1>6. CASE h.bt
    <2>1. /\ r_backtrack' = FALSE /\ Gives("bit", last_byte[W])
          /\ UNCHANGED <<pos, r_mask, bit_value, last_byte>>
      BY <1>3, <1>6 DEF ReadBit
    <2>2. g.len = h.len /\ g.idx = h.idx /\ g.mask = h.mask /\ g.bt = FALSE
      BY <1>2, <1>6 DEF Step, WriterState
    <2>3. last_byte[W] = tape[k].val
      BY <1>2, <1>3, <1>5, <1>6 DEF LocByte, LocBit
    <2> HIDE DEF h
    <2>4. /\ r_backtrack' = g.bt /\ r_backtrack' \in BOOLEAN
          /\ g.mask = 0 => r_mask' \in {0, W}
          /\ g.mask # 0 => g.mask = r_mask' + 1 /\ r_mask' # 0 /\ bit_value' = bytes[g.idx]
          /\ r_mask' \in 0 .. W /\ bit_value' \in Byte /\ last_byte' \in Byte /\ pos' \in Nat
          /\ pos' = IF backward THEN Len(bytes) - g.len ELSE g.len
      BY <1>3, <1>4, <2>1, <2>2
    <2> QED BY <1>1, <1>4, <2>1, <2>2, <2>3, <2>4, ReadIInv
  <1>7. CASE ~h.bt /\ h.mask = 0
    <2>1. /\ Fetch /\ r_mask' = 1 /\ bit_value' = Fetched
          /\ Gives("bit", Fetched[1]) /\ UNCHANGED r_backtrack
      BY <1>3, <1>7 DEF ReadBit
    <2>2. g.len = h.len + 1 /\ g.idx = h.len + 1 /\ g.mask = NextMask(1) /\ g.bt = FALSE
      BY <1>2, <1>7 DEF Step, WriterState
    <2>3. /\ Fetched = bytes[h.len + 1] /\ Fetched \in Byte /\ last_byte' = Fetched
          /\ pos' = (IF backward THEN Len(bytes) - g.len ELSE g.len)
          /\ pos' \in Nat
      BY <1>2, <1>3, <2>1, <2>2, FetchFacts DEF Fetch
    <2>4. Fetched[1] = tape[k].val
      BY <1>2, <1>5, <1>7, <2>3 DEF LocByte, LocBit
    <2>5. /\ g.mask = 2 /\ r_mask' \in 0 .. W
      BY <2>1, <2>2, WAssumption DEF NextMask
    <2> HIDE DEF h
    <2>6. /\ r_backtrack' = g.bt /\ r_backtrack' \in BOOLEAN
          /\ g.mask = 0 => r_mask' \in {0, W}
          /\ g.mask # 0 => g.mask = r_mask' + 1 /\ r_mask' # 0 /\ bit_value' = bytes[g.idx]
      <3>1. r_backtrack' = g.bt /\ r_backtrack' \in BOOLEAN
        BY <1>3, <1>4, <1>7, <2>1, <2>2
      <3>2. g.mask = r_mask' + 1 /\ r_mask' # 0 /\ bit_value' = bytes[g.idx] /\ g.mask # 0
        BY <2>1, <2>2, <2>3, <2>5
      <3> QED BY <3>1, <3>2
    <2> QED BY <1>1, <1>4, <2>1, <2>2, <2>3, <2>4, <2>5, <2>6, ReadIInv
  <1>8. CASE ~h.bt /\ h.mask # 0
    <2>1. /\ r_mask' = r_mask + 1 /\ Gives("bit", bit_value[r_mask + 1])
          /\ UNCHANGED <<pos, bit_value, r_backtrack, last_byte>>
      <3>1. r_mask \notin {0, W} /\ ~r_backtrack
        BY <1>2, <1>3, <1>4, <1>8, WAssumption
      <3> QED BY <3>1 DEF ReadBit
    <2>2. g.len = h.len /\ g.idx = h.idx /\ g.mask = NextMask(h.mask) /\ g.bt = FALSE
      BY <1>2, <1>8 DEF Step, WriterState
    <2>3. bit_value[r_mask + 1] = tape[k].val
      BY <1>2, <1>3, <1>5, <1>8 DEF LocByte, LocBit
    <2>4. /\ r_mask' = h.mask /\ r_mask' \in 0 .. W /\ r_mask' # 0
          /\ g.mask = 0 => r_mask' = W
          /\ g.mask # 0 => g.mask = r_mask' + 1
      BY <1>2, <1>3, <1>4, <1>8, <2>1, <2>2, WAssumption DEF NextMask
    <2> HIDE DEF h
    <2>5. /\ r_backtrack' = g.bt /\ r_backtrack' \in BOOLEAN
          /\ g.mask # 0 => bit_value' = bytes[g.idx]
          /\ bit_value' \in Byte /\ last_byte' \in Byte /\ pos' \in Nat
          /\ pos' = IF backward THEN Len(bytes) - g.len ELSE g.len
      BY <1>3, <1>4, <1>8, <2>1, <2>2
    <2> QED BY <1>1, <1>4, <2>1, <2>2, <2>3, <2>4, <2>5, ReadIInv
  <1> QED BY <1>2, <1>6, <1>7, <1>8
-----------------------------------------------------------------------------
\* Every step of the writer and of the readers preserves the invariant.
LEMMA NextIInv == IInv /\ [Next]_vars => IInv'
  <1> SUFFICES ASSUME IInv, [Next]_vars PROVE IInv'
    OBVIOUS
  <1>1. ASSUME NEW v \in Byte, WriteByte(v) PROVE IInv'
    <2>1. /\ MayWrite /\ ~w_backtrack /\ bytes' = Append(bytes, v) /\ Logged("byte", v)
          /\ UNCHANGED <<bit_mask, bit_index>> /\ ~w_backtrack' /\ w_backtrack' \in BOOLEAN
      BY <1>1 DEF WriteByte, IInv, TypeOK
    <2> QED BY <2>1, AppendIInv
  <1>2. ASSUME NEW v \in LsbByte, WriteLsb(v) PROVE IInv'
    <2>1. /\ MayWrite /\ ~w_backtrack /\ bytes' = Append(bytes, v) /\ Logged("lsb", ShiftRight(v))
          /\ UNCHANGED <<bit_mask, bit_index>> /\ w_backtrack' /\ w_backtrack' \in BOOLEAN
      BY <1>2 DEF WriteLsb
    <2>2. v \in Byte /\ v[W] = 0
      BY DEF LsbByte
    <2> QED BY <2>1, <2>2, AppendIInv
  <1>3. ASSUME NEW v \in Bit, WriteBit(v) PROVE IInv'
    BY <1>3, BacktrackIInv, FillIInv, OpenIInv DEF WriteBit
  <1>4. CASE Finish
    BY <1>4, FinishIInv
  <1>5. CASE ReadByte
    BY <1>5, ReadByteIInv
  <1>6. CASE ReadLsb
    BY <1>6, ReadLsbIInv
  <1>7. CASE ReadBit
    BY <1>7, ReadBitIInv
  <1>8. CASE UNCHANGED vars
    <2>1. /\ UNCHANGED <<bytes, bit_mask, bit_index, w_backtrack, phase, backward, data, pos>>
          /\ UNCHANGED <<r_mask, bit_value, r_backtrack, last_byte, tape, got, hist>>
      BY <1>8 DEF vars, writer, reader
    <2>2. TypeOK'
      BY <2>1 DEF IInv, TypeOK
    <2>3. OpenInv' /\ HistInv' /\ ReadBack'
      BY <2>1 DEF IInv, OpenInv, HistInv, ReadBack
    <2>4. TapeInv'
      BY <2>1 DEF IInv, TapeInv, Holds, Safe, LocByte, LocBit, Plain
    <2>5. ReaderInv'
      BY <2>1 DEF IInv, ReaderInv
    <2> QED BY <2>2, <2>3, <2>4, <2>5 DEF IInv
  <1> QED BY <1>1, <1>2, <1>3, <1>4, <1>5, <1>6, <1>7, <1>8 DEF Next

\* IInv holds of every reachable state.
LEMMA SpecIInv == Spec => []IInv
  BY InitIInv, NextIInv, PTL DEF Spec

\* Every variable of BitWriter and of both readers keeps its type in every
\* reachable state.
THEOREM TypeCorrect == Spec => []TypeOK
  <1>1. IInv => TypeOK
    BY DEF IInv
  <1> QED BY <1>1, SpecIInv, PTL

\* Whatever BitWriter interleaves and in whichever direction the stream is
\* read, BitReader and BackwardBitReader return the symbols that were written.
THEOREM ReadBackHolds == Spec => []ReadBack
  <1>1. IInv => ReadBack
    BY DEF IInv
  <1> QED BY <1>1, SpecIInv, PTL

\* Before each symbol `pos` of the reader counts exactly the bytes BitWriter
\* held when it wrote that symbol.
THEOREM LockstepHolds == Spec => []Lockstep
  <1>1. IInv => Lockstep
    <2> SUFFICES ASSUME IInv, phase = "read"
                 PROVE  Consumed = hist[Len(got) + 1].len
      BY DEF Lockstep
    <2>1. /\ data = (IF backward THEN Backwards(bytes) ELSE bytes)
          /\ pos = IF backward THEN Len(bytes) - hist[Len(got) + 1].len ELSE hist[Len(got) + 1].len
          /\ Len(got) + 1 \in 1 .. Len(hist)
          /\ bytes \in Seq(Byte) /\ Len(bytes) \in Nat
      BY DEF IInv, ReaderInv, HistInv, ReadBack, TypeOK
    <2>2. hist[Len(got) + 1].len \in Nat
      <3>1. hist[Len(got) + 1] \in [len : Nat, idx : Nat, mask : 0 .. W, bt : BOOLEAN]
        BY <2>1, ElementOfSeq DEF IInv, TypeOK
      <3> QED BY <3>1
    <2> QED BY <2>1, <2>2, BackwardsType DEF Consumed
  <1> QED BY <1>1, SpecIInv, PTL

\* A reader never consumes a byte past the end of the stream, and a stream read
\* to its last symbol is consumed to its last byte.
THEOREM FullyConsumedHolds == Spec => []FullyConsumed
  <1>1. IInv => FullyConsumed
    <2> SUFFICES ASSUME IInv, phase = "read"
                 PROVE  /\ Consumed <= Len(data)
                        /\ Len(got) = Len(tape) => Consumed = Len(data)
      BY DEF FullyConsumed
    <2> DEFINE h == hist[Len(got) + 1]
    <2>1. /\ data = (IF backward THEN Backwards(bytes) ELSE bytes)
          /\ pos = IF backward THEN Len(bytes) - h.len ELSE h.len
          /\ Len(got) + 1 \in 1 .. Len(hist)
          /\ Len(hist) = Len(tape) + 1
          /\ bytes \in Seq(Byte) /\ Len(bytes) \in Nat
      BY DEF IInv, ReaderInv, HistInv, ReadBack, TypeOK
    <2>2. h \in [len : Nat, idx : Nat, mask : 0 .. W, bt : BOOLEAN] /\ h.len <= Len(bytes)
      BY <2>1, ElementOfSeq DEF IInv, TypeOK, HistInv
    <2>3. Len(data) = Len(bytes)
      BY <2>1, BackwardsType
    <2>4. Len(got) = Len(tape) => h.len = Len(bytes)
      <3>1. hist[Len(hist)].len = Len(bytes)
        BY DEF IInv, HistInv, WriterState
      <3> QED BY <2>1, <3>1
    <2> HIDE DEF h
    <2> QED BY <2>1, <2>2, <2>3, <2>4 DEF Consumed
  <1> QED BY <1>1, SpecIInv, PTL

\* A write puts its symbol on the tape of SymbolFifo.
LEMMA LoggedPuts ==
    ASSUME IInv, MayWrite, NEW kind, NEW val, Logged(kind, val),
           [kind |-> kind, val |-> val] \in Symbol
    PROVE  Fifo!Put
  BY DEF Fifo!Put, MayWrite, Logged

\* A read takes the next symbol from the tape of SymbolFifo.
LEMMA GivesTakes ==
    ASSUME IInv, IInv', NEW kind, NEW val, Expects(kind), Gives(kind, val)
    PROVE  Fifo!Take
  <1>1. /\ got' = Append(got, [kind |-> kind, val |-> val])
        /\ tape' = tape /\ phase' = phase /\ phase = "read" /\ Len(got) < Len(tape)
        /\ got \in Seq(Symbol) /\ Len(got) \in Nat
    BY DEF Gives, Expects, IInv, TypeOK
  <1>2. /\ Len(got') = Len(got) + 1
        /\ got'[Len(got) + 1] = [kind |-> kind, val |-> val]
    BY <1>1
  <1>3. got'[Len(got) + 1] = tape[Len(got) + 1]
    BY <1>1, <1>2 DEF IInv, ReadBack
  <1> QED BY <1>1, <1>2, <1>3 DEF Fifo!Take

\* BitWriter with BitReader, or with BackwardBitReader on the reversed bytes,
\* implements the symbol tape: callers may ignore how symbols share bytes.
THEOREM ImplementsFifoHolds == Spec => ImplementsFifo
  <1>1. Init => Fifo!Init
    BY DEF Init, Fifo!Init
  <1>2. IInv /\ IInv' /\ [Next]_vars => [Fifo!Next]_Fifo!vars
    <2> SUFFICES ASSUME IInv, IInv', [Next]_vars PROVE [Fifo!Next]_Fifo!vars
      OBVIOUS
    <2>1. ASSUME NEW v \in Byte, WriteByte(v) PROVE Fifo!Put
      BY <2>1, LoggedPuts, SymbolFacts DEF WriteByte
    <2>2. ASSUME NEW v \in LsbByte, WriteLsb(v) PROVE Fifo!Put
      <3>1. [kind |-> "lsb", val |-> ShiftRight(v)] \in Symbol
        BY SymbolFacts
      <3> QED BY <2>2, <3>1, LoggedPuts DEF WriteLsb
    <2>3. ASSUME NEW v \in Bit, WriteBit(v) PROVE Fifo!Put
      BY <2>3, LoggedPuts, SymbolFacts DEF WriteBit
    <2>4. CASE Finish
      BY <2>4 DEF Finish, Fifo!Next, Fifo!Close
    <2>5. CASE ReadByte
      BY <2>5, GivesTakes DEF ReadByte, Fifo!Next
    <2>6. CASE ReadLsb
      BY <2>6, GivesTakes DEF ReadLsb, Fifo!Next
    <2>7. CASE ReadBit
      BY <2>7, GivesTakes DEF ReadBit, Fifo!Next
    <2>8. CASE UNCHANGED vars
      BY <2>8 DEF vars, Fifo!vars
    <2> QED BY <2>1, <2>2, <2>3, <2>4, <2>5, <2>6, <2>7, <2>8 DEF Next, Fifo!Next
  <1> QED BY <1>1, <1>2, SpecIInv, PTL DEF Spec, ImplementsFifo, Fifo!Spec
=============================================================================
