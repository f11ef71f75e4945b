------------------------- MODULE ByteAlignedProofs --------------------------
(***************************************************************************)
(* Proofs about the byte-aligned formats, BoltLZ and LZSA1, for            *)
(* every parse of every input: what the decoder makes of the stream is the *)
(* input, the parser's costs are those of the writer, and the gap is       *)
(* enough to decode in place.                                              *)
(*                                                                         *)
(* A decoder knows neither the input nor the parse.  The inductive         *)
(* invariant keeps both, as the marks between the units: what lies on the  *)
(* tape between two marks is a unit that stands for the input between      *)
(* them, and the decoder is at a mark, or behind the literals of a unit.   *)
(***************************************************************************)
EXTENDS ByteAligned, SequenceTheorems, Induction, TLAPS

-----------------------------------------------------------------------------
(* The stream.  Every symbol is a byte or a run, and says how many bytes a  *)
(* reader has consumed behind it.                                          *)

TapeByte == [kind : {"byte"}, val : Nat, ip : Nat]
TapeRun == [kind : {"run"}, val : Seq(Nat), ip : Nat]
SizeOf(sym) == IF sym.kind = "run" THEN Len(sym.val) ELSE 1
Writers == [bytes : Nat, left : {0}, back : BOOLEAN]
Behind(tp, p) == IF p = 0 THEN 0 ELSE tp[p].ip

TapeOf(tp, r) ==
    /\ tp \in Seq(TapeByte \cup TapeRun)
    /\ \A p \in 1 .. Len(tp) : tp[p].ip = Behind(tp, p - 1) + SizeOf(tp[p]) /\ tp[p].ip <= r.bytes
    /\ r \in Writers /\ ~r.back /\ r.bytes = Behind(tp, Len(tp))
TapeInv == TapeOf(tape, w)

\* What two bytes hold, and an offset as it is written.
Words == {v \in Nat : v <= 65535}
Negated(off) == 65536 - off
Octets == {v \in Nat : v <= 255}
WordOf(lo, hi) == lo + 256 * hi

\* What lies on the tape tp at p: the byte v, the bytes of s, the n bytes of the
\* input s from place l on.
HoldsByte(tp, p, v) == tp[p].kind = "byte" /\ tp[p].val = v
HoldsBytes(tp, p, s) == \A j \in 1 .. Len(s) : HoldsByte(tp, p + j - 1, s[j])
HoldsRun(tp, p, s, l, n) ==
    tp[p].kind = "run" /\ Len(tp[p].val) = n /\ \A j \in 1 .. n : tp[p].val[j] = s[l + j]

\* In the input s, the n bytes behind place l are those off before them.
Copies(s, l, off, n) ==
    off \in 1 .. l /\ \A j \in 1 .. n : s[l + j] = s[l - off + 1 + ((j - 1) % off)]

-----------------------------------------------------------------------------
(* The units between two marks, m and e: of BoltLZ ...                      *)

BoltLiteralsAt(tp, s, m, e) ==
    \E n \in 1 .. MAX_LIT :
        /\ e.len = m.len + n /\ e.tape = m.tape + 2
        /\ HoldsByte(tp, m.tape + 1, n) /\ HoldsRun(tp, m.tape + 2, s, m.len, n)

BoltMatchAt(tp, s, m, e) ==
    \E off \in SixteenBits, n \in MIN_MATCH .. MAX_MATCH :
        /\ e.len = m.len + n /\ e.tape = m.tape + 3
        /\ HoldsByte(tp, m.tape + 1, 128 + n - MIN_MATCH)
        /\ HoldsByte(tp, m.tape + 2, Negated(off) % 256)
        /\ HoldsByte(tp, m.tape + 3, Negated(off) \div 256)
        /\ Copies(s, m.len, off, n)

BoltUnitAt(tp, s, m, e) == BoltLiteralsAt(tp, s, m, e) \/ BoltMatchAt(tp, s, m, e)
BoltStopAt(tp, m, e) == e.len = m.len /\ e.tape = m.tape + 1 /\ HoldsByte(tp, m.tape + 1, 0)

(* ... and of LZSA1, in two parts, with b behind the literals.             *)

RunEnd(m, n) == m.tape + 2 + Len(LitVarlen(n)) + (IF n = 0 THEN 0 ELSE 1)

HeadAt(tp, s, m, n, token) ==
    /\ (token % 128) \div 16 = Smaller(n, LIT_RUN)
    /\ HoldsByte(tp, m.tape + 1, token)
    /\ HoldsBytes(tp, m.tape + 2, LitVarlen(n))
    /\ n > 0 => HoldsRun(tp, RunEnd(m, n) - 1, s, m.len, n)

OffsetSize(off) == IF Long(off) THEN 2 ELSE 1

MatchAt(tp, s, l, b, token, e) ==
    \E off \in SixteenBits, len \in SixteenBits :
        LET enc == len - MIN_MATCH
            c == b + OffsetSize(off) IN
        /\ len >= MIN_MATCH
        /\ (token >= 128) = Long(off) /\ token % 16 = Smaller(enc, MATCH_RUN)
        /\ HoldsByte(tp, b, Negated(off) % 256)
        /\ Long(off) => HoldsByte(tp, b + 1, (Negated(off) \div 256) % 256)
        /\ HoldsBytes(tp, c, MatchVarlen(enc))
        /\ Copies(s, l, off, len)
        /\ e.len = l + len /\ e.tape = c + Len(MatchVarlen(enc)) - 1

StopAt(tp, l, b, token, e) ==
    /\ token < 128 /\ token % 16 = MATCH_RUN
    /\ HoldsByte(tp, b, 0) /\ HoldsBytes(tp, b + 1, <<238, 0, 0>>)
    /\ e.len = l /\ e.tape = b + 3

RestAt(tp, s, l, b, token, e, stop) == IF stop THEN StopAt(tp, l, b, token, e) ELSE MatchAt(tp, s, l, b, token, e)

Lzsa1At(tp, s, m, e, stop) ==
    \E n \in Words, token \in Octets :
        /\ HeadAt(tp, s, m, n, token)
        /\ RestAt(tp, s, m.len + n, RunEnd(m, n), token, e, stop)

UnitAt(f, tp, s, m, e, stop) ==
    IF f = "bolt"
    THEN IF stop THEN BoltStopAt(tp, m, e) ELSE BoltUnitAt(tp, s, m, e)
    ELSE Lzsa1At(tp, s, m, e, stop)

\* The marks mk of a stream in format f; in phase ph, the last unit of it ends the
\* stream unless the encoder is still at work.
MarkOf == [len : Nat, last : {0}, bytes : Nat, tape : Nat]
MarksOf(f, ph, mk, tp, s) ==
    /\ mk \in Seq(MarkOf) /\ Len(mk) >= 1
    /\ ph = "encode" \/ Len(mk) >= 2
    /\ mk[1].len = 0 /\ mk[1].tape = 0
    /\ mk[Len(mk)].len = Len(s) /\ mk[Len(mk)].tape = Len(tp)
    /\ \A k \in 1 .. Len(mk) : mk[k].len <= Len(s) /\ mk[k].tape <= Len(tp)
    /\ \A k \in 1 .. Len(mk) - 1 : UnitAt(f, tp, s, mk[k], mk[k + 1], ph # "encode" /\ k = Len(mk) - 1)
MarksInv == MarksOf(trial.format, phase, marks, tape, input)

-----------------------------------------------------------------------------
(* The decoder stands at a mark, with the output of that mark, or has read *)
(* the literals of a command and has the rest of it before it.             *)

\* The output is the beginning of the input.
Begins(o, s) == Len(o) <= Len(s) /\ \A j \in 1 .. Len(o) : o[j] = s[j]

Ahead(o, tp, p) == Len(o) - Behind(tp, p - 1)
AtMark(k) == d_state = "Token" /\ d_last = 0 /\ rd = marks[k].tape + 1 /\ Len(out) = marks[k].len
InCommand(k) ==
    /\ trial.format = "lzsa1" /\ d_state = "Match" /\ d_last \in Octets /\ rd >= 1
    /\ RestAt(tape, input, Len(out), rd, d_last, marks[k + 1], k = Len(marks) - 1)
Standing(k) ==
    \/ AtMark(k) /\ peak <= Larger(max_gap, Ahead(out, tape, rd))
    \/ InCommand(k) /\ peak <= max_gap

ReaderInv ==
    /\ phase = "encode" => rd = 1 /\ out = <<>> /\ d_last = 0 /\ peak = 0 /\ max_gap = 0
    /\ phase # "encode" => Begins(out, input)
    /\ phase = "decode" => \E k \in 1 .. Len(marks) - 1 : Standing(k)
    /\ phase = "done" => Len(out) = Len(input) /\ rd = Len(tape) + 1 /\ peak <= max_gap

AlignedInv ==
    /\ trial \in Trials /\ trial.format \in {"bolt", "lzsa1"}
    /\ phase \in {"encode", "decode", "done"}
    /\ input \in Seq(Nat) /\ out \in Seq(Nat)
    /\ prev \in {"Start", "Literals", "Match"} /\ last = 0
    /\ rd \in Nat /\ d_last \in Octets /\ max_gap \in Int /\ peak \in Int
    /\ predicted \in Int
    /\ phase = "encode" => predicted = 8 * w.bytes
    /\ TapeInv /\ MarksInv /\ ReaderInv

-----------------------------------------------------------------------------
(* What is written.                                                        *)

\* The recursive functions of Fold, as far as they are worked out.
IsMore(f, wr, s, m) == f = [k \in 0 .. m |-> IF k = 0 THEN wr ELSE PutOn(f[k - 1], s[k])]
IsTotal(f, s, m) == f = [k \in 0 .. m |-> IF k = 0 THEN 0 ELSE f[k - 1] + BitsOf(s[k])]

\* They exist.
LEMMA MoreExists == ASSUME NEW wr, NEW s PROVE \A m \in Nat : \E f : IsMore(f, wr, s, m)
<1> DEFINE Bad == {m \in Nat : ~ \E f : IsMore(f, wr, s, m)}
<1>1. ASSUME Bad # {} PROVE FALSE
    <2>1. PICK m \in Bad : \A y \in Bad : m <= y
      <3>1. Bad \in SUBSET Nat
        OBVIOUS
      <3> HIDE DEF Bad
      <3> QED BY <1>1, <3>1, LeastNatural
    <2>2. \E f : IsMore(f, wr, s, m)
      <3>1. CASE m = 0
        <4> DEFINE f == [k \in 0 .. m |-> wr]
        <4>1. \A k \in 0 .. m : k = 0
          BY <3>1
        <4>2. f = [k \in 0 .. m |-> IF k = 0 THEN wr ELSE PutOn(f[k - 1], s[k])]
          BY <4>1
        <4> QED BY <4>2 DEF IsMore
      <3>2. CASE m # 0
        <4>1. m \in Nat /\ m - 1 \in Nat /\ ~(m <= m - 1)
          BY <2>1, <3>2
        <4>2. PICK g : IsMore(g, wr, s, m - 1)
          BY <2>1, <4>1
        <4>3. g = [k \in 0 .. (m - 1) |-> IF k = 0 THEN wr ELSE PutOn(g[k - 1], s[k])]
          BY <4>2 DEF IsMore
        <4> DEFINE f == [k \in 0 .. m |-> IF k = 0 THEN wr ELSE PutOn(g[k - 1], s[k])]
        <4>4. ASSUME NEW k \in 0 .. m, k # 0 PROVE f[k - 1] = g[k - 1]
          <5>1. k - 1 \in 0 .. (m - 1) /\ k - 1 \in 0 .. m
            BY <4>1, <4>4
          <5>2. f[k - 1] = IF k - 1 = 0 THEN wr ELSE PutOn(g[(k - 1) - 1], s[k - 1])
            BY <5>1
          <5>3. g[k - 1] = IF k - 1 = 0 THEN wr ELSE PutOn(g[(k - 1) - 1], s[k - 1])
            BY <4>3, <5>1
          <5> QED BY <5>2, <5>3
        <4>5. ASSUME NEW k \in 0 .. m
              PROVE  (IF k = 0 THEN wr ELSE PutOn(g[k - 1], s[k])) =
                         (IF k = 0 THEN wr ELSE PutOn(f[k - 1], s[k]))
          <5> HIDE DEF f
          <5> QED BY <4>4
        <4>6. f = [k \in 0 .. m |-> IF k = 0 THEN wr ELSE PutOn(f[k - 1], s[k])]
          BY <4>5
        <4> HIDE DEF f
        <4> QED BY <4>6 DEF IsMore
      <3> QED BY <3>1, <3>2
    <2> QED BY <2>1, <2>2
<1> QED BY <1>1

LEMMA TotalExists == ASSUME NEW s PROVE \A m \in Nat : \E f : IsTotal(f, s, m)
<1> DEFINE Bad == {m \in Nat : ~ \E f : IsTotal(f, s, m)}
<1>1. ASSUME Bad # {} PROVE FALSE
    <2>1. PICK m \in Bad : \A y \in Bad : m <= y
      <3>1. Bad \in SUBSET Nat
        OBVIOUS
      <3> HIDE DEF Bad
      <3> QED BY <1>1, <3>1, LeastNatural
    <2>2. \E f : IsTotal(f, s, m)
      <3>1. CASE m = 0
        <4> DEFINE f == [k \in 0 .. m |-> 0]
        <4>1. \A k \in 0 .. m : k = 0
          BY <3>1
        <4>2. f = [k \in 0 .. m |-> IF k = 0 THEN 0 ELSE f[k - 1] + BitsOf(s[k])]
          BY <4>1
        <4> QED BY <4>2 DEF IsTotal
      <3>2. CASE m # 0
        <4>1. m \in Nat /\ m - 1 \in Nat /\ ~(m <= m - 1)
          BY <2>1, <3>2
        <4>2. PICK g : IsTotal(g, s, m - 1)
          BY <2>1, <4>1
        <4>3. g = [k \in 0 .. (m - 1) |-> IF k = 0 THEN 0 ELSE g[k - 1] + BitsOf(s[k])]
          BY <4>2 DEF IsTotal
        <4> DEFINE f == [k \in 0 .. m |-> IF k = 0 THEN 0 ELSE g[k - 1] + BitsOf(s[k])]
        <4>4. ASSUME NEW k \in 0 .. m, k # 0 PROVE f[k - 1] = g[k - 1]
          <5>1. k - 1 \in 0 .. (m - 1) /\ k - 1 \in 0 .. m
            BY <4>1, <4>4
          <5>2. f[k - 1] = IF k - 1 = 0 THEN 0 ELSE g[(k - 1) - 1] + BitsOf(s[k - 1])
            BY <5>1
          <5>3. g[k - 1] = IF k - 1 = 0 THEN 0 ELSE g[(k - 1) - 1] + BitsOf(s[k - 1])
            BY <4>3, <5>1
          <5> QED BY <5>2, <5>3
        <4>5. ASSUME NEW k \in 0 .. m
              PROVE  (IF k = 0 THEN 0 ELSE g[k - 1] + BitsOf(s[k])) =
                         (IF k = 0 THEN 0 ELSE f[k - 1] + BitsOf(s[k]))
          <5> HIDE DEF f
          <5> QED BY <4>4
        <4>6. f = [k \in 0 .. m |-> IF k = 0 THEN 0 ELSE f[k - 1] + BitsOf(s[k])]
          BY <4>5
        <4> HIDE DEF f
        <4> QED BY <4>6 DEF IsTotal
      <3> QED BY <3>1, <3>2
    <2> QED BY <2>1, <2>2
<1> QED BY <1>1

\* A list of symbols that are bytes, but for one at r that is a run of n bytes;
\* none is where r is 0.
Symbol(r, n, j, sym) ==
    IF j = r THEN sym.kind = "run" /\ sym.val \in Seq(Nat) /\ Len(sym.val) = n
    ELSE sym.kind = "byte" /\ sym.val \in Nat
Symbols(s, r, n) ==
    /\ Len(s) \in Nat /\ r \in 0 .. Len(s) /\ n \in Nat
    /\ \A j \in 1 .. Len(s) : Symbol(r, n, j, s[j])
\* The bytes the first j of them take.
Taken(r, n, j) == IF r # 0 /\ j >= r THEN j - 1 + n ELSE j
OnTape(sym, ip) == [kind |-> sym.kind, val |-> sym.val, ip |-> ip]

\* One more symbol.
LEMMA PutOne ==
    ASSUME NEW wr, NEW r, r \in Writers, ~r.back, wr.w = r, NEW sym, NEW n \in Nat,
           \/ sym.kind = "run" /\ Len(sym.val) = n
           \/ sym.kind = "byte" /\ n = 1
    PROVE  \E q : /\ q \in Writers /\ ~q.back /\ q.bytes = r.bytes + n
                  /\ PutOn(wr, sym) = [w |-> q, tape |-> Append(wr.tape, OnTape(sym, r.bytes + n))]
<1>1. PICK q : q = Put(r, sym)
    OBVIOUS
<1>2. PICK mid : mid = [r EXCEPT !.bytes = r.bytes + n]
    OBVIOUS
<1>3. mid \in Writers /\ mid.bytes = r.bytes + n
    <2>1. mid \in Writers
      BY <1>2 DEF Writers
    <2>2. mid.bytes = r.bytes + n
      BY <1>2 DEF Writers
    <2> QED BY <2>1, <2>2
<1>4. q = [mid EXCEPT !.back = FALSE]
    <2>1. CASE sym.kind = "run"
      <3>1. q = [[r EXCEPT !.bytes = r.bytes + Len(sym.val)] EXCEPT !.back = FALSE]
        BY <1>1, <2>1 DEF Put
      <3>2. Len(sym.val) = n
        BY <2>1
      <3> QED BY <1>2, <3>1, <3>2, Zenon
    <2>2. CASE sym.kind = "byte"
      <3>1. q = [[r EXCEPT !.bytes = r.bytes + 1] EXCEPT !.back = sym.kind = "lsb"]
        BY <1>1, <2>2 DEF Put
      <3>2. (sym.kind = "lsb") = FALSE /\ n = 1
        BY <2>2
      <3> QED BY <1>2, <3>1, <3>2, Zenon
    <2> QED BY <2>1, <2>2
<1>5. q \in Writers
    BY <1>3, <1>4 DEF Writers
<1>6. ~q.back
    BY <1>3, <1>4 DEF Writers
<1>7. q.bytes = r.bytes + n
    <2>1. q.bytes = mid.bytes
      BY <1>3, <1>4 DEF Writers
    <2> QED BY <1>3, <2>1
<1>8. PutOn(wr, sym) = [w |-> q, tape |-> Append(wr.tape, [kind |-> sym.kind, val |-> sym.val, ip |-> q.bytes])]
    BY <1>1, Zenon DEF PutOn
<1>9. PutOn(wr, sym) = [w |-> q, tape |-> Append(wr.tape, OnTape(sym, r.bytes + n))]
    BY <1>7, <1>8, Zenon DEF OnTape
<1> QED BY <1>5, <1>6, <1>7, <1>9, Zenon

\* What is on the tape tp when a writer with b bytes has written j symbols.
LaidUpto(tp, b, s, at, n, wr, j) ==
    /\ wr.w \in Writers /\ ~wr.w.back /\ wr.w.bytes = b + Taken(at, n, j)
    /\ wr.tape \in Seq(TapeByte \cup TapeRun) /\ Len(wr.tape) = Len(tp) + j
    /\ \A p \in 1 .. Len(tp) : wr.tape[p] = tp[p]
    /\ \A i \in 1 .. j : wr.tape[Len(tp) + i] = OnTape(s[i], b + Taken(at, n, i))

\* One more symbol is laid behind those that are.
LEMMA LaidOne ==
    ASSUME NEW tp, tp \in Seq(TapeByte \cup TapeRun), NEW b \in Nat, NEW s, NEW at, NEW n,
           Symbols(s, at, n), NEW j \in 1 .. Len(s), NEW wr, LaidUpto(tp, b, s, at, n, wr, j - 1)
    PROVE  LaidUpto(tp, b, s, at, n, PutOn(wr, s[j]), j)
<1>1. j \in Nat /\ at \in Nat /\ n \in Nat /\ Symbol(at, n, j, s[j]) /\ Len(tp) \in Nat
    BY LenProperties DEF Symbols
<1>2. PICK size : size = IF j = at THEN n ELSE 1
    OBVIOUS
<1>3. size \in Nat
    BY <1>1, <1>2
<1>4. Taken(at, n, j) = Taken(at, n, j - 1) + size /\ Taken(at, n, j - 1) \in Nat /\ Taken(at, n, j) \in Nat
    BY <1>1, <1>2 DEF Taken
<1>5. PICK r : r = wr.w
    OBVIOUS
<1>6. PICK t : t = wr.tape
    OBVIOUS
<1>7. r \in Writers /\ ~r.back /\ r.bytes = b + Taken(at, n, j - 1)
    BY <1>5 DEF LaidUpto
<1>8. PICK sym : sym = s[j]
    OBVIOUS
<1>9. \/ sym.kind = "run" /\ Len(sym.val) = size
      \/ sym.kind = "byte" /\ size = 1
    BY <1>1, <1>2, <1>8 DEF Symbol
<1>10. PICK q : /\ q \in Writers /\ ~q.back /\ q.bytes = r.bytes + size
                /\ PutOn(wr, sym) = [w |-> q, tape |-> Append(wr.tape, OnTape(sym, r.bytes + size))]
    BY <1>3, <1>5, <1>7, <1>9, PutOne
<1>11. PICK ip : ip = r.bytes + size
    OBVIOUS
<1>12. ip = b + Taken(at, n, j) /\ ip \in Nat
    <2>1. r.bytes = b + Taken(at, n, j - 1)
      BY <1>7
    <2>2. PICK a : a = Taken(at, n, j - 1)
      OBVIOUS
    <2>3. PICK c : c = Taken(at, n, j)
      OBVIOUS
    <2>4. c = a + size /\ a \in Nat /\ ip = (b + a) + size
      BY <1>4, <1>11, <2>1, <2>2, <2>3
    <2>5. b \in Nat
      OBVIOUS
    <2>6. ip = b + c /\ ip \in Nat
      BY <1>3, <2>4, <2>5
    <2> QED BY <2>3, <2>6
<1>13. PICK x : x = OnTape(sym, ip)
    OBVIOUS
<1>14. x \in TapeByte \cup TapeRun
    <2>1. \/ sym.kind = "byte" /\ sym.val \in Nat
          \/ sym.kind = "run" /\ sym.val \in Seq(Nat)
      BY <1>1, <1>8 DEF Symbol
    <2>2. CASE sym.kind = "byte" /\ sym.val \in Nat
      BY <1>12, <1>13, <2>2 DEF OnTape, TapeByte
    <2>3. CASE sym.kind = "run" /\ sym.val \in Seq(Nat)
      BY <1>12, <1>13, <2>3 DEF OnTape, TapeRun
    <2> QED BY <2>1, <2>2, <2>3
<1>15. /\ t \in Seq(TapeByte \cup TapeRun) /\ Len(t) = Len(tp) + (j - 1)
       /\ \A p \in 1 .. Len(tp) : t[p] = tp[p]
       /\ \A i \in 1 .. (j - 1) : t[Len(tp) + i] = OnTape(s[i], b + Taken(at, n, i))
    BY <1>6 DEF LaidUpto
<1>16. PICK u : u = Append(t, x)
    BY Zenon
<1>17. u \in Seq(TapeByte \cup TapeRun) /\ Len(u) = Len(tp) + j
    BY <1>1, <1>14, <1>15, <1>16, AppendProperties
<1>18. \A p \in 1 .. Len(t) : u[p] = t[p]
    BY <1>14, <1>15, <1>16, AppendProperties
<1>19. u[Len(tp) + j] = x
    <2>1. u[Len(t) + 1] = x
      BY <1>14, <1>15, <1>16, AppendProperties
    <2>2. Len(t) + 1 = Len(tp) + j
      BY <1>1, <1>15
    <2> QED BY <2>1, <2>2
<1>20. \A p \in 1 .. Len(tp) : u[p] = tp[p]
    <2>1. \A p \in 1 .. Len(tp) : p \in 1 .. Len(t)
      BY <1>1, <1>15
    <2> QED BY <1>15, <1>18, <2>1, SMTT(30)
<1>21. \A i \in 1 .. j : u[Len(tp) + i] = OnTape(s[i], b + Taken(at, n, i))
    <2> SUFFICES ASSUME NEW i \in 1 .. j PROVE u[Len(tp) + i] = OnTape(s[i], b + Taken(at, n, i))
      OBVIOUS
    <2>1. CASE i = j
      BY <1>8, <1>12, <1>13, <1>19, <2>1
    <2>2. CASE i # j
      <3>1. PICK lt : lt = Len(t)
        OBVIOUS
      <3>2. PICK lp : lp = Len(tp)
        OBVIOUS
      <3>3. lt = lp + (j - 1) /\ lp \in Nat /\ j \in Nat
        BY <1>1, <1>15, <3>1, <3>2, Zenon
      <3>4. i \in 1 .. (j - 1) /\ lp + i \in 1 .. lt
        BY <2>2, <3>3, SMT
      <3>5. Len(tp) + i \in 1 .. Len(t)
        BY <3>1, <3>2, <3>4, Zenon
      <3> QED BY <1>15, <1>18, <3>4, <3>5, Zenon
    <2> QED BY <2>1, <2>2
<1>22. PutOn(wr, s[j]) = [w |-> q, tape |-> u]
    BY <1>6, <1>8, <1>10, <1>11, <1>13, <1>16, Zenon
<1>23. PICK v : v = PutOn(wr, s[j])
    OBVIOUS
<1>24. v.w = q /\ v.tape = u
    BY <1>22, <1>23
<1>25. q.bytes = b + Taken(at, n, j)
    BY <1>10, <1>11, <1>12
<1>26. LaidUpto(tp, b, s, at, n, v, j)
    BY <1>10, <1>17, <1>20, <1>21, <1>24, <1>25, Zenon DEF LaidUpto
<1> QED BY <1>23, <1>26, Zenon

\* All of them.
LEMMA MoreLays ==
    ASSUME NEW tp, tp \in Seq(TapeByte \cup TapeRun), NEW r, r \in Writers, ~r.back,
           NEW s, NEW at, NEW n, Symbols(s, at, n)
    PROVE  LaidUpto(tp, r.bytes, s, at, n, More([w |-> r, tape |-> tp], s), Len(s))
<1> DEFINE m == Len(s)
           wr == [w |-> r, tape |-> tp]
           f == CHOOSE g : IsMore(g, wr, s, m)
<1>1. m \in Nat /\ at \in Nat /\ n \in Nat /\ at <= m
    BY DEF Symbols
<1>2. IsMore(f, wr, s, m)
    <2> HIDE DEF wr, m
    <2>1. \A k \in Nat : \E g : IsMore(g, wr, s, k)
      BY MoreExists
    <2>2. \E g : IsMore(g, wr, s, m)
      BY <1>1, <2>1
    <2> QED BY <2>2
<1>3. More(wr, s) = f[m]
    <2> HIDE DEF wr
    <2> QED BY DEF More, Fold, IsMore
<1> HIDE DEF f
<1>4. \A j \in 0 .. m : f[j] = IF j = 0 THEN wr ELSE PutOn(f[j - 1], s[j])
    <2> HIDE DEF wr, m
    <2> QED BY <1>2 DEF IsMore
<1>5. r.bytes \in Nat
    BY DEF Writers
<1>6. LaidUpto(tp, r.bytes, s, at, n, f[0], 0)
    <2>1. f[0] = wr
      <3> HIDE DEF wr, m
      <3> QED BY <1>1, <1>4
    <2>2. PICK v : v = wr
      OBVIOUS
    <2>3. v.w = r /\ v.tape = tp
      BY <2>2
    <2>4. Taken(at, n, 0) = 0
      BY <1>1 DEF Taken
    <2>5. Len(tp) \in Nat /\ Len(tp) = Len(tp) + 0 /\ r.bytes = r.bytes + Taken(at, n, 0)
      BY <1>5, <2>4, LenProperties
    <2>6. \A i \in 1 .. 0 : FALSE
      OBVIOUS
    <2>7. LaidUpto(tp, r.bytes, s, at, n, v, 0)
      BY <2>3, <2>5, <2>6, Zenon DEF LaidUpto
    <2> QED BY <2>1, <2>2, <2>7, Zenon
<1> DEFINE Bad == {j \in Nat : j <= m /\ ~LaidUpto(tp, r.bytes, s, at, n, f[j], j)}
<1> HIDE DEF wr, m
<1>7. ASSUME Bad # {} PROVE FALSE
    <2>1. PICK j \in Bad : \A y \in Bad : j <= y
      <3>1. Bad \in SUBSET Nat
        OBVIOUS
      <3> HIDE DEF Bad
      <3> QED BY <1>7, <3>1, LeastNatural
    <2>2. j \in Nat /\ j <= m /\ ~LaidUpto(tp, r.bytes, s, at, n, f[j], j)
      BY <2>1
    <2>3. j # 0
      BY <1>6, <2>2
    <2>4. j - 1 \in Nat /\ j - 1 <= m /\ j \in 1 .. m /\ j \in 0 .. m /\ ~(j <= j - 1)
      BY <1>1, <2>2, <2>3
    <2>5. LaidUpto(tp, r.bytes, s, at, n, f[j - 1], j - 1)
      BY <2>1, <2>4
    <2>6. f[j] = PutOn(f[j - 1], s[j])
      BY <1>4, <2>3, <2>4
    <2>7. LaidUpto(tp, r.bytes, s, at, n, PutOn(f[j - 1], s[j]), j)
      BY <1>5, <2>4, <2>5, LaidOne DEF m
    <2> QED BY <2>2, <2>6, <2>7
<1>8. m \notin Bad
    BY <1>7
<1> QED BY <1>1, <1>3, <1>8 DEF m, wr

\* The bits of a tape of bytes and runs.
LEMMA TapeTotal == TapeInv => TapeBits = 8 * w.bytes
<1> SUFFICES ASSUME TapeInv PROVE TapeBits = 8 * w.bytes
    OBVIOUS
<1> DEFINE m == Len(tape)
           f == CHOOSE g : IsTotal(g, tape, m)
<1>1. m \in Nat /\ \A p \in 1 .. m : tape[p] \in TapeByte \cup TapeRun
    BY LenProperties, ElementOfSeq DEF TapeInv, TapeOf
<1>2. IsTotal(f, tape, m)
    <2> HIDE DEF m
    <2>1. \E g : IsTotal(g, tape, m)
      BY <1>1, TotalExists
    <2> QED BY <2>1
<1>3. TapeBits = f[m]
    BY DEF TapeBits, Fold, IsTotal
<1> HIDE DEF f, m
<1>4. \A j \in 0 .. m : f[j] = IF j = 0 THEN 0 ELSE f[j - 1] + BitsOf(tape[j])
    BY <1>2, Zenon DEF IsTotal
<1>5. \A p \in 1 .. m : BitsOf(tape[p]) = 8 * SizeOf(tape[p]) /\ SizeOf(tape[p]) \in Nat
    <2> SUFFICES ASSUME NEW p \in 1 .. m
                 PROVE  BitsOf(tape[p]) = 8 * SizeOf(tape[p]) /\ SizeOf(tape[p]) \in Nat
      OBVIOUS
    <2>1. PICK sym : sym = tape[p]
      OBVIOUS
    <2>2. CASE sym \in TapeByte
      <3>1. sym.kind = "byte"
        BY <2>2 DEF TapeByte
      <3> QED BY <2>1, <3>1 DEF BitsOf, SizeOf
    <2>3. CASE sym \in TapeRun
      <3>1. sym.kind = "run" /\ sym.val \in Seq(Nat)
        BY <2>3 DEF TapeRun
      <3>2. Len(sym.val) \in Nat
        BY <3>1, LenProperties
      <3> QED BY <2>1, <3>1, <3>2 DEF BitsOf, SizeOf
    <2> QED BY <1>1, <2>1, <2>2, <2>3
<1>6. \A p \in 1 .. m : tape[p].ip = Behind(tape, p - 1) + SizeOf(tape[p]) /\ tape[p].ip \in Nat
    <2>1. \A p \in 1 .. m : tape[p].ip = Behind(tape, p - 1) + SizeOf(tape[p])
      BY DEF TapeInv, TapeOf, m
    <2>2. \A p \in 1 .. m : tape[p].ip \in Nat
      BY <1>1 DEF TapeByte, TapeRun
    <2> QED BY <2>1, <2>2
<1> DEFINE Bad == {j \in Nat : j <= m /\ f[j] # 8 * Behind(tape, j)}
<1>7. ASSUME Bad # {} PROVE FALSE
    <2>1. PICK j \in Bad : \A y \in Bad : j <= y
      <3>1. Bad \in SUBSET Nat
        OBVIOUS
      <3> HIDE DEF Bad
      <3> QED BY <1>7, <3>1, LeastNatural
    <2>2. j \in Nat /\ j <= m /\ f[j] # 8 * Behind(tape, j)
      BY <2>1
    <2>3. j # 0
      <3> SUFFICES ASSUME j = 0 PROVE FALSE
        OBVIOUS
      <3>1. f[0] = 0 /\ Behind(tape, 0) = 0
        BY <1>1, <1>4 DEF Behind
      <3> QED BY <2>2, <3>1
    <2>4. j - 1 \in Nat /\ j - 1 <= m /\ j \in 1 .. m /\ j \in 0 .. m /\ ~(j <= j - 1)
      BY <1>1, <2>2, <2>3
    <2>5. f[j - 1] = 8 * Behind(tape, j - 1)
      BY <2>1, <2>4
    <2>6. f[j] = f[j - 1] + 8 * SizeOf(tape[j]) /\ SizeOf(tape[j]) \in Nat
      BY <1>4, <1>5, <2>3, <2>4
    <2>7. Behind(tape, j) = tape[j].ip
      BY <2>3 DEF Behind
    <2>8. tape[j].ip = Behind(tape, j - 1) + SizeOf(tape[j])
      BY <1>6, <2>4
    <2>9. Behind(tape, j - 1) \in Nat
      <3>1. CASE j - 1 = 0
        BY <3>1 DEF Behind
      <3>2. CASE j - 1 # 0
        BY <1>6, <2>4, <3>2 DEF Behind
      <3> QED BY <3>1, <3>2
    <2> QED BY <2>2, <2>5, <2>6, <2>7, <2>8, <2>9
<1>8. f[m] = 8 * Behind(tape, m)
    <2>1. m \notin Bad
      BY <1>7
    <2> QED BY <1>1, <2>1
<1>9. w.bytes = Behind(tape, m)
    BY DEF TapeInv, TapeOf, m
<1> QED BY <1>3, <1>8, <1>9

-----------------------------------------------------------------------------
(* Short lists, and what the lengths are written as.                       *)

LEMMA NoBytes ==
    ASSUME NEW s, s = <<>>
    PROVE  s \in Seq(Nat) /\ Len(s) = 0
BY SMT

LEMMA OneByte ==
    ASSUME NEW x \in Nat, NEW s, s = <<x>>
    PROVE  s \in Seq(Nat) /\ Len(s) = 1 /\ s[1] = x
BY SMT

LEMMA TwoBytes ==
    ASSUME NEW x \in Nat, NEW y \in Nat, NEW s, s = <<x, y>>
    PROVE  s \in Seq(Nat) /\ Len(s) = 2 /\ s[1] = x /\ s[2] = y
BY SMT

LEMMA ThreeBytes ==
    ASSUME NEW x \in Nat, NEW y \in Nat, NEW z \in Nat, NEW s, s = <<x>> \o <<y, z>> \/ s = <<x, y, z>>
    PROVE  s \in Seq(Nat) /\ Len(s) = 3 /\ s[1] = x /\ s[2] = y /\ s[3] = z
<1>1. CASE s = <<x>> \o <<y, z>>
    BY <1>1, SMT
<1>2. CASE s = <<x, y, z>>
    BY <1>2, SMT
<1> QED BY <1>1, <1>2

\* Sixteen bits are two bytes.
LEMMA WordIs ==
    ASSUME NEW v \in Words
    PROVE  \E lo \in Octets, hi \in Octets :
               v % 256 = lo /\ v \div 256 = hi /\ hi % 256 = hi /\ WordOf(lo, hi) = v
<1>1. v \in Int /\ 0 <= v /\ v <= 65535
    BY SMT DEF Words
<1>2. PICK lo : lo = v % 256
    OBVIOUS
<1>3. PICK hi : hi = v \div 256
    OBVIOUS
<1>4. lo \in Int /\ 0 <= lo /\ lo <= 255 /\ hi \in Int
    BY <1>1, <1>2, <1>3, SMT
<1>5. lo + 256 * hi = v
    BY <1>1, <1>2, <1>3, SMT
<1>6. 0 <= hi /\ hi <= 255
    BY <1>1, <1>4, <1>5, SMT
<1>7. hi % 256 = hi
    BY <1>4, <1>6, SMT
<1>8. lo \in Octets /\ hi \in Octets
    BY <1>4, <1>6, SMT DEF Octets
<1>9. WordOf(lo, hi) = v
    BY <1>5 DEF WordOf
<1> QED BY <1>2, <1>3, <1>7, <1>8, <1>9

LEMMA OctetIs == ASSUME NEW v \in Octets PROVE v \in Nat /\ v <= 255
BY SMT DEF Octets

Escaped(s, x, v) ==
    \E lo \in Octets, hi \in Octets :
        /\ WordOf(lo, hi) = v
        /\ s \in Seq(Nat) /\ Len(s) = 3 /\ s[1] = x /\ s[2] = lo /\ s[3] = hi

LEMMA EscapedWord == ASSUME NEW v \in Words, NEW x \in Nat PROVE Escaped(<<x>> \o Word(v), x, v)
<1>0. PICK s : s = <<x>> \o Word(v)
    OBVIOUS
<1>1. PICK lo \in Octets, hi \in Octets :
          v % 256 = lo /\ v \div 256 = hi /\ hi % 256 = hi /\ WordOf(lo, hi) = v
    BY WordIs
<1>2. Word(v) = <<lo, hi>>
    <2>1. v % 256 = lo /\ (v \div 256) % 256 = hi
      BY <1>1
    <2> QED BY <2>1 DEF Word
<1>3. s = <<x>> \o <<lo, hi>>
    BY <1>0, <1>2
<1>4. lo \in Nat /\ hi \in Nat
    BY OctetIs
<1>5. s \in Seq(Nat) /\ Len(s) = 3 /\ s[1] = x /\ s[2] = lo /\ s[3] = hi
    <2>0. PICK u : u = <<x>>
      OBVIOUS
    <2>1. u \in Seq(Nat) /\ Len(u) = 1 /\ u[1] = x
      BY <2>0, OneByte
    <2>2. PICK t : t = <<lo, hi>>
      OBVIOUS
    <2>3. t \in Seq(Nat) /\ Len(t) = 2 /\ t[1] = lo /\ t[2] = hi
      BY <1>4, <2>2, TwoBytes
    <2>4. s = u \o t
      BY <1>3, <2>0, <2>2
    <2>7. /\ u \o t \in Seq(Nat) /\ Len(u \o t) = Len(u) + Len(t)
          /\ \A i \in 1 .. (Len(u) + Len(t)) : (u \o t)[i] = IF i <= Len(u) THEN u[i] ELSE t[i - Len(u)]
      BY <2>1, <2>3, ConcatProperties, Zenon
    <2>5. /\ s \in Seq(Nat) /\ Len(s) = Len(u) + Len(t)
          /\ \A i \in 1 .. (Len(u) + Len(t)) : s[i] = IF i <= Len(u) THEN u[i] ELSE t[i - Len(u)]
      BY <2>4, <2>7, Zenon
    <2>6. Len(s) = 3 /\ s[1] = u[1] /\ s[2] = t[1] /\ s[3] = t[2]
      BY <2>1, <2>3, <2>5
    <2> QED BY <2>1, <2>3, <2>5, <2>6
<1>6. Escaped(s, x, v)
    BY <1>1, <1>5 DEF Escaped
<1> QED BY <1>0, <1>6, Zenon

LEMMA SizeOfThree ==
    ASSUME NEW a \in Nat, NEW b \in Nat, NEW c \in Nat, a < b, b < c
    PROVE  /\ Cardinality({}) = 0 /\ Cardinality({a}) = 1
           /\ Cardinality({a, b}) = 2 /\ Cardinality({a, b, c}) = 3
<1>1. Cardinality({}) = 0
    BY FS_EmptySet
<1>2. IsFiniteSet({a}) /\ Cardinality({a}) = 1
    BY FS_Singleton
<1>0. a # b /\ a # c /\ b # c
    BY SMT
<1>3. {a, b} = {a} \cup {b} /\ {a, b, c} = {a, b} \cup {c} /\ b \notin {a} /\ c \notin {a, b}
    BY <1>0
<1>4. IsFiniteSet({a, b}) /\ Cardinality({a, b}) = Cardinality({a}) + 1
    BY <1>2, <1>3, FS_AddElement
<1>5. Cardinality({a, b, c}) = Cardinality({a, b}) + 1
    BY <1>3, <1>4, FS_AddElement
<1> QED BY <1>1, <1>2, <1>4, <1>5

\* The parser's eight bits for every byte behind the token.
LEMMA Bumps ==
    ASSUME NEW n \in Nat
    PROVE  LitBumps(n) = IF n < 7 THEN 0 ELSE IF n < 256 THEN 8 ELSE IF n < 512 THEN 16 ELSE 24
<1>1. PICK a, b, c : a = 7 /\ b = 256 /\ c = 512
    OBVIOUS
<1>2. a \in Nat /\ b \in Nat /\ c \in Nat /\ a < b /\ b < c
    BY <1>1, SMT
<1>3. /\ Cardinality({}) = 0 /\ Cardinality({a}) = 1
      /\ Cardinality({a, b}) = 2 /\ Cardinality({a, b, c}) = 3
    BY <1>2, SizeOfThree
<1>4. LitBumps(n) = 8 * Cardinality({d \in {a, b, c} : n >= d})
    BY <1>1 DEF LitBumps, LIT_RUN
<1>5. CASE n < 7
    <2>1. {d \in {a, b, c} : n >= d} = {}
      BY <1>1, <1>5, SMT
    <2> QED BY <1>3, <1>4, <1>5, <2>1, SMT
<1>6. CASE n >= 7 /\ n < 256
    <2>1. {d \in {a, b, c} : n >= d} = {a}
      BY <1>1, <1>6, SMT
    <2> QED BY <1>3, <1>4, <1>6, <2>1, SMT
<1>7. CASE n >= 256 /\ n < 512
    <2>1. {d \in {a, b, c} : n >= d} = {a, b}
      BY <1>1, <1>7, SMT
    <2> QED BY <1>3, <1>4, <1>7, <2>1, SMT
<1>8. CASE n >= 512
    <2>1. {d \in {a, b, c} : n >= d} = {a, b, c}
      BY <1>1, <1>8, SMT
    <2> QED BY <1>3, <1>4, <1>8, <2>1, SMT
<1> QED BY <1>5, <1>6, <1>7, <1>8, SMT

\* A length v as it is spelled behind the token: not at all below t, in one byte
\* below 256, with the escapes e and f in two and in three.
InToken(v, t, s) == v < t /\ Len(s) = 0
InOne(v, t, s) == v >= t /\ v < 256 /\ Len(s) = 1 /\ s[1] = v - t
InTwo(v, e, s) == v >= 256 /\ v < 512 /\ Len(s) = 2 /\ s[1] = e /\ s[2] = v - 256
InThree(v, f, s) ==
    v >= 512 /\ Len(s) = 3 /\ s[1] = f /\ s[2] \in Octets /\ s[3] \in Octets /\ WordOf(s[2], s[3]) = v
Spelled(v, t, e, f, s) == InToken(v, t, s) \/ InOne(v, t, s) \/ InTwo(v, e, s) \/ InThree(v, f, s)

Spelling(v, t, e, f) ==
    IF v < t THEN <<>> ELSE IF v < 256 THEN <<v - t>> ELSE IF v < 512 THEN <<e, v - 256>> ELSE <<f>> \o Word(v)
Behind256(v, t) == IF v < t THEN 0 ELSE IF v < 256 THEN 8 ELSE IF v < 512 THEN 16 ELSE 24

LEMMA SpellingIs ==
    ASSUME NEW v \in Words, NEW t \in Nat, t < 256, NEW e \in Nat, NEW f \in Nat,
           NEW s, s = Spelling(v, t, e, f)
    PROVE  s \in Seq(Nat) /\ Len(s) \in 0 .. 3 /\ 8 * Len(s) = Behind256(v, t) /\ Spelled(v, t, e, f, s)
<1>0. v \in Nat
    BY SMT DEF Words
<1>1. CASE v < t
    <2>1. s = <<>> /\ Behind256(v, t) = 0
      BY <1>1 DEF Spelling, Behind256
    <2>2. s \in Seq(Nat) /\ Len(s) = 0
      BY <2>1
    <2>3. InToken(v, t, s)
      BY <1>1, <2>2 DEF InToken
    <2> QED BY <2>1, <2>2, <2>3 DEF Spelled
<1>2. CASE v >= t /\ v < 256
    <2>1. ~(v < t) /\ v - t \in Nat
      BY <1>0, <1>2
    <2>2. s = <<v - t>> /\ Behind256(v, t) = 8
      BY <1>2, <2>1 DEF Spelling, Behind256
    <2>3. s \in Seq(Nat) /\ Len(s) = 1 /\ s[1] = v - t
      BY <2>1, <2>2
    <2>4. InOne(v, t, s)
      BY <1>2, <2>3 DEF InOne
    <2> QED BY <2>2, <2>3, <2>4 DEF Spelled
<1>3. CASE v >= 256 /\ v < 512
    <2>1. ~(v < t) /\ ~(v < 256) /\ v - 256 \in Nat
      BY <1>0, <1>3
    <2>2. s = <<e, v - 256>> /\ Behind256(v, t) = 16
      BY <1>3, <2>1 DEF Spelling, Behind256
    <2>3. s \in Seq(Nat) /\ Len(s) = 2 /\ s[1] = e /\ s[2] = v - 256
      BY <2>1, <2>2
    <2>4. InTwo(v, e, s)
      BY <1>3, <2>3 DEF InTwo
    <2> QED BY <2>2, <2>3, <2>4 DEF Spelled
<1>4. CASE v >= 512
    <2>1. ~(v < t) /\ ~(v < 256) /\ ~(v < 512)
      BY <1>0, <1>4
    <2>2. s = <<f>> \o Word(v)
      BY <2>1 DEF Spelling
    <2>5. Behind256(v, t) = 24
      BY <2>1 DEF Behind256
    <2>3. PICK lo \in Octets, hi \in Octets :
              /\ WordOf(lo, hi) = v
              /\ s \in Seq(Nat) /\ Len(s) = 3 /\ s[1] = f /\ s[2] = lo /\ s[3] = hi
      <3>1. Escaped(s, f, v)
        BY <2>2, EscapedWord, Zenon
      <3> QED BY <3>1 DEF Escaped
    <2>4. InThree(v, f, s)
      BY <1>4, <2>3 DEF InThree
    <2> QED BY <2>3, <2>4, <2>5 DEF Spelled
<1> QED BY <1>0, <1>1, <1>2, <1>3, <1>4

\* The literals' length, and the match's.
LEMMA LitVarlenIs ==
    ASSUME NEW n \in Words, NEW s, s = LitVarlen(n)
    PROVE  s \in Seq(Nat) /\ Len(s) \in 0 .. 3 /\ 8 * Len(s) = LitBumps(n) /\ Spelled(n, 7, 250, 249, s)
<1>1. s = Spelling(n, 7, 250, 249)
    BY DEF LitVarlen, Spelling, LIT_RUN
<1>2. n \in Nat
    BY SMT DEF Words
<1>3. LitBumps(n) = Behind256(n, 7)
    BY <1>2, Bumps DEF Behind256
<1>4. s \in Seq(Nat) /\ Len(s) \in 0 .. 3 /\ 8 * Len(s) = Behind256(n, 7) /\ Spelled(n, 7, 250, 249, s)
    <2>1. PICK t, e, f : t = 7 /\ e = 250 /\ f = 249
      OBVIOUS
    <2>2. t \in Nat /\ t < 256 /\ e \in Nat /\ f \in Nat /\ s = Spelling(n, t, e, f)
      BY <1>1, <2>1
    <2>3. s \in Seq(Nat) /\ Len(s) \in 0 .. 3 /\ 8 * Len(s) = Behind256(n, t) /\ Spelled(n, t, e, f, s)
      BY <2>2, SpellingIs
    <2> QED BY <2>1, <2>3
<1> QED BY <1>3, <1>4

LEMMA MatchVarlenIs ==
    ASSUME NEW len \in Words, len >= MIN_MATCH, NEW s, s = MatchVarlen(len - MIN_MATCH)
    PROVE  /\ s \in Seq(Nat) /\ Len(s) \in 0 .. 3
           /\ 8 * Len(s) = MatchVarlenSize(len - MIN_MATCH) /\ Spelled(len, 18, 239, 238, s)
<1>0. len \in Nat
    BY SMT DEF Words
<1>1. PICK enc : enc = len - 3
    OBVIOUS
<1>2. enc \in Nat /\ enc + 3 = len /\ enc - 15 = len - 18 /\ (enc < 15 <=> len < 18)
    BY <1>0, <1>1, SMT DEF MIN_MATCH
<1>3. s = MatchVarlen(enc) /\ MatchVarlenSize(len - MIN_MATCH) = MatchVarlenSize(enc)
    BY <1>1 DEF MIN_MATCH
<1>4. s = Spelling(len, 18, 239, 238)
    BY <1>2, <1>3, SMT DEF MatchVarlen, Spelling, MATCH_RUN, MIN_MATCH
<1>5. MatchVarlenSize(enc) = Behind256(len, 18)
    BY <1>2, SMT DEF MatchVarlenSize, Behind256, MATCH_RUN, MIN_MATCH
<1>6. s \in Seq(Nat) /\ Len(s) \in 0 .. 3 /\ 8 * Len(s) = Behind256(len, 18) /\ Spelled(len, 18, 239, 238, s)
    <2>1. PICK t, e, f : t = 18 /\ e = 239 /\ f = 238
      OBVIOUS
    <2>2. t \in Nat /\ t < 256 /\ e \in Nat /\ f \in Nat /\ s = Spelling(len, t, e, f)
      BY <1>4, <2>1
    <2>3. s \in Seq(Nat) /\ Len(s) \in 0 .. 3 /\ 8 * Len(s) = Behind256(len, t) /\ Spelled(len, t, e, f, s)
      BY <2>2, SpellingIs
    <2> QED BY <2>1, <2>3
<1> QED BY <1>3, <1>5, <1>6

-----------------------------------------------------------------------------
(* A unit is laid: the bytes a, a run of n bytes of the input, the bytes b. *)

\* One list behind another.
Joins(s, x, y) ==
    /\ Len(s) = Len(x) + Len(y)
    /\ \A i \in 1 .. Len(x) : s[i] = x[i]
    /\ \A i \in 1 .. Len(y) : s[Len(x) + i] = y[i]

LEMMA JoinIs ==
    ASSUME NEW S, NEW x \in Seq(S), NEW y \in Seq(S)
    PROVE  x \o y \in Seq(S) /\ Joins(x \o y, x, y)
<1>1. PICK s : s = x \o y
    OBVIOUS
<1>2. Len(x) \in Nat /\ Len(y) \in Nat
    BY LenProperties
<1>3. /\ s \in Seq(S) /\ Len(s) = Len(x) + Len(y)
      /\ \A i \in 1 .. Len(x) + Len(y) : s[i] = IF i <= Len(x) THEN x[i] ELSE y[i - Len(x)]
    BY <1>1, ConcatProperties
<1>4. \A i \in 1 .. Len(x) : s[i] = x[i]
    BY <1>2, <1>3
<1>5. ASSUME NEW i \in 1 .. Len(y) PROVE s[Len(x) + i] = y[i]
    <2>1. PICK p : p = Len(x) + i
      OBVIOUS
    <2>2. p \in 1 .. Len(x) + Len(y) /\ ~(p <= Len(x)) /\ p - Len(x) = i
      BY <1>2, <2>1
    <2> QED BY <1>3, <2>1, <2>2
<1>6. Joins(s, x, y)
    BY <1>3, <1>4, <1>5 DEF Joins
<1> QED BY <1>1, <1>3, <1>6

TapeSymbol == [kind : {"byte"}, val : Nat] \cup [kind : {"run"}, val : Seq(Nat)]
RunSize(n) == IF n = 0 THEN 0 ELSE 1

LEMMA BytesAre ==
    ASSUME NEW a \in Seq(Nat)
    PROVE  /\ Bytes(a) \in Seq(TapeSymbol) /\ Len(Bytes(a)) = Len(a)
           /\ \A i \in 1 .. Len(a) : Bytes(a)[i] = Byte(a[i])
<1>1. Len(a) \in Nat /\ \A i \in 1 .. Len(a) : a[i] \in Nat
    BY LenProperties, ElementOfSeq
<1>2. \A i \in 1 .. Len(a) : Byte(a[i]) \in TapeSymbol
    BY <1>1 DEF Byte, TapeSymbol
<1>3. PICK f : f = [j \in 1 .. Len(a) |-> Byte(a[j])]
    OBVIOUS
<1>4. f \in [1 .. Len(a) -> TapeSymbol] /\ \A i \in 1 .. Len(a) : f[i] = Byte(a[i])
    BY <1>2, <1>3
<1>5. f \in Seq(TapeSymbol) /\ Len(f) = Len(a)
    BY <1>1, <1>4
<1> QED BY <1>3, <1>4, <1>5 DEF Bytes

LEMMA FreshIs ==
    ASSUME Len(input) \in Nat, NEW n \in Nat
    PROVE  /\ Fresh(n) \in Seq(Nat) /\ Len(Fresh(n)) = n
           /\ \A j \in 1 .. n : Fresh(n)[j] = Len(input) + j
<1>1. PICK f : f = [j \in 1 .. n |-> Len(input) + j]
    OBVIOUS
<1>2. f \in [1 .. n -> Nat] /\ \A i \in 1 .. n : f[i] = Len(input) + i
    BY <1>1
<1>3. f \in Seq(Nat) /\ Len(f) = n
    BY <1>2
<1> QED BY <1>1, <1>2, <1>3 DEF Fresh

LEMMA RunIs ==
    ASSUME Len(input) \in Nat, NEW n \in Nat
    PROVE  /\ Run(n) \in Seq(TapeSymbol) /\ Len(Run(n)) = RunSize(n)
           /\ n # 0 => Run(n)[1] = [kind |-> "run", val |-> Fresh(n)]
<1>1. CASE n = 0
    BY <1>1 DEF Run, RunSize
<1>2. CASE n # 0
    <2>1. PICK x : x = [kind |-> "run", val |-> Fresh(n)]
      OBVIOUS
    <2>2. x \in TapeSymbol
      BY <2>1, FreshIs DEF TapeSymbol
    <2>3. Run(n) = <<x>> /\ RunSize(n) = 1
      BY <1>2, <2>1 DEF Run, RunSize
    <2> QED BY <2>1, <2>2, <2>3
<1> QED BY <1>1, <1>2

\* The symbols in their order.
CommandAt(s, a, n, b) ==
    /\ s \in Seq(TapeSymbol) /\ Len(s) = Len(a) + RunSize(n) + Len(b)
    /\ \A i \in 1 .. Len(a) : s[i] = Byte(a[i])
    /\ n # 0 => s[Len(a) + 1] = [kind |-> "run", val |-> Fresh(n)]
    /\ \A i \in 1 .. Len(b) : s[Len(a) + RunSize(n) + i] = Byte(b[i])

LEMMA CommandIs ==
    ASSUME Len(input) \in Nat, NEW a \in Seq(Nat), NEW b \in Seq(Nat), NEW n \in Nat
    PROVE  CommandAt(Bytes(a) \o Run(n) \o Bytes(b), a, n, b)
<1>1. PICK x, r, y, t, s : x = Bytes(a) /\ r = Run(n) /\ y = Bytes(b) /\ t = x \o r /\ s = t \o y
    OBVIOUS
<1>2. Len(a) \in Nat /\ Len(b) \in Nat /\ RunSize(n) \in Nat
    BY LenProperties DEF RunSize
<1>3. x \in Seq(TapeSymbol) /\ Len(x) = Len(a) /\ \A i \in 1 .. Len(a) : x[i] = Byte(a[i])
    BY <1>1, BytesAre
<1>4. y \in Seq(TapeSymbol) /\ Len(y) = Len(b) /\ \A i \in 1 .. Len(b) : y[i] = Byte(b[i])
    BY <1>1, BytesAre
<1>5. /\ r \in Seq(TapeSymbol) /\ Len(r) = RunSize(n)
      /\ n # 0 => r[1] = [kind |-> "run", val |-> Fresh(n)]
    BY <1>1, RunIs
<1>6. t \in Seq(TapeSymbol) /\ Joins(t, x, r)
    BY <1>1, <1>3, <1>5, JoinIs
<1>7. s \in Seq(TapeSymbol) /\ Joins(s, t, y)
    BY <1>1, <1>4, <1>6, JoinIs
<1>8. Len(t) = Len(a) + RunSize(n) /\ Len(s) = Len(t) + Len(b)
    BY <1>3, <1>4, <1>5, <1>6, <1>7 DEF Joins
<1>9. \A i \in 1 .. Len(t) : s[i] = t[i]
    BY <1>7 DEF Joins
<1>10. \A i \in 1 .. Len(a) : s[i] = Byte(a[i])
    <2>1. \A i \in 1 .. Len(a) : i \in 1 .. Len(t) /\ t[i] = x[i]
      BY <1>2, <1>3, <1>6, <1>8 DEF Joins
    <2> QED BY <1>3, <1>9, <2>1
<1>11. ASSUME n # 0 PROVE s[Len(a) + 1] = [kind |-> "run", val |-> Fresh(n)]
    <2>1. RunSize(n) = 1
      BY <1>11 DEF RunSize
    <2>2. t[Len(a) + 1] = r[1]
      BY <1>3, <1>5, <1>6, <2>1 DEF Joins
    <2>3. Len(a) + 1 \in 1 .. Len(t)
      BY <1>2, <1>8, <2>1
    <2> QED BY <1>5, <1>9, <1>11, <2>2, <2>3
<1>12. \A i \in 1 .. Len(b) : s[Len(a) + RunSize(n) + i] = Byte(b[i])
    <2>1. \A i \in 1 .. Len(y) : s[Len(t) + i] = y[i]
      BY <1>7 DEF Joins
    <2> QED BY <1>4, <1>8, <2>1
<1>13. CommandAt(s, a, n, b)
    BY <1>7, <1>8, <1>10, <1>11, <1>12 DEF CommandAt
<1> QED BY <1>1, <1>13

\* A tape that goes on as another one begins.
Continues(tq, tp) == Len(tp) <= Len(tq) /\ \A p \in 1 .. Len(tp) : tq[p] = tp[p]

LEMMA LaidTape ==
    ASSUME NEW tp, NEW r, TapeOf(tp, r), NEW s, NEW at, NEW n, Symbols(s, at, n), NEW wr,
           LaidUpto(tp, r.bytes, s, at, n, wr, Len(s))
    PROVE  TapeOf(wr.tape, wr.w)
<1>1. PICK tq, q, m, l : tq = wr.tape /\ q = wr.w /\ m = Len(s) /\ l = Len(tp)
    OBVIOUS
<1>2. m \in Nat /\ at \in 0 .. m /\ n \in Nat /\ \A j \in 1 .. m : Symbol(at, n, j, s[j])
    BY <1>1 DEF Symbols
<1>3. l \in Nat /\ r.bytes \in Nat
    BY <1>1, LenProperties DEF TapeOf, Writers
<1>4. q \in Writers /\ ~q.back
    BY <1>1 DEF LaidUpto
<1>5. q.bytes = r.bytes + Taken(at, n, m)
    BY <1>1 DEF LaidUpto
<1>6. tq \in Seq(TapeByte \cup TapeRun) /\ Len(tq) = l + m
    BY <1>1 DEF LaidUpto
<1>7. \A p \in 1 .. l : tq[p] = tp[p]
    BY <1>1 DEF LaidUpto
<1>8. \A i \in 1 .. m : tq[l + i] = OnTape(s[i], r.bytes + Taken(at, n, i))
    BY <1>1 DEF LaidUpto
<1>9. r.bytes = Behind(tp, l)
    BY <1>1 DEF TapeOf
<1>10. \A i \in 0 .. m : Taken(at, n, i) \in Nat /\ Taken(at, n, i) <= Taken(at, n, m)
    BY <1>2 DEF Taken
<1>11. ASSUME NEW i \in 1 .. m
       PROVE  /\ tq[l + i].ip = r.bytes + Taken(at, n, i)
              /\ tq[l + i].kind = s[i].kind /\ tq[l + i].val = s[i].val
    <2>1. PICK x : x = tq[l + i]
      OBVIOUS
    <2>2. x = OnTape(s[i], r.bytes + Taken(at, n, i))
      BY <1>8, <2>1
    <2>3. x.ip = r.bytes + Taken(at, n, i) /\ x.kind = s[i].kind /\ x.val = s[i].val
      BY <2>2 DEF OnTape
    <2> QED BY <2>1, <2>3
<1>12. ASSUME NEW k \in 0 .. m PROVE Behind(tq, l + k) = r.bytes + Taken(at, n, k)
    <2>1. CASE k = 0
      <3>1. Taken(at, n, 0) = 0
        BY <1>2 DEF Taken
      <3>2. Behind(tq, l) = Behind(tp, l)
        <4>1. CASE l = 0
          BY <4>1 DEF Behind
        <4>2. CASE l # 0
          BY <1>3, <1>7, <4>2 DEF Behind
        <4> QED BY <4>1, <4>2
      <3> QED BY <1>3, <1>9, <2>1, <3>1, <3>2
    <2>2. CASE k # 0
      <3>1. k \in 1 .. m /\ l + k # 0
        BY <1>2, <1>3, <2>2
      <3> QED BY <1>11, <3>1 DEF Behind
    <2> QED BY <2>1, <2>2
<1>13. ASSUME NEW p \in 1 .. Len(tq)
       PROVE  tq[p].ip = Behind(tq, p - 1) + SizeOf(tq[p]) /\ tq[p].ip <= q.bytes
    <2>1. CASE p <= l
      <3>1. p \in 1 .. l /\ tq[p] = tp[p]
        BY <1>3, <1>6, <1>7, <2>1
      <3>2. tp[p].ip = Behind(tp, p - 1) + SizeOf(tp[p]) /\ tp[p].ip <= r.bytes
        BY <1>1, <3>1 DEF TapeOf
      <3>3. Behind(tq, p - 1) = Behind(tp, p - 1)
        <4>1. CASE p - 1 = 0
          BY <4>1 DEF Behind
        <4>2. CASE p - 1 # 0
          <5>1. p - 1 \in 1 .. l
            BY <1>3, <3>1, <4>2
          <5> QED BY <1>7, <4>2, <5>1 DEF Behind
        <4> QED BY <4>1, <4>2
      <3>4. tp[p].ip \in Nat
        <4>1. tp \in Seq(TapeByte \cup TapeRun) /\ p \in 1 .. Len(tp)
          BY <1>1, <3>1 DEF TapeOf
        <4>2. tp[p] \in TapeByte \cup TapeRun
          BY <4>1, ElementOfSeq
        <4> QED BY <4>2 DEF TapeByte, TapeRun
      <3>5. r.bytes <= q.bytes
        BY <1>2, <1>3, <1>5, <1>10, SMTT(30)
      <3>6. q.bytes \in Nat
        BY <1>4 DEF Writers
      <3>7. tp[p].ip <= q.bytes
        BY <1>3, <3>2, <3>4, <3>5, <3>6
      <3> QED BY <3>1, <3>2, <3>3, <3>7
    <2>2. CASE ~(p <= l)
      <3>1. PICK i : i = p - l
        OBVIOUS
      <3>2. i \in 1 .. m /\ i \in 0 .. m /\ i - 1 \in 0 .. m /\ p = l + i /\ p - 1 = l + (i - 1)
        BY <1>2, <1>3, <1>6, <2>2, <3>1
      <3>3. tq[p].ip = r.bytes + Taken(at, n, i)
        BY <1>11, <3>2
      <3>4. Behind(tq, p - 1) = r.bytes + Taken(at, n, i - 1)
        BY <1>12, <3>2
      <3>5. SizeOf(tq[p]) = IF i = at THEN n ELSE 1
        <4>1. Symbol(at, n, i, s[i]) /\ tq[p].kind = s[i].kind /\ tq[p].val = s[i].val
          BY <1>2, <1>11, <3>2
        <4> QED BY <4>1 DEF Symbol, SizeOf
      <3>6. Taken(at, n, i) = Taken(at, n, i - 1) + SizeOf(tq[p])
        BY <1>2, <3>2, <3>5, SMTT(30) DEF Taken
      <3>7. Taken(at, n, i) \in Nat /\ Taken(at, n, i - 1) \in Nat /\ SizeOf(tq[p]) \in Nat
        <4>1. Taken(at, n, i) \in Nat /\ Taken(at, n, i - 1) \in Nat
          BY <1>10, <3>2
        <4> QED BY <1>2, <3>5, <4>1
      <3>8. tq[p].ip = Behind(tq, p - 1) + SizeOf(tq[p])
        BY <1>3, <3>3, <3>4, <3>6, <3>7, SMTT(30)
      <3>9. Taken(at, n, i) <= Taken(at, n, m) /\ Taken(at, n, m) \in Nat
        BY <1>2, <1>10, <3>2
      <3>10. tq[p].ip <= q.bytes
        <4>1. PICK x, y : x = Taken(at, n, i) /\ y = Taken(at, n, m)
          OBVIOUS
        <4>2. x \in Nat /\ y \in Nat /\ x <= y
          BY <3>7, <3>9, <4>1
        <4>3. r.bytes + x <= r.bytes + y
          BY <1>3, <4>2
        <4> QED BY <1>5, <3>3, <4>1, <4>3
      <3> QED BY <3>8, <3>10
    <2> QED BY <2>1, <2>2
<1>14. q.bytes = Behind(tq, Len(tq))
    BY <1>2, <1>5, <1>6, <1>12
<1>15. TapeOf(tq, q)
    BY <1>4, <1>6, <1>13, <1>14, Zenon DEF TapeOf
<1> QED BY <1>1, <1>15

\* What a unit leaves on the tape.
Lays(wr, a, n, b) ==
    /\ TapeOf(wr.tape, wr.w) /\ Continues(wr.tape, tape)
    /\ Len(wr.tape) = Len(tape) + Len(a) + RunSize(n) + Len(b)
    /\ wr.w.bytes = w.bytes + Len(a) + n + Len(b)
    /\ HoldsBytes(wr.tape, Len(tape) + 1, a)
    /\ n # 0 => LET sym == wr.tape[Len(tape) + Len(a) + 1] IN sym.kind = "run" /\ sym.val = Fresh(n)
    /\ HoldsBytes(wr.tape, Len(tape) + Len(a) + RunSize(n) + 1, b)

LEMMA UnitLays ==
    ASSUME TapeInv, Len(input) \in Nat, NEW a \in Seq(Nat), NEW b \in Seq(Nat), NEW n \in Nat
    PROVE  Lays(Written(Bytes(a) \o Run(n) \o Bytes(b)), a, n, b)
<1>1. PICK s : s = Bytes(a) \o Run(n) \o Bytes(b)
    OBVIOUS
<1>2. CommandAt(s, a, n, b)
    BY <1>1, CommandIs
<1>3. PICK la, lb, m, l, c : la = Len(a) /\ lb = Len(b) /\ m = Len(s) /\ l = Len(tape) /\ c = RunSize(n)
    OBVIOUS
<1>4. /\ tape \in Seq(TapeByte \cup TapeRun) /\ w \in Writers /\ ~w.back
    BY DEF TapeInv, TapeOf
<1>5. l \in Nat /\ la \in Nat /\ lb \in Nat /\ c \in 0 .. 1 /\ m = la + c + lb /\ m \in Nat
    <2>1. l \in Nat
      BY <1>3, <1>4, LenProperties
    <2>2. la \in Nat /\ lb \in Nat
      BY <1>3, LenProperties
    <2>3. c \in 0 .. 1
      BY <1>3 DEF RunSize
    <2>4. m = la + c + lb
      BY <1>2, <1>3 DEF CommandAt
    <2> QED BY <2>1, <2>2, <2>3, <2>4
<1>24. PICK at : at = IF c = 0 THEN 0 ELSE la + 1
    OBVIOUS
<1>25. c = 0 <=> n = 0
    BY <1>3 DEF RunSize
<1>6. \A i \in 1 .. la : s[i] = Byte(a[i]) /\ a[i] \in Nat
    BY <1>2, <1>3, ElementOfSeq DEF CommandAt
<1>7. n # 0 => s[la + 1] = [kind |-> "run", val |-> Fresh(n)]
    BY <1>2, <1>3 DEF CommandAt
<1>8. \A i \in 1 .. lb : s[la + c + i] = Byte(b[i]) /\ b[i] \in Nat
    BY <1>2, <1>3, ElementOfSeq DEF CommandAt
<1>9. ASSUME NEW j \in 1 .. m PROVE Symbol(at, n, j, s[j])
    <2>1. CASE j <= la
      <3>1. j \in 1 .. la /\ j # at
        BY <1>5, <1>24, <2>1
      <3>2. s[j] = Byte(a[j]) /\ a[j] \in Nat
        BY <1>6, <3>1
      <3>3. s[j].kind = "byte" /\ s[j].val \in Nat
        BY <3>2 DEF Byte
      <3> QED BY <3>1, <3>3 DEF Symbol
    <2>2. CASE j = at
      <3>1. n # 0 /\ at = la + 1
        <4>1. c # 0
          BY <1>5, <1>24, <2>2
        <4> QED BY <1>24, <1>25, <4>1
      <3>2. s[j].kind = "run" /\ s[j].val = Fresh(n)
        BY <1>7, <2>2, <3>1
      <3>3. Fresh(n) \in Seq(Nat) /\ Len(Fresh(n)) = n
        BY FreshIs
      <3> QED BY <2>2, <3>2, <3>3 DEF Symbol
    <2>3. CASE ~(j <= la) /\ j # at
      <3>1. PICK i : i = j - (la + c)
        OBVIOUS
      <3>2. i \in 1 .. lb /\ j = la + c + i
        BY <1>5, <1>24, <2>3, <3>1
      <3>3. s[j] = Byte(b[i]) /\ b[i] \in Nat
        BY <1>8, <3>2
      <3>4. s[j].kind = "byte" /\ s[j].val \in Nat
        BY <3>3 DEF Byte
      <3> QED BY <2>3, <3>4 DEF Symbol
    <2> QED BY <2>1, <2>2, <2>3
<1>10. Symbols(s, at, n)
    <2>1. at \in 0 .. m
      BY <1>5, <1>24
    <2> QED BY <1>3, <1>5, <1>9, <2>1 DEF Symbols
<1>11. PICK wr : wr = Written(s)
    OBVIOUS
<1>12. LaidUpto(tape, w.bytes, s, at, n, wr, m)
    BY <1>3, <1>4, <1>10, <1>11, MoreLays DEF Written
<1>13. TapeOf(wr.tape, wr.w)
    BY <1>3, <1>10, <1>12, LaidTape DEF TapeInv
<1>14. Len(wr.tape) = l + m
    BY <1>3, <1>12 DEF LaidUpto
<1>15. \A p \in 1 .. l : wr.tape[p] = tape[p]
    BY <1>3, <1>12 DEF LaidUpto
<1>16. ASSUME NEW i \in 1 .. m PROVE wr.tape[l + i].kind = s[i].kind /\ wr.tape[l + i].val = s[i].val
    <2>1. PICK x : x = wr.tape[l + i]
      OBVIOUS
    <2>2. x = OnTape(s[i], w.bytes + Taken(at, n, i))
      BY <1>3, <1>12, <2>1 DEF LaidUpto
    <2>3. x.kind = s[i].kind /\ x.val = s[i].val
      BY <2>2 DEF OnTape
    <2> QED BY <2>1, <2>3
<1>17. wr.w.bytes = w.bytes + la + n + lb
    <2>1. wr.w.bytes = w.bytes + Taken(at, n, m)
      BY <1>12 DEF LaidUpto
    <2>2. Taken(at, n, m) = la + n + lb
      <3>1. CASE n = 0
        BY <1>5, <1>24, <1>25, <3>1 DEF Taken
      <3>2. CASE n # 0
        <4>1. c = 1 /\ at = la + 1 /\ m >= at
          BY <1>5, <1>24, <1>25, <3>2
        <4> QED BY <1>5, <4>1 DEF Taken
      <3> QED BY <3>1, <3>2
    <2>3. w.bytes \in Nat
      BY <1>4 DEF Writers
    <2>4. PICK x, y : x = w.bytes /\ y = wr.w.bytes
      OBVIOUS
    <2>5. x \in Nat /\ y = x + (la + n + lb)
      BY <2>1, <2>2, <2>3, <2>4
    <2>6. y = x + la + n + lb
      BY <1>5, <2>5
    <2> QED BY <2>4, <2>6
<1>18. Continues(wr.tape, tape)
    <2>1. l <= l + m
      BY <1>5
    <2>2. l = Len(tape) /\ Len(tape) <= Len(wr.tape)
      BY <1>3, <1>14, <2>1
    <2>3. \A p \in 1 .. Len(tape) : wr.tape[p] = tape[p]
      BY <1>15, <2>2
    <2> QED BY <2>2, <2>3 DEF Continues
<1>19. HoldsBytes(wr.tape, l + 1, a)
    <2> SUFFICES ASSUME NEW j \in 1 .. la PROVE HoldsByte(wr.tape, l + 1 + j - 1, a[j])
      BY <1>3 DEF HoldsBytes
    <2>1. l + 1 + j - 1 = l + j /\ j \in 1 .. m
      BY <1>5
    <2>2. s[j].kind = "byte" /\ s[j].val = a[j]
      <3>1. s[j] = Byte(a[j])
        BY <1>6
      <3> QED BY <3>1 DEF Byte
    <2>3. wr.tape[l + j].kind = s[j].kind /\ wr.tape[l + j].val = s[j].val
      BY <1>16, <2>1
    <2>4. HoldsByte(wr.tape, l + j, a[j])
      BY <2>2, <2>3 DEF HoldsByte
    <2> QED BY <2>1, <2>4
<1>20. ASSUME n # 0 PROVE LET sym == wr.tape[l + la + 1] IN sym.kind = "run" /\ sym.val = Fresh(n)
    <2>1. l + la + 1 = l + (la + 1) /\ la + 1 \in 1 .. m
      BY <1>5, <1>20, <1>25
    <2>2. s[la + 1].kind = "run" /\ s[la + 1].val = Fresh(n)
      BY <1>7, <1>20
    <2> QED BY <1>16, <2>1, <2>2
<1>21. HoldsBytes(wr.tape, l + la + c + 1, b)
    <2> SUFFICES ASSUME NEW j \in 1 .. lb PROVE HoldsByte(wr.tape, l + la + c + 1 + j - 1, b[j])
      BY <1>3 DEF HoldsBytes
    <2>1. PICK i : i = la + c + j
      OBVIOUS
    <2>2. l + la + c + 1 + j - 1 = l + i /\ i \in 1 .. m
      BY <1>5, <2>1
    <2>3. s[i].kind = "byte" /\ s[i].val = b[j]
      <3>1. s[i] = Byte(b[j])
        BY <1>8, <2>1
      <3> QED BY <3>1 DEF Byte
    <2>4. wr.tape[l + i].kind = s[i].kind /\ wr.tape[l + i].val = s[i].val
      BY <1>16, <2>2
    <2>5. HoldsByte(wr.tape, l + i, b[j])
      BY <2>3, <2>4 DEF HoldsByte
    <2> QED BY <2>2, <2>5
<1>22. Len(wr.tape) = l + la + c + lb
    BY <1>5, <1>14
<1>23. Lays(wr, a, n, b)
    BY <1>3, <1>13, <1>17, <1>18, <1>19, <1>20, <1>21, <1>22, Zenon DEF Lays
<1> QED BY <1>1, <1>11, <1>23

-----------------------------------------------------------------------------
(* What is on the stream stays there when more is written.                 *)

LEMMA ByteStays ==
    ASSUME NEW tp, NEW tq, Continues(tq, tp), NEW p \in 1 .. Len(tp), NEW v, HoldsByte(tp, p, v)
    PROVE  HoldsByte(tq, p, v)
BY DEF Continues, HoldsByte

LEMMA BytesStay ==
    ASSUME NEW tp, NEW tq, Continues(tq, tp), Len(tp) \in Nat, NEW s, NEW n \in Nat, Len(s) = n,
           NEW p \in Nat, p >= 1, p + n <= Len(tp) + 1, HoldsBytes(tp, p, s)
    PROVE  HoldsBytes(tq, p, s)
<1>1. ASSUME NEW j \in 1 .. n PROVE HoldsByte(tq, p + j - 1, s[j])
    <2>1. PICK i : i = p + j - 1
      OBVIOUS
    <2>2. i \in 1 .. Len(tp)
      BY <2>1
    <2>3. HoldsByte(tp, i, s[j])
      BY <2>1 DEF HoldsBytes
    <2> QED BY <2>1, <2>2, <2>3, ByteStays
<1> QED BY <1>1 DEF HoldsBytes

LEMMA RunStays ==
    ASSUME NEW tp, NEW tq, Continues(tq, tp), NEW p \in 1 .. Len(tp), NEW s, NEW sq, Continues(sq, s),
           Len(s) \in Nat, NEW l \in Nat, NEW n \in Nat, l + n <= Len(s), HoldsRun(tp, p, s, l, n)
    PROVE  HoldsRun(tq, p, sq, l, n)
<1>1. tq[p] = tp[p]
    BY DEF Continues
<1>2. tp[p].kind = "run" /\ Len(tp[p].val) = n /\ \A j \in 1 .. n : tp[p].val[j] = s[l + j]
    BY DEF HoldsRun
<1>3. ASSUME NEW j \in 1 .. n PROVE sq[l + j] = s[l + j]
    <2>1. l + j \in 1 .. Len(s)
      OBVIOUS
    <2> QED BY <2>1 DEF Continues
<1>4. \A j \in 1 .. n : tq[p].val[j] = sq[l + j]
    BY <1>1, <1>2, <1>3
<1> QED BY <1>1, <1>2, <1>4, Zenon DEF HoldsRun

\* Where a match copies from.
LEMMA CopyIndex ==
    ASSUME NEW l \in Nat, NEW off \in 1 .. l, NEW j \in Nat, j >= 1
    PROVE  l - off + 1 + ((j - 1) % off) \in 1 .. l
<1>1. PICK r : r = (j - 1) % off
    OBVIOUS
<1>2. r \in 0 .. off - 1
    BY <1>1, SMT
<1>3. l - off + 1 + r \in 1 .. l
    BY <1>2, SMT
<1> QED BY <1>1, <1>3

LEMMA CopiesStay ==
    ASSUME NEW s, NEW sq, Continues(sq, s), Len(s) \in Nat, NEW l \in Nat, NEW n \in Nat, l + n <= Len(s),
           NEW off, Copies(s, l, off, n)
    PROVE  Copies(sq, l, off, n)
<1>1. off \in 1 .. l /\ \A j \in 1 .. n : s[l + j] = s[l - off + 1 + ((j - 1) % off)]
    BY DEF Copies
<1>2. ASSUME NEW j \in 1 .. n PROVE sq[l + j] = sq[l - off + 1 + ((j - 1) % off)]
    <2>1. PICK i : i = l - off + 1 + ((j - 1) % off)
      OBVIOUS
    <2>2. i \in 1 .. l
      BY <1>1, <2>1, CopyIndex
    <2>3. i \in 1 .. Len(s) /\ l + j \in 1 .. Len(s)
      BY <2>2
    <2>4. sq[i] = s[i] /\ sq[l + j] = s[l + j]
      BY <2>3 DEF Continues
    <2> QED BY <1>1, <2>1, <2>4
<1> QED BY <1>1, <1>2 DEF Copies

LEMMA SixteenIsWord == ASSUME NEW v \in SixteenBits PROVE v \in Words /\ v \in Nat /\ v >= 1
<1>1. v \in Int /\ 1 <= v /\ v <= 65535
    BY SMT DEF SixteenBits
<1>2. v \in Words
    BY <1>1, SMT DEF Words
<1> QED BY <1>1, <1>2
LEMMA WordIsNat == ASSUME NEW v \in Words PROVE v \in Nat
BY SMT DEF Words

LEMMA MatchIsNat == ASSUME NEW n \in MIN_MATCH .. MAX_MATCH PROVE n \in Nat
BY DEF MIN_MATCH, MAX_MATCH

LEMMA MatchBounds == ASSUME NEW n \in MIN_MATCH .. MAX_MATCH PROVE n \in Nat /\ n >= 3 /\ n <= 130
<1>1. MIN_MATCH = 3 /\ MAX_MATCH = 130
    BY DEF MIN_MATCH, MAX_MATCH
<1>2. n \in Nat
    BY MatchIsNat
<1>3. MIN_MATCH \in Int /\ MAX_MATCH \in Int
    BY <1>1
<1>4. MIN_MATCH <= n /\ n <= MAX_MATCH
    BY <1>3
<1> QED BY <1>1, <1>2, <1>4

LEMMA BoltStays ==
    ASSUME NEW tp, NEW tq, Continues(tq, tp), Len(tp) \in Nat, NEW s, NEW sq, Continues(sq, s), Len(s) \in Nat,
           NEW m \in MarkOf, NEW e \in MarkOf, e.len <= Len(s), e.tape <= Len(tp), BoltUnitAt(tp, s, m, e)
    PROVE  BoltUnitAt(tq, sq, m, e)
<1>1. PICK ml, mt, el, et : ml = m.len /\ mt = m.tape /\ el = e.len /\ et = e.tape
    OBVIOUS
<1>2. ml \in Nat /\ mt \in Nat /\ el \in Nat /\ et \in Nat /\ el <= Len(s) /\ et <= Len(tp)
    BY <1>1 DEF MarkOf
<1>3. ASSUME BoltLiteralsAt(tp, s, m, e) PROVE BoltLiteralsAt(tq, sq, m, e)
    <2>1. PICK n \in 1 .. MAX_LIT :
              /\ el = ml + n /\ et = mt + 2
              /\ HoldsByte(tp, mt + 1, n) /\ HoldsRun(tp, mt + 2, s, ml, n)
      BY <1>1, <1>3 DEF BoltLiteralsAt
    <2>2. n \in Nat
      BY DEF MAX_LIT
    <2>3. mt + 1 \in 1 .. Len(tp) /\ mt + 2 \in 1 .. Len(tp) /\ ml + n <= Len(s)
      BY <1>2, <2>1
    <2>4. HoldsByte(tq, mt + 1, n)
      BY <2>1, <2>3, ByteStays
    <2>5. HoldsRun(tq, mt + 2, sq, ml, n)
      BY <1>2, <2>1, <2>2, <2>3, RunStays
    <2> QED BY <1>1, <2>1, <2>4, <2>5 DEF BoltLiteralsAt
<1>4. ASSUME BoltMatchAt(tp, s, m, e) PROVE BoltMatchAt(tq, sq, m, e)
    <2>1. PICK off \in SixteenBits, n \in MIN_MATCH .. MAX_MATCH :
              /\ el = ml + n /\ et = mt + 3
              /\ HoldsByte(tp, mt + 1, 128 + n - MIN_MATCH)
              /\ HoldsByte(tp, mt + 2, Negated(off) % 256)
              /\ HoldsByte(tp, mt + 3, Negated(off) \div 256)
              /\ Copies(s, ml, off, n)
      BY <1>1, <1>4 DEF BoltMatchAt
    <2>2. n \in Nat
      BY MatchIsNat
    <2>3. mt + 1 \in 1 .. Len(tp) /\ mt + 2 \in 1 .. Len(tp) /\ mt + 3 \in 1 .. Len(tp) /\ ml + n <= Len(s)
      BY <1>2, <2>1
    <2>4. HoldsByte(tq, mt + 1, 128 + n - MIN_MATCH)
      BY <2>1, <2>3, ByteStays
    <2>5. HoldsByte(tq, mt + 2, Negated(off) % 256)
      BY <2>1, <2>3, ByteStays
    <2>6. HoldsByte(tq, mt + 3, Negated(off) \div 256)
      BY <2>1, <2>3, ByteStays
    <2>7. Copies(sq, ml, off, n)
      BY <1>2, <2>1, <2>2, <2>3, CopiesStay
    <2> QED BY <1>1, <2>1, <2>4, <2>5, <2>6, <2>7, Zenon DEF BoltMatchAt
<1> QED BY <1>3, <1>4 DEF BoltUnitAt

LEMMA MatchStays ==
    ASSUME NEW tp, NEW tq, Continues(tq, tp), Len(tp) \in Nat, NEW s, NEW sq, Continues(sq, s), Len(s) \in Nat,
           NEW l \in Nat, NEW b \in Nat, b >= 1, NEW token, NEW e \in MarkOf, e.len <= Len(s), e.tape <= Len(tp),
           MatchAt(tp, s, l, b, token, e)
    PROVE  MatchAt(tq, sq, l, b, token, e)
<1>1. PICK el, et : el = e.len /\ et = e.tape
    OBVIOUS
<1>2. el \in Nat /\ et \in Nat /\ el <= Len(s) /\ et <= Len(tp)
    BY <1>1 DEF MarkOf
<1>3. PICK off \in SixteenBits, len \in SixteenBits :
          LET enc == len - MIN_MATCH
              c == b + OffsetSize(off) IN
          /\ len >= MIN_MATCH
          /\ (token >= 128) = Long(off) /\ token % 16 = Smaller(enc, MATCH_RUN)
          /\ HoldsByte(tp, b, Negated(off) % 256)
          /\ Long(off) => HoldsByte(tp, b + 1, (Negated(off) \div 256) % 256)
          /\ HoldsBytes(tp, c, MatchVarlen(enc))
          /\ Copies(s, l, off, len)
          /\ e.len = l + len /\ e.tape = c + Len(MatchVarlen(enc)) - 1
    BY Zenon DEF MatchAt
<1>4. PICK enc, c, v, vl : enc = len - MIN_MATCH /\ c = b + OffsetSize(off) /\ v = MatchVarlen(enc) /\ vl = Len(v)
    OBVIOUS
<1>5. /\ len >= MIN_MATCH
      /\ (token >= 128) = Long(off) /\ token % 16 = Smaller(enc, MATCH_RUN)
      /\ HoldsByte(tp, b, Negated(off) % 256)
      /\ Long(off) => HoldsByte(tp, b + 1, (Negated(off) \div 256) % 256)
      /\ HoldsBytes(tp, c, v)
      /\ Copies(s, l, off, len)
      /\ el = l + len /\ et = c + vl - 1
    BY <1>1, <1>3, <1>4, Zenon
<1>6. vl \in Nat
    <2>1. len \in Words
      BY SixteenIsWord
    <2> QED BY <1>4, <1>5, <2>1, MatchVarlenIs
<1>7. len \in Nat
    BY SixteenIsWord
<1>8. c \in Nat /\ c >= b + 1 /\ (Long(off) => c >= b + 2)
    BY <1>4 DEF OffsetSize
<1>9. b \in 1 .. Len(tp) /\ (Long(off) => b + 1 \in 1 .. Len(tp)) /\ c + vl <= Len(tp) + 1 /\ c >= 1
    BY <1>2, <1>5, <1>6, <1>8
<1>10. HoldsByte(tq, b, Negated(off) % 256)
    BY <1>5, <1>9, ByteStays
<1>11. Long(off) => HoldsByte(tq, b + 1, (Negated(off) \div 256) % 256)
    BY <1>5, <1>9, ByteStays
<1>12. HoldsBytes(tq, c, v)
    BY <1>4, <1>5, <1>6, <1>8, <1>9, BytesStay
<1>13. Copies(sq, l, off, len)
    BY <1>2, <1>5, <1>7, CopiesStay
<1> QED BY <1>1, <1>4, <1>5, <1>10, <1>11, <1>12, <1>13, Zenon DEF MatchAt

LEMMA StopStays ==
    ASSUME NEW tp, NEW tq, Continues(tq, tp), Len(tp) \in Nat, NEW l, NEW b \in Nat, b >= 1,
           NEW token, NEW e \in MarkOf, e.tape <= Len(tp), StopAt(tp, l, b, token, e)
    PROVE  StopAt(tq, l, b, token, e)
<1>1. e.tape = b + 3 /\ HoldsByte(tp, b, 0) /\ HoldsBytes(tp, b + 1, <<238, 0, 0>>)
    BY DEF StopAt
<1>2. b \in 1 .. Len(tp) /\ b + 1 >= 1 /\ b + 1 \in Nat /\ (b + 1) + 3 <= Len(tp) + 1
    <2>1. PICK et : et = e.tape
      OBVIOUS
    <2>2. et = b + 3 /\ et <= Len(tp)
      BY <1>1, <2>1
    <2> QED BY <2>2
<1>3. HoldsByte(tq, b, 0)
    BY <1>1, <1>2, ByteStays
<1>4. HoldsBytes(tq, b + 1, <<238, 0, 0>>)
    <2>1. PICK s : s = <<238, 0, 0>>
      OBVIOUS
    <2>2. Len(s) = 3
      BY <2>1
    <2>3. HoldsBytes(tq, b + 1, s)
      BY <1>1, <1>2, <2>1, <2>2, BytesStay
    <2> QED BY <2>1, <2>3
<1> QED BY <1>3, <1>4 DEF StopAt

LEMMA Lzsa1Stays ==
    ASSUME NEW tp, NEW tq, Continues(tq, tp), Len(tp) \in Nat, NEW s, NEW sq, Continues(sq, s), Len(s) \in Nat,
           NEW m \in MarkOf, NEW e \in MarkOf, e.len <= Len(s), e.tape <= Len(tp),
           NEW stop \in BOOLEAN, Lzsa1At(tp, s, m, e, stop)
    PROVE  Lzsa1At(tq, sq, m, e, stop)
<1>1. PICK ml, mt, el, et : ml = m.len /\ mt = m.tape /\ el = e.len /\ et = e.tape
    OBVIOUS
<1>2. ml \in Nat /\ mt \in Nat /\ el \in Nat /\ et \in Nat /\ el <= Len(s) /\ et <= Len(tp)
    BY <1>1 DEF MarkOf
<1>3. PICK n \in Words, token \in Octets :
          HeadAt(tp, s, m, n, token) /\ RestAt(tp, s, m.len + n, RunEnd(m, n), token, e, stop)
    BY DEF Lzsa1At
<1>4. PICK b, v, vl : b = RunEnd(m, n) /\ v = LitVarlen(n) /\ vl = Len(v)
    OBVIOUS
<1>5. n \in Nat /\ vl \in Nat
    BY <1>4, WordIsNat, LitVarlenIs
<1>6. b = mt + 2 + vl + RunSize(n)
    BY <1>1, <1>4 DEF RunEnd, RunSize
<1>7. b \in Nat /\ b >= mt + 2 + vl /\ (n > 0 => b >= mt + 3 + vl)
    BY <1>2, <1>5, <1>6 DEF RunSize
<1>8. RestAt(tp, s, ml + n, b, token, e, stop)
    BY <1>1, <1>3, <1>4
<1>9. b <= et /\ ml + n <= el
    <2>1. CASE stop
      <3>1. StopAt(tp, ml + n, b, token, e)
        BY <1>8, <2>1 DEF RestAt
      <3>2. el = ml + n /\ et = b + 3
        BY <1>1, <3>1 DEF StopAt
      <3> QED BY <1>2, <1>5, <1>7, <3>2
    <2>2. CASE ~stop
      <3>1. MatchAt(tp, s, ml + n, b, token, e)
        BY <1>8, <2>2 DEF RestAt
      <3>2. PICK off \in SixteenBits, len \in SixteenBits :
                /\ len >= MIN_MATCH
                /\ e.len = (ml + n) + len /\ e.tape = b + OffsetSize(off) + Len(MatchVarlen(len - MIN_MATCH)) - 1
        BY <3>1 DEF MatchAt
      <3>3. Len(MatchVarlen(len - MIN_MATCH)) \in Nat
        BY <3>2, SixteenIsWord, MatchVarlenIs
      <3>4. len \in Nat /\ OffsetSize(off) \in 1 .. 2
        BY SixteenIsWord DEF OffsetSize
      <3>5. PICK x, y : x = Len(MatchVarlen(len - MIN_MATCH)) /\ y = OffsetSize(off)
        OBVIOUS
      <3>6. x \in Nat /\ y \in 1 .. 2 /\ el = (ml + n) + len /\ et = b + y + x - 1
        BY <1>1, <3>2, <3>3, <3>4, <3>5
      <3> QED BY <1>2, <1>5, <1>7, <3>4, <3>6
    <2> QED BY <2>1, <2>2
<1>10. HeadAt(tq, sq, m, n, token)
    <2>1. /\ (token % 128) \div 16 = Smaller(n, LIT_RUN)
          /\ HoldsByte(tp, mt + 1, token) /\ HoldsBytes(tp, mt + 2, v)
          /\ n > 0 => HoldsRun(tp, b - 1, s, ml, n)
      BY <1>1, <1>3, <1>4 DEF HeadAt
    <2>2. mt + 1 \in 1 .. Len(tp) /\ mt + 2 \in Nat /\ mt + 2 >= 1 /\ (mt + 2) + vl <= Len(tp) + 1
      BY <1>2, <1>5, <1>7, <1>9
    <2>3. HoldsByte(tq, mt + 1, token)
      BY <2>1, <2>2, ByteStays
    <2>4. HoldsBytes(tq, mt + 2, v)
      BY <1>4, <1>5, <2>1, <2>2, BytesStay
    <2>5. ASSUME n > 0 PROVE HoldsRun(tq, b - 1, sq, ml, n)
      <3>1. b - 1 \in 1 .. Len(tp) /\ ml + n <= Len(s)
        BY <1>2, <1>5, <1>7, <1>9, <2>5
      <3>2. HoldsRun(tp, b - 1, s, ml, n)
        BY <2>1, <2>5
      <3> QED BY <1>2, <1>5, <3>1, <3>2, RunStays
    <2> QED BY <1>1, <1>4, <2>1, <2>3, <2>4, <2>5, Zenon DEF HeadAt
<1>11. RestAt(tq, sq, ml + n, b, token, e, stop)
    <2>1. ml + n \in Nat /\ b >= 1
      BY <1>2, <1>5, <1>7
    <2>2. CASE stop
      <3>1. StopAt(tq, ml + n, b, token, e)
        BY <1>7, <1>8, <2>1, <2>2, StopStays DEF RestAt
      <3> QED BY <2>2, <3>1 DEF RestAt
    <2>3. CASE ~stop
      <3>1. MatchAt(tp, s, ml + n, b, token, e)
        BY <1>8, <2>3 DEF RestAt
      <3>2. MatchAt(tq, sq, ml + n, b, token, e)
        BY <1>7, <2>1, <3>1, MatchStays
      <3> QED BY <2>3, <3>2 DEF RestAt
    <2> QED BY <2>2, <2>3
<1> QED BY <1>1, <1>4, <1>10, <1>11 DEF Lzsa1At

LEMMA UnitStays ==
    ASSUME NEW f, NEW tp, NEW tq, Continues(tq, tp), Len(tp) \in Nat, NEW s, NEW sq, Continues(sq, s), Len(s) \in Nat,
           NEW m \in MarkOf, NEW e \in MarkOf, e.len <= Len(s), e.tape <= Len(tp),
           NEW stop \in BOOLEAN, UnitAt(f, tp, s, m, e, stop)
    PROVE  UnitAt(f, tq, sq, m, e, stop)
<1>1. CASE f = "bolt" /\ stop
    <2>1. BoltStopAt(tp, m, e)
      BY <1>1 DEF UnitAt
    <2>2. e.len = m.len /\ e.tape = m.tape + 1 /\ HoldsByte(tp, m.tape + 1, 0)
      BY <2>1 DEF BoltStopAt
    <2>3. m.tape + 1 \in 1 .. Len(tp)
      <3>1. m.tape \in Nat
        BY DEF MarkOf
      <3> QED BY <2>2, <3>1
    <2>4. BoltStopAt(tq, m, e)
      BY <2>2, <2>3, ByteStays DEF BoltStopAt
    <2> QED BY <1>1, <2>4 DEF UnitAt
<1>2. CASE f = "bolt" /\ ~stop
    <2>1. BoltUnitAt(tp, s, m, e)
      BY <1>2 DEF UnitAt
    <2> QED BY <1>2, <2>1, BoltStays DEF UnitAt
<1>3. CASE f # "bolt"
    <2>1. Lzsa1At(tp, s, m, e, stop)
      BY <1>3 DEF UnitAt
    <2> QED BY <1>3, <2>1, Lzsa1Stays DEF UnitAt
<1> QED BY <1>1, <1>2, <1>3

-----------------------------------------------------------------------------
(* A step of the encoder.                                                  *)

LEMMA MarksGrow ==
    ASSUME NEW f, NEW mk, NEW tp, NEW s, MarksOf(f, "encode", mk, tp, s), Len(tp) \in Nat, Len(s) \in Nat,
           NEW tq, Continues(tq, tp), Len(tq) \in Nat, NEW sq, Continues(sq, s), Len(sq) \in Nat,
           NEW e \in MarkOf, e.len = Len(sq), e.tape = Len(tq), NEW ph,
           UnitAt(f, tq, sq, mk[Len(mk)], e, ph # "encode")
    PROVE  MarksOf(f, ph, Append(mk, e), tq, sq)
<1>1. PICK x, n : x = Append(mk, e) /\ n = Len(mk)
    OBVIOUS
<1>2. mk \in Seq(MarkOf) /\ n \in Nat /\ n >= 1
    <2>1. mk \in Seq(MarkOf) /\ Len(mk) >= 1
      BY DEF MarksOf
    <2> QED BY <1>1, <2>1, LenProperties
<1>3. x \in Seq(MarkOf) /\ Len(x) = n + 1 /\ x[n + 1] = e /\ \A k \in 1 .. n : x[k] = mk[k]
    BY <1>1, <1>2, AppendProperties
<1>4. \A k \in 1 .. n : mk[k] \in MarkOf /\ mk[k].len \in Nat /\ mk[k].tape \in Nat
    <2>1. \A k \in 1 .. n : mk[k] \in MarkOf
      BY <1>1, <1>2, ElementOfSeq
    <2> QED BY <2>1 DEF MarkOf
<1>5. \A k \in 1 .. n : mk[k].len <= Len(s) /\ mk[k].tape <= Len(tp)
    BY <1>1 DEF MarksOf
<1>6. Len(s) <= Len(sq) /\ Len(tp) <= Len(tq)
    BY DEF Continues
<1>7. ASSUME NEW k \in 1 .. n + 1 PROVE x[k].len <= Len(sq) /\ x[k].tape <= Len(tq)
    <2>1. CASE k = n + 1
      <3>1. x[k] = e
        BY <1>3, <2>1
      <3>2. e.len <= Len(sq) /\ e.tape <= Len(tq)
        OBVIOUS
      <3> QED BY <3>1, <3>2
    <2>2. CASE k # n + 1
      <3>1. k \in 1 .. n
        BY <1>2, <2>2
      <3>2. PICK u, v : u = mk[k].len /\ v = mk[k].tape
        OBVIOUS
      <3>3. u \in Nat /\ v \in Nat /\ u <= Len(s) /\ v <= Len(tp)
        BY <1>4, <1>5, <3>1, <3>2
      <3>4. u <= Len(sq) /\ v <= Len(tq)
        BY <1>6, <3>3, SMTT(30)
      <3> QED BY <1>3, <3>1, <3>2, <3>4
    <2> QED BY <2>1, <2>2
<1>8. x[1].len = 0 /\ x[1].tape = 0
    <2>1. mk[1].len = 0 /\ mk[1].tape = 0
      BY DEF MarksOf
    <2>2. x[1] = mk[1]
      BY <1>2, <1>3
    <2> QED BY <2>1, <2>2
<1>9. ASSUME NEW k \in 1 .. n PROVE UnitAt(f, tq, sq, x[k], x[k + 1], ph # "encode" /\ k = (n + 1) - 1)
    <2>1. CASE k = n
      <3>1. x[k] = mk[Len(mk)] /\ x[k + 1] = e
        BY <1>1, <1>2, <1>3, <2>1
      <3>2. (ph # "encode" /\ k = (n + 1) - 1) = (ph # "encode")
        BY <1>2, <2>1
      <3> QED BY <3>1, <3>2
    <2>2. CASE k # n
      <3>1. k \in 1 .. Len(mk) - 1 /\ k \in 1 .. n /\ k + 1 \in 1 .. n
        BY <1>1, <1>2, <2>2
      <3>2. UnitAt(f, tp, s, mk[k], mk[k + 1], "encode" # "encode" /\ k = Len(mk) - 1)
        BY <3>1 DEF MarksOf
      <3>3. ("encode" # "encode" /\ k = Len(mk) - 1) = FALSE /\ (ph # "encode" /\ k = (n + 1) - 1) = FALSE
        BY <1>2, <2>2
      <3>4. UnitAt(f, tp, s, mk[k], mk[k + 1], FALSE)
        BY <3>2, <3>3
      <3>5. mk[k] \in MarkOf /\ mk[k + 1] \in MarkOf /\ mk[k + 1].len <= Len(s) /\ mk[k + 1].tape <= Len(tp)
        BY <1>4, <1>5, <3>1
      <3>6. UnitAt(f, tq, sq, mk[k], mk[k + 1], FALSE)
        <4>1. PICK m2, e2, stop : m2 = mk[k] /\ e2 = mk[k + 1] /\ stop = FALSE
          OBVIOUS
        <4>2. m2 \in MarkOf /\ e2 \in MarkOf /\ stop \in BOOLEAN /\ e2.len <= Len(s) /\ e2.tape <= Len(tp)
          BY <3>5, <4>1
        <4>3. UnitAt(f, tp, s, m2, e2, stop)
          BY <3>4, <4>1
        <4>4. UnitAt(f, tq, sq, m2, e2, stop)
          BY <4>2, <4>3, UnitStays
        <4> QED BY <4>1, <4>4
      <3>7. x[k] = mk[k] /\ x[k + 1] = mk[k + 1]
        BY <1>3, <3>1
      <3> QED BY <3>3, <3>6, <3>7
    <2> QED BY <2>1, <2>2
<1>10. Len(x) >= 2 /\ Len(x) >= 1 /\ Len(x) - 1 = n /\ x[Len(x)] = e
    BY <1>2, <1>3
<1>11. \A k \in 1 .. Len(x) : x[k].len <= Len(sq) /\ x[k].tape <= Len(tq)
    BY <1>3, <1>7
<1>12. \A k \in 1 .. Len(x) - 1 : UnitAt(f, tq, sq, x[k], x[k + 1], ph # "encode" /\ k = Len(x) - 1)
    BY <1>3, <1>9, <1>10
<1>13. MarksOf(f, ph, x, tq, sq)
    BY <1>3, <1>8, <1>10, <1>11, <1>12, Zenon DEF MarksOf
<1> QED BY <1>1, <1>13

\* The input goes on.
LEMMA InputGrows ==
    ASSUME NEW s \in Seq(Nat), NEW x \in Seq(Nat)
    PROVE  s \o x \in Seq(Nat) /\ Joins(s \o x, s, x) /\ Continues(s \o x, s)
<1>1. PICK t : t = s \o x
    OBVIOUS
<1>2. t \in Seq(Nat) /\ Joins(t, s, x)
    BY <1>1, JoinIs
<1>3. Len(s) \in Nat /\ Len(x) \in Nat
    BY LenProperties
<1>4. Len(s) <= Len(t)
    BY <1>2, <1>3 DEF Joins
<1>5. Continues(t, s)
    BY <1>2, <1>4 DEF Joins, Continues
<1> QED BY <1>1, <1>2, <1>5

\* What a unit leaves behind, in the middle of the stream (ph = "encode") and at
\* its end.
Makes(wr, covered, ph) ==
    LET sq == input \o covered IN
    UnitAt(trial.format, wr.tape, sq, marks[Len(marks)], Mark(wr, Len(sq), 0), ph # "encode")
Made(wr, covered, ph, bytes) ==
    LET sq == input \o covered IN
    /\ sq \in Seq(Nat) /\ TapeOf(wr.tape, wr.w)
    /\ MarksOf(trial.format, ph, Append(marks, Mark(wr, Len(sq), 0)), wr.tape, sq)
    /\ 8 * wr.w.bytes = predicted + 8 * bytes

LEMMA UnitMade ==
    ASSUME AlignedInv, phase = "encode", NEW a \in Seq(Nat), NEW n \in Nat, NEW b \in Seq(Nat),
           NEW wr, Lays(wr, a, n, b), NEW covered \in Seq(Nat), NEW ph, Makes(wr, covered, ph)
    PROVE  Made(wr, covered, ph, Len(a) + n + Len(b))
<1>11. PICK sq, e : sq = input \o covered /\ e = Mark(wr, Len(sq), 0)
    OBVIOUS
<1>12. UnitAt(trial.format, wr.tape, sq, marks[Len(marks)], e, ph # "encode")
    BY <1>11 DEF Makes
<1>1. PICK tq, q : tq = wr.tape /\ q = wr.w
    OBVIOUS
<1>2. TapeOf(tq, q) /\ Continues(tq, tape) /\ q.bytes = w.bytes + Len(a) + n + Len(b)
    BY <1>1 DEF Lays
<1>3. input \in Seq(Nat) /\ TapeOf(tape, w) /\ predicted = 8 * w.bytes
    BY DEF AlignedInv, TapeInv
<1>4. sq \in Seq(Nat) /\ Continues(sq, input)
    BY <1>3, <1>11, InputGrows
<1>5. Len(tape) \in Nat /\ Len(tq) \in Nat /\ Len(input) \in Nat /\ Len(sq) \in Nat
    BY <1>2, <1>3, <1>4, LenProperties DEF TapeOf
<1>6. q.bytes \in Nat /\ w.bytes \in Nat
    BY <1>2, <1>3 DEF TapeOf, Writers
<1>7. e \in MarkOf /\ e.len = Len(sq) /\ e.tape = Len(tq)
    BY <1>1, <1>5, <1>6, <1>11 DEF Mark, MarkOf
<1>8. MarksOf(trial.format, "encode", marks, tape, input)
    BY DEF AlignedInv, MarksInv
<1>9. MarksOf(trial.format, ph, Append(marks, e), tq, sq)
    BY <1>1, <1>2, <1>4, <1>5, <1>7, <1>8, <1>12, MarksGrow
<1>10. 8 * q.bytes = predicted + 8 * (Len(a) + n + Len(b))
    <2>1. PICK la, lb, x, y : la = Len(a) /\ lb = Len(b) /\ x = q.bytes /\ y = w.bytes
      OBVIOUS
    <2>2. la \in Nat /\ lb \in Nat
      BY <2>1, LenProperties
    <2>3. x = y + la + n + lb /\ y \in Nat /\ predicted = 8 * y
      BY <1>2, <1>3, <1>6, <2>1
    <2>4. 8 * x = predicted + 8 * (la + n + lb)
      BY <2>2, <2>3
    <2> QED BY <2>1, <2>4
<1> QED BY <1>1, <1>2, <1>4, <1>9, <1>10, <1>11 DEF Made

LEMMA EncoderStep ==
    ASSUME AlignedInv, phase = "encode", NEW a \in Seq(Nat), NEW n \in Nat, NEW b \in Seq(Nat),
           NEW wr, Lays(wr, a, n, b), NEW covered \in Seq(Nat), NEW kind \in {"Literals", "Match"},
           NEW bits \in Int, bits = 8 * (Len(a) + n + Len(b)), Adds(wr, covered, kind, 0, bits),
           Makes(wr, covered, "encode")
    PROVE  AlignedInv'
<1>1. PICK sq, e : sq = input \o covered /\ e = Mark(wr, Len(sq), 0)
    OBVIOUS
<1>2. /\ w' = wr.w /\ tape' = wr.tape /\ input' = sq /\ prev' = kind /\ last' = 0
      /\ predicted' = predicted + bits /\ marks' = Append(marks, e)
      /\ trial' = trial /\ phase' = phase
      /\ d_last' = d_last /\ rd' = rd /\ out' = out /\ max_gap' = max_gap /\ peak' = peak
    BY <1>1 DEF Adds, decoder
<1>3. Made(wr, covered, "encode", Len(a) + n + Len(b))
    BY UnitMade
<1>5. /\ sq \in Seq(Nat) /\ TapeOf(wr.tape, wr.w)
      /\ MarksOf(trial.format, "encode", Append(marks, e), wr.tape, sq)
      /\ 8 * wr.w.bytes = predicted + 8 * (Len(a) + n + Len(b))
    BY <1>1, <1>3 DEF Made
<1>6. TapeInv'
    BY <1>2, <1>5 DEF TapeInv
<1>7. MarksInv'
    BY <1>2, <1>5 DEF MarksInv
<1>8. ReaderInv'
    <2>1. rd = 1 /\ out = <<>> /\ d_last = 0 /\ peak = 0 /\ max_gap = 0
      BY DEF AlignedInv, ReaderInv
    <2> QED BY <1>2, <2>1 DEF ReaderInv
<1>9. predicted' \in Int /\ predicted' = 8 * w'.bytes
    <2>1. predicted \in Int
      BY DEF AlignedInv
    <2> QED BY <1>2, <1>5, <2>1
<1>10. /\ trial' \in Trials /\ trial'.format \in {"bolt", "lzsa1"}
       /\ phase' \in {"encode", "decode", "done"}
       /\ input' \in Seq(Nat) /\ out' \in Seq(Nat)
       /\ prev' \in {"Start", "Literals", "Match"} /\ last' = 0
       /\ rd' \in Nat /\ d_last' \in Octets /\ max_gap' \in Int /\ peak' \in Int
    BY <1>2, <1>5 DEF AlignedInv
<1> QED BY <1>6, <1>7, <1>8, <1>9, <1>10 DEF AlignedInv

LEMMA FinishStep ==
    ASSUME AlignedInv, phase = "encode", NEW a \in Seq(Nat), NEW n \in Nat, NEW b \in Seq(Nat),
           NEW wr, Lays(wr, a, n, b), NEW covered \in Seq(Nat), HandOver(wr, covered, "Token", 0),
           Makes(wr, covered, "decode")
    PROVE  AlignedInv'
<1>1. PICK sq, e : sq = input \o covered /\ e = Mark(wr, Len(sq), 0)
    OBVIOUS
<1>2. last = 0
    BY DEF AlignedInv
<1>3. /\ w' = wr.w /\ tape' = wr.tape /\ input' = sq /\ marks' = Append(marks, e)
      /\ phase' = "decode" /\ d_state' = "Token" /\ d_last' = 0
      /\ trial' = trial /\ prev' = prev /\ last' = last /\ predicted' = predicted
      /\ rd' = rd /\ out' = out /\ max_gap' = max_gap /\ peak' = peak
    BY <1>1, <1>2 DEF HandOver
<1>4. Made(wr, covered, "decode", Len(a) + n + Len(b))
    BY UnitMade
<1>6. /\ sq \in Seq(Nat) /\ TapeOf(wr.tape, wr.w)
      /\ MarksOf(trial.format, "decode", Append(marks, e), wr.tape, sq)
    BY <1>1, <1>4 DEF Made
<1>7. TapeInv'
    BY <1>3, <1>6 DEF TapeInv
<1>8. MarksInv'
    BY <1>3, <1>6 DEF MarksInv
<1>9. rd = 1 /\ out = <<>> /\ d_last = 0 /\ peak = 0 /\ max_gap = 0
    BY DEF AlignedInv, ReaderInv
<1>10. Len(out') = 0 /\ rd' = 1 /\ peak' = 0 /\ max_gap' = 0
    BY <1>3, <1>9
<1>11. ReaderInv'
    <2>1. Begins(out', input')
      <3>1. Len(input') \in Nat
        BY <1>3, <1>6, LenProperties
      <3> QED BY <1>10, <3>1 DEF Begins
    <2>2. marks'[1].len = 0 /\ marks'[1].tape = 0 /\ 1 \in 1 .. Len(marks') - 1
      <3>1. /\ marks' \in Seq(MarkOf) /\ Len(marks') >= 2
            /\ marks'[1].len = 0 /\ marks'[1].tape = 0
        BY <1>3, <1>6 DEF MarksOf
      <3>2. Len(marks') \in Nat
        BY <3>1, LenProperties
      <3> QED BY <3>1, <3>2
    <2>3. AtMark(1)'
      BY <1>3, <1>10, <2>2 DEF AtMark
    <2>4. (peak <= Larger(max_gap, Ahead(out, tape, rd)))'
      <3>1. Ahead(out', tape', rd') = 0
        BY <1>10 DEF Ahead, Behind
      <3> QED BY <1>10, <3>1 DEF Larger
    <2>5. Standing(1)'
      BY <2>3, <2>4 DEF Standing
    <2> QED BY <1>3, <2>1, <2>2, <2>5 DEF ReaderInv
<1>12. 0 \in Octets
    BY SMT DEF Octets
<1>13. /\ trial' \in Trials /\ phase' \in {"encode", "decode", "done"}
       /\ input' \in Seq(Nat) /\ out' \in Seq(Nat)
       /\ prev' \in {"Start", "Literals", "Match"} /\ last' = 0
       /\ rd' \in Nat /\ d_last' \in Octets /\ max_gap' \in Int /\ peak' \in Int /\ predicted' \in Int
    BY <1>3, <1>6, <1>12 DEF AlignedInv
<1> QED BY <1>3, <1>7, <1>8, <1>11, <1>13 DEF AlignedInv

-----------------------------------------------------------------------------
(* The encoder's actions.                                                  *)

LEMMA NoTail ==
    ASSUME NEW x \in Seq(TapeSymbol), NEW b, b = <<>>
    PROVE  x \o Bytes(b) = x
<1>1. PICK y : y = Bytes(b)
    OBVIOUS
<1>2. y \in Seq(TapeSymbol) /\ Len(y) = 0
    BY <1>1, NoBytes, BytesAre
<1>3. y = <<>>
    BY <1>2, EmptySeq
<1>4. x \o <<>> = x
    BY ConcatEmptySeq
<1> QED BY <1>1, <1>3, <1>4

\* The writers of units without a second part, and without a run.
LEMMA WritesRun ==
    ASSUME Len(input) \in Nat, NEW a \in Seq(Nat), NEW n \in Nat, NEW b, b = <<>>
    PROVE  Written(Bytes(a) \o Run(n)) = Written(Bytes(a) \o Run(n) \o Bytes(b))
<1>1. PICK x : x = Bytes(a) \o Run(n)
    OBVIOUS
<1>2. Bytes(a) \in Seq(TapeSymbol) /\ Run(n) \in Seq(TapeSymbol)
    BY BytesAre, RunIs
<1>3. x \in Seq(TapeSymbol)
    BY <1>1, <1>2, JoinIs
<1>4. x \o Bytes(b) = x
    BY <1>3, NoTail
<1> QED BY <1>1, <1>4

LEMMA WritesBytes ==
    ASSUME Len(input) \in Nat, NEW a \in Seq(Nat), NEW b, b = <<>>
    PROVE  Written(Bytes(a)) = Written(Bytes(a) \o Run(0) \o Bytes(b))
<1>1. Bytes(a) \in Seq(TapeSymbol)
    BY BytesAre
<1>2. Bytes(a) \o <<>> = Bytes(a)
    BY <1>1, ConcatEmptySeq
<1>3. Run(0) = <<>>
    BY DEF Run
<1>4. Written(Bytes(a)) = Written(Bytes(a) \o Run(0))
    BY <1>2, <1>3
<1> QED BY <1>4, WritesRun

\* The bytes of a list are those of its parts.
LEMMA HoldsJoined ==
    ASSUME NEW tp, NEW p \in Nat, NEW x \in Seq(Nat), NEW y \in Seq(Nat), HoldsBytes(tp, p, x \o y)
    PROVE  HoldsBytes(tp, p, x) /\ HoldsBytes(tp, p + Len(x), y)
<1>1. PICK s, lx, ly : s = x \o y /\ lx = Len(x) /\ ly = Len(y)
    OBVIOUS
<1>2. lx \in Nat /\ ly \in Nat
    BY <1>1, LenProperties
<1>3. Joins(s, x, y)
    BY <1>1, JoinIs
<1>4. Len(s) = lx + ly /\ (\A i \in 1 .. lx : s[i] = x[i]) /\ \A i \in 1 .. ly : s[lx + i] = y[i]
    BY <1>1, <1>3 DEF Joins
<1>5. \A j \in 1 .. lx + ly : HoldsByte(tp, p + j - 1, s[j])
    BY <1>1, <1>4 DEF HoldsBytes
<1>6. ASSUME NEW j \in 1 .. lx PROVE HoldsByte(tp, p + j - 1, x[j])
    <2>1. j \in 1 .. lx + ly
      BY <1>2
    <2>2. HoldsByte(tp, p + j - 1, s[j])
      BY <1>5, <2>1
    <2> QED BY <1>4, <2>2
<1>7. ASSUME NEW j \in 1 .. ly PROVE HoldsByte(tp, p + lx + j - 1, y[j])
    <2>1. PICK i : i = lx + j
      OBVIOUS
    <2>2. i \in 1 .. lx + ly /\ p + i - 1 = p + lx + j - 1
      BY <1>2, <2>1
    <2>3. HoldsByte(tp, p + i - 1, s[i])
      BY <1>5, <2>2
    <2> QED BY <1>4, <2>1, <2>2, <2>3
<1> QED BY <1>1, <1>6, <1>7 DEF HoldsBytes

\* One, two and three bytes.
LEMMA HoldsFirst ==
    ASSUME NEW tp, NEW p \in Nat, NEW s, NEW n \in Nat, Len(s) = n, HoldsBytes(tp, p, s)
    PROVE  /\ n >= 1 => HoldsByte(tp, p, s[1])
           /\ n >= 2 => HoldsByte(tp, p + 1, s[2])
           /\ n >= 3 => HoldsByte(tp, p + 2, s[3])
<1>1. \A j \in 1 .. n : HoldsByte(tp, p + j - 1, s[j])
    BY DEF HoldsBytes
<1>2. p + 1 - 1 = p /\ p + 2 - 1 = p + 1 /\ p + 3 - 1 = p + 2
    OBVIOUS
<1>3. ASSUME n >= 1 PROVE HoldsByte(tp, p, s[1])
    <2>1. 1 \in 1 .. n
      BY <1>3
    <2> QED BY <1>1, <1>2, <2>1
<1>4. ASSUME n >= 2 PROVE HoldsByte(tp, p + 1, s[2])
    <2>1. 2 \in 1 .. n
      BY <1>4
    <2> QED BY <1>1, <1>2, <2>1
<1>5. ASSUME n >= 3 PROVE HoldsByte(tp, p + 2, s[3])
    <2>1. 3 \in 1 .. n
      BY <1>5
    <2> QED BY <1>1, <1>2, <2>1
<1> QED BY <1>3, <1>4, <1>5

\* The literals of a unit, and its match.
LEMMA LaidRun ==
    ASSUME NEW wr, NEW a, NEW b, NEW n \in Nat, n # 0, Len(input) \in Nat, Lays(wr, a, n, b),
           NEW sq, \A j \in 1 .. n : sq[Len(input) + j] = Fresh(n)[j]
    PROVE  HoldsRun(wr.tape, Len(tape) + Len(a) + 1, sq, Len(input), n)
<1>1. PICK x : x = wr.tape[Len(tape) + Len(a) + 1]
    OBVIOUS
<1>2. x.kind = "run" /\ x.val = Fresh(n)
    BY <1>1 DEF Lays
<1>3. Len(x.val) = n /\ \A j \in 1 .. n : x.val[j] = sq[Len(input) + j]
    BY <1>2, FreshIs
<1> QED BY <1>1, <1>2, <1>3 DEF HoldsRun

LEMMA RepeatsAre ==
    ASSUME NEW s \in Seq(Nat), NEW off \in 1 .. Len(s), NEW n \in Nat
    PROVE  /\ Repeats(s, off, n) \in Seq(Nat) /\ Len(Repeats(s, off, n)) = n
           /\ \A j \in 1 .. n : Repeats(s, off, n)[j] = s[Len(s) - off + 1 + ((j - 1) % off)]
<1>1. PICK l, x : l = Len(s) /\ x = [j \in 1 .. n |-> s[l - off + 1 + ((j - 1) % off)]]
    OBVIOUS
<1>2. l \in Nat
    BY <1>1, LenProperties
<1>3. ASSUME NEW j \in 1 .. n PROVE s[l - off + 1 + ((j - 1) % off)] \in Nat
    <2>1. l - off + 1 + ((j - 1) % off) \in 1 .. l
      BY <1>1, <1>2, CopyIndex
    <2> QED BY <1>1, <2>1, ElementOfSeq
<1>4. x \in [1 .. n -> Nat] /\ \A j \in 1 .. n : x[j] = s[l - off + 1 + ((j - 1) % off)]
    BY <1>1, <1>3
<1>5. x \in Seq(Nat) /\ Len(x) = n
    BY <1>4, SMTT(30)
<1> QED BY <1>1, <1>4, <1>5 DEF Repeats

LEMMA CopiesMade ==
    ASSUME NEW s \in Seq(Nat), NEW off \in 1 .. Len(s), NEW n \in Nat
    PROVE  Copies(s \o Repeats(s, off, n), Len(s), off, n)
<1>1. PICK x, t, l : x = Repeats(s, off, n) /\ t = s \o x /\ l = Len(s)
    OBVIOUS
<1>2. l \in Nat
    BY <1>1, LenProperties
<1>3. x \in Seq(Nat) /\ Len(x) = n /\ \A j \in 1 .. n : x[j] = s[l - off + 1 + ((j - 1) % off)]
    BY <1>1, RepeatsAre
<1>4. Joins(t, s, x)
    BY <1>1, <1>3, JoinIs
<1>5. (\A i \in 1 .. l : t[i] = s[i]) /\ \A i \in 1 .. n : t[l + i] = x[i]
    BY <1>1, <1>3, <1>4 DEF Joins
<1>6. ASSUME NEW j \in 1 .. n PROVE t[l + j] = t[l - off + 1 + ((j - 1) % off)]
    <2>1. l - off + 1 + ((j - 1) % off) \in 1 .. l
      BY <1>1, <1>2, CopyIndex
    <2> QED BY <1>3, <1>5, <2>1
<1> QED BY <1>1, <1>6 DEF Copies

\* Where the encoder stands, and what makes a unit.
LEMMA AtTheEnd ==
    ASSUME AlignedInv, phase = "encode"
    PROVE  /\ input \in Seq(Nat) /\ Len(input) \in Nat /\ Len(tape) \in Nat /\ TapeInv
           /\ marks[Len(marks)].len = Len(input) /\ marks[Len(marks)].tape = Len(tape)
<1>1. input \in Seq(Nat) /\ TapeInv
    BY DEF AlignedInv
<1>2. Len(input) \in Nat /\ Len(tape) \in Nat
    BY <1>1, LenProperties DEF TapeInv, TapeOf
<1>3. marks[Len(marks)].len = Len(input) /\ marks[Len(marks)].tape = Len(tape)
    BY DEF AlignedInv, MarksInv, MarksOf
<1> QED BY <1>1, <1>2, <1>3

LEMMA TrialBits ==
    ASSUME AlignedInv
    PROVE  /\ trial.format \in {"bolt", "lzsa1"} /\ trial.runs \subseteq SixteenBits
           /\ trial.lens \subseteq SixteenBits /\ trial.offsets \subseteq SixteenBits
<1>1. trial \in Trials /\ trial.format \in {"bolt", "lzsa1"}
    BY DEF AlignedInv
<1> QED BY <1>1, StreamAssumption

LEMMA NegatedIs ==
    ASSUME NEW off \in SixteenBits
    PROVE  /\ Negated(off) \in Words /\ Negated(off) % 65536 = Negated(off)
           /\ Negated(off) % 256 \in Octets /\ Negated(off) \div 256 \in Octets
           /\ (Negated(off) \div 256) % 256 = Negated(off) \div 256
<1>1. off \in Int /\ 1 <= off /\ off <= 65535
    BY SMT DEF SixteenBits
<1>2. PICK v : v = Negated(off)
    OBVIOUS
<1>3. v \in Int /\ 0 <= v /\ v <= 65535
    BY <1>1, <1>2, SMT DEF Negated
<1>4. v \in Words
    BY <1>3, SMT DEF Words
<1>5. v % 65536 = v
    BY <1>3, SMT
<1> QED BY <1>2, <1>4, <1>5, WordIs

LEMMA BoltLiteralsStep ==
    ASSUME AlignedInv, NEW n, BoltLiterals(n)
    PROVE  AlignedInv'
<1>1. /\ phase = "encode" /\ trial.format = "bolt" /\ n \in 1 .. MAX_LIT
      /\ Adds(Written(Bytes(<<n>>) \o Run(n)), Fresh(n), "Literals", 0, 8 * (n + 1))
    BY DEF BoltLiterals, Encoding, Unit
<1>2. PICK a, b, wr : a = <<n>> /\ b = <<>> /\ wr = Written(Bytes(a) \o Run(n) \o Bytes(b))
    OBVIOUS
<1>3. n \in Nat /\ n >= 1
    BY <1>1 DEF MAX_LIT
<1>4. a \in Seq(Nat) /\ Len(a) = 1 /\ a[1] = n /\ b \in Seq(Nat) /\ Len(b) = 0
    BY <1>2, <1>3, OneByte, NoBytes
<1>5. /\ input \in Seq(Nat) /\ Len(input) \in Nat /\ Len(tape) \in Nat /\ TapeInv
      /\ marks[Len(marks)].len = Len(input) /\ marks[Len(marks)].tape = Len(tape)
    BY <1>1, AtTheEnd
<1>6. Written(Bytes(<<n>>) \o Run(n)) = wr
    BY <1>2, <1>3, <1>4, <1>5, WritesRun
<1>7. Lays(wr, a, n, b)
    BY <1>2, <1>3, <1>4, <1>5, UnitLays
<1>8. Fresh(n) \in Seq(Nat) /\ Len(Fresh(n)) = n
    BY <1>3, <1>5, FreshIs
<1>9. PICK sq, m, e : sq = input \o Fresh(n) /\ m = marks[Len(marks)] /\ e = Mark(wr, Len(sq), 0)
    OBVIOUS
<1>10. Joins(sq, input, Fresh(n))
    BY <1>5, <1>8, <1>9, JoinIs
<1>11. Len(sq) = Len(input) + n /\ \A j \in 1 .. n : sq[Len(input) + j] = Fresh(n)[j]
    BY <1>8, <1>10 DEF Joins
<1>12. RunSize(n) = 1
    BY <1>3 DEF RunSize
<1>19. PICK ml, mt : ml = m.len /\ mt = m.tape
    OBVIOUS
<1>20. ml \in Nat /\ mt \in Nat /\ ml = Len(input) /\ mt = Len(tape)
    BY <1>5, <1>9, <1>19
<1>13. e.len = ml + n /\ e.tape = mt + 2
    <2>1. e.len = Len(sq) /\ e.tape = Len(wr.tape)
      BY <1>9 DEF Mark
    <2>2. Len(wr.tape) = mt + Len(a) + RunSize(n) + Len(b)
      BY <1>7, <1>20 DEF Lays
    <2> QED BY <1>4, <1>11, <1>12, <1>20, <2>1, <2>2
<1>14. HoldsByte(wr.tape, mt + 1, n)
    <2>1. HoldsBytes(wr.tape, mt + 1, a)
      BY <1>7, <1>20 DEF Lays
    <2>2. mt + 1 \in Nat
      BY <1>20
    <2>3. HoldsByte(wr.tape, mt + 1, a[1])
      BY <1>4, <2>1, <2>2, HoldsFirst
    <2> QED BY <1>4, <2>3
<1>15. HoldsRun(wr.tape, mt + 2, sq, ml, n)
    <2>1. HoldsRun(wr.tape, Len(tape) + Len(a) + 1, sq, Len(input), n)
      BY <1>3, <1>5, <1>7, <1>11, LaidRun, SMTT(30)
    <2>2. mt + Len(a) + 1 = mt + 2
      BY <1>4, <1>20
    <2> QED BY <1>20, <2>1, <2>2
<1>16. Makes(wr, Fresh(n), "encode")
    <2>1. BoltLiteralsAt(wr.tape, sq, m, e)
      BY <1>1, <1>13, <1>14, <1>15, <1>19 DEF BoltLiteralsAt
    <2>2. UnitAt("bolt", wr.tape, sq, m, e, "encode" # "encode")
      BY <2>1 DEF UnitAt, BoltUnitAt
    <2> QED BY <1>1, <1>9, <2>2 DEF Makes
<1>17. 8 * (n + 1) \in Int /\ 8 * (n + 1) = 8 * (Len(a) + n + Len(b))
    BY <1>3, <1>4
<1>18. Adds(wr, Fresh(n), "Literals", 0, 8 * (n + 1))
    BY <1>1, <1>6
<1> QED BY <1>1, <1>3, <1>4, <1>7, <1>8, <1>16, <1>17, <1>18, EncoderStep

LEMMA BoltMatchStep ==
    ASSUME AlignedInv, NEW off \in trial.offsets, NEW n \in trial.lens, BoltMatch(off, n)
    PROVE  AlignedInv'
<1>1. /\ phase = "encode" /\ trial.format = "bolt"
      /\ n \in MIN_MATCH .. MAX_MATCH /\ off \in 1 .. Len(input)
    BY DEF BoltMatch, Encoding
<1>24. PICK neg : neg = (65536 - off) % 65536
    OBVIOUS
<1>2. Adds(Written(Bytes(<<128 + n - MIN_MATCH, neg % 256, neg \div 256>>)),
           Repeats(input, off, n), "Match", 0, 8 * 3)
    BY <1>24 DEF BoltMatch, Unit
<1>3. off \in SixteenBits
    BY TrialBits
<1>4. PICK x, y, z : x = 128 + n - MIN_MATCH /\ y = neg % 256 /\ z = neg \div 256
    OBVIOUS
<1>5. neg = Negated(off) /\ y \in Nat /\ z \in Nat
    <2>1. /\ Negated(off) % 65536 = Negated(off)
          /\ Negated(off) % 256 \in Octets /\ Negated(off) \div 256 \in Octets
      BY <1>3, NegatedIs
    <2>2. neg = Negated(off)
      <3>1. neg = Negated(off) % 65536
        BY <1>24 DEF Negated
      <3> QED BY <2>1, <3>1
    <2>3. y \in Octets /\ z \in Octets
      BY <1>4, <2>1, <2>2
    <2> QED BY <2>2, <2>3, OctetIs
<1>6. n \in Nat /\ x \in Nat
    <2>1. n \in Nat
      BY <1>1, MatchIsNat
    <2> QED BY <1>4, <2>1, SMT DEF MIN_MATCH
<1>7. PICK a, b, wr : a = <<x, y, z>> /\ b = <<>> /\ wr = Written(Bytes(a) \o Run(0) \o Bytes(b))
    OBVIOUS
<1>8. a \in Seq(Nat) /\ Len(a) = 3 /\ a[1] = x /\ a[2] = y /\ a[3] = z /\ b \in Seq(Nat) /\ Len(b) = 0
    BY <1>5, <1>6, <1>7, ThreeBytes, NoBytes
<1>9. /\ input \in Seq(Nat) /\ Len(input) \in Nat /\ Len(tape) \in Nat /\ TapeInv
      /\ marks[Len(marks)].len = Len(input) /\ marks[Len(marks)].tape = Len(tape)
    BY <1>1, AtTheEnd
<1>10. Written(Bytes(a)) = wr
    BY <1>7, <1>8, <1>9, WritesBytes
<1>11. Lays(wr, a, 0, b)
    BY <1>7, <1>8, <1>9, UnitLays
<1>12. PICK c, sq, m, e :
           c = Repeats(input, off, n) /\ sq = input \o c /\ m = marks[Len(marks)] /\ e = Mark(wr, Len(sq), 0)
    OBVIOUS
<1>13. PICK ml, mt : ml = m.len /\ mt = m.tape
    OBVIOUS
<1>14. ml \in Nat /\ mt \in Nat /\ ml = Len(input) /\ mt = Len(tape)
    BY <1>9, <1>12, <1>13
<1>15. c \in Seq(Nat) /\ Len(c) = n
    BY <1>1, <1>6, <1>9, <1>12, RepeatsAre
<1>16. Copies(sq, ml, off, n)
    <2>1. Copies(input \o Repeats(input, off, n), Len(input), off, n)
      BY <1>1, <1>6, <1>9, CopiesMade
    <2> QED BY <1>12, <1>14, <2>1
<1>17. Len(sq) = ml + n
    <2>1. Joins(sq, input, c)
      BY <1>9, <1>12, <1>15, JoinIs
    <2> QED BY <1>14, <1>15, <2>1 DEF Joins
<1>18. e.len = ml + n /\ e.tape = mt + 3
    <2>1. e.len = Len(sq) /\ e.tape = Len(wr.tape)
      BY <1>12 DEF Mark
    <2>2. Len(wr.tape) = mt + Len(a) + RunSize(0) + Len(b)
      BY <1>11, <1>14 DEF Lays
    <2>3. RunSize(0) = 0
      BY DEF RunSize
    <2> QED BY <1>8, <1>14, <1>17, <2>1, <2>2, <2>3
<1>19. /\ HoldsByte(wr.tape, mt + 1, x)
       /\ HoldsByte(wr.tape, mt + 2, y) /\ HoldsByte(wr.tape, mt + 3, z)
    <2>1. PICK p, k : p = mt + 1 /\ k = 3
      OBVIOUS
    <2>2. HoldsBytes(wr.tape, p, a)
      BY <1>11, <1>14, <2>1 DEF Lays
    <2>3. p \in Nat /\ k \in Nat /\ p + 1 = mt + 2 /\ p + 2 = mt + 3 /\ k >= 3 /\ k >= 2 /\ k >= 1
      BY <1>14, <2>1
    <2>4. Len(a) = k
      BY <1>8, <2>1
    <2>5. HoldsByte(wr.tape, p, a[1]) /\ HoldsByte(wr.tape, p + 1, a[2]) /\ HoldsByte(wr.tape, p + 2, a[3])
      BY <2>2, <2>3, <2>4, HoldsFirst
    <2> QED BY <1>8, <2>1, <2>3, <2>5
<1>20. Makes(wr, c, "encode")
    <2>1. /\ HoldsByte(wr.tape, mt + 1, 128 + n - MIN_MATCH)
          /\ HoldsByte(wr.tape, mt + 2, Negated(off) % 256)
          /\ HoldsByte(wr.tape, mt + 3, Negated(off) \div 256)
      BY <1>4, <1>5, <1>19
    <2>2. BoltMatchAt(wr.tape, sq, m, e)
      BY <1>1, <1>3, <1>13, <1>16, <1>18, <2>1, SMT DEF BoltMatchAt
    <2>3. UnitAt("bolt", wr.tape, sq, m, e, "encode" # "encode")
      BY <2>2 DEF UnitAt, BoltUnitAt
    <2> QED BY <1>1, <1>12, <2>3 DEF Makes
<1>21. PICK bits, none : bits = 8 * 3 /\ none = 0
    OBVIOUS
<1>22. bits \in Int /\ none \in Nat /\ bits = 8 * (Len(a) + none + Len(b)) /\ Lays(wr, a, none, b)
    BY <1>8, <1>11, <1>21
<1>23. Adds(wr, c, "Match", 0, bits)
    BY <1>2, <1>4, <1>7, <1>10, <1>12, <1>21
<1> QED BY <1>1, <1>8, <1>15, <1>20, <1>22, <1>23, EncoderStep

LEMMA BoltFinishStep ==
    ASSUME AlignedInv, BoltFinish
    PROVE  AlignedInv'
<1>1. /\ phase = "encode" /\ trial.format = "bolt" /\ HandOver(Written(Bytes(<<0>>)), <<>>, "Token", 0)
    BY DEF BoltFinish, Encoding, Finish, Hand
<1>2. PICK a, b, c, wr : a = <<0>> /\ b = <<>> /\ c = <<>> /\ wr = Written(Bytes(a) \o Run(0) \o Bytes(b))
    OBVIOUS
<1>3. /\ a \in Seq(Nat) /\ Len(a) = 1 /\ a[1] = 0
      /\ b \in Seq(Nat) /\ Len(b) = 0 /\ c \in Seq(Nat) /\ Len(c) = 0
    BY <1>2, OneByte, NoBytes
<1>4. /\ input \in Seq(Nat) /\ Len(input) \in Nat /\ Len(tape) \in Nat /\ TapeInv
      /\ marks[Len(marks)].len = Len(input) /\ marks[Len(marks)].tape = Len(tape)
    BY <1>1, AtTheEnd
<1>5. Written(Bytes(a)) = wr
    BY <1>2, <1>3, <1>4, WritesBytes
<1>6. Lays(wr, a, 0, b)
    BY <1>2, <1>3, <1>4, UnitLays
<1>7. PICK sq, m, e : sq = input \o c /\ m = marks[Len(marks)] /\ e = Mark(wr, Len(sq), 0)
    OBVIOUS
<1>13. PICK ml, mt : ml = m.len /\ mt = m.tape
    OBVIOUS
<1>14. ml \in Nat /\ mt \in Nat /\ ml = Len(input) /\ mt = Len(tape)
    BY <1>4, <1>7, <1>13
<1>8. Len(sq) = ml
    <2>1. Joins(sq, input, c)
      BY <1>3, <1>4, <1>7, JoinIs
    <2>2. Len(sq) = Len(input) + Len(c)
      BY <2>1 DEF Joins
    <2> QED BY <1>3, <1>14, <2>2
<1>9. e.len = ml /\ e.tape = mt + 1
    <2>1. e.len = Len(sq) /\ e.tape = Len(wr.tape)
      BY <1>7 DEF Mark
    <2>2. Len(wr.tape) = mt + Len(a) + RunSize(0) + Len(b)
      BY <1>6, <1>14 DEF Lays
    <2>3. RunSize(0) = 0
      BY DEF RunSize
    <2> QED BY <1>3, <1>8, <1>14, <2>1, <2>2, <2>3
<1>10. HoldsByte(wr.tape, mt + 1, 0)
    <2>1. HoldsBytes(wr.tape, mt + 1, a)
      BY <1>6, <1>14 DEF Lays
    <2>2. mt + 1 \in Nat
      BY <1>14
    <2>3. HoldsByte(wr.tape, mt + 1, a[1])
      BY <1>3, <2>1, <2>2, HoldsFirst
    <2> QED BY <1>3, <2>3
<1>11. Makes(wr, c, "decode")
    <2>1. UnitAt("bolt", wr.tape, sq, m, e, "decode" # "encode")
      BY <1>9, <1>10, <1>13 DEF UnitAt, BoltStopAt
    <2> QED BY <1>1, <1>7, <2>1 DEF Makes
<1>12. HandOver(wr, c, "Token", 0)
    BY <1>1, <1>2, <1>5
<1> QED BY <1>1, <1>3, <1>6, <1>11, <1>12, FinishStep

\* The token: a bit, three bits and four.
TokenOf(h, x, y) == 128 * h + 16 * x + y
TokenParts(t, h, x, y) ==
    t \in Octets /\ t \in Nat /\ (t % 128) \div 16 = x /\ t % 16 = y /\ (t >= 128 <=> h = 1)

LEMMA TokenIs ==
    ASSUME NEW h \in 0 .. 1, NEW x \in 0 .. 7, NEW y \in 0 .. 15
    PROVE  TokenParts(TokenOf(h, x, y), h, x, y)
<1>6. PICK t : t = TokenOf(h, x, y)
    OBVIOUS
<1>7. t = 128 * h + 16 * x + y
    BY <1>6 DEF TokenOf
<1>1. t \in Nat /\ t <= 255 /\ (t >= 128 <=> h = 1)
    BY <1>7, SMT
<1>2. t % 16 = y
    BY <1>7, SMT
<1>3. t % 128 = 16 * x + y
    BY <1>7, SMT
<1>4. (16 * x + y) \div 16 = x
    BY SMT
<1>5. t \in Octets
    BY <1>1, SMT DEF Octets
<1> QED BY <1>1, <1>2, <1>3, <1>4, <1>5, <1>6 DEF TokenParts

\* What lengths are written as.
LitWritten(n, s) == s \in Seq(Nat) /\ Len(s) \in Nat /\ 8 * Len(s) = LitBumps(n)
MatchWritten(enc, s) == s \in Seq(Nat) /\ Len(s) \in Nat /\ 8 * Len(s) = MatchVarlenSize(enc)

LEMMA LitIsWritten == ASSUME NEW n \in Words PROVE LitWritten(n, LitVarlen(n))
<1>1. PICK s : s = LitVarlen(n)
    OBVIOUS
<1>2. s \in Seq(Nat) /\ Len(s) \in 0 .. 3 /\ 8 * Len(s) = LitBumps(n)
    BY <1>1, LitVarlenIs
<1> QED BY <1>1, <1>2 DEF LitWritten

LEMMA MatchIsWritten ==
    ASSUME NEW len \in Words, len >= MIN_MATCH
    PROVE  MatchWritten(len - MIN_MATCH, MatchVarlen(len - MIN_MATCH))
<1>1. PICK s : s = MatchVarlen(len - MIN_MATCH)
    OBVIOUS
<1>2. s \in Seq(Nat) /\ Len(s) \in 0 .. 3 /\ 8 * Len(s) = MatchVarlenSize(len - MIN_MATCH)
    BY <1>1, MatchVarlenIs
<1> QED BY <1>1, <1>2 DEF MatchWritten

\* A command's token and literals.
LEMMA HeadLaid ==
    ASSUME AlignedInv, phase = "encode", NEW wr, NEW token \in Octets, NEW n \in Words, NEW b,
           Lays(wr, <<token>> \o LitVarlen(n), n, b), (token % 128) \div 16 = Smaller(n, LIT_RUN),
           NEW sq, \A j \in 1 .. n : sq[Len(input) + j] = Fresh(n)[j],
           NEW m, m.len = Len(input), m.tape = Len(tape)
    PROVE  /\ HeadAt(wr.tape, sq, m, n, token)
           /\ RunEnd(m, n) = Len(tape) + (1 + Len(LitVarlen(n))) + RunSize(n) + 1
           /\ HoldsBytes(wr.tape, RunEnd(m, n), b)
<1>1. PICK t, v, a, vl : t = <<token>> /\ v = LitVarlen(n) /\ a = t \o v /\ vl = Len(v)
    OBVIOUS
<1>2. n \in Nat /\ token \in Nat /\ v \in Seq(Nat) /\ vl \in Nat
    BY <1>1, WordIsNat, OctetIs, LitVarlenIs
<1>3. t \in Seq(Nat) /\ Len(t) = 1 /\ t[1] = token
    BY <1>1, <1>2, OneByte
<1>4. Len(input) \in Nat /\ Len(tape) \in Nat
    BY AtTheEnd
<1>5. PICK ml, mt : ml = m.len /\ mt = m.tape
    OBVIOUS
<1>6. ml \in Nat /\ mt \in Nat /\ ml = Len(input) /\ mt = Len(tape)
    BY <1>4, <1>5
<1>7. Lays(wr, a, n, b)
    BY <1>1
<1>8. Len(a) = 1 + vl
    <2>1. Joins(a, t, v)
      BY <1>1, <1>2, <1>3, JoinIs
    <2> QED BY <1>1, <1>3, <2>1 DEF Joins
<1>9. HoldsBytes(wr.tape, mt + 1, t \o v)
    BY <1>1, <1>6, <1>7 DEF Lays
<1>10. HoldsByte(wr.tape, mt + 1, token) /\ HoldsBytes(wr.tape, mt + 2, v)
    <2>1. PICK p : p = mt + 1
      OBVIOUS
    <2>2. p \in Nat /\ p + 1 = mt + 2
      BY <1>6, <2>1
    <2>3. HoldsBytes(wr.tape, p, t) /\ HoldsBytes(wr.tape, p + Len(t), v)
      BY <1>2, <1>3, <1>9, <2>1, <2>2, HoldsJoined
    <2>5. PICK k : k = Len(t)
      OBVIOUS
    <2>6. k \in Nat /\ k >= 1
      BY <1>3, <2>5
    <2>4. HoldsByte(wr.tape, p, t[1])
      BY <2>2, <2>3, <2>5, <2>6, HoldsFirst
    <2> QED BY <1>3, <2>1, <2>2, <2>3, <2>4
<1>11. PICK re, rs : re = RunEnd(m, n) /\ rs = RunSize(n)
    OBVIOUS
<1>12. re = mt + (1 + vl) + rs + 1 /\ rs \in 0 .. 1 /\ (n > 0 => re - 1 = mt + (1 + vl) + 1)
    <2>1. re = mt + 2 + vl + rs
      BY <1>1, <1>5, <1>11 DEF RunEnd, RunSize
    <2>2. rs \in 0 .. 1 /\ (n > 0 => rs = 1)
      BY <1>2, <1>11 DEF RunSize
    <2> QED BY <1>2, <1>6, <2>1, <2>2
<1>13. ASSUME n > 0 PROVE HoldsRun(wr.tape, re - 1, sq, ml, n)
    <2>1. n # 0
      BY <1>2, <1>13
    <2>2. HoldsRun(wr.tape, Len(tape) + Len(a) + 1, sq, Len(input), n)
      BY <1>2, <1>4, <1>7, <2>1, LaidRun
    <2> QED BY <1>6, <1>8, <1>12, <1>13, <2>2
<1>14. HeadAt(wr.tape, sq, m, n, token)
    BY <1>1, <1>5, <1>10, <1>11, <1>13 DEF HeadAt
<1>15. HoldsBytes(wr.tape, re, b)
    <2>1. HoldsBytes(wr.tape, mt + (1 + vl) + rs + 1, b)
      BY <1>6, <1>7, <1>8, <1>11 DEF Lays
    <2> QED BY <1>12, <2>1
<1> QED BY <1>1, <1>6, <1>11, <1>12, <1>14, <1>15

\* An offset as it is written.
OffsetBytes(off) == IF Long(off) THEN Word(Negated(off)) ELSE <<Negated(off) % 256>>
OffsetHeld(off, o) ==
    /\ o \in Seq(Nat) /\ Len(o) = OffsetSize(off) /\ o[1] = Negated(off) % 256
    /\ Long(off) => o[2] = (Negated(off) \div 256) % 256

Pair(s, x, y) == s \in Seq(Nat) /\ Len(s) = 2 /\ s[1] = x /\ s[2] = y
LEMMA PairIs == ASSUME NEW x \in Nat, NEW y \in Nat PROVE Pair(<<x, y>>, x, y)
BY DEF Pair

LEMMA OffsetWritten == ASSUME NEW off \in SixteenBits PROVE OffsetHeld(off, OffsetBytes(off))
<1>1. PICK x, y, o : x = Negated(off) % 256 /\ y = (Negated(off) \div 256) % 256 /\ o = OffsetBytes(off)
    OBVIOUS
<1>2. x \in Nat /\ y \in Nat
    <2>1. x \in Octets /\ y \in Octets
      BY <1>1, NegatedIs
    <2> QED BY <2>1, OctetIs
<1>3. CASE Long(off)
    <2>1. o = <<x, y>>
      BY <1>1, <1>3 DEF OffsetBytes, Word
    <2>2. Pair(o, x, y)
      BY <1>2, <2>1, PairIs
    <2>3. o \in Seq(Nat) /\ Len(o) = 2 /\ o[1] = x /\ o[2] = y
      BY <2>2 DEF Pair
    <2> QED BY <1>1, <1>3, <2>3 DEF OffsetSize, OffsetHeld
<1>4. CASE ~Long(off)
    <2>1. o = <<x>>
      BY <1>1, <1>4 DEF OffsetBytes
    <2>2. o \in Seq(Nat) /\ Len(o) = 1 /\ o[1] = x
      BY <1>2, <2>1, OneByte
    <2> QED BY <1>1, <1>4, <2>2 DEF OffsetSize, OffsetHeld
<1> QED BY <1>3, <1>4

\* The end marker's four bytes.
LEMMA MarkerIs ==
    ASSUME NEW z \in Nat, NEW s, s = <<0, z, 0, 0>>, NEW t, t = <<z, 0, 0>>
    PROVE  s \in Seq(Nat) /\ Len(s) = 4 /\ s[1] = 0 /\ Len(t) = 3 /\ \A j \in 1 .. 3 : t[j] = s[1 + j]
BY SMT

LEMMA MarkerHeld ==
    ASSUME NEW tp, NEW p \in Nat, HoldsBytes(tp, p, <<0, 238, 0, 0>>)
    PROVE  HoldsByte(tp, p, 0) /\ HoldsBytes(tp, p + 1, <<238, 0, 0>>)
<1>1. PICK z, s, t, k : z = 238 /\ s = <<0, z, 0, 0>> /\ t = <<z, 0, 0>> /\ k = 4
    OBVIOUS
<1>2. z \in Nat
    BY <1>1
<1>3. s \in Seq(Nat) /\ Len(s) = 4 /\ s[1] = 0 /\ Len(t) = 3 /\ \A j \in 1 .. 3 : t[j] = s[1 + j]
    BY <1>1, <1>2, MarkerIs
<1>4. HoldsBytes(tp, p, s)
    BY <1>1
<1>5. HoldsByte(tp, p, s[1])
    <2>1. Len(s) = k /\ k \in Nat /\ k >= 1
      BY <1>1, <1>3
    <2> QED BY <1>4, <2>1, HoldsFirst
<1>6. ASSUME NEW j \in 1 .. 3 PROVE HoldsByte(tp, p + 1 + j - 1, t[j])
    <2>1. PICK i : i = 1 + j
      OBVIOUS
    <2>2. i \in 1 .. 4 /\ p + i - 1 = p + 1 + j - 1
      BY <2>1
    <2>3. HoldsByte(tp, p + i - 1, s[i])
      BY <1>3, <1>4, <2>2 DEF HoldsBytes
    <2> QED BY <1>3, <2>1, <2>2, <2>3
<1>7. HoldsBytes(tp, p + 1, t)
    BY <1>3, <1>6 DEF HoldsBytes
<1> QED BY <1>1, <1>3, <1>5, <1>7

LEMMA JoinThree ==
    ASSUME NEW x \in Seq(Nat), NEW y \in Seq(Nat), NEW z \in Seq(Nat)
    PROVE  (x \o y) \o z = x \o (y \o z)
BY ConcatAssociative

LEMMA Lzsa1CommandStep ==
    ASSUME AlignedInv, NEW n \in trial.runs \cup {0}, NEW off \in trial.offsets, NEW len \in trial.lens,
           Lzsa1Command(n, off, len)
    PROVE  AlignedInv'
<1>45. PICK enc, h : enc = len - MIN_MATCH /\ h = IF Long(off) THEN 1 ELSE 0
    OBVIOUS
<1>46. PICK neg : neg = 65536 - off
    OBVIOUS
<1>47. PICK base : base = input \o Fresh(n)
    OBVIOUS
<1>0. enc = len - MIN_MATCH /\ h = (IF Long(off) THEN 1 ELSE 0) /\ neg = 65536 - off /\ base = input \o Fresh(n)
    BY <1>45, <1>46, <1>47
<1>1. PICK token, o, v :
          /\ token = (IF Long(off) THEN 128 ELSE 0) + 16 * Smaller(n, LIT_RUN) + Smaller(enc, MATCH_RUN)
          /\ o = (IF Long(off) THEN Word(neg) ELSE <<neg % 256>>) /\ v = MatchVarlen(enc)
    OBVIOUS
<1>2. PICK bits : bits = 8 * n + LitBumps(n) + 8 + (IF Long(off) THEN 16 ELSE 8) + MatchVarlenSize(enc)
    OBVIOUS
<1>3. /\ phase = "encode" /\ trial.format = "lzsa1" /\ len >= MIN_MATCH /\ off \in 1 .. Len(base)
    BY <1>0 DEF Lzsa1Command, Encoding
<1>4. Adds(Written(Bytes(<<token>> \o LitVarlen(n)) \o Run(n) \o Bytes(o \o v)),
           Fresh(n) \o Repeats(base, off, len), "Match", 0, bits)
    BY <1>0, <1>1, <1>2 DEF Lzsa1Command, Unit
<1>5. off \in SixteenBits /\ len \in Words /\ len \in Nat /\ n \in Words /\ n \in Nat
    <2>1. off \in SixteenBits /\ len \in SixteenBits /\ n \in SixteenBits \cup {0}
      BY TrialBits
    <2>2. 0 \in Words
      BY SMT DEF Words
    <2> QED BY <2>1, <2>2, SixteenIsWord
<1>6. enc \in Nat
    BY <1>0, <1>3, <1>5 DEF MIN_MATCH
<1>7. PICK x, y : x = Smaller(n, LIT_RUN) /\ y = Smaller(enc, MATCH_RUN)
    OBVIOUS
<1>8. h \in 0 .. 1 /\ x \in 0 .. 7 /\ y \in 0 .. 15 /\ (h = 1 <=> Long(off))
    <2>1. LIT_RUN = 7 /\ MATCH_RUN = 15
      BY DEF LIT_RUN, MATCH_RUN
    <2>2. x \in 0 .. 7 /\ y \in 0 .. 15
      BY <1>5, <1>6, <1>7, <2>1 DEF Smaller
    <2> QED BY <1>0, <2>2
<1>9. token = TokenOf(h, x, y)
    BY <1>1, <1>7, <1>8 DEF TokenOf
<1>10. token \in Octets /\ token \in Nat /\ (token % 128) \div 16 = x /\ token % 16 = y /\ (token >= 128) = Long(off)
    <2>1. TokenParts(token, h, x, y)
      BY <1>8, <1>9, TokenIs
    <2>2. Long(off) \in BOOLEAN /\ (token >= 128) \in BOOLEAN
      BY DEF Long
    <2>3. (token >= 128) = Long(off)
      BY <1>8, <2>1, <2>2 DEF TokenParts
    <2> QED BY <2>1, <2>3 DEF TokenParts
<1>11. /\ o \in Seq(Nat) /\ Len(o) = OffsetSize(off) /\ o[1] = Negated(off) % 256
       /\ Long(off) => o[2] = (Negated(off) \div 256) % 256
    <2>1. o = OffsetBytes(off)
      BY <1>0, <1>1 DEF Negated, OffsetBytes
    <2>2. OffsetHeld(off, o)
      BY <1>5, <2>1, OffsetWritten
    <2> QED BY <2>2 DEF OffsetHeld
<1>13. v \in Seq(Nat) /\ Len(v) \in Nat /\ 8 * Len(v) = MatchVarlenSize(enc)
    <2>1. MatchWritten(len - MIN_MATCH, MatchVarlen(len - MIN_MATCH))
      BY <1>3, <1>5, MatchIsWritten
    <2>2. MatchWritten(enc, v)
      BY <1>0, <1>1, <2>1
    <2> QED BY <2>2 DEF MatchWritten
<1>14. PICK lv : lv = LitVarlen(n)
    OBVIOUS
<1>15. lv \in Seq(Nat) /\ Len(lv) \in Nat /\ 8 * Len(lv) = LitBumps(n)
    <2>1. LitWritten(n, lv)
      BY <1>5, <1>14, LitIsWritten
    <2> QED BY <2>1 DEF LitWritten
<1>16. PICK t, a, b, wr : t = <<token>> /\ a = t \o lv /\ b = o \o v /\ wr = Written(Bytes(a) \o Run(n) \o Bytes(b))
    OBVIOUS
<1>17. t \in Seq(Nat) /\ Len(t) = 1
    BY <1>10, <1>16, OneByte
<1>18. a \in Seq(Nat) /\ Len(a) = 1 + Len(lv) /\ b \in Seq(Nat) /\ Len(b) = Len(o) + Len(v)
    <2>1. a \in Seq(Nat) /\ Joins(a, t, lv)
      BY <1>15, <1>16, <1>17, JoinIs
    <2>2. b \in Seq(Nat) /\ Joins(b, o, v)
      BY <1>11, <1>13, <1>16, JoinIs
    <2> QED BY <1>17, <2>1, <2>2 DEF Joins
<1>19. /\ input \in Seq(Nat) /\ Len(input) \in Nat /\ Len(tape) \in Nat /\ TapeInv
       /\ marks[Len(marks)].len = Len(input) /\ marks[Len(marks)].tape = Len(tape)
    BY <1>3, AtTheEnd
<1>20. Lays(wr, a, n, b)
    BY <1>5, <1>16, <1>18, <1>19, UnitLays
<1>21. PICK fr, c, covered, sq, m, e :
          /\ fr = Fresh(n) /\ c = Repeats(base, off, len) /\ covered = fr \o c /\ sq = input \o covered
          /\ m = marks[Len(marks)] /\ e = Mark(wr, Len(sq), 0)
    OBVIOUS
<1>22. PICK ml, mt : ml = m.len /\ mt = m.tape
    OBVIOUS
<1>23. ml \in Nat /\ mt \in Nat /\ ml = Len(input) /\ mt = Len(tape) /\ m.len = Len(input) /\ m.tape = Len(tape)
    BY <1>19, <1>21, <1>22
<1>24. fr \in Seq(Nat) /\ Len(fr) = n
    BY <1>5, <1>19, <1>21, FreshIs
<1>25. base \in Seq(Nat) /\ Joins(base, input, fr)
    BY <1>0, <1>19, <1>21, <1>24, JoinIs
<1>26. Len(base) = ml + n /\ (\A j \in 1 .. n : base[ml + j] = fr[j])
    BY <1>23, <1>24, <1>25 DEF Joins
<1>27. c \in Seq(Nat) /\ Len(c) = len
    BY <1>3, <1>5, <1>21, <1>25, RepeatsAre
<1>28. covered \in Seq(Nat)
    BY <1>21, <1>24, <1>27, JoinIs
<1>29. sq = base \o c
    <2>1. (input \o fr) \o c = input \o (fr \o c)
      BY <1>19, <1>24, <1>27, JoinThree
    <2> QED BY <1>0, <1>21, <2>1
<1>30. Joins(sq, base, c)
    BY <1>25, <1>27, <1>29, JoinIs
<1>31. Len(sq) = (ml + n) + len /\ \A j \in 1 .. n : sq[Len(input) + j] = Fresh(n)[j]
    <2>1. Len(sq) = (ml + n) + len /\ \A i \in 1 .. (ml + n) : sq[i] = base[i]
      BY <1>26, <1>27, <1>30 DEF Joins
    <2>2. ASSUME NEW j \in 1 .. n PROVE sq[ml + j] = base[ml + j]
      <3>1. ml + j \in 1 .. (ml + n)
        BY <1>5, <1>23
      <3> QED BY <2>1, <3>1
    <2> QED BY <1>21, <1>23, <1>26, <2>1, <2>2
<1>32. Copies(sq, ml + n, off, len)
    <2>1. Copies(base \o Repeats(base, off, len), Len(base), off, len)
      BY <1>3, <1>5, <1>25, CopiesMade
    <2> QED BY <1>21, <1>26, <1>29, <2>1
<1>33. Lays(wr, <<token>> \o LitVarlen(n), n, b)
    BY <1>14, <1>16, <1>20
<1>34. /\ HeadAt(wr.tape, sq, m, n, token)
       /\ RunEnd(m, n) = Len(tape) + (1 + Len(LitVarlen(n))) + RunSize(n) + 1
       /\ HoldsBytes(wr.tape, RunEnd(m, n), b)
    BY <1>3, <1>5, <1>7, <1>10, <1>23, <1>31, <1>33, HeadLaid
<1>35. PICK p, rs, os, vl, ll : p = RunEnd(m, n) /\ rs = RunSize(n) /\ os = OffsetSize(off) /\ vl = Len(v) /\ ll = Len(lv)
    OBVIOUS
<1>36. /\ p = mt + (1 + ll) + rs + 1 /\ rs \in 0 .. 1 /\ os \in 1 .. 2 /\ (Long(off) => os = 2)
       /\ vl \in Nat /\ ll \in Nat /\ p \in Nat
    <2>1. rs \in 0 .. 1 /\ os \in 1 .. 2 /\ (Long(off) => os = 2)
      BY <1>35 DEF RunSize, OffsetSize
    <2>2. p = mt + (1 + ll) + rs + 1
      BY <1>14, <1>23, <1>34, <1>35
    <2>3. vl \in Nat /\ ll \in Nat
      BY <1>13, <1>15, <1>35
    <2>4. mt \in Nat
      BY <1>23
    <2>5. p \in Nat
      BY <2>1, <2>2, <2>3, <2>4
    <2> QED BY <2>1, <2>2, <2>3, <2>5
<1>37. HoldsBytes(wr.tape, p, o) /\ HoldsBytes(wr.tape, p + os, v)
    <2>1. HoldsBytes(wr.tape, p, o \o v)
      BY <1>16, <1>34, <1>35
    <2>2. HoldsBytes(wr.tape, p, o) /\ HoldsBytes(wr.tape, p + Len(o), v)
      BY <1>11, <1>13, <1>36, <2>1, HoldsJoined
    <2> QED BY <1>11, <1>35, <2>2
<1>38. /\ HoldsByte(wr.tape, p, Negated(off) % 256)
       /\ Long(off) => HoldsByte(wr.tape, p + 1, (Negated(off) \div 256) % 256)
    <2>1. Len(o) = os /\ os \in Nat /\ os >= 1 /\ (Long(off) => os >= 2)
      BY <1>11, <1>35, <1>36
    <2>2. HoldsByte(wr.tape, p, o[1]) /\ (Long(off) => HoldsByte(wr.tape, p + 1, o[2]))
      BY <1>36, <1>37, <2>1, HoldsFirst
    <2> QED BY <1>11, <2>2
<1>39. e.len = (ml + n) + len /\ e.tape = p + os + vl - 1
    <2>1. e.len = Len(sq) /\ e.tape = Len(wr.tape)
      BY <1>21 DEF Mark
    <2>2. Len(wr.tape) = mt + Len(a) + rs + Len(b)
      BY <1>20, <1>23, <1>35 DEF Lays
    <2>3. Len(a) = 1 + ll /\ Len(b) = os + vl
      BY <1>11, <1>18, <1>35
    <2>4. Len(wr.tape) = mt + (1 + ll) + rs + (os + vl)
      BY <2>2, <2>3
    <2>5. PICK et : et = e.tape
      OBVIOUS
    <2>6. et = mt + (1 + ll) + rs + (os + vl)
      BY <2>1, <2>4, <2>5
    <2>7. et = p + os + vl - 1
      BY <1>23, <1>36, <2>6
    <2> QED BY <1>31, <2>1, <2>5, <2>7
<1>40. MatchAt(wr.tape, sq, ml + n, p, token, e)
    <2>1. /\ HoldsBytes(wr.tape, p + OffsetSize(off), MatchVarlen(len - MIN_MATCH))
          /\ e.tape = p + OffsetSize(off) + Len(MatchVarlen(len - MIN_MATCH)) - 1
      BY <1>0, <1>1, <1>35, <1>37, <1>39
    <2>2. token % 16 = Smaller(len - MIN_MATCH, MATCH_RUN) /\ (token >= 128) = Long(off)
      BY <1>0, <1>7, <1>10
    <2>3. len \in SixteenBits /\ off \in SixteenBits /\ len >= MIN_MATCH
      BY <1>3, TrialBits
    <2>4. e.len = (ml + n) + len
      BY <1>39
    <2> QED BY <1>32, <1>38, <2>1, <2>2, <2>3, <2>4, Zenon DEF MatchAt
<1>41. Makes(wr, covered, "encode")
    <2>1. Lzsa1At(wr.tape, sq, m, e, FALSE)
      <3>1. RestAt(wr.tape, sq, m.len + n, RunEnd(m, n), token, e, FALSE)
        BY <1>22, <1>35, <1>40 DEF RestAt
      <3> QED BY <1>5, <1>10, <1>34, <3>1 DEF Lzsa1At
    <2>2. UnitAt("lzsa1", wr.tape, sq, m, e, "encode" # "encode")
      BY <2>1 DEF UnitAt
    <2> QED BY <1>3, <1>21, <2>2 DEF Makes
<1>42. bits \in Int /\ bits = 8 * (Len(a) + n + Len(b))
    <2>1. PICK z : z = IF Long(off) THEN 16 ELSE 8
      OBVIOUS
    <2>2. z = 8 * os /\ os \in Nat
      BY <1>35, <1>36, <2>1 DEF OffsetSize
    <2>3. bits = 8 * n + 8 * ll + 8 + 8 * os + 8 * vl
      BY <1>2, <1>13, <1>15, <1>35, <2>1, <2>2
    <2>4. Len(a) = 1 + ll /\ Len(b) = os + vl
      BY <1>11, <1>18, <1>35
    <2>5. bits \in Int /\ bits = 8 * ((1 + ll) + n + (os + vl))
      BY <1>5, <1>36, <2>2, <2>3
    <2> QED BY <2>4, <2>5
<1>43. Adds(wr, covered, "Match", 0, bits)
    BY <1>4, <1>14, <1>16, <1>21
<1> QED BY <1>3, <1>5, <1>18, <1>20, <1>28, <1>41, <1>42, <1>43, EncoderStep

LEMMA Lzsa1FinishStep ==
    ASSUME AlignedInv, NEW n \in trial.runs \cup {0}, Lzsa1Finish(n)
    PROVE  AlignedInv'
<1>1. PICK token, lv, b, z : /\ token = 16 * Smaller(n, LIT_RUN) + 15 /\ lv = LitVarlen(n)
                             /\ b = <<0, z, 0, 0>> /\ z = 238
    OBVIOUS
<1>2. /\ phase = "encode" /\ trial.format = "lzsa1"
    BY DEF Lzsa1Finish, Encoding
<1>3. HandOver(Written(Bytes(<<token>> \o LitVarlen(n)) \o Run(n) \o Bytes(b)), Fresh(n), "Token", 0)
    BY <1>1 DEF Lzsa1Finish, Finish, Hand
<1>4. n \in Words /\ n \in Nat
    <2>1. n \in SixteenBits \cup {0}
      BY TrialBits
    <2>2. 0 \in Words
      BY SMT DEF Words
    <2> QED BY <2>1, <2>2, SixteenIsWord
<1>5. PICK h, x, y : h = 0 /\ x = Smaller(n, LIT_RUN) /\ y = 15
    OBVIOUS
<1>6. h \in 0 .. 1 /\ x \in 0 .. 7 /\ y \in 0 .. 15 /\ token = TokenOf(h, x, y)
    <2>1. LIT_RUN = 7
      BY DEF LIT_RUN
    <2>2. x \in 0 .. 7
      BY <1>4, <1>5, <2>1 DEF Smaller
    <2> QED BY <1>1, <1>5, <2>2 DEF TokenOf
<1>7. token \in Octets /\ token \in Nat /\ (token % 128) \div 16 = x /\ token % 16 = MATCH_RUN /\ token < 128
    <2>1. TokenParts(token, h, x, y)
      BY <1>6, TokenIs
    <2>2. token \in Octets /\ token \in Nat /\ (token % 128) \div 16 = x /\ token % 16 = y /\ ~(token >= 128)
      BY <1>5, <2>1 DEF TokenParts
    <2> QED BY <1>5, <2>2 DEF MATCH_RUN
<1>8. b \in Seq(Nat) /\ Len(b) = 4
    <2>1. z \in Nat
      BY <1>1
    <2> QED BY <1>1, <2>1, MarkerIs
<1>9. lv \in Seq(Nat) /\ Len(lv) \in Nat
    BY <1>1, <1>4, LitIsWritten DEF LitWritten
<1>10. PICK t, a, wr : t = <<token>> /\ a = t \o lv /\ wr = Written(Bytes(a) \o Run(n) \o Bytes(b))
    OBVIOUS
<1>11. t \in Seq(Nat) /\ Len(t) = 1
    BY <1>7, <1>10, OneByte
<1>12. a \in Seq(Nat) /\ Len(a) = 1 + Len(lv)
    <2>1. a \in Seq(Nat) /\ Joins(a, t, lv)
      BY <1>9, <1>10, <1>11, JoinIs
    <2> QED BY <1>11, <2>1 DEF Joins
<1>13. /\ input \in Seq(Nat) /\ Len(input) \in Nat /\ Len(tape) \in Nat /\ TapeInv
       /\ marks[Len(marks)].len = Len(input) /\ marks[Len(marks)].tape = Len(tape)
    BY <1>2, AtTheEnd
<1>14. Lays(wr, a, n, b)
    BY <1>4, <1>8, <1>10, <1>12, <1>13, UnitLays
<1>15. PICK fr, sq, m, e :
          fr = Fresh(n) /\ sq = input \o fr /\ m = marks[Len(marks)] /\ e = Mark(wr, Len(sq), 0)
    OBVIOUS
<1>16. PICK ml, mt : ml = m.len /\ mt = m.tape
    OBVIOUS
<1>17. ml \in Nat /\ mt \in Nat /\ ml = Len(input) /\ mt = Len(tape) /\ m.len = Len(input) /\ m.tape = Len(tape)
    BY <1>13, <1>15, <1>16
<1>18. fr \in Seq(Nat) /\ Len(fr) = n
    BY <1>4, <1>13, <1>15, FreshIs
<1>19. Len(sq) = ml + n /\ \A j \in 1 .. n : sq[Len(input) + j] = Fresh(n)[j]
    <2>1. Joins(sq, input, fr)
      BY <1>13, <1>15, <1>18, JoinIs
    <2> QED BY <1>15, <1>17, <1>18, <2>1 DEF Joins
<1>20. Lays(wr, <<token>> \o LitVarlen(n), n, b)
    BY <1>1, <1>10, <1>14
<1>21. /\ HeadAt(wr.tape, sq, m, n, token)
       /\ RunEnd(m, n) = Len(tape) + (1 + Len(LitVarlen(n))) + RunSize(n) + 1
       /\ HoldsBytes(wr.tape, RunEnd(m, n), b)
    BY <1>2, <1>4, <1>5, <1>7, <1>17, <1>19, <1>20, HeadLaid
<1>22. PICK p, rs, ll : p = RunEnd(m, n) /\ rs = RunSize(n) /\ ll = Len(lv)
    OBVIOUS
<1>23. p = mt + (1 + ll) + rs + 1 /\ rs \in 0 .. 1 /\ ll \in Nat /\ p \in Nat
    <2>1. rs \in 0 .. 1
      BY <1>22 DEF RunSize
    <2>2. p = mt + (1 + ll) + rs + 1
      BY <1>1, <1>17, <1>21, <1>22
    <2>3. ll \in Nat
      BY <1>9, <1>22
    <2> QED BY <1>17, <2>1, <2>2, <2>3
<1>24. HoldsByte(wr.tape, p, 0) /\ HoldsBytes(wr.tape, p + 1, <<238, 0, 0>>)
    <2>1. HoldsBytes(wr.tape, p, <<0, 238, 0, 0>>)
      BY <1>1, <1>21, <1>22
    <2> QED BY <1>23, <2>1, MarkerHeld
<1>25. e.len = ml + n /\ e.tape = p + 3
    <2>1. e.len = Len(sq) /\ e.tape = Len(wr.tape)
      BY <1>15 DEF Mark
    <2>2. Len(wr.tape) = mt + Len(a) + rs + Len(b)
      BY <1>14, <1>17, <1>22 DEF Lays
    <2>3. Len(wr.tape) = mt + (1 + ll) + rs + 4
      BY <1>8, <1>12, <1>22, <2>2
    <2>4. PICK et : et = e.tape
      OBVIOUS
    <2>5. et = p + 3
      BY <1>17, <1>23, <2>1, <2>3, <2>4
    <2> QED BY <1>19, <2>1, <2>4, <2>5
<1>26. Makes(wr, fr, "decode")
    <2>1. StopAt(wr.tape, ml + n, p, token, e)
      BY <1>7, <1>24, <1>25 DEF StopAt
    <2>2. Lzsa1At(wr.tape, sq, m, e, TRUE)
      <3>1. RestAt(wr.tape, sq, m.len + n, RunEnd(m, n), token, e, TRUE)
        BY <1>16, <1>22, <2>1 DEF RestAt
      <3> QED BY <1>4, <1>7, <1>21, <3>1 DEF Lzsa1At
    <2>3. UnitAt("lzsa1", wr.tape, sq, m, e, "decode" # "encode")
      BY <2>2 DEF UnitAt
    <2> QED BY <1>2, <1>15, <2>3 DEF Makes
<1>27. HandOver(wr, fr, "Token", 0)
    BY <1>1, <1>3, <1>10, <1>15
<1> QED BY <1>2, <1>4, <1>8, <1>12, <1>14, <1>18, <1>26, <1>27, FinishStep

-----------------------------------------------------------------------------
(* A step of the decoder.                                                  *)

LEMMA BehindNat == ASSUME TapeInv, NEW p \in 0 .. Len(tape) PROVE Behind(tape, p) \in Nat
<1>1. CASE p = 0
    BY <1>1 DEF Behind
<1>2. CASE p # 0
    <2>1. tape \in Seq(TapeByte \cup TapeRun) /\ Len(tape) \in Nat
      BY LenProperties DEF TapeInv, TapeOf
    <2>2. p \in 1 .. Len(tape)
      BY <1>2, <2>1
    <2>3. tape[p] \in TapeByte \cup TapeRun
      BY <2>1, <2>2, ElementOfSeq
    <2>4. tape[p].ip \in Nat
      BY <2>3 DEF TapeByte, TapeRun
    <2> QED BY <1>2, <2>4 DEF Behind
<1> QED BY <1>1, <1>2

\* One symbol more takes its size.
LEMMA BehindNext ==
    ASSUME TapeInv, NEW p \in 1 .. Len(tape)
    PROVE  Behind(tape, p) = Behind(tape, p - 1) + SizeOf(tape[p]) /\ SizeOf(tape[p]) \in Nat
<1>1. tape \in Seq(TapeByte \cup TapeRun) /\ Len(tape) \in Nat
    BY LenProperties DEF TapeInv, TapeOf
<1>2. PICK x : x = tape[p]
    OBVIOUS
<1>3. x \in TapeByte \cup TapeRun
    BY <1>1, <1>2, ElementOfSeq
<1>4. SizeOf(x) \in Nat
    <2>1. CASE x \in TapeByte
      <3>1. x.kind = "byte"
        BY <2>1 DEF TapeByte
      <3> QED BY <3>1 DEF SizeOf
    <2>2. CASE x \in TapeRun
      <3>1. x.val \in Seq(Nat)
        BY <2>2 DEF TapeRun
      <3>2. Len(x.val) \in Nat
        BY <3>1, LenProperties
      <3> QED BY <3>2 DEF SizeOf
    <2> QED BY <1>3, <2>1, <2>2
<1>5. tape[p].ip = Behind(tape, p - 1) + SizeOf(tape[p])
    BY DEF TapeInv, TapeOf
<1>6. Behind(tape, p) = tape[p].ip
    BY <1>1 DEF Behind
<1> QED BY <1>2, <1>4, <1>5, <1>6

LEMMA BehindGrows ==
    ASSUME TapeInv, NEW p \in Nat
    PROVE  \A d \in Nat : p + d <= Len(tape) => Behind(tape, p) <= Behind(tape, p + d)
<1> DEFINE Bad == {d \in Nat : ~(p + d <= Len(tape) => Behind(tape, p) <= Behind(tape, p + d))}
<1>1. ASSUME Bad # {} PROVE FALSE
    <2>1. PICK d \in Bad : \A y \in Bad : d <= y
      <3>1. Bad \in SUBSET Nat
        OBVIOUS
      <3> HIDE DEF Bad
      <3> QED BY <1>1, <3>1, LeastNatural
    <2>2. d \in Nat /\ p + d <= Len(tape) /\ ~(Behind(tape, p) <= Behind(tape, p + d))
      BY <2>1
    <2>3. Len(tape) \in Nat
      BY LenProperties DEF TapeInv, TapeOf
    <2>4. CASE d = 0
      <3>1. p \in 0 .. Len(tape) /\ p + d = p
        BY <2>2, <2>3, <2>4
      <3>2. Behind(tape, p) \in Nat
        BY <3>1, BehindNat
      <3> QED BY <2>2, <3>1, <3>2
    <2>5. CASE d # 0
      <3>1. PICK q, c : q = p + d /\ c = d - 1
        OBVIOUS
      <3>2. /\ c \in Nat /\ ~(d <= c) /\ p + c = q - 1 /\ p + c <= Len(tape)
            /\ q \in 1 .. Len(tape) /\ q \in 0 .. Len(tape) /\ q - 1 \in 0 .. Len(tape) /\ p \in 0 .. Len(tape)
        BY <2>2, <2>3, <2>5, <3>1
      <3>3. Behind(tape, p) <= Behind(tape, q - 1)
        <4>1. c \notin Bad
          <5> HIDE DEF Bad
          <5> QED BY <2>1, <3>2
        <4> QED BY <3>2, <4>1
      <3>4. Behind(tape, q) = Behind(tape, q - 1) + SizeOf(tape[q]) /\ SizeOf(tape[q]) \in Nat
        BY <3>2, BehindNext
      <3>5. PICK a, b, e, s : a = Behind(tape, p) /\ b = Behind(tape, q - 1) /\ e = Behind(tape, q) /\ s = SizeOf(tape[q])
        OBVIOUS
      <3>6. a \in Nat /\ b \in Nat /\ s \in Nat
        BY <3>2, <3>4, <3>5, BehindNat
      <3>7. a <= b /\ e = b + s
        BY <3>3, <3>4, <3>5
      <3>8. a <= e
        BY <3>6, <3>7
      <3> QED BY <2>2, <3>1, <3>5, <3>8
    <2> QED BY <2>4, <2>5
<1> QED BY <1>1

LEMMA ConsumedIs == ASSUME NEW p \in Nat PROVE Consumed(p) = Behind(tape, p - 1)
BY DEF Consumed, Behind

\* The output goes on as the input does.
Follows(o, n) == o \in Seq(Nat) /\ Len(o) = Len(out) + n /\ Begins(o, input)

LEMMA Grows ==
    ASSUME out \in Seq(Nat), input \in Seq(Nat), Begins(out, input), NEW x \in Seq(Nat), NEW n \in Nat, Len(x) = n,
           Len(out) + n <= Len(input), \A i \in 1 .. n : x[i] = input[Len(out) + i]
    PROVE  Follows(out \o x, n)
<1>1. PICK l, o : l = Len(out) /\ o = out \o x
    OBVIOUS
<1>2. l \in Nat /\ Len(input) \in Nat
    BY <1>1, LenProperties
<1>3. o \in Seq(Nat) /\ Joins(o, out, x)
    BY <1>1, JoinIs
<1>4. Len(o) = l + n /\ (\A i \in 1 .. l : o[i] = out[i]) /\ \A i \in 1 .. n : o[l + i] = x[i]
    BY <1>1, <1>3 DEF Joins
<1>5. \A i \in 1 .. l : out[i] = input[i]
    BY <1>1 DEF Begins
<1>6. ASSUME NEW j \in 1 .. Len(o) PROVE o[j] = input[j]
    <2>1. CASE j <= l
      <3>1. j \in 1 .. l
        BY <1>2, <1>4, <2>1
      <3> QED BY <1>4, <1>5, <3>1
    <2>2. CASE ~(j <= l)
      <3>1. PICK i : i = j - l
        OBVIOUS
      <3>2. i \in 1 .. n /\ j = l + i
        BY <1>2, <1>4, <2>2, <3>1
      <3> QED BY <1>1, <1>4, <3>2
    <2> QED BY <2>1, <2>2
<1>7. Begins(o, input)
    BY <1>1, <1>4, <1>6 DEF Begins
<1> QED BY <1>1, <1>3, <1>4, <1>7 DEF Follows

LEMMA CopyGrows ==
    ASSUME out \in Seq(Nat), input \in Seq(Nat), Begins(out, input), NEW n \in Nat, NEW off,
           Len(out) + n <= Len(input), Copies(input, Len(out), off, n)
    PROVE  Follows(Copied(off, n), n)
<1>1. PICK l, x : l = Len(out) /\ x = Repeats(out, off, n)
    OBVIOUS
<1>2. l \in Nat
    BY <1>1, LenProperties
<1>3. off \in 1 .. l /\ \A j \in 1 .. n : input[l + j] = input[l - off + 1 + ((j - 1) % off)]
    BY <1>1 DEF Copies
<1>4. x \in Seq(Nat) /\ Len(x) = n /\ \A j \in 1 .. n : x[j] = out[l - off + 1 + ((j - 1) % off)]
    BY <1>1, <1>3, RepeatsAre
<1>5. ASSUME NEW j \in 1 .. n PROVE x[j] = input[l + j]
    <2>1. PICK i : i = l - off + 1 + ((j - 1) % off)
      OBVIOUS
    <2>4. j \in Nat /\ j >= 1 /\ off \in 1 .. l
      BY <1>3
    <2>5. l - off + 1 + ((j - 1) % off) \in 1 .. l
      BY <1>2, <2>4, CopyIndex
    <2>2. i \in 1 .. l
      BY <2>1, <2>5
    <2>3. out[i] = input[i]
      BY <1>1, <2>2 DEF Begins
    <2> QED BY <1>3, <1>4, <2>1, <2>3
<1>6. Follows(out \o x, n)
    BY <1>1, <1>4, <1>5, Grows
<1> QED BY <1>1, <1>6 DEF Copied

\* Where the decoder is.
LEMMA Reader ==
    ASSUME AlignedInv, phase = "decode"
    PROVE  /\ out \in Seq(Nat) /\ input \in Seq(Nat) /\ Begins(out, input) /\ TapeInv
           /\ Len(out) \in Nat /\ Len(input) \in Nat /\ Len(tape) \in Nat /\ w.bytes \in Nat
           /\ max_gap \in Int /\ peak \in Int
           /\ marks \in Seq(MarkOf) /\ Len(marks) \in Nat /\ Len(marks) >= 2
           /\ \A k \in 1 .. Len(marks) :
                  marks[k].len \in Nat /\ marks[k].tape \in Nat /\ marks[k].len <= Len(input) /\ marks[k].tape <= Len(tape)
           /\ marks[Len(marks)].len = Len(input) /\ marks[Len(marks)].tape = Len(tape)
<1>1. out \in Seq(Nat) /\ input \in Seq(Nat) /\ max_gap \in Int /\ peak \in Int /\ TapeInv
    BY DEF AlignedInv
<1>2. Begins(out, input)
    BY DEF AlignedInv, ReaderInv
<1>3. Len(out) \in Nat /\ Len(input) \in Nat /\ Len(tape) \in Nat
    BY <1>1, LenProperties DEF TapeInv, TapeOf
<1>4. w.bytes \in Nat
    BY <1>1 DEF TapeInv, TapeOf, Writers
<1>5. MarksOf(trial.format, "decode", marks, tape, input)
    BY DEF AlignedInv, MarksInv
<1>6. /\ marks \in Seq(MarkOf) /\ Len(marks) >= 2
      /\ marks[Len(marks)].len = Len(input) /\ marks[Len(marks)].tape = Len(tape)
      /\ \A k \in 1 .. Len(marks) : marks[k].len <= Len(input) /\ marks[k].tape <= Len(tape)
    BY <1>5 DEF MarksOf
<1>7. Len(marks) \in Nat
    BY <1>6, LenProperties
<1>8. \A k \in 1 .. Len(marks) : marks[k].len \in Nat /\ marks[k].tape \in Nat
    <2>1. \A k \in 1 .. Len(marks) : marks[k] \in MarkOf
      BY <1>6, ElementOfSeq
    <2> QED BY <2>1 DEF MarkOf
<1> QED BY <1>1, <1>2, <1>3, <1>4, <1>6, <1>7, <1>8

LEMMA UnitRead ==
    ASSUME AlignedInv, phase = "decode", NEW k \in 1 .. Len(marks) - 1
    PROVE  UnitAt(trial.format, tape, input, marks[k], marks[k + 1], k = Len(marks) - 1)
<1>1. MarksOf(trial.format, "decode", marks, tape, input)
    BY DEF AlignedInv, MarksInv
<1>2. UnitAt(trial.format, tape, input, marks[k], marks[k + 1], "decode" # "encode" /\ k = Len(marks) - 1)
    BY <1>1 DEF MarksOf
<1>3. ("decode" # "encode" /\ k = Len(marks) - 1) = (k = Len(marks) - 1)
    OBVIOUS
<1> QED BY <1>2, <1>3

\* The stream stays as it is.
LEMMA StreamStays ==
    ASSUME AlignedInv, phase = "decode", UNCHANGED written, phase' \in {"decode", "done"}
    PROVE  /\ TapeInv' /\ MarksInv' /\ trial' = trial /\ input' = input /\ tape' = tape /\ marks' = marks /\ w' = w
           /\ trial' \in Trials /\ input' \in Seq(Nat) /\ prev' \in {"Start", "Literals", "Match"} /\ last' = 0
           /\ predicted' \in Int
<1>1. /\ trial' = trial /\ input' = input /\ tape' = tape /\ marks' = marks /\ w' = w
      /\ prev' = prev /\ last' = last /\ predicted' = predicted
    BY DEF written
<1>2. TapeInv'
    BY <1>1 DEF AlignedInv, TapeInv
<1>3. MarksOf(trial.format, "decode", marks, tape, input)
    BY DEF AlignedInv, MarksInv
<1>4. PICK ph : ph = phase'
    OBVIOUS
<1>5. \A k \in 1 .. Len(marks) - 1 :
          ("decode" # "encode" /\ k = Len(marks) - 1) = (ph # "encode" /\ k = Len(marks) - 1)
    BY <1>4
<1>6. \A k \in 1 .. Len(marks) - 1 :
          UnitAt(trial.format, tape, input, marks[k], marks[k + 1], ph # "encode" /\ k = Len(marks) - 1)
    BY <1>3, <1>5 DEF MarksOf
<1>7. MarksOf(trial.format, ph, marks, tape, input)
    BY <1>3, <1>6 DEF MarksOf
<1>8. MarksInv'
    BY <1>1, <1>4, <1>7 DEF MarksInv
<1> QED BY <1>1, <1>2, <1>8 DEF AlignedInv

\* To the next mark ...
LEMMA ToMark ==
    ASSUME AlignedInv, phase = "decode", NEW k \in 1 .. Len(marks) - 1, k # Len(marks) - 1,
           NEW n, Len(out) + n = marks[k + 1].len, NEW o, Follows(o, n),
           Produces(o, marks[k + 1].tape + 1), Goes(marks[k + 1].tape + 1, "Token", 0),
           max_gap' \in Int, peak <= max_gap'
    PROVE  AlignedInv'
<1>1. PICK p : p = marks[k + 1].tape + 1
    OBVIOUS
<1>2. /\ Len(tape) \in Nat /\ Len(marks) \in Nat /\ peak \in Int /\ w.bytes \in Nat /\ TapeInv
      /\ \A i \in 1 .. Len(marks) :
             marks[i].len \in Nat /\ marks[i].tape \in Nat /\ marks[i].len <= Len(input) /\ marks[i].tape <= Len(tape)
    BY Reader
<1>3. k + 1 \in 1 .. Len(marks) - 1 /\ k + 1 \in 1 .. Len(marks)
    BY <1>2
<1>4. p \in Nat /\ p >= 1 /\ p - 1 \in 0 .. Len(tape)
    <2>1. PICK mt, tl : mt = marks[k + 1].tape /\ tl = Len(tape)
      OBVIOUS
    <2>2. mt \in Nat /\ tl \in Nat /\ mt <= tl
      BY <1>2, <1>3, <2>1
    <2>3. p = mt + 1
      BY <1>1, <2>1
    <2>4. p \in Nat /\ p >= 1 /\ p - 1 \in 0 .. tl
      BY <2>2, <2>3
    <2> QED BY <2>1, <2>4
<1>5. o \in Seq(Nat) /\ Len(o) = marks[k + 1].len /\ Begins(o, input)
    BY DEF Follows
<1>6. /\ out' = o /\ rd' = p /\ d_state' = "Token" /\ d_last' = 0 /\ phase' = phase /\ UNCHANGED written
      /\ peak' = IF Consumed(p) < w.bytes THEN Larger(peak, Len(o) - Consumed(p)) ELSE peak
    BY <1>1 DEF Produces, Goes, Reads
<1>7. /\ TapeInv' /\ MarksInv' /\ trial' = trial /\ input' = input /\ tape' = tape /\ marks' = marks /\ w' = w
      /\ trial' \in Trials /\ input' \in Seq(Nat) /\ prev' \in {"Start", "Literals", "Match"} /\ last' = 0
      /\ predicted' \in Int
    BY <1>6, StreamStays
<1>8. PICK a, c, l, g : a = Ahead(o, tape, p) /\ c = Consumed(p) /\ l = Len(o) /\ g = max_gap'
    OBVIOUS
<1>9. c \in Nat /\ l \in Nat /\ a = l - c /\ a \in Int /\ g \in Int
    <2>1. c = Behind(tape, p - 1)
      BY <1>4, <1>8, ConsumedIs
    <2>2. c \in Nat
      BY <1>2, <1>4, <2>1, BehindNat
    <2>3. l \in Nat
      BY <1>2, <1>3, <1>5, <1>8
    <2>4. a = l - c
      BY <1>8, <2>1 DEF Ahead
    <2> QED BY <1>8, <2>2, <2>3, <2>4, SMTT(30)
<1>10. peak' \in Int /\ peak' <= Larger(g, a)
    <2>1. peak <= g /\ peak \in Int
      BY <1>2, <1>8
    <2>2. peak' = IF c < w.bytes THEN Larger(peak, a) ELSE peak
      BY <1>6, <1>8, <1>9
    <2>3. peak' = peak \/ peak' = Larger(peak, a)
      BY <2>2
    <2> QED BY <1>9, <2>1, <2>3 DEF Larger
<1>11. AtMark(k + 1)'
    BY <1>1, <1>5, <1>6, <1>7 DEF AtMark
<1>12. Standing(k + 1)'
    BY <1>6, <1>7, <1>8, <1>10, <1>11 DEF Standing
<1>13. ReaderInv'
    BY <1>3, <1>5, <1>6, <1>7, <1>12 DEF ReaderInv
<1>14. 0 \in Octets
    BY SMT DEF Octets
<1> QED BY <1>4, <1>5, <1>6, <1>7, <1>10, <1>13, <1>14 DEF AlignedInv

\* ... to the middle of a command ...
LEMMA ToRest ==
    ASSUME AlignedInv, phase = "decode", trial.format = "lzsa1", NEW k \in 1 .. Len(marks) - 1,
           NEW n, NEW o, Follows(o, n), NEW p \in Nat, p >= 1, NEW token \in Octets,
           RestAt(tape, input, Len(o), p, token, marks[k + 1], k = Len(marks) - 1),
           Produces(o, p), Goes(p, "Match", token),
           max_gap' \in Int, peak <= max_gap', Consumed(p) \in Nat, Len(o) - Consumed(p) <= max_gap'
    PROVE  AlignedInv'
<1>1. peak \in Int
    BY Reader
<1>2. o \in Seq(Nat) /\ Begins(o, input) /\ Len(o) \in Nat
    <2>1. o \in Seq(Nat) /\ Begins(o, input)
      BY DEF Follows
    <2> QED BY <2>1, LenProperties
<1>3. /\ out' = o /\ rd' = p /\ d_state' = "Match" /\ d_last' = token /\ phase' = phase /\ UNCHANGED written
      /\ peak' = IF Consumed(p) < w.bytes THEN Larger(peak, Len(o) - Consumed(p)) ELSE peak
    BY DEF Produces, Goes, Reads
<1>4. /\ TapeInv' /\ MarksInv' /\ trial' = trial /\ input' = input /\ tape' = tape /\ marks' = marks /\ w' = w
      /\ trial' \in Trials /\ input' \in Seq(Nat) /\ prev' \in {"Start", "Literals", "Match"} /\ last' = 0
      /\ predicted' \in Int
    BY <1>3, StreamStays
<1>5. peak' \in Int /\ peak' <= max_gap'
    <2>1. PICK c, l, g : c = Consumed(p) /\ l = Len(o) /\ g = max_gap'
      OBVIOUS
    <2>2. c \in Nat /\ l \in Nat /\ g \in Int /\ l - c <= g /\ peak <= g
      BY <1>2, <2>1
    <2>3. peak' = IF c < w.bytes THEN Larger(peak, l - c) ELSE peak
      BY <1>3, <2>1
    <2>4. peak' \in Int /\ peak' <= g
      BY <1>1, <2>2, <2>3 DEF Larger
    <2> QED BY <2>1, <2>4
<1>6. InCommand(k)'
    BY <1>3, <1>4 DEF InCommand
<1>7. Standing(k)'
    BY <1>5, <1>6 DEF Standing
<1>8. ReaderInv'
    BY <1>2, <1>3, <1>4, <1>7 DEF ReaderInv
<1> QED BY <1>2, <1>3, <1>4, <1>5, <1>8 DEF AlignedInv

\* ... and to the end.
LEMMA ToEnd ==
    ASSUME AlignedInv, phase = "decode", NEW k, k = Len(marks) - 1, Len(out) = marks[k + 1].len,
           Ends(marks[k + 1].tape + 1), max_gap' \in Int, peak <= max_gap'
    PROVE  AlignedInv'
<1>1. PICK p : p = marks[k + 1].tape + 1
    OBVIOUS
<1>2. /\ Len(tape) \in Nat /\ Len(marks) \in Nat /\ out \in Seq(Nat) /\ Begins(out, input)
      /\ marks[Len(marks)].len = Len(input) /\ marks[Len(marks)].tape = Len(tape)
    BY Reader
<1>3. k + 1 = Len(marks)
    BY <1>2
<1>4. p = Len(tape) + 1 /\ Len(out) = Len(input)
    BY <1>1, <1>2, <1>3
<1>5. /\ rd' = p /\ phase' = "done" /\ UNCHANGED written
      /\ out' = out /\ peak' = peak /\ d_last' = d_last
    BY <1>1 DEF Ends, encoder
<1>6. /\ TapeInv' /\ MarksInv' /\ trial' = trial /\ input' = input /\ tape' = tape /\ marks' = marks /\ w' = w
      /\ trial' \in Trials /\ input' \in Seq(Nat) /\ prev' \in {"Start", "Literals", "Match"} /\ last' = 0
      /\ predicted' \in Int
    BY <1>5, StreamStays
<1>7. ReaderInv'
    BY <1>2, <1>4, <1>5, <1>6 DEF ReaderInv
<1>8. d_last' \in Octets /\ peak' \in Int
    BY <1>5 DEF AlignedInv
<1>9. rd' \in Nat
    BY <1>2, <1>4, <1>5
<1> QED BY <1>2, <1>5, <1>6, <1>7, <1>8, <1>9 DEF AlignedInv

\* Offsets as they are read.
LEMMA BoltOffset ==
    ASSUME NEW off \in SixteenBits
    PROVE  (65536 - ((Negated(off) % 256) + 256 * (Negated(off) \div 256))) % 65536 = off
<1>1. off \in Int /\ 1 <= off /\ off <= 65535
    BY SMT DEF SixteenBits
<1>2. Negated(off) \in Words
    BY NegatedIs
<1>3. PICK lo \in Octets, hi \in Octets :
          /\ Negated(off) % 256 = lo /\ Negated(off) \div 256 = hi
          /\ WordOf(lo, hi) = Negated(off)
    BY <1>2, WordIs
<1>4. (Negated(off) % 256) + 256 * (Negated(off) \div 256) = 65536 - off
    <2>1. lo + 256 * hi = 65536 - off
      BY <1>3 DEF WordOf, Negated
    <2> QED BY <1>3, <2>1
<1>5. 65536 - (65536 - off) = off /\ off % 65536 = off
    BY <1>1, SMT
<1> QED BY <1>4, <1>5

LEMMA Lzsa1Offset ==
    ASSUME NEW off \in SixteenBits, NEW lo, lo = Negated(off) % 256, NEW hi,
           Long(off) => hi = (Negated(off) \div 256) % 256
    PROVE  1 + (255 - lo) + (IF Long(off) THEN 256 * (255 - hi) ELSE 0) = off
<1>1. off \in Int /\ 1 <= off /\ off <= 65535
    BY SMT DEF SixteenBits
<1>2. Negated(off) \in Words
    BY NegatedIs
<1>3. PICK l \in Octets, h \in Octets :
          /\ Negated(off) % 256 = l /\ Negated(off) \div 256 = h /\ h % 256 = h
          /\ WordOf(l, h) = Negated(off)
    BY <1>2, WordIs
<1>4. l \in Int /\ h \in Int /\ 0 <= l /\ l <= 255 /\ 0 <= h /\ h <= 255
    BY SMT DEF Octets
<1>5. l + 256 * h = 65536 - off
    BY <1>3 DEF WordOf, Negated
<1>6. lo = l /\ (Long(off) => hi = h)
    BY <1>3
<1>7. CASE Long(off)
    <2>1. 1 + (255 - l) + 256 * (255 - h) = off
      BY <1>1, <1>4, <1>5, SMT
    <2> QED BY <1>6, <1>7, <2>1
<1>8. CASE ~Long(off)
    <2>1. off <= 256
      BY <1>1, <1>8 DEF Long
    <2>2. h = 255
      BY <1>1, <1>4, <1>5, <2>1, SMT
    <2>3. 1 + (255 - l) + 0 = off
      BY <1>1, <1>4, <1>5, <2>2, SMT
    <2> QED BY <1>6, <1>8, <2>3
<1> QED BY <1>7, <1>8

\* The gap is taken before each token.
LEMMA TokenGap ==
    ASSUME AlignedInv, phase = "decode", NEW k \in 1 .. Len(marks) - 1, AtMark(k), Standing(k), max_gap' = Looked(out, rd)
    PROVE  /\ rd \in Nat /\ rd - 1 \in 0 .. Len(tape) /\ Ahead(out, tape, rd) \in Int
           /\ max_gap' \in Int /\ peak <= max_gap' /\ Ahead(out, tape, rd) <= max_gap'
<1>1. PICK mt, tl : mt = marks[k].tape /\ tl = Len(tape)
    OBVIOUS
<1>2. mt \in Nat /\ tl \in Nat /\ mt <= tl
    <2>1. k \in 1 .. Len(marks)
      <3>1. Len(marks) \in Nat
        BY Reader
      <3> QED BY <3>1
    <2> QED BY <1>1, <2>1, Reader
<1>3. rd = mt + 1 /\ d_state = "Token"
    BY <1>1 DEF AtMark
<1>4. rd \in Nat /\ rd - 1 \in 0 .. tl
    BY <1>2, <1>3
<1>5. PICK c, l, a : c = Consumed(rd) /\ l = Len(out) /\ a = Ahead(out, tape, rd)
    OBVIOUS
<1>6. c \in Nat /\ l \in Nat /\ a = l - c /\ max_gap \in Int /\ peak \in Int
    <2>1. c = Behind(tape, rd - 1)
      BY <1>4, <1>5, ConsumedIs
    <2>2. TapeInv /\ l \in Nat /\ max_gap \in Int /\ peak \in Int
      BY <1>5, Reader
    <2>3. c \in Nat
      BY <1>1, <1>4, <2>1, <2>2, BehindNat
    <2>4. a = l - c
      BY <1>5, <2>1 DEF Ahead
    <2> QED BY <2>2, <2>3, <2>4
<1>7. peak <= Larger(max_gap, a)
    <2>1. ~InCommand(k)
      BY <1>3 DEF InCommand
    <2> QED BY <1>5, <2>1 DEF Standing
<1>8. max_gap' = Larger(max_gap, a)
    BY <1>5, <1>6 DEF Looked
<1>9. max_gap' \in Int /\ peak <= max_gap' /\ a <= max_gap' /\ a \in Int
    BY <1>6, <1>7, <1>8 DEF Larger
<1> QED BY <1>1, <1>4, <1>5, <1>9

LEMMA BoltTokenStep ==
    ASSUME AlignedInv, BoltToken
    PROVE  AlignedInv'
<1>1. phase = "decode" /\ trial.format = "bolt" /\ d_state = "Token" /\ max_gap' = Looked(out, rd)
    BY DEF BoltToken, Decoding
<1>2. PICK t : t = At(rd)
    OBVIOUS
<1>3. \/ t = 0 /\ Ends(rd + 1)
      \/ t \in 1 .. MAX_LIT /\ Produces(out \o Raw(rd + 1, t), rd + 2) /\ Goes(rd + 2, "Token", 0)
      \/ /\ t >= 128
         /\ LET d == (65536 - (At(rd + 1) + 256 * At(rd + 2))) % 65536 IN
            Produces(Copied(d, (t % 128) + MIN_MATCH), rd + 3)
         /\ Goes(rd + 3, "Token", 0)
    BY <1>2 DEF BoltToken, MAX_LIT
<1>4. PICK k \in 1 .. Len(marks) - 1 : Standing(k)
    BY <1>1 DEF AlignedInv, ReaderInv
<1>5. AtMark(k)
    BY <1>1, <1>4 DEF Standing, InCommand
<1>6. rd \in Nat /\ max_gap' \in Int /\ peak <= max_gap'
    BY <1>1, <1>4, <1>5, TokenGap
<1>7. /\ out \in Seq(Nat) /\ input \in Seq(Nat) /\ Begins(out, input) /\ Len(out) \in Nat /\ Len(marks) \in Nat
      /\ \A i \in 1 .. Len(marks) :
             marks[i].len \in Nat /\ marks[i].tape \in Nat /\ marks[i].len <= Len(input) /\ marks[i].tape <= Len(tape)
    BY <1>1, Reader
<1>8. PICK m, e : m = marks[k] /\ e = marks[k + 1]
    OBVIOUS
<1>9. PICK ml, mt, el, et : ml = m.len /\ mt = m.tape /\ el = e.len /\ et = e.tape
    OBVIOUS
<1>10. k \in 1 .. Len(marks) /\ k + 1 \in 1 .. Len(marks)
    BY <1>7
<1>11. ml \in Nat /\ mt \in Nat /\ el \in Nat /\ et \in Nat /\ el <= Len(input)
    BY <1>7, <1>8, <1>9, <1>10
<1>12. rd = mt + 1 /\ Len(out) = ml
    BY <1>5, <1>8, <1>9 DEF AtMark
<1>13. UnitAt("bolt", tape, input, m, e, k = Len(marks) - 1)
    BY <1>1, <1>8, UnitRead
<1>14. CASE k = Len(marks) - 1
    <2>1. BoltStopAt(tape, m, e)
      BY <1>13, <1>14 DEF UnitAt
    <2>2. el = ml /\ et = mt + 1 /\ HoldsByte(tape, mt + 1, 0)
      BY <1>9, <2>1 DEF BoltStopAt
    <2>3. t = 0
      BY <1>2, <1>12, <2>2 DEF HoldsByte, At
    <2>4. t \notin 1 .. MAX_LIT /\ ~(t >= 128)
      BY <2>3 DEF MAX_LIT
    <2>5. Ends(rd + 1)
      BY <1>3, <2>4
    <2>6. rd + 1 = marks[k + 1].tape + 1 /\ Len(out) = marks[k + 1].len
      BY <1>8, <1>9, <1>12, <2>2
    <2> QED BY <1>1, <1>6, <1>14, <2>5, <2>6, ToEnd
<1>15. CASE k # Len(marks) - 1
    <2>1. BoltLiteralsAt(tape, input, m, e) \/ BoltMatchAt(tape, input, m, e)
      BY <1>13, <1>15 DEF UnitAt, BoltUnitAt
    <2>2. CASE BoltLiteralsAt(tape, input, m, e)
      <3>1. PICK n \in 1 .. MAX_LIT :
                /\ el = ml + n /\ et = mt + 2
                /\ HoldsByte(tape, mt + 1, n) /\ HoldsRun(tape, mt + 2, input, ml, n)
        BY <1>9, <2>2 DEF BoltLiteralsAt
      <3>2. n \in Nat /\ n # 0 /\ ~(n >= 128)
        BY DEF MAX_LIT
      <3>3. t = n
        BY <1>2, <1>12, <3>1 DEF HoldsByte, At
      <3>4. Produces(out \o Raw(rd + 1, n), rd + 2) /\ Goes(rd + 2, "Token", 0)
        BY <1>3, <3>2, <3>3
      <3>5. PICK x : x = tape[mt + 2].val
        OBVIOUS
      <3>6. Len(x) = n /\ \A j \in 1 .. n : x[j] = input[ml + j]
        BY <3>1, <3>5 DEF HoldsRun
      <3>7. Raw(rd + 1, n) = x
        <4>1. rd + 1 = mt + 2
          BY <1>11, <1>12
        <4> QED BY <3>2, <3>5, <4>1 DEF Raw, At
      <3>8. x \in Seq(Nat)
        <4>1. tape[mt + 2].kind = "run"
          BY <3>1 DEF HoldsRun
        <4>2. tape \in Seq(TapeByte \cup TapeRun) /\ Len(tape) \in Nat /\ et <= Len(tape)
          <5>1. TapeInv /\ Len(tape) \in Nat
            BY <1>1, Reader
          <5> QED BY <1>7, <1>8, <1>9, <1>10, <5>1 DEF TapeInv, TapeOf
        <4>3. mt + 2 \in 1 .. Len(tape)
          BY <1>11, <3>1, <4>2
        <4>4. tape[mt + 2] \in TapeByte \cup TapeRun
          BY <4>2, <4>3, ElementOfSeq
        <4> QED BY <3>5, <4>1, <4>4 DEF TapeByte, TapeRun
      <3>9. Follows(out \o x, n)
        <4>1. Len(out) + n <= Len(input) /\ \A i \in 1 .. n : x[i] = input[Len(out) + i]
          BY <1>11, <1>12, <3>1, <3>6
        <4> QED BY <1>7, <3>2, <3>6, <3>8, <4>1, Grows
      <3>10. Len(out) + n = marks[k + 1].len /\ rd + 2 = marks[k + 1].tape + 1
        <4>1. rd + 2 = et + 1 /\ Len(out) + n = el
          BY <1>11, <1>12, <3>1
        <4> QED BY <1>8, <1>9, <4>1
      <3>11. Produces(out \o x, marks[k + 1].tape + 1) /\ Goes(marks[k + 1].tape + 1, "Token", 0)
        BY <3>4, <3>7, <3>10
      <3> QED BY <1>1, <1>6, <1>15, <3>9, <3>10, <3>11, ToMark
    <2>3. CASE BoltMatchAt(tape, input, m, e)
      <3>1. PICK off \in SixteenBits, n \in MIN_MATCH .. MAX_MATCH :
                /\ el = ml + n /\ et = mt + 3
                /\ HoldsByte(tape, mt + 1, 128 + n - MIN_MATCH)
                /\ HoldsByte(tape, mt + 2, Negated(off) % 256)
                /\ HoldsByte(tape, mt + 3, Negated(off) \div 256)
                /\ Copies(input, ml, off, n)
        BY <1>9, <2>3 DEF BoltMatchAt
      <3>2. n \in Nat /\ t = 128 + n - 3 /\ t >= 128 /\ (t % 128) + MIN_MATCH = n
        <4>1. n \in Nat /\ n >= 3 /\ n <= 130
          BY MatchBounds
        <4>2. t = 128 + n - 3
          BY <1>2, <1>12, <3>1 DEF HoldsByte, At, MIN_MATCH
        <4>3. t % 128 = n - 3
          BY <4>1, <4>2, SMT
        <4>4. (t % 128) + MIN_MATCH = n
          BY <4>1, <4>3, SMT DEF MIN_MATCH
        <4>5. t >= 128
          BY <4>1, <4>2, SMT
        <4> QED BY <4>1, <4>2, <4>4, <4>5
      <3>3. (65536 - (At(rd + 1) + 256 * At(rd + 2))) % 65536 = off
        <4>1. rd + 1 = mt + 2 /\ rd + 2 = mt + 3
          BY <1>11, <1>12
        <4>2. At(rd + 1) = Negated(off) % 256 /\ At(rd + 2) = Negated(off) \div 256
          BY <3>1, <4>1 DEF HoldsByte, At
        <4> QED BY <4>2, BoltOffset
      <3>4. Produces(Copied(off, n), rd + 3) /\ Goes(rd + 3, "Token", 0)
        <4>1. t # 0 /\ t \notin 1 .. MAX_LIT
          BY <3>2 DEF MAX_LIT
        <4> QED BY <1>3, <3>2, <3>3, <4>1
      <3>5. Follows(Copied(off, n), n)
        <4>1. Len(out) + n <= Len(input) /\ Copies(input, Len(out), off, n)
          BY <1>11, <1>12, <3>1
        <4> QED BY <1>7, <3>2, <4>1, CopyGrows
      <3>6. Len(out) + n = marks[k + 1].len /\ rd + 3 = marks[k + 1].tape + 1
        <4>1. rd + 3 = et + 1 /\ Len(out) + n = el
          BY <1>11, <1>12, <3>1
        <4> QED BY <1>8, <1>9, <4>1
      <3>7. Produces(Copied(off, n), marks[k + 1].tape + 1) /\ Goes(marks[k + 1].tape + 1, "Token", 0)
        BY <3>4, <3>6
      <3> QED BY <1>1, <1>6, <1>15, <3>5, <3>6, <3>7, ToMark
    <2> QED BY <2>1, <2>2, <2>3
<1> QED BY <1>14, <1>15

\* Lengths as they are read.
RunsTo(r, v, p) == r.val = v /\ r.next = p

LEMMA BytesAt ==
    ASSUME NEW p \in Nat, NEW s, NEW n \in Nat, Len(s) = n, HoldsBytes(tape, p, s)
    PROVE  (n >= 1 => At(p) = s[1]) /\ (n >= 2 => At(p + 1) = s[2]) /\ (n >= 3 => At(p + 2) = s[3])
<1>1. /\ n >= 1 => HoldsByte(tape, p, s[1])
      /\ n >= 2 => HoldsByte(tape, p + 1, s[2])
      /\ n >= 3 => HoldsByte(tape, p + 2, s[3])
    BY HoldsFirst
<1> QED BY <1>1 DEF HoldsByte, At

LEMMA LitRead ==
    ASSUME NEW token, NEW p \in Nat, NEW n \in Words,
           (token % 128) \div 16 = Smaller(n, LIT_RUN), HoldsBytes(tape, p, LitVarlen(n))
    PROVE  RunsTo(ReadLitLen(token, p), n, p + Len(LitVarlen(n)))
<1>1. PICK s, l, r, x : s = LitVarlen(n) /\ l = Len(s) /\ r = ReadLitLen(token, p) /\ x = (token % 128) \div 16
    OBVIOUS
<1>2. n \in Nat
    BY WordIsNat
<1>3. l \in 0 .. 3 /\ Spelled(n, 7, 250, 249, s)
    BY <1>1, LitVarlenIs
<1>4. (l >= 1 => At(p) = s[1]) /\ (l >= 2 => At(p + 1) = s[2]) /\ (l >= 3 => At(p + 2) = s[3])
    <2>1. l \in Nat /\ HoldsBytes(tape, p, s) /\ Len(s) = l
      BY <1>1, <1>3
    <2> QED BY <2>1, BytesAt
<1>5. x = IF n <= 7 THEN n ELSE 7
    BY <1>1 DEF Smaller, LIT_RUN
<1>6. r = IF x < 7 THEN [val |-> x, next |-> p]
          ELSE IF At(p) = 250 THEN [val |-> 256 + At(p + 1), next |-> p + 2]
          ELSE IF At(p) = 249 THEN [val |-> At(p + 1) + 256 * At(p + 2), next |-> p + 3]
          ELSE [val |-> x + At(p), next |-> p + 1]
    BY <1>1 DEF ReadLitLen, LIT_RUN
<1>7. CASE InToken(n, 7, s)
    <2>1. n < 7 /\ l = 0
      BY <1>1, <1>7 DEF InToken
    <2>2. x = n /\ x < 7
      BY <1>2, <1>5, <2>1
    <2>3. r = [val |-> x, next |-> p]
      BY <1>6, <2>2
    <2>4. r.val = n /\ r.next = p + l
      BY <2>1, <2>2, <2>3
    <2> QED BY <1>1, <2>4 DEF RunsTo
<1>8. CASE InOne(n, 7, s)
    <2>1. n >= 7 /\ n < 256 /\ l = 1 /\ s[1] = n - 7
      BY <1>1, <1>8 DEF InOne
    <2>2. x = 7 /\ ~(x < 7) /\ At(p) = n - 7
      BY <1>2, <1>4, <1>5, <2>1
    <2>3. At(p) # 250 /\ At(p) # 249 /\ 7 + At(p) = n
      BY <1>2, <2>1, <2>2
    <2>4. r = [val |-> x + At(p), next |-> p + 1]
      BY <1>6, <2>2, <2>3
    <2>5. r.val = n /\ r.next = p + l
      BY <2>1, <2>2, <2>3, <2>4
    <2> QED BY <1>1, <2>5 DEF RunsTo
<1>9. CASE InTwo(n, 250, s)
    <2>1. n >= 256 /\ l = 2 /\ s[1] = 250 /\ s[2] = n - 256
      BY <1>1, <1>9 DEF InTwo
    <2>2. ~(x < 7) /\ At(p) = 250 /\ At(p + 1) = n - 256
      BY <1>2, <1>4, <1>5, <2>1
    <2>3. r = [val |-> 256 + At(p + 1), next |-> p + 2]
      BY <1>6, <2>2
    <2>4. r.val = n /\ r.next = p + l
      BY <1>2, <2>1, <2>2, <2>3
    <2> QED BY <1>1, <2>4 DEF RunsTo
<1>10. CASE InThree(n, 249, s)
    <2>1. n >= 512 /\ l = 3 /\ s[1] = 249 /\ s[2] + 256 * s[3] = n
      BY <1>1, <1>10 DEF InThree, WordOf
    <2>2. ~(x < 7) /\ At(p) = 249 /\ At(p) # 250 /\ At(p + 1) + 256 * At(p + 2) = n
      BY <1>2, <1>4, <1>5, <2>1
    <2>3. r = [val |-> At(p + 1) + 256 * At(p + 2), next |-> p + 3]
      BY <1>6, <2>2
    <2>4. r.val = n /\ r.next = p + l
      BY <2>1, <2>2, <2>3
    <2> QED BY <1>1, <2>4 DEF RunsTo
<1> QED BY <1>3, <1>7, <1>8, <1>9, <1>10 DEF Spelled

LEMMA MatchRead ==
    ASSUME NEW token, NEW p \in Nat, NEW n \in Words, n >= MIN_MATCH,
           token % 16 = Smaller(n - MIN_MATCH, MATCH_RUN), HoldsBytes(tape, p, MatchVarlen(n - MIN_MATCH))
    PROVE  RunsTo(ReadMatchLen(token, p), n, p + Len(MatchVarlen(n - MIN_MATCH)))
<1>1. PICK s, l, r, x : s = MatchVarlen(n - MIN_MATCH) /\ l = Len(s) /\ r = ReadMatchLen(token, p) /\ x = token % 16
    OBVIOUS
<1>2. n \in Nat /\ n >= 3
    BY WordIsNat DEF MIN_MATCH
<1>3. l \in 0 .. 3 /\ Spelled(n, 18, 239, 238, s)
    BY <1>1, MatchVarlenIs
<1>4. (l >= 1 => At(p) = s[1]) /\ (l >= 2 => At(p + 1) = s[2]) /\ (l >= 3 => At(p + 2) = s[3])
    <2>1. l \in Nat /\ HoldsBytes(tape, p, s) /\ Len(s) = l
      BY <1>1, <1>3
    <2> QED BY <2>1, BytesAt
<1>5. PICK y : y = x + 3
    OBVIOUS
<1>11. y = IF n <= 18 THEN n ELSE 18
    <2>1. x = IF n - 3 <= 15 THEN n - 3 ELSE 15
      BY <1>1 DEF Smaller, MATCH_RUN, MIN_MATCH
    <2> QED BY <1>2, <1>5, <2>1
<1>6. r = IF y < 18 THEN [val |-> y, next |-> p]
          ELSE IF At(p) = 239 THEN [val |-> 256 + At(p + 1), next |-> p + 2]
          ELSE IF At(p) = 238 THEN [val |-> At(p + 1) + 256 * At(p + 2), next |-> p + 3]
          ELSE [val |-> y + At(p), next |-> p + 1]
    <2>1. MATCH_RUN + MIN_MATCH = 18 /\ MIN_MATCH = 3
      BY DEF MATCH_RUN, MIN_MATCH
    <2> QED BY <1>1, <1>5, <2>1 DEF ReadMatchLen
<1>7. CASE InToken(n, 18, s)
    <2>1. n < 18 /\ l = 0
      BY <1>1, <1>7 DEF InToken
    <2>2. y = n /\ y < 18
      BY <1>2, <1>11, <2>1
    <2>3. r = [val |-> y, next |-> p]
      BY <1>6, <2>2
    <2>4. r.val = n /\ r.next = p + l
      BY <2>1, <2>2, <2>3
    <2> QED BY <1>1, <2>4 DEF RunsTo
<1>8. CASE InOne(n, 18, s)
    <2>1. n >= 18 /\ n < 256 /\ l = 1 /\ s[1] = n - 18
      BY <1>1, <1>8 DEF InOne
    <2>2. y = 18 /\ ~(y < 18) /\ At(p) = n - 18
      BY <1>2, <1>4, <1>11, <2>1
    <2>3. At(p) # 239 /\ At(p) # 238 /\ 18 + At(p) = n
      BY <1>2, <2>1, <2>2
    <2>4. r = [val |-> y + At(p), next |-> p + 1]
      BY <1>6, <2>2, <2>3
    <2>5. r.val = n /\ r.next = p + l
      BY <2>1, <2>2, <2>3, <2>4
    <2> QED BY <1>1, <2>5 DEF RunsTo
<1>9. CASE InTwo(n, 239, s)
    <2>1. n >= 256 /\ l = 2 /\ s[1] = 239 /\ s[2] = n - 256
      BY <1>1, <1>9 DEF InTwo
    <2>2. ~(y < 18) /\ At(p) = 239 /\ At(p + 1) = n - 256
      BY <1>2, <1>4, <1>11, <2>1
    <2>3. r = [val |-> 256 + At(p + 1), next |-> p + 2]
      BY <1>6, <2>2
    <2>4. r.val = n /\ r.next = p + l
      BY <1>2, <2>1, <2>2, <2>3
    <2> QED BY <1>1, <2>4 DEF RunsTo
<1>10. CASE InThree(n, 238, s)
    <2>1. n >= 512 /\ l = 3 /\ s[1] = 238 /\ s[2] + 256 * s[3] = n
      BY <1>1, <1>10 DEF InThree, WordOf
    <2>2. ~(y < 18) /\ At(p) = 238 /\ At(p) # 239 /\ At(p + 1) + 256 * At(p + 2) = n
      BY <1>2, <1>4, <1>11, <2>1
    <2>3. r = [val |-> At(p + 1) + 256 * At(p + 2), next |-> p + 3]
      BY <1>6, <2>2
    <2>4. r.val = n /\ r.next = p + l
      BY <2>1, <2>2, <2>3
    <2> QED BY <1>1, <2>4 DEF RunsTo
<1> QED BY <1>3, <1>7, <1>8, <1>9, <1>10 DEF Spelled

\* The end marker's length.
LEMMA StopRead ==
    ASSUME NEW token, NEW p \in Nat, token % 16 = MATCH_RUN, HoldsBytes(tape, p, <<238, 0, 0>>)
    PROVE  RunsTo(ReadMatchLen(token, p), 0, p + 3)
<1>1. PICK z, s, r, l : z = 238 /\ s = <<z, 0, 0>> /\ r = ReadMatchLen(token, p) /\ l = 3
    OBVIOUS
<1>2. Len(s) = l /\ s[1] = z /\ s[2] = 0 /\ s[3] = 0
    BY <1>1, ThreeBytes
<1>3. At(p) = z /\ At(p + 1) = 0 /\ At(p + 2) = 0
    <2>1. l \in Nat /\ HoldsBytes(tape, p, s) /\ l >= 1 /\ l >= 2 /\ l >= 3
      BY <1>1
    <2>2. At(p) = s[1] /\ At(p + 1) = s[2] /\ At(p + 2) = s[3]
      BY <1>2, <2>1, BytesAt
    <2> QED BY <1>2, <2>2
<1>4. ~((token % 16) + MIN_MATCH < MATCH_RUN + MIN_MATCH)
    BY DEF MATCH_RUN, MIN_MATCH
<1>5. r = [val |-> At(p + 1) + 256 * At(p + 2), next |-> p + 3]
    BY <1>1, <1>3, <1>4 DEF ReadMatchLen
<1>6. r.val = 0 /\ r.next = p + 3
    BY <1>3, <1>5
<1> QED BY <1>1, <1>6 DEF RunsTo

\* The rest of a command lies on the stream, and goes on in the input.
LEMMA RestBounds ==
    ASSUME NEW tp, NEW s, NEW l \in Nat, NEW b \in Nat, NEW token, NEW e, e.len \in Nat, e.tape \in Nat, NEW stop,
           RestAt(tp, s, l, b, token, e, stop)
    PROVE  l <= e.len /\ b <= e.tape
<1>1. PICK el, et : el = e.len /\ et = e.tape
    OBVIOUS
<1>2. el \in Nat /\ et \in Nat
    BY <1>1
<1>3. CASE stop
    <2>1. StopAt(tp, l, b, token, e)
      BY <1>3 DEF RestAt
    <2>2. el = l /\ et = b + 3
      BY <1>1, <2>1 DEF StopAt
    <2> QED BY <1>1, <2>2
<1>4. CASE ~stop
    <2>1. MatchAt(tp, s, l, b, token, e)
      BY <1>4 DEF RestAt
    <2>2. PICK off \in SixteenBits, len \in SixteenBits :
              /\ len >= MIN_MATCH
              /\ e.len = l + len /\ e.tape = b + OffsetSize(off) + Len(MatchVarlen(len - MIN_MATCH)) - 1
      BY <2>1 DEF MatchAt
    <2>3. Len(MatchVarlen(len - MIN_MATCH)) \in Nat
      BY <2>2, SixteenIsWord, MatchVarlenIs
    <2>4. len \in Nat /\ OffsetSize(off) \in 1 .. 2
      BY SixteenIsWord DEF OffsetSize
    <2>5. PICK x, y : x = Len(MatchVarlen(len - MIN_MATCH)) /\ y = OffsetSize(off)
      OBVIOUS
    <2>6. x \in Nat /\ y \in 1 .. 2 /\ el = l + len /\ et = b + y + x - 1
      BY <1>1, <2>2, <2>3, <2>4, <2>5
    <2>7. l <= el /\ b <= et
      BY <2>4, <2>6
    <2> QED BY <1>1, <2>7
<1> QED BY <1>3, <1>4

\* A run that is read: its bytes are the input's.
LEMMA RunRead ==
    ASSUME TapeInv, NEW q \in 1 .. Len(tape), NEW l \in Nat, NEW n \in Nat, HoldsRun(tape, q, input, l, n)
    PROVE  /\ tape[q].val \in Seq(Nat) /\ Len(tape[q].val) = n /\ \A i \in 1 .. n : tape[q].val[i] = input[l + i]
           /\ SizeOf(tape[q]) = n
<1>1. tape[q].kind = "run" /\ Len(tape[q].val) = n /\ \A i \in 1 .. n : tape[q].val[i] = input[l + i]
    BY DEF HoldsRun
<1>2. tape \in Seq(TapeByte \cup TapeRun)
    BY DEF TapeInv, TapeOf
<1>3. tape[q] \in TapeByte \cup TapeRun
    BY <1>2, ElementOfSeq
<1>4. tape[q].val \in Seq(Nat)
    BY <1>1, <1>3 DEF TapeByte, TapeRun
<1> QED BY <1>1, <1>4 DEF SizeOf

LEMMA Lzsa1LiteralsStep ==
    ASSUME AlignedInv, Lzsa1Literals
    PROVE  AlignedInv'
<1>1. phase = "decode" /\ trial.format = "lzsa1" /\ d_state = "Token" /\ max_gap' = Looked(out, rd)
    BY DEF Lzsa1Literals, Decoding
<1>2. PICK r : r = ReadLitLen(At(rd), rd + 1)
    OBVIOUS
<1>3. /\ Produces(out \o Raw(r.next, r.val), AfterRun(r.next, r.val))
      /\ Goes(AfterRun(r.next, r.val), "Match", At(rd))
    BY <1>2 DEF Lzsa1Literals
<1>4. PICK k \in 1 .. Len(marks) - 1 : Standing(k)
    BY <1>1 DEF AlignedInv, ReaderInv
<1>5. AtMark(k)
    BY <1>1, <1>4 DEF Standing, InCommand
<1>6. /\ rd \in Nat /\ max_gap' \in Int /\ peak <= max_gap'
      /\ Ahead(out, tape, rd) \in Int /\ Ahead(out, tape, rd) <= max_gap'
    BY <1>1, <1>4, <1>5, TokenGap
<1>7. /\ out \in Seq(Nat) /\ input \in Seq(Nat) /\ Begins(out, input) /\ TapeInv /\ Len(tape) \in Nat
      /\ Len(input) \in Nat /\ Len(marks) \in Nat
      /\ \A i \in 1 .. Len(marks) :
             marks[i].len \in Nat /\ marks[i].tape \in Nat /\ marks[i].len <= Len(input) /\ marks[i].tape <= Len(tape)
    BY <1>1, Reader
<1>8. PICK m, e : m = marks[k] /\ e = marks[k + 1]
    OBVIOUS
<1>9. PICK ml, mt, el, et, tl, il : ml = m.len /\ mt = m.tape /\ el = e.len /\ et = e.tape /\ tl = Len(tape) /\ il = Len(input)
    OBVIOUS
<1>10. k \in 1 .. Len(marks) /\ k + 1 \in 1 .. Len(marks)
    BY <1>7
<1>11. ml \in Nat /\ mt \in Nat /\ el \in Nat /\ et \in Nat /\ el <= il /\ et <= tl /\ tl \in Nat /\ il \in Nat
    BY <1>7, <1>8, <1>9, <1>10
<1>12. rd = mt + 1 /\ Len(out) = ml
    BY <1>5, <1>8, <1>9 DEF AtMark
<1>13. Lzsa1At(tape, input, m, e, k = Len(marks) - 1)
    <2>1. UnitAt("lzsa1", tape, input, m, e, k = Len(marks) - 1)
      BY <1>1, <1>8, UnitRead
    <2> QED BY <2>1 DEF UnitAt
<1>14. PICK n \in Words, token \in Octets :
           /\ HeadAt(tape, input, m, n, token)
           /\ RestAt(tape, input, m.len + n, RunEnd(m, n), token, e, k = Len(marks) - 1)
    BY <1>13 DEF Lzsa1At
<1>15. PICK b, vl, q : b = RunEnd(m, n) /\ vl = Len(LitVarlen(n)) /\ q = mt + 2 + vl
    OBVIOUS
<1>16. n \in Nat /\ vl \in Nat /\ q \in Nat
    <2>1. n \in Nat /\ vl \in Nat
      BY <1>15, WordIsNat, LitVarlenIs
    <2> QED BY <1>11, <1>15, <2>1
<1>17. b = AfterRun(q, n) /\ b \in Nat /\ b >= 1 /\ (n = 0 => b = q) /\ (n # 0 => b = q + 1)
    <2>1. b = q + (IF n = 0 THEN 0 ELSE 1)
      BY <1>9, <1>15 DEF RunEnd
    <2>2. q \in Nat /\ q >= 1
      BY <1>11, <1>15, <1>16
    <2> QED BY <2>1, <2>2 DEF AfterRun
<1>18. /\ (token % 128) \div 16 = Smaller(n, LIT_RUN)
       /\ HoldsByte(tape, mt + 1, token) /\ HoldsBytes(tape, mt + 2, LitVarlen(n))
       /\ n > 0 => HoldsRun(tape, b - 1, input, ml, n)
    BY <1>9, <1>14, <1>15 DEF HeadAt
<1>19. At(rd) = token
    BY <1>12, <1>18 DEF HoldsByte, At
<1>20. r.val = n /\ r.next = q
    <2>1. mt + 2 \in Nat
      BY <1>11
    <2>2. RunsTo(ReadLitLen(token, mt + 2), n, mt + 2 + Len(LitVarlen(n)))
      BY <1>18, <2>1, LitRead
    <2>3. rd + 1 = mt + 2
      BY <1>11, <1>12
    <2>4. RunsTo(r, n, q)
      BY <1>2, <1>15, <1>19, <2>2, <2>3
    <2> QED BY <2>4 DEF RunsTo
<1>21. RestAt(tape, input, ml + n, b, token, e, k = Len(marks) - 1)
    BY <1>9, <1>14, <1>15
<1>22. ml + n <= el /\ b <= et
    <2>3. e.len \in Nat /\ e.tape \in Nat
      BY <1>9, <1>11
    <2>1. e.len \in Nat /\ e.tape \in Nat /\ ml + n \in Nat
      BY <1>11, <1>16, <2>3
    <2>2. ml + n <= e.len /\ b <= e.tape
      BY <1>17, <1>21, <2>1, RestBounds
    <2> QED BY <1>9, <2>2
<1>23. PICK x, o : x = Raw(q, n) /\ o = out \o x
    OBVIOUS
<1>24. ASSUME n # 0
       PROVE  /\ x \in Seq(Nat) /\ Len(x) = n /\ \A i \in 1 .. n : x[i] = input[ml + i]
              /\ SizeOf(tape[q]) = n /\ q \in 1 .. Len(tape)
    <2>1. n > 0 /\ b - 1 = q
      BY <1>16, <1>17, <1>24
    <2>2. HoldsRun(tape, q, input, ml, n)
      BY <1>18, <2>1
    <2>3. q \in 1 .. tl
      <3>1. q >= 1
        BY <1>11, <1>15, <1>16
      <3>2. q + 1 <= et
        BY <1>17, <1>22, <1>24
      <3> QED BY <1>11, <1>16, <3>1, <3>2
    <2>4. x = tape[q].val
      BY <1>23, <1>24 DEF Raw, At
    <2>5. q \in 1 .. Len(tape)
      BY <1>9, <2>3
    <2>6. /\ tape[q].val \in Seq(Nat) /\ Len(tape[q].val) = n
          /\ \A i \in 1 .. n : tape[q].val[i] = input[ml + i]
          /\ SizeOf(tape[q]) = n
      BY <1>7, <1>11, <1>16, <2>2, <2>5, RunRead
    <2> QED BY <2>4, <2>5, <2>6, Zenon
<1>25. x \in Seq(Nat) /\ Len(x) = n /\ \A i \in 1 .. n : x[i] = input[ml + i]
    <2>1. CASE n = 0
      <3>1. x = <<>>
        BY <1>23, <2>1 DEF Raw
      <3> QED BY <2>1, <3>1, NoBytes
    <2> QED BY <1>24, <2>1
<1>26. Follows(o, n)
    <2>2. ml + n <= il
      BY <1>11, <1>16, <1>22
    <2>1. Len(out) + n <= Len(input) /\ \A i \in 1 .. n : x[i] = input[Len(out) + i]
      BY <1>9, <1>12, <1>25, <2>2
    <2> QED BY <1>7, <1>16, <1>23, <1>25, <2>1, Grows
<1>27. Len(o) = ml + n
    BY <1>12, <1>26 DEF Follows
<1>28. PICK c, c0, g : c = Consumed(b) /\ c0 = Behind(tape, mt) /\ g = max_gap'
    OBVIOUS
<1>29. c = Behind(tape, b - 1) /\ c \in Nat /\ c0 \in Nat
    <2>1. c = Behind(tape, b - 1)
      BY <1>17, <1>28, ConsumedIs
    <2>2. b - 1 \in 0 .. Len(tape) /\ mt \in 0 .. Len(tape)
      <3>2. b <= tl /\ b >= q /\ q >= mt
        <4>1. q = mt + 2 + vl
          BY <1>15
        <4>2. q >= mt
          BY <1>11, <1>16, <4>1
        <4> QED BY <1>11, <1>16, <1>17, <1>22, <4>2
      <3>1. b - 1 \in 0 .. tl /\ mt \in 0 .. tl
        BY <1>11, <1>16, <1>17, <3>2
      <3> QED BY <1>9, <3>1
    <2> QED BY <1>7, <1>28, <2>1, <2>2, BehindNat
<1>30. c0 + n <= c
    <2>1. \A d \in Nat : mt + d <= Len(tape) => Behind(tape, mt) <= Behind(tape, mt + d)
      BY <1>7, <1>11, BehindGrows
    <2>2. PICK d : d = 1 + vl
      OBVIOUS
    <2>3. d \in Nat /\ mt + d = q - 1 /\ mt + d <= Len(tape)
      <3>1. d \in Nat /\ mt + d = q - 1
        BY <1>11, <1>15, <1>16, <2>2
      <3>2. q - 1 <= tl
        BY <1>11, <1>16, <1>17, <1>22
      <3> QED BY <1>9, <3>1, <3>2
    <2>4. c0 <= Behind(tape, q - 1)
      BY <1>28, <2>1, <2>3
    <2>5. CASE n = 0
      BY <1>17, <1>29, <2>4, <2>5
    <2>6. CASE n # 0
      <3>1. Behind(tape, q) = Behind(tape, q - 1) + SizeOf(tape[q])
        BY <1>7, <1>24, <2>6, BehindNext
      <3>2. c = Behind(tape, q)
        <4>1. b - 1 = q
          BY <1>16, <1>17, <2>6
        <4> QED BY <1>29, <4>1
      <3>3. PICK y : y = Behind(tape, q - 1)
        OBVIOUS
      <3>4. c = y + n /\ c0 <= y
        BY <1>24, <2>4, <2>6, <3>1, <3>2, <3>3
      <3>5. y \in Int
        <4>1. q - 1 \in 0 .. Len(tape)
          <5>1. q - 1 \in 0 .. tl
            BY <1>9, <1>11, <1>24, <2>6
          <5> QED BY <1>9, <5>1
        <4> QED BY <1>7, <3>3, <4>1, BehindNat
      <3> QED BY <1>16, <1>29, <3>4, <3>5
    <2> QED BY <2>5, <2>6
<1>31. Consumed(b) \in Nat /\ Len(o) - Consumed(b) <= max_gap'
    <2>1. Ahead(out, tape, rd) = ml - c0
      <3>1. rd - 1 = mt
        BY <1>11, <1>12
      <3> QED BY <1>12, <1>28, <3>1 DEF Ahead
    <2>2. ml - c0 <= g /\ g \in Int
      BY <1>6, <1>28, <2>1
    <2>3. (ml + n) - c <= g
      BY <1>11, <1>16, <1>29, <1>30, <2>2, SMTT(30)
    <2> QED BY <1>27, <1>28, <1>29, <2>3
<1>32. Produces(o, b) /\ Goes(b, "Match", token)
    BY <1>3, <1>17, <1>19, <1>20, <1>23
<1>33. RestAt(tape, input, Len(o), b, token, marks[k + 1], k = Len(marks) - 1)
    BY <1>8, <1>21, <1>27
<1> QED BY <1>1, <1>6, <1>17, <1>26, <1>31, <1>32, <1>33, ToRest

LEMMA Lzsa1MatchStep ==
    ASSUME AlignedInv, Lzsa1Match
    PROVE  AlignedInv'
<1>1. phase = "decode" /\ trial.format = "lzsa1" /\ d_state = "Match" /\ max_gap' = max_gap
    BY DEF Lzsa1Match, Decoding
<1>2. PICK c, off, r :
          /\ c = (IF d_last >= 128 THEN rd + 2 ELSE rd + 1)
          /\ off = 1 + (255 - At(rd)) + (IF d_last >= 128 THEN 256 * (255 - At(rd + 1)) ELSE 0)
          /\ r = ReadMatchLen(d_last, c)
    OBVIOUS
<1>3. \/ r.val = 0 /\ Ends(r.next)
      \/ r.val # 0 /\ Produces(Copied(off, r.val), r.next) /\ Goes(r.next, "Token", 0)
    BY <1>2 DEF Lzsa1Match
<1>4. PICK k \in 1 .. Len(marks) - 1 : Standing(k)
    BY <1>1 DEF AlignedInv, ReaderInv
<1>5. InCommand(k) /\ peak <= max_gap
    BY <1>1, <1>4 DEF Standing, AtMark
<1>6. max_gap' \in Int /\ peak <= max_gap'
    BY <1>1, <1>5, Reader
<1>7. /\ out \in Seq(Nat) /\ input \in Seq(Nat) /\ Begins(out, input)
      /\ Len(out) \in Nat /\ Len(input) \in Nat /\ Len(marks) \in Nat
      /\ \A i \in 1 .. Len(marks) :
             marks[i].len \in Nat /\ marks[i].tape \in Nat /\ marks[i].len <= Len(input) /\ marks[i].tape <= Len(tape)
    BY <1>1, Reader
<1>8. PICK e, token : e = marks[k + 1] /\ token = d_last
    OBVIOUS
<1>9. PICK l, b, el, et, il : l = Len(out) /\ b = rd /\ el = e.len /\ et = e.tape /\ il = Len(input)
    OBVIOUS
<1>10. k + 1 \in 1 .. Len(marks)
    BY <1>7
<1>11. l \in Nat /\ b \in Nat /\ b >= 1 /\ el \in Nat /\ et \in Nat /\ il \in Nat /\ el <= il
    <2>1. b \in Nat /\ b >= 1
      BY <1>5, <1>9 DEF InCommand, AlignedInv
    <2> QED BY <1>7, <1>8, <1>9, <1>10, <2>1
<1>12. RestAt(tape, input, l, b, token, e, k = Len(marks) - 1)
    BY <1>5, <1>8, <1>9 DEF InCommand
<1>13. CASE k = Len(marks) - 1
    <2>1. StopAt(tape, l, b, token, e)
      BY <1>12, <1>13 DEF RestAt
    <2>2. /\ token < 128 /\ token % 16 = MATCH_RUN /\ HoldsBytes(tape, b + 1, <<238, 0, 0>>)
          /\ el = l /\ et = b + 3
      BY <1>9, <2>1 DEF StopAt
    <2>3. c = b + 1
      <3>1. token \in Nat
        BY <1>5, <1>8, OctetIs DEF InCommand
      <3>2. ~(token >= 128)
        BY <2>2, <3>1
      <3> QED BY <1>2, <1>8, <1>9, <3>2
    <2>4. RunsTo(ReadMatchLen(token, b + 1), 0, (b + 1) + 3)
      <3>1. b + 1 \in Nat
        BY <1>11
      <3> QED BY <2>2, <3>1, StopRead
    <2>5. r.val = 0 /\ r.next = (b + 1) + 3
      <3>1. RunsTo(r, 0, (b + 1) + 3)
        BY <1>2, <1>8, <2>3, <2>4
      <3> QED BY <3>1 DEF RunsTo
    <2>6. r.next = et + 1
      BY <1>11, <2>2, <2>5
    <2>7. Ends(marks[k + 1].tape + 1)
      BY <1>3, <1>8, <1>9, <2>5, <2>6
    <2>8. Len(out) = marks[k + 1].len
      BY <1>8, <1>9, <2>2
    <2> QED BY <1>1, <1>6, <1>13, <2>7, <2>8, ToEnd
<1>14. CASE k # Len(marks) - 1
    <2>1. MatchAt(tape, input, l, b, token, e)
      BY <1>12, <1>14 DEF RestAt
    <2>2. PICK o \in SixteenBits, n \in SixteenBits :
              /\ n >= MIN_MATCH
              /\ (token >= 128) = Long(o) /\ token % 16 = Smaller(n - MIN_MATCH, MATCH_RUN)
              /\ HoldsByte(tape, b, Negated(o) % 256)
              /\ Long(o) => HoldsByte(tape, b + 1, (Negated(o) \div 256) % 256)
              /\ HoldsBytes(tape, b + OffsetSize(o), MatchVarlen(n - MIN_MATCH))
              /\ Copies(input, l, o, n)
              /\ el = l + n /\ et = b + OffsetSize(o) + Len(MatchVarlen(n - MIN_MATCH)) - 1
      BY <1>9, <2>1 DEF MatchAt
    <2>3. n \in Words /\ n \in Nat /\ n >= 1
      BY SixteenIsWord
    <2>4. PICK os, vl : os = OffsetSize(o) /\ vl = Len(MatchVarlen(n - MIN_MATCH))
      OBVIOUS
    <2>5. vl \in Nat /\ os \in 1 .. 2
      <3>1. vl \in Nat
        BY <2>2, <2>3, <2>4, MatchVarlenIs
      <3> QED BY <2>4, <3>1 DEF OffsetSize
    <2>6. c = b + os
      BY <1>2, <1>8, <1>9, <2>2, <2>4 DEF OffsetSize
    <2>7. off = o
      <3>1. PICK lo, hi : lo = At(b) /\ hi = At(b + 1)
        OBVIOUS
      <3>2. lo = Negated(o) % 256 /\ (Long(o) => hi = (Negated(o) \div 256) % 256)
        BY <2>2, <3>1 DEF HoldsByte, At
      <3>3. 1 + (255 - lo) + (IF Long(o) THEN 256 * (255 - hi) ELSE 0) = o
        BY <3>2, Lzsa1Offset
      <3> QED BY <1>2, <1>8, <1>9, <2>2, <3>1, <3>3
    <2>8. r.val = n /\ r.next = b + os + vl
      <3>1. b + os \in Nat
        BY <1>11, <2>5
      <3>2. HoldsBytes(tape, b + os, MatchVarlen(n - MIN_MATCH))
        BY <2>2, <2>4
      <3>3. RunsTo(ReadMatchLen(token, b + os), n, b + os + Len(MatchVarlen(n - MIN_MATCH)))
        BY <2>2, <2>3, <3>1, <3>2, MatchRead
      <3>4. RunsTo(r, n, b + os + vl)
        BY <1>2, <1>8, <2>4, <2>6, <3>3
      <3> QED BY <3>4 DEF RunsTo
    <2>9. r.next = et + 1
      <3>1. et = b + os + vl - 1
        BY <2>2, <2>4
      <3> QED BY <1>11, <2>5, <2>8, <3>1
    <2>10. Produces(Copied(o, n), marks[k + 1].tape + 1) /\ Goes(marks[k + 1].tape + 1, "Token", 0)
      <3>1. r.val # 0
        BY <2>3, <2>8
      <3> QED BY <1>3, <1>8, <1>9, <2>7, <2>8, <2>9, <3>1
    <2>11. Follows(Copied(o, n), n)
      <3>1. l + n <= il
        BY <1>11, <2>2, <2>3
      <3>2. Len(out) + n <= Len(input) /\ Copies(input, Len(out), o, n)
        BY <1>9, <2>2, <3>1
      <3> QED BY <1>7, <2>3, <3>2, CopyGrows
    <2>12. Len(out) + n = marks[k + 1].len
      BY <1>8, <1>9, <2>2
    <2> QED BY <1>1, <1>6, <1>14, <2>10, <2>11, <2>12, ToMark
<1> QED BY <1>13, <1>14

-----------------------------------------------------------------------------
(* The theorems.                                                           *)

LEMMA InitAligned == Init => AlignedInv
<1> SUFFICES ASSUME Init PROVE AlignedInv
    OBVIOUS
<1>1. /\ trial \in Trials /\ phase = "encode" /\ input = <<>> /\ tape = <<>> /\ prev = "Start"
      /\ last = InitialOffset /\ predicted = InitialBits /\ w = NewWriter
      /\ marks = <<[len |-> 0, last |-> last, bytes |-> 0, tape |-> 0]>>
      /\ d_last = 0 /\ rd = 1 /\ out = <<>> /\ max_gap = 0 /\ peak = 0
    BY DEF Init, StreamInit
<1>2. trial.format = "bolt" \/ trial.format = "lzsa1"
    BY DEF Init
<1>3. last = 0 /\ predicted = 0 /\ w = [bytes |-> 0, left |-> 0, back |-> FALSE]
    <2>1. trial.format \notin {"zx0", "zx02"} /\ trial.format # "pucrunch" /\ trial.format # "subsizer"
      BY <1>2
    <2>2. last = 0
      BY <1>1, <2>1 DEF InitialOffset
    <2>3. predicted = 0
      BY <1>1, <2>1 DEF InitialBits
    <2>4. w = [bytes |-> 0, left |-> 0, back |-> FALSE]
      <3>1. (trial.format \in {"zx0", "zx02"}) = FALSE /\ ~(trial.format = "subsizer" /\ trial.backward)
        BY <2>1
      <3>2. NewWriter = [bytes |-> 0, left |-> 0, back |-> trial.format \in {"zx0", "zx02"}]
        BY <3>1, Zenon DEF NewWriter
      <3>3. NewWriter = [bytes |-> 0, left |-> 0, back |-> FALSE]
        BY <3>1, <3>2, Zenon
      <3> QED BY <1>1, <3>3
    <2> QED BY <2>2, <2>3, <2>4
<1>4. input \in Seq(Nat) /\ Len(input) = 0 /\ out \in Seq(Nat)
    BY <1>1, NoBytes
<1>5. TapeInv
    <2>1. tape \in Seq(TapeByte \cup TapeRun) /\ Len(tape) = 0
      BY <1>1, EmptySeq
    <2>2. w \in Writers /\ ~w.back /\ w.bytes = 0
      BY <1>3 DEF Writers
    <2>3. Behind(tape, Len(tape)) = 0
      BY <2>1 DEF Behind
    <2>4. \A p \in 1 .. Len(tape) : FALSE
      BY <2>1
    <2> QED BY <2>1, <2>2, <2>3, <2>4 DEF TapeInv, TapeOf
<1>6. MarksInv
    <2>1. PICK m : m = [len |-> 0, last |-> 0, bytes |-> 0, tape |-> 0]
      OBVIOUS
    <2>2. m \in MarkOf /\ m.len = 0 /\ m.tape = 0
      BY <2>1 DEF MarkOf
    <2>3. marks = <<m>>
      BY <1>1, <1>3, <2>1
    <2>4. marks \in Seq(MarkOf) /\ Len(marks) = 1 /\ marks[1] = m
      BY <2>2, <2>3
    <2>5. Len(tape) = 0
      BY <1>1
    <2>6. \A k \in 1 .. Len(marks) : k = 1
      BY <2>4
    <2>7. \A k \in 1 .. Len(marks) - 1 : FALSE
      BY <2>4
    <2>8. Len(marks) >= 1
      BY <2>4
    <2>9. \A k \in 1 .. Len(marks) : marks[k].len <= Len(input) /\ marks[k].tape <= Len(tape)
      BY <1>4, <2>2, <2>4, <2>5, <2>6
    <2> QED BY <1>1, <1>4, <2>2, <2>4, <2>5, <2>7, <2>8, <2>9 DEF MarksInv, MarksOf
<1>7. ReaderInv
    BY <1>1 DEF ReaderInv
<1>8. d_last \in Octets
    BY <1>1, SMT DEF Octets
<1>9. predicted = 8 * w.bytes
    BY <1>3
<1> QED BY <1>1, <1>2, <1>3, <1>4, <1>5, <1>6, <1>7, <1>8, <1>9 DEF AlignedInv

LEMMA NextAligned == AlignedInv /\ [Next]_vars => AlignedInv'
<1> SUFFICES ASSUME AlignedInv, [Next]_vars PROVE AlignedInv'
    OBVIOUS
<1>1. CASE BoltNext
    <2>1. CASE \E n \in trial.runs : BoltLiterals(n)
      BY <2>1, BoltLiteralsStep
    <2>2. CASE \E off \in trial.offsets, n \in trial.lens : BoltMatch(off, n)
      BY <2>2, BoltMatchStep
    <2>3. CASE BoltFinish
      BY <2>3, BoltFinishStep
    <2>4. CASE BoltToken
      BY <2>4, BoltTokenStep
    <2> QED BY <1>1, <2>1, <2>2, <2>3, <2>4 DEF BoltNext
<1>2. CASE Lzsa1Next
    <2>1. CASE \E n \in trial.runs \cup {0}, off \in trial.offsets, len \in trial.lens : Lzsa1Command(n, off, len)
      BY <2>1, Lzsa1CommandStep
    <2>2. CASE \E n \in trial.runs \cup {0} : Lzsa1Finish(n)
      BY <2>2, Lzsa1FinishStep
    <2>3. CASE Lzsa1Literals
      BY <2>3, Lzsa1LiteralsStep
    <2>4. CASE Lzsa1Match
      BY <2>4, Lzsa1MatchStep
    <2> QED BY <1>2, <2>1, <2>2, <2>3, <2>4 DEF Lzsa1Next
<1>3. CASE UNCHANGED vars
    <2>1. /\ trial' = trial /\ phase' = phase /\ input' = input /\ prev' = prev /\ last' = last
          /\ predicted' = predicted /\ tape' = tape /\ w' = w /\ marks' = marks
          /\ d_state' = d_state /\ d_last' = d_last /\ rd' = rd /\ out' = out /\ max_gap' = max_gap /\ peak' = peak
      BY <1>3 DEF vars, encoder, written, decoder
    <2>2. TapeInv'
      BY <2>1 DEF AlignedInv, TapeInv
    <2>3. MarksInv'
      BY <2>1 DEF AlignedInv, MarksInv
    <2>4. ReaderInv'
      <3>1. \A k : Standing(k)' = Standing(k)
        BY <2>1 DEF Standing, AtMark, InCommand
      <3> QED BY <2>1, <3>1 DEF AlignedInv, ReaderInv
    <2> QED BY <2>1, <2>2, <2>3, <2>4 DEF AlignedInv
<1> QED BY <1>1, <1>2, <1>3 DEF Next

\* Writer and reader of both formats agree at every moment: what lies on the stream
\* between two marks is one unit, and the decoder stands at a mark with the output of
\* that mark, or has the rest of a command before it.  The inductive invariant.
THEOREM WriterAndReaderAgree == Spec => []AlignedInv
<1>1. Init => AlignedInv
    BY InitAligned
<1>2. AlignedInv /\ [Next]_vars => AlignedInv'
    BY NextAligned
<1> QED BY <1>1, <1>2, PTL DEF Spec

LEMMA PrefixIs ==
    ASSUME NEW o \in Seq(Nat), NEW s \in Seq(Nat), Begins(o, s)
    PROVE  IsPrefix(o, s) /\ (Len(o) = Len(s) => o = s)
<1>1. PICK n : n = Len(o)
    OBVIOUS
<1>2. n \in Nat /\ Len(s) \in Nat /\ n <= Len(s) /\ \A j \in 1 .. n : o[j] = s[j]
    BY <1>1, LenProperties DEF Begins
<1>3. SubSeq(o, 1, n) = [j \in 1 .. n |-> o[j]] /\ SubSeq(s, 1, n) = [j \in 1 .. n |-> s[j]]
    BY <1>1, <1>2
<1>4. SubSeq(o, 1, n) = SubSeq(s, 1, n)
    BY <1>2, <1>3
<1>5. ASSUME n = Len(s) PROVE o = s
    BY <1>1, <1>2, <1>5, SeqEqual
<1> QED BY <1>1, <1>2, <1>4, <1>5 DEF IsPrefix

\* The states of writer and reader: whole bytes only, and the reader on the stream
\* or just behind it, never further.
THEOREM TypeCorrect == Spec => []TypeOK
<1>1. ASSUME AlignedInv PROVE TypeOK
    <2>1. w.bytes \in Nat /\ w.left = 0 /\ Len(tape) \in Nat /\ tape \in Seq(TapeByte \cup TapeRun)
      BY <1>1, LenProperties DEF AlignedInv, TapeInv, TapeOf, Writers
    <2>2. d_last \in Nat
      <3>1. d_last \in Octets
        BY <1>1 DEF AlignedInv
      <3> QED BY <3>1, SMT DEF Octets
    <2>3. ASSUME NEW p \in 1 .. Len(tape)
          PROVE  /\ tape[p].kind \in {"byte", "run"}
                 /\ tape[p].kind = "run" => tape[p].val \in Seq(Nat)
                 /\ tape[p].kind = "byte" => tape[p].val \in Nat
                 /\ tape[p].ip \in 0 .. w.bytes
      <3>1. PICK x : x = tape[p]
        OBVIOUS
      <3>2. x \in TapeByte \cup TapeRun
        BY <2>1, <3>1, ElementOfSeq
      <3>3. x.ip <= w.bytes
        BY <1>1, <3>1 DEF AlignedInv, TapeInv, TapeOf
      <3>4. x.ip \in Nat
        BY <3>2 DEF TapeByte, TapeRun
      <3>5. x.ip \in 0 .. w.bytes
        BY <2>1, <3>3, <3>4
      <3>6. /\ x.kind \in {"byte", "run"} /\ (x.kind = "run" => x.val \in Seq(Nat))
            /\ x.kind = "byte" => x.val \in Nat
        BY <3>2 DEF TapeByte, TapeRun
      <3> QED BY <3>1, <3>5, <3>6
    <2>4. rd \in 1 .. Len(tape) + 1
      <3>1. CASE phase = "encode"
        <4>1. rd = 1
          BY <1>1, <3>1 DEF AlignedInv, ReaderInv
        <4> QED BY <2>1, <4>1
      <3>2. CASE phase = "done"
        <4>1. rd = Len(tape) + 1
          BY <1>1, <3>2 DEF AlignedInv, ReaderInv
        <4> QED BY <2>1, <4>1
      <3>3. CASE phase = "decode"
        <4>1. PICK k \in 1 .. Len(marks) - 1 : Standing(k)
          BY <1>1, <3>3 DEF AlignedInv, ReaderInv
        <4>2. /\ Len(marks) \in Nat /\ Len(out) \in Nat
              /\ \A i \in 1 .. Len(marks) : marks[i].len \in Nat /\ marks[i].tape \in Nat /\ marks[i].tape <= Len(tape)
          BY <1>1, <3>3, Reader
        <4>3. k \in 1 .. Len(marks) /\ k + 1 \in 1 .. Len(marks)
          BY <4>2
        <4>4. PICK mt, et, tl : mt = marks[k].tape /\ et = marks[k + 1].tape /\ tl = Len(tape)
          OBVIOUS
        <4>5. mt \in Nat /\ mt <= tl /\ et \in Nat /\ et <= tl /\ tl \in Nat /\ marks[k + 1].len \in Nat
          BY <2>1, <4>2, <4>3, <4>4
        <4>6. CASE AtMark(k)
          <5>1. rd = mt + 1
            BY <4>4, <4>6 DEF AtMark
          <5>2. rd \in 1 .. tl + 1
            BY <4>5, <5>1
          <5> QED BY <4>4, <5>2
        <4>7. CASE InCommand(k)
          <5>1. rd \in Nat /\ rd >= 1
            BY <1>1, <4>7 DEF AlignedInv, InCommand
          <5>2. RestAt(tape, input, Len(out), rd, d_last, marks[k + 1], k = Len(marks) - 1)
            BY <4>7 DEF InCommand
          <5>3. rd <= et
            BY <4>2, <4>4, <4>5, <5>1, <5>2, RestBounds
          <5>4. rd \in 1 .. tl + 1
            BY <4>5, <5>1, <5>3
          <5> QED BY <4>4, <5>4
        <4> QED BY <4>1, <4>6, <4>7 DEF Standing
      <3> QED BY <1>1, <3>1, <3>2, <3>3 DEF AlignedInv
    <2>5. ASSUME NEW p \in 1 .. Len(tape)
          PROVE  /\ tape[p].val \in (CASE tape[p].kind = "bit" -> 0 .. 1 [] tape[p].kind = "run" -> Seq(Nat) [] OTHER -> Nat)
                 /\ tape[p].ip \in 0 .. w.bytes
      <3>1. CASE tape[p].kind = "run"
        BY <2>3, <3>1
      <3>2. CASE tape[p].kind = "byte"
        BY <2>3, <3>2
      <3> QED BY <2>3, <3>1, <3>2
    <2>6. w.left \in 0 .. ByteBits - 1 /\ w.back \in BOOLEAN
      <3>1. w.back \in BOOLEAN
        BY <1>1 DEF AlignedInv, TapeInv, TapeOf, Writers
      <3> QED BY <2>1, <3>1, StreamAssumption
    <2>7. /\ phase \in {"encode", "finish", "decode", "done"}
          /\ prev \in {"Start", "Literals", "FullRun", "LiteralsAfterMatch", "Match"}
          /\ last \in Nat
      BY <1>1 DEF AlignedInv
    <2>8. input \in Seq(Nat) /\ out \in Seq(Nat) /\ predicted \in Int /\ max_gap \in Int /\ peak \in Int
      BY <1>1 DEF AlignedInv
    <2> QED BY <2>1, <2>2, <2>4, <2>5, <2>6, <2>7, <2>8 DEF TypeOK
<1> QED BY <1>1, WriterAndReaderAgree, PTL

\* What either decoder has produced is at every moment the beginning of the input, and
\* all of it, with the stream read to its end, when it returns: for every sequence of
\* units the encoder may write, with every length and offset its codes hold.
THEOREM DecodesWhatWasEncoded == Spec => []RoundTrip
<1>1. ASSUME AlignedInv PROVE RoundTrip
    <2>1. out \in Seq(Nat) /\ input \in Seq(Nat)
      BY <1>1 DEF AlignedInv
    <2>2. Begins(out, input)
      <3>1. CASE phase = "encode"
        <4>1. Len(out) = 0 /\ Len(input) \in Nat
          BY <1>1, <2>1, <3>1, LenProperties DEF AlignedInv, ReaderInv
        <4> QED BY <4>1 DEF Begins
      <3>2. CASE phase # "encode"
        BY <1>1, <3>2 DEF AlignedInv, ReaderInv
      <3> QED BY <3>1, <3>2
    <2>3. IsPrefix(out, input) /\ (Len(out) = Len(input) => out = input)
      BY <2>1, <2>2, PrefixIs
    <2> QED BY <1>1, <2>3 DEF AlignedInv, ReaderInv, RoundTrip
<1> QED BY <1>1, WriterAndReaderAgree, PTL

\* A decoder that is about to read a token stands where a unit of the encoder ended, in
\* the output and on the stream: it never takes a part of a unit for a token.
THEOREM StaysInStep == Spec => []InStep
<1>1. ASSUME AlignedInv PROVE InStep
    <2> SUFFICES ASSUME phase = "decode", d_state \in {"Token", "Literals", "LastOffset", "NewOffset"}
                 PROVE  \E u \in 1 .. Len(marks) :
                            /\ marks[u].len = Len(out) /\ marks[u].last = d_last + OffsetBias
                            /\ trial.format \in NothingAhead => marks[u].tape + 1 = rd
        BY DEF InStep, AtUnit
    <2>1. PICK k \in 1 .. Len(marks) - 1 : Standing(k)
      BY <1>1 DEF AlignedInv, ReaderInv
    <2>2. AtMark(k)
      BY <2>1 DEF Standing, InCommand
    <2>3. k \in 1 .. Len(marks)
      <3>1. Len(marks) \in Nat
        BY <1>1, Reader
      <3> QED BY <3>1
    <2>4. marks[k].last = 0 /\ OffsetBias = 0
      <3>1. marks \in Seq(MarkOf)
        BY <1>1 DEF AlignedInv, MarksInv, MarksOf
      <3>2. marks[k] \in MarkOf
        BY <2>3, <3>1, ElementOfSeq
      <3>3. marks[k].last = 0
        BY <3>2 DEF MarkOf
      <3>4. trial.format # "zx02"
        BY <1>1 DEF AlignedInv
      <3> QED BY <3>3, <3>4 DEF OffsetBias
    <2>5. d_last + OffsetBias = 0
      BY <2>2, <2>4 DEF AtMark
    <2> QED BY <2>2, <2>3, <2>4, <2>5 DEF AtMark
<1> QED BY <1>1, WriterAndReaderAgree, PTL

\* The parsers' costs are exact: whatever units they choose, the bits they add up are
\* those the writers put on the stream.
THEOREM CostsAreExact == Spec => []CostExact
<1>1. ASSUME AlignedInv PROVE CostExact
    <2>1. TapeBits = 8 * w.bytes
      BY <1>1, TapeTotal DEF AlignedInv
    <2>2. trial.format \notin {"zx02", "bb2", "exo3"}
      BY <1>1 DEF AlignedInv
    <2>3. Owed = 0 /\ ~Undercharged
      BY <2>2 DEF Owed, Undercharged
    <2>4. phase = "encode" => TapeBits = predicted + Owed
      BY <1>1, <2>1, <2>3 DEF AlignedInv
    <2> QED BY <2>2, <2>3, <2>4 DEF CostExact
<1> QED BY <1>1, WriterAndReaderAgree, PTL

\* The gap that max_gap_forward reports, which looks before each command only, is enough
\* to decode in place: within a command the output cannot run ahead of the stream by more
\* than it did at the token before it or does at the one after it.
THEOREM GapIsEnough == Spec => []GapEnough
<1>1. ASSUME AlignedInv PROVE GapEnough
    <2> SUFFICES ASSUME phase = "done" PROVE Gap >= peak - (Len(out) - w.bytes)
        <3>1. trial.format \notin {"pucrunch", "shrinkler", "bb2"}
          BY <1>1 DEF AlignedInv
        <3> QED BY <3>1 DEF GapEnough
    <2>1. peak <= max_gap /\ peak \in Int /\ max_gap \in Int /\ out \in Seq(Nat) /\ w.bytes \in Nat
      BY <1>1 DEF AlignedInv, ReaderInv, TapeInv, TapeOf, Writers
    <2>2. PICK l, b : l = Len(out) /\ b = w.bytes
      OBVIOUS
    <2>3. l \in Nat /\ b \in Nat
      BY <2>1, <2>2, LenProperties
    <2>4. Gap = Larger(max_gap - (l - b), 0)
      BY <2>2 DEF Gap
    <2>5. Larger(max_gap - (l - b), 0) >= peak - (l - b)
      BY <2>1, <2>3 DEF Larger
    <2> QED BY <2>2, <2>4, <2>5
<1> QED BY <1>1, WriterAndReaderAgree, PTL
=============================================================================
