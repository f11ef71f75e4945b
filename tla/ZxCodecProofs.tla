--------------------------- MODULE ZxCodecProofs ----------------------------
(***************************************************************************)
(* ZxCodec, proved for every grammar, every alphabet and every bound: the  *)
(* decoders give the input back, agree with the encoder between any two    *)
(* units, and the cost model is exact.                                     *)
(*                                                                         *)
(* The invariant keeps, for every unit written so far, where its symbols   *)
(* lie in the stream and what they are (Placed, Legal), and says of a      *)
(* decoder that it stands at one of the encoder's marks or has read the    *)
(* head of the unit after it (Mirrors).  A step of the decoder then is a   *)
(* matter of reading codes back where they lie; one of the encoder adds a  *)
(* unit and moves nothing.                                                 *)
(***************************************************************************)
EXTENDS ZxCodec, SequenceTheorems, Induction, TLAPS

\* What the variables hold.
Queue == [1 .. 4 -> Nat \ {0}]
Prevs == {"Start", "Literals", "Match"}
Symbol == [kind : {"bit", "byte", "lsb"}, val : Nat]
Name == {"Start", "Literals", "AfterLitMatch", "AfterMatch", "NewOffset", "Rep", "NearRep",
         "AfterMatchNearRep"}
State == [kind : Name, ri : 0 .. 4]
UnitSet == [sym : State, off : Nat, n : Nat]
Mark == [at : Nat \ {0}, len : Nat, reps : Queue, prev : Prevs, unit : UnitSet,
         symbols : Seq(Symbol), covered : Seq(Letters)]

ModeOf(c) ==
    IF c.eof THEN MODE_MIN_EOF
    ELSE c.slots + (IF c.near THEN 16 ELSE 0) + (IF c.am THEN 32 ELSE 0)

TypeInv ==
    /\ cfg \in Configs /\ backward \in BOOLEAN
    /\ phase \in {"encode", "decode", "done"}
    /\ input \in Seq(Letters) /\ Len(input) <= MaxLen
    /\ prev \in Prevs /\ reps \in Queue
    /\ predicted \in Nat /\ mode = ModeOf(cfg)
    /\ stream \in Seq(Symbol) /\ marks \in Seq(Mark)
    /\ limit \in Nat

\* The symbols s lie in the stream from position p on.
Sits(s, p) ==
    /\ p + Len(s) - 1 <= Len(stream)
    /\ \A j \in 1 .. Len(s) : stream[p + j - 1] = s[j]

\* Unit q, which comes after mark m: its symbols and the input it covers begin
\* where m stands.
Placed(m, q) ==
    /\ Sits(q.symbols, m.at) /\ q.at = m.at + Len(q.symbols)
    /\ q.len = m.len + Len(q.covered) /\ q.len <= Len(input)
    /\ \A j \in 1 .. Len(q.covered) : input[m.len + j] = q.covered[j]

\* The unit's symbols: what the decoder has read once it knows the unit's kind,
\* and the rest.
Bytes(s) == [j \in 1 .. Len(s) |-> ByteSym(s[j])]
LiteralsHead(m) == IF m.prev = "Match" THEN <<BitSym(0)>> ELSE <<>>
LiteralsRest(q) == Gamma(Len(q.covered)) \o Bytes(q.covered)
RepHead(i) ==
    BitSyms(IF cfg.near THEN AfterLitCode(Rep(i))
            ELSE <<0>> \o IF cfg.slots > 1 THEN RepIndexCode(i) ELSE <<>>)
RepRest(q) == Gamma(q.unit.n)
NewHead(m) ==
    BitSyms(IF m.prev = "Literals" THEN (IF cfg.near THEN AfterLitCode(NewOffset) ELSE <<1>>)
            ELSE IF cfg.am THEN <<1, 0>> ELSE <<1>>)
NewRest(q) == NewOffsetBody(q.unit.off, q.unit.n)
NearHead(m, i) == BitSyms(IF m.prev = "Literals" THEN AfterLitCode(NearRep(i)) ELSE <<1, 1, i - 1>>)
NearSign(m, q, i) == IF q.unit.off >= m.reps[i] THEN 0 ELSE 1
NearDelta(m, q, i) ==
    IF q.unit.off >= m.reps[i] THEN q.unit.off - m.reps[i] ELSE m.reps[i] - q.unit.off
NearRest(m, q, i) ==
    <<BitSym(NearSign(m, q, i))>> \o Gamma(NearDelta(m, q, i)) \o Gamma(q.unit.n - 1)

IsLiterals(m, q) ==
    /\ m.prev # "Literals" /\ q.prev = "Literals"
    /\ q.reps = m.reps
    /\ Len(q.covered) >= 1
    /\ q.symbols = LiteralsHead(m) \o LiteralsRest(q)

\* Every byte a match covers is the one off places before it.
IsMatch(m, q) ==
    /\ m.prev # "Start" /\ q.prev = "Match"
    /\ q.unit.off \in 1 .. m.len
    /\ q.unit.n >= 1 /\ Len(q.covered) = q.unit.n
    /\ \A j \in 1 .. q.unit.n : input[m.len + j] = input[m.len + j - q.unit.off]

IsRep(m, q, i) ==
    /\ IsMatch(m, q) /\ m.prev = "Literals"
    /\ i \in 1 .. cfg.slots /\ m.reps[i] = q.unit.off
    /\ q.reps = RepMtf(m.reps, i)
    /\ q.symbols = RepHead(i) \o RepRest(q)

IsNew(m, q) ==
    /\ IsMatch(m, q) /\ q.unit.n >= 2
    /\ cfg.eof => q.unit.off <= EOF_MAX_OFFSET
    /\ q.reps = RepInsert(m.reps, q.unit.off)
    /\ q.symbols = NewHead(m) \o NewRest(q)

IsNear(m, q, i) ==
    /\ IsMatch(m, q) /\ q.unit.n >= 2
    /\ IF m.prev = "Literals" THEN cfg.near ELSE cfg.am
    /\ i \in {1, 2} /\ m.reps[i] # q.unit.off
    /\ q.reps = RepInsert(m.reps, q.unit.off)
    /\ q.symbols = NearHead(m, i) \o NearRest(m, q, i)

Legal(m, q) ==
    \/ IsLiterals(m, q)
    \/ \E i \in 1 .. 4 : IsRep(m, q, i)
    \/ IsNew(m, q)
    \/ \E i \in {1, 2} : IsNear(m, q, i)

LastMark == marks[Len(marks)]

\* The marks link the start of the stream to the encoder as it is.
EncoderInv ==
    /\ Len(marks) >= 1
    /\ marks[1].at = 1 /\ marks[1].len = 0 /\ marks[1].prev = "Start" /\ marks[1].reps = InitReps
    /\ LastMark.len = Len(input) /\ LastMark.prev = prev /\ LastMark.reps = reps
    /\ \A u \in 1 .. (Len(marks) - 1) :
        Placed(marks[u], marks[u + 1]) /\ Legal(marks[u], marks[u + 1])

\* What the decoder is started on.
CallInv ==
    /\ phase = "encode" =>
        /\ LastMark.at = Len(stream) + 1
        /\ d_state = St("Literals") /\ d_reps = InitReps /\ rd = 1 /\ out = <<>> /\ limit = 0
    /\ phase # "encode" =>
        /\ limit = Len(input) \/ (cfg.eof /\ limit = GapLimit)
        /\ cfg.eof => Sits(EofMarker, LastMark.at)

\* The output the first l bytes of input are decoded to.
Produced(l) == [j \in 1 .. l |-> IF backward THEN input[l + 1 - j] ELSE input[j]]

\* A decoder at p has the rest of unit q before it.
Before(rest, q, p) == Sits(rest, p) /\ p + Len(rest) = q.at

\* A decoder in state st at p stands at mark u, has read the head of the unit
\* after mark u, or the one of the end marker after the last unit.
AtMark(u, st, p) ==
    /\ p = marks[u].at
    /\ \/ st = St("AfterLitMatch") /\ marks[u].prev = "Literals"
       \/ st = St("AfterMatch") /\ marks[u].prev = "Match"
InUnit(u, st, p) ==
    LET m == marks[u]
        q == marks[u + 1]
    IN  /\ u < Len(marks)
        /\ \/ st = St("Literals") /\ IsLiterals(m, q) /\ Before(LiteralsRest(q), q, p)
           \/ \E i \in 1 .. 4 : st = Rep(i) /\ IsRep(m, q, i) /\ Before(RepRest(q), q, p)
           \/ st = NewOffset /\ IsNew(m, q) /\ Before(NewRest(q), q, p)
           \/ \E i \in {1, 2} : /\ st \in {NearRep(i), AfterMatchNearRep(i)}
                                /\ IsNear(m, q, i) /\ Before(NearRest(m, q, i), q, p)
InMarker(u, st, p) ==
    st = NewOffset /\ cfg.eof /\ u = Len(marks) /\ Sits(Gamma(EOF_MSB), p)

\* A decoder that has produced o, with the offsets in queue, is where the
\* encoder was at mark u.
Mirrors(u, ph, st, queue, p, o) ==
    /\ o = Produced(marks[u].len) /\ queue = marks[u].reps
    /\ p \in Nat \ {0} /\ st \in State
    /\ ph = "decode" =>
        /\ AtMark(u, st, p) \/ InUnit(u, st, p) \/ InMarker(u, st, p)
        /\ ~ cfg.eof => u < Len(marks)
    /\ ph = "done" =>
        /\ marks[u].len = Len(input)
        /\ st.kind \in {"AfterLitMatch", "AfterMatch"} => AtMark(u, st, p)

DecoderInv ==
    phase # "encode" =>
        \E u \in 1 .. Len(marks) : Mirrors(u, phase, d_state, d_reps, rd, out)

IInv == TypeInv /\ EncoderInv /\ CallInv /\ DecoderInv /\ CostExact

-----------------------------------------------------------------------------
(* Arithmetic and sequences. *)

\* A quotient and a remainder determine the remainder.
LEMMA RemainderIs ==
    ASSUME NEW a \in Nat, NEW b \in Nat \ {0}, NEW q \in Nat, NEW r \in 0 .. (b - 1), a = q * b + r
    PROVE  a % b = r
OBVIOUS

\* The remainder repeats with the divisor.
LEMMA RemainderRepeats ==
    ASSUME NEW a \in Nat, NEW b \in Nat \ {0}
    PROVE  (a + b) % b = a % b
<1>1. PICK q \in Nat, r \in 0 .. (b - 1) : a = q * b + r /\ r = a % b
  <2>1. a = (a \div b) * b + (a % b) /\ a % b \in 0 .. (b - 1) /\ a \div b \in Nat
    OBVIOUS
  <2> QED BY <2>1
<1>2. a + b = (q + 1) * b + r
  BY <1>1
<1>3. a + b \in Nat /\ q + 1 \in Nat
  OBVIOUS
<1> QED BY <1>1, <1>2, <1>3, RemainderIs

\* Length and elements of a concatenation.
LEMMA Joined ==
    ASSUME NEW S, NEW a \in Seq(S), NEW b \in Seq(S)
    PROVE  /\ a \o b \in Seq(S) /\ Len(a \o b) = Len(a) + Len(b)
           /\ Len(a) \in Nat /\ Len(b) \in Nat
           /\ \A j \in 1 .. Len(a) : (a \o b)[j] = a[j]
           /\ \A j \in 1 .. Len(b) : (a \o b)[Len(a) + j] = b[j]
BY ConcatProperties

\* A sequence with the elements of two others one after the other is their concatenation.
LEMMA JoinedIs ==
    ASSUME NEW S, NEW a \in Seq(S), NEW b \in Seq(S), NEW c \in Seq(S),
           Len(c) = Len(a) + Len(b),
           \A j \in 1 .. Len(a) : c[j] = a[j],
           \A j \in 1 .. Len(b) : c[Len(a) + j] = b[j]
    PROVE  a \o b = c
<1>1. /\ a \o b \in Seq(S) /\ Len(a \o b) = Len(c) /\ Len(a) \in Nat /\ Len(b) \in Nat
      /\ \A j \in 1 .. Len(a) : (a \o b)[j] = a[j]
      /\ \A j \in 1 .. Len(b) : (a \o b)[Len(a) + j] = b[j]
    BY Joined
<1>2. ASSUME NEW j \in 1 .. Len(c) PROVE (a \o b)[j] = c[j]
    <2>1. CASE j <= Len(a)
      BY <2>1, <1>1
    <2>2. CASE ~ (j <= Len(a))
      <3>1. j - Len(a) \in 1 .. Len(b) /\ Len(a) + (j - Len(a)) = j
        BY <2>2, <1>1
      <3> QED BY <3>1, <1>1
    <2> QED BY <2>1, <2>2
<1> QED BY <1>1, <1>2, SeqEqual

\* Three and four sequences one after the other, however they are grouped.
Three(a, b, c) == (a \o b) \o c = a \o (b \o c)
Four(a, b, c, d) == a \o ((b \o c) \o d) = ((a \o b) \o c) \o d

\* Concatenation is associative.
LEMMA JoinedThree ==
    ASSUME NEW S, NEW a \in Seq(S), NEW b \in Seq(S), NEW c \in Seq(S)
    PROVE  Three(a, b, c)
BY ConcatAssociative DEF Three

\* A head before a rest of three parts.
LEMMA JoinedFour ==
    ASSUME NEW S, NEW a \in Seq(S), NEW b \in Seq(S), NEW c \in Seq(S), NEW d \in Seq(S)
    PROVE  Four(a, b, c, d)
<1>1. b \o c \in Seq(S)
    BY Joined
<1>2. PICK w \in Seq(S) : w = b \o c
    BY <1>1
<1>3. Three(a, b, c) /\ Three(a, w, d)
    BY JoinedThree
<1> QED BY <1>2, <1>3 DEF Three, Four

-----------------------------------------------------------------------------
(* The Elias gamma code. *)

IsHalving(h, m) == h = [u \in 1 .. m |-> IF u = 1 THEN <<1>> ELSE Append(h[u \div 2], u)]

\* c counts from 1 to v, each element being half of the next.
Chain(c, v) ==
    /\ c \in Seq(Nat \ {0}) /\ Len(c) >= 1
    /\ c[1] = 1 /\ c[Len(c)] = v
    /\ \A j \in 1 .. (Len(c) - 1) : c[j] = c[j + 1] \div 2

\* The table behind Halves exists.
LEMMA HalvingExists ==
    ASSUME NEW v \in Nat
    PROVE  \E h : IsHalving(h, v)
<1> DEFINE Bad == {m \in Nat : ~ \E h : IsHalving(h, m)}
<1>1. ASSUME Bad # {} PROVE FALSE
  <2>1. PICK m \in Bad : \A y \in Bad : m <= y
    BY <1>1, LeastNatural
  <2>2. CASE m = 0
    <3>1. IsHalving([u \in 1 .. 0 |-> 0], 0)
      BY DEF IsHalving
    <3> QED BY <2>1, <2>2, <3>1
  <2>3. CASE m # 0
    <3>1. m - 1 \in Nat /\ m - 1 \notin Bad
       BY <2>1, <2>3
    <3>2. PICK g : IsHalving(g, m - 1)
       BY <3>1
    <3>3. \A u \in 1 .. (m - 1) : g[u] = IF u = 1 THEN <<1>> ELSE Append(g[u \div 2], u)
       BY <3>2 DEF IsHalving
    <3> DEFINE h == [u \in 1 .. m |-> IF u = m THEN (IF u = 1 THEN <<1>> ELSE Append(g[u \div 2], u)) ELSE g[u]]
    <3>4. ASSUME NEW u \in 1 .. m PROVE h[u] = IF u = 1 THEN <<1>> ELSE Append(h[u \div 2], u)
       <4>1. u # 1 => u \div 2 \in 1 .. m /\ u \div 2 # m
         BY <2>3
       <4>2. u # 1 => h[u \div 2] = g[u \div 2]
         BY <4>1
       <4>3. CASE u = m
         BY <4>2, <4>3
       <4>4. CASE u # m
         <5>1. u \in 1 .. (m - 1)
           BY <4>4, <2>3
         <5>2. g[u] = IF u = 1 THEN <<1>> ELSE Append(g[u \div 2], u)
           BY <5>1, <3>3
         <5>3. h[u] = g[u]
           BY <4>4
         <5> QED BY <5>2, <5>3, <4>2
       <4> QED BY <4>3, <4>4
    <3>5. IsHalving(h, m)
       BY <3>4 DEF IsHalving
    <3> QED BY <3>5, <2>1
  <2> QED BY <2>2, <2>3
<1> QED BY <1>1

\* A chain to the half of u becomes one to u.
LEMMA LongerChain ==
    ASSUME NEW u \in Nat, NEW w \in Nat, w = u \div 2, u # 0, NEW c, Chain(c, w)
    PROVE  Chain(Append(c, u), u)
<1>1. c \in Seq(Nat \ {0}) /\ Len(c) \in Nat /\ u \in Nat \ {0}
    BY LenProperties DEF Chain
<1>2. /\ Append(c, u) \in Seq(Nat \ {0}) /\ Len(Append(c, u)) = Len(c) + 1
      /\ \A j \in 1 .. Len(c) : Append(c, u)[j] = c[j]
      /\ Append(c, u)[Len(c) + 1] = u
    BY <1>1, AppendProperties
<1> QED BY <1>1, <1>2 DEF Chain

\* Its entry for u is the chain of u's halves.
LEMMA HalvingChains ==
    ASSUME NEW v \in Nat, NEW h, IsHalving(h, v)
    PROVE  \A u \in 1 .. v : Chain(h[u], u)
<1> DEFINE Bad == {u \in Nat : u \in 1 .. v /\ ~ Chain(h[u], u)}
<1>1. ASSUME Bad # {} PROVE FALSE
  <2>1. PICK u \in Bad : \A y \in Bad : u <= y
    BY <1>1, LeastNatural
  <2>2. h[u] = IF u = 1 THEN <<1>> ELSE Append(h[u \div 2], u)
    BY DEF IsHalving
  <2>3. CASE u = 1
    <3>1. h[u] = <<1>>
      BY <2>2, <2>3
    <3>2. Chain(<<1>>, 1)
      BY DEF Chain
    <3> QED BY <3>1, <3>2, <2>1, <2>3
  <2>4. CASE u # 1
    <3> DEFINE w == u \div 2
               c == h[w]
    <3>1. w \in 1 .. v /\ w < u
      BY <2>4
    <3>2. Chain(c, w)
      <4>1. w \notin Bad
        BY <2>1, <3>1
      <4> QED BY <4>1, <3>1
    <3>3. h[u] = Append(c, u)
      BY <2>2, <2>4
    <3>6. Chain(Append(c, u), u)
      BY <2>1, <2>4, <3>1, <3>2, LongerChain
    <3> QED BY <3>6, <3>3, <2>1
  <2> QED BY <2>3, <2>4
<1> QED BY <1>1

\* Halves(v) counts from 1 to v, each element half of the next.
LEMMA HalvesChain ==
    ASSUME NEW v \in Nat \ {0}
    PROVE  Chain(Halves(v), v)
<1>1. PICK g : IsHalving(g, v)
    BY HalvingExists
<1> DEFINE h == CHOOSE x : IsHalving(x, v)
<1>2. IsHalving(h, v)
    BY <1>1
<1>3. Halves(v) = h[v]
    BY DEF Halves, IsHalving
<1> HIDE DEF h
<1>4. Chain(h[v], v)
    BY <1>2, HalvingChains
<1> QED BY <1>3, <1>4

\* The code of v: the bits of v below its top one, each after a 0, closed by a 1
\* (gamma_encode of src/src/zx.rs).
LEMMA GammaShape ==
    ASSUME NEW v \in Nat \ {0}
    PROVE  LET k == FloorLog2(v) IN
           /\ k \in Nat
           /\ Halves(v)[1] = 1 /\ Halves(v)[k + 1] = v
           /\ \A j \in 1 .. (k + 1) : Halves(v)[j] \in Nat \ {0}
           /\ \A j \in 1 .. k : Halves(v)[j + 1] = 2 * Halves(v)[j] + (Halves(v)[j + 1] % 2)
           /\ GammaCode(v) \in [1 .. (2 * k + 1) -> {0, 1}]
           /\ GammaCode(v)[2 * k + 1] = 1
           /\ \A j \in 0 .. (k - 1) : GammaCode(v)[2 * j + 1] = 0
           /\ \A j \in 1 .. k : GammaCode(v)[2 * j] = Halves(v)[j + 1] % 2
<1> DEFINE c == Halves(v)
           k == FloorLog2(v)
           code == GammaCode(v)
<1>1. Chain(c, v)
    BY HalvesChain
<1>2. k = Len(c) - 1
    BY DEF FloorLog2
<1>3. code = [j \in 1 .. (2 * k + 1) |->
                IF j = 2 * k + 1 THEN 1 ELSE IF j % 2 = 1 THEN 0 ELSE c[j \div 2 + 1] % 2]
    BY DEF GammaCode
<1> HIDE DEF c, k, code
<1>4. k \in Nat /\ Len(c) = k + 1
    BY <1>1, <1>2 DEF Chain
<1>5. \A j \in 1 .. (k + 1) : c[j] \in Nat \ {0}
    BY <1>1, <1>4 DEF Chain
<1>6. c[1] = 1 /\ c[k + 1] = v
    BY <1>1, <1>4 DEF Chain
<1>7. ASSUME NEW j \in 1 .. k PROVE c[j + 1] = 2 * c[j] + (c[j + 1] % 2)
    <2>1. c[j] = c[j + 1] \div 2
      BY <1>1, <1>4 DEF Chain
    <2>2. c[j + 1] \in Nat
      BY <1>5, <1>4
    <2> QED BY <2>1, <2>2
<1>8. code[2 * k + 1] = 1
    BY <1>3, <1>4
<1>9. ASSUME NEW j \in 0 .. (k - 1) PROVE code[2 * j + 1] = 0
    <2>1. 2 * j + 1 \in 1 .. (2 * k + 1) /\ 2 * j + 1 # 2 * k + 1 /\ (2 * j + 1) % 2 = 1
      BY <1>4
    <2> QED BY <2>1, <1>3
<1>10. ASSUME NEW j \in 1 .. k PROVE code[2 * j] = c[j + 1] % 2
    <2>1. 2 * j \in 1 .. (2 * k + 1) /\ 2 * j # 2 * k + 1 /\ (2 * j) % 2 = 0 /\ (2 * j) \div 2 = j
      BY <1>4
    <2> QED BY <2>1, <1>3
<1>11. code \in [1 .. (2 * k + 1) -> {0, 1}]
    <2>1. ASSUME NEW j \in 1 .. (2 * k + 1) PROVE code[j] \in {0, 1}
      <3>1. CASE j = 2 * k + 1
        BY <3>1, <1>8
      <3>2. CASE j # 2 * k + 1 /\ j % 2 = 1
        BY <3>2, <1>3
      <3>3. CASE j # 2 * k + 1 /\ j % 2 # 1
        <4>1. j \div 2 + 1 \in 1 .. (k + 1)
          BY <3>3, <1>4
        <4>2. c[j \div 2 + 1] \in Nat
          BY <4>1, <1>5
        <4>3. code[j] = c[j \div 2 + 1] % 2
          BY <3>3, <1>3
        <4> QED BY <4>2, <4>3
      <3> QED BY <3>1, <3>2, <3>3
    <2> QED BY <2>1, <1>3
<1> QED BY <1>4, <1>5, <1>6, <1>7, <1>8, <1>9, <1>10, <1>11 DEF c, k, code
-----------------------------------------------------------------------------
(* Reading what lies in the stream. *)

IsValue(f, k, p) ==
    f = [j \in 0 .. k |-> IF j = 0 THEN 1 ELSE 2 * f[j - 1] + At(p + 2 * j - 1)]

\* read_gamma on the code of v gives v and the position after it.
LEMMA GammaAtPlace ==
    ASSUME NEW v \in Nat \ {0}, NEW p \in Nat \ {0}, NEW k,
           Len(stream) \in Nat,
           k = FloorLog2(v), p + 2 * k <= Len(stream),
           \A j \in 1 .. (2 * k + 1) : At(p + j - 1) = GammaCode(v)[j]
    PROVE  ReadGamma(p) = [val |-> v, next |-> p + 2 * k + 1]
<1> DEFINE n == Len(stream)
           c == Halves(v)
           kk == GammaDataBits(At, n, p)
           OK(i) == /\ p + 2 * i <= n /\ At(p + 2 * i) = 1
                    /\ \A j \in 0 .. (i - 1) : At(p + 2 * j) = 0
<1>1. /\ k \in Nat
      /\ c[1] = 1 /\ c[k + 1] = v
      /\ \A j \in 1 .. (k + 1) : c[j] \in Nat \ {0}
      /\ \A j \in 1 .. k : c[j + 1] = 2 * c[j] + (c[j + 1] % 2)
      /\ GammaCode(v)[2 * k + 1] = 1
      /\ \A j \in 0 .. (k - 1) : GammaCode(v)[2 * j + 1] = 0
      /\ \A j \in 1 .. k : GammaCode(v)[2 * j] = c[j + 1] % 2
    BY GammaShape
<1> HIDE DEF c
<1>2. At(p + 2 * k) = 1
    <2>1. 2 * k + 1 \in 1 .. (2 * k + 1) /\ p + (2 * k + 1) - 1 = p + 2 * k
      BY <1>1
    <2> QED BY <2>1, <1>1
<1>3. ASSUME NEW j \in 0 .. (k - 1) PROVE At(p + 2 * j) = 0
    <2>1. 2 * j + 1 \in 1 .. (2 * k + 1) /\ p + (2 * j + 1) - 1 = p + 2 * j
      BY <1>1
    <2> QED BY <2>1, <1>1
<1>4. ASSUME NEW j \in 1 .. k PROVE At(p + 2 * j - 1) = c[j + 1] % 2
    <2>1. 2 * j \in 1 .. (2 * k + 1)
      BY <1>1
    <2> QED BY <2>1, <1>1
<1>5. kk = k
    <2>1. k \in 0 .. n /\ OK(k)
      BY <1>1, <1>2, <1>3
    <2>2. ASSUME NEW i \in 0 .. n, OK(i) PROVE i = k
      <3>1. ~ (i < k)
        BY <2>2, <1>3, <1>1
      <3>2. ~ (k < i)
        BY <2>2, <1>2, <1>1
      <3> QED BY <3>1, <3>2, <1>1
    <2>3. kk = CHOOSE i \in 0 .. n : OK(i)
      BY DEF GammaDataBits
    <2> QED BY <2>1, <2>2, <2>3
<1> DEFINE value == CHOOSE f : IsValue(f, k, p)
<1>6. ReadGamma(p) = [val |-> value[k], next |-> p + 2 * k + 1]
    BY <1>5 DEF ReadGamma, GammaAt, IsValue
<1>7. IsValue([j \in 0 .. k |-> c[j + 1]], k, p)
    <2> DEFINE w == [j \in 0 .. k |-> c[j + 1]]
    <2>1. ASSUME NEW j \in 0 .. k PROVE w[j] = IF j = 0 THEN 1 ELSE 2 * w[j - 1] + At(p + 2 * j - 1)
      <3>1. CASE j = 0
        BY <3>1, <1>1
      <3>2. CASE j # 0
        <4>1. j \in 1 .. k /\ j - 1 \in 0 .. k /\ (j - 1) + 1 = j
          BY <3>2, <1>1
        <4>2. w[j - 1] = c[j] /\ w[j] = c[j + 1]
          BY <4>1
        <4>3. c[j + 1] = 2 * c[j] + (c[j + 1] % 2)
          BY <4>1, <1>1
        <4> QED BY <4>2, <4>3, <3>2, <4>1, <1>4
      <3> QED BY <3>1, <3>2
    <2> QED BY <2>1 DEF IsValue
<1>8. IsValue(value, k, p)
    BY <1>7
<1> HIDE DEF value
<1>9. \A j \in 0 .. k : value[j] = IF j = 0 THEN 1 ELSE 2 * value[j - 1] + At(p + 2 * j - 1)
    BY <1>8 DEF IsValue
<1>10. \A j \in 0 .. k : value[j] = c[j + 1]
    <2> DEFINE Bad == {j \in Nat : j \in 0 .. k /\ value[j] # c[j + 1]}
    <2>1. ASSUME Bad # {} PROVE FALSE
      <3>1. PICK j \in Bad : \A i \in Bad : j <= i
        BY <2>1, LeastNatural
      <3>2. CASE j = 0
        BY <3>1, <3>2, <1>9, <1>1
      <3>3. CASE j # 0
        <4>0. j \in 1 .. k /\ j - 1 \in 0 .. k /\ (j - 1) + 1 = j /\ j - 1 \in Nat /\ ~ (j <= j - 1)
          BY <3>3, <3>1, <1>1
        <4>1. j \in 1 .. k /\ j - 1 \in 0 .. k /\ (j - 1) + 1 = j /\ j - 1 \notin Bad
          BY <4>0, <3>1
        <4>2. value[j - 1] = c[j]
          BY <4>1
        <4>3. value[j] = 2 * c[j] + (c[j + 1] % 2)
          BY <4>1, <4>2, <1>4, <1>9, <3>3
        <4>4. c[j + 1] = 2 * c[j] + (c[j + 1] % 2)
          BY <4>1, <1>1
        <4> QED BY <4>3, <4>4, <3>1
      <3> QED BY <3>2, <3>3
    <2> QED BY <2>1
<1>11. value[k] = v
    BY <1>1, <1>10, <1>1
<1> QED BY <1>6, <1>11

\* Bits as symbols of the stream.
LEMMA BitSymsType ==
    ASSUME NEW b \in Seq({0, 1})
    PROVE  /\ BitSyms(b) \in Seq(Symbol) /\ Len(BitSyms(b)) = Len(b)
           /\ \A j \in 1 .. Len(b) : BitSyms(b)[j] = BitSym(b[j]) /\ BitSyms(b)[j].val = b[j]
<1>1. Len(b) \in Nat /\ \A j \in 1 .. Len(b) : b[j] \in {0, 1}
    BY ElementOfSeq
<1>2. \A j \in 1 .. Len(b) : BitSym(b[j]) \in Symbol
    BY <1>1 DEF BitSym, Symbol
<1>3. BitSyms(b) \in [1 .. Len(b) -> Symbol]
    BY <1>2 DEF BitSyms
<1>4. BitSyms(b) \in Seq(Symbol) /\ Len(BitSyms(b)) = Len(b)
    BY <1>1, <1>3, IsASeq, LenProperties
<1> QED BY <1>4 DEF BitSyms, BitSym

\* The gamma code as symbols of the stream.
LEMMA GammaType ==
    ASSUME NEW v \in Nat \ {0}
    PROVE  /\ FloorLog2(v) \in Nat
           /\ Gamma(v) \in Seq(Symbol) /\ Len(Gamma(v)) = 2 * FloorLog2(v) + 1
           /\ \A j \in 1 .. Len(Gamma(v)) : Gamma(v)[j].val = GammaCode(v)[j] /\ Gamma(v)[j].kind = "bit"
<1> DEFINE k == FloorLog2(v)
<1>1. k \in Nat /\ GammaCode(v) \in [1 .. (2 * k + 1) -> {0, 1}]
    BY GammaShape
<1> HIDE DEF k
<1>2. 2 * k + 1 \in Nat
    BY <1>1
<1>3. GammaCode(v) \in Seq({0, 1}) /\ Len(GammaCode(v)) = 2 * k + 1
    BY <1>1, <1>2, IsASeq, LenProperties
<1>4. /\ BitSyms(GammaCode(v)) \in Seq(Symbol) /\ Len(BitSyms(GammaCode(v))) = 2 * k + 1
      /\ \A j \in 1 .. (2 * k + 1) : BitSyms(GammaCode(v))[j] = BitSym(GammaCode(v)[j])
    BY <1>3, BitSymsType
<1> QED BY <1>1, <1>4 DEF Gamma, BitSym, k

\* Where two parts lie when their concatenation lies at p.
LEMMA SitsConcat ==
    ASSUME NEW a \in Seq(Symbol), NEW b \in Seq(Symbol), NEW p \in Nat \ {0},
           stream \in Seq(Symbol), Sits(a \o b, p)
    PROVE  /\ Sits(a, p) /\ Sits(b, p + Len(a))
           /\ Len(a \o b) = Len(a) + Len(b) /\ Len(a) \in Nat /\ Len(b) \in Nat
           /\ p + Len(a) \in Nat \ {0}
<1>1. /\ Len(a) \in Nat /\ Len(b) \in Nat /\ Len(a \o b) = Len(a) + Len(b) /\ Len(stream) \in Nat
      /\ \A j \in 1 .. Len(a) : (a \o b)[j] = a[j]
      /\ \A j \in 1 .. Len(b) : (a \o b)[Len(a) + j] = b[j]
    BY ConcatProperties
<1>2. Sits(a, p)
    BY <1>1 DEF Sits
<1>3. Sits(b, p + Len(a))
    <2>1. ASSUME NEW j \in 1 .. Len(b) PROVE stream[p + Len(a) + j - 1] = b[j]
      <3>1. Len(a) + j \in 1 .. Len(a \o b) /\ p + (Len(a) + j) - 1 = p + Len(a) + j - 1
        BY <1>1
      <3>2. stream[p + (Len(a) + j) - 1] = (a \o b)[Len(a) + j]
        BY <3>1 DEF Sits
      <3> QED BY <1>1, <3>1, <3>2
    <2> QED BY <1>1, <2>1 DEF Sits
<1> QED BY <1>1, <1>2, <1>3

\* What the bit readers return there.
LEMMA AtSits ==
    ASSUME NEW s \in Seq(Symbol), NEW p \in Nat \ {0}, stream \in Seq(Symbol), Sits(s, p),
           NEW j \in 1 .. Len(s)
    PROVE  At(p + j - 1) = s[j].val
<1>1. Len(s) \in Nat /\ Len(stream) \in Nat
    BY LenProperties
<1>2. p + j - 1 <= Len(stream) /\ stream[p + j - 1] = s[j]
    BY <1>1 DEF Sits
<1> QED BY <1>2 DEF At

\* read_gamma where a gamma code lies.
LEMMA ReadGammaSits ==
    ASSUME NEW v \in Nat \ {0}, NEW p \in Nat \ {0}, stream \in Seq(Symbol), Sits(Gamma(v), p)
    PROVE  ReadGamma(p) = [val |-> v, next |-> p + Len(Gamma(v))]
<1> DEFINE k == FloorLog2(v)
<1>1. k \in Nat /\ Gamma(v) \in Seq(Symbol) /\ Len(Gamma(v)) = 2 * k + 1
    BY GammaType
<1>2. Len(stream) \in Nat /\ p + 2 * k <= Len(stream)
    BY <1>1, LenProperties DEF Sits
<1>3. \A j \in 1 .. (2 * k + 1) : At(p + j - 1) = GammaCode(v)[j]
    <2> DEFINE g == Gamma(v)
    <2>1. /\ g \in Seq(Symbol) /\ Len(g) = 2 * k + 1
          /\ \A j \in 1 .. Len(g) : g[j].val = GammaCode(v)[j]
      BY GammaType
    <2>2. Sits(g, p)
      OBVIOUS
    <2> HIDE DEF g, k
    <2>3. \A j \in 1 .. Len(g) : At(p + j - 1) = g[j].val
      BY <2>1, <2>2, AtSits
    <2> QED BY <2>1, <2>3
<1>4. ReadGamma(p) = [val |-> v, next |-> p + 2 * k + 1]
    BY <1>2, <1>3, GammaAtPlace
<1> QED BY <1>1, <1>4

-----------------------------------------------------------------------------
(* Prefix codes: some zeros, closed by a 1 unless there can be no more. *)

TreeCode(n, max) == IF n = max THEN Zeros(n) ELSE ZerosThenOne(n)

\* A tree code is its zeros and the closing 1.
LEMMA TreeCodeShape ==
    ASSUME NEW max \in Nat, NEW n \in 0 .. max
    PROVE  LET c == TreeCode(n, max) IN
           /\ c \in Seq({0, 1}) /\ Len(c) = IF n = max THEN n ELSE n + 1
           /\ \A j \in 1 .. n : c[j] = 0
           /\ n < max => c[n + 1] = 1
<1>1. /\ Zeros(n) \in Seq({0, 1}) /\ Len(Zeros(n)) = n
      /\ \A j \in 1 .. n : Zeros(n)[j] = 0
    <2>1. Zeros(n) \in [1 .. n -> {0, 1}]
      BY DEF Zeros
    <2> QED BY <2>1, IsASeq, LenProperties DEF Zeros
<1>2. /\ ZerosThenOne(n) \in Seq({0, 1}) /\ Len(ZerosThenOne(n)) = n + 1
      /\ \A j \in 1 .. n : ZerosThenOne(n)[j] = 0
      /\ ZerosThenOne(n)[n + 1] = 1
    BY <1>1, AppendProperties DEF ZerosThenOne
<1> QED BY <1>1, <1>2 DEF TreeCode

\* The zeros the decoder counts are determined by what it reads.
LEMMA LeadingZerosIs ==
    ASSUME NEW p \in Nat \ {0}, NEW max \in Nat, NEW n \in 0 .. max,
           \A j \in 0 .. (n - 1) : At(p + j) = 0,
           n < max => At(p + n) = 1
    PROVE  LeadingZeros(p, max) = n
<1> DEFINE OK(i) == /\ \A j \in 0 .. (i - 1) : At(p + j) = 0
                    /\ i < max => At(p + i) = 1
<1>1. OK(n)
    OBVIOUS
<1>2. ASSUME NEW i \in 0 .. max, OK(i) PROVE i = n
    <2>1. ~ (i < n)
      BY <1>2
    <2>2. ~ (n < i)
      BY <1>2
    <2> QED BY <2>1, <2>2
<1>3. LeadingZeros(p, max) = CHOOSE i \in 0 .. max : OK(i)
    BY DEF LeadingZeros
<1> QED BY <1>1, <1>2, <1>3

\* A decoder that counts zeros reads a tree code back.
LEMMA TreeCodeRead ==
    ASSUME NEW max \in Nat, NEW n \in 0 .. max, NEW p \in Nat \ {0}, stream \in Seq(Symbol),
           Sits(BitSyms(TreeCode(n, max)), p)
    PROVE  LeadingZeros(p, max) = n
<1> DEFINE c == TreeCode(n, max)
<1>1. /\ c \in Seq({0, 1}) /\ Len(c) = IF n = max THEN n ELSE n + 1
      /\ \A j \in 1 .. n : c[j] = 0
      /\ n < max => c[n + 1] = 1
    BY TreeCodeShape
<1> HIDE DEF c
<1>2. /\ BitSyms(c) \in Seq(Symbol) /\ Len(BitSyms(c)) = Len(c)
      /\ \A j \in 1 .. Len(c) : BitSyms(c)[j].val = c[j]
    BY <1>1, BitSymsType
<1>3. \A j \in 1 .. Len(c) : At(p + j - 1) = c[j]
    BY <1>2, AtSits DEF c
<1>4. ASSUME NEW j \in 0 .. (n - 1) PROVE At(p + j) = 0
    <2>1. j + 1 \in 1 .. Len(c) /\ j + 1 \in 1 .. n /\ p + (j + 1) - 1 = p + j
      BY <1>1
    <2> QED BY <2>1, <1>1, <1>3
<1>5. ASSUME n < max PROVE At(p + n) = 1
    <2>1. n + 1 \in 1 .. Len(c) /\ p + (n + 1) - 1 = p + n
      BY <1>1, <1>5
    <2> QED BY <2>1, <1>1, <1>3, <1>5
<1> QED BY <1>4, <1>5, LeadingZerosIs

\* The seven symbols after literals, by their number of zeros.
LEMMA AfterLitTree ==
    /\ AfterLitCode(NewOffset) = TreeCode(0, 6) /\ AfterLitSymbol(0) = NewOffset
    /\ AfterLitCode(Rep(1)) = TreeCode(1, 6) /\ AfterLitSymbol(1) = Rep(1)
    /\ AfterLitCode(Rep(2)) = TreeCode(2, 6) /\ AfterLitSymbol(2) = Rep(2)
    /\ AfterLitCode(NearRep(1)) = TreeCode(3, 6) /\ AfterLitSymbol(3) = NearRep(1)
    /\ AfterLitCode(Rep(4)) = TreeCode(4, 6) /\ AfterLitSymbol(4) = Rep(4)
    /\ AfterLitCode(Rep(3)) = TreeCode(5, 6) /\ AfterLitSymbol(5) = Rep(3)
    /\ AfterLitCode(NearRep(2)) = TreeCode(6, 6) /\ AfterLitSymbol(6) = NearRep(2)
<1>1. \A i, j \in Nat : (Rep(i) = Rep(j) <=> i = j) /\ (NearRep(i) = NearRep(j) <=> i = j)
                        /\ Rep(i) # NearRep(j) /\ Rep(i) # NewOffset /\ NearRep(i) # NewOffset
    BY DEF Rep, NearRep, NewOffset
<1>2. /\ AfterLitCode(NewOffset) = TreeCode(0, 6) /\ AfterLitCode(Rep(1)) = TreeCode(1, 6)
      /\ AfterLitCode(Rep(2)) = TreeCode(2, 6) /\ AfterLitCode(NearRep(1)) = TreeCode(3, 6)
      /\ AfterLitCode(Rep(4)) = TreeCode(4, 6) /\ AfterLitCode(Rep(3)) = TreeCode(5, 6)
      /\ AfterLitCode(NearRep(2)) = TreeCode(6, 6)
    BY <1>1 DEF AfterLitCode, TreeCode
<1>3. /\ AfterLitSymbol(0) = NewOffset /\ AfterLitSymbol(1) = Rep(1) /\ AfterLitSymbol(2) = Rep(2)
      /\ AfterLitSymbol(3) = NearRep(1) /\ AfterLitSymbol(4) = Rep(4)
      /\ AfterLitSymbol(5) = Rep(3) /\ AfterLitSymbol(6) = NearRep(2)
    BY DEF AfterLitSymbol
<1> QED BY <1>2, <1>3

\* The four queue slots are coded by the same kind of tree.
LEMMA RepIndexTree ==
    \A i \in 1 .. 4 : RepIndexCode(i) = TreeCode(i - 1, 3)
BY DEF RepIndexCode, TreeCode
-----------------------------------------------------------------------------
(* The output. *)

\* The decoder reads the encoder's arguments back from the mode byte.
LEMMA ModeRead ==
    ASSUME TypeInv
    PROVE  /\ DecSlots = cfg.slots
           /\ DecNear = cfg.near /\ DecAm = cfg.am /\ DecEof = cfg.eof
<1>1. /\ cfg.slots \in 1 .. 4 /\ (cfg.near \/ cfg.am => cfg.slots = 4)
      /\ cfg.near \in BOOLEAN /\ cfg.am \in BOOLEAN /\ cfg.eof \in BOOLEAN
      /\ cfg.eof => cfg.slots = 1
    BY ConfigsAssumption DEF TypeInv
<1>2. CASE cfg.eof
    <2>1. mode = 65 /\ cfg.slots = 1 /\ ~cfg.near /\ ~cfg.am
      BY <1>1, <1>2 DEF TypeInv, ModeOf, MODE_MIN_EOF
    <2>2. 65 % 16 = 1 /\ (65 \div 16) % 2 = 0 /\ (65 \div 32) % 2 = 0
      OBVIOUS
    <2>3. DecSlots = cfg.slots
      BY <2>1, <2>2 DEF DecSlots
    <2>4. DecNear = cfg.near
      BY <2>1, <2>2, <1>1 DEF DecNear
    <2>5. DecAm = cfg.am
      BY <2>1, <2>2, <1>1 DEF DecAm
    <2>6. DecEof = cfg.eof
      BY <2>1, <1>2, <1>1 DEF DecEof, MODE_MIN_EOF
    <2> QED BY <2>3, <2>4, <2>5, <2>6
<1>3. CASE ~ cfg.eof
    <2> DEFINE a == IF cfg.near THEN 16 ELSE 0
               b == IF cfg.am THEN 32 ELSE 0
    <2>1. mode = cfg.slots + a + b
      BY <1>3 DEF TypeInv, ModeOf
    <2>2. mode # 65 /\ mode % 16 = cfg.slots
      BY <2>1, <1>1
    <2>3. (mode \div 16) % 2 = IF cfg.near THEN 1 ELSE 0
      BY <2>1, <1>1
    <2>4. (mode \div 32) % 2 = IF cfg.am THEN 1 ELSE 0
      BY <2>1, <1>1
    <2> HIDE DEF a, b
    <2>5. DecSlots = cfg.slots
      BY <2>2 DEF DecSlots
    <2>6. DecNear = cfg.near
      BY <2>3, <1>1 DEF DecNear
    <2>7. DecAm = cfg.am
      BY <2>4, <1>1 DEF DecAm
    <2>8. DecEof = cfg.eof
      BY <2>2, <1>3, <1>1 DEF DecEof, MODE_MIN_EOF
    <2> QED BY <2>5, <2>6, <2>7, <2>8
<1> QED BY <1>1, <1>2, <1>3

\* The output for l bytes of input.
LEMMA ProducedType ==
    ASSUME TypeInv, NEW l \in 0 .. Len(input)
    PROVE  /\ Produced(l) \in Seq(Letters) /\ Len(Produced(l)) = l
           /\ \A j \in 1 .. l : Produced(l)[j] = IF backward THEN input[l + 1 - j] ELSE input[j]
<1>1. Len(input) \in Nat /\ \A j \in 1 .. Len(input) : input[j] \in Letters
    BY ElementOfSeq DEF TypeInv
<1>2. Produced(l) \in [1 .. l -> Letters]
    BY <1>1 DEF Produced
<1>3. l \in Nat
    BY <1>1
<1>4. Produced(l) \in Seq(Letters) /\ Len(Produced(l)) = l
    BY <1>2, <1>3, IsASeq, LenProperties
<1> QED BY <1>4 DEF Produced

\* The bytes of a literal run.
LEMMA PushAllProduced ==
    ASSUME TypeInv, NEW l \in Nat, NEW n \in Nat, l + n <= Len(input),
           NEW bs, bs = [j \in 1 .. n |-> input[l + j]]
    PROVE  PushAll(Produced(l), bs) = Produced(l + n)
<1>1. Len(input) \in Nat /\ \A j \in 1 .. Len(input) : input[j] \in Letters
    BY ElementOfSeq DEF TypeInv
<1>2. bs \in Seq(Letters) /\ Len(bs) = n
    <2>1. bs \in [1 .. n -> Letters]
      BY <1>1
    <2> QED BY <2>1, IsASeq, LenProperties
<1>0. l \in 0 .. Len(input) /\ l + n \in 0 .. Len(input)
    BY <1>1
<1>3. /\ Produced(l) \in Seq(Letters) /\ Len(Produced(l)) = l
      /\ \A j \in 1 .. l : Produced(l)[j] = IF backward THEN input[l + 1 - j] ELSE input[j]
    BY ProducedType, <1>0
<1>4. /\ Produced(l + n) \in Seq(Letters) /\ Len(Produced(l + n)) = l + n
      /\ \A j \in 1 .. (l + n) :
            Produced(l + n)[j] = IF backward THEN input[l + n + 1 - j] ELSE input[j]
    BY ProducedType, <1>0
<1>5. CASE backward
    <2> DEFINE r == Reverse(bs)
    <2>1. r = [j \in 1 .. n |-> bs[n - j + 1]]
      BY <1>2 DEF Reverse
    <2>2. \A j \in 1 .. n : r[j] = input[l + n + 1 - j]
      <3>1. ASSUME NEW j \in 1 .. n PROVE r[j] = input[l + n + 1 - j]
        <4>1. n - j + 1 \in 1 .. n /\ l + (n - j + 1) = l + n + 1 - j
          OBVIOUS
        <4> QED BY <2>1, <4>1
      <3> QED BY <3>1
    <2>3. r \in Seq(Letters) /\ Len(r) = n
      <3>1. \A j \in 1 .. n : l + n + 1 - j \in 1 .. Len(input)
        BY <1>1
      <3>2. r \in [1 .. n -> Letters]
        BY <2>1, <2>2, <3>1, <1>1
      <3> QED BY <3>2, IsASeq, LenProperties
    <2> HIDE DEF r
    <2>4. ASSUME NEW j \in 1 .. n PROVE Produced(l + n)[j] = r[j]
      BY <2>2, <1>4, <1>5
    <2>5. ASSUME NEW j \in 1 .. l PROVE Produced(l + n)[n + j] = Produced(l)[j]
      <3>1. n + j \in 1 .. (l + n) /\ l + n + 1 - (n + j) = l + 1 - j
        OBVIOUS
      <3> QED BY <3>1, <1>3, <1>4, <1>5
    <2>6. r \o Produced(l) = Produced(l + n)
      BY <2>3, <2>4, <2>5, <1>3, <1>4, JoinedIs
    <2> QED BY <2>6, <1>5 DEF PushAll, r
<1>6. CASE ~ backward
    <2>1. ASSUME NEW j \in 1 .. l PROVE Produced(l + n)[j] = Produced(l)[j]
      <3>1. j \in 1 .. (l + n)
        OBVIOUS
      <3> QED BY <3>1, <1>3, <1>4, <1>6
    <2>2. ASSUME NEW j \in 1 .. n PROVE Produced(l + n)[l + j] = bs[j]
      BY <1>4, <1>6
    <2>3. Produced(l) \o bs = Produced(l + n)
      <3> DEFINE a == Produced(l)
                 c == Produced(l + n)
      <3> HIDE DEF a, c
      <3>1. a \in Seq(Letters) /\ bs \in Seq(Letters) /\ c \in Seq(Letters)
        BY <1>2, <1>3, <1>4 DEF a, c
      <3>2. Len(a) = l /\ Len(bs) = n /\ Len(c) = l + n
        BY <1>2, <1>3, <1>4 DEF a, c
      <3>3. \A j \in 1 .. Len(a) : c[j] = a[j]
        BY <3>2, <2>1 DEF a, c
      <3>4. \A j \in 1 .. Len(bs) : c[Len(a) + j] = bs[j]
        BY <3>2, <2>2 DEF a, c
      <3>5. Len(c) = Len(a) + Len(bs)
        BY <3>2
      <3>6. a \o bs = c
        BY <3>1, <3>3, <3>4, <3>5, JoinedIs
      <3> QED BY <3>6 DEF a, c
    <2> QED BY <2>3, <1>6 DEF PushAll
<1> QED BY <1>5, <1>6

\* One byte of a match.
LEMMA PushProduced ==
    ASSUME TypeInv, NEW l \in Nat, l + 1 <= Len(input), NEW off \in 1 .. l
    PROVE  /\ Source(Produced(l), off) = input[l + 1 - off]
           /\ Push(Produced(l), input[l + 1]) = Produced(l + 1)
<1>1. Len(input) \in Nat /\ \A j \in 1 .. Len(input) : input[j] \in Letters
    BY ElementOfSeq DEF TypeInv
<1>2. /\ Produced(l) \in Seq(Letters) /\ Len(Produced(l)) = l
      /\ \A j \in 1 .. l : Produced(l)[j] = IF backward THEN input[l + 1 - j] ELSE input[j]
    <2>1. l \in 0 .. Len(input)
      BY <1>1
    <2> QED BY <2>1, ProducedType
<1>3. Source(Produced(l), off) = input[l + 1 - off]
    <2>1. l - off + 1 \in 1 .. l /\ l - off + 1 = l + 1 - off
      OBVIOUS
    <2> QED BY <2>1, <1>2 DEF Source
<1> DEFINE bs == [j \in 1 .. 1 |-> input[l + j]]
<1>4. bs = <<input[l + 1]>>
    <2>1. 1 .. 1 = {1}
      OBVIOUS
    <2> QED BY <2>1
<1>5. PushAll(Produced(l), bs) = Produced(l + 1)
    BY <1>1, PushAllProduced
<1>6. CASE backward
    <2>1. Reverse(<<input[l + 1]>>) = <<input[l + 1]>>
      BY DEF Reverse
    <2> QED BY <1>3, <1>4, <1>5, <1>6, <2>1 DEF Push, PushAll
<1>7. CASE ~ backward
    <2>1. Append(Produced(l), input[l + 1]) = Produced(l) \o <<input[l + 1]>>
      BY <1>1, <1>2, AppendIsConcat
    <2> QED BY <1>3, <1>4, <1>5, <1>7, <2>1 DEF Push, PushAll
<1> QED BY <1>6, <1>7

IsCopy(c, o, off, n) ==
    c = [i \in 0 .. n |-> IF i = 0 THEN o ELSE Push(c[i - 1], Source(c[i - 1], off))]

\* copy_match byte by byte produces what the match covers, however the two overlap.
LEMMA CopyProduced ==
    ASSUME TypeInv, NEW l \in Nat, NEW n \in Nat, l + n <= Len(input), NEW off \in 1 .. l,
           \A j \in 1 .. n : input[l + j] = input[l + j - off]
    PROVE  CopyMatch(Produced(l), off, n) = Produced(l + n)
<1> DEFINE o == Produced(l)
           g == [i \in 0 .. n |-> Produced(l + i)]
           copied == CHOOSE c : IsCopy(c, o, off, n)
<1>1. Len(input) \in Nat
    BY LenProperties DEF TypeInv
<1>2. ASSUME NEW i \in 1 .. n
      PROVE  Push(Produced(l + (i - 1)), Source(Produced(l + (i - 1)), off)) = Produced(l + i)
    <2>1. /\ l + (i - 1) \in Nat /\ (l + (i - 1)) + 1 = l + i /\ l + i <= Len(input)
          /\ off \in 1 .. (l + (i - 1)) /\ (l + (i - 1)) + 1 - off = l + i - off
      BY <1>1
    <2>2. /\ Source(Produced(l + (i - 1)), off) = input[l + i - off]
          /\ Push(Produced(l + (i - 1)), input[l + i]) = Produced(l + i)
      BY <2>1, PushProduced
    <2> QED BY <2>2
<1>3. IsCopy(g, o, off, n)
    <2>1. ASSUME NEW i \in 0 .. n
          PROVE  g[i] = IF i = 0 THEN o ELSE Push(g[i - 1], Source(g[i - 1], off))
      <3>1. CASE i = 0
        BY <3>1
      <3>2. CASE i # 0
        <4>1. i \in 1 .. n /\ i - 1 \in 0 .. n
          BY <3>2
        <4>2. g[i - 1] = Produced(l + (i - 1)) /\ g[i] = Produced(l + i)
          BY <4>1
        <4> QED BY <4>1, <4>2, <1>2, <3>2
      <3> QED BY <3>1, <3>2
    <2> QED BY <2>1 DEF IsCopy
<1>4. IsCopy(copied, o, off, n)
    BY <1>3
<1>5. CopyMatch(o, off, n) = copied[n]
    BY DEF CopyMatch, IsCopy
<1> HIDE DEF copied, o
<1>6. \A i \in 0 .. n : copied[i] = IF i = 0 THEN o ELSE Push(copied[i - 1], Source(copied[i - 1], off))
    BY <1>4 DEF IsCopy
<1> DEFINE Bad == {i \in Nat : i \in 0 .. n /\ copied[i] # Produced(l + i)}
<1>7. ASSUME Bad # {} PROVE FALSE
    <2>1. PICK i \in Bad : \A j \in Bad : i <= j
      BY <1>7, LeastNatural
    <2>2. CASE i = 0
      <3>1. copied[0] = o
        BY <1>6
      <3> QED BY <2>1, <2>2, <3>1 DEF o
    <2>3. CASE i # 0
      <3>1. i \in 1 .. n /\ i - 1 \in 0 .. n /\ i - 1 \in Nat /\ ~ (i <= i - 1)
        BY <2>1, <2>3
      <3>2. copied[i - 1] = Produced(l + (i - 1))
        BY <3>1, <2>1
      <3>3. copied[i] = Push(Produced(l + (i - 1)), Source(Produced(l + (i - 1)), off))
        BY <3>1, <3>2, <1>6, <2>3
      <3> QED BY <3>1, <3>3, <1>2, <2>1
    <2> QED BY <2>2, <2>3
<1>8. copied[n] = Produced(l + n)
    <2> n \in 0 .. n
      OBVIOUS
    <2> QED BY <1>7
<1> QED BY <1>5, <1>8 DEF o

\* A match that repeats what lies off places back repeats it byte by byte.
Periodic(t, l, off, n) == \A j \in 1 .. n : t[l + j] = t[l + j - off]

\* What the encoder covers with a match repeats with the offset.
LEMMA RepeatsBack ==
    ASSUME NEW s \in Seq(Letters), NEW off \in 1 .. Len(s), NEW n \in Nat
    PROVE  /\ Repeats(s, off, n) \in Seq(Letters) /\ Len(Repeats(s, off, n)) = n
           /\ Periodic(s \o Repeats(s, off, n), Len(s), off, n)
<1> DEFINE r == Repeats(s, off, n)
           l == Len(s)
<1>1. l \in Nat /\ \A j \in 1 .. l : s[j] \in Letters
    BY ElementOfSeq
<1>2. \A i \in 1 .. n : (i - 1) % off \in 0 .. (off - 1)
    OBVIOUS
<1>3. r = [i \in 1 .. n |-> s[l - off + 1 + ((i - 1) % off)]]
    BY DEF Repeats
<1> HIDE DEF r, l
<1>4. \A i \in 1 .. n : l - off + 1 + ((i - 1) % off) \in 1 .. l
    BY <1>1, <1>2 DEF l
<1>5. r \in Seq(Letters) /\ Len(r) = n
    <2>1. r \in [1 .. n -> Letters]
      BY <1>1, <1>3, <1>4
    <2> QED BY <2>1, IsASeq, LenProperties
<1>6. /\ \A j \in 1 .. l : (s \o r)[j] = s[j]
      /\ \A j \in 1 .. n : (s \o r)[l + j] = r[j]
    BY <1>5, Joined DEF l
<1>7. ASSUME NEW j \in 1 .. n PROVE (s \o r)[l + j] = (s \o r)[l + j - off]
    <2>1. CASE j <= off
      <3>1. (j - 1) % off = j - 1
        BY <2>1
      <3>2. r[j] = s[l - off + 1 + (j - 1)]
        BY <3>1, <1>3
      <3>3. l + j - off \in 1 .. l /\ l - off + 1 + (j - 1) = l + j - off
        BY <2>1, <1>1 DEF l
      <3> QED BY <3>2, <3>3, <1>6
    <2>2. CASE j > off
      <3>1. j - off \in 1 .. n /\ l + (j - off) = l + j - off
        BY <2>2, <1>1
      <3>2. (j - 1) % off = (j - off - 1) % off
        <4>1. j - off - 1 \in Nat /\ (j - off - 1) + off = j - 1 /\ off \in Nat \ {0}
          BY <2>2, <1>1
        <4>2. ((j - off - 1) + off) % off = (j - off - 1) % off
          BY <4>1, RemainderRepeats
        <4> QED BY <4>1, <4>2
      <3>3. r[j] = r[j - off]
        BY <3>1, <3>2, <1>3
      <3> QED BY <3>1, <3>3, <1>6
    <2>3. j <= off \/ j > off
      BY <1>1 DEF l
    <2> QED BY <2>1, <2>2, <2>3
<1> QED BY <1>5, <1>7 DEF r, l, Periodic

-----------------------------------------------------------------------------
(* The decoder's steps.  It is at mark u, or in the unit after it. *)

\* Two consecutive marks are linked by a unit that lies in the stream.
LEMMA MarkFacts ==
    ASSUME TypeInv, EncoderInv, NEW u \in 1 .. Len(marks)
    PROVE  /\ marks[u] \in Mark /\ marks[u].len <= Len(input)
           /\ Len(marks) \in Nat /\ Len(input) \in Nat /\ u \in Nat
           /\ u < Len(marks) => /\ u + 1 \in 1 .. Len(marks)
                                /\ Placed(marks[u], marks[u + 1]) /\ Legal(marks[u], marks[u + 1])
<1>1. Len(marks) \in Nat /\ Len(input) \in Nat /\ marks[u] \in Mark
    BY ElementOfSeq, LenProperties DEF TypeInv
<1>2. ASSUME u < Len(marks)
      PROVE  /\ u + 1 \in 1 .. Len(marks)
             /\ Placed(marks[u], marks[u + 1]) /\ Legal(marks[u], marks[u + 1])
    <2>1. u \in 1 .. (Len(marks) - 1) /\ u + 1 \in 1 .. Len(marks)
      BY <1>1, <1>2
    <2> QED BY <2>1 DEF EncoderInv
<1>3. marks[u].len <= Len(input)
    <2>1. CASE u = 1
      BY <2>1, <1>1 DEF EncoderInv
    <2>2. CASE u # 1
      <3>1. u - 1 \in 1 .. (Len(marks) - 1) /\ (u - 1) + 1 = u
        BY <2>2, <1>1
      <3>2. Placed(marks[u - 1], marks[u])
        BY <3>1 DEF EncoderInv
      <3> QED BY <3>2 DEF Placed
    <2> QED BY <2>1, <2>2
<1> QED BY <1>1, <1>2, <1>3

\* The fields of a mark.
LEMMA MarkType ==
    ASSUME NEW m \in Mark
    PROVE  /\ m.at \in Nat \ {0} /\ m.len \in Nat /\ m.reps \in Queue /\ m.prev \in Prevs
           /\ m.unit.off \in Nat /\ m.unit.n \in Nat
           /\ m.symbols \in Seq(Symbol) /\ m.covered \in Seq(Letters)
           /\ Len(m.symbols) \in Nat /\ Len(m.covered) \in Nat
<1>1. /\ m.at \in Nat \ {0} /\ m.len \in Nat /\ m.reps \in Queue /\ m.prev \in Prevs
      /\ m.unit \in UnitSet /\ m.symbols \in Seq(Symbol) /\ m.covered \in Seq(Letters)
    BY DEF Mark
<1>2. m.unit.off \in Nat /\ m.unit.n \in Nat
    BY <1>1 DEF UnitSet
<1> QED BY <1>1, <1>2, LenProperties

\* A run or a match inside the input is not cut short.
LEMMA RoomIs ==
    ASSUME TypeInv, EncoderInv, CallInv, phase = "decode",
           NEW l \in Nat, NEW n \in Nat, l + n <= Len(input), out = Produced(l)
    PROVE  Room(n) = n
<1>1. Len(input) \in Nat /\ Len(out) = l
    <2>1. Len(input) \in Nat
      BY LenProperties DEF TypeInv
    <2>2. l \in 0 .. Len(input)
      BY <2>1
    <2> QED BY <2>1, <2>2, ProducedType
<1>2. CASE DecEof
    BY <1>2 DEF Room
<1>3. CASE ~ DecEof
    <2>1. limit = Len(input)
      BY <1>3, ModeRead DEF CallInv
    <2> QED BY <1>1, <1>3, <2>1 DEF Room
<1> QED BY <1>2, <1>3

\* After a whole unit the decoder stands at the next mark.
LEMMA AfterUnit ==
    ASSUME TypeInv, EncoderInv, CallInv, phase = "decode",
           NEW u \in 1 .. Len(marks), u < Len(marks),
           NEW ph, NEW st, NEW p,
           ph = (IF Stops(Produced(marks[u + 1].len)) THEN "done" ELSE "decode"),
           p = marks[u + 1].at,
           \/ st = St("AfterLitMatch") /\ marks[u + 1].prev = "Literals"
           \/ st = St("AfterMatch") /\ marks[u + 1].prev = "Match"
    PROVE  \E w \in 1 .. Len(marks) :
                Mirrors(w, ph, st, marks[u + 1].reps, p, Produced(marks[u + 1].len))
<1> DEFINE w == u + 1
           q == marks[w]
<1>1. /\ w \in 1 .. Len(marks) /\ Len(marks) \in Nat /\ Len(input) \in Nat
      /\ q \in Mark /\ q.len <= Len(input)
    <2>1. w \in 1 .. Len(marks)
      BY MarkFacts
    <2> QED BY <2>1, MarkFacts
<1>2. q.at \in Nat \ {0} /\ q.len \in Nat
    BY <1>1, MarkType
<1>3. Len(Produced(q.len)) = q.len
    <2>1. q.len \in 0 .. Len(input)
      BY <1>1, <1>2
    <2> QED BY <2>1, ProducedType
<1>4. AtMark(w, st, p)
    BY DEF AtMark
<1>5. st \in State
    BY DEF St, State, Name
<1>6. ph \in {"decode", "done"}
    OBVIOUS
<1>7. ASSUME ph = "decode", ~ cfg.eof PROVE w < Len(marks)
    <2>1. limit = Len(input) /\ ~ DecEof
      BY <1>7, ModeRead DEF CallInv
    <2>2. q.len < Len(input)
      BY <1>7, <2>1, <1>1, <1>2, <1>3 DEF Stops
    <2>3. w # Len(marks)
      BY <2>2, <1>2 DEF EncoderInv, LastMark
    <2> QED BY <2>3, <1>1
<1>8. ASSUME ph = "done" PROVE q.len = Len(input)
    <2>1. ~ DecEof /\ q.len >= limit
      BY <1>8, <1>3 DEF Stops
    <2>2. limit = Len(input)
      BY <2>1, ModeRead DEF CallInv
    <2> QED BY <2>1, <2>2, <1>1, <1>2
<1> HIDE DEF w
<1>9. Mirrors(w, ph, st, q.reps, p, Produced(q.len))
    BY <1>2, <1>4, <1>5, <1>6, <1>7, <1>8 DEF Mirrors, w
<1> QED BY <1>1, <1>9 DEF w

\* The literals of a run as symbols.
LEMMA BytesType ==
    ASSUME TypeInv, NEW s \in Seq(Letters)
    PROVE  /\ Bytes(s) \in Seq(Symbol) /\ Len(Bytes(s)) = Len(s) /\ Len(s) \in Nat
           /\ \A j \in 1 .. Len(s) : Bytes(s)[j].val = s[j] /\ Bytes(s)[j].kind = "byte"
<1>1. Letters \subseteq Nat
    <2>1. cfg.alphabet \in Seq(SUBSET Nat)
      BY ConfigsAssumption DEF TypeInv
    <2>2. \A j \in 1 .. MaxLen : cfg.alphabet[j] \in SUBSET Nat
      BY <2>1, ElementOfSeq DEF MaxLen
    <2> QED BY <2>2 DEF Letters
<1>2. Len(s) \in Nat /\ \A j \in 1 .. Len(s) : s[j] \in Letters
    BY ElementOfSeq
<1>3. \A j \in 1 .. Len(s) : ByteSym(s[j]) \in Symbol
    BY <1>1, <1>2 DEF ByteSym, Symbol
<1>4. Bytes(s) \in [1 .. Len(s) -> Symbol]
    BY <1>3 DEF Bytes
<1>5. Bytes(s) \in Seq(Symbol) /\ Len(Bytes(s)) = Len(s)
    BY <1>2, <1>4, IsASeq, LenProperties
<1> QED BY <1>2, <1>5 DEF Bytes, ByteSym

\* A decoder before the rest of a run of literals reads the run and stands at the next
\* mark.
LEMMA DecLiteralsStep ==
    ASSUME TypeInv, EncoderInv, CallInv, phase = "decode", NEW u \in 1 .. Len(marks),
           Mirrors(u, phase, d_state, d_reps, rd, out), DecLiterals
    PROVE  \E w \in 1 .. Len(marks) : Mirrors(w, phase', d_state', d_reps', rd', out')
<1> DEFINE m == marks[u]
           q == marks[u + 1]
           c == q.covered
           n == Len(c)
<1>1. u < Len(marks) /\ IsLiterals(m, q) /\ Before(LiteralsRest(q), q, rd)
    BY DEF Mirrors, AtMark, InUnit, InMarker, DecLiterals, In, St, Rep, NearRep, AfterMatchNearRep,
           NewOffset
<1>2. m \in Mark /\ q \in Mark /\ Placed(m, q)
    BY <1>1, MarkFacts
<1>3. /\ m.len \in Nat /\ q.len \in Nat /\ q.at \in Nat \ {0} /\ c \in Seq(Letters) /\ n \in Nat \ {0}
      /\ m.len + n = q.len /\ q.len <= Len(input)
    BY <1>1, <1>2, MarkType DEF IsLiterals, Placed
<1>4. /\ out = Produced(m.len) /\ d_reps = m.reps /\ rd \in Nat \ {0} /\ stream \in Seq(Symbol)
    BY DEF Mirrors, TypeInv
<1> HIDE DEF n
<1>5. Room(n) = n
    BY <1>3, <1>4, RoomIs
<1> DEFINE g == Gamma(n)
<1>6. /\ g \in Seq(Symbol) /\ Bytes(c) \in Seq(Symbol) /\ Len(Bytes(c)) = n
      /\ \A j \in 1 .. n : Bytes(c)[j].val = c[j]
    <2>1. g \in Seq(Symbol)
      BY <1>3, GammaType
    <2>2. c \in Seq(Letters)
      BY <1>3
    <2>3. /\ Bytes(c) \in Seq(Symbol) /\ Len(Bytes(c)) = Len(c)
          /\ \A j \in 1 .. Len(c) : Bytes(c)[j].val = c[j]
      BY <2>2, BytesType
    <2> QED BY <2>1, <2>3 DEF n
<1>7. Sits(g \o Bytes(c), rd) /\ rd + Len(g \o Bytes(c)) = q.at
    BY <1>1 DEF Before, LiteralsRest, n
<1> HIDE DEF g
<1>8. /\ Sits(g, rd) /\ Sits(Bytes(c), rd + Len(g)) /\ rd + Len(g) \in Nat \ {0} /\ Len(g) \in Nat
      /\ rd + Len(g) + n = q.at
    <2> DEFINE b == Bytes(c)
    <2> HIDE DEF b
    <2>1. g \in Seq(Symbol) /\ b \in Seq(Symbol) /\ Sits(g \o b, rd)
      BY <1>6, <1>7 DEF b
    <2>2. /\ Sits(g, rd) /\ Sits(b, rd + Len(g)) /\ rd + Len(g) \in Nat \ {0}
          /\ Len(g) \in Nat /\ Len(g \o b) = Len(g) + Len(b)
      BY <2>1, <1>4, SitsConcat
    <2>3. Len(b) = n /\ rd + Len(g \o b) = q.at
      BY <1>6, <1>7 DEF b
    <2> QED BY <2>2, <2>3, <1>3, <1>4 DEF b
<1>9. ReadGamma(rd) = [val |-> n, next |-> rd + Len(g)]
    BY <1>3, <1>4, <1>8, ReadGammaSits DEF g
<1> DEFINE bs == [j \in 1 .. n |-> At(rd + Len(g) + j - 1)]
<1>10. bs = [j \in 1 .. n |-> input[m.len + j]]
    <2>1. ASSUME NEW j \in 1 .. n PROVE At(rd + Len(g) + j - 1) = input[m.len + j]
      <3>1. At((rd + Len(g)) + j - 1) = Bytes(c)[j].val
        BY <1>4, <1>6, <1>8, AtSits
      <3>2. input[m.len + j] = c[j]
        BY <1>2 DEF Placed, n
      <3> QED BY <3>1, <3>2, <1>6
    <2> QED BY <2>1
<1> HIDE DEF bs
<1>11. PushAll(out, bs) = Produced(q.len)
    BY <1>3, <1>4, <1>10, PushAllProduced
<1>12. /\ out' = Produced(q.len) /\ rd' = q.at
       /\ phase' = (IF Stops(Produced(q.len)) THEN "done" ELSE "decode")
       /\ d_state' = St("AfterLitMatch") /\ d_reps' = d_reps
    BY <1>5, <1>8, <1>9, <1>11 DEF DecLiterals, bs
<1>13. q.prev = "Literals" /\ q.reps = m.reps
    BY <1>1 DEF IsLiterals
<1> QED BY <1>1, <1>4, <1>12, <1>13, AfterUnit

\* The copy of a match reproduces what the match covers.
LEMMA MatchStep ==
    ASSUME TypeInv, EncoderInv, CallInv, phase = "decode", NEW u \in 1 .. Len(marks),
           u < Len(marks), IsMatch(marks[u], marks[u + 1]), Placed(marks[u], marks[u + 1]),
           out = Produced(marks[u].len),
           Match(marks[u + 1].unit.off, marks[u + 1].unit.n, marks[u + 1].at, marks[u + 1].reps)
    PROVE  \E w \in 1 .. Len(marks) : Mirrors(w, phase', d_state', d_reps', rd', out')
<1> DEFINE m == marks[u]
           q == marks[u + 1]
           off == q.unit.off
           n == q.unit.n
<1>1. m \in Mark /\ q \in Mark /\ q.len <= Len(input)
    BY MarkFacts
<1>2. /\ m.len \in Nat /\ q.len \in Nat /\ off \in 1 .. m.len /\ n \in Nat
      /\ m.len + n = q.len /\ m.len + n <= Len(input)
    BY <1>1, MarkType DEF IsMatch, Placed
<1>3. \A j \in 1 .. n : input[m.len + j] = input[m.len + j - off]
    BY DEF IsMatch
<1>4. Room(n) = n
    BY <1>2, RoomIs
<1>5. CopyMatch(Produced(m.len), off, n) = Produced(m.len + n)
    BY <1>2, <1>3, CopyProduced
<1>6. CopyMatch(out, off, Room(n)) = Produced(q.len)
    BY <1>2, <1>4, <1>5
<1>7. /\ out' = Produced(q.len) /\ rd' = q.at /\ d_reps' = q.reps
      /\ phase' = (IF Stops(Produced(q.len)) THEN "done" ELSE "decode")
      /\ d_state' = St("AfterMatch")
    BY <1>6 DEF Match
<1>8. q.prev = "Match"
    BY DEF IsMatch
<1> QED BY <1>7, <1>8, AfterUnit

\* The same for a match at an offset of the queue.
LEMMA DecRepStep ==
    ASSUME TypeInv, EncoderInv, CallInv, phase = "decode", NEW u \in 1 .. Len(marks),
           Mirrors(u, phase, d_state, d_reps, rd, out), DecRep
    PROVE  \E w \in 1 .. Len(marks) : Mirrors(w, phase', d_state', d_reps', rd', out')
<1> DEFINE m == marks[u]
           q == marks[u + 1]
           n == q.unit.n
<1>1. PICK i \in 1 .. 4 : u < Len(marks) /\ d_state = Rep(i) /\ IsRep(m, q, i) /\ Before(RepRest(q), q, rd)
    BY DEF Mirrors, AtMark, InUnit, InMarker, DecRep, In, St, Rep, NearRep, AfterMatchNearRep,
           NewOffset
<1>2. m \in Mark /\ q \in Mark /\ Placed(m, q)
    BY <1>1, MarkFacts
<1>3. n \in Nat \ {0} /\ m.reps[i] = q.unit.off /\ q.reps = RepMtf(m.reps, i) /\ IsMatch(m, q)
    BY <1>1, <1>2, MarkType DEF IsRep, IsMatch
<1>4. /\ out = Produced(m.len) /\ d_reps = m.reps /\ rd \in Nat \ {0} /\ stream \in Seq(Symbol)
    BY DEF Mirrors, TypeInv
<1>5. Sits(Gamma(n), rd) /\ rd + Len(Gamma(n)) = q.at
    BY <1>1 DEF Before, RepRest
<1>6. ReadGamma(rd) = [val |-> n, next |-> q.at]
    BY <1>3, <1>4, <1>5, ReadGammaSits
<1>7. d_state.ri = i
    BY <1>1 DEF Rep
<1>8. Match(q.unit.off, n, q.at, q.reps)
    BY <1>3, <1>4, <1>6, <1>7 DEF DecRep
<1> QED BY <1>1, <1>2, <1>3, <1>4, <1>8, MatchStep

\* Both parts of a new offset and the length read back.
LEMMA NewOffsetBodySits ==
    ASSUME stream \in Seq(Symbol), NEW off \in Nat \ {0}, NEW n \in Nat, n >= 2, NEW p \in Nat \ {0},
           Sits(NewOffsetBody(off, n), p)
    PROVE  LET msb == ReadGamma(p) IN
           /\ msb.val = Msb(off) /\ msb.next \in Nat \ {0}
           /\ (msb.val - 1) * LsbRange + At(msb.next) + 1 = off
           /\ ReadGamma(msb.next + 1) = [val |-> n - 1, next |-> p + Len(NewOffsetBody(off, n))]
<1> DEFINE a == Gamma(Msb(off))
           b == <<LsbSym(Lsb(off))>>
           c == Gamma(n - 1)
<1>1. LsbRange \in Nat \ {0}
    BY LsbBitsAssumption DEF LsbRange
<1>2. /\ (off - 1) \div LsbRange \in Nat /\ Lsb(off) \in Nat
      /\ off - 1 = ((off - 1) \div LsbRange) * LsbRange + Lsb(off)
    BY <1>1 DEF Lsb
<1>3. Msb(off) \in Nat \ {0} /\ n - 1 \in Nat \ {0} /\ Msb(off) - 1 = (off - 1) \div LsbRange
    BY <1>2 DEF Msb
<1>4. a \in Seq(Symbol) /\ c \in Seq(Symbol)
    BY <1>3, GammaType
<1>5. b \in Seq(Symbol) /\ Len(b) = 1 /\ b[1].val = Lsb(off)
    BY <1>2 DEF LsbSym, Symbol
<1>6. NewOffsetBody(off, n) = (a \o b) \o c
    BY DEF NewOffsetBody
<1> HIDE DEF a, b, c
<1>7. a \o b \in Seq(Symbol)
    BY <1>4, <1>5, Joined
<1>8. /\ Sits(a \o b, p) /\ Sits(c, p + Len(a \o b)) /\ p + Len(a \o b) \in Nat \ {0}
      /\ Len((a \o b) \o c) = Len(a \o b) + Len(c)
      /\ Len(a \o b) \in Nat /\ Len(c) \in Nat
    <2>1. Sits((a \o b) \o c, p)
      BY <1>6
    <2> QED BY <1>4, <1>7, <2>1, SitsConcat
<1>9. /\ Sits(a, p) /\ Sits(b, p + Len(a)) /\ p + Len(a) \in Nat \ {0}
      /\ Len(a \o b) = Len(a) + Len(b) /\ Len(a) \in Nat
    BY <1>4, <1>5, <1>8, SitsConcat
<1>10. ReadGamma(p) = [val |-> Msb(off), next |-> p + Len(a)]
    BY <1>3, <1>9, ReadGammaSits DEF a
<1>11. At(p + Len(a)) = Lsb(off)
    <2>1. 1 \in 1 .. Len(b) /\ (p + Len(a)) + 1 - 1 = p + Len(a)
      BY <1>5, <1>9
    <2>2. At((p + Len(a)) + 1 - 1) = b[1].val
      BY <1>5, <1>9, <2>1, AtSits
    <2> QED BY <2>1, <2>2, <1>5
<1>12. (p + Len(a)) + 1 = p + Len(a \o b)
    BY <1>5, <1>9
<1>13. ReadGamma(p + Len(a \o b)) = [val |-> n - 1, next |-> p + Len(a \o b) + Len(c)]
    BY <1>3, <1>8, ReadGammaSits DEF c
<1>14. p + Len(a \o b) + Len(c) = p + Len(NewOffsetBody(off, n))
    BY <1>6, <1>8
<1>15. (Msb(off) - 1) * LsbRange + Lsb(off) + 1 = off
    <2> DEFINE x == (off - 1) \div LsbRange
               high == x * LsbRange
    <2>1. x \in Nat /\ Msb(off) - 1 = x /\ off - 1 = high + Lsb(off)
      BY <1>2, <1>3
    <2> HIDE DEF x
    <2>2. high \in Nat
      BY <1>1, <2>1
    <2>3. (Msb(off) - 1) * LsbRange = high
      BY <2>1
    <2> HIDE DEF high
    <2> QED BY <1>2, <2>1, <2>2, <2>3
<1> QED BY <1>9, <1>10, <1>11, <1>12, <1>13, <1>14, <1>15

\* The same for a match at a new offset.
LEMMA DecNewOffsetStep ==
    ASSUME TypeInv, EncoderInv, CallInv, phase = "decode", NEW u \in 1 .. Len(marks),
           Mirrors(u, phase, d_state, d_reps, rd, out), DecNewOffset
    PROVE  \E w \in 1 .. Len(marks) : Mirrors(w, phase', d_state', d_reps', rd', out')
<1> DEFINE m == marks[u]
           q == marks[u + 1]
           off == q.unit.off
           n == q.unit.n
<1>1. /\ out = Produced(m.len) /\ d_reps = m.reps /\ rd \in Nat \ {0} /\ stream \in Seq(Symbol)
    BY DEF Mirrors, TypeInv
<1>2. \/ u < Len(marks) /\ IsNew(m, q) /\ Before(NewRest(q), q, rd)
      \/ InMarker(u, d_state, rd)
    BY DEF Mirrors, AtMark, InUnit, DecNewOffset, In, St, Rep, NearRep, AfterMatchNearRep,
           NewOffset
<1>3. ~ InMarker(u, d_state, rd)
    <2> SUFFICES ASSUME InMarker(u, d_state, rd) PROVE FALSE
      OBVIOUS
    <2>1. DecEof /\ Sits(Gamma(EOF_MSB), rd)
      BY ModeRead DEF InMarker
    <2>2. ReadGamma(rd).val = EOF_MSB
      BY <1>1, <2>1, EofAssumption, ReadGammaSits
    <2>3. EOF_MSB >= EOF_MSB
      BY EofAssumption
    <2> QED BY <2>1, <2>2, <2>3 DEF DecNewOffset
<1>4. u < Len(marks) /\ IsNew(m, q) /\ Before(NewRest(q), q, rd)
    BY <1>2, <1>3
<1>5. m \in Mark /\ q \in Mark /\ Placed(m, q)
    BY <1>4, MarkFacts
<1>6. /\ off \in Nat \ {0} /\ n \in Nat /\ n >= 2 /\ q.reps = RepInsert(m.reps, off) /\ IsMatch(m, q)
    BY <1>4, <1>5, MarkType DEF IsNew, IsMatch
<1>7. Sits(NewOffsetBody(off, n), rd) /\ rd + Len(NewOffsetBody(off, n)) = q.at
    BY <1>4 DEF Before, NewRest
<1>8. /\ (ReadGamma(rd).val - 1) * LsbRange + At(ReadGamma(rd).next) + 1 = off
      /\ ReadGamma(ReadGamma(rd).next + 1) = [val |-> n - 1, next |-> q.at]
    <2> HIDE DEF off, n
    <2>1. /\ (ReadGamma(rd).val - 1) * LsbRange + At(ReadGamma(rd).next) + 1 = off
          /\ ReadGamma(ReadGamma(rd).next + 1)
                = [val |-> n - 1, next |-> rd + Len(NewOffsetBody(off, n))]
      BY <1>1, <1>6, <1>7, NewOffsetBodySits
    <2> QED BY <2>1, <1>7
<1>9. (n - 1) + 1 = n
    BY <1>6
<1>10. Match(off, n, q.at, q.reps)
    <2> DEFINE msb == ReadGamma(rd)
               o == (msb.val - 1) * LsbRange + At(msb.next) + 1
               g == ReadGamma(msb.next + 1)
    <2>1. Match(o, g.val + 1, g.next, RepInsertN(d_reps, o))
      BY DEF DecNewOffset
    <2>2. o = off /\ g.val + 1 = n /\ g.next = q.at
      BY <1>8, <1>9
    <2> HIDE DEF o, g, msb
    <2>3. RepInsertN(d_reps, o) = q.reps
      BY <2>2, <1>1, <1>6 DEF RepInsertN
    <2> QED BY <2>1, <2>2, <2>3
<1> QED BY <1>1, <1>4, <1>5, <1>6, <1>10, MatchStep

\* An offset that is not too large has a most significant part below the marker.
LEMMA MsbBelow ==
    ASSUME NEW off \in Nat \ {0}, off <= EOF_MAX_OFFSET
    PROVE  Msb(off) < EOF_MSB /\ Msb(off) \in Nat /\ EOF_MSB \in Nat
<1> DEFINE a == off - 1
           b == LsbRange
           k == EOF_MSB - 1
<1>1. a \in Nat /\ b \in Nat \ {0} /\ k \in Nat /\ EOF_MSB = k + 1
    BY LsbBitsAssumption, EofAssumption DEF LsbRange
<1>2. off = a + 1 /\ off <= k * b
    BY DEF EOF_MAX_OFFSET
<1>3. Msb(off) = (a \div b) + 1
    BY DEF Msb
<1> HIDE DEF a, b, k
<1>4. k * b \in Nat
    BY <1>1
<1>5. a < k * b
    BY <1>1, <1>2, <1>4
<1>6. a \div b < k /\ a \div b \in Nat
    BY <1>1, <1>5
<1> QED BY <1>1, <1>3, <1>6

\* No real offset reads as the end marker, so the marker is met at the end only.
LEMMA DecEofMarkerStep ==
    ASSUME TypeInv, EncoderInv, CallInv, phase = "decode", NEW u \in 1 .. Len(marks),
           Mirrors(u, phase, d_state, d_reps, rd, out), DecEofMarker
    PROVE  \E w \in 1 .. Len(marks) : Mirrors(w, phase', d_state', d_reps', rd', out')
<1> DEFINE m == marks[u]
           q == marks[u + 1]
           off == q.unit.off
           n == q.unit.n
<1>1. /\ out = Produced(m.len) /\ d_reps = m.reps /\ rd \in Nat \ {0} /\ stream \in Seq(Symbol)
    BY DEF Mirrors, TypeInv
<1>2. \/ u < Len(marks) /\ IsNew(m, q) /\ Before(NewRest(q), q, rd)
      \/ InMarker(u, d_state, rd)
    BY DEF Mirrors, AtMark, InUnit, DecEofMarker, In, St, Rep, NearRep, AfterMatchNearRep,
           NewOffset
<1>3. cfg.eof /\ DecEof
    BY ModeRead DEF DecEofMarker
<1>4. ~ (u < Len(marks) /\ IsNew(m, q) /\ Before(NewRest(q), q, rd))
    <2> SUFFICES ASSUME u < Len(marks), IsNew(m, q), Before(NewRest(q), q, rd) PROVE FALSE
      OBVIOUS
    <2>1. m \in Mark /\ q \in Mark
      BY MarkFacts
    <2>2. off \in Nat \ {0} /\ n \in Nat /\ n >= 2 /\ off <= EOF_MAX_OFFSET
      BY <1>3, <2>1, MarkType DEF IsNew, IsMatch
    <2>3. Sits(NewOffsetBody(off, n), rd)
      BY DEF Before, NewRest
    <2>4. ReadGamma(rd).val = Msb(off)
      BY <1>1, <2>2, <2>3, NewOffsetBodySits
    <2>5. Msb(off) < EOF_MSB /\ Msb(off) \in Nat /\ EOF_MSB \in Nat
      BY <2>2, MsbBelow
    <2> QED BY <2>4, <2>5 DEF DecEofMarker
<1>5. u = Len(marks) /\ Sits(Gamma(EOF_MSB), rd) /\ d_state = NewOffset
    BY <1>2, <1>4 DEF InMarker
<1>6. ReadGamma(rd).next \in Nat \ {0}
    <2>1. EOF_MSB \in Nat \ {0} /\ Len(Gamma(EOF_MSB)) \in Nat
      BY EofAssumption, GammaType, LenProperties
    <2>2. ReadGamma(rd).next = rd + Len(Gamma(EOF_MSB))
      BY <1>1, <1>5, <2>1, ReadGammaSits
    <2> QED BY <1>1, <2>1, <2>2
<1>7. m.len = Len(input) /\ Len(input) \in Nat
    BY <1>5, LenProperties DEF EncoderInv, LastMark, TypeInv
<1>8. Len(out) = Len(input) /\ limit \in Nat /\ Len(input) <= limit
    <2>1. Len(input) \in 0 .. Len(input)
      BY <1>7
    <2>2. Len(out) = Len(input)
      BY <1>1, <1>7, <2>1, ProducedType
    <2>3. Len(input) <= MaxLen /\ MaxLen \in Nat /\ limit \in Nat
      <3>1. cfg.alphabet \in Seq(SUBSET Nat)
        BY ConfigsAssumption DEF TypeInv
      <3> QED BY <3>1, LenProperties DEF TypeInv, MaxLen
    <2> QED BY <1>7, <2>2, <2>3 DEF CallInv, GapLimit
<1>9. out' = out /\ phase' = "done" /\ d_state' = NewOffset /\ d_reps' = d_reps /\ rd' \in Nat \ {0}
    BY <1>5, <1>6, <1>8 DEF DecEofMarker
<1>10. NewOffset.kind \notin {"AfterLitMatch", "AfterMatch"} /\ NewOffset \in State
    BY DEF NewOffset, State, Name
<1>11. Mirrors(u, phase', d_state', d_reps', rd', out')
    BY <1>1, <1>7, <1>9, <1>10 DEF Mirrors
<1> QED BY <1>11

\* One bit as a sequence of symbols.
LEMMA BitType == ASSUME NEW b \in {0, 1} PROVE <<BitSym(b)>> \in Seq(Symbol) /\ Len(<<BitSym(b)>>) = 1
<1>1. BitSym(b) \in Symbol
    BY DEF BitSym, Symbol
<1> QED BY <1>1

\* Distance and sign of a near offset give the offset back.
LEMMA NearDeltaType ==
    ASSUME NEW m \in Mark, NEW q, NEW i \in {1, 2}, q.unit.off \in Nat \ {0}, m.reps[i] # q.unit.off
    PROVE  /\ NearDelta(m, q, i) \in Nat \ {0} /\ NearSign(m, q, i) \in {0, 1}
           /\ (IF NearSign(m, q, i) = 0 THEN m.reps[i] + NearDelta(m, q, i)
               ELSE m.reps[i] - NearDelta(m, q, i)) = q.unit.off
<1>1. m.reps[i] \in Nat
    BY MarkType DEF Queue
<1> QED BY <1>1 DEF NearDelta, NearSign

\* The same for a match near an offset of the queue.
LEMMA DecNearRepStep ==
    ASSUME TypeInv, EncoderInv, CallInv, phase = "decode", NEW u \in 1 .. Len(marks),
           Mirrors(u, phase, d_state, d_reps, rd, out), DecNearRep
    PROVE  \E w \in 1 .. Len(marks) : Mirrors(w, phase', d_state', d_reps', rd', out')
<1> DEFINE m == marks[u]
           q == marks[u + 1]
           off == q.unit.off
           n == q.unit.n
<1>1. PICK i \in {1, 2} :
        /\ u < Len(marks) /\ d_state \in {NearRep(i), AfterMatchNearRep(i)}
        /\ IsNear(m, q, i) /\ Before(NearRest(m, q, i), q, rd)
    BY DEF Mirrors, AtMark, InUnit, InMarker, DecNearRep, In, St, Rep, NearRep, AfterMatchNearRep,
           NewOffset
<1>2. m \in Mark /\ q \in Mark /\ Placed(m, q)
    BY <1>1, MarkFacts
<1>3. /\ off \in Nat \ {0} /\ n \in Nat /\ n >= 2 /\ m.reps[i] # off
      /\ q.reps = RepInsert(m.reps, off) /\ IsMatch(m, q)
    BY <1>1, <1>2, MarkType DEF IsNear, IsMatch
<1>4. /\ out = Produced(m.len) /\ d_reps = m.reps /\ rd \in Nat \ {0} /\ stream \in Seq(Symbol)
    BY DEF Mirrors, TypeInv
<1> DEFINE sign == NearSign(m, q, i)
           delta == NearDelta(m, q, i)
           a == <<BitSym(sign)>>
           b == Gamma(delta)
           c == Gamma(n - 1)
<1>5. /\ delta \in Nat \ {0} /\ sign \in {0, 1}
      /\ (IF sign = 0 THEN m.reps[i] + delta ELSE m.reps[i] - delta) = off
    BY <1>2, <1>3, NearDeltaType
<1>6. Sits((a \o b) \o c, rd) /\ rd + Len((a \o b) \o c) = q.at
    BY <1>1 DEF Before, NearRest
<1> HIDE DEF sign, delta
<1>7. n - 1 \in Nat \ {0} /\ (n - 1) + 1 = n
    <2>1. n \in Nat /\ n >= 2
      BY <1>3
    <2> HIDE DEF n
    <2> QED BY <2>1
<1>8. a \in Seq(Symbol) /\ Len(a) = 1 /\ a[1].val = sign
    BY <1>5, BitType DEF BitSym
<1>9. b \in Seq(Symbol) /\ c \in Seq(Symbol)
    BY <1>5, <1>7, GammaType
<1> HIDE DEF a, b, c
<1>10. a \o b \in Seq(Symbol)
    BY <1>8, <1>9, Joined
<1>11. /\ Sits(a \o b, rd) /\ Sits(c, rd + Len(a \o b)) /\ rd + Len(a \o b) \in Nat \ {0}
       /\ Len((a \o b) \o c) = Len(a \o b) + Len(c)
       /\ Len(a \o b) \in Nat /\ Len(c) \in Nat
    BY <1>4, <1>6, <1>9, <1>10, SitsConcat
<1>12. /\ Sits(a, rd) /\ Sits(b, rd + Len(a)) /\ rd + Len(a) \in Nat \ {0}
       /\ Len(a \o b) = Len(a) + Len(b) /\ Len(a) \in Nat /\ Len(b) \in Nat
    BY <1>4, <1>8, <1>9, <1>11, SitsConcat
<1>13. At(rd) = sign
    <2>1. 1 \in 1 .. Len(a) /\ rd + 1 - 1 = rd
      BY <1>4, <1>8
    <2>2. At(rd + 1 - 1) = a[1].val
      BY <1>4, <1>8, <1>12, <2>1, AtSits
    <2> QED BY <2>1, <2>2, <1>8
<1>14. ReadGamma(rd + 1) = [val |-> delta, next |-> rd + Len(a \o b)]
    <2>1. rd + Len(a) = rd + 1 /\ (rd + Len(a)) + Len(b) = rd + Len(a \o b)
      BY <1>4, <1>8, <1>12
    <2>2. ReadGamma(rd + Len(a)) = [val |-> delta, next |-> (rd + Len(a)) + Len(b)]
      BY <1>4, <1>5, <1>12, ReadGammaSits DEF b
    <2> QED BY <2>1, <2>2
<1>15. ReadGamma(rd + Len(a \o b)) = [val |-> n - 1, next |-> q.at]
    <2>1. (rd + Len(a \o b)) + Len(c) = q.at
      BY <1>4, <1>6, <1>11
    <2>2. ReadGamma(rd + Len(a \o b)) = [val |-> n - 1, next |-> (rd + Len(a \o b)) + Len(c)]
      BY <1>4, <1>7, <1>11, ReadGammaSits DEF c
    <2> QED BY <2>1, <2>2
<1>16. d_state.ri = i
    BY <1>1 DEF NearRep, AfterMatchNearRep
<1>17. Match(off, n, q.at, q.reps)
    <2> DEFINE base == d_reps[d_state.ri]
               dd == ReadGamma(rd + 1)
               o == IF At(rd) = 0 THEN base + dd.val ELSE base - dd.val
               g == ReadGamma(dd.next)
    <2>1. Match(o, g.val + 1, g.next, RepInsert(d_reps, o))
      BY DEF DecNearRep
    <2>2. base = m.reps[i] /\ dd.val = delta /\ dd.next = rd + Len(a \o b)
      BY <1>4, <1>14, <1>16
    <2>3. o = off
      BY <1>5, <1>13, <2>2
    <2>4. g.val + 1 = n /\ g.next = q.at
      BY <1>7, <1>15, <2>2
    <2> HIDE DEF base, dd, o, g
    <2>5. RepInsert(d_reps, o) = q.reps
      BY <2>3, <1>3, <1>4
    <2> QED BY <2>1, <2>3, <2>4, <2>5
<1> QED BY <1>1, <1>2, <1>3, <1>4, <1>17, MatchStep

\* The unit after mark u: its head lies before a decoder that stands there,
\* and its rest after the head.
LEMMA HeadAndRest ==
    ASSUME TypeInv, NEW m \in Mark, NEW q, Placed(m, q),
           NEW head \in Seq(Symbol), NEW rest \in Seq(Symbol), q.symbols = head \o rest
    PROVE  /\ Sits(head, m.at) /\ m.at + Len(head) \in Nat \ {0}
           /\ Before(rest, q, m.at + Len(head))
<1>1. m.at \in Nat \ {0} /\ stream \in Seq(Symbol)
    BY MarkType DEF TypeInv
<1>2. Sits(head \o rest, m.at) /\ q.at = m.at + Len(head \o rest)
    BY DEF Placed
<1>3. /\ Sits(head, m.at) /\ Sits(rest, m.at + Len(head)) /\ m.at + Len(head) \in Nat \ {0}
      /\ Len(head \o rest) = Len(head) + Len(rest) /\ Len(head) \in Nat /\ Len(rest) \in Nat
    BY <1>1, <1>2, SitsConcat
<1>4. m.at + Len(head) + Len(rest) = q.at
    BY <1>1, <1>2, <1>3
<1> QED BY <1>3, <1>4 DEF Before

\* The rest of a match at a new offset.
LEMMA NewRestType ==
    ASSUME NEW off \in Nat \ {0}, NEW n \in Nat, n >= 2
    PROVE  NewOffsetBody(off, n) \in Seq(Symbol)
<1>1. LsbRange \in Nat \ {0}
    BY LsbBitsAssumption DEF LsbRange
<1>2. (off - 1) \div LsbRange \in Nat /\ Lsb(off) \in Nat
    BY <1>1 DEF Lsb
<1>3. Msb(off) \in Nat \ {0} /\ n - 1 \in Nat \ {0}
    BY <1>2 DEF Msb
<1>4. Gamma(Msb(off)) \in Seq(Symbol) /\ Gamma(n - 1) \in Seq(Symbol)
    BY <1>3, GammaType
<1>5. <<LsbSym(Lsb(off))>> \in Seq(Symbol)
    BY <1>2 DEF LsbSym, Symbol
<1> QED BY <1>4, <1>5, Joined DEF NewOffsetBody

\* The rest of a match at a near offset.
LEMMA NearRestType ==
    ASSUME NEW m \in Mark, NEW q, NEW i \in {1, 2}, q.unit.off \in Nat \ {0}, m.reps[i] # q.unit.off,
           q.unit.n \in Nat, q.unit.n >= 2
    PROVE  NearRest(m, q, i) \in Seq(Symbol)
<1>1. NearDelta(m, q, i) \in Nat \ {0} /\ NearSign(m, q, i) \in {0, 1}
    BY NearDeltaType
<1>2. q.unit.n - 1 \in Nat \ {0}
    <2> DEFINE n == q.unit.n
    <2>1. n \in Nat /\ n >= 2
      OBVIOUS
    <2> HIDE DEF n
    <2>2. n - 1 \in Nat \ {0}
      BY <2>1
    <2> QED BY <2>2 DEF n
<1>3. Gamma(NearDelta(m, q, i)) \in Seq(Symbol) /\ Gamma(q.unit.n - 1) \in Seq(Symbol)
    BY <1>1, <1>2, GammaType
<1>4. <<BitSym(NearSign(m, q, i))>> \in Seq(Symbol)
    BY <1>1, BitType
<1> QED BY <1>3, <1>4, Joined DEF NearRest

\* What the decoder knows of a unit that follows literals.
LEMMA AfterLitUnit ==
    ASSUME TypeInv, EncoderInv, NEW u \in 1 .. Len(marks), u < Len(marks),
           marks[u].prev = "Literals"
    PROVE  LET m == marks[u]
               q == marks[u + 1]
           IN  \/ \E i \in 1 .. cfg.slots :
                    /\ IsRep(m, q, i) /\ Sits(RepHead(i), m.at)
                    /\ m.at + Len(RepHead(i)) \in Nat \ {0}
                    /\ Before(RepRest(q), q, m.at + Len(RepHead(i)))
               \/ /\ IsNew(m, q) /\ Sits(NewHead(m), m.at)
                  /\ m.at + Len(NewHead(m)) \in Nat \ {0}
                  /\ Before(NewRest(q), q, m.at + Len(NewHead(m)))
               \/ \E i \in {1, 2} :
                    /\ cfg.near /\ IsNear(m, q, i) /\ Sits(NearHead(m, i), m.at)
                    /\ m.at + Len(NearHead(m, i)) \in Nat \ {0}
                    /\ Before(NearRest(m, q, i), q, m.at + Len(NearHead(m, i)))
<1> DEFINE m == marks[u]
           q == marks[u + 1]
<1>1. m \in Mark /\ q \in Mark /\ Placed(m, q) /\ Legal(m, q) /\ u \in Nat
    BY MarkFacts
<1>2. cfg.slots \in 1 .. 4 /\ (cfg.near => cfg.slots = 4)
    BY ConfigsAssumption DEF TypeInv
<1> DEFINE Codes == {<<0>>, <<1>>}
<1>3. \A n \in 0 .. 6 : TreeCode(n, 6) \in Seq({0, 1})
    BY TreeCodeShape
<1>4. \A n \in 0 .. 3 : TreeCode(n, 3) \in Seq({0, 1})
    BY TreeCodeShape
<1>5. \A i \in 1 .. 4 : AfterLitCode(Rep(i)) \in Seq({0, 1}) /\ RepIndexCode(i) \in Seq({0, 1})
    <2>1. \A i \in 1 .. 4 : RepIndexCode(i) \in Seq({0, 1})
      BY <1>4, RepIndexTree
    <2>2. /\ AfterLitCode(Rep(1)) \in Seq({0, 1}) /\ AfterLitCode(Rep(2)) \in Seq({0, 1})
          /\ AfterLitCode(Rep(3)) \in Seq({0, 1}) /\ AfterLitCode(Rep(4)) \in Seq({0, 1})
      BY <1>3, AfterLitTree
    <2>3. \A i \in 1 .. 4 : i = 1 \/ i = 2 \/ i = 3 \/ i = 4
      OBVIOUS
    <2> QED BY <2>1, <2>2, <2>3
<1>6. /\ AfterLitCode(NewOffset) \in Seq({0, 1}) /\ AfterLitCode(NearRep(1)) \in Seq({0, 1})
      /\ AfterLitCode(NearRep(2)) \in Seq({0, 1})
    BY <1>3, AfterLitTree
<1>7. ASSUME NEW i \in 1 .. 4, IsRep(m, q, i)
      PROVE  /\ i \in 1 .. cfg.slots /\ Sits(RepHead(i), m.at)
             /\ m.at + Len(RepHead(i)) \in Nat \ {0}
             /\ Before(RepRest(q), q, m.at + Len(RepHead(i)))
    <2>1. i \in 1 .. cfg.slots /\ q.symbols = RepHead(i) \o RepRest(q) /\ q.unit.n \in Nat \ {0}
      BY <1>1, <1>7, MarkType DEF IsRep, IsMatch
    <2>2. RepRest(q) \in Seq(Symbol)
      BY <2>1, GammaType DEF RepRest
    <2>3. (IF cfg.near THEN AfterLitCode(Rep(i))
           ELSE <<0>> \o IF cfg.slots > 1 THEN RepIndexCode(i) ELSE <<>>) \in Seq({0, 1})
      <3>1. AfterLitCode(Rep(i)) \in Seq({0, 1}) /\ RepIndexCode(i) \in Seq({0, 1})
        BY <1>5
      <3>2. <<0>> \in Seq({0, 1}) /\ <<>> \in Seq({0, 1})
        OBVIOUS
      <3>3. <<0>> \o RepIndexCode(i) \in Seq({0, 1}) /\ <<0>> \o <<>> \in Seq({0, 1})
        BY <3>1, <3>2, Joined
      <3> QED BY <3>1, <3>3
    <2>4. RepHead(i) \in Seq(Symbol)
      BY <2>3, BitSymsType DEF RepHead
    <2> QED BY <1>1, <2>1, <2>2, <2>4, HeadAndRest
<1>8. ASSUME IsNew(m, q)
      PROVE  /\ Sits(NewHead(m), m.at)
             /\ m.at + Len(NewHead(m)) \in Nat \ {0}
             /\ Before(NewRest(q), q, m.at + Len(NewHead(m)))
    <2>1. /\ q.symbols = NewHead(m) \o NewRest(q) /\ q.unit.n \in Nat /\ q.unit.n >= 2
          /\ q.unit.off \in Nat \ {0}
      BY <1>1, <1>8, MarkType DEF IsNew, IsMatch
    <2>2. NewRest(q) \in Seq(Symbol)
      BY <2>1, NewRestType DEF NewRest
    <2>3. (IF cfg.near THEN AfterLitCode(NewOffset) ELSE <<1>>) \in Seq({0, 1})
      <3>1. <<1>> \in Seq({0, 1})
        OBVIOUS
      <3> QED BY <3>1, <1>6
    <2>4. NewHead(m) \in Seq(Symbol)
      BY <2>3, BitSymsType DEF NewHead
    <2> QED BY <1>1, <2>1, <2>2, <2>4, HeadAndRest
<1>9. ASSUME NEW i \in {1, 2}, IsNear(m, q, i)
      PROVE  /\ cfg.near /\ Sits(NearHead(m, i), m.at)
             /\ m.at + Len(NearHead(m, i)) \in Nat \ {0}
             /\ Before(NearRest(m, q, i), q, m.at + Len(NearHead(m, i)))
    <2>1. /\ q.symbols = NearHead(m, i) \o NearRest(m, q, i) /\ q.unit.n \in Nat /\ q.unit.n >= 2
          /\ q.unit.off \in Nat \ {0} /\ m.reps[i] # q.unit.off /\ cfg.near
      BY <1>1, <1>9, MarkType DEF IsNear, IsMatch
    <2>2. NearRest(m, q, i) \in Seq(Symbol)
      BY <1>1, <2>1, NearRestType
    <2>3. NearHead(m, i) \in Seq(Symbol)
      <3>1. NearHead(m, i) = BitSyms(AfterLitCode(NearRep(i)))
        BY DEF NearHead
      <3>2. AfterLitCode(NearRep(i)) \in Seq({0, 1})
        BY <1>6
      <3> QED BY <3>1, <3>2, BitSymsType
    <2> QED BY <1>1, <2>1, <2>2, <2>3, HeadAndRest
<1>10. ~ IsLiterals(m, q)
    BY DEF IsLiterals
<1>11. CASE \E i \in 1 .. 4 : IsRep(m, q, i)
    BY <1>7, <1>11
<1>12. CASE IsNew(m, q)
    BY <1>8, <1>12
<1>13. CASE \E i \in {1, 2} : IsNear(m, q, i)
    BY <1>9, <1>13
<1> QED BY <1>1, <1>10, <1>11, <1>12, <1>13 DEF Legal

\* Where two codes lie when their concatenation lies at p.
LEMMA BitSymsJoined ==
    ASSUME stream \in Seq(Symbol), NEW a \in Seq({0, 1}), NEW b \in Seq({0, 1}), NEW p \in Nat \ {0},
           Sits(BitSyms(a \o b), p)
    PROVE  /\ Sits(BitSyms(a), p) /\ Sits(BitSyms(b), p + Len(a)) /\ p + Len(a) \in Nat \ {0}
           /\ Len(BitSyms(a \o b)) = Len(a) + Len(b)
<1> DEFINE s == BitSyms(a)
           t == BitSyms(b)
           c == BitSyms(a \o b)
<1>1. /\ s \in Seq(Symbol) /\ Len(s) = Len(a) /\ Len(a) \in Nat
      /\ \A j \in 1 .. Len(a) : s[j] = BitSym(a[j])
    BY BitSymsType, LenProperties
<1>2. /\ t \in Seq(Symbol) /\ Len(t) = Len(b) /\ Len(b) \in Nat
      /\ \A j \in 1 .. Len(b) : t[j] = BitSym(b[j])
    BY BitSymsType, LenProperties
<1>3. /\ a \o b \in Seq({0, 1}) /\ Len(a \o b) = Len(a) + Len(b)
      /\ \A j \in 1 .. Len(a) : (a \o b)[j] = a[j]
      /\ \A j \in 1 .. Len(b) : (a \o b)[Len(a) + j] = b[j]
    BY Joined
<1>4. /\ c \in Seq(Symbol) /\ Len(c) = Len(a) + Len(b)
      /\ \A j \in 1 .. (Len(a) + Len(b)) : c[j] = BitSym((a \o b)[j])
    BY <1>3, BitSymsType
<1> HIDE DEF s, t, c
<1>5. \A j \in 1 .. Len(s) : c[j] = s[j]
    BY <1>1, <1>2, <1>3, <1>4
<1>6. \A j \in 1 .. Len(t) : c[Len(s) + j] = t[j]
    <2>1. ASSUME NEW j \in 1 .. Len(b) PROVE c[Len(a) + j] = t[j]
      <3>1. Len(a) + j \in 1 .. (Len(a) + Len(b))
        BY <1>1, <1>2
      <3>2. c[Len(a) + j] = BitSym((a \o b)[Len(a) + j])
        BY <1>4, <3>1
      <3> QED BY <1>2, <1>3, <3>2
    <2> QED BY <1>1, <1>2, <2>1
<1>7. Len(c) = Len(s) + Len(t)
    BY <1>1, <1>2, <1>4
<1>8. s \o t = c
    BY <1>1, <1>2, <1>4, <1>5, <1>6, <1>7, JoinedIs
<1>9. Sits(s \o t, p)
    BY <1>8 DEF c
<1>10. Sits(s, p) /\ Sits(t, p + Len(s)) /\ p + Len(s) \in Nat \ {0}
    BY <1>1, <1>2, <1>9, SitsConcat
<1> QED BY <1>1, <1>4, <1>10 DEF s, t, c

\* A single bit reads back.
LEMMA OneBitRead ==
    ASSUME stream \in Seq(Symbol), NEW b \in {0, 1}, NEW p \in Nat \ {0}, Sits(BitSyms(<<b>>), p)
    PROVE  At(p) = b /\ Len(BitSyms(<<b>>)) = 1
<1>1. /\ <<b>> \in Seq({0, 1}) /\ Len(<<b>>) = 1 /\ <<b>>[1] = b
    OBVIOUS
<1>2. /\ BitSyms(<<b>>) \in Seq(Symbol) /\ Len(BitSyms(<<b>>)) = 1
      /\ BitSyms(<<b>>)[1].val = b
    <2> DEFINE c == <<b>>
    <2>1. c \in Seq({0, 1}) /\ Len(c) = 1 /\ c[1] = b
      BY <1>1
    <2> HIDE DEF c
    <2>2. 1 \in 1 .. Len(c)
      BY <2>1
    <2>3. /\ BitSyms(c) \in Seq(Symbol) /\ Len(BitSyms(c)) = Len(c)
          /\ BitSyms(c)[1].val = c[1]
      BY <2>1, <2>2, BitSymsType
    <2> QED BY <2>1, <2>3 DEF c
<1>3. 1 \in 1 .. Len(BitSyms(<<b>>)) /\ p + 1 - 1 = p
    BY <1>2
<1>4. At(p + 1 - 1) = b
    BY <1>2, <1>3, AtSits
<1> QED BY <1>2, <1>3, <1>4

\* With near offsets the prefix after literals names the unit.
LEMMA NearPrefix ==
    ASSUME stream \in Seq(Symbol), rd \in Nat \ {0}, NEW n \in 0 .. 6,
           Sits(BitSyms(TreeCode(n, 6)), rd), DecAfterLit, DecNear
    PROVE  d_state' = AfterLitSymbol(n) /\ rd' = rd + Len(BitSyms(TreeCode(n, 6)))
<1>1. LeadingZeros(rd, 6) = n
    BY TreeCodeRead
<1>2. Len(BitSyms(TreeCode(n, 6))) = IF n = 6 THEN 6 ELSE n + 1
    <2> DEFINE c == TreeCode(n, 6)
    <2>1. 6 \in Nat
      OBVIOUS
    <2>2. c \in Seq({0, 1}) /\ Len(c) = IF n = 6 THEN n ELSE n + 1
      BY <2>1, TreeCodeShape
    <2> HIDE DEF c
    <2>3. Len(BitSyms(c)) = Len(c)
      BY <2>2, BitSymsType
    <2> QED BY <2>2, <2>3 DEF c
<1> QED BY <1>1, <1>2 DEF DecAfterLit

\* So does the head of a match at an offset of the queue, in every grammar,
LEMMA RepPrefix ==
    ASSUME TypeInv, rd \in Nat \ {0}, NEW i \in 1 .. cfg.slots,
           Sits(RepHead(i), rd), DecAfterLit
    PROVE  d_state' = Rep(i) /\ rd' = rd + Len(RepHead(i))
<1>1. stream \in Seq(Symbol) /\ cfg.slots \in 1 .. 4 /\ i \in 1 .. 4 /\ i - 1 \in 0 .. 3
    BY ConfigsAssumption DEF TypeInv
<1>2. CASE cfg.near
    <2>1. DecNear
      BY <1>2, ModeRead
    <2>2. RepHead(i) = BitSyms(AfterLitCode(Rep(i)))
      BY <1>2 DEF RepHead
    <2>3. PICK n \in 0 .. 6 : AfterLitCode(Rep(i)) = TreeCode(n, 6) /\ AfterLitSymbol(n) = Rep(i)
      <3>1. i = 1 \/ i = 2 \/ i = 3 \/ i = 4
        BY <1>1
      <3>2. 1 \in 0 .. 6 /\ 2 \in 0 .. 6 /\ 4 \in 0 .. 6 /\ 5 \in 0 .. 6
        OBVIOUS
      <3> QED BY <3>1, <3>2, AfterLitTree
    <2> QED BY <1>1, <2>1, <2>2, <2>3, NearPrefix
<1>3. CASE ~ cfg.near /\ cfg.slots > 1
    <2>1. ~ DecNear /\ DecSlots > 1
      BY <1>3, ModeRead
    <2> DEFINE c == TreeCode(i - 1, 3)
    <2>2. RepHead(i) = BitSyms(<<0>> \o c)
      BY <1>1, <1>3, RepIndexTree DEF RepHead
    <2>3. c \in Seq({0, 1}) /\ Len(c) = IF i - 1 = 3 THEN 3 ELSE (i - 1) + 1
      BY <1>1, TreeCodeShape
    <2>4. <<0>> \in Seq({0, 1}) /\ Len(<<0>>) = 1
      OBVIOUS
    <2>5. Sits(BitSyms(<<0>> \o c), rd)
      BY <2>2
    <2> HIDE DEF c
    <2>6. /\ Sits(BitSyms(<<0>>), rd) /\ Sits(BitSyms(c), rd + 1) /\ rd + 1 \in Nat \ {0}
          /\ Len(RepHead(i)) = 1 + Len(c)
      BY <1>1, <2>2, <2>3, <2>4, <2>5, BitSymsJoined
    <2>7. At(rd) = 0
      BY <1>1, <2>6, OneBitRead
    <2>8. LeadingZeros(rd + 1, 3) = i - 1
      BY <1>1, <2>6, TreeCodeRead DEF c
    <2>9. (i - 1) + 1 = i
      BY <1>1
    <2>10. d_state' = Rep(i) /\ rd' = rd + 1 + (IF i - 1 = 3 THEN 3 ELSE (i - 1) + 1)
      BY <2>1, <2>7, <2>8, <2>9 DEF DecAfterLit
    <2> QED BY <2>3, <2>6, <2>10
<1>4. CASE ~ cfg.near /\ ~ (cfg.slots > 1)
    <2>1. ~ DecNear /\ ~ (DecSlots > 1)
      BY <1>4, ModeRead
    <2>2. i = 1
      BY <1>1, <1>4
    <2>3. <<0>> \o <<>> = <<0>>
      OBVIOUS
    <2>4. RepHead(i) = BitSyms(<<0>>)
      BY <1>4, <2>3 DEF RepHead
    <2>5. At(rd) = 0 /\ Len(RepHead(i)) = 1
      BY <1>1, <2>4, OneBitRead
    <2>6. At(rd) # 1
      BY <2>5
    <2>7. d_state' = Rep(1) /\ rd' = rd + 1
      BY <2>1, <2>6 DEF DecAfterLit
    <2> QED BY <2>2, <2>5, <2>7
<1> QED BY <1>2, <1>3, <1>4

\* and the one of a match at a new offset.
LEMMA NewPrefix ==
    ASSUME TypeInv, rd \in Nat \ {0}, NEW m, m.prev = "Literals",
           Sits(NewHead(m), rd), DecAfterLit
    PROVE  d_state' = NewOffset /\ rd' = rd + Len(NewHead(m))
<1>1. stream \in Seq(Symbol)
    BY DEF TypeInv
<1>2. CASE cfg.near
    <2>1. DecNear
      BY <1>2, ModeRead
    <2>2. NewHead(m) = BitSyms(TreeCode(0, 6)) /\ AfterLitSymbol(0) = NewOffset
      BY <1>2, AfterLitTree DEF NewHead
    <2>3. 0 \in 0 .. 6
      OBVIOUS
    <2> QED BY <1>1, <2>1, <2>2, <2>3, NearPrefix
<1>3. CASE ~ cfg.near
    <2>1. ~ DecNear
      BY <1>3, ModeRead
    <2>2. NewHead(m) = BitSyms(<<1>>)
      BY <1>3 DEF NewHead
    <2>3. At(rd) = 1 /\ Len(NewHead(m)) = 1
      BY <1>1, <2>2, OneBitRead
    <2> QED BY <2>1, <2>3 DEF DecAfterLit
<1> QED BY <1>2, <1>3

\* The decoder's states.
LEMMA StatesTyped ==
    /\ NewOffset \in State /\ St("Literals") \in State
    /\ \A i \in 1 .. 4 : Rep(i) \in State
    /\ \A i \in {1, 2} : NearRep(i) \in State /\ AfterMatchNearRep(i) \in State
BY DEF NewOffset, St, Rep, NearRep, AfterMatchNearRep, State, Name

\* After the last unit lies the end marker, its connecting bit first.
LEMMA MarkerSits ==
    ASSUME TypeInv, EncoderInv, CallInv, phase = "decode", cfg.eof, prev # "Start"
    PROVE  /\ LastMark.at \in Nat \ {0} /\ Sits(BitSyms(<<1>>), LastMark.at)
           /\ At(LastMark.at) = 1 /\ Sits(Gamma(EOF_MSB), LastMark.at + 1)
           /\ LastMark.at + 1 \in Nat \ {0}
<1> DEFINE p == LastMark.at
           a == <<BitSym(1)>>
           b == Gamma(EOF_MSB)
           c == <<ByteSym(0)>>
<1>1. p \in Nat \ {0} /\ stream \in Seq(Symbol)
    <2>1. Len(marks) \in 1 .. Len(marks)
      BY LenProperties DEF EncoderInv, TypeInv
    <2> QED BY <2>1, MarkFacts, MarkType DEF LastMark, TypeInv
<1>2. a \in Seq(Symbol) /\ Len(a) = 1 /\ a = BitSyms(<<1>>)
    <2>1. BitSyms(<<1>>) = <<BitSym(1)>>
      BY DEF BitSyms
    <2> QED BY <2>1, BitType
<1>3. b \in Seq(Symbol)
    BY EofAssumption, GammaType
<1>4. c \in Seq(Symbol)
    BY DEF ByteSym, Symbol
<1>5. Sits((a \o b) \o c, p)
    BY DEF CallInv, EofMarker
<1> HIDE DEF a, b, c, p
<1>6. a \o b \in Seq(Symbol)
    BY <1>2, <1>3, Joined
<1>7. Sits(a \o b, p)
    BY <1>1, <1>4, <1>5, <1>6, SitsConcat
<1>8. Sits(a, p) /\ Sits(b, p + Len(a)) /\ p + Len(a) \in Nat \ {0}
    BY <1>1, <1>2, <1>3, <1>7, SitsConcat
<1>9. At(p) = 1
    BY <1>1, <1>2, <1>8, OneBitRead
<1> QED BY <1>1, <1>2, <1>8, <1>9 DEF b, p

\* From a mark after literals the decoder reads the head of the next unit.
LEMMA DecAfterLitStep ==
    ASSUME TypeInv, EncoderInv, CallInv, phase = "decode", NEW u \in 1 .. Len(marks),
           Mirrors(u, phase, d_state, d_reps, rd, out), DecAfterLit
    PROVE  \E w \in 1 .. Len(marks) : Mirrors(w, phase', d_state', d_reps', rd', out')
<1> DEFINE m == marks[u]
           q == marks[u + 1]
<1>1. rd = m.at /\ m.prev = "Literals"
    BY DEF Mirrors, AtMark, InUnit, InMarker, DecAfterLit, In, St, Rep, NearRep, AfterMatchNearRep,
           NewOffset
<1>2. /\ out = Produced(m.len) /\ d_reps = m.reps /\ rd \in Nat \ {0} /\ stream \in Seq(Symbol)
      /\ ~ cfg.eof => u < Len(marks)
      /\ u <= Len(marks) /\ Len(marks) \in Nat
    BY MarkFacts DEF Mirrors, TypeInv
<1>3. out' = out /\ d_reps' = d_reps /\ phase' = "decode"
    BY DEF DecAfterLit
<1>4. ASSUME NEW st \in State, NEW p \in Nat \ {0}, d_state' = st, rd' = p,
             InUnit(u, st, p) \/ InMarker(u, st, p)
      PROVE  Mirrors(u, phase', d_state', d_reps', rd', out')
    BY <1>2, <1>3, <1>4 DEF Mirrors
<1>5. CASE u < Len(marks)
    <2>1. CASE \E i \in 1 .. cfg.slots :
                    /\ IsRep(m, q, i) /\ Sits(RepHead(i), m.at)
                    /\ m.at + Len(RepHead(i)) \in Nat \ {0}
                    /\ Before(RepRest(q), q, m.at + Len(RepHead(i)))
      <3>1. PICK i \in 1 .. cfg.slots :
                    /\ IsRep(m, q, i) /\ Sits(RepHead(i), m.at)
                    /\ m.at + Len(RepHead(i)) \in Nat \ {0}
                    /\ Before(RepRest(q), q, m.at + Len(RepHead(i)))
        BY <2>1
      <3>2. d_state' = Rep(i) /\ rd' = rd + Len(RepHead(i))
        BY <1>1, <1>2, <3>1, RepPrefix
      <3>3. i \in 1 .. 4
        BY ConfigsAssumption DEF TypeInv
      <3>4. InUnit(u, Rep(i), rd + Len(RepHead(i)))
        BY <1>1, <1>5, <3>1, <3>3 DEF InUnit
      <3> QED BY <1>1, <1>4, <3>1, <3>2, <3>3, <3>4, StatesTyped
    <2>2. CASE /\ IsNew(m, q) /\ Sits(NewHead(m), m.at)
               /\ m.at + Len(NewHead(m)) \in Nat \ {0}
               /\ Before(NewRest(q), q, m.at + Len(NewHead(m)))
      <3>1. d_state' = NewOffset /\ rd' = rd + Len(NewHead(m))
        BY <1>1, <1>2, <2>2, NewPrefix
      <3>2. InUnit(u, NewOffset, rd + Len(NewHead(m)))
        BY <1>1, <1>5, <2>2 DEF InUnit
      <3> QED BY <1>1, <1>4, <2>2, <3>1, <3>2, StatesTyped
    <2>3. CASE \E i \in {1, 2} :
                    /\ cfg.near /\ IsNear(m, q, i) /\ Sits(NearHead(m, i), m.at)
                    /\ m.at + Len(NearHead(m, i)) \in Nat \ {0}
                    /\ Before(NearRest(m, q, i), q, m.at + Len(NearHead(m, i)))
      <3>1. PICK i \in {1, 2} :
                    /\ cfg.near /\ IsNear(m, q, i) /\ Sits(NearHead(m, i), m.at)
                    /\ m.at + Len(NearHead(m, i)) \in Nat \ {0}
                    /\ Before(NearRest(m, q, i), q, m.at + Len(NearHead(m, i)))
        BY <2>3
      <3>2. PICK n \in 0 .. 6 :
                AfterLitCode(NearRep(i)) = TreeCode(n, 6) /\ AfterLitSymbol(n) = NearRep(i)
        <4>1. 3 \in 0 .. 6 /\ 6 \in 0 .. 6
          OBVIOUS
        <4> QED BY <4>1, AfterLitTree
      <3>3. NearHead(m, i) = BitSyms(TreeCode(n, 6))
        BY <1>1, <3>2 DEF NearHead
      <3>4. DecNear
        BY <3>1, ModeRead
      <3>5. d_state' = NearRep(i) /\ rd' = rd + Len(NearHead(m, i))
        BY <1>1, <1>2, <3>1, <3>2, <3>3, <3>4, NearPrefix
      <3>6. InUnit(u, NearRep(i), rd + Len(NearHead(m, i)))
        BY <1>1, <1>5, <3>1 DEF InUnit
      <3> QED BY <1>1, <1>4, <3>1, <3>5, <3>6, StatesTyped
    <2> QED BY <1>1, <1>5, <2>1, <2>2, <2>3, AfterLitUnit
<1>6. CASE ~ (u < Len(marks))
    <2>1. u = Len(marks) /\ cfg.eof /\ m = LastMark
      BY <1>2, <1>6, MarkFacts DEF LastMark
    <2>2. prev # "Start"
      BY <1>1, <2>1 DEF EncoderInv
    <2>3. At(rd) = 1 /\ Sits(Gamma(EOF_MSB), rd + 1)
      BY <1>1, <2>1, <2>2, MarkerSits
    <2>4. ~ DecNear
      <3>1. ~ cfg.near
        BY <2>1, ConfigsAssumption DEF TypeInv
      <3> QED BY <3>1, ModeRead
    <2>5. d_state' = NewOffset /\ rd' = rd + 1 /\ rd + 1 \in Nat \ {0}
      BY <1>2, <2>3, <2>4 DEF DecAfterLit
    <2>6. InMarker(u, NewOffset, rd + 1)
      BY <2>1, <2>3 DEF InMarker
    <2> QED BY <1>4, <2>5, <2>6, StatesTyped
<1>7. \E w \in 1 .. Len(marks) : Mirrors(w, phase', d_state', d_reps', rd', out')
    BY <1>4, <1>5, <1>6
<1> QED BY <1>7

\* Three single bits read back.
LEMMA BitsRead ==
    ASSUME stream \in Seq(Symbol), NEW b \in Seq({0, 1}), NEW p \in Nat \ {0}, Sits(BitSyms(b), p)
    PROVE  \A j \in 1 .. Len(b) : At(p + j - 1) = b[j]
<1>1. /\ BitSyms(b) \in Seq(Symbol) /\ Len(BitSyms(b)) = Len(b)
      /\ \A j \in 1 .. Len(b) : BitSyms(b)[j].val = b[j]
    BY BitSymsType
<1> QED BY <1>1, AtSits

\* What the decoder knows of a unit that follows a match.
LEMMA AfterMatchUnit ==
    ASSUME TypeInv, EncoderInv, NEW u \in 1 .. Len(marks), u < Len(marks),
           marks[u].prev = "Match"
    PROVE  LET m == marks[u]
               q == marks[u + 1]
           IN  \/ /\ IsLiterals(m, q) /\ Sits(BitSyms(<<0>>), m.at) /\ m.at + 1 \in Nat \ {0}
                  /\ Before(LiteralsRest(q), q, m.at + 1)
               \/ /\ IsNew(m, q) /\ Sits(NewHead(m), m.at)
                  /\ m.at + Len(NewHead(m)) \in Nat \ {0}
                  /\ Before(NewRest(q), q, m.at + Len(NewHead(m)))
               \/ \E i \in {1, 2} :
                    /\ cfg.am /\ IsNear(m, q, i) /\ Sits(BitSyms(<<1, 1, i - 1>>), m.at)
                    /\ m.at + 3 \in Nat \ {0}
                    /\ Before(NearRest(m, q, i), q, m.at + 3)
<1> DEFINE m == marks[u]
           q == marks[u + 1]
<1>1. m \in Mark /\ q \in Mark /\ Placed(m, q) /\ Legal(m, q) /\ u \in Nat
    BY MarkFacts
<1>2. ASSUME IsLiterals(m, q)
      PROVE  /\ Sits(BitSyms(<<0>>), m.at) /\ m.at + 1 \in Nat \ {0}
             /\ Before(LiteralsRest(q), q, m.at + 1)
    <2>1. q.symbols = <<BitSym(0)>> \o LiteralsRest(q) /\ Len(q.covered) \in Nat \ {0}
      BY <1>1, <1>2, MarkType DEF IsLiterals, LiteralsHead
    <2>2. q.covered \in Seq(Letters)
      BY <1>1, MarkType
    <2>3. Gamma(Len(q.covered)) \in Seq(Symbol) /\ Bytes(q.covered) \in Seq(Symbol)
      BY <2>1, <2>2, GammaType, BytesType
    <2>4. LiteralsRest(q) \in Seq(Symbol)
      BY <2>3, Joined DEF LiteralsRest
    <2>5. BitSyms(<<0>>) = <<BitSym(0)>>
      BY DEF BitSyms
    <2>6. <<BitSym(0)>> \in Seq(Symbol) /\ Len(<<BitSym(0)>>) = 1
      BY BitType
    <2>7. /\ Sits(<<BitSym(0)>>, m.at) /\ m.at + Len(<<BitSym(0)>>) \in Nat \ {0}
          /\ Before(LiteralsRest(q), q, m.at + Len(<<BitSym(0)>>))
      BY <1>1, <2>1, <2>4, <2>6, HeadAndRest
    <2> QED BY <2>5, <2>6, <2>7
<1>3. ASSUME IsNew(m, q)
      PROVE  /\ Sits(NewHead(m), m.at)
             /\ m.at + Len(NewHead(m)) \in Nat \ {0}
             /\ Before(NewRest(q), q, m.at + Len(NewHead(m)))
    <2>1. /\ q.symbols = NewHead(m) \o NewRest(q) /\ q.unit.n \in Nat /\ q.unit.n >= 2
          /\ q.unit.off \in Nat \ {0}
      BY <1>1, <1>3, MarkType DEF IsNew, IsMatch
    <2>2. NewRest(q) \in Seq(Symbol)
      BY <2>1, NewRestType DEF NewRest
    <2>3. (IF cfg.am THEN <<1, 0>> ELSE <<1>>) \in Seq({0, 1})
      <3>1. <<1, 0>> \in Seq({0, 1}) /\ <<1>> \in Seq({0, 1})
        OBVIOUS
      <3> QED BY <3>1
    <2>4. NewHead(m) \in Seq(Symbol)
      BY <2>3, BitSymsType DEF NewHead
    <2> QED BY <1>1, <2>1, <2>2, <2>4, HeadAndRest
<1>4. ASSUME NEW i \in {1, 2}, IsNear(m, q, i)
      PROVE  /\ cfg.am /\ Sits(BitSyms(<<1, 1, i - 1>>), m.at)
             /\ m.at + 3 \in Nat \ {0}
             /\ Before(NearRest(m, q, i), q, m.at + 3)
    <2>1. /\ q.symbols = NearHead(m, i) \o NearRest(m, q, i) /\ q.unit.n \in Nat /\ q.unit.n >= 2
          /\ q.unit.off \in Nat \ {0} /\ m.reps[i] # q.unit.off /\ cfg.am
      BY <1>1, <1>4, MarkType DEF IsNear, IsMatch
    <2>2. NearRest(m, q, i) \in Seq(Symbol)
      BY <1>1, <2>1, NearRestType
    <2> DEFINE c == <<1, 1, i - 1>>
    <2>3. c \in Seq({0, 1}) /\ Len(c) = 3
      OBVIOUS
    <2>4. NearHead(m, i) = BitSyms(c)
      BY DEF NearHead
    <2> HIDE DEF c
    <2>5. BitSyms(c) \in Seq(Symbol) /\ Len(BitSyms(c)) = 3
      BY <2>3, BitSymsType
    <2>6. /\ Sits(BitSyms(c), m.at) /\ m.at + Len(BitSyms(c)) \in Nat \ {0}
          /\ Before(NearRest(m, q, i), q, m.at + Len(BitSyms(c)))
      BY <1>1, <2>1, <2>2, <2>4, <2>5, HeadAndRest
    <2> QED BY <2>1, <2>5, <2>6 DEF c
<1>5. \A i \in 1 .. 4 : ~ IsRep(m, q, i)
    BY DEF IsRep
<1>6. CASE IsLiterals(m, q)
    BY <1>2, <1>6
<1>7. CASE IsNew(m, q)
    BY <1>3, <1>7
<1>8. CASE \E i \in {1, 2} : IsNear(m, q, i)
    BY <1>4, <1>8
<1> QED BY <1>1, <1>5, <1>6, <1>7, <1>8 DEF Legal

\* From a mark after a match the decoder reads the head of the next unit.
LEMMA DecAfterMatchStep ==
    ASSUME TypeInv, EncoderInv, CallInv, phase = "decode", NEW u \in 1 .. Len(marks),
           Mirrors(u, phase, d_state, d_reps, rd, out), DecAfterMatch
    PROVE  \E w \in 1 .. Len(marks) : Mirrors(w, phase', d_state', d_reps', rd', out')
<1> DEFINE m == marks[u]
           q == marks[u + 1]
<1>1. rd = m.at /\ m.prev = "Match"
    BY DEF Mirrors, AtMark, InUnit, InMarker, DecAfterMatch, In, St, Rep, NearRep, AfterMatchNearRep,
           NewOffset
<1>2. /\ out = Produced(m.len) /\ d_reps = m.reps /\ rd \in Nat \ {0} /\ stream \in Seq(Symbol)
      /\ ~ cfg.eof => u < Len(marks)
      /\ u <= Len(marks) /\ Len(marks) \in Nat
    BY MarkFacts DEF Mirrors, TypeInv
<1>3. out' = out /\ d_reps' = d_reps /\ phase' = "decode"
    BY DEF DecAfterMatch
<1>4. ASSUME NEW st \in State, NEW p \in Nat \ {0}, d_state' = st, rd' = p,
             InUnit(u, st, p) \/ InMarker(u, st, p)
      PROVE  Mirrors(u, phase', d_state', d_reps', rd', out')
    BY <1>2, <1>3, <1>4 DEF Mirrors
<1>5. CASE u < Len(marks)
    <2>1. CASE /\ IsLiterals(m, q) /\ Sits(BitSyms(<<0>>), m.at) /\ m.at + 1 \in Nat \ {0}
               /\ Before(LiteralsRest(q), q, m.at + 1)
      <3>1. At(rd) = 0
        BY <1>1, <1>2, <2>1, OneBitRead
      <3>2. d_state' = St("Literals") /\ rd' = rd + 1
        BY <3>1 DEF DecAfterMatch
      <3>3. InUnit(u, St("Literals"), rd + 1)
        BY <1>1, <1>5, <2>1 DEF InUnit
      <3> QED BY <1>1, <1>4, <2>1, <3>2, <3>3, StatesTyped
    <2>2. CASE /\ IsNew(m, q) /\ Sits(NewHead(m), m.at)
               /\ m.at + Len(NewHead(m)) \in Nat \ {0}
               /\ Before(NewRest(q), q, m.at + Len(NewHead(m)))
      <3>1. d_state' = NewOffset /\ rd' = rd + Len(NewHead(m))
        <4>1. CASE cfg.am
          <5> DEFINE c == <<1, 0>>
          <5>1. c \in Seq({0, 1}) /\ Len(c) = 2 /\ c[1] = 1 /\ c[2] = 0
            OBVIOUS
          <5>2. NewHead(m) = BitSyms(c)
            BY <1>1, <4>1 DEF NewHead
          <5> HIDE DEF c
          <5>3. Len(NewHead(m)) = 2
            BY <5>1, <5>2, BitSymsType
          <5>4. \A j \in 1 .. 2 : At(rd + j - 1) = c[j]
            BY <1>1, <1>2, <2>2, <5>1, <5>2, BitsRead
          <5>5. At(rd) = 1 /\ At(rd + 1) = 0
            <6>1. rd + 1 - 1 = rd /\ rd + 2 - 1 = rd + 1 /\ 1 \in 1 .. 2 /\ 2 \in 1 .. 2
              BY <1>2
            <6> QED BY <5>1, <5>4, <6>1
          <5>6. DecAm
            BY <4>1, ModeRead
          <5> QED BY <5>3, <5>5, <5>6 DEF DecAfterMatch
        <4>2. CASE ~ cfg.am
          <5>1. NewHead(m) = BitSyms(<<1>>)
            BY <1>1, <4>2 DEF NewHead
          <5>2. At(rd) = 1 /\ Len(NewHead(m)) = 1
            BY <1>1, <1>2, <2>2, <5>1, OneBitRead
          <5>3. ~ DecAm
            BY <4>2, ModeRead
          <5> QED BY <5>2, <5>3 DEF DecAfterMatch
        <4> QED BY <4>1, <4>2
      <3>2. InUnit(u, NewOffset, rd + Len(NewHead(m)))
        BY <1>1, <1>5, <2>2 DEF InUnit
      <3> QED BY <1>1, <1>4, <2>2, <3>1, <3>2, StatesTyped
    <2>3. CASE \E i \in {1, 2} :
                    /\ cfg.am /\ IsNear(m, q, i) /\ Sits(BitSyms(<<1, 1, i - 1>>), m.at)
                    /\ m.at + 3 \in Nat \ {0}
                    /\ Before(NearRest(m, q, i), q, m.at + 3)
      <3>1. PICK i \in {1, 2} :
                    /\ cfg.am /\ IsNear(m, q, i) /\ Sits(BitSyms(<<1, 1, i - 1>>), m.at)
                    /\ m.at + 3 \in Nat \ {0}
                    /\ Before(NearRest(m, q, i), q, m.at + 3)
        BY <2>3
      <3> DEFINE c == <<1, 1, i - 1>>
      <3>2. c \in Seq({0, 1}) /\ Len(c) = 3 /\ c[1] = 1 /\ c[2] = 1 /\ c[3] = i - 1
        OBVIOUS
      <3>3. Sits(BitSyms(c), rd)
        BY <1>1, <3>1
      <3> HIDE DEF c
      <3>4. \A j \in 1 .. 3 : At(rd + j - 1) = c[j]
        BY <1>2, <3>2, <3>3, BitsRead
      <3>5. At(rd) = 1 /\ At(rd + 1) = 1 /\ At(rd + 2) = i - 1
        <4>1. /\ rd + 1 - 1 = rd /\ rd + 2 - 1 = rd + 1 /\ rd + 3 - 1 = rd + 2
              /\ 1 \in 1 .. 3 /\ 2 \in 1 .. 3 /\ 3 \in 1 .. 3
          BY <1>2
        <4> QED BY <3>2, <3>4, <4>1
      <3>6. DecAm
        BY <3>1, ModeRead
      <3>7. (i - 1) + 1 = i
        OBVIOUS
      <3>8. d_state' = AfterMatchNearRep(i) /\ rd' = rd + 3
        BY <3>5, <3>6, <3>7 DEF DecAfterMatch
      <3>9. InUnit(u, AfterMatchNearRep(i), rd + 3)
        BY <1>1, <1>5, <3>1 DEF InUnit
      <3> QED BY <1>1, <1>4, <3>1, <3>8, <3>9, StatesTyped
    <2> QED BY <1>1, <1>5, <2>1, <2>2, <2>3, AfterMatchUnit
<1>6. CASE ~ (u < Len(marks))
    <2>1. u = Len(marks) /\ cfg.eof /\ m = LastMark
      BY <1>2, <1>6, MarkFacts DEF LastMark
    <2>2. prev # "Start"
      BY <1>1, <2>1 DEF EncoderInv
    <2>3. At(rd) = 1 /\ Sits(Gamma(EOF_MSB), rd + 1)
      BY <1>1, <2>1, <2>2, MarkerSits
    <2>4. ~ DecAm
      <3>1. ~ cfg.am
        BY <2>1, ConfigsAssumption DEF TypeInv
      <3> QED BY <3>1, ModeRead
    <2>5. d_state' = NewOffset /\ rd' = rd + 1 /\ rd + 1 \in Nat \ {0}
      BY <1>2, <2>3, <2>4 DEF DecAfterMatch
    <2>6. InMarker(u, NewOffset, rd + 1)
      BY <2>1, <2>3 DEF InMarker
    <2> QED BY <1>4, <2>5, <2>6, StatesTyped
<1>7. \E w \in 1 .. Len(marks) : Mirrors(w, phase', d_state', d_reps', rd', out')
    BY <1>4, <1>5, <1>6
<1> QED BY <1>7

\* The history does not change under the decoder.
LEMMA HistoryKept ==
    ASSUME UNCHANGED encoder
    PROVE  /\ EncoderInv => EncoderInv'
           /\ \A s, p : Sits(s, p)' <=> Sits(s, p)
           /\ \A u, ph, st, queue, p, o :
                Mirrors(u, ph, st, queue, p, o)' <=> Mirrors(u, ph, st, queue, p, o)
<1>1. /\ cfg' = cfg /\ backward' = backward /\ input' = input /\ prev' = prev /\ reps' = reps
      /\ stream' = stream /\ marks' = marks
    BY DEF encoder
<1>2. \A s, p : Sits(s, p)' <=> Sits(s, p)
    BY <1>1 DEF Sits
<1>3. \A m, q : Placed(m, q)' <=> Placed(m, q)
    BY <1>1, <1>2 DEF Placed
<1>4. /\ \A i : RepHead(i)' = RepHead(i)
      /\ \A m : NewHead(m)' = NewHead(m)
    BY <1>1 DEF RepHead, NewHead
<1>5. \A m, q : IsMatch(m, q)' <=> IsMatch(m, q)
    BY <1>1 DEF IsMatch
<1>6. \A m, q : IsLiterals(m, q)' <=> IsLiterals(m, q)
    BY DEF IsLiterals
<1>7. \A m, q, i : IsRep(m, q, i)' <=> IsRep(m, q, i)
    BY <1>1, <1>4, <1>5 DEF IsRep
<1>8. \A m, q : IsNew(m, q)' <=> IsNew(m, q)
    BY <1>1, <1>4, <1>5 DEF IsNew
<1>9. \A m, q, i : IsNear(m, q, i)' <=> IsNear(m, q, i)
    BY <1>1, <1>5 DEF IsNear
<1>10. \A m, q : Legal(m, q)' <=> Legal(m, q)
    BY <1>6, <1>7, <1>8, <1>9 DEF Legal
<1>11. EncoderInv => EncoderInv'
    BY <1>1, <1>3, <1>10 DEF EncoderInv, LastMark
<1>12. \A l : Produced(l)' = Produced(l)
    BY <1>1 DEF Produced
<1>13. \A rest, q, p : Before(rest, q, p)' <=> Before(rest, q, p)
    BY <1>2 DEF Before
<1>14. \A u, st, p : AtMark(u, st, p)' <=> AtMark(u, st, p)
    BY <1>1 DEF AtMark
<1>15. \A u, st, p : InMarker(u, st, p)' <=> InMarker(u, st, p)
    BY <1>1, <1>2 DEF InMarker
<1>16. \A u, st, p : InUnit(u, st, p)' <=> InUnit(u, st, p)
    BY <1>1, <1>6, <1>7, <1>8, <1>9, <1>13 DEF InUnit
<1>17. \A u, ph, st, queue, p, o :
            Mirrors(u, ph, st, queue, p, o)' <=> Mirrors(u, ph, st, queue, p, o)
    BY <1>1, <1>12, <1>14, <1>15, <1>16 DEF Mirrors
<1> QED BY <1>2, <1>11, <1>17

\* Every step of the decoder keeps the invariant.
LEMMA DecoderStep ==
    ASSUME IInv, Decode
    PROVE  IInv'
<1>1. phase = "decode" /\ UNCHANGED <<encoder, limit>>
    BY DEF Decode, DecLiterals, DecAfterLit, DecAfterMatch, DecRep, DecNearRep, DecNewOffset,
           DecEofMarker, Match, In, Unchanged
<1>2. phase' \in {"decode", "done"}
    BY <1>1 DEF Decode, DecLiterals, DecAfterLit, DecAfterMatch, DecRep, DecNearRep, DecNewOffset,
           DecEofMarker, Match
<1>3. PICK u \in 1 .. Len(marks) : Mirrors(u, phase, d_state, d_reps, rd, out)
    BY <1>1 DEF IInv, DecoderInv
<1>4. \E w \in 1 .. Len(marks) : Mirrors(w, phase', d_state', d_reps', rd', out')
    BY <1>1, <1>3, DecLiteralsStep, DecAfterLitStep, DecAfterMatchStep, DecRepStep, DecNearRepStep,
       DecNewOffsetStep, DecEofMarkerStep DEF IInv, Decode
<1>5. TypeInv'
    BY <1>1, <1>2 DEF IInv, TypeInv, encoder, Letters, MaxLen, ModeOf, Mark
<1>6. EncoderInv'
    BY <1>1, HistoryKept DEF IInv
<1>7. CallInv'
    BY <1>1, <1>2 DEF IInv, CallInv, encoder, LastMark, GapLimit, MaxLen, Sits, EofMarker
<1>8. DecoderInv'
    <2>1. PICK w \in 1 .. Len(marks) : Mirrors(w, phase', d_state', d_reps', rd', out')
      BY <1>4
    <2>2. Mirrors(w, phase, d_state, d_reps, rd, out)'
      BY <1>1, <2>1, HistoryKept
    <2>3. marks' = marks
      BY <1>1 DEF encoder
    <2> QED BY <2>2, <2>3 DEF DecoderInv
<1>9. CostExact'
    BY <1>2 DEF CostExact
<1> QED BY <1>5, <1>6, <1>7, <1>8, <1>9 DEF IInv

-----------------------------------------------------------------------------
(* The size of what is written. *)

IsSum(f, s, n) == f = [j \in 0 .. n |-> IF j = 0 THEN 0 ELSE f[j - 1] + SymBits(s[j])]

\* The table of partial sums exists.
LEMMA SumExists ==
    ASSUME NEW s, NEW n \in Nat
    PROVE  \E f : IsSum(f, s, n)
<1> DEFINE Bad == {m \in Nat : ~ \E f : IsSum(f, s, m)}
<1>1. ASSUME Bad # {} PROVE FALSE
    <2>1. PICK m \in Bad : \A y \in Bad : m <= y
      BY <1>1, LeastNatural
    <2>2. CASE m = 0
      <3>1. IsSum([j \in 0 .. 0 |-> 0], s, 0)
        BY DEF IsSum
      <3> QED BY <2>1, <2>2, <3>1
    <2>3. CASE m # 0
      <3>1. m - 1 \in Nat /\ m - 1 \notin Bad
        BY <2>1, <2>3
      <3>2. PICK g : IsSum(g, s, m - 1)
        BY <3>1
      <3>3. \A j \in 0 .. (m - 1) : g[j] = IF j = 0 THEN 0 ELSE g[j - 1] + SymBits(s[j])
        BY <3>2 DEF IsSum
      <3> DEFINE f == [j \in 0 .. m |-> IF j = m THEN g[m - 1] + SymBits(s[m]) ELSE g[j]]
      <3>4. ASSUME NEW j \in 0 .. m PROVE f[j] = IF j = 0 THEN 0 ELSE f[j - 1] + SymBits(s[j])
        <4>1. CASE j = m
          <5>1. m - 1 \in 0 .. m /\ m - 1 # m
            BY <3>1
          <5> QED BY <4>1, <5>1, <2>3
        <4>2. CASE j # m
          <5>1. j \in 0 .. (m - 1) /\ (j # 0 => j - 1 \in 0 .. m /\ j - 1 # m)
            BY <4>2, <3>1
          <5>2. f[j] = g[j] /\ (j # 0 => f[j - 1] = g[j - 1])
            BY <4>2, <5>1
          <5> QED BY <5>1, <5>2, <3>3
        <4> QED BY <4>1, <4>2
      <3> HIDE DEF f
      <3>5. f = [j \in 0 .. m |-> f[j]]
        BY DEF f
      <3>6. IsSum(f, s, m)
        BY <3>4, <3>5 DEF IsSum
      <3> QED BY <3>6, <2>1
    <2> QED BY <2>2, <2>3
<1> QED BY <1>1

\* A symbol has a size.
LEMMA SymBitsType ==
    ASSUME NEW sym \in Symbol
    PROVE  SymBits(sym) \in Nat
BY LsbBitsAssumption DEF SymBits, Symbol

\* BitsOf(s) is the last of the partial sums of s.
LEMMA BitsOfIs ==
    ASSUME NEW s \in Seq(Symbol)
    PROVE  \E f : /\ BitsOf(s) = f[Len(s)] /\ f[0] = 0
                  /\ \A j \in 0 .. Len(s) : f[j] \in Nat
                  /\ \A j \in 1 .. Len(s) : f[j] = f[j - 1] + SymBits(s[j])
<1> DEFINE n == Len(s)
           f == CHOOSE g : IsSum(g, s, n)
<1>1. n \in Nat /\ \A j \in 1 .. n : SymBits(s[j]) \in Nat
    BY ElementOfSeq, LenProperties, SymBitsType
<1>2. IsSum(f, s, n)
    BY <1>1, SumExists
<1>3. BitsOf(s) = f[n]
    BY DEF BitsOf, IsSum
<1> HIDE DEF f, n
<1>4. \A j \in 0 .. n : f[j] = IF j = 0 THEN 0 ELSE f[j - 1] + SymBits(s[j])
    BY <1>2 DEF IsSum
<1> DEFINE Bad == {j \in Nat : j \in 0 .. n /\ f[j] \notin Nat}
<1>5. ASSUME Bad # {} PROVE FALSE
    <2>1. PICK j \in Bad : \A y \in Bad : j <= y
      BY <1>5, LeastNatural
    <2>2. CASE j = 0
      BY <1>1, <1>4, <2>1, <2>2
    <2>3. CASE j # 0
      <3>0. n \in Nat /\ j \in Nat /\ j \in 0 .. n
        BY <1>1, <2>1
      <3>1. j - 1 \in 0 .. n /\ j - 1 \in Nat /\ j \in 1 .. n /\ ~ (j <= j - 1)
        BY <2>3, <3>0
      <3>2. f[j - 1] \in Nat
        BY <2>1, <3>1
      <3>3. f[j] = f[j - 1] + SymBits(s[j])
        BY <1>4, <2>3, <3>1
      <3> QED BY <1>1, <2>1, <3>1, <3>2, <3>3
    <2> QED BY <2>2, <2>3
<1>6. \A j \in 0 .. n : f[j] \in Nat
    BY <1>5
<1>7. f[0] = 0 /\ \A j \in 1 .. n : f[j] = f[j - 1] + SymBits(s[j])
    BY <1>1, <1>4
<1> QED BY <1>3, <1>6, <1>7 DEF n

\* The size of a concatenation is the sum of the sizes.
LEMMA BitsOfJoined ==
    ASSUME NEW s \in Seq(Symbol), NEW t \in Seq(Symbol)
    PROVE  BitsOf(s \o t) = BitsOf(s) + BitsOf(t) /\ BitsOf(s) \in Nat /\ BitsOf(t) \in Nat
<1> DEFINE c == s \o t
           l == Len(s)
           n == Len(t)
<1>1. /\ c \in Seq(Symbol) /\ Len(c) = l + n /\ l \in Nat /\ n \in Nat
      /\ \A j \in 1 .. l : c[j] = s[j]
      /\ \A j \in 1 .. n : c[l + j] = t[j]
    BY Joined
<1> HIDE DEF c, l, n
<1>2. PICK f : /\ BitsOf(c) = f[l + n] /\ f[0] = 0
               /\ \A j \in 1 .. (l + n) : f[j] = f[j - 1] + SymBits(c[j])
    <2>1. \E f : /\ BitsOf(c) = f[Len(c)] /\ f[0] = 0
                 /\ \A j \in 0 .. Len(c) : f[j] \in Nat
                 /\ \A j \in 1 .. Len(c) : f[j] = f[j - 1] + SymBits(c[j])
      BY <1>1, BitsOfIs
    <2> QED BY <1>1, <2>1
<1>3. PICK g : /\ BitsOf(s) = g[l] /\ g[0] = 0 /\ \A j \in 0 .. l : g[j] \in Nat
               /\ \A j \in 1 .. l : g[j] = g[j - 1] + SymBits(s[j])
    BY BitsOfIs DEF l
<1>4. PICK h : /\ BitsOf(t) = h[n] /\ h[0] = 0 /\ \A j \in 0 .. n : h[j] \in Nat
               /\ \A j \in 1 .. n : h[j] = h[j - 1] + SymBits(t[j])
    BY BitsOfIs DEF n
<1> DEFINE Bad == {j \in Nat : j \in 0 .. l /\ f[j] # g[j]}
<1>5. ASSUME Bad # {} PROVE FALSE
    <2>1. PICK j \in Bad : \A y \in Bad : j <= y
      BY <1>5, LeastNatural
    <2>2. j # 0
      BY <1>2, <1>3, <2>1
    <2>3. j - 1 \in Nat /\ j - 1 \in 0 .. l /\ j \in 1 .. l /\ j \in 1 .. (l + n) /\ ~ (j <= j - 1)
      BY <1>1, <2>1, <2>2
    <2>4. f[j - 1] = g[j - 1]
      BY <2>1, <2>3
    <2> QED BY <1>1, <1>2, <1>3, <2>1, <2>3, <2>4
<1>6. f[l] = g[l]
    <2> l \in 0 .. l
      BY <1>1
    <2> QED BY <1>1, <1>5
<1> DEFINE Off == {j \in Nat : j \in 0 .. n /\ f[l + j] # g[l] + h[j]}
<1>7. ASSUME Off # {} PROVE FALSE
    <2>1. PICK j \in Off : \A y \in Off : j <= y
      BY <1>7, LeastNatural
    <2>2. j # 0
      <3>1. l + 0 = l /\ g[l] \in Nat /\ g[l] + 0 = g[l]
        BY <1>1, <1>3
      <3> QED BY <1>4, <1>6, <2>1, <3>1
    <2>3. /\ j - 1 \in Nat /\ j - 1 \in 0 .. n /\ j \in 1 .. n /\ ~ (j <= j - 1)
          /\ l + j \in 1 .. (l + n) /\ l + j - 1 = l + (j - 1) /\ j \in 0 .. n
      BY <1>1, <2>1, <2>2
    <2>4. f[l + (j - 1)] = g[l] + h[j - 1]
      BY <2>1, <2>3
    <2>5. f[l + j] = f[l + (j - 1)] + SymBits(t[j])
      BY <1>1, <1>2, <2>3
    <2>6. h[j] = h[j - 1] + SymBits(t[j]) /\ h[j] \in Nat /\ h[j - 1] \in Nat
      BY <1>4, <2>3
    <2>7. SymBits(t[j]) \in Nat /\ g[l] \in Nat
      <3>1. l \in 0 .. l
        BY <1>1
      <3> QED BY <1>3, <2>3, <3>1, ElementOfSeq, SymBitsType DEF n
    <2>8. f[l + j] = g[l] + h[j]
      <3> DEFINE x == h[j - 1]
                 y == SymBits(t[j])
                 z == g[l]
      <3>1. /\ x \in Nat /\ y \in Nat /\ z \in Nat /\ h[j] = x + y /\ f[l + j] = (z + x) + y
        BY <2>4, <2>5, <2>6, <2>7
      <3> HIDE DEF x, y, z
      <3>2. f[l + j] = z + h[j]
        BY <3>1
      <3> QED BY <3>2 DEF z
    <2> QED BY <2>1, <2>8
<1>8. f[l + n] = g[l] + h[n]
    <2> n \in 0 .. n /\ n \in Nat
      BY <1>1
    <2> QED BY <1>7
<1>9. g[l] \in Nat /\ h[n] \in Nat
    BY <1>1, <1>3, <1>4
<1> QED BY <1>2, <1>3, <1>4, <1>8, <1>9 DEF c

\* A size is a number.
LEMMA BitsOfType ==
    ASSUME NEW s \in Seq(Symbol)
    PROVE  BitsOf(s) \in Nat
BY BitsOfJoined

\* Symbols of one size.
LEMMA BitsOfUniform ==
    ASSUME NEW s \in Seq(Symbol), NEW c \in Nat, \A j \in 1 .. Len(s) : SymBits(s[j]) = c
    PROVE  BitsOf(s) = c * Len(s)
<1> DEFINE n == Len(s)
<1>1. n \in Nat
    BY LenProperties
<1>2. PICK f : /\ BitsOf(s) = f[n] /\ f[0] = 0 /\ \A j \in 0 .. n : f[j] \in Nat
               /\ \A j \in 1 .. n : f[j] = f[j - 1] + SymBits(s[j])
    BY BitsOfIs
<1> HIDE DEF n
<1> DEFINE Bad == {j \in Nat : j \in 0 .. n /\ f[j] # c * j}
<1>3. ASSUME Bad # {} PROVE FALSE
    <2>1. PICK j \in Bad : \A y \in Bad : j <= y
      BY <1>3, LeastNatural
    <2>2. j # 0
      BY <1>2, <2>1
    <2>3. j - 1 \in Nat /\ j - 1 \in 0 .. n /\ j \in 1 .. n /\ ~ (j <= j - 1)
      BY <1>1, <2>1, <2>2
    <2>4. f[j - 1] = c * (j - 1)
      BY <2>1, <2>3
    <2>5. f[j] = c * (j - 1) + c
      BY <1>2, <2>3, <2>4 DEF n
    <2>6. c * (j - 1) + c = c * j
      BY <2>1
    <2> QED BY <2>1, <2>5, <2>6
<1>4. f[n] = c * n
    <2> n \in 0 .. n /\ n \in Nat
      BY <1>1
    <2> QED BY <1>3
<1> QED BY <1>2, <1>4 DEF n

\* The codes are as long as the cost model says.
LEMMA CodeLengths ==
    /\ \A i \in 1 .. 4 :
        /\ AfterLitCode(Rep(i)) \in Seq({0, 1}) /\ Len(AfterLitCode(Rep(i))) = AfterLitBits(Rep(i))
        /\ RepIndexCode(i) \in Seq({0, 1}) /\ Len(RepIndexCode(i)) = RepIndexBits(i)
    /\ \A i \in {1, 2} : /\ AfterLitCode(NearRep(i)) \in Seq({0, 1})
                         /\ Len(AfterLitCode(NearRep(i))) = AfterLitBits(NearRep(i))
    /\ AfterLitCode(NewOffset) \in Seq({0, 1})
    /\ Len(AfterLitCode(NewOffset)) = AfterLitBits(NewOffset)
<1>1. \A i, j \in Nat : (Rep(i) = Rep(j) <=> i = j) /\ (NearRep(i) = NearRep(j) <=> i = j)
                        /\ Rep(i) # NearRep(j) /\ Rep(i) # NewOffset /\ NearRep(i) # NewOffset
    BY DEF Rep, NearRep, NewOffset
<1>2. /\ AfterLitBits(NewOffset) = 1 /\ AfterLitBits(Rep(1)) = 2 /\ AfterLitBits(Rep(2)) = 3
      /\ AfterLitBits(NearRep(1)) = 4 /\ AfterLitBits(Rep(4)) = 5 /\ AfterLitBits(Rep(3)) = 6
      /\ AfterLitBits(NearRep(2)) = 6
    BY <1>1 DEF AfterLitBits
<1>3. \A n \in 0 .. 6 : TreeCode(n, 6) \in Seq({0, 1}) /\ Len(TreeCode(n, 6)) = IF n = 6 THEN n ELSE n + 1
    BY TreeCodeShape
<1>4. \A n \in 0 .. 3 : TreeCode(n, 3) \in Seq({0, 1}) /\ Len(TreeCode(n, 3)) = IF n = 3 THEN n ELSE n + 1
    BY TreeCodeShape
<1>9. /\ TreeCode(0, 6) \in Seq({0, 1}) /\ Len(TreeCode(0, 6)) = 1
      /\ TreeCode(1, 6) \in Seq({0, 1}) /\ Len(TreeCode(1, 6)) = 2
      /\ TreeCode(2, 6) \in Seq({0, 1}) /\ Len(TreeCode(2, 6)) = 3
      /\ TreeCode(3, 6) \in Seq({0, 1}) /\ Len(TreeCode(3, 6)) = 4
      /\ TreeCode(4, 6) \in Seq({0, 1}) /\ Len(TreeCode(4, 6)) = 5
      /\ TreeCode(5, 6) \in Seq({0, 1}) /\ Len(TreeCode(5, 6)) = 6
      /\ TreeCode(6, 6) \in Seq({0, 1}) /\ Len(TreeCode(6, 6)) = 6
    BY <1>3
<1>10. /\ AfterLitCode(Rep(1)) = TreeCode(1, 6) /\ AfterLitCode(Rep(2)) = TreeCode(2, 6)
       /\ AfterLitCode(Rep(3)) = TreeCode(5, 6) /\ AfterLitCode(Rep(4)) = TreeCode(4, 6)
       /\ AfterLitCode(NearRep(1)) = TreeCode(3, 6) /\ AfterLitCode(NearRep(2)) = TreeCode(6, 6)
       /\ AfterLitCode(NewOffset) = TreeCode(0, 6)
    BY AfterLitTree
<1>5. ASSUME NEW i \in 1 .. 4
      PROVE  RepIndexCode(i) \in Seq({0, 1}) /\ Len(RepIndexCode(i)) = RepIndexBits(i)
    <2>1. i - 1 \in 0 .. 3 /\ RepIndexCode(i) = TreeCode(i - 1, 3)
      BY RepIndexTree
    <2>2. Len(RepIndexCode(i)) = IF i - 1 = 3 THEN i - 1 ELSE (i - 1) + 1
      BY <2>1, <1>4
    <2> QED BY <2>1, <2>2, <1>4 DEF RepIndexBits
<1>6. ASSUME NEW i \in 1 .. 4
      PROVE  AfterLitCode(Rep(i)) \in Seq({0, 1}) /\ Len(AfterLitCode(Rep(i))) = AfterLitBits(Rep(i))
    <2>1. i = 1 \/ i = 2 \/ i = 3 \/ i = 4
      OBVIOUS
    <2>2. CASE i = 1
      BY <2>2, <1>2, <1>9, <1>10
    <2>3. CASE i = 2
      BY <2>3, <1>2, <1>9, <1>10
    <2>4. CASE i = 3
      BY <2>4, <1>2, <1>9, <1>10
    <2>5. CASE i = 4
      BY <2>5, <1>2, <1>9, <1>10
    <2> QED BY <2>1, <2>2, <2>3, <2>4, <2>5
<1>7. ASSUME NEW i \in {1, 2}
      PROVE  /\ AfterLitCode(NearRep(i)) \in Seq({0, 1})
             /\ Len(AfterLitCode(NearRep(i))) = AfterLitBits(NearRep(i))
    <2>1. CASE i = 1
      BY <2>1, <1>2, <1>9, <1>10
    <2>2. CASE i = 2
      BY <2>2, <1>2, <1>9, <1>10
    <2> QED BY <2>1, <2>2
<1>8. /\ AfterLitCode(NewOffset) \in Seq({0, 1})
      /\ Len(AfterLitCode(NewOffset)) = AfterLitBits(NewOffset)
    BY <1>2, <1>9, <1>10
<1> QED BY <1>5, <1>6, <1>7, <1>8

\* The size of bits is their number.
LEMMA BitsOfBits ==
    ASSUME NEW b \in Seq({0, 1})
    PROVE  BitSyms(b) \in Seq(Symbol) /\ BitsOf(BitSyms(b)) = Len(b)
<1> DEFINE s == BitSyms(b)
           n == Len(b)
<1>1. s \in Seq(Symbol) /\ Len(s) = n /\ n \in Nat /\ \A j \in 1 .. n : s[j] = BitSym(b[j])
    BY BitSymsType, LenProperties
<1> HIDE DEF s, n
<1>2. \A j \in 1 .. Len(s) : SymBits(s[j]) = 1
    BY <1>1 DEF SymBits, BitSym
<1>3. BitsOf(s) = 1 * Len(s)
    BY <1>1, <1>2, BitsOfUniform
<1> QED BY <1>1, <1>3 DEF s, n

\* The size of a gamma code is what gamma_bits says.
LEMMA BitsOfGamma ==
    ASSUME NEW v \in Nat \ {0}
    PROVE  Gamma(v) \in Seq(Symbol) /\ BitsOf(Gamma(v)) = GammaBits(v) /\ GammaBits(v) \in Nat
<1> DEFINE k == FloorLog2(v)
<1>1. k \in Nat /\ GammaCode(v) \in [1 .. (2 * k + 1) -> {0, 1}]
    BY GammaShape
<1> HIDE DEF k
<1>2. 2 * k + 1 \in Nat
    BY <1>1
<1>3. GammaCode(v) \in Seq({0, 1}) /\ Len(GammaCode(v)) = 2 * k + 1
    BY <1>1, <1>2, IsASeq, LenProperties
<1>4. GammaBits(v) = 2 * k + 1
    BY <1>1 DEF GammaBits, k
<1> QED BY <1>2, <1>3, <1>4, BitsOfBits DEF Gamma

\* The size of a single symbol.
LEMMA BitsOfOne ==
    ASSUME NEW sym \in Symbol
    PROVE  <<sym>> \in Seq(Symbol) /\ BitsOf(<<sym>>) = SymBits(sym) /\ SymBits(sym) \in Nat
<1> DEFINE s == <<sym>>
           c == SymBits(sym)
<1>1. s \in Seq(Symbol) /\ Len(s) = 1 /\ \A j \in 1 .. Len(s) : s[j] = sym
    OBVIOUS
<1>2. c \in Nat
    BY SymBitsType
<1> HIDE DEF s, c
<1>3. BitsOf(s) = c * Len(s)
    BY <1>1, <1>2, BitsOfUniform DEF c
<1> QED BY <1>1, <1>2, <1>3 DEF s, c

\* The heads of the units.
LEMMA RepHeadCost ==
    ASSUME cfg \in Configs, NEW i \in 1 .. cfg.slots
    PROVE  /\ RepHead(i) \in Seq(Symbol)
           /\ BitsOf(RepHead(i)) = IF cfg.near THEN AfterLitBits(Rep(i))
                                   ELSE 1 + IF cfg.slots > 1 THEN RepIndexBits(i) ELSE 0
<1>1. cfg.slots \in 1 .. 4 /\ i \in 1 .. 4
    BY ConfigsAssumption
<1>2. CASE cfg.near
    <2>1. RepHead(i) = BitSyms(AfterLitCode(Rep(i)))
      BY <1>2 DEF RepHead
    <2> QED BY <1>1, <1>2, <2>1, CodeLengths, BitsOfBits
<1>3. CASE ~ cfg.near /\ cfg.slots > 1
    <2> DEFINE b == RepIndexCode(i)
               z == <<0>>
    <2>1. RepHead(i) = BitSyms(z \o b)
      BY <1>3 DEF RepHead
    <2>2. b \in Seq({0, 1}) /\ Len(b) = RepIndexBits(i)
      BY <1>1, CodeLengths
    <2>3. z \in Seq({0, 1}) /\ Len(z) = 1
      OBVIOUS
    <2> HIDE DEF b, z
    <2>4. z \o b \in Seq({0, 1}) /\ Len(z \o b) = Len(z) + Len(b)
      BY <2>2, <2>3, Joined
    <2>5. RepHead(i) \in Seq(Symbol) /\ BitsOf(RepHead(i)) = Len(z \o b)
      BY <2>1, <2>4, BitsOfBits
    <2> QED BY <1>3, <2>2, <2>3, <2>4, <2>5
<1>4. CASE ~ cfg.near /\ ~ (cfg.slots > 1)
    <2> DEFINE z == <<0>>
    <2>1. z \o <<>> = z /\ z \in Seq({0, 1}) /\ Len(z) = 1
      OBVIOUS
    <2>2. RepHead(i) = BitSyms(z \o <<>>)
      BY <1>4 DEF RepHead
    <2> HIDE DEF z
    <2>3. RepHead(i) \in Seq(Symbol) /\ BitsOf(RepHead(i)) = Len(z)
      BY <2>1, <2>2, BitsOfBits
    <2> QED BY <1>4, <2>1, <2>3
<1> QED BY <1>2, <1>3, <1>4

\* The head of a match at a new offset.
LEMMA NewHeadCost ==
    ASSUME NEW m, m.prev \in {"Literals", "Match"}
    PROVE  /\ NewHead(m) \in Seq(Symbol)
           /\ BitsOf(NewHead(m)) = IF m.prev = "Match" /\ cfg.am THEN 2
                                   ELSE IF m.prev = "Literals" /\ cfg.near THEN AfterLitBits(NewOffset)
                                   ELSE 1
<1> DEFINE b == IF m.prev = "Literals" THEN (IF cfg.near THEN AfterLitCode(NewOffset) ELSE <<1>>)
                ELSE IF cfg.am THEN <<1, 0>> ELSE <<1>>
<1>1. /\ <<1>> \in Seq({0, 1}) /\ Len(<<1>>) = 1
      /\ <<1, 0>> \in Seq({0, 1}) /\ Len(<<1, 0>>) = 2
    OBVIOUS
<1>2. /\ b \in Seq({0, 1})
      /\ Len(b) = IF m.prev = "Match" /\ cfg.am THEN 2
                  ELSE IF m.prev = "Literals" /\ cfg.near THEN AfterLitBits(NewOffset) ELSE 1
    BY <1>1, CodeLengths
<1>3. NewHead(m) = BitSyms(b)
    BY DEF NewHead
<1> QED BY <1>2, <1>3, BitsOfBits

\* The head of a match near an offset of the queue.
LEMMA NearHeadCost ==
    ASSUME NEW m, NEW i \in {1, 2}
    PROVE  /\ NearHead(m, i) \in Seq(Symbol)
           /\ BitsOf(NearHead(m, i)) = IF m.prev = "Literals" THEN AfterLitBits(NearRep(i)) ELSE 3
<1> DEFINE b == IF m.prev = "Literals" THEN AfterLitCode(NearRep(i)) ELSE <<1, 1, i - 1>>
<1>1. <<1, 1, i - 1>> \in Seq({0, 1}) /\ Len(<<1, 1, i - 1>>) = 3
    OBVIOUS
<1>2. b \in Seq({0, 1}) /\ Len(b) = IF m.prev = "Literals" THEN AfterLitBits(NearRep(i)) ELSE 3
    BY <1>1, CodeLengths
<1>3. NearHead(m, i) = BitSyms(b)
    BY DEF NearHead
<1> QED BY <1>2, <1>3, BitsOfBits

\* The rests of the units.
LEMMA NewOffsetCost ==
    ASSUME NEW off \in Nat \ {0}, NEW n \in Nat, n >= 2
    PROVE  /\ NewOffsetBody(off, n) \in Seq(Symbol)
           /\ BitsOf(NewOffsetBody(off, n)) = GammaBits(Msb(off)) + LsbBits + GammaBits(n - 1)
           /\ GammaBits(Msb(off)) \in Nat /\ GammaBits(n - 1) \in Nat
<1>1. LsbRange \in Nat \ {0}
    BY LsbBitsAssumption DEF LsbRange
<1>2. (off - 1) \div LsbRange \in Nat /\ Lsb(off) \in Nat
    BY <1>1 DEF Lsb
<1>3. Msb(off) \in Nat \ {0} /\ n - 1 \in Nat \ {0}
    BY <1>2 DEF Msb
<1> DEFINE a == Gamma(Msb(off))
           b == <<LsbSym(Lsb(off))>>
           c == Gamma(n - 1)
<1>4. /\ a \in Seq(Symbol) /\ BitsOf(a) = GammaBits(Msb(off)) /\ GammaBits(Msb(off)) \in Nat
      /\ c \in Seq(Symbol) /\ BitsOf(c) = GammaBits(n - 1) /\ GammaBits(n - 1) \in Nat
    BY <1>3, BitsOfGamma
<1>5. b \in Seq(Symbol) /\ BitsOf(b) = LsbBits
    <2>1. LsbSym(Lsb(off)) \in Symbol /\ SymBits(LsbSym(Lsb(off))) = LsbBits
      BY <1>2 DEF LsbSym, Symbol, SymBits
    <2> QED BY <2>1, BitsOfOne
<1>6. NewOffsetBody(off, n) = (a \o b) \o c
    BY DEF NewOffsetBody
<1> HIDE DEF a, b, c
<1>7. a \o b \in Seq(Symbol) /\ BitsOf(a \o b) = BitsOf(a) + BitsOf(b)
    BY <1>4, <1>5, Joined, BitsOfJoined
<1>8. (a \o b) \o c \in Seq(Symbol) /\ BitsOf((a \o b) \o c) = BitsOf(a \o b) + BitsOf(c)
    BY <1>4, <1>7, Joined, BitsOfJoined
<1> QED BY <1>4, <1>5, <1>6, <1>7, <1>8

\* The rest of a match near an offset of the queue.
NearBody(sign, delta, n) == <<BitSym(sign)>> \o Gamma(delta) \o Gamma(n - 1)

\* Its size.
LEMMA NearRestCost ==
    ASSUME NEW sign \in {0, 1}, NEW delta \in Nat \ {0}, NEW n \in Nat, n >= 2
    PROVE  /\ NearBody(sign, delta, n) \in Seq(Symbol)
           /\ BitsOf(NearBody(sign, delta, n)) = 1 + GammaBits(delta) + GammaBits(n - 1)
           /\ GammaBits(delta) \in Nat /\ GammaBits(n - 1) \in Nat
<1> DEFINE a == <<BitSym(sign)>>
           b == Gamma(delta)
           c == Gamma(n - 1)
<1>1. n - 1 \in Nat \ {0}
    OBVIOUS
<1>2. /\ b \in Seq(Symbol) /\ BitsOf(b) = GammaBits(delta) /\ GammaBits(delta) \in Nat
      /\ c \in Seq(Symbol) /\ BitsOf(c) = GammaBits(n - 1) /\ GammaBits(n - 1) \in Nat
    BY <1>1, BitsOfGamma
<1>3. a \in Seq(Symbol) /\ BitsOf(a) = 1
    <2>1. BitSym(sign) \in Symbol /\ SymBits(BitSym(sign)) = 1
      BY DEF BitSym, Symbol, SymBits
    <2> QED BY <2>1, BitsOfOne
<1> HIDE DEF a, b, c
<1>4. a \o b \in Seq(Symbol) /\ BitsOf(a \o b) = BitsOf(a) + BitsOf(b)
    BY <1>2, <1>3, Joined, BitsOfJoined
<1>5. (a \o b) \o c \in Seq(Symbol) /\ BitsOf((a \o b) \o c) = BitsOf(a \o b) + BitsOf(c)
    BY <1>2, <1>4, Joined, BitsOfJoined
<1>6. (a \o b) \o c \in Seq(Symbol) /\ BitsOf((a \o b) \o c) = 1 + GammaBits(delta) + GammaBits(n - 1)
    BY <1>2, <1>3, <1>4, <1>5
<1> QED BY <1>2, <1>6 DEF a, b, c, NearBody

-----------------------------------------------------------------------------
(* The encoder's steps. *)

Extends(t, s) ==
    Len(s) <= Len(t) /\ \A j \in 1 .. Len(s) : t[j] = s[j]

\* A concatenation begins with its first part.
LEMMA ConcatExtends ==
    ASSUME NEW S, NEW s \in Seq(S), NEW t \in Seq(S)
    PROVE  Extends(s \o t, s)
BY Joined DEF Extends

\* Positions of a part that ends before l.
LEMMA InRange ==
    ASSUME NEW a \in Nat, NEW k \in Nat, NEW l \in Nat, a + k <= l, NEW j \in 1 .. k
    PROVE  a + j \in 1 .. l
OBVIOUS

\* What is in the stream stays where it is.
LEMMA HistoryGrows ==
    ASSUME TypeInv, Extends(stream', stream), Extends(input', input), cfg' = cfg,
           Len(stream') \in Nat, Len(input') \in Nat,
           NEW m \in Mark, NEW q \in Mark, Placed(m, q), Legal(m, q)
    PROVE  Placed(m, q)' /\ Legal(m, q)'
<1>1. /\ Len(stream) \in Nat /\ Len(input) \in Nat
      /\ m.at \in Nat \ {0} /\ m.len \in Nat /\ q.len \in Nat
      /\ Len(q.symbols) \in Nat /\ Len(q.covered) \in Nat
    BY MarkType, LenProperties DEF TypeInv
<1>2. \A j \in 1 .. Len(input) : input'[j] = input[j]
    BY DEF Extends
<1> DEFINE a == m.at
           l == m.len
           k == Len(q.symbols)
           n == Len(q.covered)
<1>11. /\ a \in Nat \ {0} /\ l \in Nat /\ k \in Nat /\ n \in Nat
       /\ a + k - 1 <= Len(stream) /\ l + n <= Len(input)
    <2>1. Sits(q.symbols, a) /\ q.len = l + n /\ q.len <= Len(input)
      BY DEF Placed
    <2>2. a + k - 1 <= Len(stream)
      BY <2>1 DEF Sits
    <2>3. l + n <= Len(input)
      BY <2>1
    <2> QED BY <1>1, <2>2, <2>3
<1> HIDE DEF a, l, k, n
<1>12. ASSUME NEW j \in 1 .. k PROVE a + j - 1 \in 1 .. Len(stream)
    <2>1. a - 1 \in Nat /\ (a - 1) + k <= Len(stream) /\ (a - 1) + j = a + j - 1
      BY <1>11
    <2> QED BY <1>1, <1>11, <2>1, InRange
<1>13. ASSUME NEW j \in 1 .. n
       PROVE  l + j \in 1 .. Len(input) /\ \A off \in 1 .. l : l + j - off \in 1 .. Len(input)
    <2>1. l + j \in 1 .. Len(input)
      BY <1>1, <1>11, InRange
    <2>2. \A off \in 1 .. l : l + j - off \in 1 .. (l + j)
      BY <1>11
    <2> QED BY <1>1, <1>11, <2>1, <2>2
<1>3. Placed(m, q)'
    <2>1. Sits(q.symbols, m.at)'
      <3>1. ASSUME NEW j \in 1 .. Len(q.symbols) PROVE stream'[m.at + j - 1] = q.symbols[j]
        <4>1. m.at + j - 1 \in 1 .. Len(stream)
          BY <1>12 DEF a, k
        <4> QED BY <4>1 DEF Placed, Sits, Extends
      <3>2. m.at + Len(q.symbols) - 1 <= Len(stream')
        BY <1>1 DEF Placed, Sits, Extends
      <3> QED BY <3>1, <3>2 DEF Sits
    <2>2. ASSUME NEW j \in 1 .. Len(q.covered) PROVE input'[m.len + j] = q.covered[j]
      <3>1. m.len + j \in 1 .. Len(input)
        BY <1>13 DEF l, n
      <3> QED BY <1>2, <3>1 DEF Placed
    <2>3. q.len <= Len(input')
      BY <1>1 DEF Placed, Extends
    <2> QED BY <2>1, <2>2, <2>3 DEF Placed
<1>4. ASSUME IsMatch(m, q) PROVE IsMatch(m, q)'
    <2>1. q.unit.off \in 1 .. m.len /\ Len(q.covered) = q.unit.n
      BY <1>4 DEF IsMatch
    <2>2. ASSUME NEW j \in 1 .. q.unit.n
          PROVE  input'[m.len + j] = input'[m.len + j - q.unit.off]
      <3>1. m.len + j \in 1 .. Len(input) /\ m.len + j - q.unit.off \in 1 .. Len(input)
        BY <1>13, <2>1 DEF l, n
      <3> QED BY <1>2, <1>4, <3>1 DEF IsMatch
    <2> QED BY <1>4, <2>2 DEF IsMatch
<1>5. /\ \A i : RepHead(i)' = RepHead(i)
      /\ \A i : NewHead(i)' = NewHead(i)
    BY DEF RepHead, NewHead
<1>6. IsLiterals(m, q) => IsLiterals(m, q)'
    BY DEF IsLiterals
<1>7. \A i : IsRep(m, q, i) => IsRep(m, q, i)'
    BY <1>4, <1>5 DEF IsRep
<1>8. IsNew(m, q) => IsNew(m, q)'
    BY <1>4, <1>5 DEF IsNew
<1>9. \A i : IsNear(m, q, i) => IsNear(m, q, i)'
    BY <1>4 DEF IsNear
<1> QED BY <1>3, <1>6, <1>7, <1>8, <1>9 DEF Legal

\* The last mark is the encoder as it is.
LEMMA LastFacts ==
    ASSUME TypeInv, EncoderInv
    PROVE  /\ Len(marks) \in 1 .. Len(marks) /\ LastMark \in Mark
           /\ LastMark.len = Len(input) /\ LastMark.prev = prev /\ LastMark.reps = reps
           /\ Len(input) \in Nat /\ Len(stream) \in Nat /\ Len(marks) \in Nat
<1>1. Len(marks) \in Nat /\ Len(input) \in Nat /\ Len(stream) \in Nat
    BY LenProperties DEF TypeInv
<1>2. Len(marks) \in 1 .. Len(marks)
    BY <1>1 DEF EncoderInv
<1> QED BY <1>1, <1>2, MarkFacts DEF LastMark, EncoderInv

\* A whole unit: the new mark is linked to the last one.
LEMMA UnitStep ==
    ASSUME IInv,
           NEW kind \in Prevs, NEW unit \in UnitSet, NEW symbols \in Seq(Symbol),
           NEW covered \in Seq(Letters), NEW queue \in Queue, NEW bits, bits = BitsOf(symbols),
           Unit(kind, unit, symbols, covered, queue, bits),
           NEW m \in Mark, m = LastMark,
           NEW q,
           q = [at |-> m.at + Len(symbols), len |-> m.len + Len(covered),
                reps |-> queue, prev |-> kind, unit |-> unit,
                symbols |-> symbols, covered |-> covered],
           Legal(m, q)'
    PROVE  IInv'
<1> DEFINE k == Len(marks)
<1>1. /\ k \in 1 .. k /\ k \in Nat /\ m = marks[k]
      /\ m.len = Len(input) /\ Len(input) \in Nat /\ Len(stream) \in Nat
      /\ m.at = Len(stream) + 1 /\ m.at \in Nat \ {0} /\ phase = "encode"
    BY LastFacts, MarkType DEF IInv, CallInv, LastMark, Unit
<1>2. /\ stream' = stream \o symbols /\ input' = input \o covered
      /\ reps' = queue /\ prev' = kind /\ predicted' = predicted + bits
      /\ marks' = Append(marks, [at |-> Len(stream') + 1, len |-> Len(input'),
                               reps |-> queue, prev |-> kind, unit |-> unit,
                               symbols |-> symbols, covered |-> covered])
      /\ cfg' = cfg /\ backward' = backward /\ mode' = mode /\ phase' = "encode"
      /\ limit' = limit /\ d_state' = d_state /\ d_reps' = d_reps /\ rd' = rd /\ out' = out
      /\ Len(input) + Len(covered) <= MaxLen
    BY DEF Unit, decoder
<1>3. /\ stream \in Seq(Symbol) /\ input \in Seq(Letters) /\ marks \in Seq(Mark)
    BY DEF IInv, TypeInv
<1>4. /\ stream' \in Seq(Symbol) /\ Len(stream') = Len(stream) + Len(symbols)
      /\ Len(symbols) \in Nat
      /\ \A j \in 1 .. Len(symbols) : stream'[Len(stream) + j] = symbols[j]
      /\ Extends(stream', stream)
    BY <1>2, <1>3, Joined, ConcatExtends
<1>5. /\ input' \in Seq(Letters) /\ Len(input') = Len(input) + Len(covered)
      /\ Len(covered) \in Nat
      /\ \A j \in 1 .. Len(covered) : input'[Len(input) + j] = covered[j]
      /\ Extends(input', input)
    BY <1>2, <1>3, Joined, ConcatExtends
<1>6. marks' = Append(marks, q)
    <2>1. Len(stream') + 1 = m.at + Len(symbols) /\ Len(input') = m.len + Len(covered)
      BY <1>1, <1>4, <1>5
    <2> QED BY <1>2, <2>1
<1>7. q \in Mark
    <2>1. m.at + Len(symbols) \in Nat \ {0} /\ m.len + Len(covered) \in Nat
      BY <1>1, <1>4, <1>5
    <2> QED BY <2>1 DEF Mark
<1>8. /\ marks' \in Seq(Mark) /\ Len(marks') = k + 1
      /\ \A u \in 1 .. k : marks'[u] = marks[u]
      /\ marks'[k + 1] = q
    <2>1. marks \in Seq(Mark) /\ q \in Mark
      BY <1>3, <1>7
    <2> HIDE DEF k
    <2>2. /\ Append(marks, q) \in Seq(Mark) /\ Len(Append(marks, q)) = Len(marks) + 1
          /\ \A u \in 1 .. Len(marks) : Append(marks, q)[u] = marks[u]
          /\ Append(marks, q)[Len(marks) + 1] = q
      BY <2>1, AppendProperties
    <2> QED BY <1>6, <2>2 DEF k
<1>9. /\ q.at = m.at + Len(symbols) /\ q.len = m.len + Len(covered) /\ q.reps = queue
      /\ q.prev = kind /\ q.symbols = symbols /\ q.covered = covered
    OBVIOUS
<1>10. Placed(m, q)'
    <2>1. Sits(symbols, m.at)'
      <3>1. ASSUME NEW j \in 1 .. Len(symbols) PROVE stream'[m.at + j - 1] = symbols[j]
        <4>1. m.at + j - 1 = Len(stream) + j
          BY <1>1, <1>4
        <4> QED BY <1>4, <4>1
      <3>2. m.at + Len(symbols) - 1 <= Len(stream')
        BY <1>1, <1>4
      <3> QED BY <3>1, <3>2 DEF Sits
    <2>2. /\ q.len <= Len(input')
          /\ \A j \in 1 .. Len(covered) : input'[m.len + j] = covered[j]
      BY <1>1, <1>5, <1>9
    <2> QED BY <1>9, <2>1, <2>2 DEF Placed
<1>11. TypeInv'
    <2>1. Letters' = Letters /\ MaxLen' = MaxLen /\ ModeOf(cfg)' = ModeOf(cfg)
      BY <1>2 DEF Letters, MaxLen, ModeOf
    <2>2. Mark' = Mark
      BY <2>1 DEF Mark
    <2>3. predicted' \in Nat
      <3>1. predicted \in Nat
        BY DEF IInv, TypeInv
      <3>2. bits \in Nat
        <4>1. BitsOf(symbols) \in Nat
          BY BitsOfType
        <4> QED BY <4>1
      <3>3. predicted + bits \in Nat
        <4> HIDE DEF IInv
        <4> QED BY <3>1, <3>2
      <3>4. predicted' = predicted + bits
        BY <1>2
      <3> QED BY <3>3, <3>4
    <2>4. Len(input') <= MaxLen
      BY <1>2, <1>5
    <2> QED BY <1>2, <1>4, <1>5, <1>8, <2>1, <2>2, <2>3, <2>4 DEF IInv, TypeInv
<1>12. LastMark' = q
    BY <1>8 DEF LastMark
<1>13. EncoderInv'
    <2>1. ASSUME NEW u \in 1 .. k
          PROVE  Placed(marks[u], marks[u + 1])' /\ Legal(marks[u], marks[u + 1])'
      <3>1. CASE u = k
        <4>1. marks'[u] = m /\ marks'[u + 1] = q
          BY <1>1, <1>8, <3>1
        <4> QED BY <1>10, <4>1
      <3>2. CASE u # k
        <4>1. u \in 1 .. (k - 1) /\ u + 1 \in 1 .. k
          BY <1>1, <3>2
        <4>2. PICK a, b : a = marks[u] /\ b = marks[u + 1]
          OBVIOUS
        <4>3. /\ a \in Mark /\ b \in Mark /\ Placed(a, b) /\ Legal(a, b)
          BY <1>1, <1>3, <4>1, <4>2, ElementOfSeq DEF IInv, EncoderInv
        <4>4. Placed(a, b)' /\ Legal(a, b)'
          BY <1>1, <1>2, <1>4, <1>5, <4>3, HistoryGrows DEF IInv
        <4>5. marks'[u] = a /\ marks'[u + 1] = b
          BY <1>8, <4>1, <4>2
        <4> QED BY <4>4, <4>5
      <3> QED BY <3>1, <3>2
    <2>2. (Len(marks) - 1)' = k
      BY <1>1, <1>8
    <2>3. /\ Len(marks') >= 1 /\ marks'[1] = marks[1]
      BY <1>1, <1>8
    <2>4. /\ LastMark'.len = Len(input') /\ LastMark'.prev = prev' /\ LastMark'.reps = reps'
      BY <1>1, <1>2, <1>5, <1>9, <1>12
    <2> QED BY <2>1, <2>2, <2>3, <2>4 DEF IInv, EncoderInv
<1>14. CallInv'
    <2>1. q.at = Len(stream') + 1
      <3> DEFINE a == m.at
                 k2 == q.at
      <3>1. a = Len(stream) + 1 /\ k2 = a + Len(symbols) /\ Len(stream) \in Nat
        BY <1>1, <1>9
      <3> HIDE DEF a, k2
      <3>2. k2 = Len(stream') + 1
        BY <1>4, <3>1
      <3> QED BY <3>2 DEF k2
    <2> QED BY <1>1, <1>2, <1>12, <2>1 DEF IInv, CallInv
<1>15. DecoderInv'
    BY <1>2 DEF DecoderInv
<1>16. CostExact'
    <2>1. BitsOf(stream \o symbols) = BitsOf(stream) + BitsOf(symbols)
      BY <1>3, BitsOfJoined
    <2> QED BY <1>1, <1>2, <2>1 DEF IInv, CostExact
<1> QED BY <1>11, <1>13, <1>14, <1>15, <1>16 DEF IInv

\* A run of literals is a sequence of letters, and not empty.
LEMMA RunsType ==
    ASSUME TypeInv, NEW run \in Runs
    PROVE  run \in Seq(Letters) /\ Len(run) \in Nat \ {0}
<1> DEFINE room == IF MaxLen - Len(input) < cfg.run THEN MaxLen - Len(input) ELSE cfg.run
<1>1. PICK n \in 1 .. room : run \in [1 .. n -> Letters]
    BY DEF Runs
<1>2. n \in Nat \ {0}
    OBVIOUS
<1> HIDE DEF room
<1>3. run \in Seq(Letters) /\ Len(run) = n
    BY <1>1, <1>2, IsASeq, LenProperties
<1> QED BY <1>2, <1>3

\* Writing a run of literals keeps the invariant.
LEMMA LiteralsStep ==
    ASSUME IInv, NEW run \in Runs, Literals(run)
    PROVE  IInv'
<1>1. PICK m, queue, flag, head, tail, bits :
        /\ m = LastMark /\ queue = reps
        /\ flag = IF prev = "Match" THEN <<BitSym(0)>> ELSE <<>>
        /\ head = flag \o Gamma(Len(run))
        /\ tail = [j \in 1 .. Len(run) |-> ByteSym(run[j])]
        /\ bits = Len(flag) + GammaBits(Len(run)) + 8 * Len(run)
    OBVIOUS
<1>2. /\ TypeInv /\ m \in Mark /\ m.prev = prev /\ m.reps = reps /\ queue \in Queue
    BY <1>1, LastFacts DEF IInv, TypeInv
<1>3. run \in Seq(Letters) /\ Len(run) \in Nat \ {0}
    BY <1>2, RunsType
<1>4. /\ Gamma(Len(run)) \in Seq(Symbol) /\ BitsOf(Gamma(Len(run))) = GammaBits(Len(run))
      /\ GammaBits(Len(run)) \in Nat
    BY <1>3, BitsOfGamma
<1>5. flag \in Seq(Symbol) /\ BitsOf(flag) = Len(flag) /\ Len(flag) \in Nat
    <2>1. CASE prev = "Match"
      <3>1. BitSym(0) \in Symbol /\ SymBits(BitSym(0)) = 1
        BY DEF BitSym, Symbol, SymBits
      <3>2. <<BitSym(0)>> \in Seq(Symbol) /\ BitsOf(<<BitSym(0)>>) = 1
        BY <3>1, BitsOfOne
      <3>3. Len(<<BitSym(0)>>) = 1
        OBVIOUS
      <3> QED BY <1>1, <2>1, <3>2, <3>3
    <2>2. CASE prev # "Match"
      <3>1. <<>> \in Seq({0, 1}) /\ Len(<<>>) = 0 /\ <<>> \in Seq(Symbol)
        OBVIOUS
      <3>2. \A j \in 1 .. Len(<<>>) : SymBits(<<>>[j]) = 1
        BY <3>1
      <3>3. BitsOf(<<>>) = 1 * Len(<<>>)
        BY <3>1, <3>2, BitsOfUniform
      <3> QED BY <1>1, <2>2, <3>1, <3>3
    <2> QED BY <2>1, <2>2
<1>6. tail \in Seq(Symbol) /\ BitsOf(tail) = 8 * Len(run) /\ tail = Bytes(run)
    <2>1. tail = Bytes(run)
      BY <1>1 DEF Bytes
    <2>2. /\ tail \in Seq(Symbol) /\ Len(tail) = Len(run)
          /\ \A j \in 1 .. Len(tail) : tail[j].kind = "byte"
      BY <1>2, <1>3, <2>1, BytesType
    <2>3. \A j \in 1 .. Len(tail) : SymBits(tail[j]) = 8
      BY <2>2 DEF SymBits
    <2>4. BitsOf(tail) = 8 * Len(tail)
      BY <2>2, <2>3, BitsOfUniform
    <2> QED BY <2>1, <2>2, <2>4
<1>7. head \in Seq(Symbol) /\ BitsOf(head) = Len(flag) + GammaBits(Len(run)) /\ BitsOf(head) \in Nat
    BY <1>1, <1>4, <1>5, Joined, BitsOfJoined
<1>8. PICK symbols : symbols = head \o tail
    OBVIOUS
<1>9. symbols \in Seq(Symbol) /\ BitsOf(symbols) = bits
    <2>1. symbols \in Seq(Symbol) /\ BitsOf(symbols) = BitsOf(head) + BitsOf(tail)
      BY <1>6, <1>7, <1>8, Joined, BitsOfJoined
    <2> QED BY <1>1, <1>3, <1>4, <1>5, <1>6, <1>7, <2>1
<1>10. PICK unit, n : n = Len(run) /\ unit = UnitOf(St("Literals"), 0, n)
    OBVIOUS
<1>11. unit \in UnitSet
    BY <1>3, <1>10 DEF UnitOf, UnitSet, St, State, Name
<1>12. Unit("Literals", unit, symbols, run, queue, bits)
    BY <1>1, <1>8, <1>10 DEF Literals
<1>13. PICK q : q = [at |-> m.at + Len(symbols), len |-> m.len + Len(run),
                    reps |-> queue, prev |-> "Literals", unit |-> unit,
                    symbols |-> symbols, covered |-> run]
    OBVIOUS
<1>14. symbols = LiteralsHead(m) \o LiteralsRest(q)
    <2>1. flag = LiteralsHead(m)
      BY <1>1, <1>2 DEF LiteralsHead
    <2>2. LiteralsRest(q) = Gamma(Len(run)) \o tail
      BY <1>6, <1>13 DEF LiteralsRest
    <2> DEFINE g == Gamma(Len(run))
    <2>3. g \in Seq(Symbol)
      BY <1>4
    <2> HIDE DEF g
    <2>4. Three(flag, g, tail)
      BY <1>5, <1>6, <2>3, JoinedThree
    <2> QED BY <1>1, <1>8, <2>1, <2>2, <2>4 DEF g, Three
<1>15. IsLiterals(m, q)
    <2>1. prev # "Literals"
      BY DEF Literals
    <2>2. q.prev = "Literals" /\ q.reps = queue /\ q.covered = run /\ q.symbols = symbols
      BY <1>13
    <2>3. Len(run) >= 1
      BY <1>3
    <2> QED BY <1>1, <1>2, <1>14, <2>1, <2>2, <2>3 DEF IsLiterals
<1>16. IsLiterals(m, q)'
    BY <1>15 DEF IsLiterals
<1>17. Legal(m, q)'
    BY <1>16 DEF Legal
<1>18. "Literals" \in Prevs
    BY DEF Prevs
<1> QED BY <1>1, <1>2, <1>3, <1>9, <1>11, <1>12, <1>13, <1>17, <1>18, UnitStep

\* What a match covers, once it is appended to the input.
LEMMA MatchCovered ==
    ASSUME TypeInv, NEW m \in Mark, m.len = Len(input), m.prev # "Start",
           NEW off, LegalOffset(off), NEW n \in Nat \ {0},
           NEW covered, covered = Repeats(input, off, n), input' = input \o covered,
           NEW q, q.prev = "Match", q.unit.off = off, q.unit.n = n, q.covered = covered
    PROVE  covered \in Seq(Letters) /\ IsMatch(m, q)'
<1>1. input \in Seq(Letters) /\ Len(input) \in Nat /\ off \in 1 .. Len(input) /\ n \in Nat
    BY LenProperties DEF TypeInv, LegalOffset
<1>2. /\ covered \in Seq(Letters) /\ Len(covered) = n
      /\ \A j \in 1 .. n : input'[Len(input) + j] = input'[Len(input) + j - off]
    <2>1. /\ Repeats(input, off, n) \in Seq(Letters) /\ Len(Repeats(input, off, n)) = n
          /\ Periodic(input \o Repeats(input, off, n), Len(input), off, n)
      BY <1>1, RepeatsBack
    <2>2. input' = input \o Repeats(input, off, n)
      OBVIOUS
    <2> QED BY <2>1, <2>2 DEF Periodic
<1>3. IsMatch(m, q)'
    <2>1. n >= 1
      BY <1>1
    <2> QED BY <1>1, <1>2, <2>1 DEF IsMatch
<1> QED BY <1>2, <1>3

\* rep_insert and rep_mtf keep the queue of four offsets a queue of four offsets.
LEMMA QueueKept ==
    ASSUME NEW queue \in Queue, NEW off \in Nat \ {0}, NEW i \in 1 .. 4
    PROVE  RepInsert(queue, off) \in Queue /\ RepMtf(queue, i) \in Queue
<1>1. \A j \in 1 .. 4 : queue[j] \in Nat \ {0}
    BY DEF Queue
<1>2. RepInsert(queue, off) \in Queue
    <2>1. <<off, queue[1], queue[2], queue[3]>> \in [1 .. 4 -> Nat \ {0}]
      <3>1. queue[1] \in Nat \ {0} /\ queue[2] \in Nat \ {0} /\ queue[3] \in Nat \ {0}
        BY <1>1
      <3> QED BY <3>1
    <2> QED BY <2>1 DEF RepInsert, Queue
<1>3. RepMtf(queue, i) \in Queue
    <2>1. ASSUME NEW j \in 1 .. 4
          PROVE  (IF j = 1 THEN queue[i] ELSE IF j <= i THEN queue[j - 1] ELSE queue[j]) \in Nat \ {0}
      <3>1. j # 1 => j - 1 \in 1 .. 4
        OBVIOUS
      <3> QED BY <1>1, <3>1
    <2> QED BY <2>1 DEF RepMtf, Queue
<1> QED BY <1>2, <1>3

\* The slot the encoder names holds the offset.
LEMMA FirstSlotIs ==
    ASSUME TypeInv, NEW off, LiveSlots(off) # {}
    PROVE  FirstSlot(off) \in 1 .. cfg.slots /\ reps[FirstSlot(off)] = off
<1>1. LiveSlots(off) \in SUBSET Nat
    BY DEF LiveSlots
<1>2. \E i \in LiveSlots(off) : \A j \in LiveSlots(off) : i <= j
    BY <1>1, LeastNatural
<1>3. FirstSlot(off) \in LiveSlots(off)
    BY <1>2 DEF FirstSlot
<1> QED BY <1>3 DEF LiveSlots

\* What the parser asked for.
LEMMA UnitTyped ==
    ASSUME NEW off \in Nat, NEW n \in Nat
    PROVE  /\ UnitOf(NewOffset, off, n) \in UnitSet
           /\ \A i \in 1 .. 4 : UnitOf(Rep(i), off, n) \in UnitSet
           /\ \A i \in {1, 2} : UnitOf(NearRep(i), off, n) \in UnitSet
BY StatesTyped DEF UnitOf, UnitSet

\* So does a match at an offset of the queue,
LEMMA RepMatchStep ==
    ASSUME IInv, NEW off \in cfg.offsets, NEW len \in cfg.lens, RepMatch(off, len)
    PROVE  IInv'
<1>1. PICK m, i, head, tail, bits, covered, queue, unit :
        /\ m = LastMark /\ i = FirstSlot(off)
        /\ head = RepHead(i) /\ tail = Gamma(len)
        /\ bits = (IF cfg.near THEN AfterLitBits(Rep(i))
                   ELSE 1 + IF cfg.slots > 1 THEN RepIndexBits(i) ELSE 0) + GammaBits(len)
        /\ covered = Repeats(input, off, len)
        /\ queue = RepMtf(reps, i)
        /\ unit = UnitOf(Rep(i), off, len)
    OBVIOUS
<1>2. /\ TypeInv /\ m \in Mark /\ m.prev = prev /\ m.reps = reps /\ m.len = Len(input)
      /\ cfg \in Configs /\ reps \in Queue
    BY <1>1, LastFacts DEF IInv, TypeInv
<1>3. /\ prev = "Literals" /\ LegalOffset(off) /\ LiveSlots(off) # {}
    BY DEF RepMatch
<1>4. i \in 1 .. cfg.slots /\ reps[i] = off /\ cfg.slots \in 1 .. 4 /\ i \in 1 .. 4
    BY <1>1, <1>2, <1>3, FirstSlotIs, ConfigsAssumption
<1>5. off \in Nat \ {0} /\ len \in Nat \ {0}
    <2>1. off \in 1 .. Len(input) /\ Len(input) \in Nat
      BY <1>2, <1>3, LenProperties DEF LegalOffset, TypeInv
    <2>2. cfg.lens \subseteq Nat \ {0}
      BY <1>2, ConfigsAssumption
    <2> QED BY <2>1, <2>2
<1>6. /\ tail \in Seq(Symbol) /\ BitsOf(tail) = GammaBits(len) /\ head \in Seq(Symbol)
      /\ BitsOf(head) = IF cfg.near THEN AfterLitBits(Rep(i))
                        ELSE 1 + IF cfg.slots > 1 THEN RepIndexBits(i) ELSE 0
    BY <1>1, <1>2, <1>4, <1>5, RepHeadCost, BitsOfGamma
<1>7. PICK symbols : symbols = head \o tail
    OBVIOUS
<1>8. symbols \in Seq(Symbol) /\ bits = BitsOf(symbols)
    <2>1. symbols \in Seq(Symbol) /\ BitsOf(symbols) = BitsOf(head) + BitsOf(tail)
      BY <1>6, <1>7, Joined, BitsOfJoined
    <2> QED BY <1>1, <1>6, <2>1
<1>9. Unit("Match", unit, symbols, covered, queue, bits)
    BY <1>1, <1>7 DEF RepMatch, RepHead
<1>10. PICK q : q = [at |-> m.at + Len(symbols), len |-> m.len + Len(covered),
                    reps |-> queue, prev |-> "Match", unit |-> unit,
                    symbols |-> symbols, covered |-> covered]
    OBVIOUS
<1>11. /\ q.prev = "Match" /\ q.unit = unit /\ q.unit.off = off /\ q.unit.n = len
       /\ q.covered = covered /\ q.reps = queue /\ q.symbols = symbols
    BY <1>1, <1>10 DEF UnitOf
<1>12. covered \in Seq(Letters) /\ IsMatch(m, q)'
    <2>1. input' = input \o covered
      BY <1>9 DEF Unit
    <2>2. m.prev # "Start" /\ LegalOffset(off)
      BY <1>2, <1>3
    <2>3. covered = Repeats(input, off, len)
      BY <1>1
    <2> QED BY <1>2, <1>5, <1>11, <2>1, <2>2, <2>3, MatchCovered
<1>13. IsRep(m, q, i)'
    <2>1. cfg' = cfg
      BY <1>9 DEF Unit
    <2>2. RepHead(i)' = head
      BY <1>1, <2>1 DEF RepHead
    <2>3. RepRest(q) = tail
      BY <1>1, <1>11 DEF RepRest
    <2> QED BY <1>1, <1>2, <1>3, <1>4, <1>7, <1>11, <1>12, <2>1, <2>2, <2>3 DEF IsRep
<1>14. Legal(m, q)'
    BY <1>4, <1>13 DEF Legal
<1>15. queue \in Queue /\ unit \in UnitSet /\ "Match" \in Prevs
    BY <1>1, <1>2, <1>4, <1>5, QueueKept, UnitTyped DEF Prevs
<1> QED BY <1>1, <1>2, <1>8, <1>9, <1>10, <1>12, <1>14, <1>15, UnitStep

\* one at a new offset,
LEMMA NewMatchStep ==
    ASSUME IInv, NEW off \in cfg.offsets, NEW len \in cfg.lens, NewMatch(off, len)
    PROVE  IInv'
<1>1. PICK m, head, tail, bits, covered, queue, unit :
        /\ m = LastMark
        /\ head = NewHead(m) /\ tail = NewOffsetBody(off, len)
        /\ bits = (IF prev = "Match" /\ cfg.am THEN 2
                   ELSE IF prev = "Literals" /\ cfg.near THEN AfterLitBits(NewOffset) ELSE 1)
                  + GammaBits(Msb(off)) + LsbBits + GammaBits(len - 1)
        /\ covered = Repeats(input, off, len)
        /\ queue = RepInsert(reps, off)
        /\ unit = UnitOf(NewOffset, off, len)
    OBVIOUS
<1>2. /\ TypeInv /\ m \in Mark /\ m.prev = prev /\ m.reps = reps /\ m.len = Len(input)
      /\ cfg \in Configs /\ reps \in Queue /\ prev \in Prevs
    BY <1>1, LastFacts DEF IInv, TypeInv
<1>3. prev # "Start" /\ LegalOffset(off) /\ len >= 2
    BY DEF NewMatch
<1>4. m.prev \in {"Literals", "Match"}
    BY <1>2, <1>3 DEF Prevs
<1>5. off \in Nat \ {0} /\ len \in Nat \ {0}
    <2>1. off \in 1 .. Len(input) /\ Len(input) \in Nat
      BY <1>2, <1>3, LenProperties DEF LegalOffset, TypeInv
    <2>2. cfg.lens \subseteq Nat \ {0}
      BY <1>2, ConfigsAssumption
    <2> QED BY <2>1, <2>2
<1>6. /\ head \in Seq(Symbol)
      /\ BitsOf(head) = IF prev = "Match" /\ cfg.am THEN 2
                        ELSE IF prev = "Literals" /\ cfg.near THEN AfterLitBits(NewOffset) ELSE 1
    BY <1>1, <1>2, <1>4, NewHeadCost
<1>7. /\ tail \in Seq(Symbol)
      /\ BitsOf(tail) = GammaBits(Msb(off)) + LsbBits + GammaBits(len - 1)
      /\ GammaBits(Msb(off)) \in Nat /\ GammaBits(len - 1) \in Nat
    <2>1. len \in Nat
      BY <1>5
    <2> QED BY <1>1, <1>3, <1>5, <2>1, NewOffsetCost
<1>8. PICK symbols : symbols = head \o tail
    OBVIOUS
<1>9. symbols \in Seq(Symbol) /\ bits = BitsOf(symbols)
    <2>1. /\ symbols \in Seq(Symbol) /\ BitsOf(symbols) = BitsOf(head) + BitsOf(tail)
          /\ BitsOf(head) \in Nat
      BY <1>6, <1>7, <1>8, Joined, BitsOfJoined
    <2> DEFINE a == BitsOf(head)
               b == GammaBits(Msb(off))
               c == GammaBits(len - 1)
    <2>2. /\ bits = a + b + LsbBits + c /\ BitsOf(symbols) = a + (b + LsbBits + c)
          /\ a \in Nat /\ b \in Nat /\ c \in Nat /\ LsbBits \in Nat
      BY <1>1, <1>6, <1>7, <2>1, LsbBitsAssumption
    <2> HIDE DEF a, b, c
    <2>3. bits = BitsOf(symbols)
      BY <2>2
    <2> QED BY <2>1, <2>3
<1>10. Unit("Match", unit, symbols, covered, queue, bits)
    <2>1. head = BitSyms(IF prev = "Literals" THEN (IF cfg.near THEN AfterLitCode(NewOffset) ELSE <<1>>)
                         ELSE IF cfg.am THEN <<1, 0>> ELSE <<1>>)
      BY <1>1, <1>2 DEF NewHead
    <2> QED BY <1>1, <1>8, <2>1 DEF NewMatch
<1>11. PICK q : q = [at |-> m.at + Len(symbols), len |-> m.len + Len(covered),
                    reps |-> queue, prev |-> "Match", unit |-> unit,
                    symbols |-> symbols, covered |-> covered]
    OBVIOUS
<1>12. /\ q.prev = "Match" /\ q.unit = unit /\ q.unit.off = off /\ q.unit.n = len
       /\ q.covered = covered /\ q.reps = queue /\ q.symbols = symbols
    BY <1>1, <1>11 DEF UnitOf
<1>13. covered \in Seq(Letters) /\ IsMatch(m, q)'
    <2>1. input' = input \o covered
      BY <1>10 DEF Unit
    <2>2. m.prev # "Start" /\ LegalOffset(off)
      BY <1>2, <1>3
    <2>3. covered = Repeats(input, off, len)
      BY <1>1
    <2> QED BY <1>2, <1>5, <1>12, <2>1, <2>2, <2>3, MatchCovered
<1>14. IsNew(m, q)'
    <2>1. cfg' = cfg
      BY <1>10 DEF Unit
    <2>2. NewHead(m)' = head
      BY <1>1, <2>1 DEF NewHead
    <2>3. NewRest(q) = tail
      BY <1>1, <1>12 DEF NewRest
    <2>4. cfg.eof => off <= EOF_MAX_OFFSET
      BY <1>3 DEF LegalOffset
    <2> QED BY <1>1, <1>2, <1>3, <1>8, <1>12, <1>13, <2>1, <2>2, <2>3, <2>4 DEF IsNew
<1>15. Legal(m, q)'
    BY <1>14 DEF Legal
<1>16. queue \in Queue /\ unit \in UnitSet /\ "Match" \in Prevs
    <2>1. 1 \in 1 .. 4
      OBVIOUS
    <2> QED BY <1>1, <1>2, <1>5, <2>1, QueueKept, UnitTyped DEF Prevs
<1> QED BY <1>1, <1>2, <1>9, <1>10, <1>11, <1>13, <1>15, <1>16, UnitStep

\* and one near an offset of the queue.
LEMMA NearMatchStep ==
    ASSUME IInv, NEW off \in cfg.offsets, NEW len \in cfg.lens, NEW i \in {1, 2},
           NearMatch(off, len, i)
    PROVE  IInv'
<1>1. PICK m, delta, sign, head, tail, bits, covered, queue, unit :
        /\ m = LastMark
        /\ delta = IF off >= reps[i] THEN off - reps[i] ELSE reps[i] - off
        /\ sign = IF off >= reps[i] THEN 0 ELSE 1
        /\ head = NearHead(m, i)
        /\ tail = NearBody(sign, delta, len)
        /\ bits = (IF prev = "Literals" THEN AfterLitBits(NearRep(i)) ELSE 3)
                  + 1 + GammaBits(delta) + GammaBits(len - 1)
        /\ covered = Repeats(input, off, len)
        /\ queue = RepInsert(reps, off)
        /\ unit = UnitOf(NearRep(i), off, len)
    OBVIOUS
<1>2. /\ TypeInv /\ m \in Mark /\ m.prev = prev /\ m.reps = reps /\ m.len = Len(input)
      /\ cfg \in Configs /\ reps \in Queue
    BY <1>1, LastFacts DEF IInv, TypeInv
<1>3. /\ (prev = "Literals" /\ cfg.near) \/ (prev = "Match" /\ cfg.am)
      /\ LegalOffset(off) /\ len >= 2 /\ reps[i] # off
    BY DEF NearMatch
<1>4. off \in Nat \ {0} /\ len \in Nat \ {0}
    <2>1. off \in 1 .. Len(input) /\ Len(input) \in Nat
      BY <1>2, <1>3, LenProperties DEF LegalOffset, TypeInv
    <2>2. cfg.lens \subseteq Nat \ {0}
      BY <1>2, ConfigsAssumption
    <2> QED BY <2>1, <2>2
<1>5. delta \in Nat \ {0} /\ sign \in {0, 1}
    <2>1. reps[i] \in Nat
      BY <1>2 DEF Queue
    <2> QED BY <1>1, <1>3, <1>4, <2>1
<1>6. /\ head \in Seq(Symbol)
      /\ BitsOf(head) = IF prev = "Literals" THEN AfterLitBits(NearRep(i)) ELSE 3
    BY <1>1, <1>2, NearHeadCost
<1>7. /\ tail \in Seq(Symbol)
      /\ BitsOf(tail) = 1 + GammaBits(delta) + GammaBits(len - 1)
      /\ GammaBits(delta) \in Nat /\ GammaBits(len - 1) \in Nat
    <2>1. len \in Nat /\ len >= 2
      BY <1>3, <1>4
    <2>2. tail = NearBody(sign, delta, len)
      BY <1>1
    <2> QED BY <1>5, <2>1, <2>2, NearRestCost
<1>8. PICK symbols : symbols = head \o tail
    OBVIOUS
<1>9. symbols \in Seq(Symbol) /\ bits = BitsOf(symbols)
    <2>1. /\ symbols \in Seq(Symbol) /\ BitsOf(symbols) = BitsOf(head) + BitsOf(tail)
          /\ BitsOf(head) \in Nat
      BY <1>6, <1>7, <1>8, Joined, BitsOfJoined
    <2> DEFINE a == BitsOf(head)
               b == GammaBits(delta)
               c == GammaBits(len - 1)
    <2>2. /\ bits = a + 1 + b + c /\ BitsOf(symbols) = a + (1 + b + c)
          /\ a \in Nat /\ b \in Nat /\ c \in Nat
      BY <1>1, <1>6, <1>7, <2>1
    <2> HIDE DEF a, b, c
    <2>3. bits = BitsOf(symbols)
      BY <2>2
    <2> QED BY <2>1, <2>3
<1>10. Unit("Match", unit, symbols, covered, queue, bits)
    <2>1. head = BitSyms(IF prev = "Literals" THEN AfterLitCode(NearRep(i)) ELSE <<1, 1, i - 1>>)
      BY <1>1, <1>2 DEF NearHead
    <2>2. symbols = BitSyms(IF prev = "Literals" THEN AfterLitCode(NearRep(i)) ELSE <<1, 1, i - 1>>)
                    \o <<BitSym(sign)>> \o Gamma(delta) \o Gamma(len - 1)
      <3> DEFINE x == <<BitSym(sign)>>
                 y == Gamma(delta)
                 z == Gamma(len - 1)
      <3>1. x \in Seq(Symbol) /\ y \in Seq(Symbol) /\ z \in Seq(Symbol) /\ len - 1 \in Nat \ {0}
        <4>1. len - 1 \in Nat \ {0}
          BY <1>3, <1>4
        <4>2. x \in Seq(Symbol)
          BY <1>5, BitType
        <4> QED BY <4>1, <4>2, <1>5, BitsOfGamma
      <3>2. symbols = head \o ((x \o y) \o z)
        BY <1>1, <1>8 DEF NearBody
      <3> HIDE DEF x, y, z
      <3>3. head \in Seq(Symbol)
        BY <1>6
      <3>4. Four(head, x, y, z)
        BY <3>1, <3>3, JoinedFour
      <3>6. symbols = ((head \o x) \o y) \o z
        BY <3>2, <3>4 DEF Four
      <3> QED BY <2>1, <3>6 DEF x, y, z
    <2> QED BY <1>1, <2>2 DEF NearMatch
<1>11. PICK q : q = [at |-> m.at + Len(symbols), len |-> m.len + Len(covered),
                    reps |-> queue, prev |-> "Match", unit |-> unit,
                    symbols |-> symbols, covered |-> covered]
    OBVIOUS
<1>12. /\ q.prev = "Match" /\ q.unit = unit /\ q.unit.off = off /\ q.unit.n = len
       /\ q.covered = covered /\ q.reps = queue /\ q.symbols = symbols
    BY <1>1, <1>11 DEF UnitOf
<1>13. covered \in Seq(Letters) /\ IsMatch(m, q)'
    <2>1. input' = input \o covered
      BY <1>10 DEF Unit
    <2>2. m.prev # "Start" /\ LegalOffset(off)
      BY <1>2, <1>3
    <2>3. covered = Repeats(input, off, len)
      BY <1>1
    <2> QED BY <1>2, <1>4, <1>12, <2>1, <2>2, <2>3, MatchCovered
<1>14. IsNear(m, q, i)'
    <2>1. cfg' = cfg
      BY <1>10 DEF Unit
    <2>2. NearRest(m, q, i) = tail
      BY <1>1, <1>2, <1>12 DEF NearRest, NearSign, NearDelta, NearBody
    <2>3. IF m.prev = "Literals" THEN cfg.near ELSE cfg.am
      BY <1>2, <1>3
    <2> QED BY <1>1, <1>2, <1>3, <1>8, <1>12, <1>13, <2>1, <2>2, <2>3 DEF IsNear
<1>15. Legal(m, q)'
    BY <1>14 DEF Legal
<1>16. queue \in Queue /\ unit \in UnitSet /\ "Match" \in Prevs
    <2>1. 1 \in 1 .. 4
      OBVIOUS
    <2> QED BY <1>1, <1>2, <1>4, <2>1, QueueKept, UnitTyped DEF Prevs
<1> QED BY <1>1, <1>2, <1>9, <1>10, <1>11, <1>13, <1>15, <1>16, UnitStep

\* The end marker as symbols.
LEMMA EofMarkerType ==
    EofMarker \in Seq(Symbol)
<1> DEFINE a == IF prev = "Start" THEN <<>> ELSE <<BitSym(1)>>
           b == Gamma(EOF_MSB)
           c == <<ByteSym(0)>>
<1>1. a \in Seq(Symbol)
    <2>1. <<>> \in Seq(Symbol) /\ <<BitSym(1)>> \in Seq(Symbol)
      BY BitType
    <2> QED BY <2>1
<1>2. b \in Seq(Symbol)
    BY EofAssumption, GammaType
<1>3. c \in Seq(Symbol)
    BY DEF ByteSym, Symbol
<1>4. EofMarker = (a \o b) \o c
    BY DEF EofMarker
<1> HIDE DEF a, b, c
<1>5. a \o b \in Seq(Symbol)
    BY <1>1, <1>2, Joined
<1> QED BY <1>3, <1>4, <1>5, Joined

\* The first unit of a stream that is not empty is a run of literals without a flag bit.
LEMMA FirstUnit ==
    ASSUME TypeInv, EncoderInv, Len(input) # 0
    PROVE  /\ 1 < Len(marks) /\ IsLiterals(marks[1], marks[2])
           /\ marks[2].symbols = LiteralsRest(marks[2])
           /\ marks[1] \in Mark /\ marks[2] \in Mark /\ Placed(marks[1], marks[2])
<1>1. Len(marks) \in Nat /\ 1 \in 1 .. Len(marks) /\ Len(marks) >= 1
    BY LenProperties DEF TypeInv, EncoderInv
<1>2. Len(marks) # 1
    BY DEF EncoderInv, LastMark
<1>3. 1 < Len(marks)
    <2> DEFINE k == Len(marks)
    <2>1. k \in Nat /\ k >= 1 /\ k # 1
      BY <1>1, <1>2
    <2> HIDE DEF k
    <2>2. 1 < k
      BY <2>1
    <2> QED BY <2>2 DEF k
<1>4. /\ marks[1] \in Mark /\ 1 + 1 \in 1 .. Len(marks) /\ Placed(marks[1], marks[1 + 1])
      /\ Legal(marks[1], marks[1 + 1])
    BY <1>1, <1>3, MarkFacts
<1>5. 1 + 1 = 2
    OBVIOUS
<1>6. marks[2] \in Mark
    BY <1>4, <1>5, MarkFacts
<1>7. IsLiterals(marks[1], marks[2])
    <2>1. marks[1].prev = "Start"
      BY DEF EncoderInv
    <2> QED BY <1>4, <1>5, <2>1 DEF Legal, IsRep, IsNew, IsNear, IsMatch
<1>8. marks[2].symbols = LiteralsRest(marks[2])
    <2> DEFINE q == marks[2]
               a == Gamma(Len(q.covered))
               b == Bytes(q.covered)
    <2>1. q.covered \in Seq(Letters) /\ Len(q.covered) \in Nat \ {0}
      BY <1>6, <1>7, MarkType DEF IsLiterals
    <2>2. a \in Seq(Symbol) /\ b \in Seq(Symbol)
      BY <2>1, GammaType, BytesType
    <2>3. q.symbols = <<>> \o (a \o b)
      <3>1. marks[1].prev # "Match"
        BY DEF EncoderInv
      <3> QED BY <1>7, <3>1 DEF IsLiterals, LiteralsHead, LiteralsRest
    <2> HIDE DEF a, b
    <2>4. a \o b \in Seq(Symbol)
      BY <2>2, Joined
    <2>5. q.symbols = a \o b
      BY <2>3, <2>4
    <2> QED BY <2>5 DEF a, b, LiteralsRest
<1> QED BY <1>3, <1>4, <1>5, <1>6, <1>7, <1>8

\* Calling the decoder on the finished stream keeps the invariant: the decoder begins
\* inside the first unit, its kind being known.
LEMMA FinishStep ==
    ASSUME IInv, Finish
    PROVE  IInv'
<1>1. /\ phase = "encode" /\ cfg' = cfg /\ backward' = backward /\ input' = input /\ prev' = prev
      /\ reps' = reps /\ predicted' = predicted /\ mode' = mode /\ marks' = marks
      /\ d_state' = d_state /\ d_reps' = d_reps /\ rd' = rd /\ out' = out
      /\ stream' = IF cfg.eof THEN stream \o EofMarker ELSE stream
      /\ \/ limit' = Len(input)
         \/ cfg.eof /\ input # <<>> /\ limit' = GapLimit
      /\ phase' = IF limit' = 0 THEN "done" ELSE "decode"
    BY DEF Finish
<1>2. /\ TypeInv /\ EncoderInv /\ CallInv /\ stream \in Seq(Symbol) /\ input \in Seq(Letters)
      /\ marks \in Seq(Mark) /\ Len(marks) \in Nat /\ Len(input) \in Nat /\ Len(stream) \in Nat
      /\ MaxLen \in Nat /\ marks' = marks /\ Len(marks) >= 1
    <2>1. cfg.alphabet \in Seq(SUBSET Nat)
      BY ConfigsAssumption DEF IInv, TypeInv
    <2> QED BY <1>1, <2>1, LenProperties DEF IInv, TypeInv, MaxLen, EncoderInv
<1>3. stream' \in Seq(Symbol) /\ Len(stream') \in Nat /\ Extends(stream', stream)
    <2>1. CASE cfg.eof
      BY <1>1, <1>2, <2>1, EofMarkerType, Joined, ConcatExtends
    <2>2. CASE ~ cfg.eof
      BY <1>1, <1>2, <2>2 DEF Extends
    <2> QED BY <2>1, <2>2
<1>4. Extends(input', input)
    BY <1>1, <1>2 DEF Extends
<1>5. LastMark' = LastMark
    BY <1>1 DEF LastMark
<1>6. cfg.eof => Sits(EofMarker, LastMark.at)'
    <2> SUFFICES ASSUME cfg.eof PROVE Sits(EofMarker, LastMark.at)'
      OBVIOUS
    <2>1. PICK e, l : e = EofMarker /\ l = Len(stream)
      OBVIOUS
    <2>2. /\ stream' = stream \o e /\ e \in Seq(Symbol)
      BY <1>1, <2>1, EofMarkerType
    <2>3. /\ Len(stream') = l + Len(e) /\ Len(e) \in Nat /\ l \in Nat
          /\ \A j \in 1 .. Len(e) : stream'[l + j] = e[j]
      BY <1>2, <2>1, <2>2, Joined
    <2>4. LastMark'.at = l + 1
      BY <1>1, <1>2, <1>5, <2>1 DEF CallInv
    <2>5. EofMarker' = e
      BY <1>1, <2>1 DEF EofMarker
    <2>6. ASSUME NEW j \in 1 .. Len(e) PROVE stream'[(l + 1) + j - 1] = e[j]
      <3>1. (l + 1) + j - 1 = l + j
        BY <2>3
      <3> QED BY <2>3, <3>1
    <2>7. (l + 1) + Len(e) - 1 <= Len(stream')
      BY <2>3
    <2> QED BY <2>4, <2>5, <2>6, <2>7 DEF Sits
<1>7. TypeInv'
    <2>1. Letters' = Letters /\ MaxLen' = MaxLen /\ ModeOf(cfg)' = ModeOf(cfg)
      BY <1>1 DEF Letters, MaxLen, ModeOf
    <2>2. Mark' = Mark
      BY <2>1 DEF Mark
    <2>3. limit' \in Nat
      BY <1>1, <1>2 DEF GapLimit
    <2> QED BY <1>1, <1>2, <1>3, <2>1, <2>2, <2>3 DEF TypeInv
<1>8. EncoderInv'
    <2>1. ASSUME NEW u \in 1 .. (Len(marks) - 1)
          PROVE  Placed(marks[u], marks[u + 1])' /\ Legal(marks[u], marks[u + 1])'
      <3>1. u \in 1 .. Len(marks) /\ u + 1 \in 1 .. Len(marks)
        BY <1>2
      <3>2. PICK a, b : a = marks[u] /\ b = marks[u + 1]
        OBVIOUS
      <3>3. a \in Mark /\ b \in Mark
        BY <1>2, <3>1, <3>2, ElementOfSeq
      <3>4. Placed(a, b) /\ Legal(a, b)
        BY <1>2, <3>2 DEF EncoderInv
      <3>5. Len(input') \in Nat
        BY <1>1, <1>2
      <3>6. Placed(a, b)' /\ Legal(a, b)'
        BY <1>1, <1>2, <1>3, <1>4, <3>3, <3>4, <3>5, HistoryGrows
      <3>7. marks'[u] = a /\ marks'[u + 1] = b
        BY <1>1, <3>2
      <3> QED BY <3>6, <3>7
    <2> QED BY <1>1, <1>2, <1>5, <2>1 DEF EncoderInv
<1>9. CallInv'
    <2>1. phase' # "encode"
      BY <1>1
    <2>2. limit' = Len(input') \/ (cfg'.eof /\ limit' = GapLimit')
      BY <1>1 DEF GapLimit, MaxLen
    <2> QED BY <1>1, <1>6, <2>1, <2>2 DEF CallInv
<1>10. Mirrors(1, phase, d_state, d_reps, rd, out)'
    <2>1. /\ d_state' = St("Literals") /\ d_reps' = InitReps /\ rd' = 1 /\ out' = <<>>
          /\ marks'[1].at = 1 /\ marks'[1].len = 0 /\ marks'[1].reps = InitReps
      BY <1>1, <1>2 DEF CallInv, EncoderInv
    <2>2. Produced(0)' = <<>>
      BY DEF Produced
    <2>3. (limit' = 0) <=> (Len(input) = 0)
      <3>1. Len(<<>>) = 0 /\ (input # <<>> => Len(input) # 0)
        BY <1>2
      <3> QED BY <1>1, <1>2, <3>1 DEF GapLimit
    <2>4. ASSUME limit' # 0
          PROVE  InUnit(1, d_state, rd)' /\ 1 < Len(marks')
      <3>1. Len(input) # 0
        BY <2>3, <2>4
      <3>2. PICK a, b : a = marks[1] /\ b = marks[2]
        OBVIOUS
      <3>3. /\ 1 < Len(marks) /\ IsLiterals(a, b) /\ b.symbols = LiteralsRest(b)
            /\ a \in Mark /\ b \in Mark /\ Placed(a, b)
        BY <1>2, <3>1, <3>2, FirstUnit
      <3>4. Legal(a, b)
        BY <3>3 DEF Legal
      <3>5. Len(input') \in Nat
        BY <1>1, <1>2
      <3>6. Placed(a, b)'
        BY <1>1, <1>2, <1>3, <1>4, <3>3, <3>4, <3>5, HistoryGrows
      <3>7. a.at = 1
        BY <1>2, <3>2 DEF EncoderInv
      <3>8. Before(LiteralsRest(b), b, 1)'
        BY <3>3, <3>6, <3>7 DEF Placed, Before
      <3>9. IsLiterals(a, b)'
        BY <3>3 DEF IsLiterals
      <3>10. marks'[1] = a /\ marks'[1 + 1] = b
        BY <1>1, <3>2
      <3> QED BY <1>1, <2>1, <3>3, <3>8, <3>9, <3>10 DEF InUnit
    <2>5. St("Literals") \in State /\ St("Literals").kind \notin {"AfterLitMatch", "AfterMatch"}
      BY StatesTyped DEF St
    <2>6. phase' = "done" => Len(input) = 0
      BY <1>1, <2>3
    <2>7. phase' = "decode" => limit' # 0
      BY <1>1
    <2> QED BY <1>1, <2>1, <2>2, <2>4, <2>5, <2>6, <2>7 DEF Mirrors
<1>11. DecoderInv'
    <2>1. 1 \in 1 .. Len(marks')
      BY <1>1, <1>2
    <2> QED BY <1>10, <2>1 DEF DecoderInv
<1>12. CostExact'
    BY <1>1 DEF CostExact
<1> QED BY <1>7, <1>8, <1>9, <1>11, <1>12 DEF IInv

\* The invariant holds at the start.
LEMMA InitIInv ==
    ASSUME Init
    PROVE  IInv
<1> DEFINE m == [at |-> 1, len |-> 0, reps |-> InitReps, prev |-> "Start",
                 unit |-> UnitOf(St("Start"), 0, 0), symbols |-> <<>>, covered |-> <<>>]
<1>1. /\ cfg \in Configs /\ backward \in cfg.directions /\ phase = "encode"
      /\ input = <<>> /\ stream = <<>> /\ prev = "Start" /\ reps = InitReps /\ d_reps = InitReps
      /\ predicted = 0 /\ mode = ModeOf(cfg) /\ marks = <<m>>
      /\ limit = 0 /\ rd = 1 /\ out = <<>> /\ d_state = St("Literals")
    BY DEF Init, ModeOf
<1>2. InitReps \in Queue
    BY DEF InitReps, Queue
<1>3. m \in Mark
    <2>1. UnitOf(St("Start"), 0, 0) \in UnitSet
      BY DEF UnitOf, UnitSet, St, State, Name
    <2>2. <<>> \in Seq(Symbol) /\ <<>> \in Seq(Letters) /\ "Start" \in Prevs
      BY DEF Prevs
    <2> QED BY <1>2, <2>1, <2>2 DEF Mark
<1>4. /\ m.at = 1 /\ m.len = 0 /\ m.reps = InitReps /\ m.prev = "Start"
    OBVIOUS
<1> HIDE DEF m
<1>5. marks \in Seq(Mark) /\ Len(marks) = 1 /\ marks[1] = m
    BY <1>1, <1>3
<1>6. <<>> \in Seq(Symbol) /\ <<>> \in Seq(Letters) /\ Len(<<>>) = 0
    OBVIOUS
<1>7. MaxLen \in Nat
    <2>1. cfg.alphabet \in Seq(SUBSET Nat)
      BY <1>1, ConfigsAssumption
    <2> QED BY <2>1, LenProperties DEF MaxLen
<1>8. TypeInv
    <2>1. backward \in BOOLEAN
      BY <1>1, ConfigsAssumption
    <2> QED BY <1>1, <1>2, <1>5, <1>6, <1>7, <2>1 DEF TypeInv, Prevs
<1>9. LastMark = m
    BY <1>5 DEF LastMark
<1>10. EncoderInv
    BY <1>1, <1>4, <1>5, <1>6, <1>9 DEF EncoderInv
<1>11. CallInv
    BY <1>1, <1>4, <1>6, <1>9 DEF CallInv
<1>12. DecoderInv
    BY <1>1 DEF DecoderInv
<1>13. CostExact
    <2>1. \A j \in 1 .. Len(<<>>) : SymBits(<<>>[j]) = 1
      BY <1>6
    <2>2. BitsOf(<<>>) = 1 * Len(<<>>)
      BY <1>6, <2>1, BitsOfUniform
    <2> QED BY <1>1, <1>6, <2>2 DEF CostExact
<1> QED BY <1>8, <1>10, <1>11, <1>12, <1>13 DEF IInv

\* A step that changes nothing keeps it.
LEMMA StutterStep ==
    ASSUME IInv, UNCHANGED vars
    PROVE  IInv'
<1>1. UNCHANGED encoder /\ phase' = phase /\ UNCHANGED decoder
    BY DEF vars
<1>2. TypeInv'
    BY <1>1 DEF IInv, TypeInv, encoder, decoder, Letters, MaxLen, ModeOf, Mark
<1>3. EncoderInv'
    BY <1>1, HistoryKept DEF IInv
<1>4. CallInv'
    BY <1>1 DEF IInv, CallInv, encoder, decoder, LastMark, GapLimit, MaxLen, Sits, EofMarker
<1>5. DecoderInv'
    <2> SUFFICES ASSUME phase # "encode" PROVE DecoderInv'
      BY <1>1 DEF DecoderInv
    <2>1. PICK w \in 1 .. Len(marks) : Mirrors(w, phase, d_state, d_reps, rd, out)
      BY DEF IInv, DecoderInv
    <2>2. Mirrors(w, phase', d_state', d_reps', rd', out')
      BY <1>1, <2>1 DEF decoder
    <2>3. Mirrors(w, phase, d_state, d_reps, rd, out)'
      BY <1>1, <2>2, HistoryKept
    <2>4. marks' = marks
      BY <1>1 DEF encoder
    <2> QED BY <2>1, <2>3, <2>4 DEF DecoderInv
<1>6. CostExact'
    BY <1>1 DEF IInv, CostExact, encoder
<1> QED BY <1>2, <1>3, <1>4, <1>5, <1>6 DEF IInv

\* IInv is an invariant of the specification: encode_with3 and encode_min_eof on one side,
\* decode, decode_backward and decode_min_eof on the other.
THEOREM IInvHolds == Spec => []IInv
<1>1. Init => IInv
    BY InitIInv
<1>2. IInv /\ [Next]_vars => IInv'
    <2> SUFFICES ASSUME IInv, [Next]_vars PROVE IInv'
      OBVIOUS
    <2>1. ASSUME NEW run \in Runs, Literals(run) PROVE IInv'
      BY <2>1, LiteralsStep
    <2>2. ASSUME NEW off \in cfg.offsets, NEW len \in cfg.lens, RepMatch(off, len) PROVE IInv'
      BY <2>2, RepMatchStep
    <2>3. ASSUME NEW off \in cfg.offsets, NEW len \in cfg.lens, NewMatch(off, len) PROVE IInv'
      BY <2>3, NewMatchStep
    <2>4. ASSUME NEW off \in cfg.offsets, NEW len \in cfg.lens, NEW i \in {1, 2},
                 NearMatch(off, len, i)
          PROVE  IInv'
      BY <2>4, NearMatchStep
    <2>5. CASE Finish
      BY <2>5, FinishStep
    <2>6. CASE Decode
      BY <2>6, DecoderStep
    <2>7. CASE UNCHANGED vars
      BY <2>7, StutterStep
    <2> QED BY <2>1, <2>2, <2>3, <2>4, <2>5, <2>6, <2>7 DEF Next, Encode
<1> QED BY <1>1, <1>2, PTL DEF Spec

-----------------------------------------------------------------------------
(* What the invariant gives. *)

\* A sequence that agrees with another as far as it goes is a prefix of it.
LEMMA PrefixIs ==
    ASSUME NEW S, NEW s \in Seq(S), NEW t \in Seq(S), Len(s) <= Len(t),
           \A j \in 1 .. Len(s) : s[j] = t[j]
    PROVE  IsPrefix(s, t)
<1> DEFINE k == Len(s)
           a == SubSeq(s, 1, k)
           b == SubSeq(t, 1, k)
<1>1. k \in Nat /\ Len(t) \in Nat /\ k <= Len(t)
    BY LenProperties
<1>2. \A i \in 1 .. k : s[i] \in S /\ t[i] \in S
    BY <1>1, ElementOfSeq
<1>3. 1 \in Int /\ k \in Int /\ (IF 1 <= k THEN k - 1 + 1 ELSE 0) = k /\ k - 1 + 1 = k
    BY <1>1
<1> HIDE DEF k
<1>4. /\ a \in Seq(S) /\ Len(a) = k
      /\ \A i \in 1 .. k : a[i] = s[1 + i - 1]
    BY <1>2, <1>3, SubSeqProperties
<1>5. /\ b \in Seq(S) /\ Len(b) = k
      /\ \A i \in 1 .. k : b[i] = t[1 + i - 1]
    BY <1>2, <1>3, SubSeqProperties
<1> HIDE DEF a, b
<1>6. ASSUME NEW i \in 1 .. k PROVE a[i] = b[i]
    <2>1. 1 + i - 1 = i
      BY <1>1
    <2> QED BY <1>4, <1>5, <2>1 DEF k
<1>7. a = b
    BY <1>4, <1>5, <1>6, SeqEqual
<1> QED BY <1>1, <1>7 DEF IsPrefix, a, b, k

\* Elements of a reversed sequence.
LEMMA ReverseIs ==
    ASSUME NEW S, NEW s \in Seq(S)
    PROVE  /\ Reverse(s) \in Seq(S) /\ Len(Reverse(s)) = Len(s) /\ Len(s) \in Nat
           /\ \A j \in 1 .. Len(s) : Reverse(s)[j] = s[Len(s) - j + 1]
<1> DEFINE k == Len(s)
<1>1. k \in Nat /\ \A i \in 1 .. k : s[i] \in S
    BY ElementOfSeq, LenProperties
<1> HIDE DEF k
<1>2. Reverse(s) = [i \in 1 .. k |-> s[(k - i) + 1]]
    BY DEF Reverse, k
<1>3. \A i \in 1 .. k : (k - i) + 1 \in 1 .. k
    BY <1>1
<1>4. Reverse(s) \in [1 .. k -> S]
    BY <1>1, <1>2, <1>3
<1>5. Reverse(s) \in Seq(S) /\ Len(Reverse(s)) = k
    BY <1>1, <1>4, IsASeq, LenProperties
<1> QED BY <1>1, <1>2, <1>5 DEF k

\* The output is what some beginning of the input decodes to, all of it at the end.
LEMMA OutputIs ==
    ASSUME IInv
    PROVE  \E l \in 0 .. Len(input) : out = Produced(l) /\ (phase = "done" => l = Len(input))
<1>1. Len(input) \in Nat /\ TypeInv /\ EncoderInv
    BY LenProperties DEF IInv, TypeInv
<1>2. CASE phase = "encode"
    <2>1. out = <<>> /\ 0 \in 0 .. Len(input) /\ phase # "done"
      BY <1>1, <1>2 DEF IInv, CallInv
    <2>2. Produced(0) = <<>>
      BY DEF Produced
    <2> QED BY <2>1, <2>2
<1>3. CASE phase # "encode"
    <2>1. PICK u \in 1 .. Len(marks) : Mirrors(u, phase, d_state, d_reps, rd, out)
      BY <1>3 DEF IInv, DecoderInv
    <2>2. marks[u].len \in 0 .. Len(input)
      BY <1>1, MarkFacts, MarkType
    <2> QED BY <2>1, <2>2 DEF Mirrors
<1> QED BY <1>2, <1>3

\* The invariant implies the type invariant of the runs.
LEMMA IInvTypeOK == IInv => TypeOK
<1> SUFFICES ASSUME IInv PROVE TypeOK
    OBVIOUS
<1>1. /\ TypeInv /\ cfg \in Configs /\ stream \in Seq(Symbol)
    BY DEF IInv, TypeInv
<1>2. /\ cfg.slots \in 1 .. 4 /\ cfg.near \in BOOLEAN /\ cfg.am \in BOOLEAN
    BY <1>1, ConfigsAssumption
<1>3. mode \in 0 .. 255
    <2> DEFINE a == IF cfg.near THEN 16 ELSE 0
               b == IF cfg.am THEN 32 ELSE 0
    <2>1. mode = IF cfg.eof THEN 65 ELSE cfg.slots + a + b
      BY <1>1 DEF TypeInv, ModeOf, MODE_MIN_EOF
    <2>2. a \in {0, 16} /\ b \in {0, 32}
      OBVIOUS
    <2> HIDE DEF a, b
    <2>3. cfg.slots + a + b \in 0 .. 255
      BY <1>2, <2>2
    <2> QED BY <2>1, <2>3
<1>4. \A p \in 1 .. Len(stream) : stream[p].kind \in {"bit", "byte", "lsb"}
    <2>1. \A p \in 1 .. Len(stream) : stream[p] \in Symbol
      BY <1>1, ElementOfSeq
    <2> QED BY <2>1 DEF Symbol
<1>5. out \in Seq(Letters)
    BY <1>1, OutputIs, ProducedType
<1>6. rd \in Nat /\ d_reps \in [1 .. 4 -> Nat \ {0}] /\ d_state.ri \in 0 .. 4
    <2>1. CASE phase = "encode"
      <3>1. d_state = St("Literals") /\ d_reps = InitReps /\ rd = 1
        BY <2>1 DEF IInv, CallInv
      <3>2. InitReps \in [1 .. 4 -> Nat \ {0}]
        BY DEF InitReps
      <3> QED BY <3>1, <3>2 DEF St
    <2>2. CASE phase # "encode"
      <3>1. PICK u \in 1 .. Len(marks) : Mirrors(u, phase, d_state, d_reps, rd, out)
        BY <2>2 DEF IInv, DecoderInv
      <3>2. marks[u].reps \in Queue
        BY MarkFacts, MarkType DEF IInv
      <3>3. d_reps \in Queue /\ rd \in Nat /\ d_state \in State
        BY <3>1, <3>2 DEF Mirrors
      <3> QED BY <3>3 DEF Queue, State
    <2> QED BY <2>1, <2>2
<1> QED BY <1>2, <1>3, <1>4, <1>5, <1>6 DEF IInv, TypeInv, TypeOK, Prevs, Queue

\* The output being Produced(l) is the round trip, forwards and backwards.
LEMMA IInvRoundTrip == IInv => RoundTrip
<1> SUFFICES ASSUME IInv PROVE RoundTrip
    OBVIOUS
<1>1. TypeInv /\ input \in Seq(Letters) /\ Len(input) \in Nat
    BY LenProperties DEF IInv, TypeInv
<1>2. PICK l \in 0 .. Len(input) : out = Produced(l) /\ (phase = "done" => l = Len(input))
    BY OutputIs
<1>3. /\ out \in Seq(Letters) /\ Len(out) = l /\ l \in Nat
      /\ \A j \in 1 .. l : out[j] = IF backward THEN input[l + 1 - j] ELSE input[j]
    <2> DEFINE p == Produced(l)
    <2>1. /\ p \in Seq(Letters) /\ Len(p) = l
          /\ \A j \in 1 .. l : p[j] = IF backward THEN input[l + 1 - j] ELSE input[j]
      BY <1>1, ProducedType
    <2>2. out = p
      BY <1>2
    <2> HIDE DEF p
    <2>3. l \in Nat
      BY <1>1
    <2> QED BY <2>1, <2>2, <2>3
<1>4. CASE ~ backward
    <2>1. \A j \in 1 .. Len(out) : out[j] = input[j]
      BY <1>3, <1>4
    <2>2. IsPrefix(out, input)
      BY <1>1, <1>2, <1>3, <2>1, PrefixIs
    <2>3. phase = "done" => out = input
      BY <1>1, <1>2, <1>3, <2>1, SeqEqual
    <2> QED BY <1>4, <2>2, <2>3 DEF RoundTrip, Original
<1>5. CASE backward
    <2> DEFINE r == Reverse(input)
               s == Reverse(out)
               t == Reverse(Reverse(input))
    <2>1. /\ r \in Seq(Letters) /\ Len(r) = Len(input)
          /\ \A j \in 1 .. Len(input) : r[j] = input[Len(input) - j + 1]
      BY <1>1, ReverseIs
    <2>2. /\ s \in Seq(Letters) /\ Len(s) = l
          /\ \A j \in 1 .. l : s[j] = out[l - j + 1]
      BY <1>3, ReverseIs
    <2>3. /\ t \in Seq(Letters) /\ Len(t) = Len(input)
          /\ \A j \in 1 .. Len(input) : t[j] = r[Len(input) - j + 1]
      BY <2>1, ReverseIs
    <2> HIDE DEF r, s, t
    <2>4. ASSUME NEW j \in 1 .. Len(input) PROVE t[j] = input[j]
      <3>1. /\ Len(input) - j + 1 \in 1 .. Len(input)
            /\ Len(input) - (Len(input) - j + 1) + 1 = j
        BY <1>1
      <3> QED BY <2>1, <2>3, <3>1
    <2>5. ASSUME NEW j \in 1 .. l PROVE s[j] = input[j]
      <3>1. l - j + 1 \in 1 .. l /\ l + 1 - (l - j + 1) = j
        BY <1>3
      <3> QED BY <1>3, <1>5, <2>2, <3>1
    <2>6. IsPrefix(s, t)
      <3>1. l <= Len(input) /\ \A j \in 1 .. l : j \in 1 .. Len(input)
        BY <1>1, <1>3
      <3>2. \A j \in 1 .. l : s[j] = t[j]
        BY <2>4, <2>5, <3>1
      <3> QED BY <2>2, <2>3, <3>1, <3>2, PrefixIs
    <2>7. ASSUME phase = "done" PROVE out = r
      <3>1. l = Len(input)
        BY <1>2, <2>7
      <3>2. ASSUME NEW j \in 1 .. l PROVE out[j] = r[j]
        <4>1. l + 1 - j = Len(input) - j + 1
          BY <1>1, <3>1
        <4> QED BY <1>3, <1>5, <2>1, <3>1, <4>1
      <3> QED BY <1>3, <2>1, <3>1, <3>2, SeqEqual
    <2>8. Original = r
      BY <1>5 DEF Original, r
    <2> QED BY <1>5, <2>6, <2>7, <2>8 DEF RoundTrip, IsSuffix, r, s, t
<1>6. backward \in BOOLEAN
    BY <1>1 DEF TypeInv
<1> QED BY <1>4, <1>5, <1>6

\* Between two units the mark of DecoderInv is the one Mirrored asks for.
LEMMA IInvMirrored == IInv => Mirrored
<1> SUFFICES ASSUME IInv, d_state.kind \in {"AfterLitMatch", "AfterMatch"}
             PROVE  \E u \in 1 .. Len(marks) :
                        /\ marks[u].at = rd /\ marks[u].len = Len(out)
                        /\ marks[u].reps = d_reps
                        /\ marks[u].prev = IF d_state.kind = "AfterMatch" THEN "Match" ELSE "Literals"
    BY DEF Mirrored
<1>1. phase # "encode" /\ phase \in {"encode", "decode", "done"}
    BY DEF IInv, CallInv, TypeInv, St
<1>2. PICK u \in 1 .. Len(marks) : Mirrors(u, phase, d_state, d_reps, rd, out)
    BY <1>1 DEF IInv, DecoderInv
<1>3. AtMark(u, d_state, rd)
    BY <1>1, <1>2 DEF Mirrors, InUnit, InMarker, St, Rep, NewOffset, NearRep, AfterMatchNearRep
<1>4. marks[u].len = Len(out)
    <2>1. marks[u].len \in 0 .. Len(input)
      BY MarkFacts, MarkType DEF IInv
    <2> QED BY <1>2, <2>1, ProducedType DEF IInv, Mirrors
<1>5. marks[u].prev = IF d_state.kind = "AfterMatch" THEN "Match" ELSE "Literals"
    BY <1>3 DEF AtMark, St
<1>6. marks[u].at = rd /\ marks[u].reps = d_reps
    BY <1>2, <1>3 DEF Mirrors, AtMark
<1> QED BY <1>4, <1>5, <1>6

\* The variables keep their types: queues of four positive offsets, a mode that is a
\* byte, an output made of the input's letters (src/src/zx.rs).
THEOREM TypeCorrect == Spec => []TypeOK
BY IInvHolds, IInvTypeOK, PTL

\* decode, decode_backward and decode_min_eof give back what encode_with3 and
\* encode_min_eof were given: the output is at every moment the beginning of the input
\* (backwards: its end), and all of it when the decoder returns.
THEOREM DecoderInverts == Spec => []RoundTrip
BY IInvHolds, IInvRoundTrip, PTL

\* Between two units the decoder agrees with the encoder after the same unit: the place
\* in the stream, the amount of output, the unit behind and the queue of offsets.
THEOREM DecoderMirrors == Spec => []Mirrored
BY IInvHolds, IInvMirrored, PTL

\* predicted_payload_bits is the exact size of what the encoder has written.
THEOREM CostIsExact == Spec => []CostExact
<1>1. IInv => CostExact
    BY DEF IInv
<1> QED BY <1>1, IInvHolds, PTL
=============================================================================
