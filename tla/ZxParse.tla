------------------------------ MODULE ZxParse ------------------------------
(***************************************************************************)
(* parse.rs, the parser of LZAN, in three parts.                           *)
(*                                                                         *)
(* zx_dp and the same search in zx_seed_forward_reps: a search forward     *)
(* that keeps, for each position, a beam of arrivals, each with its own    *)
(* queue of recent offsets.                                                *)
(*                                                                         *)
(* What becomes of a parse: its predicted cost (eval_best_cost) and the    *)
(* command reduction of the one-slot grammar (reduce_commands_zx, its      *)
(* rules R1 to R7).  A parse is a unit for each position: a match where    *)
(* one starts; literals and the inside of matches have length 0.           *)
(*                                                                         *)
(* The passes: parse_zx3_inner runs the beam search over the Pareto front  *)
(* of the matches and over what earlier passes suggest, the offsets a      *)
(* forward-rep pass has seeded backwards and those the last parse used;    *)
(* for one slot a reduction of the commands follows each pass, and the     *)
(* cheapest parse is kept.  parse_zx3_complete compares that with a pass   *)
(* over every offset there is.                                             *)
(*                                                                         *)
(* The trial has the arguments (slots, near, am), the code's constants     *)
(* (beam, seedBeam: arrivals; probe: longest rep; span: lengths relaxed;   *)
(* delta: near-reps; lsb: 7), and complete, fast, seeded (the input has    *)
(* the 512 bytes that seeding asks for), room (ZX_MAX_EXTRA_PER_POS) and   *)
(* seedProbe.  With `open` there is no search: any parse that the encoder  *)
(* can code is reduced, as a wider input could give it.                    *)
(***************************************************************************)
EXTENDS Search, EliasGamma

MIN_MATCH == 2
NEAR_PROBE_ARRIVALS == 16

Near == trial.near /\ trial.slots = 4
Am == trial.am /\ trial.slots = 4

-----------------------------------------------------------------------------
(* Bits.                                                                   *)

OffsetBits(off) == GammaBits((off - 1) \div 2 ^ trial.lsb + 1) + trial.lsb
RepIndexBits(r) == <<1, 2, 3, 3>>[r]
RepPrefix(r) == IF Near /\ work.step # "seed" THEN <<2, 3, 6, 5>>[r]
                ELSE IF trial.slots > 1 THEN 1 + RepIndexBits(r) ELSE 1
NewPrefix(afterMatch) == IF Am /\ afterMatch /\ work.step # "seed" THEN 2 ELSE 1
Distance(a, b) == IF a > b THEN a - b ELSE b - a
NearBits(afterMatch, r, off, base) ==
    (IF afterMatch THEN 3 ELSE <<4, 6>>[r]) + 1 + GammaBits(Distance(off, base))

\* The offset moves to the front and stays where it was.
MovedTwice(q, r) == [j \in 1 .. 4 |-> IF j = 1 THEN q[r] ELSE IF j < r THEN q[j - 1] ELSE q[j]]

(* zx_rep_insert, zx_rep_insert1, zx_rep_mtf.                              *)
Inserted(q, off) == <<off, q[1], q[2], q[3]>>
Established(q, off) == IF trial.slots = 1 THEN <<off, 1, 1, 1>> ELSE Inserted(q, off)
Moved(q, r) == [j \in 1 .. 4 |-> IF j = 1 THEN q[r] ELSE IF j <= r THEN q[j - 1] ELSE q[j]]

-----------------------------------------------------------------------------
(* The beam.                                                               *)

FirstArrival ==
    [cost |-> 0, score |-> 0, reps |-> <<1, 1, 1, 1>>, lits |-> 0, match |-> FALSE, repPos |-> 0,
     pos |-> 0, slot |-> 0, kind |-> "literal", off |-> 0, len |-> 0, ri |-> None]
Alone == [p \in 0 .. n |-> IF p = 0 THEN <<FirstArrival>> ELSE <<>>]

Better(a, b) == a.cost < b.cost \/ (a.cost = b.cost /\ a.score < b.score)
SameState(a, b) == a.lits = b.lits /\ a.match = b.match /\ a.reps = b.reps

(* zx_relax: in its place, behind its equals, unless one of the arrivals   *)
(* before it has the same state; the last of a full beam drops out.        *)
Beam == IF work.step = "seed" THEN trial.seedBeam ELSE trial.beam
Relax(list, cand) ==
    LET before == SelectSeq(list, LAMBDA a : ~Better(cand, a)) IN
    IF Len(before) = Beam \/ \E k \in 1 .. Len(before) : SameState(before[k], cand)
    THEN list
    ELSE LET longer == before \o <<cand>> \o SubSeq(list, Len(before) + 1, Len(list))
         IN  SubSeq(longer, 1, Smaller(Beam, Len(longer)))

Cur == work.arr[work.i]
Spread(Cands(_)) ==
    [p \in 0 .. n |-> IF p <= work.i THEN work.arr[p]
                      ELSE FoldLeft(Relax, work.arr[p], Cands(p - work.i))]
Each(list, Op(_)) == FoldLeft(LAMBDA out, x : out \o Op(x), <<>>, list)
Slots == [s \in 1 .. Len(Cur) |-> s]

Literal(s) ==
    LET a == Cur[s]
        run == IF a.lits = 0 THEN (IF a.match THEN 1 ELSE 0) + GammaBits(1)
               ELSE GammaBits(a.lits + 1) - GammaBits(a.lits)
    IN  [a EXCEPT !.cost = @ + run + 8, !.score = @ + 1, !.lits = @ + 1, !.match = FALSE,
                  !.pos = work.i, !.slot = s, !.kind = "literal", !.off = 0, !.len = 0, !.ri = None]

Match(s, kind, off, len, ri, reps, bits) ==
    [cost |-> Cur[s].cost + bits, score |-> Cur[s].score + (IF kind = "rep" THEN 2 ELSE 3),
     reps |-> reps, lits |-> 0, match |-> TRUE, repPos |-> work.i,
     pos |-> work.i, slot |-> s, kind |-> kind, off |-> off, len |-> len, ri |-> ri]

NewMatch(s, off, len) ==
    Match(s, "new", off, len, None, Established(Cur[s].reps, off),
          NewPrefix(Cur[s].match) + OffsetBits(off) + GammaBits(len - 1))

(* The lengths of a candidate that are relaxed.                            *)
Relaxed(lo, hi) == {l \in lo .. hi : l - lo <= trial.span \/ l = hi}

(* The candidates of the Pareto front, each from one more than the last.   *)
Listed == work.front[work.i]
FrontLengths(k) == Relaxed(IF k = 1 THEN MIN_MATCH ELSE Listed[k - 1].length + 1, Listed[k].length)
FrontAt(l) == SelectSeq([k \in 1 .. Len(Listed) |-> k], LAMBDA k : l \in FrontLengths(k))

LiteralStep ==
    /\ work.at = "literal"
    /\ work' = [work EXCEPT !.arr = Spread(LAMBDA l : IF l = 1 THEN [s \in DOMAIN Cur |-> Literal(s)] ELSE <<>>),
                            !.at = IF work.step = "seed" THEN "insert" ELSE "explicit"]

ExplicitStep ==
    /\ work.at = "explicit"
    /\ work' = [work EXCEPT
           !.arr = Spread(LAMBDA l : Each(FrontAt(l), LAMBDA k :
                              [s \in DOMAIN Cur |-> NewMatch(s, Listed[k].offset, l)])),
           !.at = IF work.step = "seed" THEN "rep" ELSE "extra"]

ExtraStep ==
    LET extra == work.extra[work.i] IN
    /\ work.at = "extra"
    /\ work' = [work EXCEPT
           !.arr = Spread(LAMBDA l : Each(SelectSeq(extra, LAMBDA e : l \in Relaxed(MIN_MATCH, e.length)),
                              LAMBDA e : [s \in DOMAIN Cur |-> NewMatch(s, e.offset, l)])),
           !.at = "rep"]

(* A rep, after literals: any length its offset reaches.                   *)
Reaches(off, cap) ==
    IF off > work.i THEN 0 ELSE Shared(work.i - off, work.i, Smaller(n - work.i, cap))
RepsOf(s, l) ==
    Each([r \in 1 .. trial.slots |-> r], LAMBDA r :
         LET off == Cur[s].reps[r] IN
         IF Cur[s].lits > 0 /\ l <= Reaches(off, trial.probe)
         THEN <<Match(s, "rep", off, l, None, Moved(Cur[s].reps, r), RepPrefix(r) + GammaBits(l))>>
         ELSE <<>>)

RepStep ==
    /\ work.at = "rep"
    /\ work' = [work EXCEPT !.arr = Spread(LAMBDA l : Each(Slots, LAMBDA s : RepsOf(s, l))),
                            !.at = IF work.step = "seed" THEN "next" ELSE "near"]

(* Near-reps, after literals (near) and after a match (am): an offset of   *)
(* the front at its cheaper base; then offsets the front hides.            *)
NearMatch(s, off, l, r) ==
    LET a == Cur[s] IN
    Match(s, "near", off, l, r, Inserted(a.reps, off),
          NearBits(a.match, r, off, a.reps[r]) + GammaBits(l - 1))
Cheaper(a, off, r) == NearBits(a.match, r, off, a.reps[r]) < (IF a.match THEN 2 ELSE 1) + OffsetBits(off)

NearFront(s, l) ==
    LET a == Cur[s] IN
    Each(FrontAt(l), LAMBDA k :
         LET off   == Listed[k].offset
             bases == {r \in {1, 2} : a.reps[r] # off}
             Bits(r) == NearBits(a.match, r, off, a.reps[r])
         IN  IF bases = {} THEN <<>>
             ELSE LET r == CHOOSE r \in bases : \A q \in bases :
                               Bits(r) < Bits(q) \/ (Bits(r) = Bits(q) /\ r <= q)
                  IN  IF Cheaper(a, off, r) THEN <<NearMatch(s, off, l, r)>> ELSE <<>>)

NearDirect(s, l) ==
    LET a == Cur[s]
        Probed(r, off) ==
            IF /\ off >= 1 /\ off <= work.i /\ Cheaper(a, off, r)
               /\ Reaches(off, trial.probe) >= MIN_MATCH
               /\ l \in Relaxed(MIN_MATCH, Reaches(off, trial.probe))
            THEN <<NearMatch(s, off, l, r)>> ELSE <<>>
    IN  IF s > NEAR_PROBE_ARRIVALS THEN <<>>
        ELSE Each(<<1, 2>>, LAMBDA r : Each(<<1, -1>>, LAMBDA sign :
                 Each([d \in 1 .. trial.delta |-> d], LAMBDA d :
                     Probed(r, a.reps[r] + sign * d))))

NearOf(Legal(_), Offered(_, _)) ==
    Spread(LAMBDA l : Each(SelectSeq(Slots, LAMBDA s : Legal(Cur[s])), LAMBDA s : Offered(s, l)))
AfterLits(a) == Near /\ a.lits > 0
AfterMatch(a) == Am /\ a.lits = 0 /\ a.match

NearStep ==
    /\ work.at \in {"near", "nearer", "after", "afterer"}
    /\ \E arr \in {CASE work.at = "near" -> NearOf(AfterLits, NearFront)
                     [] work.at = "nearer" -> NearOf(AfterLits, NearDirect)
                     [] work.at = "after" -> NearOf(AfterMatch, NearFront)
                     [] OTHER -> NearOf(AfterMatch, NearDirect)} :
       work' = [work EXCEPT !.arr = arr,
                    !.at = [near |-> "nearer", nearer |-> "after",
                            after |-> "afterer", afterer |-> "next"][work.at]]

(* On to the next position, or to the end of the pass.                     *)
NextStep ==
    /\ work.at = "next"
    /\ work' = IF work.i + 1 < n THEN [work EXCEPT !.at = "literal", !.i = @ + 1]
               ELSE [work EXCEPT !.at = "end"]

-----------------------------------------------------------------------------
(* Parses.                                                                 *)

UnitAt(len, off, ri) == [len |-> len, off |-> off, ri |-> ri]
LiteralUnit == UnitAt(0, 0, None)

-----------------------------------------------------------------------------
(* eval_best_cost: the encoder's queue and connecting bits, replayed.  The *)
(* encoder looks an offset up in its own queue; `legal` says it can code   *)
(* every match, `twins` counts the reps whose offset it finds in the third *)
(* slot where the fourth, of a shorter code, holds it too.                 *)

Replayed == [next |-> 0, run |-> 0, reps |-> <<1, 1, 1, 1>>, prev |-> "start", bits |-> 0, legal |-> TRUE,
             twins |-> 0]

Flushed(s) ==
    IF s.run = 0 THEN s
    ELSE [s EXCEPT !.run = 0, !.prev = "literals",
              !.bits = @ + (IF s.prev = "match" THEN 1 ELSE 0) + GammaBits(s.run) + 8 * s.run]

ReplayMatch(run, p, unit) ==
    LET s    == Flushed(run)
        lits == s.prev = "literals"
        live == {r \in 1 .. trial.slots : s.reps[r] = unit.off}
        near == unit.ri # None /\ (IF lits THEN Near ELSE Am)
        rep  == ~near /\ lits /\ live # {}
        legal == IF rep THEN TRUE ELSE unit.len >= MIN_MATCH /\ (near => s.reps[unit.ri] # unit.off)
        bits == IF near THEN NearBits(~lits, unit.ri, unit.off, s.reps[unit.ri]) + GammaBits(unit.len - 1)
                ELSE IF rep THEN RepPrefix(Least(live)) + GammaBits(unit.len)
                ELSE NewPrefix(~lits) + OffsetBits(unit.off) + GammaBits(unit.len - 1)
    IN  [next |-> p + unit.len, run |-> 0, prev |-> "match",
         reps |-> IF rep THEN Moved(s.reps, Least(live)) ELSE Inserted(s.reps, unit.off),
         bits |-> IF legal THEN s.bits + bits ELSE s.bits,
         legal |-> s.legal /\ legal,
         twins |-> IF rep /\ Near /\ live = {3, 4} THEN s.twins + 1 ELSE s.twins]

Replay(best, upto) ==
    LET Take(s, p) ==
            IF p < s.next THEN s
            ELSE IF best[p].len = 0 THEN [s EXCEPT !.run = @ + 1]
            ELSE ReplayMatch(s, p, best[p])
    IN  Flushed(FoldLeft(Take, Replayed, [k \in 1 .. upto |-> k - 1]))

Predicted(best) == Replay(best, n).bits

-----------------------------------------------------------------------------
(* The reduction: what it knows of where it is is the literals since the   *)
(* last match, and the offset of that.                                     *)

ReduceFrom(best) ==
    [work EXCEPT !.step = "reduce", !.best = best, !.i = 1, !.lits = 1, !.rep = 1,
                 !.did = FALSE, !.passes = 0]

LitSize(l) == IF l = 0 THEN 0 ELSE GammaBits(l) + 1
NewSize(off, len) == OffsetBits(off) + GammaBits(len - 1)
RepSize(len) == GammaBits(len)
MatchSize(isRep, off, len) == IF isRep THEN RepSize(len) ELSE NewSize(off, len)

NextMatch(best, p) == Least({q \in p .. n : q = n \/ best[q].len # 0})

Shortened(best, p, len, off) ==
    [q \in DOMAIN best |-> IF q = p /\ len > 0 THEN UnitAt(len, off, None)
                           ELSE IF q \in p + len .. p + best[p].len - 1 THEN LiteralUnit
                           ELSE best[q]]

(* R1: the literal before a match joins it.                                *)
MergeSaves(i) ==
    LET m == work.best[i + 1] IN
    /\ m.len >= MIN_MATCH /\ m.off # 0 /\ i >= m.off /\ i + 1 + m.len <= n
    /\ work.lits # 0 \/ m.off # work.rep
    /\ Shared(i - m.off, i, m.len + 1) = m.len + 1
    /\ LitSize(work.lits) + MatchSize(work.lits # 0 /\ m.off = work.rep, m.off, m.len + 1)
           <= LitSize(work.lits + 1) + 8 + MatchSize(m.off = work.rep, m.off, m.len)

Mergeable(i) == work.best[i].len = 0 /\ i + 1 < n /\ MergeSaves(i)

MergeStep ==
    LET m == work.best[work.i + 1] IN
    /\ Mergeable(work.i)
    /\ work' = [work EXCEPT !.did = TRUE,
           !.best = [@ EXCEPT ![work.i] = UnitAt(m.len + 1, m.off, None), ![work.i + 1] = LiteralUnit]]

(* R2: a part of a match that the last offset gives as well.               *)
BackwardRep(best, i, lits, next) ==
    LET m    == best[i]
        part == Shared(i - work.rep, i - m.off, m.len)
        saves == RepSize(part) + 8 * (m.len - part) + LitSize(lits + m.len - part)
                 < NewSize(m.off, m.len) + LitSize(lits)
    IN  IF /\ work.lits # 0 /\ work.rep # 0 /\ m.off # work.rep
           /\ next.off # m.off \/ OffsetBits(m.off) > OffsetBits(next.off)
           /\ i >= work.rep /\ part >= 1 /\ saves
        THEN Shortened(best, i, part, work.rep) ELSE best

(* R3: the next match's offset, where it serves as well: that match then   *)
(* is a rep.                                                               *)
ForwardRep(best, i, lits, next) ==
    LET m    == best[i]
        part == Shared(i - next.off, i - m.off, m.len)
        saves == RepSize(part) + LitSize(lits + m.len - part) + 8 * (m.len - part)
                 < NewSize(m.off, m.len) + LitSize(lits)
    IN  IF /\ next.off \notin {0, m.off, work.rep} /\ m.off # work.rep /\ lits # 0
           /\ i >= next.off
           /\ part = m.len \/ (part >= MIN_MATCH /\ saves)
        THEN Shortened(best, i, part, next.off) ELSE best

(* R4: a short match costs more than its bytes.                            *)
Dissolves(best, i, lits, next) ==
    LET m == best[i] IN
    /\ m.len \in MIN_MATCH .. 8
    /\ LitSize(work.lits) + MatchSize(m.off = work.rep /\ work.lits # 0, m.off, m.len)
           + LitSize(lits) + 1 + MatchSize(next.off = m.off /\ lits # 0, next.off, next.len)
       >= 8 * m.len + LitSize(work.lits + m.len + lits)
              + MatchSize(next.off = work.rep, next.off, next.len)

(* R5: a match and the one right after it are one.                         *)
Joins(best, i) ==
    LET m     == best[i]
        j     == i + m.len
        later == best[j]
        q     == NextMatch(best, j + later.len)
        lits  == q - (j + later.len)
        After(off) == IF q = n THEN 0 ELSE MatchSize(best[q].off = off /\ lits # 0, best[q].off, best[q].len)
        isRep == m.off = work.rep /\ work.lits # 0
    IN  /\ m.len >= MIN_MATCH /\ j < n /\ later.off # 0 /\ later.len >= MIN_MATCH
        /\ j >= later.off /\ j + later.len <= n
        /\ Shared(j - m.off, j - later.off, later.len) = later.len
        /\ q < n => (best[q].off = m.off /\ lits # 0) \/ best[q].len >= MIN_MATCH
        /\ MatchSize(isRep, m.off, m.len + later.len) + After(m.off)
               <= MatchSize(isRep, m.off, m.len) + 1 + NewSize(later.off, later.len) + After(later.off)

(* R6: a match of two bytes whose offset only serves a rep of one byte.    *)
(* Where it applies, the last offset and the literals are forgotten.       *)
Strays(best, i) ==
    LET m == best[i]
        p == NextMatch(best, i + MIN_MATCH)
        q == NextMatch(best, p + 1)
        lits == p - (i + MIN_MATCH)
    IN  /\ work.lits # 0 /\ work.rep # 0 /\ m.off # work.rep /\ m.len = MIN_MATCH /\ i + MIN_MATCH < n
        /\ p < n /\ lits # 0 /\ best[p].len = 1 /\ best[p].off = m.off
        /\ q < n /\ q > p + 1 /\ best[q].len >= MIN_MATCH /\ best[q].off # best[p].off
        /\ LitSize(work.lits) + 1 + NewSize(m.off, MIN_MATCH) + LitSize(lits) + 8 * lits + 1 + RepSize(1)
           >= LitSize(work.lits + MIN_MATCH + lits + 1) + 8 * (MIN_MATCH + lits + 1)

MatchStep ==
    LET i    == work.i
        m    == work.best[i]
        q    == NextMatch(work.best, i + m.len)
        lits == q - (i + m.len)
        next == work.best[q]
        paired == q < n /\ next.len >= MIN_MATCH
        second == IF paired THEN BackwardRep(work.best, i, lits, next) ELSE work.best
        third  == IF paired THEN ForwardRep(second, i, lits, next) ELSE second
    IN  /\ m.len >= MIN_MATCH
        /\ IF paired /\ Dissolves(third, i, lits, next)
           THEN work' = [work EXCEPT !.best = Shortened(third, i, 0, 0), !.did = TRUE]
           ELSE IF Joins(third, i)
           THEN work' = [work EXCEPT !.did = TRUE,
                    !.best = [third EXCEPT ![i] = UnitAt(@.len + third[i + @.len].len, @.off, None),
                                           ![i + third[i].len] = LiteralUnit]]
           ELSE LET stray == Strays(third, i)
                    p     == NextMatch(third, i + MIN_MATCH)
                    last  == IF stray THEN [Shortened(third, i, 0, 0) EXCEPT ![p] = LiteralUnit] ELSE third
                IN  work' = [work EXCEPT !.best = last, !.did = @ \/ last # work.best,
                                 !.rep = last[i].off, !.i = @ + last[i].len, !.lits = 0]

(* R7: a rep of one byte that is none any more, or does not pay.           *)
RepByteStep ==
    LET i    == work.i
        q    == NextMatch(work.best, i + 1)
        lits == q - (i + 1)
        drops == /\ work.lits # 0
                 /\ \/ work.rep # work.best[i].off /\ (q < n \/ ~work.did)
                    \/ /\ lits # 0
                       /\ LitSize(work.lits) + 2 + LitSize(lits) >= LitSize(work.lits + 1 + lits) + 8
    IN  /\ work.best[i].len = 1
        /\ work' = IF drops THEN [work EXCEPT !.best[i] = LiteralUnit, !.did = TRUE]
                   ELSE [work EXCEPT !.lits = 0, !.i = @ + 1]

PassLiteral ==
    /\ work.best[work.i].len = 0 /\ ~Mergeable(work.i)
    /\ work' = [work EXCEPT !.lits = @ + 1, !.i = @ + 1]

(* Again until nothing changes, thirty times at most.                      *)
MaxPasses == 30
Again == work.did /\ work.passes + 1 < MaxPasses
PassEnd ==
    /\ work.i >= n /\ Again
    /\ work' = [work EXCEPT !.i = 1, !.lits = 1, !.rep = 1, !.did = FALSE, !.passes = @ + 1]

ReduceStep ==
    /\ work.step = "reduce"
    /\ IF work.i < n THEN MergeStep \/ MatchStep \/ RepByteStep \/ PassLiteral ELSE PassEnd
ReduceDone == work.step = "reduce" /\ work.i >= n /\ ~Again

-----------------------------------------------------------------------------
(* The passes.                                                             *)

Finder == INSTANCE MatchFinder

ZX_FWD_MAX_DEPTH == 9
ZX_SUPP_OFFSETS == 64
ZX_SEED_ROUNDS == 2
ZX_SEED_MIN_LIT_PCT == 3

Offered(off, length) == [offset |-> off, length |-> length]
HasOffset(list, off) == \E k \in 1 .. Len(list) : list[k].offset = off
Nothing == [p \in 0 .. n - 1 |-> <<>>]

(* The longest candidates of a position, in the order of their lengths.    *)
Capped(list) ==
    IF Len(list) <= trial.room THEN list
    ELSE LET order == Ordered(DOMAIN list, LAMBDA j, k :
                          list[j].length > list[k].length \/ (list[j].length = list[k].length /\ j < k))
         IN  [k \in 1 .. trial.room |-> list[order[k]]]

ZxStart ==
    [step |-> IF trial.open THEN "open" ELSE "front", at |-> "literal", pass |-> IF trial.complete THEN "complete" ELSE "first",
     i |-> 0, arr |-> Alone, front |-> Nothing, extra |-> Nothing, forward |-> Nothing,
     visited |-> [p \in 0 .. n - 1 |-> 0], raw |-> [p \in 0 .. n - 1 |-> LiteralUnit], rawCost |-> 0, prevRaw |-> <<>>, used |-> <<>>,
     best |-> <<>>, lits |-> 0, rep |-> 0, did |-> FALSE, passes |-> 0,
     kept |-> <<>>, keptCost |-> 0, complete |-> <<>>, completeCost |-> 0, rounds |-> 0]

Pass(step, extra) ==
    [work EXCEPT !.step = step, !.at = "literal", !.i = 0, !.arr = Alone, !.extra = extra]

-----------------------------------------------------------------------------
(* build_complete_extra: every other offset, the longest first.            *)
CompleteExtra(front) ==
    [p \in 0 .. n - 1 |->
        LET most  == n - p
            other == {d \in 1 .. p : Shared(p - d, p, most) >= MIN_MATCH /\ ~HasOffset(front[p], d)}
        IN  Capped([k \in 1 .. Cardinality(other) |->
                       LET d == Ordered(other, <)[k] IN Offered(d, Shared(p - d, p, most))])]

FrontStep ==
    /\ work.step = "front"
    /\ \E front \in {[p \in 0 .. n - 1 |->
                         Ordered(Finder!ParetoFront(p), LAMBDA a, b : a.length < b.length)]} :
       work' = [(IF work.pass = "complete" THEN Pass("dp", CompleteExtra(front))
                 ELSE Pass(IF trial.seeded /\ ~trial.fast THEN "seed" ELSE "dp", Nothing))
                EXCEPT !.front = front]

-----------------------------------------------------------------------------
(* zx_insert_forward_match: an offset goes back to where the arrivals of a *)
(* position had their last offset from, and on from there.  `visited`      *)
(* keeps the last offset a position has been tried with.                   *)

RunAt(p) == Least({l \in 1 .. n - p : p + l = n \/ Byte(p + l) # Byte(p)})

RECURSIVE Insert(_, _, _, _)
Insert(state, i, off, depth) ==
    LET Into(s, a) ==
            LET p     == a.repPos
                tried == [s EXCEPT !.visited[p] = off]
                known == HasOffset(work.front[p], off) \/ HasOffset(s.extra[p], off)
                most  == Smaller(n - p, trial.seedProbe)
                equal == Smaller(RunAt(p - off), RunAt(p))
                listed == {l \in {0} \cup {c.length : c \in {c \in ToSet(work.front[p]) \cup
                              (IF HasOffset(work.front[p], off) THEN {} ELSE ToSet(s.extra[p])) : c.offset = off}} : TRUE}
                least == Smaller(Larger(equal, Greatest(listed)), most)
                l     == least + Shared(p - off + least, p + least, most - least)
            IN  IF a.lits = 0 \/ a.reps[1] = off \/ p = 0 THEN s
                ELSE IF s.visited[p] = off THEN s
                ELSE IF p < off THEN tried
                ELSE IF Byte(p - off) # Byte(p) THEN tried
                ELSE IF known
                THEN [tried EXCEPT !.extra[p] = [k \in DOMAIN @ |->
                         IF @[k].offset = off THEN Offered(off, Larger(@[k].length, l)) ELSE @[k]]]
                ELSE IF l < MIN_MATCH THEN tried
                ELSE LET put == [tried EXCEPT !.extra[p] = Append(@, Offered(off, l))]
                     IN  IF depth < ZX_FWD_MAX_DEPTH THEN Insert(put, p, off, depth + 1) ELSE put
    IN  FoldLeft(Into, state, work.arr[i])

(* Offsets of the same two bytes that the front hides, the nearest first,  *)
(* join the candidates here; they and the front's go back.                 *)
Supplements(i) ==
    LET hidden == {d \in 1 .. i : i + 1 < n /\ Shared(i - d, i, 2) = 2 /\ ~HasOffset(work.front[i], d)}
        order  == Ordered(hidden, <)
    IN  SubSeq(order, 1, Smaller(ZX_SUPP_OFFSETS, Len(order)))

InsertStep ==
    LET i == work.i
        Supplement(s, d) ==
            LET l == Shared(i - d, i, Smaller(n - i, trial.seedProbe)) IN
            Insert(IF l >= MIN_MATCH /\ ~HasOffset(s.extra[i], d)
                   THEN [s EXCEPT !.extra[i] = Append(@, Offered(d, l))] ELSE s, i, d, 0)
        FromFront(s, c) == Insert(s, i, c.offset, 0)
    IN  /\ work.step = "seed" /\ work.at = "insert"
        /\ \E s \in {FoldLeft(FromFront,
                         FoldLeft(Supplement, [extra |-> work.extra, visited |-> work.visited], Supplements(i)),
                         work.front[i])} :
           work' = [work EXCEPT !.at = "explicit", !.extra = s.extra, !.visited = s.visited]

SeedDone ==
    /\ work.step = "seed" /\ work.at = "end"
    /\ \E forward \in {[p \in 0 .. n - 1 |-> Capped(work.extra[p])]} :
       work' = [Pass("dp", forward) EXCEPT !.forward = forward]

-----------------------------------------------------------------------------
(* The way back from the best arrival at the end, and what it costs.       *)

ChainBack(p, s) ==
    LET At[k \in 0 .. n] ==
            IF k = 0 THEN <<p, s>>
            ELSE IF At[k - 1][1] = 0 THEN At[k - 1]
            ELSE LET a == work.arr[At[k - 1][1]][At[k - 1][2]] IN <<a.pos, a.slot>>
        steps == {work.arr[At[k][1]][At[k][2]] : k \in {k \in 0 .. n : At[k][1] > 0}}
    IN  [q \in 0 .. n - 1 |->
            IF \E a \in steps : a.pos = q /\ a.kind # "literal"
            THEN LET a == CHOOSE a \in steps : a.pos = q IN UnitAt(a.len, a.off, a.ri)
            ELSE LiteralUnit]

BacktrackStep ==
    /\ work.step = "dp" /\ work.at = "end"
    /\ \E raw \in {ChainBack(n, 1)} :
       work' = [work EXCEPT !.step = "parsed", !.raw = raw, !.rawCost = Predicted(raw)]

(* A round that parses as before, near-reps aside, is the last.            *)
Unchanged == /\ work.pass = "round"
             /\ \A p \in 0 .. n - 1 : work.raw[p].len = work.prevRaw[p].len
                                      /\ work.raw[p].off = work.prevRaw[p].off

Reduces == trial.slots = 1 /\ ~trial.fast /\ work.pass # "complete"
ParsedStep ==
    /\ work.step = "parsed"
    /\ ~Unchanged
    /\ work' = IF Reduces THEN ReduceFrom(work.raw)
               ELSE [work EXCEPT !.step = "finish", !.best = work.raw]

OpenStep ==
    /\ work.step = "open"
    /\ \/ work.i < n /\ work' = [work EXCEPT !.i = @ + 1]
       \/ \E off \in 1 .. work.i, len \in 1 .. n - work.i :
              /\ Shared(work.i - off, work.i, len) = len
              /\ work' = [work EXCEPT !.i = @ + len, !.raw[work.i] = UnitAt(len, off, None)]
              /\ Replay(work'.raw, work'.i).legal
       \/ work.i = n /\ work' = [work EXCEPT !.step = "parsed", !.rawCost = Predicted(work.raw)]

ReducedStep == ReduceDone /\ work' = [work EXCEPT !.step = "finish"]

(* The cheaper of a parse and its reduction; of these, the cheapest.       *)
FinishStep ==
    LET cost    == Predicted(work.best)
        reduced == cost <= work.rawCost
        parse   == IF reduced THEN work.best ELSE work.raw
        price   == IF reduced THEN cost ELSE work.rawCost
    IN  /\ work.step = "finish"
        /\ IF work.pass = "complete"
           THEN work' = [Pass(IF trial.seeded /\ ~trial.fast THEN "seed" ELSE "dp", Nothing)
                         EXCEPT !.pass = "first", !.complete = parse, !.completeCost = price]
           ELSE work' = [work EXCEPT
                    !.step = "round", !.prevRaw = work.raw,
                    !.kept = IF work.pass = "first" \/ price < work.keptCost THEN parse ELSE @,
                    !.keptCost = IF work.pass = "first" \/ price < @ THEN price ELSE @]

-----------------------------------------------------------------------------
(* The rounds.                                                             *)

MatchStarts(best) ==
    LET Starts[p \in 0 .. n] ==
            IF p >= n THEN {}
            ELSE IF best[p].len = 0 THEN Starts[p + 1] ELSE {p} \cup Starts[p + best[p].len]
    IN  Starts[0]
LiteralBytes(best) == n - FoldFunctionOnSet(+, 0, [p \in DOMAIN best |-> best[p].len], MatchStarts(best))

(* collect_used_offsets: those used twice, the most frequent first.        *)
UsedOffsets(best) ==
    LET Count(off) == Cardinality({p \in MatchStarts(best) : best[p].off = off})
    IN  Ordered({off \in {best[p].off : p \in MatchStarts(best)} : Count(off) >= 2},
                LAMBDA a, b : Count(a) > Count(b) \/ (Count(a) = Count(b) /\ a < b))

(* build_extra_candidates                                                  *)
UsedExtra(used) ==
    [p \in 0 .. n - 1 |->
        LET most == Smaller(n - p, trial.seedProbe)
            here == SelectSeq(used, LAMBDA off : off <= p /\ Shared(p - off, p, most) >= MIN_MATCH)
        IN  Capped([k \in 1 .. Len(here) |-> Offered(here[k], Shared(p - here[k], p, most))])]

(* merge_extra                                                             *)
Merged(a, b) ==
    LET Into(out, c) ==
            IF HasOffset(out, c.offset)
            THEN [k \in DOMAIN out |-> IF out[k].offset = c.offset
                                       THEN Offered(c.offset, Larger(c.length, out[k].length)) ELSE out[k]]
            ELSE Append(out, c)
    IN  [p \in 0 .. n - 1 |-> IF b[p] = <<>> THEN a[p] ELSE Capped(FoldLeft(Into, a[p], b[p]))]

Repetitive == LiteralBytes(work.prevRaw) * 100 < n * ZX_SEED_MIN_LIT_PCT

(* Too repetitive is asked of the first parse only.                        *)
MayRound ==
    /\ trial.seeded /\ ~trial.fast /\ work.rounds < ZX_SEED_ROUNDS
    /\ work.pass = "first" => ~Repetitive
    /\ UsedOffsets(work.prevRaw) \notin {<<>>, work.used}

RoundStep ==
    /\ work.step = "round" /\ MayRound
    /\ \E used \in {UsedOffsets(work.prevRaw)} :
       work' = [Pass("dp", Merged(UsedExtra(used), work.forward))
                EXCEPT !.pass = "round", !.rounds = @ + 1, !.used = used]

(* The parse of every offset is taken unless the other is cheaper.         *)
Ended == \/ work.step = "round" /\ ~MayRound
         \/ work.step = "parsed" /\ Unchanged
EndStep ==
    /\ Ended
    /\ work' = [work EXCEPT
           !.step = "done",
           !.kept = IF trial.complete /\ work.completeCost <= work.keptCost THEN work.complete ELSE @,
           !.keptCost = IF trial.complete /\ work.completeCost <= @ THEN work.completeCost ELSE @]

BeamStep ==
    /\ work.step \in {"seed", "dp"}
    /\ LiteralStep \/ ExplicitStep \/ ExtraStep \/ RepStep \/ NearStep \/ NextStep

ZxNext ==
    /\ Searching("zx")
    /\ \/ /\ \/ OpenStep \/ FrontStep \/ BeamStep \/ InsertStep \/ SeedDone \/ BacktrackStep \/ ParsedStep
             \/ ReduceStep \/ ReducedStep \/ FinishStep \/ RoundStep \/ EndStep
          /\ Proceeds
       \/ work.step = "done" /\ Finished

-----------------------------------------------------------------------------
(* The commands give the input back, and the encoder can code every one.   *)
Repeats(best) ==
    \A p \in MatchStarts(best) :
        /\ best[p].off \in 1 .. p /\ p + best[p].len <= n
        /\ Shared(p - best[p].off, p, best[p].len) = best[p].len

ZxCovers == Repeats(work.kept) /\ Replay(work.kept, n).legal

(* At the end of a pass an arrival says what its chain costs: its price is *)
(* the encoder's, or more where the encoder finds a rep the search was     *)
(* charged an offset for; the best one's is exact.  But the search takes   *)
(* the fourth slot, a bit cheaper, for an offset that the encoder finds in *)
(* the third.                                                              *)
ZxStructured ==
    /\ work.step = "dp" /\ work.at = "end" =>
           /\ \A p \in 1 .. n : \A s \in 1 .. Len(work.arr[p]) :
                  \E chain \in {Replay(ChainBack(p, s), p)} :
                      chain.legal /\ chain.bits - chain.twins <= work.arr[p][s].cost
           /\ trial.probe >= n =>
                  \E best \in {Replay(ChainBack(n, 1), n)} : best.bits - best.twins = work.arr[n][1].cost
    /\ work.step = "finish" => Repeats(work.best) /\ Replay(work.best, n).legal
=============================================================================
