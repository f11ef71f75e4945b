--------------------------- MODULE IntervalFinder ---------------------------
(***************************************************************************)
(* The match finders of lzsa2.rs and apultra.rs: the LCP intervals of the  *)
(* suffix array as a tree of references, built with a stack; a query walks *)
(* from its position towards the root, leaves its position behind as the   *)
(* latest visitor of every interval on the way, and so finds those of the  *)
(* queries before it.  Queries come in order, once for each position.      *)
(*                                                                         *)
(* A reference is a number: an interval, above it the (tagged) length its  *)
(* suffixes share; or, with the visited flag, a position.  The comparisons *)
(* of references are the code's, on whole numbers.                         *)
(***************************************************************************)
EXTENDS Search

LcpMax == trial.lcpMax      \* LCP_MAX
MaxOffset == trial.window   \* MAX_OFFSET
MaxMatches == trial.room    \* nmatches, NMATCHES_PER_INDEX
MinMatch == IF trial.of = "lzsa2" THEN 2 ELSE 1

TAGS == 16
POS == 64
VISITED == 2 * TAGS * (LcpMax + 1) * POS

Place(ref) == ref % POS
TaggedLcp(ref) == (ref % VISITED) \div POS
LcpOf(ref) == TaggedLcp(ref) \div TAGS
Visitor(offset) == VISITED + offset

(* index_tag: the top bits of a product with the golden ratio.             *)
IndexTag(i) == ((i * 618034) % 1000000) \div 62500

-----------------------------------------------------------------------------
(* build: suffix array, PLCP, the tree.                                    *)

(* build_suffix_array: prefix doubling.  A round ranks the suffixes by     *)
(* their first 2k bytes, until all ranks differ.                           *)
Second(i) == IF i + work.k < n THEN work.rank[i + work.k] ELSE -1
Precedes(i, j) == work.rank[i] < work.rank[j] \/ (work.rank[i] = work.rank[j] /\ Second(i) < Second(j))

DoubleStep ==
    LET rank == [i \in 0 .. n - 1 |->
                    Cardinality({<<work.rank[j], Second(j)>> : j \in {j \in 0 .. n - 1 : Precedes(j, i)}})]
        distinct == \A i, j \in 0 .. n - 1 : i # j => Precedes(i, j) \/ Precedes(j, i)
    IN  /\ work.step = "sort"
        /\ work' = [work EXCEPT !.rank = rank, !.k = 2 * @,
                                !.step = IF distinct \/ 2 * work.k >= n THEN "sorted" ELSE "sort"]

(* Karkkainen's PLCP: in the order of the text, each at least one less     *)
(* than the last.                                                          *)
Plcp(sa) ==
    LET Phi(i) == LET r == CHOOSE r \in 1 .. n : sa[r] = i
                  IN  IF r = 1 THEN None ELSE sa[r - 1]
        Enter(walk, i) ==
            IF Phi(i) = None THEN [walk EXCEPT !.length = 0]
            ELSE LET most == IF i > Phi(i) THEN n - i ELSE n - Phi(i)
                     l == walk.length + Shared(i + walk.length, Phi(i) + walk.length, most - walk.length)
                 IN  [length |-> Larger(l - 1, 0), plcp |-> [walk.plcp EXCEPT ![i] = l]]
    IN  FoldLeft(Enter, [length |-> 0, plcp |-> [i \in 0 .. n - 1 |-> 0]],
                 [i \in 1 .. n |-> i - 1]).plcp

(* The LCP of a place in the array, tagged; too short a one counts as 0.   *)
Tagged(i, plcp) ==
    LET l == Smaller(plcp[i], LcpMax) IN
    IF l < MinMatch THEN 0 ELSE l * TAGS + IndexTag(i)

IntervalStart ==
    [step |-> "sort", k |-> 1, rank |-> [i \in 0 .. n - 1 |-> Byte(i)],
     r |-> 1, i |-> 0, sa |-> <<>>, plcp |-> <<>>, stack |-> <<0>>, next |-> 1,
     intervals |-> [k \in 0 .. n |-> 0], pos |-> [i \in 0 .. n - 1 |-> 0],
     ref |-> 0, at |-> 0, found |-> <<>>, matches |-> <<>>]

SortedStep ==
    /\ work.step = "sorted"
    /\ \E sa \in {Ordered(0 .. n - 1, LAMBDA i, j : work.rank[i] < work.rank[j])} :
       work' = [work EXCEPT !.step = "build", !.sa = sa, !.plcp = Plcp(sa)]

(* One place of the array: deeper intervals close, each into the one below *)
(* it, and perhaps a new one opens.                                        *)
TreeStep ==
    /\ work.step = "build" /\ work.r < n
    /\ LET here   == Tagged(work.sa[work.r + 1], work.plcp)
           stack  == work.stack
           d      == Greatest({k \in 1 .. Len(stack) : TaggedLcp(stack[k]) <= here})
           opens  == TaggedLcp(stack[d]) < here
           opened == IF opens THEN Append(SubSeq(stack, 1, d), here * POS + work.next)
                     ELSE SubSeq(stack, 1, d)
       IN  work' = [work EXCEPT
               !.r = @ + 1, !.stack = opened,
               !.next = IF opens THEN @ + 1 ELSE @,
               !.pos[work.sa[work.r]] = IF d = Len(stack) THEN opened[Len(opened)]
                                        ELSE stack[Len(stack)],
               !.intervals = [k \in 0 .. n |->
                   IF \E c \in d + 1 .. Len(stack) : Place(stack[c]) = k
                   THEN LET c == CHOOSE c \in d + 1 .. Len(stack) : Place(stack[c]) = k
                        IN  IF c = d + 1 THEN opened[Len(opened)] ELSE stack[c - 1]
                   ELSE @[k]]]

TreeDone ==
    /\ work.step = "build" /\ work.r = n
    /\ LET stack == work.stack IN
       work' = [work EXCEPT
           !.step = "query", !.stack = <<0>>,
           !.pos[work.sa[n]] = stack[Len(stack)],
           !.intervals = [k \in 0 .. n |->
               IF \E c \in 2 .. Len(stack) : Place(stack[c]) = k
               THEN stack[(CHOOSE c \in 2 .. Len(stack) : Place(stack[c]) = k) - 1] ELSE @[k]]]

-----------------------------------------------------------------------------
(* find_matches_at, what it writes out.  lzsa2 writes at most four kinds   *)
(* of match for an interval; apultra (of a block that is all there is)     *)
(* also those on the way, if they are near enough to the last to be worth  *)
(* it, and has a match one nearer and one shorter than the last ride on    *)
(* that as its depth.                                                      *)

Match(length, offset, far) == [length |-> length, offset |-> offset, far |-> far, depth |-> 0]
LastOffset(found) == IF found = <<>> THEN 0 ELSE found[Len(found)].offset - found[Len(found)].depth
LastLength(found) == IF found = <<>> THEN 0 ELSE found[Len(found)].length - found[Len(found)].depth

Rides(found, length, offset) ==
    /\ trial.of = "apultra" /\ LastLength(found) > 2 /\ found[Len(found)].depth < LcpMax
    /\ offset = LastOffset(found) - 1 /\ length = LastLength(found) - 1

Wanted(kind, found, length, offset) ==
    CASE kind = "first" -> TRUE
      [] kind = "main" -> offset # LastOffset(found)
      [] trial.of = "apultra" ->
            /\ LastOffset(found) - offset >= trial.gap
            /\ kind = "passing" => length >= 3 \/ (length >= 2 /\ Len(found) < MaxMatches - 1)
            /\ kind = "next" => length >= 2
      [] OTHER -> kind = "aside" \/ (kind = "next" /\ length > 2)

Write(kind, found, at) ==
    LET length == LcpOf(work.ref)
        offset == work.i - at
    IN  IF ~(Len(found) < MaxMatches /\ offset <= MaxOffset /\ Wanted(kind, found, length, offset))
        THEN found
        ELSE IF kind # "first" /\ Rides(found, length, offset)
        THEN [found EXCEPT ![Len(found)].depth = @ + 1, ![Len(found)].far = (kind # "main")]
        ELSE Append(found, Match(length, offset, kind \notin {"first", "main"}))

-----------------------------------------------------------------------------
(* find_matches_at, the walk.                                              *)

OpenStep ==
    /\ work.step = "query" /\ work.i < n
    /\ work' = [work EXCEPT !.step = "ascend", !.ref = work.pos[work.i], !.pos[work.i] = 0,
                            !.found = <<>>]

Leave(found) == [work EXCEPT !.step = "query", !.i = @ + 1, !.matches = Append(@, found)]

(* Up to an interval somebody has visited, or to the root.                 *)
AscendStep ==
    LET super == work.intervals[Place(work.ref)]
        marked == [work.intervals EXCEPT ![Place(work.ref)] = Visitor(work.i)]
    IN  /\ work.step = "ascend"
        /\ \/ /\ TaggedLcp(super) # 0
              /\ work' = [work EXCEPT !.intervals = marked, !.ref = super]
           \/ /\ super = 0
              /\ work' = [Leave(<<>>) EXCEPT !.intervals = IF work.ref # 0 THEN marked ELSE @]
           \/ /\ TaggedLcp(super) = 0 /\ super # 0
              /\ work' = [work EXCEPT !.step = "visit", !.at = super % VISITED,
                                      !.found = Write("first", @, super % VISITED)]

(* Past positions that were visited from deeper inside the interval.       *)
Latest(at) == work.intervals[Place(work.pos[at])] % VISITED
Deeper(at) == work.pos[at] > work.ref

VisitStep ==
    LET aside == IF Deeper(work.at) THEN Latest(work.at) ELSE work.at
        Passed[k \in 0 .. n] ==
            IF k = 0 THEN <<aside>>
            ELSE LET path == Passed[k - 1] IN
                 IF Deeper(path[Len(path)]) THEN Append(path, Latest(path[Len(path)])) ELSE path
        path  == Passed[n]
        last  == path[Len(path)]
        super == work.pos[last]
        first == IF Deeper(work.at) THEN Write("aside", work.found, aside) ELSE work.found
        passing == IF trial.of = "lzsa2" THEN first
                   ELSE FoldLeft(LAMBDA found, k : Write("passing", found, path[k]), first,
                                 [k \in 1 .. Len(path) - 1 |-> k + 1])
        found == Write("main", passing, last)
        marked == [work.intervals EXCEPT ![Place(work.ref)] = Visitor(work.i)]
        left  == [work.pos EXCEPT ![last] = work.ref]
        at    == marked[Place(super)] % VISITED
    IN  /\ work.step = "visit"
        /\ \/ /\ super = 0
              /\ work' = [Leave(found) EXCEPT !.intervals = marked, !.pos = left]
           \/ /\ super # 0
              /\ work' = [work EXCEPT !.step = "next", !.intervals = marked, !.pos = left,
                                      !.found = found, !.ref = super, !.at = at]

NextStep ==
    /\ work.step = "next"
    /\ work' = [work EXCEPT !.step = "visit", !.found = Write("next", @, work.at)]

-----------------------------------------------------------------------------
(* enrich_pareto (lzsa2): the nearest offset of every length goes into the *)
(* room a position has left, the longest first, unless the offset is there *)
(* already.  With `full`, every offset goes in.                            *)

Nearest(i) ==
    LET most == Smaller(LcpMax, n - i)
        Reach(d) == Shared(i - d, i, most)
        lengths == {l \in MinMatch .. most : \E d \in 1 .. i : Reach(d) >= l}
    IN  [l \in lengths |-> Least({d \in 1 .. i : Reach(d) >= l})]

Entries(i) ==
    LET near == Nearest(i)
        most == Smaller(LcpMax, n - i)
    IN  IF trial.full
        THEN {<<Shared(i - d, i, most), d>> : d \in {d \in 1 .. i : Shared(i - d, i, most) >= MinMatch}}
        ELSE {<<l, near[l]>> : l \in {l \in DOMAIN near : l + 1 \notin DOMAIN near \/ near[l + 1] # near[l]}}

Enriched(i, found) ==
    FoldLeft(LAMBDA out, e :
                 IF Len(out) >= MaxMatches \/ \E k \in 1 .. Len(out) : out[k].offset = e[2]
                 THEN out ELSE Append(out, Match(e[1], e[2], TRUE)),
             found,
             Ordered(Entries(i), LAMBDA a, b : b[1] < a[1] \/ (a[1] = b[1] /\ a[2] < b[2])))

EnrichStep ==
    /\ work.step = "query" /\ work.i = n
    /\ work' = [work EXCEPT
           !.step = "done",
           !.matches = IF trial.of = "lzsa2"
                       THEN [k \in 1 .. n |-> IF k = 1 THEN @[k] ELSE Enriched(k - 1, @[k])]
                       ELSE @]

IntervalNext ==
    /\ Searching(trial.of) /\ trial.of \in {"lzsa2", "apultra"}
    /\ \/ /\ \/ DoubleStep \/ SortedStep \/ TreeStep \/ TreeDone \/ OpenStep \/ AscendStep \/ VisitStep \/ NextStep
             \/ EnrichStep
          /\ Proceeds
       \/ work.step = "done" /\ Finished

-----------------------------------------------------------------------------
(* Every match a position was given is one: so are those that ride on it.  *)
IntervalCovers ==
    \A i \in 0 .. Len(work.matches) - 1 :
        \A k \in 1 .. Len(work.matches[i + 1]) :
            LET m == work.matches[i + 1][k] IN
            \A d \in 0 .. m.depth :
                /\ m.offset - d \in 1 .. i
                /\ Shared(i - (m.offset - d), i, m.length - d) = m.length - d

(* With room enough, the nearest source of the longest match is among them;*)
(* after enrich_pareto, the nearest source of every length is, with at     *)
(* least that length.                                                      *)
Has(i, l, d) == \E k \in 1 .. Len(work.matches[i + 1]) :
    LET m == work.matches[i + 1][k] IN
    \E c \in 0 .. m.depth : m.offset - c = d /\ m.length - c >= l

IntervalOptimal ==
    \A i \in 0 .. n - 1 :
        LET near == Nearest(i)
            lengths == IF trial.of = "lzsa2" THEN DOMAIN near
                       ELSE IF near = <<>> THEN {} ELSE {Greatest(DOMAIN near)}
        IN  \A l \in lengths : near[l] <= MaxOffset => Has(i, l, near[l])
=============================================================================
