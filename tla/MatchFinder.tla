---------------------------- MODULE MatchFinder ----------------------------
(***************************************************************************)
(* matchfinder.rs: three ways to the candidates of every position, in the  *)
(* order of their lengths, each at the smallest offset that reaches it:    *)
(* hash chains (find_matches), a scan of every offset                      *)
(* (find_matches_exact), and a sweep over the LCP intervals of the suffix  *)
(* array, from the root down (find_matches_fast).                          *)
(***************************************************************************)
EXTENDS Search

LongestAt(i) == Smaller(trial.longest, n - i)

Candidate(offset, length) == [offset |-> offset, length |-> length]

-----------------------------------------------------------------------------
(* find_matches: hash chains, one position a step.                         *)

(* hash3, with collisions: here the bytes' sum, modulo a few buckets.      *)
Hash3(i) == (Byte(i) + Byte(i + 1) + Byte(i + 2)) % 3
Hash2(i) == <<Byte(i), Byte(i + 1)>>

ChainStart ==
    [finder |-> "chain", i |-> 0, cands |-> <<>>,
     head |-> [h \in 0 .. 2 |-> None], prev |-> <<>>,
     head2 |-> [h \in {Hash2(i) : i \in 0 .. n - 2} |-> None]]

(* One candidate looked at: taken if it beats what the position has.       *)
Better(found, i, at) ==
    LET best == IF found = <<>> THEN trial.min - 1 ELSE found[Len(found)].length
        l    == Shared(at, i, LongestAt(i))
    IN  IF /\ best < LongestAt(i) /\ Byte(at + best) = Byte(i + best) /\ l > best
        THEN Append(found, Candidate(i - at, l)) ELSE found

\* The last place of two bytes, however far.
Nearest2Far(i) ==
    LET at == work.head2[Hash2(i)] IN IF at = None THEN <<>> ELSE Better(<<>>, i, at)

Nearest2(i) ==
    LET at == work.head2[Hash2(i)] IN
    IF at = None \/ i - at > trial.window THEN <<>> ELSE Better(<<>>, i, at)

(* Down the chain, nearest first, at most `depth` links.                   *)
Chain(i, found) ==
    LET links == {k \in 1 .. trial.depth : TRUE}
        At[k \in links] == IF k = 1 THEN work.head[Hash3(i)]
                           ELSE IF At[k - 1] = None THEN None
                           ELSE work.prev[At[k - 1] + 1]
        Take(out, k) ==
            IF \/ At[k] = None \/ i - At[k] > trial.window
               \/ out # <<>> /\ out[Len(out)].length >= LongestAt(i)
            THEN out ELSE Better(out, i, At[k])
    IN  FoldLeft(Take, found, [k \in links |-> k])

ChainStep ==
    /\ work.finder = "chain" /\ work.i < n
    /\ LET i     == work.i
           two   == i + 2 <= n
           three == i + 3 <= n
           near  == IF two THEN Nearest2(i) ELSE <<>>
       IN  work' = [work EXCEPT
               !.i = i + 1,
               !.cands = Append(@, IF three THEN Chain(i, near) ELSE near),
               !.head2 = IF two THEN [@ EXCEPT ![Hash2(i)] = i] ELSE @,
               !.prev = Append(@, IF three THEN work.head[Hash3(i)] ELSE None),
               !.head = IF three THEN [@ EXCEPT ![Hash3(i)] = i] ELSE @]

-----------------------------------------------------------------------------
(* find_matches_exact: every offset of a position, nearest first.  The     *)
(* owner of each length is kept in an array that is not cleared between    *)
(* the positions.                                                          *)

ExactStart ==
    [finder |-> "exact", i |-> 0, cands |-> <<>>,
     owner |-> [l \in 0 .. trial.longest + 1 |-> 0]]

Owners(i) ==
    LET Scan(scan, d) ==
            LET l == Shared(i - d, i, LongestAt(i)) IN
            IF \/ scan.longest >= LongestAt(i)
               \/ Byte(i - d + scan.longest) # Byte(i + scan.longest)
               \/ l < trial.min
            THEN scan
            ELSE [longest |-> IF l > scan.longest THEN l ELSE scan.longest,
                  owner |-> [k \in DOMAIN scan.owner |->
                      IF k > scan.longest /\ k >= trial.min /\ k <= l
                      THEN d ELSE scan.owner[k]]]
    IN  FoldLeft(Scan, [longest |-> 0, owner |-> work.owner],
                 [d \in 1 .. Smaller(trial.window, i) |-> d])

(* Lengths of one offset are collapsed to the longest.                     *)
Collapsed(scan) ==
    LET ends == {l \in trial.min .. scan.longest :
                    /\ scan.owner[l] # 0
                    /\ l = scan.longest \/ scan.owner[l] # scan.owner[l + 1]}
    IN  [k \in 1 .. Cardinality(ends) |->
            LET l == Ordered(ends, <)[k] IN Candidate(scan.owner[l], l)]

ExactStep ==
    /\ work.finder = "exact" /\ work.i < n
    /\ LET i    == work.i
           scan == IF i = 0 \/ LongestAt(i) < trial.min
                   THEN [longest |-> 0, owner |-> work.owner] ELSE Owners(i)
       IN  work' = [work EXCEPT !.i = i + 1, !.owner = scan.owner,
                                !.cands = Append(@, Collapsed(scan))]

-----------------------------------------------------------------------------
(* build_sa: prefix doubling, the suffixes ordered by their first k bytes. *)

(* A stable counting sort of `order` by key.                               *)
StableSort(order, Key(_)) ==
    FoldLeft(LAMBDA out, key : out \o SelectSeq(order, LAMBDA s : Key(s) = key),
             <<>>, Ordered({Key(s) : s \in ToSet(order)}, <))

(* Ranks: equal neighbours share one.                                      *)
Ranks(order, Same(_, _)) ==
    LET Rank[r \in 1 .. n] ==
            IF r = 1 THEN 0
            ELSE IF Same(order[r - 1], order[r]) THEN Rank[r - 1] ELSE Rank[r - 1] + 1
    IN  [s \in 0 .. n - 1 |-> Rank[CHOOSE r \in 1 .. n : order[r] = s]]

Positions == [r \in 1 .. n |-> r - 1]

FastStart ==
    LET order == StableSort(Positions, Byte) IN
    [finder |-> "fast", k |-> 1, sa |-> order,
     rank |-> Ranks(order, LAMBDA s, t : Byte(s) = Byte(t)),
     lcp |-> <<>>, stack |-> <<>>, prev |-> <<>>, next |-> <<>>,
     events |-> <<>>, cands |-> <<>>, sorted |-> FALSE]

(* One round: by the second half (off the end first), then by the first.   *)
Second(s) == IF s + work.k < n THEN work.rank[s + work.k] ELSE -1

DoubleStep ==
    /\ work.finder = "fast" /\ ~work.sorted
    /\ \E s \in 0 .. n - 1, t \in 0 .. n - 1 : s # t /\ work.rank[s] = work.rank[t]
    /\ work.k < n
    /\ LET shifted == [s \in 1 .. n |-> work.sa[s] - work.k]
           second  == [s \in 1 .. work.k |-> n - work.k + s - 1]
                      \o SelectSeq(shifted, LAMBDA s : s >= 0)
           order   == StableSort(second, LAMBDA s : work.rank[s])
       IN  work' = [work EXCEPT !.sa = order, !.k = 2 * @,
               !.rank = Ranks(order, LAMBDA s, t : work.rank[s] = work.rank[t]
                                                   /\ Second(s) = Second(t))]

(* build_lcp: what each suffix shares with the one before it in the array, *)
(* in text order, each at least one less than the last.                    *)
Lcps ==
    LET Where(s) == CHOOSE r \in 1 .. n : work.sa[r] = s
        Enter(walk, i) ==
            IF Where(i) = 1 THEN [walk EXCEPT !.h = 0]
            ELSE LET j == work.sa[Where(i) - 1]
                     h == walk.h + Shared(i + walk.h, j + walk.h, n)
                 IN  [h |-> IF h > 0 THEN h - 1 ELSE 0,
                      lcp |-> [walk.lcp EXCEPT ![Where(i)] = h]]
    IN  FoldLeft(Enter, [h |-> 0, lcp |-> [r \in 1 .. n |-> 0]], Positions).lcp

StartSweep ==
    /\ work.finder = "fast" /\ ~work.sorted
    /\ \/ work.k >= n
       \/ \A s, t \in 0 .. n - 1 : s # t => work.rank[s] # work.rank[t]
    /\ work' = [work EXCEPT
            !.sorted = TRUE, !.lcp = Lcps, !.stack = <<<<1, n>>>>,
            !.prev = [i \in 0 .. n - 1 |-> i - 1],
            !.next = [i \in 0 .. n - 1 |-> IF i + 1 < n THEN i + 1 ELSE None]]

(* RmqMin: a sparse table, the place of a minimum of 2^k neighbours; two   *)
(* entries that overlap cover any range.                                   *)
Log[i \in Nat] == IF i < 2 THEN 0 ELSE Log[i \div 2] + 1
Lower(a, b) == IF work.lcp[b] < work.lcp[a] THEN b ELSE a
\* The second entry of the table starts one place too early.
ArgminShort(a, b) ==
    LET Table[k \in 0 .. n, i \in 1 .. n] ==
            IF k = 0 THEN i ELSE Lower(Table[k - 1, i], Table[k - 1, i + 2 ^ (k - 1)])
        k == Log[b - a + 1]
    IN  Lower(Table[k, a], Table[k, Larger(a, b - 2 ^ k)])

Argmin(a, b) ==
    LET Table[k \in 0 .. n, i \in 1 .. n] ==
            IF k = 0 THEN i ELSE Lower(Table[k - 1, i], Table[k - 1, i + 2 ^ (k - 1)])
        k == Log[b - a + 1]
    IN  Lower(Table[k, a], Table[k, b + 1 - 2 ^ k])

(* The children of an interval: it is split at each minimum of its LCPs.   *)
Depth(l, r) == work.lcp[Argmin(l + 1, r)]
Children(l, r) ==
    LET cuts  == {l} \cup {m \in l + 1 .. r : work.lcp[m] = Depth(l, r)}
        start == Ordered(cuts, <)
    IN  [c \in 1 .. Len(start) |->
            <<start[c], IF c < Len(start) THEN start[c + 1] - 1 ELSE r>>]

(* The first of the largest keeps its list, the others are rebuilt.        *)
Kept(children) ==
    LET Size(c) == children[c][2] - children[c][1]
    IN  CHOOSE c \in 1 .. Len(children) :
            \A d \in 1 .. Len(children) : Size(d) <= Size(c) /\ (d < c => Size(d) < Size(c))

SuffixesOf(child) == {work.sa[r] : r \in child[1] .. child[2]}

(* Links out of the list of an interval, and into the lists of the         *)
(* children that leave it.                                                 *)
Unlinked(leaving) ==
    LET Out(lists, x) ==
            LET p == lists.prev[x]
                q == lists.next[x]
            IN  [prev |-> IF q = None THEN lists.prev ELSE [lists.prev EXCEPT ![q] = p],
                 next |-> IF p = None THEN lists.next ELSE [lists.next EXCEPT ![p] = q]]
    IN  FoldLeft(Out, [prev |-> work.prev, next |-> work.next], leaving)

Before(set, x) == IF \E y \in set : y < x
                  THEN CHOOSE y \in set : y < x /\ \A z \in set : z < x => z <= y ELSE None
After(set, x)  == IF \E y \in set : y > x
                  THEN CHOOSE y \in set : y > x /\ \A z \in set : z > x => y <= z ELSE None

Event(pos, from, depth) == [pos |-> pos, offset |-> pos - from, length |-> depth]

(* One interval: whoever loses its predecessor here, because it leaves or  *)
(* the predecessor does, has a candidate of the interval's depth.          *)
SweepStep ==
    /\ work.finder = "fast" /\ work.stack # <<>>
    /\ LET top  == work.stack[Len(work.stack)]
           rest == SubSeq(work.stack, 1, Len(work.stack) - 1)
       IN  IF top[1] >= top[2]
           THEN work' = [work EXCEPT !.stack = rest]
           ELSE
           LET depth    == Depth(top[1], top[2])
               children == Children(top[1], top[2])
               kept     == Kept(children)
               movers   == SelectSeq([c \in 1 .. Len(children) |-> c], LAMBDA c : c # kept)
               leaving  == FoldLeft(LAMBDA out, c :
                               out \o [r \in 1 .. children[c][2] - children[c][1] + 1 |->
                                          work.sa[children[c][1] + r - 1]], <<>>, movers)
               gone     == ToSet(leaving)
               lists    == Unlinked(leaving)
               home(x)  == CHOOSE set \in {SuffixesOf(children[c]) : c \in ToSet(movers)} : x \in set
               stayers  == SelectSeq(leaving, LAMBDA x :
                               work.next[x] # None /\ work.next[x] \notin gone)
               inOrder  == FoldLeft(LAMBDA out, c :
                               out \o Ordered(SuffixesOf(children[c]), <), <<>>, movers)
               orphans  == SelectSeq(inOrder, LAMBDA x :
                               work.prev[x] # None /\ work.prev[x] # Before(home(x), x))
           IN  work' = [work EXCEPT
                   !.stack = rest \o children,
                   !.prev = [x \in 0 .. n - 1 |->
                       IF x \in gone THEN Before(home(x), x) ELSE lists.prev[x]],
                   !.next = [x \in 0 .. n - 1 |->
                       IF x \in gone THEN After(home(x), x) ELSE lists.next[x]],
                   !.events = IF depth < trial.min THEN @
                              ELSE @ \o [k \in 1 .. Len(stayers) |->
                                            Event(work.next[stayers[k]], stayers[k], depth)]
                                     \o [k \in 1 .. Len(orphans) |->
                                            Event(orphans[k], work.prev[orphans[k]], depth)]]

(* The events of a position in the order of the sweep, cut to the window   *)
(* and the longest length; equal lengths keep the smallest offset.         *)
Collected(i) ==
    LET mine == SelectSeq(work.events, LAMBDA e : e.pos = i)
        Take(out, e) ==
            LET l == Smaller(e.length, LongestAt(i)) IN
            IF e.offset > trial.window \/ l < trial.min
               \/ (out # <<>> /\ l <= out[Len(out)].length)
            THEN out ELSE Append(out, Candidate(e.offset, l))
    IN  IF LongestAt(i) < trial.min THEN <<>> ELSE FoldLeft(Take, <<>>, mine)

CollectStep ==
    /\ work.finder = "fast" /\ work.sorted /\ work.stack = <<>> /\ work.cands = <<>>
    /\ work' = [work EXCEPT !.cands = [i \in 1 .. n |-> Collected(i - 1)]]

-----------------------------------------------------------------------------
Searched == IF work.finder = "fast" THEN work.cands # <<>> ELSE work.i = n

FinderNext ==
    /\ Searching("finder")
    /\ \/ /\ \/ ChainStep \/ ExactStep \/ DoubleStep \/ StartSweep \/ SweepStep
             \/ CollectStep
          /\ Proceeds
       \/ Searched /\ Finished

(* What the three of them promise: an offset is a candidate of a position  *)
(* exactly if no smaller one reaches as far.                               *)
Reaches(i, d) == Shared(i - d, i, LongestAt(i))
ParetoFront(i) ==
    LET offsets == {d \in 1 .. Smaller(i, trial.window) :
                        /\ Reaches(i, d) >= trial.min
                        /\ \A e \in 1 .. d - 1 : Reaches(i, e) < Reaches(i, d)}
    IN  {Candidate(d, Reaches(i, d)) : d \in offsets}

FinderCovers ==
    \A i \in 0 .. n - 1 : \A k \in 1 .. Len(work.cands[i + 1]) :
        LET c == work.cands[i + 1][k] IN
        /\ c.offset \in 1 .. Smaller(i, trial.window)
        /\ Reaches(i, c.offset) = c.length
        /\ k > 1 => work.cands[i + 1][k - 1].length < c.length

FinderOptimal == \A i \in 0 .. n - 1 : ToSet(work.cands[i + 1]) = ParetoFront(i)

(* Every list that is still to be split holds the suffixes of its interval *)
(* in text order.                                                          *)
FinderStructured ==
    work.finder = "fast" =>
        \A k \in 1 .. Len(work.stack) :
            \E set \in {SuffixesOf(work.stack[k])} :
                \A x \in set : work.prev[x] = Before(set, x) /\ work.next[x] = After(set, x)
=============================================================================
