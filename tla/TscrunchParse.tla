--------------------------- MODULE TscrunchParse ---------------------------
(***************************************************************************)
(* tscrunch.rs, crunch_inner: a graph with at most one token for each      *)
(* length at each position, and a shortest path through it.  The input is  *)
(* parsed twice, as compress_tscrunch_best does: with the one match of the *)
(* native search at every length, then with the nearest match of each      *)
(* length (rich).  The format's limits are fields of the trial, so that    *)
(* short inputs meet them; CodeLimits are the code's.                      *)
(***************************************************************************)
EXTENDS Search

CodeLimits ==
    [rle |-> 64, longLz |-> 64, lz |-> 32, literal |-> 31,
     near |-> 256, far |-> 32767, near2 |-> 94]
MIN_RLE == 2
MIN_LZ == 3
LZ2_SIZE == 2
Limit == trial.limits

-----------------------------------------------------------------------------
(* The tokens of a position.                                               *)

Token(type, size, offset) == [type |-> type, size |-> size, offset |-> offset]

IsLong(t) == t.offset >= Limit.near \/ t.size > Limit.lz

(* token_cost: bytes, scaled, and a preference among equals.               *)
MDiv == 31 * 65536
TokenCost(t) ==
    CASE t.type = "Lz"      -> IF IsLong(t) THEN MDiv * 3 + 138 - t.size
                               ELSE MDiv * 2 + 134 - t.size
      [] t.type = "Rle"     -> MDiv * 2 + 128 - t.size
      [] t.type = "Zerorun" -> MDiv
      [] t.type = "Lz2"     -> MDiv + 132 - t.size
      [] t.type = "Literal" -> MDiv * (t.size + 1) + 130 - t.size

(* find_optimal_zero: the run with the largest run * count^1.1 (here in    *)
(* thousandths, for up to four runs of a length); the shorter on a tie.    *)
ZeroRuns ==
    LET Starts(i) == Byte(i) = 0 /\ (i = 0 \/ Byte(i - 1) # 0)
        Zeros(i)  == Least({j \in i .. n : j = n \/ Byte(j) # 0}) - i
    IN  [i \in {j \in 0 .. n - 2 : Starts(j)} |-> Zeros(i)]

OptimalZero ==
    LET runs     == {r \in {ZeroRuns[i] : i \in DOMAIN ZeroRuns} : r >= MIN_RLE}
        Count(r) == Cardinality({i \in DOMAIN ZeroRuns : ZeroRuns[i] = r})
        Score(r) == r * <<1000, 2144, 3348, 4595>>[Count(r)]
    IN  IF runs = {} THEN Limit.rle
        ELSE CHOOSE r \in runs : \A s \in runs :
                 Score(s) < Score(r) \/ (Score(s) = Score(r) /\ r <= s)

ZerorunAt(i) == work.zeros > 0 /\ i + work.zeros <= n
                /\ \A j \in i .. i + work.zeros - 1 : Byte(j) = 0

(* rle_length, one more than the longest run token at most.                *)
RleLength(i) ==
    Least({x \in 1 .. Limit.rle + 1 : x = Limit.rle + 1 \/ i + x >= n \/ Byte(i + x) # Byte(i)})

RleSizes(i) == IF RleLength(i) > Limit.rle THEN {Limit.rle} ELSE MIN_RLE .. RleLength(i)

(* lz2_offset: two bytes from nearby, not at the very end of the input.    *)
Lz2Offset(i) ==
    LET offsets == {d \in 1 .. Smaller(i, Limit.near2) :
                        Byte(i - d) = Byte(i) /\ Byte(i - d + 1) = Byte(i + 1)}
    IN  IF i + LZ2_SIZE >= n \/ offsets = {} THEN None ELSE Least(offsets)

(* PrefixArray: the positions of a three-byte prefix, without the last.    *)
Prefix(i) == <<Byte(i), Byte(i + 1), Byte(i + 2)>>
Occurrences(i) == Ordered({j \in 0 .. n - MIN_LZ - 1 : Prefix(j) = Prefix(i)}, <)

(* findall_into: the search for the position in its list ends wherever the *)
(* two ends meet, and goes down from there.                                *)
Landing(list, i) ==
    LET Halve[l \in 1 .. Len(list) + 1, h \in 0 .. Len(list), mid \in 1 .. Len(list)] ==
            IF l >= h THEN mid
            ELSE LET m == (l - 1 + h - 1) \div 2 + 1 IN
                 IF list[m] < i THEN Halve[m + 1, h, m]
                 ELSE IF list[m] > i THEN Halve[l, m - 1, m] ELSE m
    IN  Halve[1, Len(list), 1]

WindowStart(i) == Larger(i - Limit.far, 0)

FindAll(i, minlz) ==
    LET list == Occurrences(i) IN
    IF list = <<>> THEN <<>>
    ELSE SelectSeq(Reverse(SubSeq(list, 1, Landing(list, i))),
                   LAMBDA p : p > WindowStart(i) /\ p < i /\ Shared(p, i, minlz) = minlz)

(* lz_best: one match for every length.  The first is measured against the *)
(* byte before the position.                                               *)
LzBest(i, minlz) ==
    LET Take(best, p) ==
            LET l == Shared(p, i, Limit.longLz) IN
            IF \/ /\ l > best.size
                  /\ i - p < Limit.near \/ best.offset >= Limit.near \/ l > Limit.lz
               \/ l > best.size + 1
            THEN Token("Lz", l, i - p) ELSE best
    IN  IF i + minlz > n THEN Token("Lz", 0, 1)
        ELSE FoldLeft(Take, Token("Lz", 0, 1), FindAll(i, minlz))

(* lz_per_length: for each length, the nearest match that reaches it.      *)
LzPerLength(i, minlz) ==
    LET sources  == IF i + MIN_LZ > n THEN {}
                    ELSE {p \in ToSet(Occurrences(i)) : p < i /\ p > WindowStart(i)}
        Reach(p) == Shared(p, i, Limit.longLz)
        sizes    == {l \in minlz .. Limit.longLz : \E p \in sources : Reach(p) >= l}
    IN  [l \in sizes |-> i - Greatest({p \in sources : Reach(p) >= l})]

RleCap(i) == Smaller(RleLength(i), Limit.rle)
MinLz(i) == Larger(RleCap(i) + 1, MIN_LZ)

(* The match tokens of a position: longer than its run of equal bytes.     *)
LzOffsets(i) ==
    IF RleCap(i) >= Limit.longLz - 1 THEN <<>>
    ELSE IF work.rich THEN LzPerLength(i, MinLz(i))
    ELSE LET best == LzBest(i, MinLz(i)) IN
         [l \in {l \in MIN_LZ .. best.size : l > RleCap(i)} |-> best.offset]

(* The edges of a position: what comes later in the code takes a length    *)
(* over from what came before it, literals fill the lengths left.          *)
Edges(i) ==
    LET lz    == LzOffsets(i)
        lz2   == Lz2Offset(i)
        sizes == DOMAIN lz \cup RleSizes(i) \cup 1 .. Smaller(Limit.literal, n - i)
                 \cup (IF lz2 > 0 THEN {LZ2_SIZE} ELSE {})
                 \cup (IF ZerorunAt(i) THEN {work.zeros} ELSE {})
    IN  [size \in sizes |->
            IF ZerorunAt(i) /\ size = work.zeros THEN Token("Zerorun", size, 0)
            ELSE IF lz2 > 0 /\ size = LZ2_SIZE THEN Token("Lz2", size, lz2)
            ELSE IF size \in RleSizes(i) THEN Token("Rle", size, 0)
            ELSE IF size \in DOMAIN lz THEN Token("Lz", size, lz[size])
            ELSE Token("Literal", size, 0)]

-----------------------------------------------------------------------------
(* Dijkstra, with a queue that may still hold what a shorter path has      *)
(* replaced.  Of entries at the same distance the heap may give any.       *)

Start(rich, zeros, anchor) ==
    [rich |-> rich, zeros |-> zeros, anchor |-> anchor,
     dist |-> [v \in {0} |-> 0], token |-> <<>>, queue |-> {<<0, 0>>}]
TscrunchStart == Start(FALSE, OptimalZero, None)

Nearest(item) == \A other \in work.queue : item[1] <= other[1]

Stale(item) ==
    /\ item[1] # work.dist[item[2]]
    /\ work' = [work EXCEPT !.queue = @ \ {item}]

Relax(item) ==
    LET u == item[2] IN
    /\ item[1] = work.dist[u] /\ u # n
    /\ \E edges \in {Edges(u)} :
       LET Alt(v)  == work.dist[u] + TokenCost(edges[v - u])
           better  == {v \in {u + size : size \in DOMAIN edges} :
                           v \notin DOMAIN work.dist \/ Alt(v) < work.dist[v]}
           reached == DOMAIN work.dist \cup better
       IN  work' = [work EXCEPT
               !.dist = [v \in reached |-> IF v \in better THEN Alt(v) ELSE @[v]],
               !.token = [v \in reached \ {0} |-> IF v \in better THEN edges[v - u] ELSE @[v]],
               !.queue = (@ \ {item}) \cup {<<Alt(v), v>> : v \in better}]

(* Reached the end: the path is read off backwards.  The anchor's length   *)
(* is kept, and the input is parsed again.                                 *)
AtEnd(item) == item[2] = n /\ item[1] = work.dist[n]

Path ==
    LET Back[v \in 0 .. n] == IF v = 0 THEN <<>>
                              ELSE Append(Back[v - work.token[v].size], work.token[v])
    IN  Back[n]

PathBytes == work.dist[n] \div MDiv

TscrunchNext ==
    /\ Searching("tscrunch")
    /\ \E item \in work.queue :
        /\ Nearest(item)
        /\ \/ (Stale(item) \/ Relax(item)) /\ Proceeds
           \/ /\ AtEnd(item) /\ ~work.rich
              /\ work' = Start(TRUE, work.zeros, PathBytes) /\ Proceeds
           \/ AtEnd(item) /\ work.rich /\ Finished

-----------------------------------------------------------------------------
Reached(i, t) ==
    /\ i + t.size <= n
    /\ CASE t.type = "Literal" -> t.size <= Limit.literal
         [] t.type = "Zerorun" -> t.size = work.zeros /\ \A k \in i .. i + t.size - 1 : Byte(k) = 0
         [] t.type = "Rle"     -> t.size <= Limit.rle /\ \A k \in i .. i + t.size - 1 : Byte(k) = Byte(i)
         [] OTHER              -> /\ t.offset \in 1 .. i
                                  /\ t.offset <= (IF t.type = "Lz2" THEN Limit.near2 ELSE Limit.far)
                                  /\ Shared(i - t.offset, i, t.size) = t.size

(* Every token of the path says what the input has at its place.           *)
TscrunchCovers ==
    LET path == Path
        At[k \in 1 .. Len(path) + 1] == IF k = 1 THEN 0 ELSE At[k - 1] + path[k - 1].size
    IN  /\ At[Len(path) + 1] = n
        /\ \A k \in 1 .. Len(path) : Reached(At[k], path[k])

(* The fewest bytes, with a match of any length from any source in the     *)
(* window: the code leaves out the source at position 0, matches inside a  *)
(* run as long as the longest match, and all but the longest piece of a    *)
(* run that is longer than that.                                           *)
Bytes(t) == TokenCost(t) \div MDiv
TokensOf(i) ==
    [size \in 1 .. n - i |->
        {Token("Literal", size, 0), Token("Zerorun", size, 0)}
        \cup (IF size \in RleSizes(i) THEN {Token("Rle", size, 0)} ELSE {})
        \cup (IF size = LZ2_SIZE /\ i + size < n THEN {Token("Lz2", size, d) : d \in 1 .. i} ELSE {})
        \cup (IF size \in MIN_LZ .. Limit.longLz /\ RleCap(i) < Limit.longLz - 1
              THEN {Token("Lz", size, d) : d \in 1 .. i - 1 - WindowStart(i)} ELSE {})]
FewestBytes ==
    LET From[i \in 0 .. n] ==
            IF i = n THEN 0
            ELSE Least(UNION {{Bytes(t) + From[i + size] : t \in {t \in TokensOf(i)[size] : Reached(i, t)}} :
                              size \in 1 .. n - i})
    IN  From[0]

TscrunchOptimal == PathBytes = FewestBytes /\ PathBytes <= work.anchor
=============================================================================
