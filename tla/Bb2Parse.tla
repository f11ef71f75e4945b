------------------------------ MODULE Bb2Parse ------------------------------
(***************************************************************************)
(* bb2.rs, Cruncher: the shortest path is built from the end of the input  *)
(* to its start.  The candidates of a position come off the chain of its   *)
(* digram, which the setup strings through the whole input and the parse   *)
(* shortens as it passes; of a run of equal bytes only the two ends are on *)
(* a chain, and the run's length and the byte after it (before it, in the  *)
(* order of the input) stand in for the rest.                              *)
(***************************************************************************)
EXTENDS Search

(* LEN_SHORT_3 and its kin, MAX_RUN: fields of the trial.                  *)
CodeLimits ==
    [short |-> <<8, 64, 256, 1024>>, long |-> <<16, 128, 1024, 8192>>, length |-> 255]
Limit == trial.limits
MaxOffsetShort == Limit.short[4]
MaxOffset == Limit.long[4]

CostOfLength(l) ==
    IF l >= 128 THEN 14 ELSE 2 * Least({b \in 0 .. 7 : l < 2 ^ (b + 1)}) + 1

CostOfOffset(o, l) ==
    LET bounds == IF l = 1 THEN Limit.short ELSE Limit.long
    IN  (IF l = 1 THEN <<3, 6, 8, 10>> ELSE <<4, 7, 10, 13>>)[Least({k \in 1 .. 4 : o < bounds[k]})]

CostOfMatch(l, offset) == 1 + CostOfLength(l - 1) + 2 + CostOfOffset(offset - 1, l - 1)

CostOfLiteral(before, litLen) ==
    before + 8 + (CASE litLen \in {1, 128} -> 1
                    [] litLen \in {2, 4, 8, 16, 32, 64} -> 2
                    [] OTHER -> 0)

-----------------------------------------------------------------------------
(* setup_help_structures.                                                  *)

(* The runs, at their ends: [length, after].  One at the very start of the *)
(* input is followed by itself.                                            *)
RunStart(i) == Least({j \in 0 .. i : \A k \in j .. i : Byte(k) = Byte(i)})
RunTops == {i \in 1 .. n - 1 : Byte(i - 1) = Byte(i) /\ (i = n - 1 \/ Byte(i + 1) # Byte(i))}
RleInfo == [i \in RunTops |->
               [length |-> i - RunStart(i) + 1,
                after |-> Byte(IF RunStart(i) = 0 THEN 0 ELSE RunStart(i) - 1)]]

(* The digram ending at a position; the first position has none before it. *)
Digram(i) == <<Byte(i), IF i > 0 THEN Byte(i - 1) ELSE 0>>

(* The chains go down from the end; 0 ends them.                           *)
Linked == {i \in 1 .. n - 1 : \A top \in RunTops : ~(RunStart(top) < i /\ i < top)}
Below(i, digram) ==
    LET lower == {j \in Linked : j < i /\ Digram(j) = digram}
    IN  IF lower = {} THEN 0 ELSE Greatest(lower)

Bb2Start ==
    [get |-> n - 1, rle |-> RleInfo,
     first |-> [d \in {Digram(i) : i \in 0 .. n - 1} |-> Below(n, d)],
     link |-> [i \in 0 .. n - 1 |-> IF i = 0 THEN 0 ELSE Below(i, Digram(i))],
     context |-> <<>>]

-----------------------------------------------------------------------------
(* find_matches.                                                           *)

RleLength(i) == IF i \in DOMAIN work.rle THEN work.rle[i].length ELSE 0

(* How far two positions agree, backwards, from a length on.               *)
Agree(scn, get, from) ==
    Least({l \in from .. Limit.length :
               l = Limit.length \/ scn < l \/ Byte(scn - l) # Byte(get - l)})

(* The rest of the digram's chain.                                         *)
ChainOf(get) ==
    LET Down[k \in 0 .. n] == IF k = 0 THEN work.first[Digram(get)] ELSE work.link[Down[k - 1]]
    IN  SelectSeq([k \in 1 .. n |-> Down[k]], LAMBDA scn : scn > 0)

Stops(scn, get, found) == get - scn > MaxOffset \/ found.longest = Limit.length \/ found.over

(* A match takes the lengths down to the first that is taken.              *)
Filled(offsets, length, offset) ==
    LET taken == {l \in DOMAIN offsets : l <= length}
        low   == IF taken = {} THEN 2 ELSE Greatest(taken) + 1
        new   == {l \in low .. length : l > 2 \/ offset <= MaxOffsetShort}
    IN  [l \in DOMAIN offsets \cup new |-> IF l \in new THEN offset ELSE offsets[l]]

NoMatch == [longest |-> 0, offsets |-> <<>>, over |-> FALSE]

PlainMatches(get) ==
    LET Try(found, scn) ==
            LET l == Agree(scn, get, 2) IN
            IF Stops(scn, get, found) THEN [found EXCEPT !.over = TRUE]
            ELSE IF l > found.longest
            THEN [found EXCEPT !.longest = l, !.offsets = Filled(@, l, get - scn)]
            ELSE found
    IN  FoldLeft(Try, NoMatch, ChainOf(get)).offsets

(* Inside a run: the run itself, then as much of another run of the value, *)
(* then past the end of it where both runs end alike.                      *)
RunMatches(get) ==
    LET run  == work.rle[get]
        own  == Smaller(run.length - 1, Limit.length)
        self == IF own < 2 THEN NoMatch
                ELSE [NoMatch EXCEPT !.longest = own, !.offsets = [l \in 2 .. own |-> 1]]
        Inside(found, scn) ==
            LET l == Smaller(RleLength(scn), run.length) IN
            IF RleLength(scn) > found.longest /\ run.length > found.longest
               /\ (l > 2 \/ (l = 2 /\ get - scn <= MaxOffsetShort))
            THEN [found EXCEPT !.longest = l,
                     !.offsets = [k \in DOMAIN @ \cup {l} |-> IF k = l THEN get - scn ELSE @[k]]]
            ELSE found
        Beyond(found, scn) ==
            LET offset == get - scn + RleLength(scn) - run.length
                l == Agree(get - offset, get, run.length)
            IN  IF /\ RleLength(scn) >= run.length /\ work.rle[scn].after = run.after
                   /\ offset <= MaxOffset /\ l > found.longest
                THEN [found EXCEPT !.longest = l, !.offsets = Filled(@, l, offset)]
                ELSE found
        Try(found, scn) ==
            IF Stops(scn, get, found) THEN [found EXCEPT !.over = TRUE]
            ELSE Beyond(Inside(found, scn), scn)
    IN  FoldLeft(Try, self, ChainOf(get)).offsets

(* What the position leaves behind: its place on the chain, or the rest of *)
(* its run to the next position.                                           *)
Advanced(get) == [work.first EXCEPT ![Digram(get)] = work.link[@]]

(* The nodes a match reaches, the longest first, and one literal more.     *)
Node(cost, next, litLen, offset) == [cost |-> cost, next |-> next, litLen |-> litLen, offset |-> offset]

FindStep ==
    LET get     == work.get
        inRun   == RleLength(get) > 0
        grows   == RleLength(get) > 2
        last    == IF get = n - 1 THEN Node(0, n, 0, 0) ELSE work.context[get + 1]
    IN  /\ get >= 0
        /\ \E offsets \in {IF inRun THEN RunMatches(get) ELSE PlainMatches(get)} :
           LET Cost(l) == last.cost + CostOfMatch(l, offsets[l])
               better  == {l \in DOMAIN offsets :
                               \/ get - l + 1 \notin DOMAIN work.context
                               \/ work.context[get - l + 1].cost > Cost(l)}
               places  == DOMAIN work.context \cup {get - l + 1 : l \in better} \cup {get}
               litCost == CostOfLiteral(last.cost, last.litLen + 1)
               literal == \/ get \notin DOMAIN work.context
                          \/ work.context[get].cost >= litCost
           IN  work' = [work EXCEPT
                   !.get = @ - 1,
                   !.first = IF grows THEN @ ELSE Advanced(get),
                   !.rle = IF grows
                           THEN [i \in DOMAIN @ \cup {get - 1} |->
                                    IF i = get - 1 THEN [@[get] EXCEPT !.length = @ - 1] ELSE @[i]]
                           ELSE @,
                   !.context = [i \in places |->
                       LET l == get - i + 1 IN
                       IF l \in better THEN Node(Cost(l), get + 1, 0, offsets[l])
                       ELSE IF i = get /\ literal THEN Node(litCost, get + 1, last.litLen + 1, 0)
                       ELSE @[i]]]

Bb2Next ==
    /\ Searching("bb2")
    /\ \/ FindStep /\ Proceeds
       \/ work.get < 0 /\ Finished

-----------------------------------------------------------------------------
(* write_output's way through the nodes: a literal run is as long as its   *)
(* first node says, a match ends where its node points.                    *)
Hop(i) == LET node == work.context[i] IN
          IF node.litLen = 0 THEN node.next ELSE i + node.litLen

(* Every match of the written path repeats what the input has.             *)
Bb2Covers ==
    LET Sound[i \in 0 .. n] ==
            \/ i = n
            \/ LET node == work.context[i] IN
               /\ Hop(i) \in i + 1 .. n
               /\ node.litLen = 0 =>
                      LET l == Hop(i) - i IN
                      /\ l \in 2 .. Limit.length /\ node.offset \in 1 .. i
                      /\ node.offset <= (IF l = 2 THEN MaxOffsetShort ELSE MaxOffset)
                      /\ Shared(i - node.offset, i, l) = l
               /\ Sound[Hop(i)]
    IN  Sound[0]

(* Between two steps: the chain of the next position starts at it, or at   *)
(* the end of the run it is in; a settled node costs what its path does,   *)
(* and a literal run in it is followed by a match.                         *)
Bb2Structured ==
    /\ work.get > 0 =>
           work.first[Digram(work.get)] =
               IF RleLength(work.get) > 0
               THEN Least({top \in RunTops : top >= work.get}) ELSE work.get
    /\ \A i \in work.get + 1 .. n - 1 :
           LET node == work.context[i]
               rest == IF Hop(i) = n THEN 0 ELSE work.context[Hop(i)].cost
               Run[k \in 0 .. n] == IF k = 0 THEN rest ELSE CostOfLiteral(Run[k - 1], k)
           IN  IF node.litLen = 0 THEN node.cost = rest + CostOfMatch(Hop(i) - i, node.offset)
               ELSE /\ node.cost = Run[node.litLen]
                    /\ Hop(i) < n => work.context[Hop(i)].litLen = 0
=============================================================================
