-------------------------- MODULE ShrinklerFinder --------------------------
(***************************************************************************)
(* shrinkler.rs: the suffix array by induced sorting (SA-IS), and the      *)
(* match finder that walks out from a position's place in it, to both      *)
(* sides, longest matches first.  It gives up a side after match_patience  *)
(* suffixes that are no candidates, and keeps max_same_length positions of *)
(* a length, the latest; a shorter match must be nearer than all of them.  *)
(***************************************************************************)
EXTENDS Search

Patience == trial.patience
MaxSame == trial.same
MinLength == 2

-----------------------------------------------------------------------------
(* compute_suffix_array of a sequence that ends with its only smallest     *)
(* symbol.  Indices count from 0.                                          *)

UNINITIALIZED == -1
Sym(data, i) == data[i + 1]

(* A suffix is of type S if it is smaller than the one after it.           *)
SType(data, i) ==
    LET differ == {j \in i + 1 .. Len(data) - 1 : Sym(data, j) # Sym(data, i)} IN
    differ = {} \/ Sym(data, Least(differ)) > Sym(data, i)

IsLms(data, i) == i > 0 /\ SType(data, i) /\ ~SType(data, i - 1)
LmsIndices(data) == SelectSeq([i \in 1 .. Len(data) |-> i - 1], LAMBDA i : IsLms(data, i))

(* Where the suffixes that start with a symbol go.                         *)
Bucket(data, b) == Cardinality({i \in 1 .. Len(data) : data[i] < b})
Symbols(data) == 0 .. Greatest(ToSet(data))
Starts(data) == [b \in Symbols(data) |-> Bucket(data, b)]
Ends(data) == [b \in Symbols(data) |-> Bucket(data, b + 1)]

Empty(data) == [s \in 0 .. Len(data) - 1 |-> UNINITIALIZED]

(* Each index of a list in turn to the end of its bucket, downwards.       *)
FromEnds(data, list) ==
    LET Put(state, i) ==
            LET b == Sym(data, i) IN
            [index |-> [state.index EXCEPT ![b] = @ - 1],
             sa |-> [state.sa EXCEPT ![state.index[b] - 1] = i]]
    IN  FoldLeft(Put, [index |-> Ends(data), sa |-> Empty(data)], list).sa

(* induce: the L suffixes upwards from the ones before, then the S         *)
(* suffixes downwards, over what they replace.                             *)
Induce(data, placed) ==
    LET len == Len(data)
        Up(state, s) ==
            LET i == state.sa[s - 1]
                b == Sym(data, i - 1)
            IN  IF i > 0 /\ ~SType(data, i - 1)
                THEN [index |-> [state.index EXCEPT ![b] = @ + 1],
                      sa |-> [state.sa EXCEPT ![state.index[b]] = i - 1]]
                ELSE state
        Down(state, s) ==
            LET i == state.sa[len - s]
                b == Sym(data, i - 1)
            IN  IF i > 0 /\ SType(data, i - 1)
                THEN [index |-> [state.index EXCEPT ![b] = @ - 1],
                      sa |-> [state.sa EXCEPT ![state.index[b] - 1] = i - 1]]
                ELSE state
        order == [s \in 1 .. len |-> s]
        up    == FoldLeft(Up, [index |-> Starts(data), sa |-> placed], order)
    IN  FoldLeft(Down, [index |-> Ends(data), sa |-> up.sa], order).sa

SubstringsEqual(data, i, j) ==
    \E k \in 1 .. Len(data) :
        /\ i + k < Len(data) /\ j + k < Len(data)
        /\ \A d \in 0 .. k - 1 : Sym(data, i + d) = Sym(data, j + d)
        /\ IsLms(data, i + k) /\ IsLms(data, j + k)

(* The LMS substrings, in order, get names; if two are equal the names are *)
(* sorted the same way.                                                    *)
Listed(sa, len) == [s \in 1 .. len |-> sa[s - 1]]
SaIs[data \in Seq(Nat)] ==
    LET len    == Len(data)
        lms    == LmsIndices(data)
        rough  == SelectSeq(Listed(Induce(data, FromEnds(data, Reverse(lms))), len),
                            LAMBDA i : i # UNINITIALIZED /\ IsLms(data, i))
        Names[s \in 1 .. Len(rough)] ==
            IF s = 1 THEN 0
            ELSE Names[s - 1] + (IF SubstringsEqual(data, rough[s - 1], rough[s]) THEN 0 ELSE 1)
        named  == [k \in 1 .. Len(lms) |-> Names[CHOOSE s \in 1 .. Len(rough) : rough[s] = lms[k]]]
        sub    == SaIs[named \o <<>>]
        sorted == IF Names[Len(rough)] + 1 = Len(lms) THEN rough
                  ELSE [s \in 1 .. Len(lms) |-> lms[sub[s] + 1]]
    IN  IF len = 1 THEN <<0>> ELSE Listed(Induce(data, FromEnds(data, Reverse(sorted))), len)

-----------------------------------------------------------------------------
(* make_suffix_array: bytes from 1 up, 0 at the end; the LCP of each place *)
(* with the one after it.                                                  *)

Walk(index, length) == [index |-> index, length |-> length, over |-> FALSE]

ShrinklerStart ==
    [step |-> "sort", sa |-> <<>>, lcp |-> <<>>, pos |-> 0, left |-> Walk(0, 0), right |-> Walk(0, 0),
     minPos |-> 0, newMin |-> 0, length |-> 0, buffer |-> {}, found |-> <<>>, matches |-> <<>>]

SortStep ==
    /\ work.step = "sort"
    /\ \E sa \in {SaIs[[i \in 1 .. n + 1 |-> IF i = n + 1 THEN 0 ELSE trial.data[i] + 1]]} :
       work' = [work EXCEPT
           !.step = "begin",
           !.sa = [r \in 0 .. n |-> sa[r + 1]],
           !.lcp = [r \in 0 .. n |-> IF r = n THEN 0
                                     ELSE Shared(sa[r + 1], sa[r + 2], n - Larger(sa[r + 1], sa[r + 2]))]]

-----------------------------------------------------------------------------
(* extend_left, extend_right: on to the next candidate of a side.          *)

IsCandidate(i, minPos) == i < work.pos /\ i >= minPos

Extended(side, walk, minPos) ==
    LET On(w, iter) ==
            LET index  == IF side = "left" THEN w.index - 1 ELSE w.index + 1
                length == Smaller(w.length, work.lcp[IF side = "left" THEN index ELSE w.index])
            IN  IF w.over \/ w.length < MinLength THEN w
                ELSE IF side = "right" /\ length < MinLength
                THEN [w EXCEPT !.length = length, !.over = TRUE]
                ELSE IF IsCandidate(work.sa[index], minPos)
                THEN [index |-> index, length |-> length, over |-> TRUE]
                ELSE IF iter > Patience THEN [index |-> index, length |-> 0, over |-> TRUE]
                ELSE Walk(index, length)
    IN  FoldLeft(On, [walk EXCEPT !.over = FALSE], [iter \in 1 .. n + 1 |-> iter])

BeginStep ==
    /\ work.step = "begin" /\ work.pos < n
    /\ LET place == CHOOSE r \in 0 .. n : work.sa[r] = work.pos
           start == Walk(place, n - work.pos)
       IN  work' = [work EXCEPT
               !.step = "match", !.minPos = 0, !.newMin = 0, !.buffer = {}, !.found = <<>>,
               !.left = Extended("left", start, 0), !.right = Extended("right", start, 0)]

(* next_match, once its buffer has run dry: every candidate of the length. *)
NextLength == Larger(work.left.length, work.right.length)

GatherStep ==
    LET leftwards == work.left.length > work.right.length
        at        == work.sa[IF leftwards THEN work.left.index ELSE work.right.index]
        full      == Cardinality(work.buffer) >= MaxSame
        buffer    == IF ~full THEN work.buffer \cup {at}
                     ELSE IF at > Least(work.buffer)
                     THEN (work.buffer \ {Least(work.buffer)}) \cup {at} ELSE work.buffer
    IN  /\ work.step = "match" /\ NextLength >= MinLength
        /\ work.length \in {0, NextLength}
        /\ work' = [work EXCEPT
               !.length = NextLength, !.buffer = buffer, !.newMin = Larger(@, at),
               !.minPos = IF full THEN Least(buffer) ELSE @,
               !.left = IF leftwards THEN Extended("left", @, work.minPos) ELSE @,
               !.right = IF leftwards THEN @ ELSE Extended("right", @, work.minPos)]

(* The buffer's positions come out first to last.                          *)
PopStep ==
    /\ work.step = "match" /\ work.buffer # {}
    /\ NextLength # work.length
    /\ work' = [work EXCEPT
           !.length = 0, !.buffer = {}, !.minPos = work.newMin,
           !.found = @ \o LET order == Ordered(work.buffer, <) IN
                          [k \in 1 .. Len(order) |->
                              [length |-> work.length, offset |-> work.pos - order[k]]]]

EndStep ==
    /\ work.step = "match" /\ work.buffer = {} /\ NextLength < MinLength
    /\ work' = [work EXCEPT !.step = "begin", !.pos = @ + 1, !.matches = Append(@, work.found)]

ShrinklerNext ==
    /\ Searching("shrinkler")
    /\ \/ (SortStep \/ BeginStep \/ GatherStep \/ PopStep \/ EndStep) /\ Proceeds
       \/ work.step = "begin" /\ work.pos = n /\ Finished

-----------------------------------------------------------------------------
(* The matches of a position, in order: each as long as it says and no     *)
(* longer, none longer than the one before.                                *)
ShrinklerCovers ==
    \A i \in 0 .. Len(work.matches) - 1 :
        LET found == work.matches[i + 1] IN
        \A k \in 1 .. Len(found) :
            /\ found[k].offset \in 1 .. i
            /\ Shared(i - found[k].offset, i, n - i) = found[k].length
            /\ k > 1 => found[k].length <= found[k - 1].length

(* The array is in the order of the suffixes.                              *)
ShrinklerStructured ==
    work.sa # <<>> =>
        \A r \in 0 .. n - 1 :
            LET i == work.sa[r]
                j == work.sa[r + 1]
                l == Shared(i, j, n)
            IN  /\ work.lcp[r] = l
                /\ j + l < n /\ (i + l < n => Byte(i + l) < Byte(j + l))

(* With the patience for all suffixes, the nearest source of every length  *)
(* is among them.                                                          *)
ShrinklerOptimal ==
    \A i \in 0 .. n - 1 :
        \A l \in MinLength .. n - i :
            LET sources == {d \in 1 .. i : Shared(i - d, i, n - i) >= l} IN
            sources # {} /\ Patience >= n =>
                \E k \in 1 .. Len(work.matches[i + 1]) :
                    work.matches[i + 1][k].offset = Least(sources)
=============================================================================
