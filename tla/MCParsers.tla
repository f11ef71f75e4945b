------------------------------ MODULE MCParsers -----------------------------
(* Instances of Parsers. *)
EXTENDS Parsers

\* Every input of some lengths over an alphabet.
Inputs(lengths, letters) == UNION {[1 .. l -> letters] : l \in lengths}

FinderTrials ==
    {[of |-> "finder", finder |-> f, data |-> d, min |-> 2, window |-> w, longest |-> 4, depth |-> 64] :
        f \in {"chain", "exact", "fast"}, d \in Inputs({7}, {0, 1}), w \in {3, 64}}

IntervalTrials ==
    {[of |-> o, data |-> d, lcpMax |-> l, window |-> 64, room |-> 20, gap |-> 1, full |-> FALSE] :
        o \in {"lzsa2", "apultra"}, d \in Inputs({7}, {0, 1}) \cup Inputs({5}, 0 .. 2), l \in {2, 20}}

ShrinklerTrials ==
    {[of |-> "shrinkler", data |-> d, patience |-> p, same |-> 2] :
        d \in Inputs({8}, {0, 1}), p \in {1, 20}}

TscrunchTrials ==
    \* A run can be as long as the longest match in the code: then no match is looked for.
    {[of |-> "tscrunch", data |-> d,
      limits |-> [rle |-> r, longLz |-> 5, lz |-> 4, literal |-> 3, near |-> 4, far |-> 6, near2 |-> 3]] :
        d \in Inputs({7}, {0, 1}) \cup Inputs({6}, 0 .. 2), r \in {3, 5}}

Bb2Trials ==
    {[of |-> "bb2", data |-> d,
      limits |-> [short |-> <<1, 2, 3, 4>>, long |-> <<2, 3, 5, 7>>, length |-> 5]] :
        d \in Inputs({8}, {0, 1})}

\* The limits of the sampling, the seeding and the rep probes, cut down to these inputs.
ZxTrial(data, slots, near, complete, seeded, beam, lsb) ==
    [of |-> "zx", open |-> FALSE, data |-> data, slots |-> slots, near |-> near, am |-> near,
     complete |-> complete, fast |-> FALSE, seeded |-> seeded, beam |-> beam, seedBeam |-> 3,
     probe |-> 20, span |-> 20, delta |-> 3, lsb |-> lsb, room |-> 2, seedProbe |-> 5,
     min |-> 2, window |-> 64, longest |-> 64]

ZxTrials ==
    {ZxTrial(d, 1, FALSE, FALSE, FALSE, 6, 1) : d \in Inputs({7}, {0, 1})}
    \cup {ZxTrial(d, 4, TRUE, c, c, 4, 7) : d \in Inputs({7}, {0, 1}), c \in BOOLEAN}
    \cup {ZxTrial(d, 1, FALSE, FALSE, TRUE, 3, 3) : d \in Inputs({7}, {0, 1}) \cup {
              <<0, 1, 1, 0, 1, 1, 0, 0, 0, 0, 0, 0>>, <<1, 0, 1, 0, 0, 1, 0, 1, 1, 0, 1, 0>>}}
    \cup {ZxTrial(d, 4, TRUE, FALSE, TRUE, 3, 7) : d \in {
              <<1, 0, 0, 1, 1, 2, 1, 1, 0, 0, 2, 2>>, <<0, 1, 0, 1, 1, 2, 2, 0, 2, 2, 2, 1>>,
              <<0, 2, 0, 2, 2, 2, 3, 2, 2, 2, 1, 0>>}}
    \cup {[ZxTrial(d, 1, FALSE, FALSE, FALSE, 2, 3) EXCEPT !.span = 1] :
              d \in {<<0, 1, 0, 1, 0, 0, 1, 1, 1, 0>>, <<1, 0, 0, 0, 1, 0, 1, 0, 1, 1, 1, 1>>}}
    \cup {[ZxTrial(d, 1, FALSE, FALSE, FALSE, 1, lsb) EXCEPT !.open = TRUE] :
              d \in Inputs({6}, {0, 1}) \cup {<<0, 0, 0, 0, 0, 0, 1, 0, 0>>}, lsb \in {1, 7}}
    \* Offsets dear enough for the rule R6 to pay.
    \cup {[ZxTrial(<<0, 1, 2, 0, 1, 3, 0, 4, 1, 2>>, 1, FALSE, FALSE, FALSE, 1, 22) EXCEPT !.open = TRUE]}

AllTrials == ZxTrials \cup FinderTrials \cup IntervalTrials \cup ShrinklerTrials \cup TscrunchTrials \cup Bb2Trials
=============================================================================
