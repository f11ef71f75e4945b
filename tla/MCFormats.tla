----------------------------- MODULE MCFormats ------------------------------
(* Instances of Formats. *)
EXTENDS Formats

Trial(format, backward, units, runs, lens, offsets) ==
    [format |-> format, backward |-> backward, units |-> units,
     runs |-> runs, lens |-> lens, offsets |-> offsets]

\* Lengths and offsets on both sides of every boundary of the formats' codes.
ByteTrials ==
    {Trial("bolt", FALSE, 3, {2, 127}, {3, 130}, {1, 2, 127, 256}),
     Trial("lzsa1", FALSE, 1, {1, 6, 7, 255, 256, 511, 512}, {3, 17, 18, 255, 256, 511, 512}, {1, 6}),
     Trial("lzsa1", FALSE, 2, {2, 257}, {3, 300}, {1, 256, 257})}

\* The run of zeros of the stream's header goes with the trial.
TscrunchTrials ==
    {Trial("tscrunch", FALSE, 3, {1, 31}, {2, 3, 32, 33, 64}, {1, 2, 94, 255, 256}) @@ [zeros |-> 256],
     Trial("tscrunch", TRUE, 3, {1, 2, 9}, {2, 3, 64}, {1, 2}) @@ [zeros |-> 3]}

Bb2Trials ==
    {Trial("bb2", FALSE, 3, {1, 129}, {2, 3, 128}, {1, 8, 9, 129}),
     Trial("bb2", FALSE, 3, {254, 255}, {2, 3, 255}, {64, 65, 257}),
     Trial("bb2", FALSE, 6, {7, 255}, {2, 3}, {1024, 1025})}

Lzsa2Trials ==
    {Trial("lzsa2", FALSE, 2, {2, 3, 33}, {2, 9, 23}, {1, 31, 32, 33}),
     Trial("lzsa2", FALSE, 1, {17, 18, 255, 256, 767}, {8, 9, 24, 255, 256}, {255, 256, 257, 512, 513, 767}),
     Trial("lzsa2", FALSE, 1, {8705}, {2}, {8704, 8705})}

\* Offsets grow with the matches before them.
ApultraTrials ==
    {Trial("apultra", FALSE, 4, {}, {2, 3, 127}, {1, 127, 128}),
     Trial("apultra", FALSE, 4, {}, {3, 1279}, {1, 1279, 1280}),
     Trial("apultra", FALSE, 3, {}, {4, 31999}, {1, 31999, 32000})}

ExoTables == [lengths |-> <<0, 0, 1, 8>>, one |-> <<0, 1>>, two |-> <<0, 3>>, more |-> <<1, 2, 9>>]
Exo3Trials ==
    {Trial("exo3", FALSE, 4, {1, 2}, {1, 2, 5}, {1, 3, 4}) @@ [tables |-> ExoTables],
     Trial("exo3", FALSE, 3, {1, 255, 257}, {4, 260}, {1, 7, 300}) @@ [tables |-> ExoTables]}

\* A run of 256 literals behind a match.
RepeatTrials == {Trial("exo3", FALSE, 4, {2, 256}, {3}, {1, 2}) @@ [tables |-> ExoTables]}

SubTables ==
    [lengths |-> <<0, 0, 1, 8>>, offsets |-> <<<<0, 1>>, <<0, 3>>, <<2>>, <<1, 2, 9>>>>]
SubsizerTrials ==
    {Trial("subsizer", b, 4, {}, {1, 2, 3, 5}, {1, 3, 4}) @@ [tables |-> SubTables, endm |-> 4] : b \in BOOLEAN}
        \cup {Trial("subsizer", FALSE, 4, {}, {2, 260, 272}, {1, 7, 261}) @@ [tables |-> SubTables, endm |-> 1]}

PuTrial(units, runs, lens, offsets, esc_bits, start_esc, extra, bytes, table) ==
    Trial("pucrunch", FALSE, units, runs, lens, offsets)
        @@ [esc_bits |-> esc_bits, start_esc |-> start_esc, extra |-> extra, bytes |-> bytes, table |-> table]
PucrunchTrials ==
    {PuTrial(3, {2}, {2, 3}, {1}, 2, 1, 0, {65, 200}, <<65>>),
     PuTrial(3, {128, 257}, {2, 256}, {256, 257}, 1, 1, 1, {199}, <<7, 199>>),
     PuTrial(2, {2, 129, 514}, {3}, {1, 512, 513}, 0, 0, 1, {0, 199}, <<>>)}

UpkrDefault == [use_bitstream |-> FALSE, simplified_prob_update |-> FALSE,
                is_match_bit |-> 1, new_offset_bit |-> 1, continue_value_bit |-> 1]
Upkr6502 == [UpkrDefault EXCEPT !.use_bitstream = TRUE, !.simplified_prob_update = TRUE,
                                !.new_offset_bit = 0, !.continue_value_bit = 0]
UpkrTrials ==
    {Trial("upkr", FALSE, 4, {}, {1, 3}, {1, 2}) @@ [config |-> UpkrDefault, bytes |-> {165}],
     Trial("upkr", FALSE, 3, {}, {2, 300}, {1, 2}) @@ [config |-> Upkr6502, bytes |-> {0, 255}]}

ShrinklerTrials ==
    {Trial("shrinkler", FALSE, 4, {}, {2, 3}, {1, 2}) @@ [bytes |-> {0, 255}],
     Trial("shrinkler", FALSE, 3, {}, {9, 255}, {1, 3}) @@ [bytes |-> {90}]}

BitTrials ==
    {Trial("zx0", b, 4, {1, 2}, {1, 2, 5}, {1, 2, 5}) : b \in BOOLEAN}
        \cup {Trial("zx02", FALSE, 4, {1, 2}, {1, 2, 4}, {1, 2, 6})}

AllTrials == ByteTrials \cup TscrunchTrials \cup Bb2Trials \cup Lzsa2Trials \cup ApultraTrials \cup Exo3Trials \cup SubsizerTrials \cup PucrunchTrials \cup UpkrTrials \cup ShrinklerTrials \cup BitTrials
=============================================================================
