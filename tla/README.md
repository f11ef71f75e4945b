# A verification development of lzan

TLA+ models of the LZAN compression library (`src/src`), of the generator of
self-extracting C64 programs (`src/lzan-c64`), the TLC runs that check them and
the TLAPS proofs of what matters most. Paths are relative to the repository.

## The system

lzan compresses files for 8-bit machines in fifteen formats and generates 6502
programs that unpack themselves. It is almost entirely sequential: the hard
parts are not races but protocols of a different kind, agreements between two
pieces of code that never see each other run.

* An **encoder** and a **decoder** agree, without any header or length, on what
  every next bit means. Both keep a queue of recent offsets, both know which
  unit may follow which, and both know where in the stream a new byte of bits
  is opened.
* The **parser** optimises a cost model that must equal, bit for bit, what the
  encoder writes.
* The **layout code** places parts of a program at addresses that depend on
  the sizes of other parts, and renders pass after pass until they agree.
* The **generated program** copies pieces of itself around, over memory that
  may hold code still to be run or data still to be read.

| Component | State it keeps | Operations | What makes it correct |
|---|---|---|---|
| bit layer (`zx.rs`) | bytes, mask and index of the open byte, the borrowed-bit flag; reader position | write/read bit, byte, gamma | what is read is what was written, in step with the bytes |
| LZAN grammar (`zx.rs`) | previous unit, queue of four offsets; decoder state | replay commands, decode, decode backwards, decode to a marker | round trip, lockstep of the two queues, exact costs, termination |
| parsers (`parse.rs`, `zx0opt.rs`, `tscrunch.rs`, `bb2.rs`) | DP tables over positions, beams of arrivals with their own queues, graphs of tokens | optimal or near-optimal parse, reduction of a parse | legal units only, predicted cost is the real one, least cost where promised |
| match finders (`matchfinder.rs`, `lzsa2.rs`, `apultra.rs`, `shrinkler.rs`) | suffix array, LCP, interval trees that queries mark, linked lists, hash chains | matches at a position | every reported match is one; no nearer source is missed |
| container (`lib.rs`) | none; five threads | best-of, stored fallback, header | the smallest variant; never longer than stored |
| other codecs | as the LZAN grammar | encode, decode | round trip, termination |
| range coders (`upkr.rs`, `shrinkler.rs`) | interval or state, bits already out, adaptive probabilities | code a bit, finish | the decoder's interval and contexts follow the encoder's; a carry is never lost |
| copy loops (`emit.rs`) | two byte registers, self-modified operands | copy a range | a memmove, for every length |
| layout (`emit.rs`, `builder.rs`) | addresses seen in the pass before, the split of an in-place stream | plan, render, assemble, validate | addresses in the program are the program's |
| program at run time (`emit.rs`) | 64 KB of memory | install, move, decode | runs its own code, finds its data |
| assembler (`asm6502`) | item list, symbol table, reserved ranges | bridge ranges, expand branches, assign labels, emit | the passes settle; the code does what the source says |
| gates, tailoring, zero page (`lzan-c64`) | none | text selection, range tests | only features the stream lacks are removed |

## Modules

| Module | Models | Checked by |
|---|---|---|
| `SymbolFifo` | what the bit layer promises: a write-once tape of symbols | |
| `BitIO` | `BitWriter`, `BitReader`, `BackwardBitReader` | `MCBitIO`, proofs in `BitIOProofs` |
| `EliasGamma` | the gamma code over bit sequences | through `ZxCodec` |
| `ZxCodec` | `encode_with3`, `encode_min_eof`, `predicted_payload_bits`, `decode`, `decode_backward`, `decode_min_eof` | `MCZxCodec`, proofs in `ZxCodecProofs` |
| `LzStream` | what the other codecs share: tape, writer, gamma and interval codes, gap, and the properties of each format | extended by the formats |
| `ByteAligned` | BoltLZ and LZSA1: writer, cost model, decoder, gap | through `Formats`, proofs in `ByteAlignedProofs` |
| `Lzsa2`, `Tscrunch` | the other byte-aligned formats, likewise | through `Formats` |
| `Zx0` (and ZX02), `Bb2`, `Apultra`, `Exo3`, `Subsizer`, `Pucrunch` | the bit-stream formats, likewise | through `Formats` |
| `Upkr`, `Shrinkler` | the formats on range coders, coder and contexts included | through `Formats` |
| `Formats` | all of these side by side, one chosen per behaviour | `MCFormats`, `MCExo3Repeat` |
| `Zx0Opt` | `optimize_zx0_with_bits` and `optimize` (`zx02.rs`) with their pool | `MCZx0Opt`, proofs in `Zx0OptProofs` |
| `Search` | what finders and parsers share | extended by the next ones |
| `MatchFinder` | `find_matches`, `find_matches_exact`, `find_matches_fast` | through `Parsers` |
| `IntervalFinder` | the match finders of `lzsa2.rs` and `apultra.rs` | through `Parsers` |
| `ShrinklerFinder` | SA-IS and `MatchFinder` of `shrinkler.rs` | through `Parsers` |
| `TscrunchParse`, `Bb2Parse` | `crunch_inner`; `Cruncher` | through `Parsers` |
| `ZxParse` | `zx_dp`; `eval_best_cost` and `reduce_commands_zx`; `parse_zx3_inner` and `_complete` | through `Parsers` |
| `Parsers` | finders and parsers side by side | `MCParsers` |
| `Assembler` | `Assembler6502::assemble` with its rounds | `MCAssembler`, `MCAssemblerTables`, proofs in `AssemblerProofs` |
| `Memmove` | what a move promises | |
| `CopyLoop` | `render_move`, `copy_forward`, `copy_backward` as 6502 code | `MCCopyLoop`, proofs in `CopyLoopProofs` |
| `SfxLayout` | `Decruncher::build` | `MCSfxLayout`, `MCSfxSettled`, proofs in `SfxProofs` |
| `SfxBoot` | the generated program running; extends `SfxLayout` | `MCSfxBoot`, proofs in `SfxProofs` |
| `Induction` | every set of naturals has a least element, for the proofs | |

### The bit layer

`BitIO` has one action per operation of the writer and of the readers. A byte
is a function from bit positions to bits, so that "the mask" is a position and
the byte width `W` is a parameter. The reader is driven by the kinds on the
tape: that the decoder asks for the kinds the encoder wrote is the business of
`ZxCodec`. `ZxCodec` in turn works on a stream of whole symbols, which is
what `BitIO` is shown to implement (`ImplementsFifo`).

### The grammar

`ZxCodec` leaves the parser open: an action appends any unit the grammar
allows and extends the input with the bytes the unit stands for, so one run
covers every legal parse of every input within the bounds. `Unit` collects what
all kinds have in common, the per-kind actions give prefix, body, queue and
cost. `Finish` hands the stream to a decoder, which is one action per state of
its machine. A literal of a position comes from the `alphabet` of the configuration, so that long inputs
can be made of distinct bytes (where a wrong offset is always visible) and short
ones of all bytes.

Bounds. `MCZxCodec` tries short inputs and long ones. Short: up to four bytes,
two letters, runs of two, matches of three, all eight grammars, both
directions; one low offset bit and an end marker of 2 so that both parts of an
offset vary. Long: positions told apart, in the grammars with four slots: a literal, a match at
the initial offset and three new ones fill the queue, and the literal after them
(position 10 of 12, or 8 of 10) lets every slot be named and moved.

Fairness: weak fairness of the decoder alone. It is a loop that nothing
interrupts; nobody makes an encoder finish.

### The other formats

`LzStream` holds what the codecs of `src/src` other than LZAN's own share, one
module per format adds its writer, its cost model and its decoder with the gap
it measures, and `Formats` puts them side by side. `ByteAligned` is a
specification of its own, since it is proved about. As in `ZxCodec` the parse is
any legal one. An input byte is the position at which it first stood, so every
wrong length or offset changes the output. A symbol carries the number of bytes
consumed once it is read (the lockstep proved of `BitIO` in `zx.rs`, which the
other writers repeat), so `Consumed` is what a decoder's reader
says, and `peak` is how far output really ran ahead at any write. The gap
functions look at a few places only; `GapEnough` says that these are enough.
ZX02's looks after the flag of the next unit was read. That hides no byte
because a unit's bits are odd in number, so that a flag is never the first bit
of a byte; a byte of four bits keeps that parity.

The byte formats run with their real constants, since their boundaries (7, 15, 127, 130,
255, 256, 511, 512) are what matters, and so do ByteBoozer 2, LZSA2, aPLib, PuCrunch and the
contexts of the range coders; ZX0 and ZX02 run with bytes of four bits,
one low offset bit and an end marker of 4, so that an offset has both parts and
ZX02's wrap happens after four bytes. Exomizer and Subsizer choose tables of
intervals for their inputs: a trial has small ones, with an interval of no extra bits,
one whose extra bits span a byte, and a gap before it. Backward streams of BoltLZ, LZSA1 and
ZX02 are reversals of forward ones and need no trial of their own; those of ZX0,
TSCrunch and Subsizer have one.

Legality of a unit is what the parsers guarantee: no two literal runs in a row
and a match at the last offset only behind literals (ZX0, ZX02), no value above
256 (ZX02), PuCrunch's escapes chosen so that a literal that looks like one is
escaped. That the parsers of ZX0 and ZX02 do guarantee it is `Faithful` of `Zx0Opt`.

Exomizer has a fault there. A literal node of 256 bytes is written as two
tokens, so that no length has a low byte of 0 (which the 6502 loop cannot
count). The encoder decides from the nodes whether the match behind it has a
flag for the last offset, the decoder from the number of tokens since the last
match; the decoder misses the flag. `MCExo3Repeat` is that input; the trials of
`MCFormats` put such a run first, where no match comes before it.

LZSA1 and LZSA2 have one for the longest input they take, a block of 65536 bytes
without a match; see the differences below.

### The range coders

`Upkr` and `Shrinkler` keep a coder record beside the tape. While upkr encodes,
the tape holds the decisions with the probabilities they were made at; `finish`
codes them last to first into a rANS state and sheds units of a byte or a bit; a
phase of its own steps through that. Shrinkler's coder adds to an interval and
carries into bits that have already left, as far back as needed. The decoders
read the coded stream and adapt their own contexts; `RoundTrip` is that both
adaptations meet. `IntervalBits` is 15, one less than the code's 16, since TLC counts in 32 bits.
`DecoderReturns` has weak fairness of the finish and of the decoder.

### The match finders and the parsers

`Parsers` runs one search at a time on a trial's input. `work` is the search's
own state, its step included. A trial has the limits of its search (window, longest match,
depth, beam, lengths of tokens), cut down so that inputs of seven letters meet
them: the operators named `CodeLimits` and the comments give the code's.

* `MatchFinder` has the three finders. The reference is the Pareto front of a
  position: for every length the smallest offset. `find_matches_fast` builds the
  suffix array by doubling, the LCPs with Kasai's walk, range minima in a
  sparse table, and sweeps the LCP intervals from the root, splitting linked
  lists of suffixes while it goes; `FinderStructured` says of every list still
  to be split that it links its interval in text order.
* `IntervalFinder`: a tree of intervals whose references are numbers with tag and
  visited bits, as in the code, since it compares them whole. A query marks its
  way to the root, and finds earlier queries by their marks. Queries come once
  for each position, in order. LZSA2 adds the nearer sources of shorter lengths
  (`enrich_pareto_v2`).
* `ShrinklerFinder`: SA-IS (recursion included, as a recursive function of the
  reduced string), the LCP by Kasai's walk, and the walk out from a suffix with its heap
  and its patience.
* `TscrunchParse`: both parses of `compress_tscrunch_best`; `TscrunchOptimal`
  compares the shortest path with a recurrence over all tokens of the graph.
* `Bb2Parse`: chains of digrams that shorten as the parse passes, runs kept by
  their ends. `Bb2Structured` recomputes the price of each node from its path.
* `ZxParse`: the beam search is followed transition by
  transition (literal, explicit, extra, rep, near-reps by front and by probe). `ZxStructured` replays the chain of
  every arrival as the encoder would: the price kept is the encoder's, the best
  one's exactly. With `open` a trial has no search: the reduction starts from every
  parse the encoder can code, because its rules are written for wider inputs
  than TLC can parse. `ZxCovers` and the last line of `ZxStructured` say that
  rounds and reduction leave a parse of the input that the encoder can code.

Bounds. Inputs of 5 to 8 letters over two or three, all of them, and a few of
9 to 12 found by search that make a rare step happen (a second round, a rep
across two seeded offsets, a rule of the reduction). The rule R6 pays only when an
offset costs 20 bits or more; one trial has offsets that dear. Code left out of `ZxParse`: the older `parse` (218-437),
the variant behind the environment variable `ZX_OLDSEED`, and the ZX0 parse that
`parse_zx3_complete` compares with.

### The assembler

`Assembler` walks one item per action through the rounds of `assemble`: reserved
ranges (`apply_reserved_ranges`) with the bridges of earlier rounds recognised
and remade, then long branches (`fix_long_branches`) with the shift of later
symbols, until neither grows the program; then labels and bytes. An item is a
record; `id` is the user's line. `RunsAlike` compares the machine code with the source
through a walk over the emitted items: from every line, each way to go leads to
the line the source names. `MCAssembler` scales the address space to 64, the
reach of a branch to 6 and the zero page to 4: all lists of five lines with one
to three branches around no, one or two ranges, and odd sources for the rest.

A name in the zero page that is defined behind its use counts three bytes in the
first pass and two in the second. The properties except it (`DefinedLate`): labels
behind it are off, and with 125 such uses before an expanded branch the passes do
not settle, though `assembler.rs:237` says "convergence is guaranteed".

### The parser of ZX0 and ZX02

`Zx0Opt` follows the inner loop: a step takes one offset at one position, with
all that `allocate` and `assign` do. The free list is a sequence of ids, the
slots (`last_literal`, `last_match`, `optimal`) are one function in the record `pool`,
and a reference is an id, as in the code. `PoolExact` says that counting is
exact, so that nothing in use is recycled, though a dead block gives up its own
reference late. `Exact` compares the cost with a reference kept in the history
variable `least`: by a plain recurrence over positions, kinds and last offsets.

Neither the reference nor the parser takes a byte as a literal that the last
offset would copy, though the format allows it; among such parses the parser is
exact on every input (`CheapestIsExact`). See "Differences" for the others.

`Faithful` runs the writers over the parse: `Write` decides as they do what a unit is
and counts what they put out for it (`BitsWritten`), which is not taken from the parser's
costs. For ZX0 the two are equal. For ZX02 they are not: `offset_bits` looks at the
offset, the writer at the offset less 1, and at some multiples of 128 the parser
charges two bits too many. So `Faithful` says "no more than counted" of ZX02, and
"as many" of a parse with no new offset that is such a multiple (`Fair`); and that a value
without a code (`Fits`) is written only where its prohibitive cost was counted.

Real costs are used (8 bits a literal, 128 offsets to a low byte), and for ZX02
also a cap of 4 instead of 256, so that runs beyond the cap, which are given a
prohibitive cost, occur. With that cap 2 offsets share a low byte and 6 is the largest:
`MAX_OFFSET_ZX02` is 255 * 128, the most whose upper part is not the end marker's, and
offset 2 is one ZX02 charges too much. All inputs of nine bytes over two letters are 1022 per variant; the
one of thirty bytes is there because the initial cost of the search for the best
length matters on no shorter one we found.

The pool is said to be bounded by its slots, O(n + window). It is not: blocks
on the way to a block in a slot live as well. No run states a bound.

### The copy loops

`CopyLoop` runs the generated code: Y and X are bytes that wrap, the operands of
LDA and STA are addresses that wrap, an action is one pass through the loop
body. The biased window and the top chunk are the values the generator puts
into the operands. `Legal` is the check of `validate_plan` that a move ends inside
the address space; it adds the same of the source, which `validate_plan` does not check
but which is a piece of the image or memory the caller names. `Memmove` is the specification it implements.

### Layout and run time

`SfxLayout` follows `build`: `Plan`, then per pass `Render` (with the in-place
`Split` search as steps of its own, since that it ends is a property) and
`Assemble`, and `Validate`. A program is its sizes and addresses. The sizes in
`MCSfxLayout` are the ones of the code: 13, 22 and 23 bytes for the loops, 3
for a jump. `Split` and `Assemble` are under weak fairness because `build` is
a plain loop.

`SfxBoot` runs what was built over a memory in which every byte says what it is
(`<<"payload", 3>>` is the fourth byte of the stream), so that "the code that
runs next is intact" and "the stream is where the decoder looks" are equalities.
`Careful` collects what `validate_plan` leaves to its caller; the properties
that need it say so.

## Runs

| Run | Question | Bounds |
|---|---|---|
| `MCBitIO` | is every symbol read back, in step? | bytes of 2 bits, 5 symbols |
| `MCZxCodec` | does every parse decode, in step, to a stop? | 4 bytes, all grammars, both directions; 12 bytes with the queue of four full |
| `MCFormats` | do thirteen other formats agree with their decoders, cost models and gaps? | parses of 1 to 6 units, lengths and offsets at every boundary |
| `MCExo3Repeat` | ... Exomizer with a run of 256 literals behind a match? (no) | 4 units |
| `MCZx0Opt` | are the parsers exact and their recycled blocks safe? | every input of 9 bytes over 2 letters, one of 30 |
| `MCParsers` | do finders and parsers find what is there, and the best of it? | every input of 5 to 8 letters over 2 or 3, a few of 9 to 12 |
| `MCCopyLoop` | is every move a memmove? | 16 bytes, pages of 4: every source, destination, length |
| `MCSfxLayout` | do passes and split end, is an in-place bulk right? | real sizes, about 5000 configurations |
| `MCSfxSettled` | is the layout always settled? (no) | the payload moves of the above |
| `MCSfxBoot` | does a program keep running its own code on its own data? | 40 bytes, about 20000 configurations |
| `MCAssembler` | does the machine code do what the source says, and do the passes settle? | 5 lines, 64 addresses, two ranges |
| `MCAssemblerTables` | does a label in front of data pushed past a range name the data? (no) | as above |

## Differences between code and comments

Three have a run of their own (`MCExo3Repeat`, `MCAssemblerTables`,
`MCSfxSettled`). Others that came up, and that the passing runs leave out of their inputs:

* `zx.rs:842`: the marker of an empty input has no connecting flag, so a decoder
  that is not stopped by `orig_len = 0` reads it as a literal run and does not
  return; `zx.rs:988` says every marker stream terminates itself. `MCZxCodec`
  does not ask the gap functions about an empty input.
* `lzsa2.rs:1597`, `lzsa1.rs:533`: a block of exactly 65536 bytes without a match (no
  pair of bytes in it twice, say) is one command of 65536 literals, whose count is
  written in 16 bits, as 0. The decoder takes none and goes on among the literals, which
  the model shows as a decoder that stops (`HasRun`): with 65535 literals TLC finds
  the block decoded, with 65536 not. `compress_lzsa2` (2000) and `compress_lzsa1` (60)
  refuse only what is longer; `lzsa2.rs:1993-1994` promises an empty vector "if `input`
  exceeds 64 KB, the raw-block cap", and this one does not. `StreamAssumption` keeps such a
  run out of what is proved.
* `emit.rs:908`: with `payload_in_place` and `fold_mover_into_stage` together, a
  `move_data` is dropped without an error: the head move takes the place of the
  folded moves (970), which are then not made inline either (1088). `DataMoved` is
  for the other layouts; no property covers this one.
* `emit.rs:767`: scratch may lie anywhere on the image of a staged program, on an
  embedded payload that is still to be read as well.
* `zx0opt.rs:285`: a byte among literals that repeats at the last offset always
  becomes a match. Of 25 literals with one repeat the parser makes 211 bits where
  one run takes 209; the comment (7-8) says exact by construction.
* `parse.rs:462` calls the parser's costs "bit-exact vs the encoder". For an offset that is
  in the third and in the fourth slot the parser charges the fourth slot's
  code, a bit shorter than the one the encoder finds first (`twins` in `ZxParse`).
* `parse.rs:1275`: `visited` is said to be reset for each insertion; it is not.
* `tscrunch.rs:338-350`: the closest source for every length, but position 0 is
  never one.
* `bb2.rs`: the parser charges a literal run of 255 or more less than the writer writes.
* `zx02.rs:69`: an offset that is a multiple of 128 where the gamma code grows (128,
  384, 896, ...) is charged two bits more than `zx02.rs:480` writes (`Faithful` allows it).
* `assembler.rs:237`: see above. The doc of `asm6502` bounds the rounds by the
  number of branches + 2, the code by 4 times the branches and the ranges + 16.

## Proofs

Each theorem holds for every value of the constants that the named assumptions
allow. All those named here but `KnownSettles` state a property a run checks on a small instance.

| Module | Theorems |
|---|---|
| `BitIOProofs` | `TypeCorrect`, `ReadBackHolds`, `LockstepHolds`, `FullyConsumedHolds`, `ImplementsFifoHolds` |
| `ZxCodecProofs` | `TypeCorrect`, `DecoderInverts` (`RoundTrip`), `DecoderMirrors` (`Mirrored`), `CostIsExact` (`CostExact`) |
| `CopyLoopProofs` | `TypeCorrect`, `SourceIntactHolds`, `NoOvershootHolds`, `ImplementsMemmoveHolds` |
| `SfxProofs` | `LayoutTypeCorrect`, `BulkLoadsInPlace` (`BulkInPlace`), `KnownSettles`, `OnlyStaleInWindow` (`StaleOnlyInWindow`), `CodeIntact` (`RunsOwnCode`), `StreamArrives` (`StreamReady`), `DataArrives` (`DataMoved`) |
| `ByteAlignedProofs` | `TypeCorrect`, `DecodesWhatWasEncoded` (`RoundTrip`), `StaysInStep` (`InStep`), `CostsAreExact` (`CostExact`), `GapIsEnough` (`GapEnough`) |
| `Zx0OptProofs` | `TablesInRange` (`TypeOK`), `PoolStaysExact` (`PoolExact`), `ParseStaysFaithful` (`Faithful`), `CheapestIsExact` (`Exact`) |
| `AssemblerProofs` | `TypeCorrect`, `RangesKeptClear` (`ReservedClear`, under conditions) |

**`BitIOProofs`**, for every byte width and any number of symbols. The invariant
needed is about history: for every symbol written, where its bits are in the tape of
bytes as it stands now (`TapeInv`), how the writer's state moved from symbol to symbol
(`HistInv`), what the open byte still has clear (`OpenInv`), and that the reader, after
k symbols, is in the state the writer was in before symbol k + 1 (`ReaderInv`).
Reading back is then a lookup.

**`ZxCodecProofs`**, for every grammar, alphabet, length of input, and width of the
low byte: every legal parse decodes to the input, forwards and backwards. None of the
properties is inductive, since a decoder in the middle of a unit knows neither the
output nor the queue the unit will leave. `IInv` therefore keeps the history: the
`marks` hold for every unit what it is, its symbols and the bytes it covers;
`EncoderInv` says that each unit is legal after the one before it (`Legal`) and lies
in the stream where that one ended (`Placed`); `DecoderInv` that the decoder stands at
a mark, with the output and the queue of that mark, or has read the head of the unit
behind it and has the rest before it (`InUnit`), or is in the end marker. The step of
a decoder is then that a code that lies at a position reads back: `GammaAtPlace` and
its kin prove this of the gamma code, whose length and digits are the chain of the
value's halves (`Halves`), and of the two prefix trees. That no offset reads as the end
marker follows from `EOF_MAX_OFFSET`. Assumptions: one to four slots, near-reps only
with four, the end marker only with one, as `encode_with3` asserts and its callers
keep; the end marker's gamma value is at least 2 and a low byte has a bit range.

**`CopyLoopProofs`**, for every page size and every legal move. The invariant splits
by code shape: what k says about x, y and the operands (`SingleInv`, `BiasedInv`,
`BackwardInv`), how many bytes are done (`CountInv`), and what memory holds below and
above that point (`MemInv`). Assumptions: a byte has at least two bits, a page at
least two values and the address space is a page of pages.

**`SfxProofs`, the layout**, for every configuration and any sizes of the loops. `LayoutInv`
says that what is validated is one `Layout` of the addresses the last pass assumed
(`ProgramInv`), rendered with a split that is a fixed point (`PassInv`); that a fixed
point puts the bulk where it is decoded is arithmetic. `KnownSettles` adds to the
violated `BuiltSettled` when it does hold: without a move of an embedded payload two
passes are enough. `OnlyStaleInWindow` says what is left when there is one
(`OneMove`): three passes that still differ have found the payload at two places, the
copy descends from the lower one only, and so ends between them; the two are at most
a loop and an install loop apart (`Window`); and a copy that ends there overlaps the
image, so that `validate_plan` lets it pass only from a blob. `ChainInv` keeps what
the last two passes observed, `SplitsOnce` shows that an in-place layout is the same
in every pass. A first window without the install loop was refuted by `PageMoves` of
`MCSfxLayout`, blobs that cross a page. With several payload moves the property is
checked for two; for three it fails (TLC: moves to a payload's length above it, each
of whose loops the one before makes longer, so that the fourth pass still grows). Assumptions:
`Passes` is at least 2, and at least 3; `build` makes four.

**`SfxProofs`, the boot**, for every program that `build` accepts and a caller who is
`Careful`. `BootInv` says at each pc, and for each install and copy made so far, what
every byte of memory is: the blobs before `step` are where they run, the copies before
`step` have arrived, everything else is as loaded. What makes the step go through is
`validate_plan`: images and run ranges are disjoint where both are needed, and the
lemmas about `Up` and `Down` say that the direction `Descending` chooses copies
right. `Careful` names what the code leaves to its caller: blobs end in memory and are
clear of one another, of what is moved and of the stream; an external stream is clear
of the image; no move lands on the source or the target of another.

**`ByteAlignedProofs`**, for every parse of every input, of BoltLZ and LZSA1. The
property is again about two that never meet: what the encoder wrote as a number
in one of four codes is read back from symbols that lie somewhere on a tape, by a decoder
that knows neither. `AlignedInv` therefore says what lies on the tape between two marks
(`UnitAt`: a token, the lengths in their codes, the offset, a run that is the input
there) and that the input there is what the unit stands for (`Copies`: a match repeats what is `off` before it).
The last unit is one with an end marker. The decoder stands at a mark, with that much
of the input as its output, or behind the literals of a command, whose rest is still before
it (`InCommand`); a step reads back one part, and its output grows by what the input holds
there. The first byte of a length's code decides its reading, and a length of one
byte must not look like an escape: it leaves at most 248 of literals and 237 of a
match, and the escapes begin at 249 and 238. `TapeTotal` turns the sum of
the symbols' sizes into the writer's count of bytes, by which `CostExact` is an equation
of each unit. For the gap, output runs ahead of the stream most at the end of a
match; `AtMark` says that there the next look will see it, and that literals, which take
at least as much from the stream as they give, never do (`peak`). The `Spec` of
these theorems is `ByteAligned`'s own, whose `Next` is a disjunct of `Formats`'.
Assumptions: a byte has a bit, and lengths and offsets have 16 bits (`StreamAssumption`), the bounds of `MAX_OFFSET` and `MAX_VARLEN` (`lzsa1.rs:12-13`).

**`Zx0OptProofs`**, for every input, limit, cap and low-byte range. The difficulty of
the pool is the block between `allocate` and `assign`: its count is 0 and it is not
free. `Good(P, X)` says that P is a pool whose counts are exact (`Counted`) and whose
ghosts are the blocks with count 0 apart from X (`Free`); `allocate` takes `Good(P, {})`
to `Good(Q, {new})` and `assign` takes that back (`AllocExact`, `AssignExact`).
The loops need more: `assign` on NIL does not occur, because there is a block at every
position the search for the best length looks back to. `Fit` says so, with the order
that makes it true: what a table holds for an offset still to come ends before the
position, and offset 1 always has a last match and, behind the first position, last
literals. `Inv` adds that runs of matches are shorter than the position, so that a
match never reaches back before the input.

That the blocks are a parse (`Faithful`) needs `LinkInv` besides. `Linked` says of each
block what the writer will take it for (`IsUnit`): a repetition stands behind literals
that follow a match at its offset, a new match behind neither these nor, in ZX0, a match
at its offset. Nothing in the code compares the two; it is a consequence of the costs.
A new match that might be a repetition lost to it, since `NewOffset` gives way to the
last match, and a repetition costs no more (`RepCheaper`). One behind a match at the
same offset would make, with it, a longer copy, which the run of matches covers
(`Runs`), so that it was among the lengths compared; it costs less (`RepLonger`,
`NewLonger`, from the subadditivity of the logarithm), so that `Grown`, which keeps the
cheapest length (`BestOnes`), did not choose the shorter one. For this the last
literals of an offset must end where its run begins (`Placed`), and any older block of
literals at that offset must end before them (`Latest`). A recycled block is no
exception: `allocate` takes one no block refers to, so a chain stays the parse it was.
`Knows` then follows the writer along the chain. `LiteralsCharged`, `RepCharged` and
`NewCharged` compare what it puts out for a unit with what the parser counted; for
an offset of ZX02 that takes that the quotients of an offset and of the one below differ by 1
at most, and only at a multiple (`Quotient`), that the logarithm does not fall (`LogGrows`),
and that no offset reaches the end marker's upper part, from the assumption
`limit <= (cap - 1) * low` (`MAX_OFFSET_ZX02`).

That the cheapest block is the cheapest parse (`Exact`) needs `CostInv`. The reference
is a table of all costs, by position, last offset and kind, filled by rows; the parser
keeps one block per offset and kind. `Rows` says why that is enough: a row holds at
most one cost for an offset and a kind (`Single`), because a position ends a match at
an offset if its byte repeats there, and literals if it does not (`Shaped`), so that
only the start of a new match is a choice. `Told` then says of each offset that its
last match and its last literals carry the cost the reference has at their end, and
that no byte has repeated since; `Optima` that the cheapest block of a position
attains a cost of its row and none is less. A step takes one row to the next
(`MatchCosts`, `LiteralsCosts`), where the search for the best length has compared
every start (`BestOnes`), and the last literals before a repetition are all there are.

**`AssemblerProofs`**, for every source and every set of ranges `add_reserved_range`
admits. `Sorts` is the type invariant with what carries it: the table of a walk never
loses a name (`WalkKeeps`), so that an origin that was defined where it stands is
defined when it is emitted. That nothing is emitted into a range is not inductive,
because it is decided a round earlier, by a pass that works on another list with
another table. `Marked` says that the lists hold nothing but whole bridges, through
expansions and moved triples, so that `detect_bridge` finds what an earlier round put
there and nothing else; `Settling` that, as long as a round has changed nothing, its
output is a copy of its input and there are addresses (`Course`) at which every item
is clear; `Laying` that the emission runs along those addresses. Two conditions
remain. `Unwrapped`: the reserve pass counts in 32 bits, the emission in 16, so that
code running past the end of memory may come round into a range. And for the JMP of a
bridge there is to be one range (`OneRange`): `RemakeBridge` looks at the range its
bridge leads over only, and with several it is the addresses of successive rounds
that would have to be compared. The lines of the program itself are clear of any
number (`LinesClear`).

The only induction used is a proved one: a set of naturals that is not empty has a least
element (`LeastNatural`), so that a recursive function is unfolded at the smallest
argument where a claim about it fails. `RECURSIVE` operators are out of reach and
occur in no module with a theorem.

Only model-checked: liveness (`DecoderReturns`, `Terminates`, `BuildReturns`), which
this prover does not treat; `StaleOnlyInWindow` of two payload moves; that
assembled code does what the source says, that the rounds settle and no branch is
expanded needlessly (`RunsAlike`, `Converges`, `NoNeedlessJump`); the other
eleven formats of `Formats`; and the finders and parsers (`Parsers`). Their state is a few tables,
but their properties compare whole results with recurrences over the input.

## Plan

In order of what a fault would cost the user: a stream that does not decode, a
program that overwrites itself, a result that is not the best one.

1. Done: bit layer, LZAN grammar, copy loops, layout, run time; thirteen formats
   with their decoders and gaps, range coders included; the parsers of ZX0,
   ZX02, TSCrunch, ByteBoozer 2 and LZAN, five match finders; the assembler. Proved:
   all safety properties of the first five but one, of BoltLZ and LZSA1 and of ZX0's
   parser, the assembler's types and reserved ranges.
2. The gap functions of `zx.rs` with an in-place decode, in `ZxCodec`.
3. The arrivals parsers of `lzsa1.rs`, `lzsa2.rs` and `apultra.rs` on the beam of
   `ZxParse`; the search for tables of `exo3.rs` and `subsizer.rs`.
4. Zero-page safety: what a decoder needs is not what the caller keeps.

Theorems still wanted, in this order: the jumps of bridges around several ranges in
`Assembler`; the round trip of LZSA2, whose nibbles share bytes.

## Not modelled

The header, the stored fallback and the choice of the smallest of five independent
threads (`lib.rs`) have no state beyond a call. The registry is a table, gates
and tailoring cut 6502 text whose meaning lies outside the Rust sources. The
arrivals parsers and the table searches named in the plan are left out: the
formats allow any parse they could make, so that what they choose affects size
and not correctness. `zx_best_of`'s ties go to the first of the joined threads,
so threads make no result depend on timing.

Also left out are the 6502 sources of the decoders, which are third-party or
mirror the Rust decoders modelled here, the file and argument handling of
`main.rs`, and the benchmarks.
