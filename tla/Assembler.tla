----------------------------- MODULE Assembler -----------------------------
(***************************************************************************)
(* asm6502's Assembler6502::assemble: a list of items is made to fit by a  *)
(* loop of two passes, one that bridges the reserved ranges with a JMP and *)
(* zero fill, one that expands the branches that do not reach into an      *)
(* inverted branch over a JMP; then labels get their addresses, and the    *)
(* items are emitted.  Sizes depend on symbols and symbols on sizes.       *)
(*                                                                         *)
(* One action walks over one item of one pass.  Text is left out: an item  *)
(* is a record of its kind, an operand is a name or <<"at", address>>, and *)
(* `id` stands for what the user wrote on the line (0: the assembler's own *)
(* item).                                                                  *)
(***************************************************************************)
EXTENDS Integers, Sequences, FiniteSets, SequencesExt

CONSTANTS
    Sources,      \* the programs: [items, ranges, origin]
    AddressSpace, \* 65536 in the code
    Reach,        \* a branch reaches -Reach .. Reach - 1 (128 in the code)
    ZeroPage      \* addresses below this one take the two-byte form (256)

ASSUME SizesAssumption ==
    /\ AddressSpace \in Nat /\ Reach \in Nat /\ ZeroPage \in Nat
    /\ Reach >= 4 /\ 2 * Reach < AddressSpace

JmpSize == 3
BranchSize == 2

VARIABLES
    source,   \* the program being assembled
    items,    \* `instructions`: the list the passes rewrite
    pos,      \* the next item of the pass
    made,     \* the list the pass is building (`output`, `fixed`)
    pc,       \* current_address
    symbols,  \* the symbol table
    skips,    \* skip_label_counter
    guard,    \* passes left before the loop gives up
    grew,     \* the passes of this round that changed the list
    laid,     \* what has been emitted, each item with its address
    phase

vars == <<source, items, pos, made, pc, symbols, skips, guard, grew, laid, phase>>

-----------------------------------------------------------------------------
(* Items.                                                                  *)

Op(id, size)       == [kind |-> "op", id |-> id, size |-> size]
Data(id, size)     == [kind |-> "data", id |-> id, size |-> size]
Refer(id, name)    == [kind |-> "refer", id |-> id, to |-> name]
Branch(id, name)   == [kind |-> "branch", id |-> id, to |-> name, inverted |-> FALSE]
Jump(id, operand)  == [kind |-> "jump", id |-> id, to |-> operand]
Label(name)        == [kind |-> "label", id |-> 0, name |-> name]
Constant(name, op) == [kind |-> "constant", id |-> 0, name |-> name, to |-> op]
Org(operand)       == [kind |-> "org", id |-> 0, to |-> operand]
Pad(n)             == [kind |-> "pad", id |-> 0, size |-> n]

At(address) == <<"at", address>>
SkipName(n) == <<"skip", n>>

(* What the user can write: lines with a number of their own, labels,      *)
(* constants and origins.                                                  *)
Address == 0 .. AddressSpace - 1
Names   == {"user"} \X Nat
Operand == ({"at"} \X Address) \cup Names
Written ==
    [kind : {"op", "data"}, id : Nat \ {0}, size : Nat]
    \cup [kind : {"refer", "jump"}, id : Nat \ {0}, to : Operand]
    \cup [kind : {"branch"}, id : Nat \ {0}, to : Names, inverted : {FALSE}]
    \cup [kind : {"label"}, id : {0}, name : Names]
    \cup [kind : {"constant"}, id : {0}, name : Names, to : Operand]
    \cup [kind : {"org"}, id : {0}, to : Operand]
ASSUME SourcesAssumption ==
    \A s \in Sources :
        /\ s.items \in Seq(Written) /\ s.origin \in Address
        /\ s.ranges \subseteq [start : Nat, end : Nat] /\ IsFiniteSet(s.ranges)

(* ExpressionEvaluator: a number, or a symbol if it is defined by now.     *)
Defined(operand, table) == operand[1] = "at" \/ operand \in DOMAIN table
Value(operand, table) ==
    IF operand[1] = "at" THEN operand[2] ELSE table[operand]

(* handle_absolute_or_zp, and instruction_size for an operand that is not  *)
(* defined yet: the three-byte form.                                       *)
FormSize(operand, table) ==
    IF Defined(operand, table) /\ Value(operand, table) < ZeroPage THEN 2 ELSE 3

(* instruction_size: what assemble_instruction would emit now.             *)
SizeOf(item, table) ==
    CASE item.kind \in {"op", "data", "pad"} -> item.size
      [] item.kind = "branch" -> BranchSize
      [] item.kind = "jump"   -> JmpSize
      [] item.kind = "refer"  -> FormSize(item.to, table)
      [] OTHER -> 0

(* SymbolTable::insert                                                     *)
Insert(table, name, value) ==
    [x \in DOMAIN table \cup {name} |-> IF x = name THEN value ELSE table[x]]

(* Mutant: the walk does not wrap.                                         *)
EnterWide(walk, item) ==
    CASE item.kind = "label" ->
            [walk EXCEPT !.table = Insert(@, item.name, walk.pc)]
      [] item.kind = "constant" /\ Defined(item.to, walk.table) ->
            [walk EXCEPT !.table = Insert(@, item.name, Value(item.to, walk.table))]
      [] item.kind = "org" /\ Defined(item.to, walk.table) ->
            [walk EXCEPT !.pc = Value(item.to, walk.table)]
      [] OTHER ->
            [walk EXCEPT !.pc = @ + SizeOf(item, walk.table)]

(* One item of a walk that defines each label where it stands.             *)
Enter(walk, item) ==
    CASE item.kind = "label" ->
            [walk EXCEPT !.table = Insert(@, item.name, walk.pc)]
      [] item.kind = "constant" /\ Defined(item.to, walk.table) ->
            [walk EXCEPT !.table = Insert(@, item.name, Value(item.to, walk.table))]
      [] item.kind = "org" /\ Defined(item.to, walk.table) ->
            [walk EXCEPT !.pc = Value(item.to, walk.table)]
      [] OTHER ->
            [walk EXCEPT !.pc = (@ + SizeOf(item, walk.table)) % AddressSpace]

(* rebuild_symbols, the head of fix_long_branches and the first pass of    *)
(* assemble: the address and the symbols behind each item of a list.       *)
Walk(list) ==
    LET walk[k \in 0 .. Len(list)] ==
            IF k = 0 THEN [pc |-> source.origin, table |-> [name \in {} |-> 0]]
            ELSE Enter(walk[k - 1], list[k])
    IN  walk
Symbols(list) == Walk(list)[Len(list)].table

(* SymbolTable::shift_above                                                *)
ShiftAbove(table, pivot) ==
    [name \in DOMAIN table |->
        IF table[name] > pivot
        THEN (table[name] + JmpSize) % AddressSpace ELSE table[name]]

(* calculate_branch_distance: the difference is cut to 16 bits before the  *)
(* test, handle_branch tests it uncut.                                     *)
Signed(n) == ((n + AddressSpace \div 2) % AddressSpace) - AddressSpace \div 2
InReach(d) == d \in -Reach .. Reach - 1
Distance(from, to) == to - (from + BranchSize)

-----------------------------------------------------------------------------
(* Reserved ranges.                                                        *)

(* add_reserved_range: what it lets in.                                    *)
Admissible(ranges) ==
    /\ \A r \in ranges : r.start <= r.end /\ r.end < AddressSpace - 1
    /\ \A r, s \in ranges : r # s =>
          \/ r.start - s.end - 1 >= JmpSize
          \/ s.start - r.end - 1 >= JmpSize

Larger(a, b) == IF a > b THEN a ELSE b

(* A range the bytes at..at+size-1 would enter, or leave no room before.   *)
Conflicts(at, size) ==
    {r \in source.ranges :
        at < r.start /\ at + size > Larger(r.start - JmpSize, 0)}
Lowest(ranges) == CHOOSE r \in ranges : \A s \in ranges : r.start <= s.start

(* Mutant: the fill is one byte short.                                     *)
BridgeShort(at, r) ==
    <<Pad(0), Jump(0, At(r.end + 1)), Pad(r.end - (at + JmpSize))>>

(* The three items of a bridge, the JMP at `at`: marker, JMP, fill.        *)
Bridge(at, r) ==
    <<Pad(0), Jump(0, At(r.end + 1)), Pad(r.end + 1 - (at + JmpSize))>>

(* detect_bridge: the ranges the triple at position i bridges.             *)
BridgedAt(i) ==
    {r \in source.ranges :
        /\ i + 2 <= Len(items)
        /\ items[i].kind = "pad" /\ items[i + 2].kind = "pad"
        /\ items[i + 1].kind = "jump" /\ items[i + 1].to = At(r.end + 1)}

(* Mutant: no care for the JMP of an expanded branch.                      *)
HalfOfTripleNever(item) == FALSE

(* is_inverted_branch_into_skip: the JMP of an expanded branch.            *)
HalfOfTriple(item) ==
    /\ made # <<>> /\ pos < Len(items)
    /\ LET before == made[Len(made)] IN
       /\ before.kind = "branch" /\ before.to[1] = "skip"
       /\ item.kind = "jump"
       /\ items[pos + 1] = Label(before.to)

Item == items[pos]
Reserving == phase = "reserve" /\ pos <= Len(items)
Fail == phase' = "failed"
        /\ UNCHANGED <<source, items, pos, made, pc, symbols, skips, guard, grew, laid>>

(* One item done: the pass goes on after `n` items, at address `at`.       *)
Pass(out, n, at) ==
    /\ made' = out /\ pos' = pos + n /\ pc' = at
    /\ UNCHANGED <<source, items, skips, guard, laid, phase>>

KeepInPlace ==
    /\ Reserving /\ Item.kind \in {"label", "constant", "org"}
    /\ Pass(Append(made, Item), 1,
            IF Item.kind = "org" /\ Defined(Item.to, symbols)
            THEN Value(Item.to, symbols) ELSE pc)
    /\ UNCHANGED <<symbols, grew>>

(* A bridge an earlier pass made: dropped if its range is behind, refused  *)
(* if its JMP no longer fits, else made again for the present address.     *)
DropBridge ==
    /\ Reserving
    /\ \E r \in BridgedAt(pos) :
          /\ pc > r.end
          /\ Pass(made, 3, pc)
    /\ grew' = grew \cup {"reserved"}
    /\ UNCHANGED symbols

RemakeBridge ==
    /\ Reserving
    /\ \E r \in BridgedAt(pos) :
          /\ pc <= r.end
          /\ IF pc + JmpSize > r.start THEN Fail
             ELSE /\ Pass(made \o Bridge(pc, r), 3, r.end + 1)
                  /\ grew' = IF Bridge(pc, r)[3] = items[pos + 2]
                             THEN grew ELSE grew \cup {"reserved"}
                  /\ UNCHANGED symbols

Placing == Reserving /\ BridgedAt(pos) = {}
           /\ Item.kind \notin {"label", "constant", "org"}
Inside  == \E r \in source.ranges : pc \in r.start .. r.end

LandInside == Placing /\ Inside /\ Fail

(* The bridge would part an inverted branch from its JMP: it goes in front *)
(* of the branch, and the three items of the expansion behind it.          *)
SplitRanges ==
    IF HalfOfTriple(Item) THEN Conflicts(pc - BranchSize, BranchSize + JmpSize)
    ELSE {}

MoveTriple ==
    /\ Placing /\ ~Inside /\ SplitRanges # {}
    /\ LET r      == Lowest(SplitRanges)
           branch == made[Len(made)]
       IN  IF pc - BranchSize + JmpSize > r.start THEN Fail
           ELSE /\ Pass(SubSeq(made, 1, Len(made) - 1) \o Bridge(pc - BranchSize, r)
                            \o <<branch, Item, items[pos + 1]>>,
                        2, r.end + 1 + BranchSize + JmpSize)
                /\ grew' = grew \cup {"reserved"}
                /\ UNCHANGED symbols

(* A new bridge: the item is looked at again behind the range.             *)
InsertBridge ==
    /\ Placing /\ SplitRanges = {}
    /\ LET ahead == Conflicts(pc, SizeOf(Item, symbols)) IN
       /\ ~Inside /\ ahead # {}
       /\ LET r == Lowest(ahead) IN
          IF pc + JmpSize > r.start THEN Fail
          ELSE /\ Pass(made \o Bridge(pc, r), 0, r.end + 1)
               /\ grew' = grew \cup {"reserved"}
               /\ UNCHANGED symbols

Place ==
    /\ Placing /\ ~Inside /\ SplitRanges = {}
    /\ Conflicts(pc, SizeOf(Item, symbols)) = {}
    /\ Pass(Append(made, Item), 1, pc + SizeOf(Item, symbols))
    /\ UNCHANGED <<symbols, grew>>

(* The end of apply_reserved_ranges and the head of fix_long_branches.     *)
StartExpand ==
    /\ phase = "reserve"
    /\ pos > Len(items) \/ source.ranges = {}
    /\ items' = IF source.ranges = {} THEN items ELSE made
    /\ symbols' = Symbols(items')
    /\ pos' = 1 /\ made' = <<>> /\ pc' = source.origin /\ phase' = "expand"
    /\ UNCHANGED <<source, skips, guard, grew, laid>>

-----------------------------------------------------------------------------
(* fix_long_branches                                                       *)

Expanding == phase = "expand" /\ pos <= Len(items)
(* Mutant: the forward reach is one short.                                 *)
TooFarEarly(item) ==
    /\ item.kind = "branch" /\ item.to \in DOMAIN symbols
    /\ Signed(Distance(pc, symbols[item.to])) \notin -Reach .. Reach - 2

TooFar(item) ==
    /\ item.kind = "branch" /\ item.to \in DOMAIN symbols
    /\ ~InReach(Signed(Distance(pc, symbols[item.to])))

(* Mutant: the condition is not inverted.                                  *)
ExpandSameSense ==
    /\ Expanding /\ TooFar(Item)
    /\ made' = made \o
          <<[Item EXCEPT !.to = SkipName(skips)],
            Jump(0, Item.to), Label(SkipName(skips))>>
    /\ skips' = skips + 1
    /\ pc' = (pc + BranchSize + JmpSize) % AddressSpace
    /\ symbols' = ShiftAbove(symbols, pc)
    /\ grew' = grew \cup {"branch"}
    /\ pos' = pos + 1
    /\ UNCHANGED <<source, items, guard, laid, phase>>

Expand ==
    /\ Expanding /\ TooFar(Item)
    /\ made' = made \o
          <<[Item EXCEPT !.to = SkipName(skips), !.inverted = ~@],
            Jump(0, Item.to), Label(SkipName(skips))>>
    /\ skips' = skips + 1
    /\ pc' = (pc + BranchSize + JmpSize) % AddressSpace
    /\ symbols' = ShiftAbove(symbols, pc)
    /\ grew' = grew \cup {"branch"}
    /\ pos' = pos + 1
    /\ UNCHANGED <<source, items, guard, laid, phase>>

Keep ==
    /\ Expanding /\ ~TooFar(Item)
    /\ Pass(Append(made, Item), 1,
            IF Item.kind = "org"
            THEN IF Defined(Item.to, symbols) THEN Value(Item.to, symbols) ELSE pc
            ELSE (pc + SizeOf(Item, symbols)) % AddressSpace)
    /\ UNCHANGED <<symbols, grew>>

(* assemble's loop: another round while a pass changed the list.           *)
Again ==
    /\ phase = "expand" /\ pos > Len(items) /\ grew # {}
    /\ items' = made
    /\ IF guard = 0
       THEN /\ phase' = "unsettled"
            /\ UNCHANGED <<pos, made, pc, symbols, guard, grew>>
       ELSE /\ guard' = guard - 1
            /\ symbols' = Symbols(made)
            /\ pos' = 1 /\ made' = <<>> /\ pc' = source.origin /\ grew' = {}
            /\ phase' = "reserve"
    /\ UNCHANGED <<source, skips, laid>>

-----------------------------------------------------------------------------
(* The two passes that make the bytes.                                     *)

(* A constant or an origin has to be defined where it stands.              *)
Evaluable(list) ==
    \A k \in 1 .. Len(list) : list[k].kind \in {"constant", "org"} =>
        Defined(list[k].to, Walk(list)[k - 1].table)

AssignLabels ==
    /\ phase = "expand" /\ pos > Len(items) /\ grew = {}
    /\ items' = made
    /\ IF Evaluable(made)
       THEN symbols' = Symbols(made) /\ phase' = "emit"
       ELSE symbols' = symbols /\ phase' = "failed"
    /\ pos' = 1 /\ made' = <<>> /\ pc' = source.origin
    /\ UNCHANGED <<source, skips, guard, grew, laid>>

(* assemble_instruction and handle_branch: what cannot be encoded.         *)
Encodable(item) ==
    CASE item.kind = "branch" ->
            item.to \in DOMAIN symbols /\ InReach(Distance(pc, symbols[item.to]))
      [] item.kind \in {"jump", "refer"} -> Defined(item.to, symbols)
      [] OTHER -> TRUE

Bytes(item) ==
    [id |-> item.id, kind |-> item.kind, at |-> pc, size |-> SizeOf(item, symbols),
     inverted |-> item.kind = "branch" /\ item.inverted,
     to |-> IF item.kind \in {"branch", "jump", "refer"}
            THEN Value(item.to, symbols) ELSE 0]

Emit ==
    /\ phase = "emit" /\ pos <= Len(items)
    /\ IF ~Encodable(Item) THEN Fail
       ELSE /\ laid' = IF Item.kind \in {"label", "constant", "org"} THEN laid
                       ELSE Append(laid, Bytes(Item))
            /\ pc' = IF Item.kind = "org" THEN Value(Item.to, symbols)
                     ELSE (pc + SizeOf(Item, symbols)) % AddressSpace
            /\ pos' = pos + 1
            /\ UNCHANGED <<source, items, made, symbols, skips, guard, grew, phase>>

Finish ==
    /\ phase = "emit" /\ pos > Len(items)
    /\ phase' = "done"
    /\ UNCHANGED <<source, items, pos, made, pc, symbols, skips, guard, grew, laid>>

-----------------------------------------------------------------------------
Branches(list) == {k \in 1 .. Len(list) : list[k].kind = "branch"}

Init ==
    /\ source \in Sources /\ Admissible(source.ranges)
    /\ items = source.items
    /\ guard = 4 * Cardinality(Branches(items)) + Cardinality(source.ranges) + 16
    /\ symbols = Symbols(items)
    /\ pos = 1 /\ made = <<>> /\ pc = source.origin /\ skips = 0
    /\ grew = {} /\ laid = <<>> /\ phase = "reserve"

Reserve ==
    /\ source.ranges # {}
    /\ \/ KeepInPlace \/ DropBridge \/ RemakeBridge \/ LandInside
       \/ MoveTriple \/ InsertBridge \/ Place

Next == Reserve \/ StartExpand \/ Expand \/ Keep \/ Again \/ AssignLabels
        \/ Emit \/ Finish

Spec == Init /\ [][Next]_vars

-----------------------------------------------------------------------------
(* Properties.                                                             *)

TypeOK ==
    /\ phase \in {"reserve", "expand", "emit", "done", "failed", "unsettled"}
    /\ pos \in 1 .. Len(items) + 1 /\ pc \in Nat /\ guard \in Nat /\ skips \in Nat
    /\ grew \subseteq {"reserved", "branch"}
    /\ \A name \in DOMAIN symbols : symbols[name] \in 0 .. AddressSpace - 1

(* A zero-page name used before the line that defines it: the first pass   *)
(* counts three bytes, the second emits two, and every later label is off. *)
(* The properties of a finished program leave such sources out.            *)
DefinedLate ==
    \E k \in 1 .. Len(source.items) :
        LET item == source.items[k] IN
        /\ item.kind = "refer"
        /\ ~Defined(item.to, Walk(source.items)[k - 1].table)
        /\ Defined(item.to, Symbols(source.items))
        /\ Value(item.to, Symbols(source.items)) < ZeroPage

(* What the source says comes next: the first line from k on that stands   *)
(* for bytes.                                                              *)
Lines == source.items
LineFrom(k) ==
    LET rest == {j \in k .. Len(Lines) : Lines[j].id > 0}
    IN  IF rest = {} THEN 0 ELSE Lines[CHOOSE j \in rest : \A i \in rest : j <= i].id
LineOf(operand) ==
    LineFrom(CHOOSE k \in 1 .. Len(Lines) : Lines[k] = Label(operand))

(* What the machine runs into at an address: the user's line found there,  *)
(* past the assembler's own JMPs; 0 past the end, -1 in the middle of      *)
(* something.                                                              *)
Landing(address) ==
    LET L[hops \in 0 .. Len(laid), a \in 0 .. AddressSpace - 1] ==
            LET here == {e \in ToSet(laid) : e.at = a /\ e.size > 0} IN
            IF here = {} THEN IF a = pc THEN 0 ELSE -1
            ELSE LET e == CHOOSE x \in here : TRUE IN
                 IF e.id > 0 THEN e.id
                 ELSE IF e.kind = "jump" /\ hops > 0 THEN L[hops - 1, e.to] ELSE -1
    IN  L[Len(laid), address % AddressSpace]

(* The machine code does what the source says: from every line, falling    *)
(* through, jumping, taking or not taking a branch leads to the line the   *)
(* source names, whatever was expanded, bridged or moved in between.       *)
(* (assembler.rs:233-393, 697-913, 915-1056)                               *)
RunsAlike ==
    phase = "done" /\ ~DefinedLate =>
        \A k \in 1 .. Len(Lines) : Lines[k].id > 0 =>
            \E e \in ToSet(laid) :
                LET next == LineFrom(k + 1) IN
                /\ e.id = Lines[k].id
                /\ Lines[k].kind \in {"op", "refer"} =>
                      Landing(e.at + e.size) = next
                /\ Lines[k].kind = "jump" /\ Lines[k].to[1] # "at" =>
                      Landing(e.to) = LineOf(Lines[k].to)
                /\ Lines[k].kind = "branch" =>
                      LET target == LineOf(Lines[k].to) IN
                      /\ Landing(e.to) = IF e.inverted THEN next ELSE target
                      /\ Landing(e.at + e.size) = IF e.inverted THEN target ELSE next

(* Nothing but fill is emitted into a reserved range ("the range is        *)
(* zero-filled and indivisible data blocks are pushed past it", asm6502    *)
(* lib.rs:20-22), in whatever round the bridge before it was made.         *)
ReservedClear ==
    \A e \in ToSet(laid) : \A r \in source.ranges :
        e.kind # "pad" => (e.at + e.size - 1 < r.start \/ e.at > r.end)

(* The loop of passes settles before its guard runs out: "convergence is   *)
(* guaranteed" (assembler.rs:237).                                         *)
Converges == phase = "unsettled" => DefinedLate

(* A name stands for the data behind it: the address an instruction gets   *)
(* for a label in front of a data block is where the block was emitted,    *)
(* the block having been "pushed past" a range "in [its] entirety" or not  *)
(* (reserved.rs:5-6).                                                      *)
NamesData ==
    phase = "done" =>
        \A k \in 1 .. Len(Lines) : \A j \in 1 .. Len(Lines) - 1 :
            /\ Lines[k].kind = "refer"
            /\ Lines[j] = Label(Lines[k].to) /\ Lines[j + 1].kind = "data"
            => \E e, d \in ToSet(laid) :
                    e.id = Lines[k].id /\ d.id = Lines[j + 1].id /\ e.to = d.at

(* Where nothing is reserved, a branch is expanded only if it could not    *)
(* have reached: the shift of later symbols inside a pass                  *)
(* (symbol.rs shift_above) never overshoots.                               *)
NoNeedlessJump ==
    phase = "done" /\ source.ranges = {} =>
        \A k \in 1 .. Len(laid) - 1 :
            laid[k].inverted =>
                LET target == laid[k + 1].to
                    short  == IF target > laid[k].at THEN target - JmpSize ELSE target
                IN  ~InReach(Distance(laid[k].at, short))
=============================================================================
