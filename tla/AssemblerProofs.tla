-------------------------- MODULE AssemblerProofs ---------------------------
(***************************************************************************)
(* Proofs about Assembler for every program and every set of ranges: the   *)
(* passes keep to their types, and what is emitted keeps out of the        *)
(* reserved ranges.                                                        *)
(***************************************************************************)
EXTENDS Assembler, FiniteSetTheorems, SequenceTheorems, Induction, TLAPS

-----------------------------------------------------------------------------
(* Items and tables. *)

\* A name of the user's, or one the assembler made for an expanded branch.
AnyName == Names \cup ({"skip"} \X Nat)
AnyOperand == ({"at"} \X Address) \cup AnyName

\* What a list of items can hold in any pass.
Piece ==
    [kind : {"op", "data", "pad"}, id : Nat, size : Nat]
    \cup [kind : {"refer", "jump"}, id : Nat, to : AnyOperand]
    \cup [kind : {"branch"}, id : Nat, to : AnyName, inverted : BOOLEAN]
    \cup [kind : {"label"}, id : {0}, name : AnyName]
    \cup [kind : {"constant"}, id : {0}, name : AnyName, to : AnyOperand]
    \cup [kind : {"org"}, id : {0}, to : AnyOperand]

Table(t) == t \in [DOMAIN t -> Address] /\ DOMAIN t \subseteq AnyName

LEMMA WrittenIsPiece == Written \subseteq Piece
<1> SUFFICES ASSUME NEW w \in Written PROVE w \in Piece
    OBVIOUS
<1>1. Operand \subseteq AnyOperand /\ Names \subseteq AnyName /\ FALSE \in BOOLEAN /\ Nat \ {0} \subseteq Nat
    BY DEF Operand, AnyOperand, AnyName
<1> HIDE DEF Operand, AnyOperand, AnyName, Names
<1>2. CASE w \in [kind : {"op", "data"}, id : Nat \ {0}, size : Nat]
    BY <1>2 DEF Piece
<1>3. CASE w \in [kind : {"refer", "jump"}, id : Nat \ {0}, to : Operand]
    BY <1>1, <1>3 DEF Piece
<1>4. CASE w \in [kind : {"branch"}, id : Nat \ {0}, to : Names, inverted : {FALSE}]
    BY <1>1, <1>4 DEF Piece
<1>5. CASE w \in [kind : {"label"}, id : {0}, name : Names]
    BY <1>1, <1>5 DEF Piece
<1>6. CASE w \in [kind : {"constant"}, id : {0}, name : Names, to : Operand]
    BY <1>1, <1>6 DEF Piece
<1>7. CASE w \in [kind : {"org"}, id : {0}, to : Operand]
    BY <1>1, <1>7 DEF Piece
<1> QED BY <1>2, <1>3, <1>4, <1>5, <1>6, <1>7 DEF Written

\* An operand is a number or a name, and never both.
LEMMA OperandCases ==
    ASSUME NEW operand \in AnyOperand
    PROVE  /\ operand[1] = "at" => operand[2] \in Address
           /\ operand[1] # "at" => operand \in AnyName
           /\ operand \in AnyName => operand[1] # "at"
BY DEF AnyOperand, AnyName, Names

\* What is defined has an address for a value.
LEMMA ValueIsAddress ==
    ASSUME NEW operand \in AnyOperand, NEW table, Table(table), Defined(operand, table)
    PROVE  Value(operand, table) \in Address
BY OperandCases DEF Defined, Value, Table

LEMMA InsertKeepsTable ==
    ASSUME NEW table, Table(table), NEW name \in AnyName, NEW value \in Address
    PROVE  Table(Insert(table, name, value))
           /\ DOMAIN Insert(table, name, value) = DOMAIN table \cup {name}
BY DEF Insert, Table

LEMMA ShiftKeepsTable ==
    ASSUME NEW table, Table(table), NEW pivot \in Nat
    PROVE  Table(ShiftAbove(table, pivot)) /\ DOMAIN ShiftAbove(table, pivot) = DOMAIN table
<1>1. \A n \in Nat : (n + JmpSize) % AddressSpace \in Address
    BY SizesAssumption DEF JmpSize, Address
<1>2. Address \subseteq Nat
    BY SizesAssumption DEF Address
<1> QED BY <1>1, <1>2 DEF ShiftAbove, Table

\* The kinds an item has, and what goes with each.
LEMMA PieceCases ==
    ASSUME NEW item \in Piece
    PROVE  /\ item.kind \in {"op", "data", "pad"} => item.size \in Nat
           /\ item.kind \in {"refer", "jump", "constant", "org"} => item.to \in AnyOperand
           /\ item.kind = "branch" => item.to \in AnyName /\ item.inverted \in BOOLEAN
           /\ item.kind \in {"label", "constant"} => item.name \in AnyName
           /\ item.kind \in {"op", "data", "pad", "refer", "jump", "branch", "label", "constant", "org"}
           /\ item.id \in Nat
<1> HIDE DEF AnyOperand, AnyName
<1> QED BY DEF Piece

LEMMA SizeIsNat ==
    ASSUME NEW item \in Piece, NEW table
    PROVE  SizeOf(item, table) \in Nat
<1>1. item.kind \in {"op", "data", "pad"} => item.size \in Nat
    BY PieceCases
<1> QED BY <1>1 DEF SizeOf, FormSize, BranchSize, JmpSize

\* What the program counter wraps to.
LEMMA WrapIsAddress == \A n \in Nat : n % AddressSpace \in Address /\ n % AddressSpace \in Nat
BY SizesAssumption DEF Address

-----------------------------------------------------------------------------
(* The walk. *)

\* A walk is defined item by item: by induction every prefix of the list has
\* one.
LEMMA WalkSteps ==
    ASSUME NEW list, Len(list) \in Nat
    PROVE  /\ Walk(list)[0] = [pc |-> source.origin, table |-> [name \in {} |-> 0]]
           /\ \A k \in 1 .. Len(list) : Walk(list)[k] = Enter(Walk(list)[k - 1], list[k])
<1> DEFINE Head0 == [pc |-> source.origin, table |-> [name \in {} |-> 0]]
           Upto(n, w) == w = [k \in 0 .. n |-> IF k = 0 THEN Head0 ELSE Enter(w[k - 1], list[k])]
           Bad == {n \in 0 .. Len(list) : ~ \E w : Upto(n, w)}
<1>1. Bad = {}
    <2> SUFFICES ASSUME Bad # {} PROVE FALSE
      OBVIOUS
    <2> HIDE DEF Head0
    <2>1. PICK n \in Bad : \A m \in Bad : n <= m
      <3>1. Bad \in SUBSET Nat
        OBVIOUS
      <3> HIDE DEF Bad
      <3> QED BY <3>1, LeastNatural
    <2>2. CASE n = 0
      <3>1. Upto(0, [k \in 0 .. 0 |-> Head0])
        OBVIOUS
      <3> QED BY <2>1, <2>2, <3>1
    <2>3. CASE n # 0
      <3>0. n \in 0 .. Len(list)
        OBVIOUS
      <3>1. n - 1 \in 0 .. Len(list) /\ n - 1 \notin Bad /\ n \in 1 .. Len(list)
        <4>1. n - 1 \notin Bad
          <5> HIDE DEF Bad
          <5> QED BY <2>1, <3>0
        <4> HIDE DEF Bad
        <4> QED BY <4>1, <3>0, <2>3
      <3>2. PICK w : Upto(n - 1, w)
        BY <3>1
      <3> DEFINE v == [k \in 0 .. n |-> IF k = n THEN Enter(w[n - 1], list[n]) ELSE w[k]]
      <3>3. \A k \in 0 .. n : v[k] = IF k = 0 THEN Head0 ELSE Enter(v[k - 1], list[k])
        <4> SUFFICES ASSUME NEW k \in 0 .. n
                     PROVE v[k] = IF k = 0 THEN Head0 ELSE Enter(v[k - 1], list[k])
          OBVIOUS
        <4>1. k = n \/ k \in 0 .. n - 1
          BY <3>1
        <4>2. k # 0 => k - 1 \in 0 .. n /\ k - 1 # n /\ v[k - 1] = w[k - 1]
          BY <3>1
        <4>3. CASE k = n
          BY <4>2, <4>3, <3>1
        <4>4. CASE k \in 0 .. n - 1 /\ k # n
          <5>1. v[k] = w[k]
            BY <4>4
          <5>2. w[k] = IF k = 0 THEN Head0 ELSE Enter(w[k - 1], list[k])
            BY <3>2, <4>4
          <5> QED BY <5>1, <5>2, <4>2
        <4> QED BY <4>1, <4>3, <4>4
      <3>4. Upto(n, v)
        BY <3>3
      <3> QED BY <2>1, <3>4
    <2> QED BY <2>2, <2>3
<1>2. Len(list) \in 0 .. Len(list)
    OBVIOUS
<1>3. \E w : Upto(Len(list), w)
    BY <1>1, <1>2
<1>4. Walk(list) = CHOOSE w : Upto(Len(list), w)
    BY DEF Walk
<1>5. Upto(Len(list), Walk(list))
    BY <1>3, <1>4
<1> HIDE DEF Head0
<1>6. Walk(list)[0] = Head0
    BY <1>5
<1>7. \A k \in 1 .. Len(list) : Walk(list)[k] = Enter(Walk(list)[k - 1], list[k])
    BY <1>5
<1> QED BY <1>6, <1>7 DEF Head0

\* What every walk over a list keeps: an address, and a table.
Walker(w) == w = [pc |-> w.pc, table |-> w.table] /\ w.pc \in Address /\ Table(w.table)

LEMMA EnterKeeps ==
    ASSUME NEW w, Walker(w), NEW item \in Piece
    PROVE  Walker(Enter(w, item)) /\ DOMAIN w.table \subseteq DOMAIN Enter(w, item).table
<1> DEFINE e == Enter(w, item)
<1>1. /\ item.kind = "label" => item.name \in AnyName
      /\ item.kind = "constant" => item.name \in AnyName /\ item.to \in AnyOperand
      /\ item.kind = "org" => item.to \in AnyOperand
    BY PieceCases
<1>2. w = [pc |-> w.pc, table |-> w.table] /\ w.pc \in Address /\ Table(w.table)
    BY DEF Walker
<1>3. CASE item.kind = "label"
    <2>1. e = [pc |-> w.pc, table |-> Insert(w.table, item.name, w.pc)]
      BY <1>2, <1>3 DEF Enter
    <2>2. /\ Table(Insert(w.table, item.name, w.pc))
          /\ DOMAIN Insert(w.table, item.name, w.pc) = DOMAIN w.table \cup {item.name}
      BY <1>1, <1>2, <1>3, InsertKeepsTable
    <2> QED BY <2>1, <2>2, <1>2 DEF Walker
<1>4. CASE item.kind = "constant" /\ Defined(item.to, w.table)
    <2> DEFINE v == Value(item.to, w.table)
    <2>0. v \in Address
      BY <1>1, <1>2, <1>4, ValueIsAddress
    <2>1. e = [pc |-> w.pc, table |-> Insert(w.table, item.name, v)]
      BY <1>2, <1>4 DEF Enter
    <2>2. /\ Table(Insert(w.table, item.name, v))
          /\ DOMAIN Insert(w.table, item.name, v) = DOMAIN w.table \cup {item.name}
      BY <2>0, <1>1, <1>2, <1>4, InsertKeepsTable
    <2> QED BY <2>1, <2>2, <1>2 DEF Walker
<1>5. CASE item.kind = "org" /\ Defined(item.to, w.table)
    <2> DEFINE v == Value(item.to, w.table)
    <2>0. v \in Address
      BY <1>1, <1>2, <1>5, ValueIsAddress
    <2>1. e = [pc |-> v, table |-> w.table]
      BY <1>2, <1>5 DEF Enter
    <2> QED BY <2>0, <2>1, <1>2 DEF Walker
<1>6. CASE /\ item.kind # "label" /\ ~(item.kind = "constant" /\ Defined(item.to, w.table))
           /\ ~(item.kind = "org" /\ Defined(item.to, w.table))
    <2> DEFINE v == (w.pc + SizeOf(item, w.table)) % AddressSpace
    <2>0. v \in Address
      <3>1. SizeOf(item, w.table) \in Nat /\ w.pc \in Nat
        BY <1>2, SizeIsNat DEF Address
      <3> QED BY <3>1, SizesAssumption DEF Address
    <2>1. e = [pc |-> v, table |-> w.table]
      BY <1>2, <1>6 DEF Enter
    <2> QED BY <2>0, <2>1, <1>2 DEF Walker
<1> QED BY <1>3, <1>4, <1>5, <1>6

\* A walk keeps to addresses, and never loses a symbol.
LEMMA WalkKeeps ==
    ASSUME source.origin \in Address, NEW list \in Seq(Piece)
    PROVE  \A k \in 0 .. Len(list) :
              /\ Walker(Walk(list)[k])
              /\ \A j \in 0 .. k : DOMAIN Walk(list)[j].table \subseteq DOMAIN Walk(list)[k].table
<1> DEFINE Good(k) ==
              /\ Walker(Walk(list)[k])
              /\ \A j \in 0 .. k : DOMAIN Walk(list)[j].table \subseteq DOMAIN Walk(list)[k].table
           Bad == {k \in 0 .. Len(list) : ~Good(k)}
<1>0. Len(list) \in Nat /\ \A k \in 1 .. Len(list) : list[k] \in Piece
    BY LenProperties, ElementOfSeq
<1>1. Good(0)
    <2>1. Walk(list)[0] = [pc |-> source.origin, table |-> [name \in {} |-> 0]]
      BY <1>0, WalkSteps
    <2>2. Table([name \in {} |-> 0])
      BY DEF Table
    <2>3. Walker(Walk(list)[0])
      BY <2>1, <2>2 DEF Walker
    <2>4. \A j \in 0 .. 0 : j = 0
      OBVIOUS
    <2> QED BY <2>3, <2>4
<1>2. ASSUME NEW k \in 1 .. Len(list), Good(k - 1) PROVE Good(k)
    <2>1. Walk(list)[k] = Enter(Walk(list)[k - 1], list[k]) /\ list[k] \in Piece
      BY <1>0, WalkSteps
    <2>2. Walker(Walk(list)[k]) /\ DOMAIN Walk(list)[k - 1].table \subseteq DOMAIN Walk(list)[k].table
      BY <1>2, <2>1, EnterKeeps
    <2>3. \A j \in 0 .. k : j = k \/ j \in 0 .. k - 1
      BY <1>0
    <2> QED BY <1>2, <2>2, <2>3
<1>3. Bad = {}
    <2> SUFFICES ASSUME Bad # {} PROVE FALSE
      OBVIOUS
    <2> HIDE DEF Good
    <2>1. PICK k \in Bad : \A m \in Bad : k <= m
      <3>1. Bad \in SUBSET Nat
        OBVIOUS
      <3> HIDE DEF Bad
      <3> QED BY <3>1, LeastNatural
    <2>2. k \in 0 .. Len(list) /\ ~Good(k)
      OBVIOUS
    <2>3. k # 0
      BY <1>1, <2>2
    <2>4. k - 1 \in 0 .. Len(list) /\ k \in 1 .. Len(list)
      BY <1>0, <2>2, <2>3
    <2>5. k - 1 \notin Bad
      <3> HIDE DEF Bad
      <3> QED BY <2>1, <2>2
    <2>6. Good(k - 1)
      BY <2>4, <2>5
    <2> QED BY <1>2, <2>2, <2>4, <2>6
<1> HIDE DEF Good
<1>4. \A k \in 0 .. Len(list) : Good(k)
    BY <1>3
<1> QED BY <1>4 DEF Good

\* The table of a whole list, and what is defined in front of one of its items.
LEMMA SymbolsKeep ==
    ASSUME source.origin \in Address, NEW list \in Seq(Piece)
    PROVE  /\ Table(Symbols(list))
           /\ \A k \in 1 .. Len(list) : \A operand :
                 Defined(operand, Walk(list)[k - 1].table) => Defined(operand, Symbols(list))
<1>0. Len(list) \in Nat
    BY LenProperties
<1>1. Walker(Walk(list)[Len(list)])
    BY <1>0, WalkKeeps
<1>2. \A k \in 1 .. Len(list) : k - 1 \in 0 .. Len(list)
    BY <1>0
<1>3. \A k \in 1 .. Len(list) :
         DOMAIN Walk(list)[k - 1].table \subseteq DOMAIN Walk(list)[Len(list)].table
    BY <1>0, <1>2, WalkKeeps
<1> QED BY <1>1, <1>3 DEF Walker, Symbols, Defined

-----------------------------------------------------------------------------
(* Type correctness. *)

Phases == {"reserve", "expand", "emit", "done", "failed", "unsettled"}

\* The invariant behind TypeOK: the lists hold pieces, the table addresses; the
\* expansion has put out an item for each it has read (so that the position
\* stays inside the list when the rounds give up), and every origin of a list
\* that is emitted is defined.
Sorts ==
    /\ source \in Sources /\ Admissible(source.ranges)
    /\ items \in Seq(Piece) /\ made \in Seq(Piece) /\ Table(symbols)
    /\ phase \in Phases /\ pos \in 1 .. Len(items) + 1
    /\ pc \in Nat /\ guard \in Nat /\ skips \in Nat
    /\ grew \subseteq {"reserved", "branch"}
    /\ phase = "expand" => Len(made) >= pos - 1
    /\ phase = "emit" => \A k \in 1 .. Len(items) :
          items[k].kind = "org" => Defined(items[k].to, symbols)

\* The bounds add_reserved_range sees to.
LEMMA RangeFacts ==
    ASSUME source \in Sources, Admissible(source.ranges)
    PROVE  /\ source.origin \in Address
           /\ \A r \in source.ranges :
                 /\ r.start \in Nat /\ r.end \in Nat /\ r.start <= r.end
                 /\ r.end + 1 \in Address
<1>1. source.ranges \subseteq [start : Nat, end : Nat] /\ source.origin \in Address
    BY SourcesAssumption
<1> QED BY <1>1, SizesAssumption DEF Admissible, Address

\* A set of ranges that is not empty has a lowest.
LEMMA LowestIsOne ==
    ASSUME source \in Sources, Admissible(source.ranges),
           NEW some \in SUBSET source.ranges, some # {}
    PROVE  Lowest(some) \in some /\ \A r \in some : Lowest(some).start <= r.start
<1>1. \A r \in some : r.start \in Nat
    BY RangeFacts
<1> DEFINE starts == {r.start : r \in some}
<1>2. starts \in SUBSET Nat /\ starts # {}
    BY <1>1
<1>3. PICK x \in starts : \A y \in starts : x <= y
    <2> HIDE DEF starts
    <2> QED BY <1>2, LeastNatural
<1>4. \E r \in some : \A s \in some : r.start <= s.start
    BY <1>3
<1> QED BY <1>4 DEF Lowest

\* The three items of a bridge.
LEMMA BridgePieces ==
    ASSUME source \in Sources, Admissible(source.ranges),
           NEW at \in Int, NEW r \in source.ranges, at + JmpSize <= r.start
    PROVE  Bridge(at, r) \in Seq(Piece) /\ Len(Bridge(at, r)) = 3
<1>1. r.start \in Nat /\ r.end \in Nat /\ r.start <= r.end /\ r.end + 1 \in Address
    BY RangeFacts
<1>2. Pad(0) \in Piece
    BY DEF Piece, Pad
<1>3. Pad(r.end + 1 - (at + JmpSize)) \in Piece
    <2>1. r.end + 1 - (at + JmpSize) \in Nat
      BY <1>1 DEF JmpSize
    <2> QED BY <2>1 DEF Piece, Pad
<1>4. Jump(0, At(r.end + 1)) \in Piece
    <2>1. At(r.end + 1) \in AnyOperand
      BY <1>1 DEF At, AnyOperand
    <2> QED BY <2>1 DEF Piece, Jump
<1> QED BY <1>2, <1>3, <1>4 DEF Bridge

LEMMA BranchCount ==
    ASSUME NEW list \in Seq(Piece)
    PROVE  Cardinality(Branches(list)) \in Nat
<1>1. IsFiniteSet(1 .. Len(list))
    BY FS_Interval, LenProperties
<1>2. Branches(list) \subseteq 1 .. Len(list)
    BY DEF Branches
<1> QED BY <1>1, <1>2, FS_Subset, FS_CardinalityType

LEMMA SortsInit == Init => Sorts
<1> SUFFICES ASSUME Init PROVE Sorts
    OBVIOUS
<1>1. source \in Sources /\ Admissible(source.ranges) /\ items = source.items
    BY DEF Init
<1>2. source.items \in Seq(Piece) /\ IsFiniteSet(source.ranges) /\ source.origin \in Address
    BY <1>1, SourcesAssumption, WrittenIsPiece
<1>3. guard \in Nat
    <2>1. Cardinality(Branches(items)) \in Nat /\ Cardinality(source.ranges) \in Nat
      BY <1>1, <1>2, BranchCount, FS_CardinalityType
    <2>2. guard = 4 * Cardinality(Branches(items)) + Cardinality(source.ranges) + 16
      BY DEF Init
    <2> QED BY <2>1, <2>2
<1>4. Table(symbols)
    BY <1>1, <1>2, SymbolsKeep DEF Init
<1>5. pos \in 1 .. Len(items) + 1 /\ pc \in Nat
    BY <1>1, <1>2, LenProperties DEF Init, Address
<1> QED BY <1>1, <1>2, <1>3, <1>4, <1>5 DEF Init, Sorts, Phases

LEMMA SortsItem ==
    ASSUME Sorts, pos <= Len(items)
    PROVE  /\ pos \in 1 .. Len(items) /\ Item \in Piece /\ Len(items) \in Nat
           /\ SizeOf(Item, symbols) \in Nat
           /\ Item.kind = "org" /\ Defined(Item.to, symbols) => Value(Item.to, symbols) \in Nat
<1>1. pos \in 1 .. Len(items) /\ items \in Seq(Piece) /\ Table(symbols) /\ Len(items) \in Nat
    BY LenProperties DEF Sorts
<1>2. Item \in Piece
    BY <1>1, ElementOfSeq DEF Item
<1>3. SizeOf(Item, symbols) \in Nat
    BY <1>2, SizeIsNat
<1>4. Item.kind = "org" /\ Defined(Item.to, symbols) => Value(Item.to, symbols) \in Address
    BY <1>1, <1>2, PieceCases, ValueIsAddress
<1> QED BY <1>1, <1>2, <1>3, <1>4 DEF Address

LEMMA SortsFail == Sorts /\ phase # "emit" /\ Fail => Sorts'
BY DEF Sorts, Fail, Phases, Table

LEMMA SortsReserve == Sorts /\ Reserve => Sorts'
<1> SUFFICES ASSUME Sorts, Reserve PROVE Sorts'
    OBVIOUS
<1>0. Reserving /\ phase = "reserve"
    BY DEF Reserve, KeepInPlace, DropBridge, RemakeBridge, LandInside, MoveTriple,
           InsertBridge, Place, Placing, Reserving
<1>1. /\ source \in Sources /\ Admissible(source.ranges) /\ made \in Seq(Piece)
      /\ items \in Seq(Piece) /\ pc \in Nat /\ pos <= Len(items)
    BY <1>0 DEF Sorts, Reserving
<1>2. /\ pos \in 1 .. Len(items) /\ Item \in Piece /\ Len(items) \in Nat
      /\ SizeOf(Item, symbols) \in Nat
      /\ Item.kind = "org" /\ Defined(Item.to, symbols) => Value(Item.to, symbols) \in Nat
    BY <1>1, SortsItem
<1>3. ASSUME made' \in Seq(Piece), pos' \in 1 .. Len(items) + 1, pc' \in Nat,
             UNCHANGED <<source, items, skips, guard, laid, phase, symbols>>,
             grew' \subseteq {"reserved", "branch"}
      PROVE  Sorts'
    BY <1>0, <1>3 DEF Sorts, Table
<1>4. grew \subseteq {"reserved", "branch"} /\ grew \cup {"reserved"} \subseteq {"reserved", "branch"}
    BY DEF Sorts
<1>5. ASSUME Fail PROVE Sorts'
    BY <1>0, <1>5, SortsFail
<1>6. Append(made, Item) \in Seq(Piece)
    BY <1>1, <1>2, AppendProperties
<1>7. CASE KeepInPlace
    <2> DEFINE at == IF Item.kind = "org" /\ Defined(Item.to, symbols)
                     THEN Value(Item.to, symbols) ELSE pc
    <2>1. Pass(Append(made, Item), 1, at) /\ symbols' = symbols /\ grew' = grew
      BY <1>7 DEF KeepInPlace
    <2>2. at \in Nat
      BY <1>1, <1>2
    <2> QED BY <2>1, <2>2, <1>2, <1>3, <1>4, <1>6 DEF Pass
<1>8. CASE DropBridge
    <2>1. PICK r \in BridgedAt(pos) : Pass(made, 3, pc)
      BY <1>8 DEF DropBridge
    <2>2. pos + 3 <= Len(items) + 1
      <3>1. pos \in Nat /\ Len(items) \in Nat
        BY <1>2
      <3>2. pos + 2 <= Len(items)
        BY <2>1 DEF BridgedAt
      <3> QED BY <3>1, <3>2
    <2>3. symbols' = symbols /\ grew' = grew \cup {"reserved"}
      BY <1>8 DEF DropBridge
    <2> QED BY <2>1, <2>2, <2>3, <1>1, <1>2, <1>3, <1>4 DEF Pass
<1>9. CASE RemakeBridge
    <2>1. PICK r \in BridgedAt(pos) :
            IF pc + JmpSize > r.start THEN Fail
            ELSE /\ Pass(made \o Bridge(pc, r), 3, r.end + 1)
                 /\ grew' = IF Bridge(pc, r)[3] = items[pos + 2]
                            THEN grew ELSE grew \cup {"reserved"}
                 /\ UNCHANGED symbols
      BY <1>9 DEF RemakeBridge
    <2>2. r \in source.ranges /\ pos + 3 <= Len(items) + 1
      <3>1. pos \in Nat /\ Len(items) \in Nat
        BY <1>2
      <3>2. r \in source.ranges /\ pos + 2 <= Len(items)
        BY DEF BridgedAt
      <3> QED BY <3>1, <3>2
    <2>3. r.start \in Nat /\ r.end + 1 \in Nat
      BY <1>1, <2>2, RangeFacts DEF Address
    <2>4. CASE ~(pc + JmpSize > r.start)
      <3>0. pc + JmpSize <= r.start
        <4>1. pc \in Nat
          BY <1>1
        <4> QED BY <2>3, <2>4, <4>1 DEF JmpSize
      <3>1. Bridge(pc, r) \in Seq(Piece)
        BY <1>1, <2>2, <3>0, BridgePieces
      <3>2. made \o Bridge(pc, r) \in Seq(Piece)
        BY <1>1, <3>1, ConcatProperties
      <3>3. grew' \subseteq {"reserved", "branch"}
        BY <1>4, <2>1, <2>4
      <3>4. Pass(made \o Bridge(pc, r), 3, r.end + 1) /\ symbols' = symbols
        BY <2>1, <2>4
      <3>5. /\ made' = made \o Bridge(pc, r) /\ pos' = pos + 3 /\ pc' = r.end + 1
            /\ UNCHANGED <<source, items, skips, guard, laid, phase, symbols>>
        BY <3>4 DEF Pass
      <3>6. pos' \in 1 .. Len(items) + 1
        BY <1>2, <2>2, <3>5
      <3> QED BY <1>3, <2>3, <3>2, <3>3, <3>5, <3>6
    <2> QED BY <2>1, <2>4, <1>5
<1>10. CASE LandInside
    BY <1>5, <1>10 DEF LandInside
<1>11. CASE MoveTriple
    <2> DEFINE r == Lowest(SplitRanges)
               branch == made[Len(made)]
               out == SubSeq(made, 1, Len(made) - 1) \o Bridge(pc - BranchSize, r)
                            \o <<branch, Item, items[pos + 1]>>
    <2>1. SplitRanges # {} /\ SplitRanges \subseteq source.ranges
      BY <1>11 DEF MoveTriple, SplitRanges, Conflicts
    <2>2. HalfOfTriple(Item)
      BY <1>11 DEF MoveTriple, SplitRanges
    <2>3. r \in source.ranges
      BY <1>1, <2>1, LowestIsOne
    <2>4. r.start \in Nat /\ r.end + 1 \in Nat
      BY <1>1, <2>3, RangeFacts DEF Address
    <2>5. made # <<>> /\ pos < Len(items)
      BY <2>2 DEF HalfOfTriple
    <2>6. Len(made) \in Nat /\ Len(made) >= 1
      BY <1>1, <2>5, EmptySeq, LenProperties
    <2>7. branch \in Piece /\ items[pos + 1] \in Piece
      <3>1. Len(made) \in 1 .. Len(made) /\ pos + 1 \in 1 .. Len(items)
        BY <1>2, <2>5, <2>6
      <3> QED BY <1>1, <3>1, ElementOfSeq
    <2>8. CASE ~(pc - BranchSize + JmpSize > r.start)
      <3>1. Bridge(pc - BranchSize, r) \in Seq(Piece)
        <4>1. pc - BranchSize \in Int /\ pc - BranchSize + JmpSize <= r.start
          BY <1>1, <2>4, <2>8 DEF BranchSize, JmpSize
        <4> QED BY <1>1, <2>3, <4>1, BridgePieces
      <3>2. SubSeq(made, 1, Len(made) - 1) \in Seq(Piece)
        BY <1>1, <2>6, SubSeqProperties
      <3>3. <<branch, Item, items[pos + 1]>> \in Seq(Piece)
        BY <1>2, <2>7
      <3>4. SubSeq(made, 1, Len(made) - 1) \o Bridge(pc - BranchSize, r) \in Seq(Piece)
        BY <3>1, <3>2, ConcatProperties
      <3>5. out \in Seq(Piece)
        BY <3>3, <3>4, ConcatProperties
      <3>6. /\ Pass(out, 2, r.end + 1 + BranchSize + JmpSize)
            /\ symbols' = symbols /\ grew' = grew \cup {"reserved"}
        BY <1>11, <2>8 DEF MoveTriple
      <3>7. r.end + 1 + BranchSize + JmpSize \in Nat /\ pos + 2 <= Len(items) + 1
        <4>1. pos \in Nat /\ Len(items) \in Nat
          BY <1>2
        <4>2. r.end + 1 \in Nat /\ pos < Len(items)
          BY <2>4, <2>5
        <4>3. r.end + 1 + 2 + 3 \in Nat
          BY <4>2
        <4> QED BY <4>1, <4>2, <4>3 DEF BranchSize, JmpSize
      <3> HIDE DEF out, r, branch
      <3> QED BY <3>5, <3>6, <3>7, <1>2, <1>3, <1>4 DEF Pass
    <2>9. CASE pc - BranchSize + JmpSize > r.start
      <3>1. Fail
        BY <1>11, <2>9 DEF MoveTriple
      <3> QED BY <3>1, <1>5
    <2> QED BY <2>8, <2>9
<1>12. CASE InsertBridge
    <2> DEFINE ahead == Conflicts(pc, SizeOf(Item, symbols))
               r == Lowest(ahead)
    <2>1. ahead # {} /\ ahead \subseteq source.ranges
      BY <1>12 DEF InsertBridge, Conflicts
    <2>2. r \in source.ranges
      BY <1>1, <2>1, LowestIsOne
    <2>3. r.start \in Nat /\ r.end + 1 \in Nat
      BY <1>1, <2>2, RangeFacts DEF Address
    <2>4. CASE ~(pc + JmpSize > r.start)
      <3>1. Bridge(pc, r) \in Seq(Piece)
        <4>1. pc + JmpSize <= r.start
          BY <1>1, <2>3, <2>4 DEF JmpSize
        <4> QED BY <1>1, <2>2, <4>1, BridgePieces
      <3>2. made \o Bridge(pc, r) \in Seq(Piece)
        BY <1>1, <3>1, ConcatProperties
      <3>3. /\ Pass(made \o Bridge(pc, r), 0, r.end + 1)
            /\ symbols' = symbols /\ grew' = grew \cup {"reserved"}
        BY <1>12, <2>4 DEF InsertBridge
      <3> HIDE DEF r
      <3> QED BY <2>3, <3>2, <3>3, <1>2, <1>3, <1>4 DEF Pass
    <2>5. CASE pc + JmpSize > r.start
      <3>1. Fail
        BY <1>12, <2>5 DEF InsertBridge
      <3> QED BY <3>1, <1>5
    <2> QED BY <2>4, <2>5
<1>13. CASE Place
    <2>1. /\ Pass(Append(made, Item), 1, pc + SizeOf(Item, symbols))
          /\ symbols' = symbols /\ grew' = grew
      BY <1>13 DEF Place
    <2>2. pc + SizeOf(Item, symbols) \in Nat
      BY <1>1, <1>2
    <2> QED BY <2>1, <2>2, <1>2, <1>3, <1>4, <1>6 DEF Pass
<1> QED BY <1>7, <1>8, <1>9, <1>10, <1>11, <1>12, <1>13 DEF Reserve

LEMMA SortsStartExpand == Sorts /\ StartExpand => Sorts'
<1> SUFFICES ASSUME Sorts, StartExpand PROVE Sorts'
    OBVIOUS
<1>1. /\ source \in Sources /\ Admissible(source.ranges) /\ items \in Seq(Piece)
      /\ made \in Seq(Piece) /\ source.origin \in Address
    BY RangeFacts DEF Sorts
<1>2. items' \in Seq(Piece) /\ Len(items') \in Nat
    BY <1>1, LenProperties DEF StartExpand
<1>3. Table(symbols')
    <2>1. \A list \in Seq(Piece) : Table(Symbols(list))
      BY <1>1, SymbolsKeep
    <2>2. symbols' = Symbols(items')
      BY DEF StartExpand
    <2> QED BY <1>2, <2>1, <2>2
<1>4. /\ source' = source /\ made' = <<>> /\ pos' = 1 /\ pc' = source.origin
      /\ phase' = "expand" /\ guard' = guard /\ skips' = skips /\ grew' = grew
    BY DEF StartExpand
<1>5. made' \in Seq(Piece) /\ Len(made') = 0 /\ pc' \in Nat
    BY <1>1, <1>4 DEF Address
<1> QED BY <1>1, <1>2, <1>3, <1>4, <1>5 DEF Sorts, Phases, Table

LEMMA SortsExpand == Sorts /\ Expand => Sorts'
<1> SUFFICES ASSUME Sorts, Expand PROVE Sorts'
    OBVIOUS
<1>0. phase = "expand" /\ pos <= Len(items)
    BY DEF Expand, Expanding
<1>1. /\ pos \in 1 .. Len(items) /\ Item \in Piece /\ Len(items) \in Nat
    BY <1>0, SortsItem
<1>2. made \in Seq(Piece) /\ Len(made) >= pos - 1 /\ Len(made) \in Nat
      /\ pc \in Nat /\ skips \in Nat /\ Table(symbols)
    BY <1>0, LenProperties DEF Sorts
<1>3. Item.kind = "branch" /\ Item.to \in AnyName /\ Item.inverted \in BOOLEAN
    BY <1>1, PieceCases DEF Expand, TooFar
<1> DEFINE b == [Item EXCEPT !.to = SkipName(skips), !.inverted = ~@]
           three == <<b, Jump(0, Item.to), Label(SkipName(skips))>>
<1>4. SkipName(skips) \in AnyName
    BY <1>2 DEF SkipName, AnyName
<1>5. Item \in [kind : {"branch"}, id : Nat, to : AnyName, inverted : BOOLEAN]
    <2> HIDE DEF AnyName, AnyOperand
    <2> QED BY <1>1, <1>3 DEF Piece
<1>6. b \in Piece
    <2>1. b \in [kind : {"branch"}, id : Nat, to : AnyName, inverted : BOOLEAN]
      BY <1>4, <1>5
    <2> QED BY <2>1 DEF Piece
<1>7. Jump(0, Item.to) \in Piece
    BY <1>3 DEF Jump, Piece, AnyOperand
<1>8. Label(SkipName(skips)) \in Piece
    BY <1>4 DEF Label, Piece
<1>9. three \in Seq(Piece) /\ Len(three) = 3
    <2> HIDE DEF b
    <2> QED BY <1>6, <1>7, <1>8
<1>10. made \o three \in Seq(Piece) /\ Len(made \o three) = Len(made) + 3
    <2> HIDE DEF three, Piece
    <2>1. made \o three \in Seq(Piece) /\ Len(made \o three) = Len(made) + Len(three)
      BY <1>2, <1>9, ConcatProperties
    <2> QED BY <2>1, <1>9
<1>11. /\ made' = made \o three /\ skips' = skips + 1
       /\ pc' = (pc + BranchSize + JmpSize) % AddressSpace
       /\ symbols' = ShiftAbove(symbols, pc)
       /\ grew' = grew \cup {"branch"} /\ pos' = pos + 1
       /\ UNCHANGED <<source, items, guard, laid, phase>>
    BY DEF Expand
<1>12. Table(symbols')
    BY <1>2, <1>11, ShiftKeepsTable
<1>13. pc' \in Nat
    BY <1>2, <1>11, SizesAssumption DEF BranchSize, JmpSize
<1>14. made' \in Seq(Piece) /\ Len(made') >= pos' - 1
    <2> HIDE DEF three
    <2> QED BY <1>1, <1>2, <1>10, <1>11
<1>15. UNCHANGED <<source, items, guard, phase>> /\ pos' = pos + 1 /\ skips' = skips + 1
       /\ grew' = grew \cup {"branch"}
    BY <1>11
<1> HIDE DEF three
<1> QED BY <1>0, <1>1, <1>2, <1>12, <1>13, <1>14, <1>15 DEF Sorts, Table

LEMMA SortsKeep == Sorts /\ Keep => Sorts'
<1> SUFFICES ASSUME Sorts, Keep PROVE Sorts'
    OBVIOUS
<1>0. phase = "expand" /\ pos <= Len(items)
    BY DEF Keep, Expanding
<1>1. /\ pos \in 1 .. Len(items) /\ Item \in Piece /\ Len(items) \in Nat
      /\ SizeOf(Item, symbols) \in Nat
      /\ Item.kind = "org" /\ Defined(Item.to, symbols) => Value(Item.to, symbols) \in Nat
    BY <1>0, SortsItem
<1>2. made \in Seq(Piece) /\ Len(made) >= pos - 1 /\ Len(made) \in Nat /\ pc \in Nat
    BY <1>0, LenProperties DEF Sorts
<1>3. Append(made, Item) \in Seq(Piece) /\ Len(Append(made, Item)) = Len(made) + 1
    BY <1>1, <1>2, AppendProperties
<1>4. /\ made' = Append(made, Item) /\ pos' = pos + 1
      /\ pc' = IF Item.kind = "org"
               THEN IF Defined(Item.to, symbols) THEN Value(Item.to, symbols) ELSE pc
               ELSE (pc + SizeOf(Item, symbols)) % AddressSpace
      /\ UNCHANGED <<source, items, skips, guard, phase, symbols, grew>>
    BY DEF Keep, Pass
<1>5. (pc + SizeOf(Item, symbols)) % AddressSpace \in Nat
    <2>1. pc \in Nat /\ SizeOf(Item, symbols) \in Nat
      BY <1>1, <1>2
    <2>2. pc + SizeOf(Item, symbols) \in Nat
      BY <2>1
    <2> QED BY <2>2, WrapIsAddress
<1>6. pc' \in Nat
    BY <1>1, <1>2, <1>4, <1>5
<1>7. pos' \in 1 .. Len(items) + 1 /\ Len(made') >= pos' - 1
    BY <1>1, <1>2, <1>3, <1>4
<1> QED BY <1>0, <1>3, <1>4, <1>6, <1>7 DEF Sorts, Table

LEMMA SortsAgain == Sorts /\ Again => Sorts'
<1> SUFFICES ASSUME Sorts, Again PROVE Sorts'
    OBVIOUS
<1>1. /\ source \in Sources /\ Admissible(source.ranges) /\ made \in Seq(Piece)
      /\ source.origin \in Address /\ Len(made) \in Nat /\ Len(items) \in Nat
    BY RangeFacts, LenProperties DEF Sorts
<1>2. phase = "expand" /\ pos > Len(items) /\ items' = made
      /\ UNCHANGED <<source, skips>>
    BY DEF Again
<1>3. CASE guard = 0
    <2>1. phase' = "unsettled" /\ UNCHANGED <<pos, made, pc, symbols, guard, grew>>
      BY <1>3 DEF Again
    <2>2. pos \in 1 .. Len(made) + 1
      BY <1>1, <1>2 DEF Sorts
    <2> QED BY <1>1, <1>2, <2>1, <2>2 DEF Sorts, Phases, Table
<1>4. CASE guard # 0
    <2>1. /\ guard' = guard - 1 /\ symbols' = Symbols(made) /\ pos' = 1 /\ made' = <<>>
          /\ pc' = source.origin /\ grew' = {} /\ phase' = "reserve"
      BY <1>4 DEF Again
    <2>2. Table(symbols')
      BY <1>1, <2>1, SymbolsKeep
    <2>3. guard' \in Nat /\ pc' \in Nat /\ made' \in Seq(Piece)
      BY <1>1, <1>4, <2>1 DEF Sorts, Address
    <2>4. pos' \in 1 .. Len(items') + 1
      BY <1>1, <1>2, <2>1
    <2> QED BY <1>1, <1>2, <2>1, <2>2, <2>3, <2>4 DEF Sorts, Phases, Table
<1> QED BY <1>3, <1>4

\* A list whose constants and origins are defined where they stand has its
\* origins defined in the table of the whole of it.
LEMMA SortsAssignLabels == Sorts /\ AssignLabels => Sorts'
<1> SUFFICES ASSUME Sorts, AssignLabels PROVE Sorts'
    OBVIOUS
<1>1. /\ source \in Sources /\ Admissible(source.ranges) /\ made \in Seq(Piece)
      /\ source.origin \in Address /\ Len(made) \in Nat
    BY RangeFacts, LenProperties DEF Sorts
<1>2. /\ items' = made /\ pos' = 1 /\ made' = <<>> /\ pc' = source.origin
      /\ UNCHANGED <<source, skips, guard, grew>>
    BY DEF AssignLabels
<1>3. made' \in Seq(Piece) /\ pc' \in Nat /\ pos' \in 1 .. Len(items') + 1
    BY <1>1, <1>2 DEF Address
<1>4. CASE Evaluable(made)
    <2>1. symbols' = Symbols(made) /\ phase' = "emit"
      BY <1>4 DEF AssignLabels
    <2>2. Table(symbols')
      BY <1>1, <2>1, SymbolsKeep
    <2>3. \A k \in 1 .. Len(made) : made[k].kind = "org" => Defined(made[k].to, Symbols(made))
      BY <1>1, <1>4, SymbolsKeep DEF Evaluable
    <2>4. \A k \in 1 .. Len(items') : items'[k].kind = "org" => Defined(items'[k].to, symbols')
      BY <1>2, <2>1, <2>3
    <2> QED BY <1>1, <1>2, <1>3, <2>1, <2>2, <2>4 DEF Sorts, Phases, Table
<1>5. CASE ~Evaluable(made)
    <2>1. symbols' = symbols /\ phase' = "failed"
      BY <1>5 DEF AssignLabels
    <2> QED BY <1>1, <1>2, <1>3, <2>1 DEF Sorts, Phases, Table
<1> QED BY <1>4, <1>5

LEMMA SortsEmit == Sorts /\ Emit => Sorts'
<1> SUFFICES ASSUME Sorts, Emit PROVE Sorts'
    OBVIOUS
<1>0. phase = "emit" /\ pos <= Len(items)
    BY DEF Emit
<1>1. /\ pos \in 1 .. Len(items) /\ Item \in Piece /\ Len(items) \in Nat
      /\ SizeOf(Item, symbols) \in Nat
      /\ Item.kind = "org" /\ Defined(Item.to, symbols) => Value(Item.to, symbols) \in Nat
    BY <1>0, SortsItem
<1>2. CASE Fail
    BY <1>0, <1>2 DEF Fail, Sorts, Phases, Table
<1>3. CASE ~Fail
    <2>1. /\ pc' = IF Item.kind = "org" THEN Value(Item.to, symbols)
                   ELSE (pc + SizeOf(Item, symbols)) % AddressSpace
          /\ pos' = pos + 1
          /\ UNCHANGED <<source, items, made, symbols, skips, guard, grew, phase>>
      BY <1>3 DEF Emit
    <2>2. Item.kind = "org" => Defined(Item.to, symbols)
      BY <1>0, <1>1 DEF Sorts, Item
    <2>3. (pc + SizeOf(Item, symbols)) % AddressSpace \in Nat
      <3>1. pc + SizeOf(Item, symbols) \in Nat
        BY <1>1 DEF Sorts
      <3> QED BY <3>1, WrapIsAddress
    <2>4. pc' \in Nat
      BY <1>1, <2>1, <2>2, <2>3
    <2> QED BY <1>0, <1>1, <2>1, <2>4 DEF Sorts, Table
<1> QED BY <1>2, <1>3

LEMMA SortsFinish == Sorts /\ Finish => Sorts'
BY DEF Sorts, Finish, Phases, Table

LEMMA SortsNext == Sorts /\ [Next]_vars => Sorts'
<1> SUFFICES ASSUME Sorts, [Next]_vars PROVE Sorts'
    OBVIOUS
<1>1. CASE UNCHANGED vars
    BY <1>1 DEF Sorts, vars, Table
<1>2. CASE Next
    BY <1>2, SortsReserve, SortsStartExpand, SortsExpand, SortsKeep, SortsAgain,
       SortsAssignLabels, SortsEmit, SortsFinish DEF Next
<1> QED BY <1>1, <1>2

LEMMA SortsAlways == Spec => []Sorts
<1> QED BY SortsInit, SortsNext, PTL DEF Spec

\* Whatever is assembled: the passes stay inside their lists, the program
\* counter and the guard never go below zero, a symbol always has an address of
\* the machine, and an origin that is emitted has a value
\* (assembler.rs:233-393).
THEOREM TypeCorrect == Spec => []TypeOK
<1>1. Sorts => TypeOK
    BY DEF Sorts, TypeOK, Phases, Table, Address
<1> QED BY <1>1, SortsAlways, PTL

-----------------------------------------------------------------------------
(* Bridges in a list. *)

\* How far the first n items of a list are into a bridge: behind its marker,
\* behind its JMP, or not at all.
Open(list, n) ==
    IF n >= 1 /\ list[n] = Pad(0) THEN 1
    ELSE IF n >= 2 /\ list[n - 1] = Pad(0) THEN 2 ELSE 0

\* What can come next.
Fits(open, item) ==
    /\ open = 0 /\ item.kind = "pad" => item = Pad(0)
    /\ open = 1 => \E r \in source.ranges : item = Jump(0, At(r.end + 1))
    /\ open = 2 => item.kind = "pad" /\ item # Pad(0)

\* The pads of the list are those of bridges, each behind its own JMP; and no
\* bridge is left open.
Bridged(list) == \A n \in 1 .. Len(list) : Fits(Open(list, n - 1), list[n])
Whole(list) == Bridged(list) /\ Open(list, Len(list)) = 0

LEMMA PadKind == \A n : Pad(n).kind = "pad" /\ Pad(n).size = n
BY DEF Pad

\* One more item.
LEMMA AppendBridged ==
    ASSUME NEW list \in Seq(Piece), NEW item \in Piece
    PROVE  LET longer == Append(list, item) IN
           /\ longer \in Seq(Piece) /\ Len(longer) = Len(list) + 1
           /\ Bridged(list) /\ Fits(Open(list, Len(list)), item) => Bridged(longer)
           /\ Open(longer, Len(list) + 1) =
                 IF item = Pad(0) THEN 1 ELSE IF Open(list, Len(list)) = 1 THEN 2 ELSE 0
<1> DEFINE longer == Append(list, item)
<1>1. /\ Len(list) \in Nat /\ longer \in Seq(Piece) /\ Len(longer) = Len(list) + 1
      /\ longer[Len(list) + 1] = item /\ \A k \in 1 .. Len(list) : longer[k] = list[k]
    BY LenProperties, AppendProperties
<1> HIDE DEF longer
<1>2. \A n \in 0 .. Len(list) : Open(longer, n) = Open(list, n)
    BY <1>1 DEF Open
<1>3. Open(longer, Len(list) + 1) =
         IF item = Pad(0) THEN 1 ELSE IF Open(list, Len(list)) = 1 THEN 2 ELSE 0
    BY <1>1 DEF Open
<1>4. ASSUME Bridged(list), Fits(Open(list, Len(list)), item) PROVE Bridged(longer)
    <2> SUFFICES ASSUME NEW n \in 1 .. Len(list) + 1 PROVE Fits(Open(longer, n - 1), longer[n])
      BY <1>1 DEF Bridged
    <2>1. CASE n = Len(list) + 1
      <3>1. Open(longer, n - 1) = Open(list, Len(list)) /\ longer[n] = item
        BY <1>1, <1>2, <2>1
      <3> QED BY <1>4, <3>1
    <2>2. CASE n # Len(list) + 1
      <3>1. n \in 1 .. Len(list) /\ n - 1 \in 0 .. Len(list)
        BY <1>1, <2>2
      <3>2. Open(longer, n - 1) = Open(list, n - 1) /\ longer[n] = list[n]
        BY <1>1, <1>2, <3>1
      <3> QED BY <1>4, <3>1, <3>2 DEF Bridged
    <2> QED BY <2>1, <2>2
<1> QED BY <1>1, <1>3, <1>4 DEF longer

\* Without a pad at its end, a list that is whole stays so.
LEMMA AppendWhole ==
    ASSUME NEW list \in Seq(Piece), Whole(list), NEW item \in Piece, item.kind # "pad"
    PROVE  Append(list, item) \in Seq(Piece) /\ Whole(Append(list, item))
<1>1. item # Pad(0)
    BY PadKind
<1>2. Fits(0, item)
    BY DEF Fits
<1> QED BY <1>1, <1>2, AppendBridged DEF Whole

\* A list made longer by three items is made longer three times.
LEMMA ThreeMore ==
    ASSUME NEW list \in Seq(Piece), NEW x \in Piece, NEW y \in Piece, NEW z \in Piece
    PROVE  list \o <<x, y, z>> = Append(Append(Append(list, x), y), z)
<1> DEFINE t == <<x, y, z>>
           l1 == Append(list, x)
           l2 == Append(l1, y)
           l3 == Append(l2, z)
<1> HIDE DEF Piece
<1>1. Len(list) \in Nat /\ t \in Seq(Piece) /\ Len(t) = 3 /\ t[1] = x /\ t[2] = y /\ t[3] = z
    BY LenProperties
<1>2. /\ l1 \in Seq(Piece) /\ Len(l1) = Len(list) + 1 /\ l1[Len(list) + 1] = x
      /\ \A k \in 1 .. Len(list) : l1[k] = list[k]
    BY AppendProperties
<1> HIDE DEF l1
<1>3. /\ l2 \in Seq(Piece) /\ Len(l2) = Len(l1) + 1 /\ l2[Len(l1) + 1] = y
      /\ \A k \in 1 .. Len(l1) : l2[k] = l1[k]
    BY <1>2, AppendProperties
<1> HIDE DEF l2
<1>4. /\ l3 \in Seq(Piece) /\ Len(l3) = Len(l2) + 1 /\ l3[Len(l2) + 1] = z
      /\ \A k \in 1 .. Len(l2) : l3[k] = l2[k]
    BY <1>3, AppendProperties
<1> HIDE DEF l3, t
<1>5. /\ list \o t \in Seq(Piece) /\ Len(list \o t) = Len(list) + 3
      /\ \A k \in 1 .. Len(list) + 3 :
            (list \o t)[k] = IF k <= Len(list) THEN list[k] ELSE t[k - Len(list)]
    <2>1. Len(list \o t) = Len(list) + Len(t)
      BY <1>1, ConcatProperties
    <2>2. list \o t \in Seq(Piece)
      BY <1>1, ConcatProperties
    <2>3. \A k \in 1 .. Len(list) + Len(t) :
            (list \o t)[k] = IF k <= Len(list) THEN list[k] ELSE t[k - Len(list)]
      BY <1>1, ConcatProperties
    <2> QED BY <1>1, <2>1, <2>2, <2>3
<1>6. ASSUME NEW k \in 1 .. Len(list) + 3 PROVE (list \o t)[k] = l3[k]
    <2>1. k <= Len(list) => k \in 1 .. Len(list) /\ k \in 1 .. Len(l1) /\ k \in 1 .. Len(l2)
      BY <1>1, <1>2, <1>3
    <2>2. \/ k <= Len(list) \/ k = Len(list) + 1 \/ k = Len(list) + 2 \/ k = Len(list) + 3
      <3>1. Len(list) \in Nat /\ k \in Nat /\ k <= Len(list) + 3
        BY <1>1
      <3> QED BY <3>1
    <2>3. CASE k <= Len(list)
      BY <1>2, <1>3, <1>4, <1>5, <2>1, <2>3
    <2>4. CASE k = Len(list) + 1
      BY <1>1, <1>2, <1>3, <1>4, <1>5, <2>4
    <2>5. CASE k = Len(list) + 2
      BY <1>1, <1>2, <1>3, <1>4, <1>5, <2>5
    <2>6. CASE k = Len(list) + 3
      BY <1>1, <1>2, <1>3, <1>4, <1>5, <2>6
    <2> QED BY <2>2, <2>3, <2>4, <2>5, <2>6
<1>7. Len(l3) = Len(list) + 3
    BY <1>1, <1>2, <1>3, <1>4
<1>8. list \o t = l3
    BY <1>4, <1>5, <1>6, <1>7, SeqEqual
<1> QED BY <1>8 DEF t, l1, l2, l3

LEMMA BridgeWhole ==
    ASSUME source \in Sources, Admissible(source.ranges),
           NEW list \in Seq(Piece), Whole(list),
           NEW at \in Int, NEW r \in source.ranges, at + JmpSize <= r.start
    PROVE  list \o Bridge(at, r) \in Seq(Piece) /\ Whole(list \o Bridge(at, r))
<1> DEFINE x == Pad(0)
           y == Jump(0, At(r.end + 1))
           z == Pad(r.end + 1 - (at + JmpSize))
<1>1. Bridge(at, r) \in Seq(Piece) /\ Len(Bridge(at, r)) = 3 /\ Bridge(at, r) = <<x, y, z>>
    BY BridgePieces DEF Bridge
<1>2. x \in Piece /\ y \in Piece /\ z \in Piece
    <2> HIDE DEF x, y, z
    <2>1. Bridge(at, r)[1] \in Piece /\ Bridge(at, r)[2] \in Piece /\ Bridge(at, r)[3] \in Piece
      BY <1>1, ElementOfSeq
    <2> QED BY <1>1, <2>1
<1>3. y # x /\ y.kind = "jump"
    BY DEF Jump, Pad
<1>4. z # x /\ z.kind = "pad"
    <2>1. r.end + 1 - (at + JmpSize) # 0
      BY RangeFacts DEF JmpSize
    <2> QED BY <2>1, PadKind
<1>5. Fits(0, x) /\ Fits(1, y) /\ Fits(2, z)
    BY <1>4 DEF Fits
<1> HIDE DEF x, y, z
<1> DEFINE l1 == Append(list, x)
           l2 == Append(l1, y)
           l3 == Append(l2, z)
<1>6. l1 \in Seq(Piece) /\ Len(l1) = Len(list) + 1 /\ Bridged(l1) /\ Open(l1, Len(l1)) = 1
    BY <1>2, <1>5, AppendBridged DEF Whole, x
<1> HIDE DEF l1
<1>7. l2 \in Seq(Piece) /\ Len(l2) = Len(l1) + 1 /\ Bridged(l2) /\ Open(l2, Len(l2)) = 2
    <2>1. y # Pad(0)
      BY <1>3 DEF x
    <2> QED BY <2>1, <1>2, <1>5, <1>6, AppendBridged
<1> HIDE DEF l2
<1>8. l3 \in Seq(Piece) /\ Bridged(l3) /\ Open(l3, Len(l3)) = 0
    <2>1. z # Pad(0)
      BY <1>4 DEF x
    <2> QED BY <2>1, <1>2, <1>5, <1>7, AppendBridged
<1>9. list \o Bridge(at, r) = l3
    BY <1>1, <1>2, ThreeMore DEF l1, l2, l3
<1> QED BY <1>8, <1>9 DEF Whole

LEMMA ThreeWhole ==
    ASSUME NEW list \in Seq(Piece), Whole(list),
           NEW x \in Piece, NEW y \in Piece, NEW z \in Piece,
           x.kind # "pad", y.kind # "pad", z.kind # "pad"
    PROVE  list \o <<x, y, z>> \in Seq(Piece) /\ Whole(list \o <<x, y, z>>)
<1>1. Append(list, x) \in Seq(Piece) /\ Whole(Append(list, x))
    BY AppendWhole
<1>2. Append(Append(list, x), y) \in Seq(Piece) /\ Whole(Append(Append(list, x), y))
    BY <1>1, AppendWhole
<1>3. /\ Append(Append(Append(list, x), y), z) \in Seq(Piece)
      /\ Whole(Append(Append(Append(list, x), y), z))
    BY <1>2, AppendWhole
<1>4. list \o <<x, y, z>> = Append(Append(Append(list, x), y), z)
    BY ThreeMore
<1> QED BY <1>3, <1>4

\* The first n items.
LEMMA PrefixFacts ==
    ASSUME NEW list \in Seq(Piece), NEW n \in 0 .. Len(list)
    PROVE  /\ SubSeq(list, 1, n) \in Seq(Piece) /\ Len(SubSeq(list, 1, n)) = n
           /\ \A k \in 1 .. n : SubSeq(list, 1, n)[k] = list[k]
<1> DEFINE s == SubSeq(list, 1, n)
<1> HIDE DEF Piece
<1>1. Len(list) \in Nat /\ n \in Nat /\ n <= Len(list)
    BY LenProperties
<1>2. \A k \in 1 .. n : list[k] \in Piece
    BY <1>1, ElementOfSeq
<1>3. s \in Seq(Piece)
    BY <1>1, <1>2, SubSeqProperties
<1>4. Len(s) = IF 1 <= n THEN n - 1 + 1 ELSE 0
    BY <1>1, <1>2, SubSeqProperties
<1>5. \A k \in 1 .. n - 1 + 1 : s[k] = list[1 + k - 1]
    BY <1>1, <1>2, SubSeqProperties
<1> HIDE DEF s
<1>6. Len(s) = n
    BY <1>1, <1>4
<1>7. ASSUME NEW k \in 1 .. n PROVE s[k] = list[k]
    <2>1. k \in 1 .. n - 1 + 1 /\ 1 + k - 1 = k
      BY <1>1
    <2> QED BY <1>5, <2>1
<1> QED BY <1>3, <1>6, <1>7 DEF s

\* A branch is never part of a bridge: in front of it the list is whole.
LEMMA BeforeBranch ==
    ASSUME NEW list \in Seq(Piece), Bridged(list), list # <<>>,
           list[Len(list)].kind = "branch"
    PROVE  /\ SubSeq(list, 1, Len(list) - 1) \in Seq(Piece)
           /\ Whole(SubSeq(list, 1, Len(list) - 1))
<1> DEFINE s == SubSeq(list, 1, Len(list) - 1)
<1>1. Len(list) \in Nat /\ Len(list) >= 1
    BY LenProperties, EmptySeq
<1>2. s \in Seq(Piece) /\ Len(s) = Len(list) - 1 /\ \A k \in 1 .. Len(list) - 1 : s[k] = list[k]
    <2>1. Len(list) - 1 \in 0 .. Len(list)
      BY <1>1
    <2> QED BY <2>1, PrefixFacts
<1> HIDE DEF s
<1>3. \A n \in 0 .. Len(list) - 1 : Open(s, n) = Open(list, n)
    BY <1>1, <1>2 DEF Open
<1>4. \A n \in 1 .. Len(list) - 1 : Fits(Open(s, n - 1), s[n])
    <2> SUFFICES ASSUME NEW n \in 1 .. Len(list) - 1 PROVE Fits(Open(s, n - 1), s[n])
      OBVIOUS
    <2>1. n \in 1 .. Len(list) /\ n - 1 \in 0 .. Len(list) - 1
      BY <1>1
    <2> QED BY <1>2, <1>3, <2>1 DEF Bridged
<1>5. Open(list, Len(list) - 1) = 0
    <2>1. Fits(Open(list, Len(list) - 1), list[Len(list)])
      BY <1>1 DEF Bridged
    <2>2. Open(list, Len(list) - 1) \in {0, 1, 2}
      BY DEF Open
    <2>3. \A o : Jump(0, o).kind = "jump"
      BY DEF Jump
    <2> QED BY <2>1, <2>2, <2>3 DEF Fits
<1>6. Open(s, Len(s)) = 0
    <2>1. Len(s) \in 0 .. Len(list) - 1
      BY <1>1, <1>2
    <2> QED BY <1>2, <1>3, <1>5, <2>1
<1>7. Bridged(s)
    BY <1>2, <1>4 DEF Bridged
<1> QED BY <1>2, <1>6, <1>7 DEF Whole, s

\* What the user writes holds no pads.
LEMMA WrittenWhole ==
    ASSUME NEW list \in Seq(Written)
    PROVE  Whole(list)
<1>1. Len(list) \in Nat /\ \A k \in 1 .. Len(list) : list[k].kind # "pad"
    <2>1. \A w \in Written : w.kind # "pad"
      BY DEF Written
    <2> QED BY <2>1, LenProperties, ElementOfSeq
<1>2. \A n \in 0 .. Len(list) : Open(list, n) = 0
    <2> SUFFICES ASSUME NEW n \in 0 .. Len(list) PROVE Open(list, n) = 0
      OBVIOUS
    <2>1. n >= 1 => list[n].kind # "pad"
      BY <1>1
    <2>2. n >= 2 => list[n - 1].kind # "pad"
      BY <1>1
    <2> QED BY <2>1, <2>2, PadKind DEF Open
<1>3. \A n \in 1 .. Len(list) : n - 1 \in 0 .. Len(list)
    BY <1>1
<1> QED BY <1>1, <1>2, <1>3 DEF Whole, Bridged, Fits

\* Bridges through the passes: the lists hold nothing but whole bridges, the
\* reserve pass never stops inside one, and the expansion is as far into one in
\* what it puts out as in what it reads.
Marked ==
    /\ Bridged(items) /\ Bridged(made)
    /\ phase = "reserve" => Whole(items) /\ Whole(made) /\ Open(items, pos - 1) = 0
    /\ phase = "expand" => Whole(items) /\ Open(made, Len(made)) = Open(items, pos - 1)

\* The ranges are those of the program throughout.
LEMMA SameRanges ==
    ASSUME source' = source
    PROVE  /\ Bridged(items)' <=> Bridged(items')
           /\ Bridged(made)' <=> Bridged(made')
           /\ Whole(items)' <=> Whole(items')
           /\ Whole(made)' <=> Whole(made')
BY DEF Bridged, Whole, Fits

LEMMA EmptyWhole == Whole(<<>>)
BY DEF Whole, Bridged, Open

\* At an item behind a whole part of a whole list: a bridge to one of the ranges
\* starts here, or the item is not a pad; and three items on it is whole again.
LEMMA AtItem ==
    ASSUME NEW list \in Seq(Piece), Whole(list), NEW k \in 1 .. Len(list),
           Open(list, k - 1) = 0
    PROVE  \/ /\ k + 2 <= Len(list) /\ list[k] = Pad(0)
              /\ \E r \in source.ranges : list[k + 1] = Jump(0, At(r.end + 1))
              /\ list[k + 2].kind = "pad" /\ Open(list, k + 2) = 0
           \/ list[k].kind # "pad" /\ Open(list, k) = 0
<1>1. Len(list) \in Nat /\ k \in Nat /\ k >= 1 /\ k <= Len(list)
    BY LenProperties
<1>2. \A n \in 1 .. Len(list) : Fits(Open(list, n - 1), list[n])
    BY DEF Whole, Bridged
<1>3. Open(list, k) = IF list[k] = Pad(0) THEN 1 ELSE 0
    <2>1. k - 1 >= 1 => list[k - 1] # Pad(0)
      BY <1>1 DEF Open
    <2> QED BY <1>1, <2>1 DEF Open
<1>4. CASE list[k] # Pad(0)
    <2>1. Fits(0, list[k])
      BY <1>2
    <2> QED BY <1>3, <1>4, <2>1 DEF Fits
<1>5. CASE list[k] = Pad(0)
    <2>1. k # Len(list)
      BY <1>3, <1>5 DEF Whole
    <2>2. k + 1 \in 1 .. Len(list) /\ (k + 1) - 1 = k /\ k + 1 >= 2
      BY <1>1, <2>1
    <2>3. \E r \in source.ranges : list[k + 1] = Jump(0, At(r.end + 1))
      <3>1. Fits(1, list[k + 1])
        BY <1>2, <1>3, <1>5, <2>2
      <3> QED BY <3>1 DEF Fits
    <2>4. list[k + 1] # Pad(0)
      BY <2>3, PadKind DEF Jump
    <2>5. Open(list, k + 1) = 2
      BY <1>1, <1>5, <2>2, <2>4 DEF Open
    <2>6. k + 1 # Len(list)
      BY <2>5 DEF Whole
    <2>7. k + 2 \in 1 .. Len(list) /\ (k + 2) - 1 = k + 1 /\ k + 2 >= 2
      BY <1>1, <2>2, <2>6
    <2>8. list[k + 2].kind = "pad" /\ list[k + 2] # Pad(0)
      <3>1. Fits(2, list[k + 2])
        BY <1>2, <2>5, <2>7
      <3> QED BY <3>1 DEF Fits
    <2>9. Open(list, k + 2) = 0
      BY <1>1, <2>4, <2>7, <2>8 DEF Open
    <2> QED BY <1>1, <1>5, <2>3, <2>7, <2>8, <2>9
<1> QED BY <1>4, <1>5

\* What detect_bridge finds at such a place is one of those bridges.
LEMMA BridgeFound ==
    ASSUME Sorts, Marked, Reserving, NEW r \in BridgedAt(pos)
    PROVE  /\ pos + 2 <= Len(items) /\ items[pos] = Pad(0)
           /\ items[pos + 1] = Jump(0, At(r.end + 1))
           /\ Open(items, pos + 2) = 0
<1>1. /\ items \in Seq(Piece) /\ Whole(items) /\ Open(items, pos - 1) = 0
      /\ pos \in 1 .. Len(items)
    BY SortsItem DEF Sorts, Marked, Reserving
<1>2. items[pos].kind = "pad" /\ items[pos + 1].to = At(r.end + 1)
    BY DEF BridgedAt
<1>3. /\ pos + 2 <= Len(items) /\ items[pos] = Pad(0) /\ Open(items, pos + 2) = 0
      /\ \E s \in source.ranges : items[pos + 1] = Jump(0, At(s.end + 1))
    BY <1>1, <1>2, AtItem
<1>4. \A o : Jump(0, o).to = o
    BY DEF Jump
<1> QED BY <1>2, <1>3, <1>4

\* What is placed or kept where it is, is no pad.
LEMMA NoBridgeHere ==
    ASSUME Sorts, Marked, Reserving,
           Item.kind \in {"label", "constant", "org"} \/ BridgedAt(pos) = {}
    PROVE  Item.kind # "pad" /\ Open(items, pos) = 0
<1>1. /\ items \in Seq(Piece) /\ Whole(items) /\ Open(items, pos - 1) = 0
      /\ pos \in 1 .. Len(items)
    BY SortsItem DEF Sorts, Marked, Reserving
<1>2. ASSUME NEW r \in source.ranges,
             pos + 2 <= Len(items), items[pos] = Pad(0), items[pos + 2].kind = "pad",
             items[pos + 1] = Jump(0, At(r.end + 1))
      PROVE  Item.kind = "pad" /\ r \in BridgedAt(pos)
    <2>1. items[pos].kind = "pad" /\ items[pos + 1].kind = "jump"
          /\ items[pos + 1].to = At(r.end + 1)
      BY <1>2, PadKind DEF Jump
    <2> QED BY <1>2, <2>1 DEF BridgedAt, Item
<1> QED BY <1>1, <1>2, AtItem DEF Item

LEMMA MarkedInit == Init => Marked
<1> SUFFICES ASSUME Init PROVE Marked
    OBVIOUS
<1>1. items \in Seq(Written) /\ made = <<>> /\ pos = 1 /\ phase = "reserve"
    BY SourcesAssumption DEF Init
<1>2. Whole(items) /\ Whole(made)
    BY <1>1, WrittenWhole, EmptyWhole
<1>3. Open(items, pos - 1) = 0
    BY <1>1 DEF Open
<1> QED BY <1>1, <1>2, <1>3 DEF Marked, Whole

LEMMA MarkedReserve == Sorts /\ Marked /\ Reserve => Marked'
<1> SUFFICES ASSUME Sorts, Marked, Reserve PROVE Marked'
    OBVIOUS
<1>0. Reserving /\ phase = "reserve"
    BY DEF Reserve, KeepInPlace, DropBridge, RemakeBridge, LandInside, MoveTriple,
           InsertBridge, Place, Placing, Reserving
<1>1. /\ source \in Sources /\ Admissible(source.ranges) /\ made \in Seq(Piece)
      /\ items \in Seq(Piece) /\ pc \in Nat /\ pos <= Len(items)
      /\ Whole(items) /\ Whole(made) /\ Open(items, pos - 1) = 0
    BY <1>0 DEF Sorts, Marked, Reserving
<1>2. pos \in 1 .. Len(items) /\ Item \in Piece /\ Len(items) \in Nat
    BY <1>1, SortsItem
<1>3. ASSUME Whole(made'), Open(items, pos' - 1) = 0, UNCHANGED <<source, items, phase>>
      PROVE  Marked'
    <2>1. Whole(items)' /\ Whole(made)'
      BY <1>1, <1>3, SameRanges
    <2>2. Bridged(items)' /\ Bridged(made)'
      BY <2>1 DEF Whole
    <2> QED BY <1>0, <1>3, <2>1, <2>2 DEF Marked
<1>4. ASSUME Fail PROVE Marked'
    <2>1. UNCHANGED <<source, items, made>> /\ phase' = "failed"
      BY <1>4 DEF Fail
    <2>2. Bridged(items)' /\ Bridged(made)'
      BY <1>1, <2>1, SameRanges DEF Whole
    <2> QED BY <2>1, <2>2 DEF Marked
<1>5. CASE KeepInPlace
    <2>1. Item.kind \in {"label", "constant", "org"} /\ made' = Append(made, Item) /\ pos' = pos + 1
          /\ UNCHANGED <<source, items, phase>>
      BY <1>5 DEF KeepInPlace, Pass
    <2>2. Item.kind # "pad" /\ Open(items, pos) = 0
      BY <1>0, <2>1, NoBridgeHere
    <2>3. Whole(made')
      BY <1>1, <1>2, <2>1, <2>2, AppendWhole
    <2> QED BY <1>2, <1>3, <2>1, <2>2, <2>3
<1>6. CASE DropBridge
    <2>1. PICK r \in BridgedAt(pos) : Pass(made, 3, pc)
      BY <1>6 DEF DropBridge
    <2>2. made' = made /\ pos' = pos + 3 /\ UNCHANGED <<source, items, phase>>
      BY <2>1 DEF Pass
    <2>3. Open(items, pos + 2) = 0
      BY <1>0, BridgeFound
    <2> QED BY <1>1, <1>2, <1>3, <2>2, <2>3
<1>7. CASE RemakeBridge
    <2>1. PICK r \in BridgedAt(pos) :
            IF pc + JmpSize > r.start THEN Fail
            ELSE Pass(made \o Bridge(pc, r), 3, r.end + 1)
      BY <1>7 DEF RemakeBridge
    <2>2. r \in source.ranges /\ r.start \in Nat
      BY <1>1, RangeFacts DEF BridgedAt
    <2>3. CASE pc + JmpSize <= r.start
      <3>1. Whole(made \o Bridge(pc, r))
        BY <1>1, <2>2, <2>3, BridgeWhole
      <3>2. made' = made \o Bridge(pc, r) /\ pos' = pos + 3 /\ UNCHANGED <<source, items, phase>>
        <4>1. pc \in Nat
          BY <1>1
        <4>2. ~(pc + JmpSize > r.start)
          BY <2>2, <2>3, <4>1 DEF JmpSize
        <4> QED BY <2>1, <4>2 DEF Pass
      <3>3. Open(items, pos + 2) = 0
        BY <1>0, BridgeFound
      <3> QED BY <1>2, <1>3, <3>1, <3>2, <3>3
    <2>4. CASE ~(pc + JmpSize <= r.start)
      BY <1>1, <1>4, <2>1, <2>2, <2>4 DEF JmpSize
    <2> QED BY <2>3, <2>4
<1>8. CASE LandInside
    BY <1>4, <1>8 DEF LandInside
<1>9. CASE MoveTriple
    <2> DEFINE r == Lowest(SplitRanges)
               branch == made[Len(made)]
               front == SubSeq(made, 1, Len(made) - 1)
    <2>1. SplitRanges # {} /\ SplitRanges \subseteq source.ranges /\ HalfOfTriple(Item)
      BY <1>9 DEF MoveTriple, SplitRanges, Conflicts
    <2>2. r \in source.ranges /\ r.start \in Nat
      BY <1>1, <2>1, LowestIsOne, RangeFacts
    <2>3. /\ made # <<>> /\ pos < Len(items) /\ branch.kind = "branch" /\ Item.kind = "jump"
          /\ items[pos + 1] = Label(branch.to)
      BY <2>1 DEF HalfOfTriple
    <2>4. Len(made) \in Nat /\ Len(made) >= 1
      BY <1>1, <2>3, EmptySeq, LenProperties
    <2>5. branch \in Piece /\ items[pos + 1] \in Piece
      <3>1. Len(made) \in 1 .. Len(made) /\ pos + 1 \in 1 .. Len(items)
        BY <1>2, <2>3, <2>4
      <3> QED BY <1>1, <3>1, ElementOfSeq
    <2>6. front \in Seq(Piece) /\ Whole(front)
      BY <1>1, <2>3, BeforeBranch DEF Whole
    <2>7. items[pos + 1].kind = "label"
      BY <2>3 DEF Label
    <2>8. CASE pc - BranchSize + JmpSize > r.start
      <3>1. Fail
        BY <1>9, <2>8 DEF MoveTriple
      <3> QED BY <3>1, <1>4
    <2>9. CASE ~(pc - BranchSize + JmpSize > r.start)
      <3>1. pc - BranchSize \in Int /\ pc - BranchSize + JmpSize <= r.start
        BY <1>1, <2>2, <2>9 DEF BranchSize, JmpSize
      <3> HIDE DEF front, branch
      <3>2. /\ front \o Bridge(pc - BranchSize, r) \in Seq(Piece)
            /\ Whole(front \o Bridge(pc - BranchSize, r))
        BY <1>1, <2>2, <2>6, <3>1, BridgeWhole
      <3>3. Whole(front \o Bridge(pc - BranchSize, r) \o <<branch, Item, items[pos + 1]>>)
        BY <1>2, <2>3, <2>5, <2>7, <3>2, ThreeWhole
      <3>4. /\ made' = front \o Bridge(pc - BranchSize, r) \o <<branch, Item, items[pos + 1]>>
            /\ pos' = pos + 2 /\ UNCHANGED <<source, items, phase>>
        BY <1>9, <2>9 DEF MoveTriple, Pass, front, branch
      <3>5. Open(items, pos + 1) = 0
        BY <1>2, <2>3, <2>7, PadKind DEF Open, Item
      <3> QED BY <1>2, <1>3, <3>3, <3>4, <3>5
    <2> QED BY <2>8, <2>9
<1>10. CASE InsertBridge
    <2> DEFINE ahead == Conflicts(pc, SizeOf(Item, symbols))
               r == Lowest(ahead)
    <2>1. ahead # {} /\ ahead \subseteq source.ranges
      BY <1>10 DEF InsertBridge, Conflicts
    <2>2. r \in source.ranges /\ r.start \in Nat
      BY <1>1, <2>1, LowestIsOne, RangeFacts
    <2>3. CASE pc + JmpSize > r.start
      <3>1. Fail
        BY <1>10, <2>3 DEF InsertBridge
      <3> QED BY <3>1, <1>4
    <2>4. CASE ~(pc + JmpSize > r.start)
      <3>1. pc + JmpSize <= r.start
        BY <1>1, <2>2, <2>4 DEF JmpSize
      <3>2. Whole(made \o Bridge(pc, r))
        BY <1>1, <2>2, <3>1, BridgeWhole
      <3>3. /\ made' = made \o Bridge(pc, r) /\ pos' = pos + 0
            /\ UNCHANGED <<source, items, phase>>
        BY <1>10, <2>4 DEF InsertBridge, Pass
      <3> QED BY <1>1, <1>2, <1>3, <3>2, <3>3
    <2> QED BY <2>3, <2>4
<1>11. CASE Place
    <2>1. BridgedAt(pos) = {} /\ made' = Append(made, Item) /\ pos' = pos + 1
          /\ UNCHANGED <<source, items, phase>>
      BY <1>11 DEF Place, Placing, Pass
    <2>2. Item.kind # "pad" /\ Open(items, pos) = 0
      BY <1>0, <2>1, NoBridgeHere
    <2>3. Whole(made')
      BY <1>1, <1>2, <2>1, <2>2, AppendWhole
    <2> QED BY <1>2, <1>3, <2>1, <2>2, <2>3
<1> QED BY <1>5, <1>6, <1>7, <1>8, <1>9, <1>10, <1>11 DEF Reserve

LEMMA MarkedStartExpand == Sorts /\ Marked /\ StartExpand => Marked'
<1> SUFFICES ASSUME Sorts, Marked, StartExpand PROVE Marked'
    OBVIOUS
<1>1. phase = "reserve" /\ Whole(items) /\ Whole(made)
    BY DEF StartExpand, Marked
<1>2. /\ Whole(items') /\ made' = <<>> /\ pos' = 1 /\ phase' = "expand" /\ source' = source
    BY <1>1 DEF StartExpand
<1>3. Whole(items)' /\ Whole(made)'
    BY <1>2, EmptyWhole, SameRanges
<1>4. Open(made', Len(made')) = 0 /\ Open(items', pos' - 1) = 0
    BY <1>2, EmptyWhole DEF Whole, Open
<1> QED BY <1>2, <1>3, <1>4 DEF Marked, Whole

LEMMA MarkedExpand == Sorts /\ Marked /\ Expand => Marked'
<1> SUFFICES ASSUME Sorts, Marked, Expand PROVE Marked'
    OBVIOUS
<1>0. phase = "expand" /\ pos <= Len(items) /\ Item.kind = "branch"
    BY DEF Expand, Expanding, TooFar
<1>1. /\ pos \in 1 .. Len(items) /\ Item \in Piece /\ Len(items) \in Nat
    BY <1>0, SortsItem
<1>2. /\ made \in Seq(Piece) /\ Whole(items) /\ Bridged(made)
      /\ Open(made, Len(made)) = Open(items, pos - 1) /\ skips \in Nat
    BY <1>0 DEF Sorts, Marked
<1>3. Item.to \in AnyName /\ Item.inverted \in BOOLEAN /\ Item.id \in Nat
    BY <1>0, <1>1, PieceCases
<1>4. Open(items, pos - 1) = 0
    <2>1. Fits(Open(items, pos - 1), items[pos])
      BY <1>1, <1>2 DEF Whole, Bridged
    <2>2. Open(items, pos - 1) \in {0, 1, 2}
      BY DEF Open
    <2>3. \A o : Jump(0, o).kind = "jump"
      BY DEF Jump
    <2> QED BY <1>0, <2>1, <2>2, <2>3 DEF Fits, Item
<1>5. Whole(made)
    BY <1>2, <1>4 DEF Whole
<1> DEFINE b == [Item EXCEPT !.to = SkipName(skips), !.inverted = ~@]
           j == Jump(0, Item.to)
           l == Label(SkipName(skips))
<1>6. SkipName(skips) \in AnyName
    BY <1>2 DEF SkipName, AnyName
<1>7. b \in Piece /\ b.kind # "pad"
    <2>1. Item \in [kind : {"branch"}, id : Nat, to : AnyName, inverted : BOOLEAN]
      <3> HIDE DEF AnyName, AnyOperand
      <3> QED BY <1>0, <1>1, <1>3 DEF Piece
    <2>2. b \in [kind : {"branch"}, id : Nat, to : AnyName, inverted : BOOLEAN]
      BY <1>6, <2>1
    <2>3. b \in Piece
      BY <2>2 DEF Piece
    <2> QED BY <2>2, <2>3
<1>8. j \in Piece /\ j.kind # "pad"
    BY <1>3 DEF Jump, Piece, AnyOperand
<1>9. l \in Piece /\ l.kind # "pad"
    BY <1>6 DEF Label, Piece
<1>10. /\ made' = made \o <<b, j, l>> /\ pos' = pos + 1
       /\ UNCHANGED <<source, items, phase>>
    BY DEF Expand
<1> HIDE DEF b, j, l
<1>11. Whole(made')
    BY <1>2, <1>5, <1>7, <1>8, <1>9, <1>10, ThreeWhole
<1>12. Open(items, pos) = 0
    <2>1. items[pos] # Pad(0)
      BY <1>0, PadKind DEF Item
    <2>2. pos - 1 >= 1 => items[pos - 1] # Pad(0)
      BY <1>1, <1>4 DEF Open
    <2> QED BY <1>1, <2>1, <2>2 DEF Open
<1>13. Open(items', pos' - 1) = 0
    BY <1>1, <1>10, <1>12
<1>14. Whole(items)' /\ Whole(made)'
    BY <1>2, <1>10, <1>11, SameRanges
<1> QED BY <1>0, <1>10, <1>13, <1>14 DEF Marked, Whole

LEMMA MarkedKeep == Sorts /\ Marked /\ Keep => Marked'
<1> SUFFICES ASSUME Sorts, Marked, Keep PROVE Marked'
    OBVIOUS
<1>0. phase = "expand" /\ pos <= Len(items)
    BY DEF Keep, Expanding
<1>1. /\ pos \in 1 .. Len(items) /\ Item \in Piece /\ Len(items) \in Nat
    BY <1>0, SortsItem
<1>2. /\ made \in Seq(Piece) /\ Whole(items) /\ Bridged(made)
      /\ Open(made, Len(made)) = Open(items, pos - 1)
    BY <1>0 DEF Sorts, Marked
<1>3. Fits(Open(made, Len(made)), Item)
    BY <1>1, <1>2 DEF Whole, Bridged, Item
<1>4. /\ made' = Append(made, Item) /\ pos' = pos + 1 /\ UNCHANGED <<source, items, phase>>
    BY DEF Keep, Pass
<1>5. /\ Bridged(made') /\ Len(made') = Len(made) + 1
      /\ Open(made', Len(made) + 1) =
            IF Item = Pad(0) THEN 1 ELSE IF Open(made, Len(made)) = 1 THEN 2 ELSE 0
    BY <1>1, <1>2, <1>3, <1>4, AppendBridged
<1>6. Open(items, pos) = IF Item = Pad(0) THEN 1 ELSE IF Open(items, pos - 1) = 1 THEN 2 ELSE 0
    BY <1>1 DEF Open, Item
<1>7. Open(made', Len(made')) = Open(items', pos' - 1)
    <2>1. pos' - 1 = pos
      BY <1>1, <1>4
    <2> QED BY <1>2, <1>4, <1>5, <1>6, <2>1
<1>8. Whole(items)' /\ Bridged(made)'
    BY <1>2, <1>4, <1>5, SameRanges
<1> QED BY <1>0, <1>4, <1>7, <1>8 DEF Marked, Whole

\* What an expansion has put out at its end is whole.
LEMMA ExpandedWhole ==
    ASSUME Sorts, Marked, phase = "expand", pos > Len(items)
    PROVE  Whole(made) /\ made \in Seq(Piece) /\ pos = Len(items) + 1 /\ Len(items) \in Nat
<1>1. pos \in 1 .. Len(items) + 1 /\ Len(items) \in Nat /\ made \in Seq(Piece)
    BY LenProperties DEF Sorts
<1>2. pos - 1 = Len(items)
    BY <1>1
<1>3. Open(made, Len(made)) = 0 /\ Bridged(made)
    BY <1>2 DEF Marked, Whole
<1> QED BY <1>1, <1>2, <1>3 DEF Whole

LEMMA MarkedAgain == Sorts /\ Marked /\ Again => Marked'
<1> SUFFICES ASSUME Sorts, Marked, Again PROVE Marked'
    OBVIOUS
<1>1. phase = "expand" /\ pos > Len(items) /\ items' = made /\ source' = source
    BY DEF Again
<1>2. Whole(made)
    BY <1>1, ExpandedWhole
<1>3. Whole(items)'
    BY <1>1, <1>2, SameRanges
<1>4. CASE guard = 0
    <2>1. phase' = "unsettled" /\ made' = made
      BY <1>4 DEF Again
    <2>2. Whole(made)'
      BY <1>1, <1>2, <2>1, SameRanges
    <2> QED BY <1>3, <2>1, <2>2 DEF Marked, Whole
<1>5. CASE guard # 0
    <2>1. phase' = "reserve" /\ made' = <<>> /\ pos' = 1
      BY <1>5 DEF Again
    <2>2. Whole(made)'
      BY <1>1, <2>1, EmptyWhole, SameRanges
    <2>3. Open(items', pos' - 1) = 0
      BY <2>1 DEF Open
    <2> QED BY <1>3, <2>1, <2>2, <2>3 DEF Marked, Whole
<1> QED BY <1>4, <1>5

LEMMA MarkedLater == Sorts /\ Marked /\ (AssignLabels \/ Emit \/ Finish) => Marked'
<1> SUFFICES ASSUME Sorts, Marked, AssignLabels \/ Emit \/ Finish PROVE Marked'
    OBVIOUS
<1>1. ASSUME UNCHANGED <<source, items, made>>, phase' \in {"emit", "done", "failed"}
      PROVE  Marked'
    <2>1. Bridged(items)' /\ Bridged(made)'
      BY <1>1, SameRanges DEF Marked
    <2> QED BY <1>1, <2>1 DEF Marked
<1>2. CASE AssignLabels
    <2>1. /\ phase = "expand" /\ pos > Len(items) /\ items' = made /\ made' = <<>>
          /\ source' = source /\ phase' \in {"emit", "failed"}
      BY <1>2 DEF AssignLabels
    <2>2. Whole(made)
      BY <2>1, ExpandedWhole
    <2>3. Whole(items)' /\ Whole(made)'
      BY <2>1, <2>2, EmptyWhole, SameRanges
    <2> QED BY <2>1, <2>3 DEF Marked, Whole
<1>3. CASE Emit
    BY <1>1, <1>3 DEF Emit, Fail
<1>4. CASE Finish
    BY <1>1, <1>4 DEF Finish
<1> QED BY <1>2, <1>3, <1>4

LEMMA MarkedNext == Sorts /\ Marked /\ [Next]_vars => Marked'
<1> SUFFICES ASSUME Sorts, Marked, [Next]_vars PROVE Marked'
    OBVIOUS
<1>1. CASE UNCHANGED vars
    <2>1. Bridged(items)' /\ Bridged(made)' /\ (Whole(items) => Whole(items)')
          /\ (Whole(made) => Whole(made)')
      BY <1>1, SameRanges DEF vars, Marked
    <2> QED BY <1>1, <2>1 DEF vars, Marked
<1>2. CASE Next
    BY <1>2, MarkedReserve, MarkedStartExpand, MarkedExpand, MarkedKeep, MarkedAgain,
       MarkedLater DEF Next
<1> QED BY <1>1, <1>2

-----------------------------------------------------------------------------
(* Addresses. *)

\* Nothing emitted reaches the end of the address space: the emission counts in
\* 16 bits, the reserve pass does not wrap (assembler.rs:329-390, 707-911).
Unwrapped == \A e \in ToSet(laid) : e.at + e.size < AddressSpace

Clear(at, size) == \A r \in source.ranges : at + size - 1 < r.start \/ at > r.end

\* The address behind an item, as the reserve pass counts.
After(at, item) ==
    IF item.kind = "org"
    THEN IF Defined(item.to, symbols) THEN Value(item.to, symbols) ELSE at
    ELSE at + SizeOf(item, symbols)

\* The item may stand there: it is no code, or it is clear of every range, or it
\* is the JMP of a bridge, which is clear of the range it leads over.
Safe(item, at) ==
    \/ item.kind \in {"label", "constant", "org", "pad"}
    \/ Clear(at, SizeOf(item, symbols))
    \/ item.kind = "jump" /\ item.id = 0 /\ \E r \in source.ranges : at + JmpSize - 1 < r.start

\* a has the addresses of the first n items of the list, and all but the last of
\* them may stand there.
Course(a, list, n) ==
    /\ a \in [1 .. n -> Nat] /\ a[1] = source.origin
    /\ \A k \in 1 .. n - 1 : a[k + 1] = After(a[k], list[k]) /\ Safe(list[k], a[k])

\* A round in which nothing has changed so far.
Settling ==
    source.ranges # {} /\ grew = {} =>
        /\ phase \in {"reserve", "expand"} =>
              made = SubSeq(items, 1, pos - 1) /\ symbols = Symbols(items)
        /\ phase = "reserve" => \E a : Course(a, items, pos) /\ a[pos] = pc
        /\ phase = "expand" => \E a : Course(a, items, Len(items) + 1)

\* What is in memory is clear of the ranges, the JMP of a bridge of its own.
Kept ==
    \A e \in ToSet(laid) :
        \/ e.kind = "pad" \/ Clear(e.at, e.size)
        \/ e.kind = "jump" /\ e.id = 0 /\ \E r \in source.ranges : e.at + e.size - 1 < r.start

\* The emission runs along the addresses of the last round.
Laying ==
    /\ phase \in {"reserve", "expand"} => laid = <<>>
    /\ laid \in Seq(ToSet(laid))
    /\ phase = "emit" =>
          /\ pc \in Address
          /\ source.ranges # {} =>
                \E a : Course(a, items, Len(items) + 1) /\ (Unwrapped => a[pos] = pc)
    /\ Unwrapped => Kept

LEMMA SameCourse ==
    ASSUME source' = source, symbols' = symbols
    PROVE  \A a, n : Course(a, items, n)' <=> Course(a, items', n)
BY DEF Course, After, Safe, Clear

LEMMA SameSymbols ==
    ASSUME source' = source
    PROVE  Symbols(items)' = Symbols(items')
BY DEF Symbols, Walk

LEMMA CourseStarts ==
    ASSUME source.origin \in Address, NEW list
    PROVE  \E a : Course(a, list, 1) /\ a[1] = source.origin
<1> DEFINE a == [k \in 1 .. 1 |-> source.origin]
<1>1. Course(a, list, 1) /\ a[1] = source.origin
    BY DEF Course, Address
<1> QED BY <1>1

\* A course goes on.
LEMMA CourseMore ==
    ASSUME NEW list, NEW n \in Nat, n >= 1, NEW a, Course(a, list, n),
           NEW at \in Nat, at = After(a[n], list[n]), Safe(list[n], a[n])
    PROVE  \E b : Course(b, list, n + 1) /\ b[n + 1] = at /\ b[n] = a[n]
<1> DEFINE b == [k \in 1 .. n + 1 |-> IF k = n + 1 THEN at ELSE a[k]]
<1>1. a \in [1 .. n -> Nat] /\ a[1] = source.origin
    BY DEF Course
<1>2. b \in [1 .. n + 1 -> Nat] /\ b[n + 1] = at /\ \A k \in 1 .. n : b[k] = a[k]
    BY <1>1
<1> HIDE DEF b
<1>3. ASSUME NEW k \in 1 .. (n + 1) - 1
      PROVE  b[k + 1] = After(b[k], list[k]) /\ Safe(list[k], b[k])
    <2>1. CASE k = n
      BY <1>2, <2>1
    <2>2. CASE k # n
      <3>1. k \in 1 .. n - 1 /\ k \in 1 .. n /\ k + 1 \in 1 .. n
        BY <2>2
      <3>2. a[k + 1] = After(a[k], list[k]) /\ Safe(list[k], a[k])
        BY <3>1 DEF Course
      <3> QED BY <1>2, <3>1, <3>2
    <2> QED BY <2>1, <2>2
<1>4. b[1] = source.origin
    BY <1>1, <1>2
<1>5. Course(b, list, n + 1)
    BY <1>2, <1>3, <1>4 DEF Course
<1>6. b[n + 1] = at /\ b[n] = a[n]
    BY <1>2
<1> QED BY <1>5, <1>6

\* One item more of a list that is copied.
LEMMA CopyOne ==
    ASSUME NEW list \in Seq(Piece), NEW k \in 1 .. Len(list)
    PROVE  Append(SubSeq(list, 1, k - 1), list[k]) = SubSeq(list, 1, k)
<1> DEFINE s == SubSeq(list, 1, k - 1)
           t == SubSeq(list, 1, k)
           u == Append(s, list[k])
<1>1. k - 1 \in 0 .. Len(list) /\ k \in 0 .. Len(list) /\ k \in Nat /\ list[k] \in Piece
    BY LenProperties, ElementOfSeq
<1>2. s \in Seq(Piece) /\ Len(s) = k - 1 /\ \A j \in 1 .. k - 1 : s[j] = list[j]
    BY <1>1, PrefixFacts
<1>3. t \in Seq(Piece) /\ Len(t) = k /\ \A j \in 1 .. k : t[j] = list[j]
    BY <1>1, PrefixFacts
<1> HIDE DEF s, t, Piece
<1>4. /\ u \in Seq(Piece) /\ Len(u) = Len(s) + 1 /\ u[Len(s) + 1] = list[k]
      /\ \A j \in 1 .. Len(s) : u[j] = s[j]
    BY <1>1, <1>2, AppendProperties
<1> HIDE DEF u
<1>5. Len(u) = Len(t)
    BY <1>1, <1>2, <1>3, <1>4
<1>6. ASSUME NEW j \in 1 .. k PROVE u[j] = t[j]
    <2>1. j = k \/ j \in 1 .. k - 1
      BY <1>1
    <2> QED BY <1>1, <1>2, <1>3, <1>4, <2>1
<1>7. u = t
    BY <1>3, <1>4, <1>5, <1>6, SeqEqual
<1> QED BY <1>7 DEF u, s, t

LEMMA CopyThree ==
    ASSUME NEW list \in Seq(Piece), NEW k \in 1 .. Len(list), k + 2 <= Len(list)
    PROVE  SubSeq(list, 1, k - 1) \o <<list[k], list[k + 1], list[k + 2]>> = SubSeq(list, 1, k + 2)
<1>1. /\ k \in Nat /\ k + 1 \in 1 .. Len(list) /\ k + 2 \in 1 .. Len(list) /\ k - 1 \in 0 .. Len(list)
      /\ (k + 1) - 1 = k /\ (k + 2) - 1 = k + 1
    BY LenProperties
<1>2. list[k] \in Piece /\ list[k + 1] \in Piece /\ list[k + 2] \in Piece
    BY <1>1, ElementOfSeq
<1>3. SubSeq(list, 1, k - 1) \in Seq(Piece)
    BY <1>1, PrefixFacts
<1>4. SubSeq(list, 1, k - 1) \o <<list[k], list[k + 1], list[k + 2]>>
        = Append(Append(Append(SubSeq(list, 1, k - 1), list[k]), list[k + 1]), list[k + 2])
    BY <1>2, <1>3, ThreeMore
<1>5. Append(SubSeq(list, 1, k - 1), list[k]) = SubSeq(list, 1, k)
    BY CopyOne
<1>6. Append(SubSeq(list, 1, (k + 1) - 1), list[k + 1]) = SubSeq(list, 1, k + 1)
    BY <1>1, CopyOne
<1>7. Append(SubSeq(list, 1, (k + 2) - 1), list[k + 2]) = SubSeq(list, 1, k + 2)
    BY <1>1, CopyOne
<1> QED BY <1>1, <1>4, <1>5, <1>6, <1>7

LEMMA CopyAll ==
    ASSUME NEW list \in Seq(Piece)
    PROVE  SubSeq(list, 1, Len(list)) = list /\ SubSeq(list, 1, 0) = <<>>
<1>1. Len(list) \in Nat
    BY LenProperties
<1> DEFINE s == SubSeq(list, 1, Len(list))
           e == SubSeq(list, 1, 0)
<1>2. s \in Seq(Piece) /\ Len(s) = Len(list) /\ \A j \in 1 .. Len(list) : s[j] = list[j]
    BY <1>1, PrefixFacts
<1>3. e \in Seq(Piece) /\ Len(e) = 0
    BY <1>1, PrefixFacts
<1> HIDE DEF s, e
<1>4. s = list
    BY <1>2, SeqEqual
<1>5. e = <<>>
    BY <1>3, EmptySeq
<1> QED BY <1>4, <1>5 DEF s, e

LEMMA SettlingInit == Init => Settling
<1> SUFFICES ASSUME Init PROVE Settling
    OBVIOUS
<1>1. /\ source \in Sources /\ items \in Seq(Piece) /\ source.origin \in Address
    BY SourcesAssumption, WrittenIsPiece DEF Init
<1>2. /\ made = <<>> /\ pos = 1 /\ phase = "reserve" /\ symbols = Symbols(items)
      /\ pc = source.origin
    BY DEF Init
<1>3. made = SubSeq(items, 1, pos - 1)
    BY <1>1, <1>2, CopyAll
<1>4. \E a : Course(a, items, pos) /\ a[pos] = pc
    BY <1>1, <1>2, CourseStarts
<1> QED BY <1>2, <1>3, <1>4 DEF Settling

\* The steps of a reserve pass that leave the list as it was copy it, and go on
\* along its addresses.
LEMMA SettlingReserve == Sorts /\ Marked /\ Settling /\ Reserve => Settling'
<1> SUFFICES ASSUME Sorts, Marked, Settling, Reserve, source'.ranges # {}, grew' = {}
             PROVE  Settling'
    BY DEF Settling
<1>0. Reserving /\ phase = "reserve"
    BY DEF Reserve, KeepInPlace, DropBridge, RemakeBridge, LandInside, MoveTriple,
           InsertBridge, Place, Placing, Reserving
<1>1. /\ source \in Sources /\ Admissible(source.ranges) /\ items \in Seq(Piece)
      /\ pc \in Nat /\ pos <= Len(items)
    BY <1>0 DEF Sorts, Reserving
<1>2. /\ pos \in 1 .. Len(items) /\ Item \in Piece /\ Len(items) \in Nat /\ pos \in Nat
      /\ SizeOf(Item, symbols) \in Nat /\ Item = items[pos]
      /\ Item.kind = "org" /\ Defined(Item.to, symbols) => Value(Item.to, symbols) \in Nat
    BY <1>1, SortsItem DEF Item
<1>3. CASE Fail
    <2>1. phase' = "failed"
      BY <1>3 DEF Fail
    <2> QED BY <2>1 DEF Settling
<1>4. ASSUME grew = {}
      PROVE  /\ made = SubSeq(items, 1, pos - 1) /\ symbols = Symbols(items)
             /\ \E a : Course(a, items, pos) /\ a[pos] = pc
    <2>1. source.ranges # {}
      BY DEF Reserve
    <2> QED BY <1>0, <1>4, <2>1 DEF Settling
<1>5. ASSUME grew = {}, NEW n \in Nat, pos' = pos + n, made' = SubSeq(items, 1, pos + n - 1),
             UNCHANGED <<source, items, phase, symbols>>,
             \E a : Course(a, items, pos + n) /\ a[pos + n] = pc'
      PROVE  Settling'
    <2>1. made' = SubSeq(items', 1, pos' - 1)
      BY <1>2, <1>5
    <2>2. symbols' = Symbols(items)'
      BY <1>4, <1>5, SameSymbols
    <2>3. \E a : Course(a, items, pos)' /\ a[pos'] = pc'
      <3>1. PICK a : Course(a, items, pos + n) /\ a[pos + n] = pc'
        BY <1>5
      <3>2. Course(a, items', pos')
        BY <1>5, <3>1
      <3>3. Course(a, items, pos)'
        BY <1>5, <3>2, SameCourse
      <3> QED BY <1>5, <3>1, <3>3
    <2> QED BY <1>0, <1>5, <2>1, <2>2, <2>3 DEF Settling
<1>6. ASSUME grew = {}, NEW at \in Nat, at = After(pc, Item), Safe(Item, pc)
      PROVE  \E a : Course(a, items, pos + 1) /\ a[pos + 1] = at
    <2>1. PICK a : Course(a, items, pos) /\ a[pos] = pc
      BY <1>4, <1>6
    <2> QED BY <1>2, <1>6, <2>1, CourseMore
<1>7. CASE KeepInPlace
    <2> DEFINE at == IF Item.kind = "org" /\ Defined(Item.to, symbols)
                     THEN Value(Item.to, symbols) ELSE pc
    <2>1. /\ Item.kind \in {"label", "constant", "org"} /\ grew = {}
          /\ made' = Append(made, Item) /\ pos' = pos + 1 /\ pc' = at
          /\ UNCHANGED <<source, items, phase, symbols>>
      BY <1>7 DEF KeepInPlace, Pass
    <2>2. at \in Nat
      BY <1>1, <1>2
    <2>3. Safe(Item, pc)
      BY <2>1 DEF Safe
    <2>4. Item.kind # "org" => SizeOf(Item, symbols) = 0
      BY <2>1 DEF SizeOf
    <2>5. at = After(pc, Item)
      BY <1>1, <2>1, <2>4 DEF After
    <2> HIDE DEF at
    <2>6. \E a : Course(a, items, pos + 1) /\ a[pos + 1] = pc'
      BY <1>6, <2>1, <2>2, <2>3, <2>5
    <2>7. made' = SubSeq(items, 1, pos)
      BY <1>1, <1>2, <1>4, <2>1, CopyOne
    <2>8. pos + 1 - 1 = pos
      BY <1>2
    <2> QED BY <1>5, <2>1, <2>6, <2>7, <2>8
<1>8. CASE DropBridge
    BY <1>8 DEF DropBridge
<1>9. CASE LandInside
    BY <1>3, <1>9 DEF LandInside
<1>10. CASE MoveTriple
    BY <1>3, <1>10 DEF MoveTriple
<1>11. CASE InsertBridge
    BY <1>3, <1>11 DEF InsertBridge
<1>12. CASE Place
    <2>1. /\ Item.kind \notin {"label", "constant", "org"} /\ grew = {} /\ ~Inside
          /\ Conflicts(pc, SizeOf(Item, symbols)) = {}
          /\ made' = Append(made, Item) /\ pos' = pos + 1 /\ pc' = pc + SizeOf(Item, symbols)
          /\ UNCHANGED <<source, items, phase, symbols>>
      BY <1>12 DEF Place, Placing, Pass
    <2>2. pc + SizeOf(Item, symbols) \in Nat
      BY <1>1, <1>2
    <2>3. Clear(pc, SizeOf(Item, symbols))
      <3> DEFINE size == SizeOf(Item, symbols)
      <3> SUFFICES ASSUME NEW r \in source.ranges PROVE pc + size - 1 < r.start \/ pc > r.end
        BY DEF Clear
      <3>1. r.start \in Nat /\ r.end \in Nat /\ r.start <= r.end
        BY <1>1, RangeFacts
      <3>2. pc \notin r.start .. r.end
        BY <2>1 DEF Inside
      <3>3. ~(pc < r.start /\ pc + size > Larger(r.start - JmpSize, 0))
        BY <2>1 DEF Conflicts
      <3>4. size \in Nat /\ pc \in Nat
        BY <1>1, <1>2
      <3> HIDE DEF size
      <3>5. pc < r.start \/ pc > r.end
        BY <3>1, <3>2, <3>4
      <3>6. ASSUME pc < r.start PROVE pc + size - 1 < r.start
        <4>1. ~(pc + size > Larger(r.start - 3, 0))
          BY <3>3, <3>6 DEF JmpSize
        <4>2. r.start \in Nat /\ (pc + size <= r.start - 3 \/ pc + size <= 0)
          BY <3>1, <3>4, <4>1 DEF Larger
        <4> QED BY <3>4, <4>2
      <3> QED BY <3>5, <3>6
    <2>4. Safe(Item, pc)
      BY <2>3 DEF Safe
    <2>5. pc + SizeOf(Item, symbols) = After(pc, Item)
      BY <2>1 DEF After
    <2>6. \E a : Course(a, items, pos + 1) /\ a[pos + 1] = pc'
      BY <1>6, <2>1, <2>2, <2>4, <2>5
    <2>7. made' = SubSeq(items, 1, pos)
      BY <1>1, <1>2, <1>4, <2>1, CopyOne
    <2>8. pos + 1 - 1 = pos
      BY <1>2
    <2> QED BY <1>5, <2>1, <2>6, <2>7, <2>8
<1>13. CASE RemakeBridge
    <2>1. PICK r \in BridgedAt(pos) :
            IF pc + JmpSize > r.start THEN Fail
            ELSE /\ Pass(made \o Bridge(pc, r), 3, r.end + 1)
                 /\ grew' = IF Bridge(pc, r)[3] = items[pos + 2]
                            THEN grew ELSE grew \cup {"reserved"}
                 /\ UNCHANGED symbols
      BY <1>13 DEF RemakeBridge
    <2>2. r \in source.ranges /\ r.start \in Nat /\ r.end \in Nat
      BY <1>1, RangeFacts DEF BridgedAt
    <2>3. CASE pc + JmpSize > r.start
      BY <1>3, <2>1, <2>3
    <2>4. CASE ~(pc + JmpSize > r.start)
      <3> DEFINE n == r.end + 1 - (pc + JmpSize)
      <3>1. /\ made' = made \o Bridge(pc, r) /\ pos' = pos + 3 /\ pc' = r.end + 1
            /\ UNCHANGED <<source, items, phase, symbols>>
            /\ grew = {} /\ Bridge(pc, r)[3] = items[pos + 2]
        BY <2>1, <2>4 DEF Pass
      <3>2. /\ pos + 2 <= Len(items) /\ items[pos] = Pad(0)
            /\ items[pos + 1] = Jump(0, At(r.end + 1))
        BY <1>0, BridgeFound
      <3>3. items[pos + 2] = Pad(n)
        BY <3>1 DEF Bridge
      <3>4. Bridge(pc, r) = <<items[pos], items[pos + 1], items[pos + 2]>>
        BY <3>2, <3>3 DEF Bridge
      <3>5. made' = SubSeq(items, 1, pos + 2)
        BY <1>1, <1>2, <1>4, <3>1, <3>2, <3>4, CopyThree
      <3>0. pc \in Nat /\ r.start \in Nat /\ r.end \in Nat /\ JmpSize = 3
        BY <1>1, <2>2 DEF JmpSize
      <3>6. pc + JmpSize <= r.start /\ n \in Int
        BY <3>0, <2>4
      <3>7. /\ items[pos].kind = "pad" /\ items[pos + 1].kind = "jump" /\ items[pos + 1].id = 0
            /\ items[pos + 2].kind = "pad" /\ items[pos].size = 0 /\ items[pos + 2].size = n
        BY <3>2, <3>3, PadKind DEF Jump
      <3>8. Safe(items[pos], pc) /\ Safe(items[pos + 1], pc) /\ Safe(items[pos + 2], pc + JmpSize)
        <4>1. pc + JmpSize - 1 < r.start
          BY <3>0, <3>6
        <4> QED BY <2>2, <3>7, <4>1 DEF Safe
      <3>9. After(pc, items[pos]) = pc /\ After(pc, items[pos + 1]) = pc + JmpSize
            /\ After(pc + JmpSize, items[pos + 2]) = r.end + 1
        <4>1. SizeOf(items[pos], symbols) = 0 /\ SizeOf(items[pos + 1], symbols) = JmpSize
              /\ SizeOf(items[pos + 2], symbols) = n
          BY <3>7 DEF SizeOf
        <4>2. pc + 0 = pc /\ pc + JmpSize + n = r.end + 1
          BY <1>1, <2>2 DEF JmpSize
        <4> HIDE DEF n
        <4> QED BY <3>7, <4>1, <4>2 DEF After
      <3>10. PICK a1 : Course(a1, items, pos + 1) /\ a1[pos + 1] = pc
        BY <1>1, <1>2, <1>6, <3>1, <3>8, <3>9
      <3>11. /\ pos + 1 \in Nat /\ pos + 1 >= 1 /\ pos + 2 \in Nat /\ pos + 2 >= 1
             /\ pc + JmpSize \in Nat /\ r.end + 1 \in Nat
             /\ pos + 1 + 1 = pos + 2 /\ pos + 2 + 1 = pos + 3 /\ pos + 3 - 1 = pos + 2
        <4>1. pos \in Nat
          BY <1>2
        <4> QED BY <3>0, <4>1
      <3>12. PICK a2 : Course(a2, items, pos + 2) /\ a2[pos + 2] = pc + JmpSize
        <4>1. \E b : Course(b, items, pos + 1 + 1) /\ b[pos + 1 + 1] = pc + JmpSize
          BY <3>8, <3>9, <3>10, <3>11, CourseMore
        <4> QED BY <3>11, <4>1
      <3>13. \E a : Course(a, items, pos + 3) /\ a[pos + 3] = pc'
        <4>1. \E b : Course(b, items, pos + 2 + 1) /\ b[pos + 2 + 1] = r.end + 1
          BY <3>8, <3>9, <3>11, <3>12, CourseMore
        <4> QED BY <3>1, <3>11, <4>1
      <3> QED BY <1>5, <3>1, <3>5, <3>11, <3>13
    <2> QED BY <2>3, <2>4
<1> QED BY <1>7, <1>8, <1>9, <1>10, <1>11, <1>12, <1>13 DEF Reserve

LEMMA SettlingStartExpand == Sorts /\ Marked /\ Settling /\ StartExpand => Settling'
<1> SUFFICES ASSUME Sorts, Marked, Settling, StartExpand, source'.ranges # {}, grew' = {}
             PROVE  Settling'
    BY DEF Settling
<1>1. /\ phase = "reserve" /\ source' = source /\ grew = {} /\ source.ranges # {}
      /\ pos > Len(items) /\ items' = made /\ symbols' = Symbols(items')
      /\ pos' = 1 /\ made' = <<>> /\ phase' = "expand"
    BY DEF StartExpand
<1>2. items \in Seq(Piece) /\ Len(items) \in Nat /\ pos = Len(items) + 1
    <2>1. items \in Seq(Piece) /\ Len(items) \in Nat /\ pos \in 1 .. Len(items) + 1
      BY LenProperties DEF Sorts
    <2> QED BY <1>1, <2>1
<1>3. /\ made = SubSeq(items, 1, pos - 1) /\ symbols = Symbols(items)
      /\ \E a : Course(a, items, pos) /\ a[pos] = pc
    BY <1>1 DEF Settling
<1>4. made = items
    <2>1. pos - 1 = Len(items)
      BY <1>2
    <2> QED BY <1>2, <1>3, <2>1, CopyAll
<1>5. items' = items /\ symbols' = symbols
    BY <1>1, <1>3, <1>4
<1>6. made' = SubSeq(items', 1, pos' - 1)
    BY <1>1, <1>2, <1>5, CopyAll
<1>7. symbols' = Symbols(items)'
    BY <1>1, SameSymbols
<1>8. \E a : Course(a, items, Len(items) + 1)'
    <2>1. PICK a : Course(a, items, pos)
      BY <1>3
    <2>2. Course(a, items', Len(items') + 1)
      BY <1>2, <1>5, <2>1
    <2>3. Course(a, items, Len(items) + 1)'
      BY <1>1, <1>5, <2>2, SameCourse
    <2> QED BY <2>3
<1> QED BY <1>1, <1>6, <1>7, <1>8 DEF Settling

LEMMA SettlingKeep == Sorts /\ Marked /\ Settling /\ Keep => Settling'
<1> SUFFICES ASSUME Sorts, Marked, Settling, Keep, source'.ranges # {}, grew' = {}
             PROVE  Settling'
    BY DEF Settling
<1>1. /\ phase = "expand" /\ pos <= Len(items) /\ grew = {} /\ source.ranges # {}
      /\ made' = Append(made, Item) /\ pos' = pos + 1
      /\ UNCHANGED <<source, items, phase, symbols>>
    BY DEF Keep, Expanding, Pass
<1>2. /\ made = SubSeq(items, 1, pos - 1) /\ symbols = Symbols(items)
      /\ \E a : Course(a, items, Len(items) + 1)
    BY <1>1 DEF Settling
<1>3. items \in Seq(Piece) /\ pos \in 1 .. Len(items) /\ pos \in Nat
    BY <1>1, SortsItem DEF Sorts
<1>4. made' = SubSeq(items', 1, pos' - 1)
    <2>1. made' = SubSeq(items, 1, pos)
      BY <1>1, <1>2, <1>3, CopyOne DEF Item
    <2>2. pos' - 1 = pos
      BY <1>1, <1>3
    <2> QED BY <1>1, <2>1, <2>2
<1>5. symbols' = Symbols(items)'
    BY <1>1, <1>2, SameSymbols
<1>6. \E a : Course(a, items, Len(items) + 1)'
    <2>1. PICK a : Course(a, items, Len(items) + 1)
      BY <1>2
    <2>2. Course(a, items', Len(items') + 1)
      BY <1>1, <2>1
    <2>3. Course(a, items, Len(items) + 1)'
      BY <1>1, <2>2, SameCourse
    <2> QED BY <2>3
<1> QED BY <1>1, <1>4, <1>5, <1>6 DEF Settling

LEMMA SettlingAgain == Sorts /\ Marked /\ Settling /\ Again => Settling'
<1> SUFFICES ASSUME Sorts, Again, source'.ranges # {}, grew' = {} PROVE Settling'
    BY DEF Settling
<1>1. items' = made /\ source' = source
    BY DEF Again
<1>2. CASE guard = 0
    <2>1. phase' = "unsettled"
      BY <1>2 DEF Again
    <2> QED BY <2>1 DEF Settling
<1>3. CASE guard # 0
    <2>1. /\ symbols' = Symbols(made) /\ pos' = 1 /\ made' = <<>> /\ pc' = source.origin
          /\ phase' = "reserve"
      BY <1>3 DEF Again
    <2>2. made \in Seq(Piece) /\ source.origin \in Nat
      BY RangeFacts DEF Sorts, Address
    <2>3. made' = SubSeq(items', 1, pos' - 1)
      BY <1>1, <2>1, <2>2, CopyAll
    <2>4. symbols' = Symbols(items)'
      BY <1>1, <2>1, SameSymbols
    <2>5. \E a : Course(a, items, pos)' /\ a[pos'] = pc'
      <3>1. PICK a \in [1 .. 1 -> Nat] : a[1] = source.origin
        <4>1. [k \in 1 .. 1 |-> source.origin] \in [1 .. 1 -> Nat]
              /\ [k \in 1 .. 1 |-> source.origin][1] = source.origin
          BY <2>2
        <4> QED BY <4>1
      <3>2. Course(a, items, pos)'
        BY <1>1, <2>1, <3>1 DEF Course
      <3>3. a[pos'] = pc'
        BY <2>1, <3>1
      <3> QED BY <3>2, <3>3
    <2> QED BY <2>1, <2>3, <2>4, <2>5 DEF Settling
<1> QED BY <1>2, <1>3

LEMMA SettlingNext == Sorts /\ Marked /\ Settling /\ [Next]_vars => Settling'
<1> SUFFICES ASSUME Sorts, Marked, Settling, [Next]_vars PROVE Settling'
    OBVIOUS
<1>1. CASE UNCHANGED vars
    <2>1. \A a, n : Course(a, items, n)' <=> Course(a, items', n)
      BY <1>1, SameCourse DEF vars
    <2>2. Symbols(items)' = Symbols(items')
      BY <1>1, SameSymbols DEF vars
    <2>3. /\ source' = source /\ items' = items /\ pos' = pos /\ made' = made /\ pc' = pc
          /\ symbols' = symbols /\ grew' = grew /\ phase' = phase
      BY <1>1 DEF vars
    <2>4. \A a, n : Course(a, items, n)' <=> Course(a, items, n)
      BY <2>1, <2>3
    <2>5. Symbols(items)' = Symbols(items)
      BY <2>2, <2>3
    <2>6. (\E a : Course(a, items, pos) /\ a[pos] = pc)
            => (\E a : Course(a, items, pos)' /\ a[pos'] = pc')
      BY <2>1, <2>3
    <2>7. (\E a : Course(a, items, Len(items) + 1))
            => (\E a : Course(a, items, Len(items) + 1)')
      BY <2>1, <2>3
    <2> QED BY <2>3, <2>5, <2>6, <2>7 DEF Settling
<1>2. CASE Expand
    BY <1>2 DEF Expand, Settling
<1>3. CASE AssignLabels \/ Emit \/ Finish
    <2>1. phase' \in {"emit", "done", "failed"}
      BY <1>3 DEF AssignLabels, Emit, Finish, Fail
    <2> QED BY <2>1 DEF Settling
<1>4. CASE Reserve \/ StartExpand \/ Keep \/ Again
    BY <1>4, SettlingReserve, SettlingStartExpand, SettlingKeep, SettlingAgain
<1> QED BY <1>1, <1>2, <1>3, <1>4 DEF Next

\* One line more in memory.
LEMMA LaidMore ==
    ASSUME NEW list, list \in Seq(ToSet(list)), NEW e
    PROVE  /\ Append(list, e) \in Seq(ToSet(Append(list, e)))
           /\ ToSet(Append(list, e)) = ToSet(list) \cup {e}
<1> DEFINE all == ToSet(list) \cup {e}
           more == Append(list, e)
<1>1. list \in Seq(all) /\ e \in all /\ Len(list) \in Nat
    BY SeqMonotonic, LenProperties
<1>2. /\ more \in Seq(all) /\ Len(more) = Len(list) + 1 /\ more[Len(list) + 1] = e
      /\ \A k \in 1 .. Len(list) : more[k] = list[k]
    <2> HIDE DEF all
    <2> QED BY <1>1, AppendProperties
<1>3. DOMAIN list = 1 .. Len(list) /\ DOMAIN more = 1 .. Len(list) + 1
    <2> HIDE DEF all, more
    <2> QED BY <1>1, <1>2, LenProperties
<1> HIDE DEF more
<1>4. ToSet(more) = all
    <2>1. ASSUME NEW x \in ToSet(more) PROVE x \in all
      <3>1. PICK k \in 1 .. Len(list) + 1 : x = more[k]
        BY <1>3, <2>1 DEF ToSet
      <3>2. k = Len(list) + 1 \/ k \in 1 .. Len(list)
        BY <1>1
      <3> QED BY <1>2, <1>3, <3>1, <3>2 DEF ToSet
    <2>2. e \in ToSet(more)
      <3>1. Len(list) + 1 \in DOMAIN more
        BY <1>1, <1>3
      <3> QED BY <1>2, <3>1 DEF ToSet
    <2>3. ASSUME NEW x \in ToSet(list) PROVE x \in ToSet(more)
      <3>1. PICK k \in 1 .. Len(list) : x = list[k]
        BY <1>3, <2>3 DEF ToSet
      <3>2. k \in DOMAIN more
        BY <1>1, <1>3
      <3> QED BY <1>2, <3>1, <3>2 DEF ToSet
    <2> QED BY <2>1, <2>2, <2>3
<1> QED BY <1>2, <1>4 DEF more

LEMMA EmptyLaid == <<>> \in Seq(ToSet(<<>>)) /\ ToSet(<<>>) = {}
BY DEF ToSet

LEMMA SameKept ==
    ASSUME source' = source, laid' = laid
    PROVE  (Unwrapped' <=> Unwrapped) /\ (Kept' <=> Kept)
BY DEF Unwrapped, Kept, Clear

LEMMA LayingInit == Init => Laying
BY EmptyLaid DEF Init, Laying, Kept

\* Before the emission nothing is in memory; a step to a phase that is not the
\* emission leaves it as it is.
LEMMA LayingBefore ==
    ASSUME Laying, UNCHANGED <<source, laid>>,
           phase' \notin {"reserve", "expand", "emit"} \/ (laid = <<>> /\ phase' # "emit")
    PROVE  Laying'
BY SameKept DEF Laying

LEMMA LayingAssignLabels == Sorts /\ Marked /\ Settling /\ Laying /\ AssignLabels => Laying'
<1> SUFFICES ASSUME Sorts, Settling, Laying, AssignLabels PROVE Laying'
    OBVIOUS
<1>1. /\ phase = "expand" /\ pos > Len(items) /\ grew = {} /\ items' = made
      /\ pos' = 1 /\ pc' = source.origin /\ UNCHANGED <<source, laid>>
    BY DEF AssignLabels
<1>2. laid = <<>> /\ source.origin \in Address
    BY <1>1, RangeFacts DEF Laying, Sorts
<1>3. CASE ~Evaluable(made)
    <2>1. phase' = "failed"
      BY <1>3 DEF AssignLabels
    <2> QED BY <1>1, <2>1, LayingBefore
<1>4. CASE Evaluable(made)
    <2>1. symbols' = Symbols(made) /\ phase' = "emit"
      BY <1>4 DEF AssignLabels
    <2>2. ASSUME source.ranges # {}
          PROVE  \E a : Course(a, items, Len(items) + 1)' /\ a[pos'] = pc'
      <3>1. /\ made = SubSeq(items, 1, pos - 1) /\ symbols = Symbols(items)
            /\ \E a : Course(a, items, Len(items) + 1)
        BY <1>1, <2>2 DEF Settling
      <3>2. items \in Seq(Piece) /\ Len(items) \in Nat /\ pos = Len(items) + 1
        <4>1. items \in Seq(Piece) /\ Len(items) \in Nat /\ pos \in 1 .. Len(items) + 1
          BY LenProperties DEF Sorts
        <4> QED BY <1>1, <4>1
      <3>3. made = items
        <4>1. pos - 1 = Len(items)
          BY <3>2
        <4> QED BY <3>1, <3>2, <4>1, CopyAll
      <3>4. items' = items /\ symbols' = symbols
        BY <1>1, <2>1, <3>1, <3>3
      <3>5. PICK a : Course(a, items, Len(items) + 1)
        BY <3>1
      <3>6. Course(a, items, Len(items) + 1)'
        <4>1. Course(a, items', Len(items') + 1)
          BY <3>4, <3>5
        <4> QED BY <1>1, <3>4, <4>1, SameCourse
      <3>7. a[pos'] = pc'
        BY <1>1, <3>5 DEF Course
      <3> QED BY <3>6, <3>7
    <2>3. source'.ranges # {} =>
             \E a : Course(a, items, Len(items) + 1)' /\ (Unwrapped' => a[pos'] = pc')
      BY <1>1, <2>2
    <2>4. laid' \in Seq(ToSet(laid')) /\ (Unwrapped' => Kept')
      BY <1>1, SameKept DEF Laying
    <2> QED BY <1>1, <1>2, <2>1, <2>3, <2>4 DEF Laying
<1> QED BY <1>3, <1>4

\* An item that is emitted has a place along the course, and the next item has
\* the place behind it.
LEMMA LayingEmit == Sorts /\ Laying /\ Emit => Laying'
<1> SUFFICES ASSUME Sorts, Laying, Emit PROVE Laying'
    OBVIOUS
<1>0. phase = "emit" /\ pos <= Len(items)
    BY DEF Emit
<1>1. /\ pos \in 1 .. Len(items) /\ Item \in Piece /\ Len(items) \in Nat
      /\ SizeOf(Item, symbols) \in Nat /\ Item = items[pos]
      /\ Table(symbols) /\ (Item.kind = "org" => Defined(Item.to, symbols))
    BY <1>0, SortsItem DEF Sorts, Item
<1>2. CASE ~Encodable(Item)
    <2>1. phase' = "failed" /\ UNCHANGED <<source, laid>>
      BY <1>2 DEF Emit, Fail
    <2> QED BY <2>1, LayingBefore
<1>3. CASE Encodable(Item)
    <2>1. /\ laid' = IF Item.kind \in {"label", "constant", "org"} THEN laid
                     ELSE Append(laid, Bytes(Item))
          /\ pc' = IF Item.kind = "org" THEN Value(Item.to, symbols)
                   ELSE (pc + SizeOf(Item, symbols)) % AddressSpace
          /\ pos' = pos + 1
          /\ UNCHANGED <<source, items, symbols, phase>>
      BY <1>3 DEF Emit
    <2>2. pc \in Address /\ pc \in Nat /\ laid \in Seq(ToSet(laid))
      BY <1>0 DEF Laying, Address
    <2>3. Item.kind = "org" => Value(Item.to, symbols) \in Address
      BY <1>1, PieceCases, ValueIsAddress
    <2>4. pc' \in Address
      <3>1. pc + SizeOf(Item, symbols) \in Nat
        BY <1>1, <2>2
      <3> QED BY <2>1, <2>3, <3>1, WrapIsAddress
    <2>5. laid' \in Seq(ToSet(laid')) /\ ToSet(laid) \subseteq ToSet(laid')
      BY <2>1, <2>2, LaidMore
    <2>6. Unwrapped' => Unwrapped
      BY <2>5 DEF Unwrapped
    <2> DEFINE size == SizeOf(Item, symbols)
               code == Item.kind \notin {"label", "constant", "org"}
    <2>7. ASSUME code, Unwrapped' PROVE pc + size < AddressSpace
      <3>1. Bytes(Item) \in ToSet(laid') /\ Bytes(Item).at = pc /\ Bytes(Item).size = size
        BY <2>1, <2>2, <2>7, LaidMore DEF Bytes
      <3> QED BY <2>7, <3>1 DEF Unwrapped
    <2>8. ~code /\ Item.kind # "org" => size = 0
      BY DEF SizeOf
    <2>9. ASSUME NEW a, Course(a, items, Len(items) + 1), Unwrapped => a[pos] = pc
          PROVE  Unwrapped' => a[pos + 1] = pc'
      <3> SUFFICES ASSUME Unwrapped' PROVE a[pos + 1] = pc'
        OBVIOUS
      <3>1. pos \in 1 .. (Len(items) + 1) - 1
        BY <1>1
      <3>2. a[pos + 1] = After(a[pos], Item) /\ a[pos] = pc
        BY <1>1, <2>6, <2>9, <3>1 DEF Course
      <3>3. CASE Item.kind = "org"
        BY <1>1, <2>1, <3>2, <3>3 DEF After
      <3>4. CASE Item.kind # "org"
        <4>1. a[pos + 1] = pc + size /\ pc' = (pc + size) % AddressSpace
          BY <2>1, <3>2, <3>4 DEF After
        <4>2. pc + size < AddressSpace /\ pc + size \in Nat
          <5>1. CASE code
            BY <1>1, <2>2, <2>7, <5>1
          <5>2. CASE ~code
            <6>1. pc + size = pc
              BY <2>2, <2>8, <3>4, <5>2
            <6> QED BY <2>2, <6>1, SizesAssumption DEF Address
          <5> QED BY <5>1, <5>2
        <4> HIDE DEF size
        <4>3. \A n \in Nat : n < AddressSpace => n % AddressSpace = n
          BY SizesAssumption
        <4> QED BY <4>1, <4>2, <4>3
      <3> QED BY <3>3, <3>4
    <2>10. source'.ranges # {} =>
              \E a : Course(a, items, Len(items) + 1)' /\ (Unwrapped' => a[pos'] = pc')
      <3> SUFFICES ASSUME source.ranges # {}
                   PROVE \E a : Course(a, items, Len(items) + 1)' /\ (Unwrapped' => a[pos'] = pc')
        BY <2>1
      <3>1. PICK a : Course(a, items, Len(items) + 1) /\ (Unwrapped => a[pos] = pc)
        BY <1>0 DEF Laying
      <3>2. Course(a, items, Len(items) + 1)'
        <4>1. Course(a, items', Len(items') + 1)
          BY <2>1, <3>1
        <4> QED BY <2>1, <4>1, SameCourse
      <3>3. Unwrapped' => a[pos'] = pc'
        BY <2>1, <2>9, <3>1
      <3> QED BY <3>2, <3>3
    <2>11. ASSUME Unwrapped' PROVE Kept'
      <3>1. Kept /\ Unwrapped
        BY <2>6, <2>11 DEF Laying
      <3>2. CASE ~code
        BY <2>1, <3>1, <3>2, SameKept
      <3>3. CASE code
        <4> DEFINE e == Bytes(Item)
                   Fine(x) == \/ x.kind = "pad" \/ Clear(x.at, x.size)
                              \/ /\ x.kind = "jump" /\ x.id = 0
                                 /\ \E r \in source.ranges : x.at + x.size - 1 < r.start
        <4>1. ToSet(laid') = ToSet(laid) \cup {e}
          BY <2>1, <2>2, <3>3, LaidMore
        <4>2. e.at = pc /\ e.size = size /\ e.kind = Item.kind /\ e.id = Item.id
          BY DEF Bytes
        <4>3. Fine(e)
          <5>1. CASE source.ranges = {}
            BY <5>1 DEF Clear
          <5>2. CASE source.ranges # {}
            <6>1. PICK a : Course(a, items, Len(items) + 1) /\ (Unwrapped => a[pos] = pc)
              BY <1>0, <5>2 DEF Laying
            <6>2. pos \in 1 .. (Len(items) + 1) - 1
              BY <1>1
            <6>3. Safe(Item, pc)
              BY <1>1, <3>1, <6>1, <6>2 DEF Course
            <6>4. Item.kind = "jump" => size = JmpSize
              BY DEF SizeOf
            <6> QED BY <3>3, <4>2, <6>3, <6>4 DEF Safe
          <5> QED BY <5>1, <5>2
        <4>4. \A x \in ToSet(laid) : Fine(x)
          BY <3>1 DEF Kept
        <4>5. \A x \in ToSet(laid') : Fine(x)
          <5> HIDE DEF Fine, e
          <5> QED BY <4>1, <4>3, <4>4
        <4> HIDE DEF e
        <4> QED BY <2>1, <4>5 DEF Kept, Clear
      <3> QED BY <3>2, <3>3
    <2> QED BY <1>0, <2>1, <2>4, <2>5, <2>10, <2>11 DEF Laying
<1> QED BY <1>2, <1>3

LEMMA LayingNext == Sorts /\ Marked /\ Settling /\ Laying /\ [Next]_vars => Laying'
<1> SUFFICES ASSUME Sorts, Marked, Settling, Laying, [Next]_vars PROVE Laying'
    OBVIOUS
<1>1. CASE UNCHANGED vars
    <2>1. /\ source' = source /\ items' = items /\ pos' = pos /\ pc' = pc /\ laid' = laid
          /\ symbols' = symbols /\ phase' = phase
      BY <1>1 DEF vars
    <2>2. \A a, n : Course(a, items, n)' <=> Course(a, items, n)
      BY <2>1, SameCourse
    <2>3. (\E a : Course(a, items, Len(items) + 1) /\ (Unwrapped => a[pos] = pc))
            => (\E a : Course(a, items, Len(items) + 1)' /\ (Unwrapped' => a[pos'] = pc'))
      <3> SUFFICES ASSUME NEW a, Course(a, items, Len(items) + 1), Unwrapped => a[pos] = pc
                   PROVE  Course(a, items, Len(items) + 1)' /\ (Unwrapped' => a[pos'] = pc')
        OBVIOUS
      <3>1. Course(a, items', Len(items') + 1)
        BY <2>1
      <3> QED BY <2>1, <3>1, SameCourse, SameKept
    <2>4. (Unwrapped' <=> Unwrapped) /\ (Kept' <=> Kept)
      BY <2>1, SameKept
    <2> QED BY <2>1, <2>3, <2>4 DEF Laying
<1>2. CASE Reserve
    <2>1. phase = "reserve" /\ UNCHANGED <<source, laid>> /\ phase' \in {"reserve", "failed"}
      BY <1>2 DEF Reserve, KeepInPlace, DropBridge, RemakeBridge, LandInside, MoveTriple,
           InsertBridge, Place, Placing, Reserving, Pass, Fail
    <2> QED BY <2>1, LayingBefore DEF Laying
<1>3. CASE StartExpand \/ Expand \/ Keep \/ Again
    <2>1. /\ phase \in {"reserve", "expand"} /\ UNCHANGED <<source, laid>>
          /\ phase' \in {"reserve", "expand", "unsettled"}
      BY <1>3 DEF StartExpand, Expand, Keep, Again, Expanding, Pass
    <2> QED BY <2>1, LayingBefore DEF Laying
<1>4. CASE AssignLabels
    BY <1>4, LayingAssignLabels
<1>5. CASE Emit
    BY <1>5, LayingEmit
<1>6. CASE Finish
    <2>1. phase' = "done" /\ UNCHANGED <<source, laid>>
      BY <1>6 DEF Finish
    <2> QED BY <2>1, LayingBefore
<1> QED BY <1>1, <1>2, <1>3, <1>4, <1>5, <1>6 DEF Next

\* All that is emitted is clear of the ranges, leaving aside fill and the JMPs
\* that the assembler put in.
LinesClear ==
    \A e \in ToSet(laid) : e.kind # "pad" /\ (e.kind = "jump" => e.id > 0) => Clear(e.at, e.size)

OneRange == \A r, s \in source.ranges : r = s

LEMMA LaidAlways == Spec => [](Sorts /\ Marked /\ Settling /\ Laying)
<1>1. Init => Sorts /\ Marked /\ Settling /\ Laying
    BY SortsInit, MarkedInit, SettlingInit, LayingInit
<1>2. Sorts /\ Marked /\ Settling /\ Laying /\ [Next]_vars
        => (Sorts /\ Marked /\ Settling /\ Laying)'
    BY SortsNext, MarkedNext, SettlingNext, LayingNext
<1> QED BY <1>1, <1>2, PTL DEF Spec

\* Around any number of ranges, nothing the user wrote is emitted into one of
\* them, in whatever round it was placed, as long as the addresses do not wrap;
\* and around one range the assembler's own JMPs are clear of it too
\* (reserved.rs:5-6, lib.rs:20-22, assembler.rs:697-913).
THEOREM RangesKeptClear == Spec => [](Unwrapped => LinesClear /\ (OneRange => ReservedClear))
<1>1. Sorts /\ Laying => (Unwrapped => LinesClear /\ (OneRange => ReservedClear))
    <2> SUFFICES ASSUME Sorts, Laying, Unwrapped
                 PROVE  LinesClear /\ (OneRange => ReservedClear)
      OBVIOUS
    <2>1. Kept
      BY DEF Laying
    <2>2. LinesClear
      BY <2>1 DEF Kept, LinesClear
    <2>3. ASSUME OneRange PROVE ReservedClear
      BY <2>1, <2>3 DEF Kept, OneRange, Clear, ReservedClear
    <2> QED BY <2>2, <2>3
<1> QED BY <1>1, LaidAlways, PTL

=============================================================================
