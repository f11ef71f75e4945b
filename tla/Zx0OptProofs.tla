--------------------------- MODULE Zx0OptProofs -----------------------------
(***************************************************************************)
(* Proofs about Zx0Opt for every input and every limit: the counts of the  *)
(* recycled blocks are exact, whatever is allocated, shared and given up,  *)
(* the tables of the parser have the shape its loops rely on, the blocks   *)
(* that lead to a position are a parse that is written as meant, and the   *)
(* cheapest of them costs what the cheapest parse of the reference costs.  *)
(***************************************************************************)
EXTENDS Zx0Opt, SequenceTheorems, Induction, TLAPS

-----------------------------------------------------------------------------
(* Sets and lists. *)

\* Without an element it has, a set is one smaller.
LEMMA OneLess ==
    ASSUME NEW S, IsFiniteSet(S), NEW x \in S
    PROVE  /\ IsFiniteSet(S \ {x}) /\ Cardinality(S \ {x}) = Cardinality(S) - 1
           /\ Cardinality(S) \in Nat /\ Cardinality(S) >= 1
<1>1. IsFiniteSet(S \ {x}) /\ Cardinality(S \ {x}) = Cardinality(S) - 1
    BY FS_RemoveElement
<1>2. Cardinality(S) \in Nat /\ Cardinality(S \ {x}) \in Nat
    BY <1>1, FS_CardinalityType
<1> QED BY <1>1, <1>2

\* The list s has the elements of T, each once.
Lists(s, T) == IsInjective(s) /\ Range(s) = T

\* The first element is taken off.
LEMMA PopLists ==
    ASSUME NEW U, NEW s \in Seq(U), NEW T, Lists(s, T), s # <<>>
    PROVE  Head(s) \in T /\ Tail(s) \in Seq(U) /\ Lists(Tail(s), T \ {Head(s)})
<1>1. /\ Len(s) \in Nat /\ Len(s) >= 1 /\ Tail(s) \in Seq(U) /\ Len(Tail(s)) = Len(s) - 1
      /\ DOMAIN s = 1 .. Len(s) /\ DOMAIN Tail(s) = 1 .. (Len(s) - 1) /\ Head(s) = s[1]
      /\ \A j \in 1 .. (Len(s) - 1) : Tail(s)[j] = s[j + 1]
    BY EmptySeq, LenProperties, HeadTailProperties
<1>2. Head(s) \in T
    BY <1>1 DEF Lists, Range
<1>3. IsInjective(Tail(s))
    <2> SUFFICES ASSUME NEW i \in 1 .. (Len(s) - 1), NEW j \in 1 .. (Len(s) - 1), s[i + 1] = s[j + 1]
                 PROVE  i = j
      BY <1>1 DEF IsInjective
    <2>1. i + 1 \in DOMAIN s /\ j + 1 \in DOMAIN s
      BY <1>1
    <2>2. i + 1 = j + 1
      BY <2>1 DEF Lists, IsInjective
    <2> QED BY <2>2
<1>4. Range(Tail(s)) \subseteq T \ {Head(s)}
    <2> SUFFICES ASSUME NEW j \in 1 .. (Len(s) - 1) PROVE s[j + 1] \in T /\ s[j + 1] # s[1]
      BY <1>1 DEF Range
    <2>1. j + 1 \in DOMAIN s /\ 1 \in DOMAIN s /\ j + 1 # 1
      BY <1>1
    <2> QED BY <2>1 DEF Lists, Range, IsInjective
<1>5. T \ {Head(s)} \subseteq Range(Tail(s))
    <2> SUFFICES ASSUME NEW i \in DOMAIN s, s[i] # s[1] PROVE s[i] \in Range(Tail(s))
      BY <1>1 DEF Lists, Range
    <2>1. i - 1 \in 1 .. (Len(s) - 1) /\ (i - 1) + 1 = i
      BY <1>1
    <2> QED BY <1>1, <2>1 DEF Range
<1> QED BY <1>1, <1>2, <1>3, <1>4, <1>5 DEF Lists

\* A new element is put in front.
LEMMA PushLists ==
    ASSUME NEW U, NEW s \in Seq(U), NEW T, Lists(s, T), NEW x \in U, x \notin T
    PROVE  <<x>> \o s \in Seq(U) /\ Lists(<<x>> \o s, T \cup {x})
<1> DEFINE p == <<x>> \o s
<1>1. /\ Len(s) \in Nat /\ DOMAIN s = 1 .. Len(s)
      /\ p \in Seq(U) /\ DOMAIN p = 1 .. (Len(s) + 1) /\ p[1] = x
      /\ \A j \in 1 .. Len(s) : p[j + 1] = s[j]
    <2>1. <<x>> \in Seq(U) /\ Len(<<x>>) = 1 /\ <<x>>[1] = x
      OBVIOUS
    <2>2. p \in Seq(U) /\ Len(p) = Len(s) + 1 /\ Len(s) \in Nat
      BY <2>1, ConcatProperties, LenProperties
    <2>3. \A i \in 1 .. Len(p) : p[i] = IF i <= 1 THEN <<x>>[i] ELSE s[i - 1]
      BY <2>1, ConcatProperties
    <2> HIDE DEF p
    <2> QED BY <2>1, <2>2, <2>3, LenProperties
<1> HIDE DEF p
<1>2. \A j \in 1 .. (Len(s) + 1) : j = 1 \/ (j - 1 \in 1 .. Len(s) /\ p[j] = s[j - 1])
    <2>1. ASSUME NEW j \in 1 .. (Len(s) + 1), j # 1 PROVE j - 1 \in 1 .. Len(s) /\ p[j] = s[j - 1]
      <3>1. j - 1 \in 1 .. Len(s) /\ (j - 1) + 1 = j
        BY <1>1, <2>1
      <3> QED BY <1>1, <3>1
    <2> QED BY <2>1
<1>3. \A j \in 1 .. Len(s) : s[j] \in T /\ s[j] # x
    BY <1>1 DEF Lists, Range
<1>4. IsInjective(p)
    <2> SUFFICES ASSUME NEW i \in 1 .. (Len(s) + 1), NEW j \in 1 .. (Len(s) + 1), p[i] = p[j]
                 PROVE  i = j
      BY <1>1 DEF IsInjective
    <2>1. CASE i = 1 \/ j = 1
      BY <1>1, <1>2, <1>3, <2>1
    <2>2. CASE i # 1 /\ j # 1
      <3>1. i - 1 \in DOMAIN s /\ j - 1 \in DOMAIN s /\ s[i - 1] = s[j - 1]
        BY <1>1, <1>2, <2>2
      <3>2. i - 1 = j - 1
        BY <3>1 DEF Lists, IsInjective
      <3> QED BY <3>2
    <2> QED BY <2>1, <2>2
<1>5. Range(p) = T \cup {x}
    <2>1. ASSUME NEW i \in 1 .. (Len(s) + 1) PROVE p[i] \in T \cup {x}
      BY <1>1, <1>2, <1>3
    <2>2. x \in Range(p)
      BY <1>1 DEF Range
    <2>3. ASSUME NEW y \in T PROVE y \in Range(p)
      <3>1. PICK j \in 1 .. Len(s) : s[j] = y
        BY <1>1 DEF Lists, Range
      <3>2. j + 1 \in DOMAIN p /\ p[j + 1] = y
        BY <1>1, <3>1
      <3> QED BY <3>2 DEF Range
    <2> QED BY <1>1, <2>1, <2>2, <2>3 DEF Range
<1> QED BY <1>1, <1>4, <1>5 DEF Lists, p

-----------------------------------------------------------------------------
(* What the operations of the pool do to its parts.                        *)

Node == [bits : Nat \cup {-1}, index : Nat \cup {-1}, offset : Nat, chain : Nat]
Pools == [nodes : Seq(Node), references : Seq(Nat), ghosts : Seq(Nat), slot : [Slots -> Nat]]

\* The blocks of P, and how many there are.
Size(P) == Len(P.nodes)
Blocks(P) == 1 .. Size(P)

\* A pool whose parts fit together.
IsPool(P) ==
    /\ P \in Pools /\ Len(P.references) = Size(P)
    /\ \A s \in Slots : P.slot[s] \in 0 .. Size(P)
    /\ \A id \in Blocks(P) : P.nodes[id].chain \in 0 .. Size(P)

\* The types of the parts.
LEMMA PoolType ==
    ASSUME NEW P, IsPool(P)
    PROVE  /\ P.nodes \in Seq(Node) /\ P.references \in Seq(Nat) /\ P.ghosts \in Seq(Nat)
           /\ P.slot \in [Slots -> Nat] /\ Size(P) \in Nat
           /\ Len(P.references) = Size(P) /\ Len(P.nodes) = Size(P)
           /\ DOMAIN P.nodes = Blocks(P) /\ DOMAIN P.references = Blocks(P)
           /\ \A id \in Blocks(P) : P.nodes[id] \in Node /\ P.references[id] \in Nat
<1>1. P.nodes \in Seq(Node) /\ P.references \in Seq(Nat) /\ P.ghosts \in Seq(Nat)
      /\ P.slot \in [Slots -> Nat]
    BY DEF IsPool, Pools
<1>2. /\ Len(P.nodes) \in Nat /\ DOMAIN P.nodes = 1 .. Len(P.nodes)
      /\ DOMAIN P.references = 1 .. Len(P.references)
    BY <1>1, LenProperties
<1>3. Len(P.references) = Len(P.nodes)
    BY DEF IsPool, Size
<1>4. \A id \in 1 .. Len(P.nodes) : P.nodes[id] \in Node /\ P.references[id] \in Nat
    BY <1>1, <1>3, ElementOfSeq
<1> QED BY <1>1, <1>2, <1>3, <1>4 DEF Size, Blocks

\* The counts of Q are those of P, less one reference to id.
Dropped(P, Q, id) ==
    \A k \in Blocks(P) : Q.references[k] = P.references[k] - (IF k = id THEN 1 ELSE 0)

\* They are those of P, and one reference to id.
Raised(P, Q, id) ==
    \A k \in Blocks(P) : Q.references[k] = P.references[k] + (IF k = id THEN 1 ELSE 0)

\* The block g of P has become node, and old has a reference less.
Recycled(P, Q, g, node, old) ==
    /\ \A k \in Blocks(P) \ {g} :
           /\ Q.nodes[k] = P.nodes[k]
           /\ Q.references[k] = P.references[k] - (IF k = old THEN 1 ELSE 0)
    /\ Q.nodes[g] = node /\ Q.references[g] = 0

\* The list of ghosts when P gives up a reference to id.
Listed(P, id, ghosts) ==
    IF id # NIL /\ P.references[id] = 1 THEN <<id>> \o ghosts ELSE ghosts

\* A reference is taken.
LEMMA TakeView ==
    ASSUME NEW P, P \in Pools, Len(P.references) = Size(P), NEW id \in 0 .. Size(P),
           NEW Q, Q = Take(P, id)
    PROVE  /\ Q \in Pools /\ Len(Q.references) = Size(Q)
           /\ Q.nodes = P.nodes /\ Q.ghosts = P.ghosts /\ Q.slot = P.slot /\ Size(Q) = Size(P)
           /\ Raised(P, Q, id)
<1> USE DEF Raised
<1>1. /\ P.nodes \in Seq(Node) /\ P.references \in Seq(Nat)
      /\ Len(P.nodes) \in Nat /\ Size(P) = Len(P.nodes) /\ Len(P.references) = Len(P.nodes)
    BY LenProperties DEF Pools, Size
<1>2. \A k \in 1 .. Len(P.nodes) : P.references[k] \in Nat
    BY <1>1, ElementOfSeq
<1>3. CASE id = NIL
    <2>1. Q = P
      BY <1>3 DEF Take
    <2>2. \A k \in Blocks(P) : k # id
      BY <1>1, <1>3 DEF NIL, Blocks
    <2> QED BY <1>1, <1>2, <2>1, <2>2 DEF Blocks
<1>4. CASE id # NIL
    <2>1. Q = [P EXCEPT !.references = [P.references EXCEPT ![id] = @ + 1]]
      BY <1>4 DEF Take
    <2>2. id \in 1 .. Len(P.references) /\ P.references[id] \in Nat
      BY <1>1, <1>2, <1>4 DEF NIL
    <2> DEFINE refs == [P.references EXCEPT ![id] = @ + 1]
    <2>3. /\ refs \in Seq(Nat) /\ Len(refs) = Len(P.references)
          /\ \A k \in 1 .. Len(P.references) :
                refs[k] = IF k = id THEN P.references[id] + 1 ELSE P.references[k]
      <3>1. P.references[id] + 1 \in Nat
        BY <2>2
      <3> QED BY <1>1, <2>2, <3>1, ExceptSeq
    <2> HIDE DEF refs
    <2>4. Q = [P EXCEPT !.references = refs]
      BY <2>1 DEF refs
    <2>5. /\ Q \in Pools /\ Q.nodes = P.nodes /\ Q.ghosts = P.ghosts /\ Q.slot = P.slot
          /\ Q.references = refs
      BY <2>3, <2>4 DEF Pools
    <2> QED BY <1>1, <1>2, <2>3, <2>5 DEF Size, Blocks
<1> QED BY <1>3, <1>4

\* Q is P with a reference to id given up.
Released(P, Q, id) ==
    /\ Q \in Pools /\ Len(Q.references) = Size(Q)
    /\ Q.nodes = P.nodes /\ Q.slot = P.slot /\ Size(Q) = Size(P)
    /\ Dropped(P, Q, id) /\ Q.ghosts = Listed(P, id, P.ghosts)

\* A reference is given up.
LEMMA ReleaseView ==
    ASSUME NEW P, P \in Pools, Len(P.references) = Size(P), NEW id \in 0 .. Size(P),
           id # NIL => P.references[id] >= 1,
           NEW Q, Q = Release(P, id)
    PROVE  Released(P, Q, id)
<1> USE DEF Released, Dropped, Listed
<1>1. /\ P.nodes \in Seq(Node) /\ P.references \in Seq(Nat) /\ P.ghosts \in Seq(Nat)
      /\ Len(P.nodes) \in Nat /\ Size(P) = Len(P.nodes) /\ Len(P.references) = Len(P.nodes)
    BY LenProperties DEF Pools, Size
<1>2. \A k \in 1 .. Len(P.nodes) : P.references[k] \in Nat
    BY <1>1, ElementOfSeq
<1>3. CASE id = NIL
    <2>1. Q = P
      BY <1>3 DEF Release
    <2>2. \A k \in Blocks(P) : k # id
      BY <1>1, <1>3 DEF NIL, Blocks
    <2> QED BY <1>1, <1>2, <1>3, <2>1, <2>2 DEF Blocks
<1>4. CASE id # NIL
    <2>1. id \in 1 .. Len(P.references) /\ P.references[id] \in Nat /\ P.references[id] >= 1
          /\ id \in Nat
      BY <1>1, <1>2, <1>4 DEF NIL
    <2> DEFINE left == P.references[id] - 1
               refs == [P.references EXCEPT ![id] = left]
               list == IF left = 0 THEN <<id>> \o P.ghosts ELSE P.ghosts
    <2>2. Q = [P EXCEPT !.references = refs, !.ghosts = list]
      BY <1>4 DEF Release
    <2>3. /\ refs \in Seq(Nat) /\ Len(refs) = Len(P.references)
          /\ \A k \in 1 .. Len(P.references) :
                refs[k] = IF k = id THEN left ELSE P.references[k]
      <3>1. left \in Nat
        BY <2>1
      <3> HIDE DEF left
      <3> QED BY <1>1, <2>1, <3>1, ExceptSeq
    <2>4. list \in Seq(Nat)
      <3>1. <<id>> \in Seq(Nat)
        BY <2>1
      <3> QED BY <1>1, <3>1, ConcatProperties
    <2>5. list = IF P.references[id] = 1 THEN <<id>> \o P.ghosts ELSE P.ghosts
      BY <2>1
    <2> HIDE DEF refs, list
    <2>6. /\ Q \in Pools /\ Q.nodes = P.nodes /\ Q.slot = P.slot
          /\ Q.references = refs /\ Q.ghosts = list
      BY <2>2, <2>3, <2>4 DEF Pools
    <2>7. \A k \in 1 .. Len(P.nodes) :
              refs[k] = P.references[k] - (IF k = id THEN 1 ELSE 0)
      <3>1. ASSUME NEW k \in 1 .. Len(P.nodes)
            PROVE  refs[k] = P.references[k] - (IF k = id THEN 1 ELSE 0)
        <4>1. refs[k] = IF k = id THEN left ELSE P.references[k]
          BY <1>1, <2>3
        <4> QED BY <1>2, <4>1
      <3> QED BY <3>1
    <2> QED BY <1>1, <1>4, <2>3, <2>5, <2>6, <2>7 DEF Size, Blocks
<1> QED BY <1>3, <1>4

\* A block more.
LEMMA GrowView ==
    ASSUME NEW P, P \in Pools, Len(P.references) = Size(P), NEW node \in Node,
           NEW Q, Q = Grow(P, node)
    PROVE  /\ Q \in Pools /\ Len(Q.references) = Size(Q) /\ Size(Q) = Size(P) + 1
           /\ Q.slot = P.slot /\ Q.ghosts = P.ghosts
           /\ \A k \in Blocks(P) : Q.nodes[k] = P.nodes[k] /\ Q.references[k] = P.references[k]
           /\ Q.nodes[Size(Q)] = node /\ Q.references[Size(Q)] = 0
<1>1. /\ P.nodes \in Seq(Node) /\ P.references \in Seq(Nat)
      /\ Len(P.nodes) \in Nat /\ Size(P) = Len(P.nodes) /\ Len(P.references) = Len(P.nodes)
    BY LenProperties DEF Pools, Size
<1> DEFINE nodes == Append(P.nodes, node)
           refs == Append(P.references, 0)
<1>2. /\ nodes \in Seq(Node) /\ Len(nodes) = Len(P.nodes) + 1
      /\ \A k \in 1 .. Len(P.nodes) : nodes[k] = P.nodes[k]
      /\ nodes[Len(P.nodes) + 1] = node
    BY <1>1, AppendProperties
<1>3. /\ refs \in Seq(Nat) /\ Len(refs) = Len(P.nodes) + 1
      /\ \A k \in 1 .. Len(P.nodes) : refs[k] = P.references[k]
      /\ refs[Len(P.nodes) + 1] = 0
    BY <1>1, AppendProperties
<1>4. Q = [P EXCEPT !.nodes = nodes, !.references = refs]
    BY DEF Grow
<1> HIDE DEF nodes, refs
<1>5. /\ Q \in Pools /\ Q.nodes = nodes /\ Q.references = refs
      /\ Q.slot = P.slot /\ Q.ghosts = P.ghosts
    <2>1. nodes \in Seq(Node) /\ refs \in Seq(Nat)
      BY <1>2, <1>3
    <2>2. Q = [nodes |-> nodes, references |-> refs, ghosts |-> P.ghosts, slot |-> P.slot]
      BY <1>4 DEF Pools
    <2>3. P.ghosts \in Seq(Nat) /\ P.slot \in [Slots -> Nat]
      BY DEF Pools
    <2> QED BY <2>1, <2>2, <2>3 DEF Pools
<1> QED BY <1>1, <1>2, <1>3, <1>5 DEF Size, Blocks

\* A ghost becomes another block.
LEMMA RecycleView ==
    ASSUME NEW P, IsPool(P), P.ghosts # <<>>, NEW node \in Node,
           NEW g, g = Head(P.ghosts), g \in Blocks(P), Tail(P.ghosts) \in Seq(Nat),
           NEW old, old = P.nodes[g].chain, old # g,
           old # NIL => P.references[old] >= 1,
           NEW Q, Q = Recycle(P, node)
    PROVE  /\ Q \in Pools /\ Len(Q.references) = Size(Q) /\ Size(Q) = Size(P)
           /\ Q.slot = P.slot /\ Q.ghosts = Listed(P, old, Tail(P.ghosts))
           /\ Recycled(P, Q, g, node, old)
<1>a. PICK P1 : P1 = [P EXCEPT !.ghosts = Tail(@)]
    OBVIOUS
<1>b. PICK P2 : P2 = Release(P1, old)
    OBVIOUS
<1>1. P \in Pools /\ Len(P.references) = Size(P) /\ old \in 0 .. Size(P) /\ Size(P) \in Nat
    BY PoolType DEF IsPool
<1>2. /\ P1 \in Pools /\ P1.nodes = P.nodes /\ P1.references = P.references /\ P1.slot = P.slot
      /\ P1.ghosts = Tail(P.ghosts) /\ Len(P1.references) = Size(P1) /\ Size(P1) = Size(P)
    BY <1>a, <1>1 DEF Pools, Size
<1>3. /\ P2 \in Pools /\ Len(P2.references) = Size(P2)
      /\ P2.nodes = P.nodes /\ P2.slot = P.slot /\ Size(P2) = Size(P)
      /\ Dropped(P, P2, old) /\ P2.ghosts = Listed(P, old, Tail(P.ghosts))
    <2>1. Blocks(P1) = Blocks(P) /\ old \in 0 .. Size(P1) /\ (old # NIL => P1.references[old] >= 1)
      BY <1>1, <1>2 DEF Blocks
    <2>2. /\ P2 \in Pools /\ Len(P2.references) = Size(P2)
          /\ P2.nodes = P1.nodes /\ P2.slot = P1.slot /\ Size(P2) = Size(P1)
          /\ Dropped(P1, P2, old) /\ P2.ghosts = Listed(P1, old, P1.ghosts)
      <3>1. P1 \in Pools /\ Len(P1.references) = Size(P1)
        BY <1>2
      <3>2. old \in 0 .. Size(P1) /\ (old # NIL => P1.references[old] >= 1)
        BY <2>1
      <3>3. Released(P1, P2, old)
        BY <1>b, <3>1, <3>2, ReleaseView
      <3> QED BY <3>3 DEF Released
    <2>3. Dropped(P, P2, old)
      BY <1>2, <2>1, <2>2 DEF Dropped
    <2>4. P2.ghosts = Listed(P, old, Tail(P.ghosts))
      BY <1>2, <2>2 DEF Listed
    <2> QED BY <1>2, <2>2, <2>3, <2>4
<1>4. Q = [P2 EXCEPT !.nodes[g] = node, !.references[g] = 0]
    <2>1. Q = [Release([P EXCEPT !.ghosts = Tail(@)], old)
                  EXCEPT !.nodes[g] = node, !.references[g] = 0]
      BY Zenon DEF Recycle
    <2> QED BY <1>a, <1>b, <2>1, Zenon
<1> DEFINE nodes == [P2.nodes EXCEPT ![g] = node]
           refs == [P2.references EXCEPT ![g] = 0]
<1>5. Q = [P2 EXCEPT !.nodes = nodes, !.references = refs]
    BY <1>4
<1>6. /\ P2.nodes \in Seq(Node) /\ P2.references \in Seq(Nat) /\ g \in 1 .. Len(P2.nodes)
      /\ Len(P2.nodes) = Size(P) /\ Len(P2.references) = Size(P)
    BY <1>3 DEF Pools, Size, Blocks
<1>7. /\ nodes \in Seq(Node) /\ Len(nodes) = Size(P)
      /\ \A k \in 1 .. Size(P) : nodes[k] = IF k = g THEN node ELSE P2.nodes[k]
    BY <1>6, ExceptSeq
<1>8. /\ refs \in Seq(Nat) /\ Len(refs) = Size(P)
      /\ \A k \in 1 .. Size(P) : refs[k] = IF k = g THEN 0 ELSE P2.references[k]
    BY <1>6, ExceptSeq
<1> HIDE DEF nodes, refs
<1>9. /\ Q \in Pools /\ Q.nodes = nodes /\ Q.references = refs
      /\ Q.slot = P2.slot /\ Q.ghosts = P2.ghosts
    <2>1. nodes \in Seq(Node) /\ refs \in Seq(Nat) /\ P2 \in Pools
      BY <1>3, <1>7, <1>8
    <2> QED BY <1>5, <2>1 DEF Pools
<1>10. Size(Q) = Size(P) /\ Len(Q.references) = Size(Q)
    BY <1>7, <1>8, <1>9 DEF Size
<1>11. ASSUME NEW k \in Blocks(P) \ {g}
       PROVE  /\ Q.nodes[k] = P.nodes[k]
              /\ Q.references[k] = P.references[k] - (IF k = old THEN 1 ELSE 0)
    <2>1. k \in 1 .. Size(P) /\ k \in Blocks(P) /\ k # g
      BY DEF Blocks
    <2>2. Q.nodes[k] = P2.nodes[k] /\ Q.references[k] = P2.references[k]
      BY <1>7, <1>8, <1>9, <2>1
    <2> QED BY <1>3, <2>1, <2>2 DEF Dropped
<1>12. Q.nodes[g] = node /\ Q.references[g] = 0
    <2>1. g \in 1 .. Size(P)
      BY DEF Blocks
    <2> QED BY <1>7, <1>8, <1>9, <2>1
<1>13. /\ Q.slot = P.slot
       /\ Q.ghosts = Listed(P, old, Tail(P.ghosts))
    BY <1>3, <1>9
<1> QED BY <1>9, <1>10, <1>11, <1>12, <1>13 DEF Recycled

-----------------------------------------------------------------------------
(* The counts.                                                             *)

SlotsOf(P, id) == {s \in Slots : P.slot[s] = id}
Heirs(P, id) == {m \in Blocks(P) : P.nodes[m].chain = id}

\* The counts are those of the slots and the blocks that refer to a block.
Counted(P) ==
    \A id \in Blocks(P) : P.references[id] = Cardinality(SlotsOf(P, id)) + Cardinality(Heirs(P, id))

\* The ghosts are the blocks nothing refers to, those of X apart.
Free(P, X) == Lists(P.ghosts, {id \in Blocks(P) : P.references[id] = 0} \ X)

Good(P, X) == IsPool(P) /\ Counted(P) /\ Free(P, X)

\* A set has one element more than without an element it has.
LEMMA Without ==
    ASSUME NEW S, IsFiniteSet(S), NEW x
    PROVE  /\ Cardinality(S) = Cardinality(S \ {x}) + (IF x \in S THEN 1 ELSE 0)
           /\ Cardinality(S \ {x}) \in Nat /\ Cardinality(S) \in Nat
<1>1. Cardinality(S) \in Nat /\ IsFiniteSet(S \ {x})
    BY FS_CardinalityType, FS_Subset
<1>2. Cardinality(S \ {x}) \in Nat
    BY <1>1, FS_CardinalityType
<1>3. CASE x \in S
    BY <1>1, <1>2, <1>3, OneLess
<1>4. CASE x \notin S
    <2>1. S \ {x} = S
      BY <1>4
    <2> QED BY <1>1, <1>4, <2>1
<1> QED BY <1>3, <1>4

\* The blocks are finitely many.
LEMMA FiniteBlocks == ASSUME NEW P, IsPool(P) PROVE IsFiniteSet(Blocks(P))
<1>1. Size(P) \in Int
    BY PoolType
<1>2. IsFiniteSet(1 .. Size(P))
    BY <1>1, FS_Interval
<1> QED BY <1>2 DEF Blocks

\* What refers to a block is finite, and counts.
LEMMA Referring ==
    ASSUME NEW P, IsPool(P), Counted(P), IsFiniteSet(Slots), NEW id \in Blocks(P)
    PROVE  /\ IsFiniteSet(SlotsOf(P, id)) /\ IsFiniteSet(Heirs(P, id))
           /\ \A s \in Slots : P.slot[s] = id => P.references[id] >= 1
           /\ \A m \in Blocks(P) : P.nodes[m].chain = id => P.references[id] >= 1
           /\ \A s \in Slots, m \in Blocks(P) :
                  P.slot[s] = id /\ P.nodes[m].chain = id => P.references[id] >= 2
<1>1. IsFiniteSet(Blocks(P))
    BY FiniteBlocks
<1>2. IsFiniteSet(SlotsOf(P, id)) /\ IsFiniteSet(Heirs(P, id))
    BY <1>1, FS_Subset DEF SlotsOf, Heirs
<1>3. P.references[id] = Cardinality(SlotsOf(P, id)) + Cardinality(Heirs(P, id))
    BY DEF Counted
<1>4. Cardinality(SlotsOf(P, id)) \in Nat /\ Cardinality(Heirs(P, id)) \in Nat
    BY <1>2, FS_CardinalityType
<1>5. ASSUME NEW s \in Slots, P.slot[s] = id PROVE Cardinality(SlotsOf(P, id)) >= 1
    <2>1. s \in SlotsOf(P, id)
      BY <1>5 DEF SlotsOf
    <2> QED BY <1>2, <2>1, OneLess
<1>6. ASSUME NEW m \in Blocks(P), P.nodes[m].chain = id PROVE Cardinality(Heirs(P, id)) >= 1
    <2>1. m \in Heirs(P, id)
      BY <1>6 DEF Heirs
    <2> QED BY <1>2, <2>1, OneLess
<1>7. ASSUME NEW s \in Slots, P.slot[s] = id PROVE P.references[id] >= 1
    BY <1>3, <1>4, <1>5, <1>7
<1>8. ASSUME NEW m \in Blocks(P), P.nodes[m].chain = id PROVE P.references[id] >= 1
    BY <1>3, <1>4, <1>6, <1>8
<1>9. ASSUME NEW s \in Slots, NEW m \in Blocks(P), P.slot[s] = id, P.nodes[m].chain = id
      PROVE  P.references[id] >= 2
    <2>1. Cardinality(SlotsOf(P, id)) >= 1 /\ Cardinality(Heirs(P, id)) >= 1
      BY <1>5, <1>6, <1>9
    <2> QED BY <1>3, <1>4, <2>1
<1> QED BY <1>2, <1>7, <1>8, <1>9

\* From P to Q, the block new alone comes to follow chain, and follows old no more.
Reborn(P, Q, new, chain, old) ==
    /\ Q.slot = P.slot /\ Blocks(Q) = Blocks(P) \cup {new}
    /\ \A m \in Blocks(P) \ {new} : Q.nodes[m] = P.nodes[m]
    /\ Q.nodes[new].chain = chain
    /\ new \in Blocks(P) => P.nodes[new].chain = old
    /\ new \notin Blocks(P) => old = NIL

\* The counts that change are those of chain and old.
Recounted(P, Q, chain, old) ==
    \A id \in Blocks(P) :
        /\ Cardinality(SlotsOf(Q, id)) = Cardinality(SlotsOf(P, id))
        /\ Cardinality(Heirs(Q, id)) = Cardinality(Heirs(P, id))
                    - (IF id = old THEN 1 ELSE 0) + (IF id = chain THEN 1 ELSE 0)
        /\ Cardinality(Heirs(P, id)) \in Nat /\ Cardinality(SlotsOf(P, id)) \in Nat

\* A block that comes to follow another changes the counts of the two.
LEMMA RebornCounts ==
    ASSUME NEW P, NEW Q, IsPool(P), Counted(P), IsPool(Q), IsFiniteSet(Slots),
           NEW new, NEW chain, NEW old, Reborn(P, Q, new, chain, old)
    PROVE  Recounted(P, Q, chain, old)
<1> SUFFICES ASSUME NEW id \in Blocks(P)
             PROVE  /\ Cardinality(SlotsOf(Q, id)) = Cardinality(SlotsOf(P, id))
                    /\ Cardinality(Heirs(Q, id)) = Cardinality(Heirs(P, id))
                            - (IF id = old THEN 1 ELSE 0) + (IF id = chain THEN 1 ELSE 0)
                    /\ Cardinality(Heirs(P, id)) \in Nat /\ Cardinality(SlotsOf(P, id)) \in Nat
    BY DEF Recounted
<1> USE DEF Reborn
<1>1. SlotsOf(Q, id) = SlotsOf(P, id)
    BY DEF SlotsOf
<1>2. IsFiniteSet(Blocks(P)) /\ IsFiniteSet(Blocks(Q)) /\ id # NIL
    BY FiniteBlocks DEF Blocks, NIL
<1>3. IsFiniteSet(Heirs(P, id)) /\ IsFiniteSet(Heirs(Q, id)) /\ IsFiniteSet(SlotsOf(P, id))
    BY <1>2, FS_Subset DEF Heirs, SlotsOf
<1>4. Heirs(P, id) \ {new} = Heirs(Q, id) \ {new}
    BY DEF Heirs
<1>5. (new \in Heirs(P, id) <=> id = old) /\ (new \in Heirs(Q, id) <=> id = chain)
    BY <1>2 DEF Heirs
<1>6. /\ Cardinality(Heirs(P, id)) =
             Cardinality(Heirs(P, id) \ {new}) + (IF new \in Heirs(P, id) THEN 1 ELSE 0)
      /\ Cardinality(Heirs(P, id) \ {new}) \in Nat /\ Cardinality(Heirs(P, id)) \in Nat
    BY <1>3, Without
<1>7. Cardinality(Heirs(Q, id)) =
             Cardinality(Heirs(Q, id) \ {new}) + (IF new \in Heirs(Q, id) THEN 1 ELSE 0)
    BY <1>3, Without
<1>8. Cardinality(SlotsOf(P, id)) \in Nat
    BY <1>3, FS_CardinalityType
<1>9. Cardinality(Heirs(Q, id)) = Cardinality(Heirs(P, id))
                    - (IF id = old THEN 1 ELSE 0) + (IF id = chain THEN 1 ELSE 0)
    <2>1. Cardinality(Heirs(Q, id) \ {new}) = Cardinality(Heirs(P, id) \ {new})
      BY <1>4
    <2>2. Cardinality(Heirs(Q, id)) =
              Cardinality(Heirs(P, id) \ {new}) + (IF id = chain THEN 1 ELSE 0)
      BY <1>5, <1>7, <2>1
    <2>3. Cardinality(Heirs(P, id)) =
              Cardinality(Heirs(P, id) \ {new}) + (IF id = old THEN 1 ELSE 0)
      BY <1>5, <1>6
    <2> QED BY <1>6, <2>2, <2>3
<1> QED BY <1>1, <1>6, <1>8, <1>9

\* What is true of a new block and of the pool it came into.
Allocated(P, Q, new, node) ==
    /\ Good(Q, {new}) /\ Q.slot = P.slot /\ new \in Blocks(Q)
    /\ Size(P) <= Size(Q) /\ Q.nodes[new] = node
    /\ \A s \in Slots : Q.slot[s] # new
    /\ Blocks(Q) = Blocks(P) \cup {new}
    /\ \A k \in Blocks(P) \ {new} : Q.nodes[k] = P.nodes[k]
    /\ \A k \in Blocks(Q) : Q.nodes[k].chain # new

\* With no ghosts the pool grows.
LEMMA AllocGrows ==
    ASSUME NEW P, Good(P, {}), IsFiniteSet(Slots), P.ghosts = <<>>,
           NEW node \in Node, NEW chain \in 0 .. Size(P), node.chain = chain,
           chain # NIL => \E s \in Slots : P.slot[s] = chain,
           NEW Q, Q = Take(Grow(P, node), chain)
    PROVE  Allocated(P, Q, Size(P) + 1, node)
<1> DEFINE new == Size(P) + 1
<1>1. PICK G : G = Grow(P, node)
    OBVIOUS
<1>2. IsPool(P) /\ Counted(P) /\ Free(P, {}) /\ P \in Pools /\ Len(P.references) = Size(P)
      /\ Size(P) \in Nat
    BY PoolType DEF Good, IsPool
<1>3. /\ G \in Pools /\ Len(G.references) = Size(G) /\ Size(G) = Size(P) + 1
      /\ G.slot = P.slot /\ G.ghosts = P.ghosts
      /\ \A k \in Blocks(P) : G.nodes[k] = P.nodes[k] /\ G.references[k] = P.references[k]
      /\ G.nodes[Size(G)] = node /\ G.references[Size(G)] = 0
    BY <1>1, <1>2, GrowView
<1>4. /\ Q \in Pools /\ Len(Q.references) = Size(Q)
      /\ Q.nodes = G.nodes /\ Q.ghosts = G.ghosts /\ Q.slot = G.slot /\ Size(Q) = Size(G)
      /\ Raised(G, Q, chain)
    <2>1. chain \in 0 .. Size(G) /\ Q = Take(G, chain)
      BY <1>1, <1>2, <1>3
    <2> QED BY <1>3, <2>1, TakeView
<1>5. /\ Blocks(G) = Blocks(P) \cup {new} /\ Blocks(Q) = Blocks(P) \cup {new}
      /\ new \notin Blocks(P) /\ new \in Blocks(Q) /\ new # chain /\ Size(P) <= Size(Q)
    BY <1>2, <1>3, <1>4 DEF Blocks
<1>6. \A s \in Slots : P.slot[s] \in 0 .. Size(P) /\ Q.slot[s] # new
    BY <1>2, <1>3, <1>4 DEF IsPool
<1>7. \A k \in Blocks(P) : P.nodes[k].chain \in 0 .. Size(P)
    BY <1>2 DEF IsPool
<1>8. /\ Q.slot = P.slot /\ Q.nodes[new] = node /\ Q.references[new] = 0
      /\ \A k \in Blocks(P) : /\ Q.nodes[k] = P.nodes[k]
                              /\ Q.references[k] = P.references[k] + (IF k = chain THEN 1 ELSE 0)
    <2>1. G.references[new] = 0 /\ new \in Blocks(G) /\ Q.references[new] = 0
      <3>1. new \in Blocks(G) /\ G.references[new] = 0 /\ new # chain
        BY <1>3, <1>5
      <3>2. Q.references[new] = G.references[new] + (IF new = chain THEN 1 ELSE 0)
        BY <1>4, <3>1 DEF Raised
      <3> HIDE DEF new
      <3> QED BY <3>1, <3>2
    <2>2. Q.slot = P.slot /\ Q.nodes[new] = node
      BY <1>3, <1>4
    <2>3. ASSUME NEW k \in Blocks(P)
          PROVE  /\ Q.nodes[k] = P.nodes[k]
                 /\ Q.references[k] = P.references[k] + (IF k = chain THEN 1 ELSE 0)
      BY <1>3, <1>4, <1>5 DEF Raised
    <2> QED BY <2>1, <2>2, <2>3
<1> HIDE DEF new
<1>9. IsPool(Q)
    <2>1. \A s \in Slots : Q.slot[s] \in 0 .. Size(Q)
      BY <1>2, <1>3, <1>4, <1>6, <1>8
    <2>2. \A k \in Blocks(Q) : Q.nodes[k].chain \in 0 .. Size(Q)
      BY <1>2, <1>3, <1>4, <1>5, <1>7, <1>8
    <2> QED BY <1>4, <2>1, <2>2 DEF IsPool
<1>10. \A k \in Blocks(Q) : Q.nodes[k].chain # new
    <2>1. \A j \in 0 .. Size(P) : j # new
      BY <1>2 DEF new
    <2> QED BY <1>5, <1>7, <1>8, <2>1
<1>11. Counted(Q)
    <2>1. ASSUME NEW id \in Blocks(P)
          PROVE  Q.references[id] = Cardinality(SlotsOf(Q, id)) + Cardinality(Heirs(Q, id))
      <3>0. Reborn(P, Q, new, chain, NIL)
        BY <1>5, <1>8 DEF Reborn
      <3>1. Recounted(P, Q, chain, NIL)
        BY <1>2, <1>9, <3>0, RebornCounts
      <3>2. P.references[id] = Cardinality(SlotsOf(P, id)) + Cardinality(Heirs(P, id))
        BY <1>2 DEF Counted
      <3>3. Q.references[id] = P.references[id] + (IF id = chain THEN 1 ELSE 0)
        BY <1>8
      <3>4. id # NIL
        BY DEF Blocks, NIL
      <3> QED BY <3>1, <3>2, <3>3, <3>4 DEF Recounted
    <2>2. Q.references[new] = Cardinality(SlotsOf(Q, new)) + Cardinality(Heirs(Q, new))
      <3>1. SlotsOf(Q, new) = {} /\ Heirs(Q, new) = {}
        <4>1. \A k \in Blocks(Q) : Q.nodes[k].chain # new
          BY <1>10
        <4> QED BY <1>6, <4>1 DEF SlotsOf, Heirs
      <3> QED BY <1>8, <3>1, FS_EmptySet
    <2> QED BY <1>5, <2>1, <2>2 DEF Counted
<1>12. Free(Q, {new})
    <2>1. Lists(<<>>, {id \in Blocks(P) : P.references[id] = 0} \ {}) /\ Q.ghosts = <<>>
      BY <1>2, <1>3, <1>4 DEF Free
    <2>2. {id \in Blocks(P) : P.references[id] = 0} = {} /\ Range(<<>>) = {}
      BY <2>1 DEF Lists, Range
    <2>3. ASSUME NEW id \in Blocks(P) PROVE Q.references[id] # 0
      <3>1. P.references[id] \in Nat /\ P.references[id] # 0
        BY <1>2, <2>2, PoolType
      <3> QED BY <1>8, <3>1
    <2>4. {id \in Blocks(Q) : Q.references[id] = 0} \ {new} = {}
      BY <1>5, <2>3
    <2> QED BY <2>1, <2>2, <2>4 DEF Free, Lists
<1>13. Allocated(P, Q, new, node)
    BY <1>5, <1>6, <1>8, <1>9, <1>10, <1>11, <1>12 DEF Allocated, Good
<1> QED BY <1>13 DEF new

\* The first ghost is recycled.
LEMMA AllocRecycles ==
    ASSUME NEW P, Good(P, {}), IsFiniteSet(Slots), P.ghosts # <<>>,
           NEW node \in Node, NEW chain \in 0 .. Size(P), node.chain = chain,
           chain # NIL => \E s \in Slots : P.slot[s] = chain,
           NEW Q, Q = Take(Recycle(P, node), chain)
    PROVE  Allocated(P, Q, Head(P.ghosts), node)
<1>1. IsPool(P) /\ Counted(P) /\ Free(P, {}) /\ P \in Pools /\ Len(P.references) = Size(P)
      /\ Size(P) \in Nat /\ P.ghosts \in Seq(Nat)
      /\ \A k \in Blocks(P) : P.references[k] \in Nat
    BY PoolType DEF Good, IsPool
<1> DEFINE Zeros == {id \in Blocks(P) : P.references[id] = 0}
<1>2. Lists(P.ghosts, Zeros)
    BY <1>1 DEF Free
<1>3. PICK g : g = Head(P.ghosts)
    OBVIOUS
<1>4. g \in Zeros /\ Tail(P.ghosts) \in Seq(Nat) /\ Lists(Tail(P.ghosts), Zeros \ {g})
    <2> HIDE DEF Zeros
    <2> QED BY <1>1, <1>2, <1>3, PopLists
<1>5. PICK old : old = P.nodes[g].chain
    OBVIOUS
<1>6. g \in Blocks(P) /\ P.references[g] = 0 /\ old \in 0 .. Size(P)
    BY <1>1, <1>4, <1>5 DEF IsPool
<1>7. /\ (\A s \in Slots : P.slot[s] # g) /\ old # g /\ chain # g
      /\ (old # NIL => P.references[old] >= 1) /\ (chain # NIL => P.references[chain] >= 1)
      /\ (old # NIL /\ old = chain => P.references[old] >= 2)
      /\ \A m \in Blocks(P) : P.nodes[m].chain # g
    <2>1. ASSUME NEW k \in Blocks(P)
          PROVE  /\ \A s \in Slots : P.slot[s] = k => P.references[k] >= 1
                 /\ \A m \in Blocks(P) : P.nodes[m].chain = k => P.references[k] >= 1
                 /\ \A s \in Slots, m \in Blocks(P) :
                        P.slot[s] = k /\ P.nodes[m].chain = k => P.references[k] >= 2
      BY <1>1, Referring
    <2>2. /\ \A s \in Slots : P.slot[s] # g
          /\ \A m \in Blocks(P) : P.nodes[m].chain # g
      BY <1>6, <2>1
    <2>3. (old # NIL => old \in Blocks(P)) /\ (chain # NIL => chain \in Blocks(P)) /\ g # NIL
      BY <1>1, <1>6 DEF Blocks, NIL
    <2> QED BY <1>5, <1>6, <2>1, <2>2, <2>3
<1>8. PICK R : R = Recycle(P, node)
    OBVIOUS
<1>9. /\ R \in Pools /\ Len(R.references) = Size(R) /\ Size(R) = Size(P)
      /\ R.slot = P.slot /\ R.ghosts = Listed(P, old, Tail(P.ghosts))
      /\ Recycled(P, R, g, node, old)
    BY <1>1, <1>3, <1>4, <1>5, <1>6, <1>7, <1>8, RecycleView
<1>10. /\ Q \in Pools /\ Len(Q.references) = Size(Q)
       /\ Q.nodes = R.nodes /\ Q.ghosts = R.ghosts /\ Q.slot = R.slot /\ Size(Q) = Size(R)
       /\ Raised(R, Q, chain)
    <2>1. chain \in 0 .. Size(R) /\ Q = Take(R, chain)
      BY <1>8, <1>9
    <2> QED BY <1>9, <2>1, TakeView
<1>11. /\ Blocks(R) = Blocks(P) /\ Blocks(Q) = Blocks(P) /\ Blocks(Q) = Blocks(P) \cup {g}
       /\ Size(P) <= Size(Q) /\ g \in Blocks(Q)
    BY <1>1, <1>6, <1>9, <1>10 DEF Blocks
<1>12. /\ Q.slot = P.slot /\ Q.nodes[g] = node /\ Q.references[g] = 0
       /\ \A k \in Blocks(P) \ {g} :
              /\ Q.nodes[k] = P.nodes[k]
              /\ Q.references[k] = P.references[k] - (IF k = old THEN 1 ELSE 0)
                                      + (IF k = chain THEN 1 ELSE 0)
    <2>1. Q.references[g] = R.references[g] + (IF g = chain THEN 1 ELSE 0)
      BY <1>6, <1>10, <1>11 DEF Raised
    <2>2. Q.references[g] = 0
      BY <1>7, <1>9, <2>1 DEF Recycled
    <2>3. ASSUME NEW k \in Blocks(P) \ {g}
          PROVE  /\ Q.nodes[k] = P.nodes[k]
                 /\ Q.references[k] = P.references[k] - (IF k = old THEN 1 ELSE 0)
                                         + (IF k = chain THEN 1 ELSE 0)
      <3>1. k \in Blocks(R)
        BY <1>11
      <3> QED BY <1>9, <1>10, <3>1 DEF Raised, Recycled
    <2> QED BY <1>9, <1>10, <2>2, <2>3 DEF Recycled
<1>13. IsPool(Q)
    <2>1. \A s \in Slots : Q.slot[s] \in 0 .. Size(Q)
      BY <1>1, <1>9, <1>10, <1>12 DEF IsPool
    <2>2. \A k \in Blocks(Q) : Q.nodes[k].chain \in 0 .. Size(Q)
      BY <1>1, <1>9, <1>10, <1>11, <1>12 DEF IsPool
    <2> QED BY <1>10, <2>1, <2>2 DEF IsPool
<1>14. Counted(Q)
    <2>1. Reborn(P, Q, g, chain, old)
      BY <1>5, <1>6, <1>11, <1>12 DEF Reborn
    <2>2. Recounted(P, Q, chain, old)
      BY <1>1, <1>13, <2>1, RebornCounts
    <2>3. ASSUME NEW id \in Blocks(P)
          PROVE  Q.references[id] = Cardinality(SlotsOf(Q, id)) + Cardinality(Heirs(Q, id))
      <3>1. P.references[id] = Cardinality(SlotsOf(P, id)) + Cardinality(Heirs(P, id))
        BY <1>1 DEF Counted
      <3>2. Q.references[id] = P.references[id] - (IF id = old THEN 1 ELSE 0)
                                      + (IF id = chain THEN 1 ELSE 0)
        <4>1. CASE id = g
          BY <1>6, <1>7, <1>12, <4>1
        <4>2. CASE id # g
          BY <1>12, <4>2
        <4> QED BY <4>1, <4>2
      <3> QED BY <2>2, <3>1, <3>2 DEF Recounted
    <2> QED BY <1>11, <2>3 DEF Counted
<1>15. Free(Q, {g})
    <2> DEFINE Left == {id \in Blocks(Q) : Q.references[id] = 0} \ {g}
    <2>1. \A id \in Blocks(P) \ {g} :
              Q.references[id] = 0 <=> (P.references[id] = 0 \/ (id = old /\ P.references[old] = 1))
      <3>1. ASSUME NEW id \in Blocks(P) \ {g}
            PROVE  Q.references[id] = 0 <=>
                       (P.references[id] = 0 \/ (id = old /\ P.references[old] = 1))
        <4>1. id # NIL /\ P.references[id] \in Nat
          BY <1>1 DEF Blocks, NIL
        <4>2. Q.references[id] = P.references[id] - (IF id = old THEN 1 ELSE 0)
                                      + (IF id = chain THEN 1 ELSE 0)
          BY <1>12
        <4> QED BY <1>7, <4>1, <4>2
      <3> QED BY <3>1
    <2>2. CASE old # NIL /\ P.references[old] = 1
      <3>1. old \in Nat /\ old \in Blocks(P) /\ old \notin Zeros \ {g}
        BY <1>1, <1>6, <2>2 DEF Blocks, NIL
      <3>2. Left = (Zeros \ {g}) \cup {old}
        BY <1>7, <1>11, <2>1, <2>2, <3>1
      <3> HIDE DEF Zeros
      <3>3. Lists(<<old>> \o Tail(P.ghosts), (Zeros \ {g}) \cup {old})
        BY <1>4, <3>1, PushLists
      <3>4. Q.ghosts = <<old>> \o Tail(P.ghosts)
        BY <1>9, <1>10, <2>2 DEF Listed
      <3>5. Lists(Q.ghosts, Left)
        BY <3>2, <3>3, <3>4
      <3> QED BY <3>5 DEF Free
    <2>3. CASE ~(old # NIL /\ P.references[old] = 1)
      <3>1. old \notin Blocks(P) \/ P.references[old] # 1
        BY <1>1, <2>3 DEF Blocks, NIL
      <3>2. Left = Zeros \ {g}
        BY <1>11, <2>1, <3>1
      <3> QED BY <1>4, <1>9, <1>10, <2>3, <3>2 DEF Free, Listed
    <2> QED BY <2>2, <2>3
<1>16. \A s \in Slots : Q.slot[s] # g
    BY <1>7, <1>12
<1>17. \A k \in Blocks(Q) : Q.nodes[k].chain # g
    BY <1>7, <1>11, <1>12
<1>18. Allocated(P, Q, g, node)
    BY <1>11, <1>12, <1>13, <1>14, <1>15, <1>16, <1>17 DEF Allocated, Good
<1> QED BY <1>3, <1>18

\* A block is allocated, with the counts right but for its own, which is 0.
LEMMA AllocExact ==
    ASSUME NEW P, Good(P, {}), IsFiniteSet(Slots), NEW bits, NEW i, NEW off,
           NEW chain \in 0 .. Size(P), Block(bits, i, off, chain) \in Node,
           chain # NIL => \E s \in Slots : P.slot[s] = chain
    PROVE  Allocated(P, Allocate(P, bits, i, off, chain), NewId(P), Block(bits, i, off, chain))
<1>1. PICK node : node = Block(bits, i, off, chain)
    OBVIOUS
<1>2. node \in Node /\ node.chain = chain
    BY <1>1 DEF Block
<1>3. Allocate(P, bits, i, off, chain) =
          Take(IF P.ghosts = <<>> THEN Grow(P, node) ELSE Recycle(P, node), chain)
    BY <1>1 DEF Allocate
<1>4. CASE P.ghosts = <<>>
    <2>1. /\ Allocate(P, bits, i, off, chain) = Take(Grow(P, node), chain)
          /\ NewId(P) = Size(P) + 1
      BY <1>3, <1>4 DEF NewId, Size
    <2>2. Allocated(P, Take(Grow(P, node), chain), Size(P) + 1, node)
      BY <1>2, <1>4, AllocGrows
    <2> QED BY <1>1, <2>1, <2>2
<1>5. CASE P.ghosts # <<>>
    <2>1. /\ Allocate(P, bits, i, off, chain) = Take(Recycle(P, node), chain)
          /\ NewId(P) = Head(P.ghosts)
      BY <1>3, <1>5 DEF NewId
    <2>2. Allocated(P, Take(Recycle(P, node), chain), Head(P.ghosts), node)
      BY <1>2, <1>5, AllocRecycles
    <2> QED BY <1>1, <2>1, <2>2
<1> QED BY <1>4, <1>5

\* A slot comes to refer to the block id, whose own place among the ghosts is open.
LEMMA AssignExact ==
    ASSUME NEW P, NEW id \in Blocks(P), Good(P, {id}), IsFiniteSet(Slots), NEW s \in Slots,
           NEW Q, Q = Assign(P, s, id)
    PROVE  /\ Good(Q, {}) /\ Q.nodes = P.nodes /\ Size(Q) = Size(P)
           /\ Q.slot = [P.slot EXCEPT ![s] = id]
<1>1. IsPool(P) /\ Counted(P) /\ Free(P, {id}) /\ P \in Pools /\ Len(P.references) = Size(P)
      /\ Size(P) \in Nat /\ P.ghosts \in Seq(Nat) /\ P.slot \in [Slots -> Nat]
      /\ \A k \in Blocks(P) : P.references[k] \in Nat
    BY PoolType DEF Good, IsPool
<1> DEFINE Zeros == {k \in Blocks(P) : P.references[k] = 0} \ {id}
<1>2. Lists(P.ghosts, Zeros)
    BY <1>1 DEF Free
<1>3. PICK old : old = P.slot[s]
    OBVIOUS
<1>4. old \in 0 .. Size(P) /\ id \in 0 .. Size(P) /\ id \in Nat
    BY <1>1, <1>3 DEF IsPool, Blocks
<1>5. old # NIL => old \in Blocks(P) /\ P.references[old] >= 1
    <2>1. old # NIL => old \in Blocks(P)
      BY <1>1, <1>4 DEF Blocks, NIL
    <2> QED BY <1>1, <1>3, <2>1, Referring
<1>6. PICK T : T = Take(P, id)
    OBVIOUS
<1>7. /\ T \in Pools /\ Len(T.references) = Size(T)
      /\ T.nodes = P.nodes /\ T.ghosts = P.ghosts /\ T.slot = P.slot /\ Size(T) = Size(P)
      /\ Raised(P, T, id)
    BY <1>1, <1>4, <1>6, TakeView
<1>8. PICK R : R = Release(T, old)
    OBVIOUS
<1>9. Blocks(T) = Blocks(P) /\ (old # NIL => T.references[old] >= 1)
    <2>1. Blocks(T) = Blocks(P)
      BY <1>7 DEF Blocks
    <2> QED BY <1>1, <1>5, <1>7, <2>1 DEF Raised
<1>10. /\ R \in Pools /\ Len(R.references) = Size(R)
       /\ R.nodes = T.nodes /\ R.slot = T.slot /\ Size(R) = Size(T)
       /\ Dropped(T, R, old) /\ R.ghosts = Listed(T, old, T.ghosts)
    <2>1. old \in 0 .. Size(T)
      BY <1>4, <1>7
    <2>2. Released(T, R, old)
      BY <1>7, <1>8, <1>9, <2>1, ReleaseView
    <2> QED BY <2>2 DEF Released
<1>11. Q = [R EXCEPT !.slot[s] = id]
    BY <1>3, <1>6, <1>8 DEF Assign
<1>12. PICK slot : slot = [P.slot EXCEPT ![s] = id]
    OBVIOUS
<1>13. /\ Q \in Pools /\ Q.nodes = P.nodes /\ Q.references = R.references
       /\ Q.ghosts = R.ghosts /\ Q.slot = slot
    <2>1. slot \in [Slots -> Nat]
      BY <1>1, <1>4, <1>12
    <2>2. Q = [R EXCEPT !.slot = slot]
      BY <1>7, <1>10, <1>11, <1>12
    <2> QED BY <1>7, <1>10, <2>1, <2>2 DEF Pools
<1>14. Size(Q) = Size(P) /\ Blocks(Q) = Blocks(P)
    BY <1>13 DEF Size, Blocks
<1>15. \A k \in Blocks(P) : Q.references[k] =
            P.references[k] + (IF k = id THEN 1 ELSE 0) - (IF k = old THEN 1 ELSE 0)
    <2>1. ASSUME NEW k \in Blocks(P)
          PROVE  Q.references[k] =
                     P.references[k] + (IF k = id THEN 1 ELSE 0) - (IF k = old THEN 1 ELSE 0)
      <3>1. T.references[k] = P.references[k] + (IF k = id THEN 1 ELSE 0)
        BY <1>7 DEF Raised
      <3>2. Q.references[k] = T.references[k] - (IF k = old THEN 1 ELSE 0)
        BY <1>9, <1>10, <1>13 DEF Dropped
      <3> QED BY <1>1, <3>1, <3>2
    <2> QED BY <2>1
<1>16. \A r \in Slots : slot[r] = IF r = s THEN id ELSE P.slot[r]
    BY <1>1, <1>12
<1>17. IsPool(Q)
    <2>1. Len(Q.references) = Size(Q)
      BY <1>7, <1>10, <1>13, <1>14
    <2>2. \A r \in Slots : Q.slot[r] \in 0 .. Size(Q)
      BY <1>1, <1>4, <1>13, <1>14, <1>16 DEF IsPool
    <2>3. \A k \in Blocks(Q) : Q.nodes[k].chain \in 0 .. Size(Q)
      BY <1>1, <1>13, <1>14 DEF IsPool
    <2> QED BY <1>13, <2>1, <2>2, <2>3 DEF IsPool
<1>18. Counted(Q)
    <2>1. ASSUME NEW k \in Blocks(P)
          PROVE  Q.references[k] = Cardinality(SlotsOf(Q, k)) + Cardinality(Heirs(Q, k))
      <3>1. Heirs(Q, k) = Heirs(P, k)
        BY <1>13, <1>14 DEF Heirs
      <3>2. SlotsOf(Q, k) \ {s} = SlotsOf(P, k) \ {s}
        BY <1>13, <1>16 DEF SlotsOf
      <3>3. (s \in SlotsOf(P, k) <=> k = old) /\ (s \in SlotsOf(Q, k) <=> k = id)
        BY <1>3, <1>13, <1>16 DEF SlotsOf
      <3>4. IsFiniteSet(SlotsOf(P, k)) /\ IsFiniteSet(SlotsOf(Q, k)) /\ IsFiniteSet(Heirs(P, k))
        BY <1>1, FiniteBlocks, FS_Subset DEF SlotsOf, Heirs
      <3>5. /\ Cardinality(SlotsOf(P, k)) =
                   Cardinality(SlotsOf(P, k) \ {s}) + (IF s \in SlotsOf(P, k) THEN 1 ELSE 0)
            /\ Cardinality(SlotsOf(P, k) \ {s}) \in Nat
        BY <3>4, Without
      <3>6. Cardinality(SlotsOf(Q, k)) =
                   Cardinality(SlotsOf(Q, k) \ {s}) + (IF s \in SlotsOf(Q, k) THEN 1 ELSE 0)
        BY <3>4, Without
      <3>7. Cardinality(SlotsOf(Q, k) \ {s}) = Cardinality(SlotsOf(P, k) \ {s})
        BY <3>2
      <3>8. /\ Cardinality(SlotsOf(P, k)) =
                   Cardinality(SlotsOf(P, k) \ {s}) + (IF k = old THEN 1 ELSE 0)
            /\ Cardinality(SlotsOf(Q, k)) =
                   Cardinality(SlotsOf(P, k) \ {s}) + (IF k = id THEN 1 ELSE 0)
        BY <3>3, <3>5, <3>6, <3>7
      <3>9. P.references[k] = Cardinality(SlotsOf(P, k)) + Cardinality(Heirs(P, k))
        BY <1>1 DEF Counted
      <3>10. Cardinality(Heirs(P, k)) \in Nat
        BY <3>4, FS_CardinalityType
      <3>11. Q.references[k] = Cardinality(SlotsOf(Q, k)) + Cardinality(Heirs(P, k))
        BY <1>15, <3>5, <3>8, <3>9, <3>10
      <3> QED BY <3>1, <3>11
    <2> QED BY <1>14, <2>1 DEF Counted
<1>19. Free(Q, {})
    <2> DEFINE Left == {k \in Blocks(Q) : Q.references[k] = 0}
    <2>1. Q.ghosts = Listed(T, old, P.ghosts)
      BY <1>7, <1>10, <1>13
    <2>2. ASSUME NEW k \in Blocks(P)
          PROVE  Q.references[k] = 0 <=>
                     (k # id /\ (P.references[k] = 0 \/ (k = old /\ P.references[k] = 1)))
      <3>1. P.references[k] \in Nat /\ k # NIL
        BY <1>1 DEF Blocks, NIL
      <3>2. Q.references[k] =
                P.references[k] + (IF k = id THEN 1 ELSE 0) - (IF k = old THEN 1 ELSE 0)
        BY <1>15
      <3> QED BY <1>5, <3>1, <3>2
    <2>3. CASE old # NIL /\ T.references[old] = 1
      <3>1. old \in Blocks(P) /\ old # id /\ P.references[old] = 1 /\ old \in Nat
        BY <1>1, <1>4, <1>5, <1>7, <2>3 DEF Raised
      <3>2. Left = Zeros \cup {old} /\ old \notin Zeros
        <4>1. old \notin Zeros /\ old \in Left
          BY <1>14, <2>2, <3>1
        <4>2. \A k \in Blocks(P) \ {old} : k \in Left <=> k \in Zeros
          BY <1>14, <2>2, <3>1
        <4>3. Left \subseteq Blocks(P) /\ Zeros \subseteq Blocks(P)
          BY <1>14
        <4> HIDE DEF Left, Zeros
        <4> QED BY <3>1, <4>1, <4>2, <4>3
      <3> HIDE DEF Zeros
      <3>3. Lists(<<old>> \o P.ghosts, Zeros \cup {old})
        BY <1>1, <1>2, <3>1, <3>2, PushLists
      <3> QED BY <2>1, <2>3, <3>2, <3>3 DEF Free, Listed
    <2>4. CASE ~(old # NIL /\ T.references[old] = 1)
      <3>1. \A k \in Blocks(P) : ~(k # id /\ k = old /\ P.references[k] = 1)
        BY <1>1, <1>7, <2>4 DEF Raised, Blocks, NIL
      <3>2. Left = Zeros
        BY <1>14, <2>2, <3>1
      <3> QED BY <1>2, <2>1, <2>4, <3>2 DEF Free, Listed
    <2> QED BY <2>3, <2>4
<1> QED BY <1>12, <1>13, <1>14, <1>17, <1>18, <1>19 DEF Good

-----------------------------------------------------------------------------
(* What a new block does to the tables.                                    *)

\* A block a slot refers to is not among the ghosts.
LEMMA HeldOpen ==
    ASSUME NEW P, Good(P, {}), IsFiniteSet(Slots), NEW id \in Blocks(P),
           NEW s \in Slots, P.slot[s] = id
    PROVE  Good(P, {id})
<1>1. IsPool(P) /\ Counted(P) /\ Free(P, {})
    BY DEF Good
<1>2. P.references[id] # 0
    <2>1. P.references[id] >= 1 /\ P.references[id] \in Nat
      BY <1>1, Referring, PoolType
    <2> QED BY <2>1
<1>3. {k \in Blocks(P) : P.references[k] = 0} \ {id} = {k \in Blocks(P) : P.references[k] = 0} \ {}
    BY <1>2
<1> QED BY <1>1, <1>3 DEF Good, Free

\* The slot s refers to the block node.
Refers(P, s, node) == P.slot[s] \in Blocks(P) /\ P.nodes[P.slot[s]] = node

\* From P to Q: the block new is node, nothing referred to it, and the slot s does;
\* the slot best does too, or refers to what it referred to; the rest is as it was.
Renewed(P, Q, new, s, best, node) ==
    /\ new # NIL /\ Blocks(Q) = Blocks(P) \cup {new} /\ Q.nodes[new] = node
    /\ \A k \in Blocks(P) \ {new} : Q.nodes[k] = P.nodes[k]
    /\ \A k \in Blocks(Q) : Q.nodes[k].chain # new
    /\ \A r \in Slots : P.slot[r] # new
    /\ \A r \in Slots \ {s, best} : Q.slot[r] = P.slot[r]
    /\ Q.slot[s] = new /\ Q.slot[best] \in {new, P.slot[best]}

\* The block the slot best comes to refer to costs no more than the new one, nor than
\* the one it referred to.
NotDearer(P, Q, best, node) ==
    /\ Q.nodes[Q.slot[best]].bits <= node.bits
    /\ P.slot[best] # NIL => Q.nodes[Q.slot[best]].bits <= P.nodes[P.slot[best]].bits

\* From P to Q: the slot s refers to the new block node, the slot best to the cheaper
\* of it and its own, the other slots and the blocks they refer to are as they were.
Relaxed(P, Q, s, best, node) ==
    /\ Good(Q, {}) /\ Refers(Q, s, node) /\ Q.slot[best] # NIL
    /\ \E new : Renewed(P, Q, new, s, best, node)
    /\ NotDearer(P, Q, best, node)
    /\ \A r \in Slots \ {s, best} :
           /\ Q.slot[r] = P.slot[r]
           /\ P.slot[r] # NIL => Q.nodes[P.slot[r]] = P.nodes[P.slot[r]]
    /\ \A k \in Blocks(Q) :
           Q.nodes[k] = node \/ (k \in Blocks(P) /\ Q.nodes[k] = P.nodes[k])

\* A block is allocated and one slot, or two, come to refer to it.
LEMMA RelaxExact ==
    ASSUME NEW P, Good(P, {}), IsFiniteSet(Slots), NEW table \in {"last_literal", "last_match"},
           <<table, offset>> \in Slots, <<"optimal", index>> \in Slots,
           NEW off \in Nat, NEW bits \in Nat, index \in Nat,
           NEW chain \in Blocks(P), \E s \in Slots : P.slot[s] = chain
    PROVE  Relaxed(P, Relax(P, table, off, bits, chain), <<table, offset>>, <<"optimal", index>>,
                   Block(bits, index, off, chain))
<1>1. PICK s : s = <<table, offset>>
    OBVIOUS
<1>2. PICK best : best = <<"optimal", index>>
    OBVIOUS
<1>3. s \in Slots /\ best \in Slots /\ s # best
    BY <1>1, <1>2
<1>4. PICK node : node = Block(bits, index, off, chain)
    OBVIOUS
<1>5. PICK new : new = NewId(P)
    OBVIOUS
<1>6. PICK A : A = Allocate(P, bits, index, off, chain)
    OBVIOUS
<1>7. Allocated(P, A, new, node)
    <2>1. Size(P) \in Nat
      BY PoolType DEF Good
    <2>2. chain \in 0 .. Size(P) /\ Block(bits, index, off, chain) \in Node
      BY <2>1 DEF Blocks, Block, Node
    <2> QED BY <1>4, <1>5, <1>6, <2>2, AllocExact
<1>8. PICK B : B = Assign(A, s, new)
    OBVIOUS
<1>9. /\ Good(B, {}) /\ B.nodes = A.nodes /\ Size(B) = Size(A)
      /\ B.slot = [A.slot EXCEPT ![s] = new]
    BY <1>3, <1>7, <1>8, AssignExact DEF Allocated
<1>10. /\ Blocks(B) = Blocks(A) /\ new \in Blocks(B) /\ new # NIL
       /\ A.slot \in [Slots -> Nat] /\ A.slot = P.slot
       /\ \A r \in Slots : B.slot[r] = IF r = s THEN new ELSE P.slot[r]
    <2>1. A.slot \in [Slots -> Nat] /\ A.slot = P.slot /\ new \in Blocks(A)
      BY <1>7, PoolType DEF Allocated, Good
    <2> QED BY <1>9, <2>1 DEF Blocks, NIL
<1>11. PICK Q : Q = Relax(P, table, off, bits, chain)
    OBVIOUS
<1>12. Q = IF Optimal(B, index) = NIL \/ B.nodes[Optimal(B, index)].bits > bits
           THEN Assign(B, best, new) ELSE B
    BY <1>1, <1>2, <1>5, <1>6, <1>8, <1>11 DEF Relax
<1>13. /\ Good(Q, {}) /\ Q.nodes = A.nodes /\ Size(Q) = Size(A)
       /\ \A r \in Slots \ {s, best} : Q.slot[r] = P.slot[r]
       /\ Q.slot[s] = new /\ Q.slot[best] # NIL /\ Q.slot[best] \in {new, P.slot[best]}
    <2>1. CASE Q = Assign(B, best, new)
      <3>1. B.slot[s] = new
        BY <1>3, <1>10
      <3>2. Good(B, {new})
        BY <1>3, <1>9, <1>10, <3>1, HeldOpen
      <3>3. Good(Q, {}) /\ Q.nodes = B.nodes /\ Size(Q) = Size(B) /\ Q.slot = [B.slot EXCEPT ![best] = new]
        BY <1>3, <1>10, <2>1, <3>2, AssignExact
      <3>4. B.slot \in [Slots -> Nat]
        BY <1>9, PoolType DEF Good
      <3>5. \A r \in Slots : Q.slot[r] = IF r = best THEN new ELSE B.slot[r]
        BY <3>3, <3>4
      <3> QED BY <1>3, <1>9, <1>10, <3>3, <3>5
    <2>2. CASE Q = B /\ Optimal(B, index) # NIL
      <3>1. Q.slot[best] # NIL
        BY <1>2, <2>2 DEF Optimal
      <3> QED BY <1>3, <1>9, <1>10, <2>2, <3>1
    <2> QED BY <1>12, <2>1, <2>2
<1>14. Blocks(Q) = Blocks(P) \cup {new} /\ new \in Blocks(Q)
    <2>1. Blocks(A) = Blocks(P) \cup {new}
      BY <1>7 DEF Allocated
    <2> QED BY <1>13, <2>1 DEF Blocks
<1>15. Refers(Q, s, node)
    BY <1>7, <1>13, <1>14 DEF Refers, Allocated
<1>16. ASSUME NEW r \in Slots \ {s, best}, P.slot[r] # NIL
       PROVE  Q.nodes[P.slot[r]] = P.nodes[P.slot[r]]
    <2>1. P.slot[r] # new
      BY <1>7 DEF Allocated
    <2>2. P.slot[r] \in 0 .. Size(P) /\ Size(P) \in Nat
      BY PoolType DEF Good, IsPool
    <2>3. P.slot[r] \in Blocks(P)
      BY <1>16, <2>2 DEF Blocks, NIL
    <2> QED BY <1>7, <1>13, <2>1, <2>3 DEF Allocated
<1>17. ASSUME NEW k \in Blocks(Q)
       PROVE  Q.nodes[k] = node \/ (k \in Blocks(P) /\ Q.nodes[k] = P.nodes[k])
    BY <1>7, <1>13, <1>14 DEF Allocated
<1>18. Renewed(P, Q, new, s, best, node)
    <2>1. /\ Q.nodes[new] = node /\ \A k \in Blocks(P) \ {new} : Q.nodes[k] = P.nodes[k]
      BY <1>7, <1>13 DEF Allocated
    <2>2. \A k \in Blocks(Q) : Q.nodes[k].chain # new
      <3>1. Blocks(Q) = Blocks(A)
        BY <1>13 DEF Blocks
      <3> QED BY <1>7, <1>13, <3>1 DEF Allocated
    <2>3. \A r \in Slots : P.slot[r] # new
      BY <1>7 DEF Allocated
    <2> QED BY <1>10, <1>13, <1>14, <2>1, <2>2, <2>3 DEF Renewed
<1>19. NotDearer(P, Q, best, node)
    <2>1. node.bits = bits /\ Q.nodes = B.nodes /\ B.nodes[new] = node
      BY <1>4, <1>7, <1>9, <1>13 DEF Allocated, Block
    <2>2. ASSUME P.slot[best] # NIL
          PROVE  /\ B.nodes[P.slot[best]] = P.nodes[P.slot[best]]
                 /\ P.nodes[P.slot[best]].bits \in Int
      <3>1. P.slot[best] \in Blocks(P) /\ P.slot[best] # new
        <4>1. P.slot[best] \in 0 .. Size(P) /\ Size(P) \in Nat
          BY <1>3, PoolType DEF Good, IsPool
        <4> QED BY <1>3, <1>7, <2>2, <4>1 DEF Blocks, NIL, Allocated
      <3>2. P.nodes[P.slot[best]] \in Node
        BY <3>1, PoolType DEF Good
      <3> QED BY <1>7, <1>9, <3>1, <3>2 DEF Allocated, Node
    <2>3. Optimal(B, index) = P.slot[best]
      BY <1>2, <1>3, <1>10 DEF Optimal
    <2>4. CASE Optimal(B, index) = NIL \/ B.nodes[Optimal(B, index)].bits > bits
      <3>1. Q = Assign(B, best, new)
        BY <1>12, <2>4
      <3>2. Q.slot[best] = new
        <4>1. Good(B, {new})
          BY <1>3, <1>9, <1>10, HeldOpen
        <4>2. Q.slot = [B.slot EXCEPT ![best] = new]
          BY <1>3, <1>10, <3>1, <4>1, AssignExact
        <4>3. B.slot \in [Slots -> Nat]
          BY <1>9, PoolType DEF Good
        <4> QED BY <1>3, <4>2, <4>3
      <3> QED BY <2>1, <2>2, <2>3, <2>4, <3>2 DEF NotDearer
    <2>5. CASE ~(Optimal(B, index) = NIL \/ B.nodes[Optimal(B, index)].bits > bits)
      <3>1. Q = B /\ Q.slot[best] = P.slot[best]
        BY <1>3, <1>10, <1>12, <2>5
      <3> QED BY <2>1, <2>2, <2>3, <2>5, <3>1 DEF NotDearer
    <2> QED BY <2>4, <2>5
<1>20. Relaxed(P, Q, s, best, node)
    BY <1>13, <1>15, <1>16, <1>17, <1>18, <1>19 DEF Relaxed
<1> QED BY <1>1, <1>2, <1>4, <1>11, <1>20

-----------------------------------------------------------------------------
(* Costs and best lengths: the recursive functions exist, and what they     *)
(* give is in range.                                                       *)

IsLog(f, m) == f = [u \in 1 .. m |-> IF u = 1 THEN 0 ELSE 1 + f[u \div 2]]

\* The recursive function of FloorLog2 exists.
LEMMA LogExists == \A m \in Nat : \E f : IsLog(f, m)
<1> DEFINE Bad == {m \in Nat : ~ \E f : IsLog(f, m)}
<1>1. ASSUME Bad # {} PROVE FALSE
    <2>1. PICK m \in Bad : \A y \in Bad : m <= y
      BY <1>1, LeastNatural
    <2>2. \E f : IsLog(f, m)
      <3>1. CASE m = 0
        <4> DEFINE f == [u \in 1 .. m |-> IF u = 1 THEN 0 ELSE 1 + <<>>[u \div 2]]
        <4>1. 1 .. m = {}
          BY <3>1
        <4>2. f = [u \in 1 .. m |-> IF u = 1 THEN 0 ELSE 1 + f[u \div 2]]
          BY <4>1
        <4> QED BY <4>2 DEF IsLog
      <3>2. CASE m # 0
        <4>1. m \in Nat /\ m - 1 \in Nat /\ ~(m <= m - 1)
          BY <2>1, <3>2
        <4>2. PICK g : IsLog(g, m - 1)
          BY <2>1, <4>1
        <4> DEFINE f == [u \in 1 .. m |-> IF u = 1 THEN 0 ELSE 1 + g[u \div 2]]
        <4>3. \A u \in 1 .. (m - 1) : g[u] = IF u = 1 THEN 0 ELSE 1 + g[u \div 2]
          BY <4>2 DEF IsLog
        <4>4. ASSUME NEW u \in 1 .. m, u # 1 PROVE f[u \div 2] = g[u \div 2]
          <5>1. u \div 2 \in 1 .. (m - 1) /\ u \div 2 \in 1 .. m
            BY <4>1, <4>4
          <5>2. f[u \div 2] = IF u \div 2 = 1 THEN 0 ELSE 1 + g[(u \div 2) \div 2]
            BY <5>1
          <5> QED BY <4>3, <5>1, <5>2
        <4>5. f = [u \in 1 .. m |-> IF u = 1 THEN 0 ELSE 1 + f[u \div 2]]
          <5>1. ASSUME NEW u \in 1 .. m
                PROVE  (IF u = 1 THEN 0 ELSE 1 + g[u \div 2]) = (IF u = 1 THEN 0 ELSE 1 + f[u \div 2])
            <6> HIDE DEF f
            <6> QED BY <4>4
          <5> QED BY <5>1
        <4> QED BY <4>5 DEF IsLog
      <3> QED BY <3>1, <3>2
    <2> QED BY <2>1, <2>2
<1> QED BY <1>1

\* The logarithm is a natural number.
LEMMA LogType == ASSUME NEW v \in Nat \ {0} PROVE FloorLog2(v) \in Nat
<1> DEFINE f == CHOOSE g : IsLog(g, v)
<1>1. IsLog(f, v)
    BY LogExists
<1>2. FloorLog2(v) = f[v]
    BY DEF FloorLog2, IsLog
<1> HIDE DEF f
<1>3. \A u \in 1 .. v : f[u] = IF u = 1 THEN 0 ELSE 1 + f[u \div 2]
    BY <1>1 DEF IsLog
<1> DEFINE Bad == {u \in Nat : u \in 1 .. v /\ f[u] \notin Nat}
<1>4. ASSUME Bad # {} PROVE FALSE
    <2>1. PICK u \in Bad : \A y \in Bad : u <= y
      BY <1>4, LeastNatural
    <2>2. u \in Nat /\ u \in 1 .. v /\ u # 1
      BY <1>3, <2>1
    <2>3. u \div 2 \in 1 .. v /\ u \div 2 \in Nat /\ ~(u <= u \div 2)
      BY <2>2
    <2>4. f[u \div 2] \in Nat
      BY <2>1, <2>3
    <2>5. f[u] = 1 + f[u \div 2]
      BY <1>3, <2>2
    <2> QED BY <2>1, <2>4, <2>5
<1>5. f[v] \in Nat
    BY <1>4
<1> QED BY <1>2, <1>5

\* What a trial is.
LEMMA TrialType ==
    ASSUME trial \in Trials
    PROVE  /\ trial.limit \in Nat /\ trial.limit >= 1 /\ trial.low \in Nat /\ trial.low >= 1
           /\ trial.cap \in Nat \ {0} /\ n \in Nat /\ n >= 1
           /\ trial.variant \in {"zx0", "zx02"} /\ trial.input \in Seq(Nat)
           /\ trial.variant = "zx02" => n >= 2
<1>1. /\ trial.limit \in Nat \ {0} /\ trial.low \in Nat \ {0} /\ trial.cap \in Nat \ {0}
      /\ trial.variant \in {"zx0", "zx02"} /\ trial.input \in Seq(Nat)
      /\ Len(trial.input) >= (IF trial.variant = "zx02" THEN 2 ELSE 1)
    BY TrialsAssumption
<1>2. n \in Nat
    BY <1>1, LenProperties DEF n, input
<1>3. n >= (IF trial.variant = "zx02" THEN 2 ELSE 1)
    BY <1>1 DEF n, input
<1> HIDE DEF n, input
<1>4. n >= 1 /\ (trial.variant = "zx02" => n >= 2)
    <2>1. CASE trial.variant = "zx02"
      <3>1. n >= 2
        BY <1>3, <2>1
      <3> QED BY <1>2, <3>1
    <2>2. CASE trial.variant # "zx02"
      <3>1. n >= 1
        BY <1>3, <2>2
      <3> QED BY <2>2, <3>1
    <2> QED BY <2>1, <2>2
<1>5. trial.limit >= 1 /\ trial.low >= 1
    BY <1>1
<1> QED BY <1>1, <1>2, <1>4, <1>5

\* A code has at least one bit.
LEMMA GammaType ==
    ASSUME trial \in Trials, NEW v \in Nat \ {0}
    PROVE  Gamma(v) \in Nat /\ Gamma(v) >= 1
BY LogType DEF Gamma, BIG

\* The cost of a unit is a natural number, and not 0.
LEMMA CostType ==
    ASSUME trial \in Trials, NEW len \in Nat \ {0}
    PROVE  /\ LiteralBits(len) \in Nat \ {0} /\ RepBits(len) \in Nat \ {0}
           /\ NewLengthBits(len) \in Nat
           /\ \A off \in Nat \ {0} : NewBits(off, len) \in Nat \ {0}
<1>1. Gamma(len) \in Nat
    BY GammaType
<1>2. NewLengthBits(len) \in Nat
    <2>1. Gamma(trial.cap) \in Nat
      BY TrialType, GammaType
    <2>2. len # 1 => Gamma(len - 1) \in Nat
      <3> HAVE len # 1
      <3>1. len - 1 \in Nat \ {0}
        OBVIOUS
      <3> QED BY <3>1, GammaType
    <2> QED BY <2>1, <2>2 DEF NewLengthBits, BIG
<1>3. ASSUME NEW off \in Nat \ {0} PROVE NewBits(off, len) \in Nat \ {0}
    <2> DEFINE d == IF trial.variant = "zx0" THEN off - 1 ELSE off
    <2>1. d \in Nat /\ trial.low \in Nat /\ trial.low >= 1
      BY TrialType
    <2>2. d \div trial.low + 1 \in Nat \ {0}
      <3> HIDE DEF d
      <3> QED BY <2>1
    <2>3. Gamma(d \div trial.low + 1) \in Nat
      BY <2>2, GammaType
    <2>4. OffsetBits(off) = 8 + Gamma(d \div trial.low + 1)
      BY DEF OffsetBits
    <2> HIDE DEF d
    <2> QED BY <1>2, <2>3, <2>4 DEF NewBits
<1> QED BY <1>1, <1>2, <1>3 DEF LiteralBits, RepBits

\* The slots are finitely many.
LEMMA SlotsFinite ==
    ASSUME trial \in Trials
    PROVE  /\ IsFiniteSet(Slots)
           /\ Ceiling(n - 1) \in Nat /\ Ceiling(n - 1) >= 1
<1>1. Ceiling(n - 1) \in Int /\ Ceiling(n - 1) >= 1
    BY TrialType DEF Ceiling, INITIAL_OFFSET
<1>2. n - 1 \in Int
    BY TrialType
<1>3. IsFiniteSet(Offsets) /\ IsFiniteSet(Positions)
    BY <1>1, <1>2, FS_Interval DEF Offsets, Positions
<1>4. IsFiniteSet({"last_literal", "last_match"}) /\ IsFiniteSet({"optimal"})
    <2>1. {"last_literal", "last_match"} = {"last_literal"} \cup {"last_match"}
      OBVIOUS
    <2>2. \A x : IsFiniteSet({x})
      BY FS_Singleton
    <2>3. IsFiniteSet({"last_literal"} \cup {"last_match"})
      BY <2>2, FS_Union
    <2> QED BY <2>1, <2>2, <2>3
<1>5. /\ IsFiniteSet({"last_literal", "last_match"} \X Offsets)
      /\ IsFiniteSet({"optimal"} \X Positions)
    BY <1>3, <1>4, FS_Product
<1>6. IsFiniteSet(Slots)
    BY <1>5, FS_Union DEF Slots
<1> QED BY <1>1, <1>6

\* The cost that decides on a length, and the recursive function of Grown.
At(P, len) == P.nodes[Optimal(P, index - len)].bits + NewLengthBits(len)
IsUpto(f, P, size, m) ==
    f = [k \in size .. m |->
            IF k = size THEN [len |-> best_length[size], bits |-> At(P, best_length[size])]
            ELSE IF At(P, k) <= f[k - 1].bits THEN [len |-> k, bits |-> At(P, k)] ELSE f[k - 1]]

\* It exists.
LEMMA UptoExists ==
    ASSUME NEW P, NEW size \in Nat
    PROVE  \A m \in Nat : m >= size => \E f : IsUpto(f, P, size, m)
<1> DEFINE Bad == {m \in Nat : m >= size /\ ~ \E f : IsUpto(f, P, size, m)}
           first == [len |-> best_length[size], bits |-> At(P, best_length[size])]
           Better(k, last) == IF At(P, k) <= last.bits THEN [len |-> k, bits |-> At(P, k)] ELSE last
<1>1. ASSUME Bad # {} PROVE FALSE
    <2>1. PICK m \in Bad : \A y \in Bad : m <= y
      BY <1>1, LeastNatural
    <2>2. \E f : IsUpto(f, P, size, m)
      <3>1. CASE m = size
        <4> DEFINE f == [k \in size .. m |-> first]
        <4>1. \A k \in size .. m : k = size
          BY <3>1
        <4> HIDE DEF first
        <4>2. f = [k \in size .. m |-> IF k = size THEN first ELSE Better(k, f[k - 1])]
          BY <4>1
        <4> QED BY <4>2 DEF IsUpto, first
      <3>2. CASE m # size
        <4>1. m \in Nat /\ m - 1 \in Nat /\ ~(m <= m - 1) /\ m - 1 >= size
          BY <2>1, <3>2
        <4>2. PICK g : IsUpto(g, P, size, m - 1)
          BY <2>1, <4>1
        <4>3. g = [k \in size .. (m - 1) |-> IF k = size THEN first ELSE Better(k, g[k - 1])]
          BY <4>2 DEF IsUpto
        <4> HIDE DEF first, Better
        <4> DEFINE f == [k \in size .. m |-> IF k = size THEN first ELSE Better(k, g[k - 1])]
        <4>4. ASSUME NEW k \in size .. m, k # size PROVE f[k - 1] = g[k - 1]
          <5>1. k - 1 \in size .. (m - 1) /\ k - 1 \in size .. m
            BY <4>1, <4>4
          <5>2. f[k - 1] = IF k - 1 = size THEN first ELSE Better(k - 1, g[(k - 1) - 1])
            BY <5>1
          <5>3. g[k - 1] = IF k - 1 = size THEN first ELSE Better(k - 1, g[(k - 1) - 1])
            BY <4>3, <5>1
          <5> QED BY <5>2, <5>3
        <4>5. ASSUME NEW k \in size .. m
              PROVE  (IF k = size THEN first ELSE Better(k, g[k - 1])) =
                         (IF k = size THEN first ELSE Better(k, f[k - 1]))
          <5> HIDE DEF f
          <5> QED BY <4>4
        <4>6. f = [k \in size .. m |-> IF k = size THEN first ELSE Better(k, f[k - 1])]
          BY <4>5
        <4> QED BY <4>6 DEF IsUpto, first, Better
      <3> QED BY <3>1, <3>2
    <2> QED BY <2>1, <2>2
<1> QED BY <1>1

\* The lengths from size to m have a best one, no longer than they are.
Sized(f, size, m) == \A k \in Positions : k \in size .. m => f[k] \in 1 .. k

\* The best lengths stay best lengths when they grow.
LEMMA GrownLengths ==
    ASSUME trial \in Trials, NEW P, NEW size \in Nat, NEW ml \in Positions, size < ml,
           \A k \in Positions : best_length[k] \in 0 .. k, NEW low \in Nat, low <= size,
           Sized(best_length, low, size)
    PROVE  /\ \A k \in Positions : Grown(P, size, ml)[k] \in 0 .. k
           /\ Sized(Grown(P, size, ml), low, ml)
<1>1. ml \in Nat /\ ml <= n - 1 /\ n \in Nat /\ ml >= size
    BY TrialType DEF Positions
<1> DEFINE f == CHOOSE g : IsUpto(g, P, size, ml)
<1>2. IsUpto(f, P, size, ml)
    BY <1>1, UptoExists
<1>3. Grown(P, size, ml) =
          [k \in Positions |-> IF k \in (size + 1) .. ml THEN f[k].len ELSE best_length[k]]
    BY DEF Grown, IsUpto, At
<1> HIDE DEF f
<1>4. f[size].len = best_length[size]
    <2>1. size \in size .. ml
      BY <1>1
    <2>2. f[size] = [len |-> best_length[size], bits |-> At(P, best_length[size])]
      BY <1>2, <2>1 DEF IsUpto
    <2> QED BY <2>2
<1>5. ASSUME NEW k \in size .. ml, k # size PROVE f[k].len = k \/ f[k].len = f[k - 1].len
    <2>1. f[k] = IF At(P, k) <= f[k - 1].bits THEN [len |-> k, bits |-> At(P, k)] ELSE f[k - 1]
      BY <1>2, <1>5 DEF IsUpto
    <2> HIDE DEF At
    <2> QED BY <2>1
<1>6. size \in Positions /\ best_length[size] \in 1 .. size
    <2>1. size \in Positions /\ size \in low .. size
      BY <1>1 DEF Positions
    <2> QED BY <2>1 DEF Sized
<1> DEFINE Bad == {k \in Nat : k \in size .. ml /\ f[k].len \notin 1 .. k}
<1>7. ASSUME Bad # {} PROVE FALSE
    <2>1. PICK k \in Bad : \A y \in Bad : k <= y
      BY <1>7, LeastNatural
    <2>2. k \in Nat /\ k \in size .. ml /\ f[k].len \notin 1 .. k
      BY <2>1
    <2>3. k # size
      BY <1>4, <1>6, <2>2
    <2>4. k - 1 \in size .. ml /\ k - 1 \in Nat /\ ~(k <= k - 1) /\ k \in 1 .. k
      BY <1>1, <2>2, <2>3
    <2>5. f[k - 1].len \in 1 .. (k - 1)
      BY <2>1, <2>4
    <2>6. f[k - 1].len \in 1 .. k
      BY <2>2, <2>5
    <2> QED BY <1>5, <2>2, <2>3, <2>4, <2>6
<1>8. \A k \in size .. ml : f[k].len \in 1 .. k
    <2>1. \A k \in size .. ml : k \in Nat
      BY <1>1
    <2> QED BY <1>7, <2>1
<1>9. ASSUME NEW k \in Positions
      PROVE  /\ Grown(P, size, ml)[k] \in 0 .. k
             /\ k \in low .. ml => Grown(P, size, ml)[k] \in 1 .. k
    <2>1. Grown(P, size, ml)[k] = IF k \in (size + 1) .. ml THEN f[k].len ELSE best_length[k]
      BY <1>3
    <2>2. CASE k \in (size + 1) .. ml
      <3>1. k \in size .. ml
        BY <1>1, <2>2
      <3>2. f[k].len \in 1 .. k
        BY <1>8, <3>1
      <3>3. f[k].len \in 0 .. k
        BY <3>2
      <3> QED BY <2>1, <2>2, <3>2, <3>3
    <2>3. CASE k \notin (size + 1) .. ml
      <3>1. k \in low .. ml => k \in low .. size
        BY <1>1, <2>3 DEF Positions
      <3> QED BY <2>1, <2>3, <3>1 DEF Sized
    <2> QED BY <2>2, <2>3
<1> QED BY <1>9 DEF Sized

-----------------------------------------------------------------------------
(* The invariant.                                                          *)

\* A table's block, if any, ends before i.
Earlier(P, id, i) == id # NIL => P.nodes[id].index < i

\* The pool when the loop comes to the offset o of the position i: the counts are
\* right, no block ends beyond i, what the tables hold for the offsets still to
\* come ends before i, and there is a block at every position, and at i once the
\* first offset is done.
Fit(P, i, o) ==
    /\ Good(P, {})
    /\ \A k \in Blocks(P) : P.nodes[k].index <= i /\ P.nodes[k].offset <= trial.limit
    /\ \A t \in Offsets : t >= o => /\ Earlier(P, LastLiteral(P, t), i)
                                    /\ Earlier(P, LastMatch(P, t), i)
    /\ LastMatch(P, 1) # NIL
    /\ (i > 0 \/ o > 1) => LastLiteral(P, 1) # NIL
    /\ \A j \in Positions : (j < i \/ (j = i /\ o > 1)) => Optimal(P, j) # NIL

\* The invariant: the loops, the runs of matches, which are shorter than the
\* position they end at, the best lengths and the pool.
Inv ==
    /\ trial \in Trials /\ index \in 0 .. n /\ offset \in 1 .. Ceiling(index)
    /\ match_length \in [Offsets -> Nat]
    /\ \A o \in Offsets : /\ match_length[o] <= index
                          /\ index > 0 /\ o >= offset => match_length[o] <= index - 1
    /\ \A k \in Positions : best_length[k] \in 0 .. k
    /\ best_size \in Shortest .. n + 1
    /\ Sized(best_length, Shortest, best_size)
    /\ Fit(pool, index, offset)

\* Where the loops are while a position is worked on.
Within == trial \in Trials /\ index \in Positions /\ offset \in 1 .. Ceiling(index)

\* The slots of the loops' place.
LEMMA Places ==
    ASSUME Within
    PROVE  /\ index \in Nat /\ offset \in Nat /\ offset >= 1 /\ offset \in Offsets /\ offset <= trial.limit
           /\ n \in Nat /\ index <= n - 1 /\ 1 \in Offsets
           /\ \A o \in Offsets : o \in Nat
           /\ \A j \in Positions : j \in Nat /\ <<"optimal", j>> \in Slots
           /\ \A o \in Offsets : <<"last_literal", o>> \in Slots /\ <<"last_match", o>> \in Slots
<1>1. n \in Nat /\ trial.limit \in Nat /\ trial.limit >= 1
    BY TrialType DEF Within
<1>2. index \in Nat /\ index <= n - 1
    BY <1>1 DEF Within, Positions
<1>3. Ceiling(index) \in Nat /\ Ceiling(index) <= Ceiling(n - 1) /\ Ceiling(index) <= trial.limit
      /\ Ceiling(n - 1) \in Nat
    BY <1>1, <1>2 DEF Ceiling, INITIAL_OFFSET
<1>4. offset \in Nat /\ offset >= 1 /\ offset \in Offsets /\ offset <= trial.limit /\ 1 \in Offsets
      /\ \A o \in Offsets : o \in Nat
    BY <1>1, <1>3 DEF Within, Offsets
<1>5. \A j \in Positions : j \in Nat
    BY <1>1 DEF Positions
<1>6. /\ \A j \in Positions : <<"optimal", j>> \in Slots
      /\ \A o \in Offsets : <<"last_literal", o>> \in Slots /\ <<"last_match", o>> \in Slots
    BY DEF Slots
<1> QED BY <1>1, <1>2, <1>4, <1>5, <1>6

\* A new block for the offset leaves the pool as the next offset needs it.
LEMMA RelaxFits ==
    ASSUME Within, NEW P, NEW late \in {offset, offset + 1}, Fit(P, index, late),
           NEW table \in {"last_literal", "last_match"}, table = "last_match" => index > 0,
           NEW off \in {0, offset}, NEW bits \in Nat,
           NEW r \in Slots, P.slot[r] # NIL,
           NEW Q, Q = Relax(P, table, off, bits, P.slot[r])
    PROVE  Fit(Q, index, offset + 1)
<1>1. /\ index \in Nat /\ offset \in Nat /\ offset \in Offsets /\ offset <= trial.limit
      /\ 1 \in Offsets /\ index \in Positions /\ offset >= 1
      /\ \A o \in Offsets : o \in Nat
      /\ \A j \in Positions : j \in Nat /\ <<"optimal", j>> \in Slots
      /\ \A o \in Offsets : <<"last_literal", o>> \in Slots /\ <<"last_match", o>> \in Slots
    <2>1. index \in Positions
      BY DEF Within
    <2> QED BY <2>1, Places DEF Offsets
<1>2. PICK s : s = <<table, offset>>
    OBVIOUS
<1>3. PICK best : best = <<"optimal", index>>
    OBVIOUS
<1>4. PICK node : node = Block(bits, index, off, P.slot[r])
    OBVIOUS
<1>5. Good(P, {}) /\ IsFiniteSet(Slots) /\ P.slot[r] \in Blocks(P)
    <2>1. Good(P, {}) /\ trial \in Trials
      BY DEF Fit, Within
    <2>2. P.slot[r] \in 0 .. Size(P) /\ Size(P) \in Nat
      BY <2>1, PoolType DEF Good, IsPool
    <2> QED BY <2>1, <2>2, SlotsFinite DEF Blocks, NIL
<1>6. Relaxed(P, Q, s, best, node)
    <2>1. s \in Slots /\ best \in Slots /\ off \in Nat
      <3>1. s = <<"last_match", offset>> \/ s = <<"last_literal", offset>>
        BY <1>2
      <3>2. s \in Slots /\ best \in Slots
        BY <1>1, <1>3, <3>1
      <3>3. off \in Nat
        BY <1>1
      <3> QED BY <3>2, <3>3
    <2> QED BY <1>1, <1>2, <1>3, <1>4, <1>5, <2>1, RelaxExact
<1>7. Good(Q, {})
    BY <1>6 DEF Relaxed
<1>8. ASSUME NEW k \in Blocks(Q)
      PROVE  Q.nodes[k].index <= index /\ Q.nodes[k].offset <= trial.limit
    <2>1. node.index = index /\ node.offset = off
      BY <1>4 DEF Block
    <2>2. off <= trial.limit
      BY <1>1, TrialType DEF Within
    <2>3. Q.nodes[k] = node \/ (k \in Blocks(P) /\ Q.nodes[k] = P.nodes[k])
      BY <1>6 DEF Relaxed
    <2> QED BY <1>1, <2>1, <2>2, <2>3 DEF Fit
<1>9. ASSUME NEW q \in Slots \ {s, best}
      PROVE  Q.slot[q] = P.slot[q] /\ (P.slot[q] # NIL => Q.nodes[P.slot[q]] = P.nodes[P.slot[q]])
    BY <1>6 DEF Relaxed
<1>10. Q.slot[s] # NIL /\ Q.slot[best] # NIL
    BY <1>6 DEF Relaxed, Refers, Blocks, NIL
<1>11. ASSUME NEW t \in Offsets, t >= offset + 1
       PROVE  Earlier(Q, LastLiteral(Q, t), index) /\ Earlier(Q, LastMatch(Q, t), index)
    <2>1. t # offset /\ t >= late
      BY <1>1, <1>11
    <2>2. /\ <<"last_literal", t>> \in Slots \ {s, best} /\ <<"last_match", t>> \in Slots \ {s, best}
      BY <1>1, <1>2, <1>3, <2>1
    <2>3. Earlier(P, LastLiteral(P, t), index) /\ Earlier(P, LastMatch(P, t), index)
      BY <2>1 DEF Fit
    <2> QED BY <1>9, <2>2, <2>3 DEF Earlier, LastLiteral, LastMatch
<1>12. LastMatch(Q, 1) # NIL
    <2>1. LastMatch(P, 1) # NIL
      BY DEF Fit
    <2>2. CASE <<"last_match", 1>> = s
      BY <1>10, <2>2 DEF LastMatch
    <2>3. CASE <<"last_match", 1>> # s
      <3>1. <<"last_match", 1>> \in Slots \ {s, best}
        BY <1>1, <1>3, <2>3
      <3> QED BY <1>9, <2>1, <3>1 DEF LastMatch
    <2> QED BY <2>2, <2>3
<1>13. LastLiteral(Q, 1) # NIL
    <2>2. CASE <<"last_literal", 1>> = s
      BY <1>10, <2>2 DEF LastLiteral
    <2>3. CASE <<"last_literal", 1>> # s
      <3>1. <<"last_literal", 1>> \in Slots \ {s, best}
        BY <1>1, <1>3, <2>3
      <3>2. index > 0 \/ late > 1
        <4>1. CASE table = "last_match"
          BY <4>1
        <4>2. CASE table = "last_literal"
          <5>1. offset # 1
            BY <1>2, <2>3, <4>2
          <5> QED BY <1>1, <5>1
        <4> QED BY <4>1, <4>2
      <3>3. LastLiteral(P, 1) # NIL
        BY <3>2 DEF Fit
      <3> QED BY <1>9, <3>1, <3>3 DEF LastLiteral
    <2> QED BY <2>2, <2>3
<1>14. ASSUME NEW j \in Positions, j < index \/ j = index PROVE Optimal(Q, j) # NIL
    <2>1. CASE j = index
      BY <1>3, <1>10, <2>1 DEF Optimal
    <2>2. CASE j # index
      <3>1. <<"optimal", j>> \in Slots \ {s, best}
        BY <1>1, <1>2, <1>3, <2>2
      <3>2. j < index
        BY <1>14, <2>2
      <3>3. Optimal(P, j) # NIL
        BY <3>2 DEF Fit
      <3> QED BY <1>9, <3>1, <3>3 DEF Optimal
    <2> QED BY <2>1, <2>2
<1> QED BY <1>7, <1>8, <1>11, <1>12, <1>13, <1>14 DEF Fit

\* A pool that is as the offset needs it, behind the first one, is as the next one needs it.
LEMMA LaterFits ==
    ASSUME Within, NEW P, Fit(P, index, offset), offset # 1
    PROVE  Fit(P, index, offset + 1)
<1>1. index \in Nat /\ offset \in Nat /\ offset > 1 /\ (\A t \in Offsets : t \in Nat)
      /\ \A j \in Positions : j \in Nat
    <2>1. index \in Nat /\ offset \in Nat /\ offset >= 1
      BY Places
    <2>2. (\A t \in Offsets : t \in Nat) /\ (\A j \in Positions : j \in Nat)
      BY Places
    <2> QED BY <2>1, <2>2
<1>2. \A t \in Offsets : t >= offset + 1 => t >= offset
    BY <1>1
<1> QED BY <1>1, <1>2 DEF Fit

\* The block of a slot: its bits and its end.
LEMMA BlockOf ==
    ASSUME NEW P, Good(P, {}), NEW r \in Slots, P.slot[r] # NIL
    PROVE  P.nodes[P.slot[r]].bits \in Nat \cup {-1} /\ P.nodes[P.slot[r]].index \in Nat \cup {-1}
           /\ P.slot[r] \in Blocks(P)
<1>1. IsPool(P)
    BY DEF Good
<1>2. P.slot[r] \in 0 .. Size(P) /\ Size(P) \in Nat
    BY <1>1, PoolType DEF IsPool
<1>3. P.slot[r] \in Blocks(P)
    BY <1>2 DEF Blocks, NIL
<1>4. P.nodes[P.slot[r]] \in Node
    BY <1>1, <1>3, PoolType
<1> QED BY <1>3, <1>4 DEF Node

\* A match at the last offset.
LEMMA LastOffsetFits ==
    ASSUME Within, Fit(pool, index, offset), index > 0
    PROVE  Fit(LastOffset(pool), index, offset + 1)
<1>1. /\ index \in Nat /\ offset \in Nat /\ offset \in Offsets
      /\ <<"last_literal", offset>> \in Slots
    BY Places
<1>2. PICK ll : ll = LastLiteral(pool, offset)
    OBVIOUS
<1>3. CASE ll = NIL
    <2>1. offset # 1
      BY <1>2, <1>3 DEF Fit
    <2>2. LastOffset(pool) = pool
      BY <1>2, <1>3 DEF LastOffset
    <2> QED BY <2>1, <2>2, LaterFits
<1>4. CASE ll # NIL
    <2> DEFINE len == index - pool.nodes[ll].index
               bits == pool.nodes[ll].bits + RepBits(len)
    <2>1. LastOffset(pool) = Relax(pool, "last_match", offset, bits, ll)
      BY <1>2, <1>4 DEF LastOffset
    <2>2. ll = pool.slot[<<"last_literal", offset>>]
      BY <1>2 DEF LastLiteral
    <2>3. Good(pool, {}) /\ Earlier(pool, ll, index)
      BY <1>1, <1>2 DEF Fit
    <2>4. pool.nodes[ll].bits \in Nat \cup {-1} /\ pool.nodes[ll].index \in Nat \cup {-1}
      BY <1>1, <1>4, <2>2, <2>3, BlockOf
    <2>5. len \in Nat \ {0}
      BY <1>1, <1>4, <2>3, <2>4 DEF Earlier
    <2>6. RepBits(len) \in Nat \ {0}
      <3> HIDE DEF len
      <3> QED BY <2>5, CostType DEF Within
    <2>7. bits \in Nat
      <3> HIDE DEF len
      <3> QED BY <2>4, <2>6
    <2> HIDE DEF bits, len
    <2> QED BY <1>1, <1>4, <2>1, <2>2, <2>7, RelaxFits
<1> QED BY <1>3, <1>4

\* A match at a new offset.
LEMMA NewOffsetFits ==
    ASSUME Within, NEW P, Fit(P, index, offset + 1), NEW len \in 1 .. index
    PROVE  Fit(NewOffset(P, len), index, offset + 1)
<1>1. /\ index \in Nat /\ offset \in Nat \ {0} /\ offset \in Offsets
      /\ index - len \in Positions /\ index - len < index /\ len \in Nat \ {0} /\ index > 0
      /\ <<"optimal", index - len>> \in Slots
    <2>1. index \in Nat /\ offset \in Nat /\ offset \in Offsets /\ n \in Nat /\ index <= n - 1
      BY Places
    <2>2. index - len \in Positions /\ index - len < index /\ len \in Nat \ {0} /\ index > 0
      BY <2>1 DEF Positions
    <2>3. offset # 0
      BY DEF Within
    <2> QED BY <2>1, <2>2, <2>3, Places
<1> DEFINE r == <<"optimal", index - len>>
           bits == P.nodes[P.slot[r]].bits + NewBits(offset, len)
<1>2. \/ NewOffset(P, len) = P
      \/ NewOffset(P, len) = Relax(P, "last_match", offset, bits, P.slot[r])
    BY DEF NewOffset, Optimal
<1>3. P.slot[r] # NIL /\ Good(P, {})
    BY <1>1 DEF Fit, Optimal
<1>4. bits \in Nat
    <2>1. P.nodes[P.slot[r]].bits \in Nat \cup {-1}
      BY <1>1, <1>3, BlockOf
    <2>2. NewBits(offset, len) \in Nat \ {0}
      BY <1>1, CostType DEF Within
    <2> QED BY <2>1, <2>2
<1>5. ASSUME NewOffset(P, len) = Relax(P, "last_match", offset, bits, P.slot[r])
      PROVE  Fit(NewOffset(P, len), index, offset + 1)
    <2>1. r \in Slots
      BY <1>1
    <2> HIDE DEF r, bits
    <2> QED BY <1>1, <1>3, <1>4, <1>5, <2>1, RelaxFits
<1> QED BY <1>2, <1>5

\* Literals.
LiteralsPool ==
    LET lm == LastMatch(pool, offset) IN
    IF lm = NIL THEN pool
    ELSE Relax(pool, "last_literal", 0,
               pool.nodes[lm].bits + LiteralBits(index - pool.nodes[lm].index), lm)

LEMMA LiteralsFits ==
    ASSUME Within, Fit(pool, index, offset), NEW Q,
           Q = LiteralsPool
    PROVE  Fit(Q, index, offset + 1)
<1>1. /\ index \in Nat /\ offset \in Nat /\ offset \in Offsets
      /\ <<"last_match", offset>> \in Slots
    BY Places
<1>2. PICK lm : lm = LastMatch(pool, offset)
    OBVIOUS
<1>3. CASE lm = NIL
    <2>1. offset # 1
      BY <1>2, <1>3 DEF Fit
    <2>2. Q = pool
      BY <1>2, <1>3 DEF LiteralsPool
    <2> QED BY <2>1, <2>2, LaterFits
<1>4. CASE lm # NIL
    <2> DEFINE len == index - pool.nodes[lm].index
               bits == pool.nodes[lm].bits + LiteralBits(len)
    <2>1. Q = Relax(pool, "last_literal", 0, bits, lm)
      BY <1>2, <1>4 DEF LiteralsPool
    <2>2. lm = pool.slot[<<"last_match", offset>>]
      BY <1>2 DEF LastMatch
    <2>3. Good(pool, {}) /\ Earlier(pool, lm, index)
      BY <1>1, <1>2 DEF Fit
    <2>4. pool.nodes[lm].bits \in Nat \cup {-1} /\ pool.nodes[lm].index \in Nat \cup {-1}
      BY <1>1, <1>4, <2>2, <2>3, BlockOf
    <2>5. len \in Nat \ {0}
      BY <1>1, <1>4, <2>3, <2>4 DEF Earlier
    <2>6. LiteralBits(len) \in Nat \ {0}
      <3> HIDE DEF len
      <3> QED BY <2>5, CostType DEF Within
    <2>7. bits \in Nat
      <3> HIDE DEF len
      <3> QED BY <2>4, <2>6
    <2> HIDE DEF bits, len
    <2> QED BY <1>1, <1>4, <2>1, <2>2, <2>7, RelaxFits
<1> QED BY <1>3, <1>4

-----------------------------------------------------------------------------
(* Every step keeps the invariant.                                         *)

\* The trial stays, and what depends on nothing else.
LEMMA TrialKept ==
    ASSUME trial' = trial
    PROVE  /\ n' = n /\ Offsets' = Offsets /\ Positions' = Positions /\ Slots' = Slots
           /\ Shortest' = Shortest
           /\ \A i : Ceiling(i)' = Ceiling(i)
           /\ \A P, i, o : (Fit(P, i, o)' <=> Fit(P, i, o))
<1>1. n' = n /\ Shortest' = Shortest
    BY DEF n, input, Shortest
<1>2. \A i : Ceiling(i)' = Ceiling(i)
    BY DEF Ceiling, INITIAL_OFFSET
<1>3. Offsets' = Offsets /\ Positions' = Positions
    BY <1>1, <1>2 DEF Offsets, Positions
<1>4. Slots' = Slots
    BY <1>3 DEF Slots
<1>5. \A P : (IsPool(P)' <=> IsPool(P))
    BY <1>4 DEF IsPool, Pools
<1>6. \A P : (Counted(P)' <=> Counted(P))
    <2>1. \A P, id : SlotsOf(P, id)' = SlotsOf(P, id)
      BY <1>4 DEF SlotsOf
    <2> QED BY <2>1 DEF Counted
<1>7. \A P, X : (Good(P, X)' <=> Good(P, X))
    BY <1>5, <1>6 DEF Good
<1>8. \A P, i, o : (Fit(P, i, o)' <=> Fit(P, i, o))
    BY <1>3, <1>7 DEF Fit
<1> QED BY <1>1, <1>2, <1>3, <1>4, <1>8

\* The pool as the next offset needs it is, behind the last offset, the pool as
\* the next position needs it.
LEMMA NextPosition ==
    ASSUME Within, NEW P, Fit(P, index, offset + 1)
    PROVE  Fit(P, index + 1, 1)
<1>1. /\ index \in Nat /\ offset \in Nat /\ offset >= 1 /\ Good(P, {})
      /\ \A j \in Positions : j \in Nat
    <2>1. /\ index \in Nat /\ offset \in Nat /\ offset >= 1
      BY Places
    <2>2. \A j \in Positions : j \in Nat
      BY Places
    <2> QED BY <2>1, <2>2 DEF Fit
<1>2. \A k \in Blocks(P) : P.nodes[k].index \in Nat \cup {-1}
    BY <1>1, PoolType DEF Good, Node
<1>3. \A k \in Blocks(P) : P.nodes[k].index <= index /\ P.nodes[k].index < index + 1
                           /\ P.nodes[k].index <= index + 1 /\ P.nodes[k].offset <= trial.limit
    <2>1. \A k \in Blocks(P) : P.nodes[k].index <= index /\ P.nodes[k].offset <= trial.limit
      BY DEF Fit
    <2> QED BY <1>1, <1>2, <2>1
<1>4. \A r \in Slots : Earlier(P, P.slot[r], index + 1)
    <2>1. ASSUME NEW r \in Slots, P.slot[r] # NIL PROVE P.slot[r] \in Blocks(P)
      BY <1>1, <2>1, BlockOf
    <2> QED BY <1>3, <2>1 DEF Earlier
<1>5. \A t \in Offsets : Earlier(P, LastLiteral(P, t), index + 1) /\ Earlier(P, LastMatch(P, t), index + 1)
    <2>1. ASSUME NEW t \in Offsets
          PROVE  Earlier(P, LastLiteral(P, t), index + 1) /\ Earlier(P, LastMatch(P, t), index + 1)
      <3>1. <<"last_literal", t>> \in Slots /\ <<"last_match", t>> \in Slots
        BY DEF Slots
      <3> QED BY <1>4, <3>1 DEF LastLiteral, LastMatch
    <2> QED BY <2>1
<1>6. LastMatch(P, 1) # NIL /\ LastLiteral(P, 1) # NIL
    <2>1. offset + 1 > 1
      BY <1>1
    <2> QED BY <2>1 DEF Fit
<1>7. ASSUME NEW j \in Positions, j < index + 1 \/ (j = index + 1 /\ 1 > 1)
      PROVE  Optimal(P, j) # NIL
    <2>1. (j < index \/ j = index) /\ offset + 1 > 1
      BY <1>1, <1>7
    <2> QED BY <2>1 DEF Fit
<1> QED BY <1>1, <1>3, <1>5, <1>6, <1>7 DEF Fit

\* The end of every step through the loop: its parts in order, the loops go on.
LEMMA AdvanceKeeps ==
    ASSUME Inv, index < n, NEW size, size \in Shortest .. n + 1, Advance(size),
           Fit(pool', index, offset + 1),
           match_length' \in [Offsets -> Nat],
           \A o \in Offsets : match_length'[o] <= index
                              /\ (o > offset /\ index > 0 => match_length'[o] <= index - 1),
           \A k \in Positions : best_length'[k] \in 0 .. k,
           Sized(best_length', Shortest, size)
    PROVE  Inv'
<1>1. /\ trial' = trial /\ trial \in Trials /\ index \in Nat /\ n \in Nat /\ index \in Positions
      /\ offset \in 1 .. Ceiling(index) /\ offset \in Nat /\ Ceiling(index) \in Nat
    <2>1. /\ trial' = trial /\ trial \in Trials /\ index \in 0 .. n /\ offset \in 1 .. Ceiling(index)
      BY DEF Inv, Advance
    <2>2. n \in Nat /\ trial.limit \in Nat
      BY <2>1, TrialType
    <2>3. index \in Nat /\ index \in Positions
      BY <2>1, <2>2 DEF Positions
    <2>4. Ceiling(index) \in Nat
      BY <2>2, <2>3 DEF Ceiling, INITIAL_OFFSET
    <2> QED BY <2>1, <2>2, <2>3, <2>4
<1>2. /\ n' = n /\ Offsets' = Offsets /\ Positions' = Positions /\ Shortest' = Shortest
      /\ \A i : Ceiling(i)' = Ceiling(i)
      /\ \A P, i, o : (Fit(P, i, o)' <=> Fit(P, i, o))
    BY <1>1, TrialKept
<1>3. Within
    BY <1>1 DEF Within
<1>4. Shortest \in Nat /\ Shortest <= n + 1 /\ size \in Nat /\ size >= Shortest
    <2>1. Shortest \in {1, 2}
      BY DEF Shortest
    <2>2. n >= 1
      BY <1>1, TrialType
    <2> QED BY <1>1, <2>1, <2>2
<1>5. \A o \in Offsets : match_length'[o] \in Nat /\ o \in Nat
    <2>1. \A o \in Offsets : o \in Nat
      BY <1>3, Places
    <2> QED BY <2>1
<1>6. Sized(best_length', Shortest, Shortest)
    <2>1. \A k \in Positions : k \in Shortest .. Shortest => k \in Shortest .. size
      BY <1>4
    <2> QED BY <2>1 DEF Sized
<1>7. CASE offset < Ceiling(index)
    <2>1. offset' = offset + 1 /\ index' = index /\ best_size' = size
      BY <1>7 DEF Advance
    <2>2. Fit(pool, index, offset)'
      BY <1>2, <2>1
    <2>3. offset' \in 1 .. Ceiling(index)'
      BY <1>1, <1>2, <1>7, <2>1
    <2>4. ASSUME NEW o \in Offsets
          PROVE  /\ match_length'[o] <= index'
                 /\ index' > 0 /\ o >= offset' => match_length'[o] <= index' - 1
      <3>1. o >= offset + 1 => o > offset
        BY <1>1, <1>5
      <3> QED BY <2>1, <3>1
    <2>5. Sized(best_length, Shortest, best_size)'
      BY <1>2, <2>1 DEF Sized
    <2>6. best_size' \in Shortest' .. n' + 1 /\ index' \in 0 .. n'
      BY <1>1, <1>2, <2>1 DEF Positions
    <2> QED BY <1>1, <1>2, <2>2, <2>3, <2>4, <2>5, <2>6 DEF Inv
<1>8. CASE ~(offset < Ceiling(index))
    <2>1. offset' = 1 /\ index' = index + 1 /\ best_size' = Shortest
      BY <1>8 DEF Advance
    <2>2. Fit(pool', index + 1, 1)
      <3>1. PICK P : P = pool'
        OBVIOUS
      <3>2. Fit(P, index + 1, 1)
        BY <1>3, <3>1, NextPosition
      <3> QED BY <3>1, <3>2
    <2>3. Fit(pool, index, offset)'
      BY <1>2, <2>1, <2>2
    <2>4. index' \in 0 .. n'
      BY <1>1, <1>2, <2>1
    <2>5. offset' \in 1 .. Ceiling(index)'
      <3>1. Ceiling(index + 1) \in Nat /\ Ceiling(index + 1) >= 1
        BY <1>1, TrialType DEF Ceiling, INITIAL_OFFSET
      <3>2. Ceiling(index)' = Ceiling(index + 1)
        BY <1>2, <2>1
      <3> QED BY <2>1, <3>1, <3>2
    <2>6. ASSUME NEW o \in Offsets
          PROVE  /\ match_length'[o] <= index'
                 /\ index' > 0 /\ o >= offset' => match_length'[o] <= index' - 1
      <3>1. match_length'[o] \in Nat /\ match_length'[o] <= index
        BY <1>5
      <3>2. match_length'[o] <= index + 1 /\ match_length'[o] <= (index + 1) - 1
        BY <1>1, <3>1
      <3> QED BY <2>1, <3>2
    <2>7. Sized(best_length, Shortest, best_size)'
      BY <1>2, <1>6, <2>1 DEF Sized
    <2>8. best_size' \in Shortest' .. n' + 1
      BY <1>1, <1>2, <1>4, <2>1
    <2> QED BY <1>1, <1>2, <2>3, <2>4, <2>5, <2>6, <2>7, <2>8 DEF Inv
<1> QED BY <1>7, <1>8

\* A match keeps the invariant.
LEMMA MatchKeeps ==
    ASSUME Inv, Match
    PROVE  Inv'
<1> DEFINE P == LastOffset(pool)
           ml == match_length[offset] + 1
           grows == ml >= Shortest /\ best_size < ml
           best == IF grows THEN Grown(P, best_size, ml) ELSE best_length
           size == IF grows THEN ml ELSE best_size
<1>1. /\ index < n /\ Matches /\ match_length' = [match_length EXCEPT ![offset] = ml]
      /\ best_length' = best
      /\ pool' = IF ml >= Shortest THEN NewOffset(P, best[ml]) ELSE P
      /\ Advance(size)
    BY DEF Match
<1>2. /\ trial \in Trials /\ index \in Nat /\ n \in Nat /\ index \in Positions /\ index > 0
      /\ index < n /\ Within
    <2>1. trial \in Trials /\ index \in 0 .. n /\ offset \in 1 .. Ceiling(index) /\ index # 0
      BY <1>1 DEF Inv, Matches
    <2>2. n \in Nat
      BY <2>1, TrialType
    <2>3. index \in Nat /\ index \in Positions /\ index > 0
      BY <1>1, <2>1, <2>2 DEF Positions
    <2> QED BY <1>1, <2>1, <2>2, <2>3 DEF Within
<1>3. offset \in Offsets /\ offset \in Nat /\ \A o \in Offsets : o \in Nat
    <2>1. offset \in Offsets /\ offset \in Nat
      BY <1>2, Places
    <2>2. \A o \in Offsets : o \in Nat
      BY <1>2, Places
    <2> QED BY <2>1, <2>2
<1>4. /\ match_length \in [Offsets -> Nat]
      /\ \A o \in Offsets : match_length[o] <= index /\ match_length[o] \in Nat
                            /\ (o >= offset => match_length[o] <= index - 1)
    BY <1>2 DEF Inv
<1>5. ml \in Nat /\ ml >= 1 /\ ml <= index
    <2>1. match_length[offset] \in Nat /\ match_length[offset] <= index - 1
      BY <1>3, <1>4
    <2> QED BY <1>2, <2>1
<1>6. Fit(pool, index, offset)
    BY DEF Inv
<1>7. Fit(P, index, offset + 1)
    BY <1>2, <1>6, LastOffsetFits
<1>8. Shortest \in {1, 2} /\ best_size \in Nat /\ best_size >= Shortest /\ best_size <= n + 1
    <2>1. Shortest \in {1, 2} /\ best_size \in Shortest .. n + 1
      BY DEF Inv, Shortest
    <2> QED BY <1>2, <2>1
<1>9. /\ \A k \in Positions : best_length[k] \in 0 .. k
      /\ Sized(best_length, Shortest, best_size)
    BY DEF Inv
<1>10. ml \in Positions
    <2> HIDE DEF ml
    <2> QED BY <1>2, <1>5 DEF Positions
<1> HIDE DEF ml, P
<1>11. /\ \A k \in Positions : best[k] \in 0 .. k
       /\ Sized(best, Shortest, size)
    <2>1. CASE grows
      <3>1. best = Grown(P, best_size, ml) /\ size = ml
        BY <2>1
      <3>2. best_size < ml /\ Shortest \in Nat /\ Shortest <= best_size
        BY <1>8, <2>1
      <3> HIDE DEF best, size, grows
      <3>3. /\ \A k \in Positions : Grown(P, best_size, ml)[k] \in 0 .. k
            /\ Sized(Grown(P, best_size, ml), Shortest, ml)
        BY <1>2, <1>8, <1>9, <1>10, <3>2, GrownLengths
      <3> QED BY <3>1, <3>3
    <2>2. CASE ~grows
      <3>1. best = best_length /\ size = best_size
        BY <2>2
      <3> QED BY <1>9, <3>1
    <2> QED BY <2>1, <2>2
<1>12. size \in Shortest .. n + 1 /\ (ml >= Shortest => ml \in Shortest .. size)
    BY <1>2, <1>5, <1>8
<1> HIDE DEF best, size, grows
<1>13. Fit(pool', index, offset + 1)
    <2>1. CASE ml >= Shortest
      <3>1. best[ml] \in 1 .. ml
        BY <1>10, <1>11, <1>12, <2>1 DEF Sized
      <3>2. best[ml] \in 1 .. index
        BY <1>2, <1>5, <3>1
      <3>3. pool' = NewOffset(P, best[ml])
        BY <1>1, <2>1
      <3>4. Fit(NewOffset(P, best[ml]), index, offset + 1)
        BY <1>2, <1>7, <3>2, NewOffsetFits
      <3> QED BY <3>3, <3>4
    <2>2. CASE ~(ml >= Shortest)
      BY <1>1, <1>7, <2>2
    <2> QED BY <2>1, <2>2
<1>14. match_length' \in [Offsets -> Nat]
    BY <1>1, <1>4, <1>5
<1>15. ASSUME NEW o \in Offsets
       PROVE  match_length'[o] <= index
              /\ (o > offset /\ index > 0 => match_length'[o] <= index - 1)
    <2>1. CASE o = offset
      <3>1. match_length'[o] = ml /\ ~(o > offset)
        BY <1>1, <1>3, <1>4, <2>1
      <3> QED BY <1>5, <3>1
    <2>2. CASE o # offset
      <3>1. match_length'[o] = match_length[o]
        BY <1>1, <1>4, <2>2
      <3>2. o > offset => o >= offset
        BY <1>3
      <3> QED BY <1>4, <3>1, <3>2
    <2> QED BY <2>1, <2>2
<1> QED BY <1>1, <1>2, <1>11, <1>12, <1>13, <1>14, <1>15, AdvanceKeeps

\* Literals keep the invariant.
LEMMA LiteralsKeep ==
    ASSUME Inv, Literals
    PROVE  Inv'
<1>1. /\ index < n /\ match_length' = [match_length EXCEPT ![offset] = 0]
      /\ best_length' = best_length /\ Advance(best_size)
    BY DEF Literals
<1>2. /\ trial \in Trials /\ index \in Nat /\ Within
    <2>1. trial \in Trials /\ index \in 0 .. n /\ offset \in 1 .. Ceiling(index)
      BY DEF Inv
    <2>2. n \in Nat
      BY <2>1, TrialType
    <2>3. index \in Nat /\ index \in Positions
      BY <1>1, <2>1, <2>2 DEF Positions
    <2> QED BY <2>1, <2>3 DEF Within
<1>3. offset \in Offsets /\ offset \in Nat /\ \A o \in Offsets : o \in Nat
    <2>1. offset \in Offsets /\ offset \in Nat
      BY <1>2, Places
    <2>2. \A o \in Offsets : o \in Nat
      BY <1>2, Places
    <2> QED BY <2>1, <2>2
<1>4. /\ match_length \in [Offsets -> Nat]
      /\ \A o \in Offsets : match_length[o] <= index
                            /\ (index > 0 /\ o >= offset => match_length[o] <= index - 1)
    BY DEF Inv
<1>5. Fit(pool', index, offset + 1)
    <2>1. Fit(pool, index, offset)
      BY DEF Inv
    <2>2. PICK Q : Q = pool'
      OBVIOUS
    <2>3. Q = LiteralsPool
      BY <2>2 DEF Literals, LiteralsPool
    <2>4. Fit(Q, index, offset + 1)
      BY <1>2, <2>1, <2>3, LiteralsFits
    <2> QED BY <2>2, <2>4
<1>6. match_length' \in [Offsets -> Nat]
    BY <1>1, <1>4
<1>7. ASSUME NEW o \in Offsets
      PROVE  match_length'[o] <= index
             /\ (o > offset /\ index > 0 => match_length'[o] <= index - 1)
    <2>1. CASE o = offset
      <3>1. match_length'[o] = 0 /\ ~(o > offset)
        BY <1>1, <1>3, <1>4, <2>1
      <3> QED BY <1>2, <3>1
    <2>2. CASE o # offset
      <3>1. match_length'[o] = match_length[o]
        BY <1>1, <1>4, <2>2
      <3>2. o > offset => o >= offset
        BY <1>3
      <3> QED BY <1>4, <3>1, <3>2
    <2> QED BY <2>1, <2>2
<1>8. /\ \A k \in Positions : best_length'[k] \in 0 .. k
      /\ best_size \in Shortest .. n + 1
      /\ Sized(best_length', Shortest, best_size)
    BY <1>1 DEF Inv
<1> QED BY <1>1, <1>5, <1>6, <1>7, <1>8, AdvanceKeeps

\* A step that leaves all but the result keeps the invariant.
LEMMA OthersKeep ==
    ASSUME Inv, Return \/ UNCHANGED vars
    PROVE  Inv'
<1>1. /\ trial' = trial /\ index' = index /\ offset' = offset /\ pool' = pool
      /\ match_length' = match_length /\ best_length' = best_length /\ best_size' = best_size
    BY DEF Return, vars
<1>2. /\ n' = n /\ Offsets' = Offsets /\ Positions' = Positions /\ Shortest' = Shortest
      /\ \A i : Ceiling(i)' = Ceiling(i)
      /\ \A P, i, o : (Fit(P, i, o)' <=> Fit(P, i, o))
    BY <1>1, TrialKept
<1>3. Fit(pool, index, offset)'
    BY <1>1, <1>2 DEF Inv
<1>4. Ceiling(index)' = Ceiling(index)
    BY <1>1, <1>2
<1>5. Sized(best_length, Shortest, best_size)'
    BY <1>1, <1>2 DEF Inv, Sized
<1> QED BY <1>1, <1>2, <1>3, <1>4, <1>5 DEF Inv

\* The pool before the first block.
LEMMA NoBlocksGood ==
    ASSUME trial \in Trials
    PROVE  Good(NoBlocks, {}) /\ Size(NoBlocks) = 0 /\ NewId(NoBlocks) = 1
           /\ Blocks(NoBlocks) = {} /\ \A s \in Slots : NoBlocks.slot[s] = NIL
<1>1. /\ NoBlocks.nodes = <<>> /\ NoBlocks.references = <<>> /\ NoBlocks.ghosts = <<>>
      /\ NoBlocks.slot = [s \in Slots |-> NIL]
    BY DEF NoBlocks
<1>2. <<>> \in Seq(Node) /\ <<>> \in Seq(Nat) /\ Len(<<>>) = 0 /\ Range(<<>>) = {}
      /\ IsInjective(<<>>)
    BY EmptySeq DEF Range, IsInjective
<1>3. Size(NoBlocks) = 0 /\ Blocks(NoBlocks) = {} /\ NewId(NoBlocks) = 1
    BY <1>1, <1>2 DEF Size, Blocks, NewId
<1>4. NoBlocks \in Pools
    <2>1. [s \in Slots |-> NIL] \in [Slots -> Nat]
      BY DEF NIL
    <2> QED BY <1>2, <2>1 DEF NoBlocks, Pools
<1>5. IsPool(NoBlocks)
    BY <1>1, <1>2, <1>3, <1>4 DEF IsPool, NIL
<1>6. Counted(NoBlocks)
    BY <1>3 DEF Counted
<1>7. Free(NoBlocks, {})
    <2>1. {id \in Blocks(NoBlocks) : NoBlocks.references[id] = 0} \ {} = {}
      BY <1>3
    <2> QED BY <1>1, <1>2, <2>1 DEF Free, Lists
<1> QED BY <1>1, <1>3, <1>5, <1>6, <1>7 DEF Good

\* The pool of the first states: one block, before the input, the last match at the offset 1.
LEMMA InitPool ==
    ASSUME Init
    PROVE  /\ Within /\ Good(pool, {}) /\ Blocks(pool) = {1}
           /\ pool.nodes[1] = Block(-1, -1, INITIAL_OFFSET, NIL)
           /\ \A r \in Slots : pool.slot[r] = IF r = <<"last_match", 1>> THEN 1 ELSE NIL
<1>1. /\ trial \in Trials /\ index = 0 /\ offset = 1
      /\ match_length = [o \in Offsets |-> 0]
      /\ best_length = [k \in Positions |-> IF k = Shortest THEN Shortest ELSE 0]
      /\ best_size = Shortest
      /\ pool = Assign(Allocate(NoBlocks, -1, -1, INITIAL_OFFSET, NIL),
                       <<"last_match", INITIAL_OFFSET>>, 1)
    BY DEF Init
<1>2. n \in Nat /\ n >= 1 /\ trial.limit \in Nat /\ trial.limit >= 1
    BY <1>1, TrialType
<1>3. Within
    <2>1. 0 \in Positions
      BY <1>2 DEF Positions
    <2>2. 1 \in 1 .. Ceiling(0)
      BY <1>2 DEF Ceiling, INITIAL_OFFSET
    <2> QED BY <1>1, <2>1, <2>2 DEF Within
<1>4. PICK s : s = <<"last_match", 1>>
    OBVIOUS
<1>5. s \in Slots /\ IsFiniteSet(Slots)
    <2>1. 1 \in Offsets
      BY <1>3, Places
    <2> QED BY <1>1, <1>4, <2>1, SlotsFinite DEF Slots
<1>6. PICK node : node = Block(-1, -1, INITIAL_OFFSET, NIL)
    OBVIOUS
<1>7. node \in Node /\ node.index = -1 /\ node.offset = 1
    BY <1>6 DEF Block, Node, INITIAL_OFFSET, NIL
<1>8. PICK A : A = Allocate(NoBlocks, -1, -1, INITIAL_OFFSET, NIL)
    OBVIOUS
<1>9. Allocated(NoBlocks, A, 1, node)
    <2>1. Good(NoBlocks, {}) /\ NIL \in 0 .. Size(NoBlocks) /\ NewId(NoBlocks) = 1
      BY <1>1, NoBlocksGood DEF NIL
    <2>2. Allocated(NoBlocks, Allocate(NoBlocks, -1, -1, INITIAL_OFFSET, NIL), NewId(NoBlocks),
                    Block(-1, -1, INITIAL_OFFSET, NIL))
      BY <1>5, <1>6, <1>7, <2>1, AllocExact
    <2> QED BY <1>6, <1>8, <2>1, <2>2
<1>10. /\ Good(A, {1}) /\ 1 \in Blocks(A) /\ Blocks(A) = {1} /\ A.nodes[1] = node
       /\ A.slot \in [Slots -> Nat] /\ \A r \in Slots : A.slot[r] = NIL
    <2>1. Good(A, {1}) /\ 1 \in Blocks(A) /\ A.nodes[1] = node /\ A.slot = NoBlocks.slot
          /\ Blocks(A) = Blocks(NoBlocks) \cup {1}
      BY <1>9 DEF Allocated
    <2> QED BY <1>1, <2>1, NoBlocksGood, PoolType DEF Good
<1>11. /\ Good(pool, {}) /\ pool.nodes = A.nodes /\ Size(pool) = Size(A)
       /\ pool.slot = [A.slot EXCEPT ![s] = 1]
    <2>1. pool = Assign(A, s, 1)
      BY <1>1, <1>4, <1>8 DEF INITIAL_OFFSET
    <2> QED BY <1>5, <1>10, <2>1, AssignExact
<1>12. Blocks(pool) = {1} /\ pool.nodes[1] = node
    BY <1>10, <1>11 DEF Blocks
<1>13. \A r \in Slots : pool.slot[r] = IF r = s THEN 1 ELSE NIL
    BY <1>10, <1>11
<1> QED BY <1>3, <1>4, <1>6, <1>11, <1>12, <1>13

\* The first states satisfy the invariant.
LEMMA InitInv == Init => Inv
<1> SUFFICES ASSUME Init PROVE Inv
    OBVIOUS
<1>1. /\ trial \in Trials /\ index = 0 /\ offset = 1
      /\ match_length = [o \in Offsets |-> 0]
      /\ best_length = [k \in Positions |-> IF k = Shortest THEN Shortest ELSE 0]
      /\ best_size = Shortest
    BY DEF Init
<1>2. n \in Nat /\ n >= 1 /\ trial.limit \in Nat /\ trial.limit >= 1
    BY <1>1, TrialType
<1>3. PICK s : s = <<"last_match", 1>>
    OBVIOUS
<1>4. PICK node : node = Block(-1, -1, INITIAL_OFFSET, NIL)
    OBVIOUS
<1>5. node.index = -1 /\ node.offset = 1
    BY <1>4 DEF Block, INITIAL_OFFSET
<1>6. /\ Within /\ Good(pool, {}) /\ Blocks(pool) = {1} /\ pool.nodes[1] = node
      /\ \A r \in Slots : pool.slot[r] = IF r = s THEN 1 ELSE NIL
    BY <1>3, <1>4, InitPool
<1>7. s \in Slots
    <2>1. 1 \in Offsets
      BY <1>6, Places
    <2> QED BY <1>3, <2>1 DEF Slots
<1>8. Fit(pool, 0, 1)
    <2>1. \A k \in Blocks(pool) : pool.nodes[k].index <= 0 /\ pool.nodes[k].offset <= trial.limit
      BY <1>2, <1>5, <1>6
    <2>2. \A r \in Slots : Earlier(pool, pool.slot[r], 0)
      BY <1>5, <1>6 DEF Earlier
    <2>3. ASSUME NEW t \in Offsets
          PROVE  Earlier(pool, LastLiteral(pool, t), 0) /\ Earlier(pool, LastMatch(pool, t), 0)
      <3>1. <<"last_literal", t>> \in Slots /\ <<"last_match", t>> \in Slots
        BY DEF Slots
      <3> QED BY <2>2, <3>1 DEF LastLiteral, LastMatch
    <2>4. LastMatch(pool, 1) # NIL
      BY <1>3, <1>6, <1>7 DEF LastMatch, NIL
    <2>5. \A j \in Positions : ~(j < 0 \/ (j = 0 /\ 1 > 1))
      BY <1>2 DEF Positions
    <2> QED BY <1>6, <2>1, <2>3, <2>4, <2>5 DEF Fit
<1>9. match_length \in [Offsets -> Nat] /\ \A o \in Offsets : match_length[o] = 0
    BY <1>1
<1>10. Shortest \in {1, 2} /\ \A k \in Positions : k \in Nat
    BY <1>2 DEF Shortest, Positions
<1>11. \A k \in Positions : best_length[k] = IF k = Shortest THEN Shortest ELSE 0
    BY <1>1
<1>12. \A k \in Positions : best_length[k] \in 0 .. k
    BY <1>10, <1>11
<1>13. Sized(best_length, Shortest, Shortest)
    BY <1>10, <1>11 DEF Sized
<1>14. best_size \in Shortest .. n + 1 /\ index \in 0 .. n /\ offset \in 1 .. Ceiling(index)
    <2>1. offset \in 1 .. Ceiling(index)
      BY <1>6 DEF Within
    <2> QED BY <1>1, <1>2, <1>10, <2>1
<1> QED BY <1>1, <1>8, <1>9, <1>12, <1>13, <1>14 DEF Inv

\* The invariant holds: it is what the counts, the tables and the lengths need of
\* one another to survive a pass through the loop.
THEOREM InvHolds == Spec => []Inv
<1>1. Init => Inv
    BY InitInv
<1>2. Inv /\ [Next]_vars => Inv'
    <2> SUFFICES ASSUME Inv, [Next]_vars PROVE Inv'
      OBVIOUS
    <2>1. CASE Match
      BY <2>1, MatchKeeps
    <2>2. CASE Literals
      BY <2>2, LiteralsKeep
    <2>3. CASE Return
      BY <2>3, OthersKeep
    <2>4. CASE UNCHANGED vars
      BY <2>4, OthersKeep
    <2> QED BY <2>1, <2>2, <2>3, <2>4 DEF Next
<1> QED BY <1>1, <1>2, PTL DEF Spec

\* Whatever is allocated, shared and recycled, the count of a block (Pool of
\* zx0opt.rs) is the number of its slots and heirs, and the ghosts are the blocks
\* nothing refers to, each once: allocate never hands out a block in use.
THEOREM PoolStaysExact == Spec => []PoolExact
<1>1. Inv => PoolExact
    <2> SUFFICES ASSUME Inv PROVE PoolExact
      OBVIOUS
    <2>1. Counted(pool) /\ Free(pool, {})
      BY DEF Inv, Fit, Good
    <2>2. Ids = Blocks(pool)
      BY DEF Ids, Blocks, Size
    <2>3. \A id : InSlots(id) = SlotsOf(pool, id) /\ Successors(id) = Heirs(pool, id)
      BY <2>2 DEF InSlots, Successors, SlotsOf, Heirs
    <2>4. \A id \in Ids : pool.references[id] = Cardinality(InSlots(id)) + Cardinality(Successors(id))
      BY <2>1, <2>2, <2>3 DEF Counted
    <2>5. IsInjective(pool.ghosts) /\ Range(pool.ghosts) = {id \in Ids : pool.references[id] = 0}
      BY <2>1, <2>2 DEF Free, Lists
    <2> QED BY <2>4, <2>5 DEF PoolExact
<1> QED BY <1>1, InvHolds, PTL

\* The loops of optimize stay in their tables, no block ends beyond the loop or has
\* an offset above the limit, and a length's best length is no longer than it.
THEOREM TablesInRange == Spec => []TypeOK
<1>1. Inv => TypeOK
    <2> SUFFICES ASSUME Inv PROVE TypeOK
      OBVIOUS
    <2>1. /\ trial \in Trials /\ index \in 0 .. n /\ offset \in 1 .. Ceiling(index)
          /\ match_length \in [Offsets -> Nat] /\ \A o \in Offsets : match_length[o] <= index
          /\ \A k \in Positions : best_length[k] \in 0 .. k
          /\ best_size \in Shortest .. n + 1
          /\ IsPool(pool)
          /\ \A k \in Blocks(pool) : /\ pool.nodes[k].index <= index
                                     /\ pool.nodes[k].offset <= trial.limit
      BY DEF Inv, Fit, Good
    <2>2. n \in Nat /\ trial.limit \in Nat
      BY <2>1, TrialType
    <2>3. \A o \in Offsets : match_length[o] \in 0 .. index
      BY <2>1, <2>2
    <2>4. ASSUME NEW id \in 1 .. Len(pool.nodes)
          PROVE  /\ pool.nodes[id].index \in -1 .. index /\ pool.nodes[id].bits \in Nat \cup {-1}
                 /\ pool.nodes[id].offset \in 0 .. trial.limit
                 /\ pool.nodes[id].chain \in 0 .. Len(pool.nodes)
      <3>1. id \in Blocks(pool)
        BY DEF Blocks, Size
      <3>2. pool.nodes[id] \in Node /\ pool.nodes[id].chain \in 0 .. Len(pool.nodes)
        BY <2>1, <3>1, PoolType DEF IsPool, Size
      <3>3. /\ pool.nodes[id].index \in Nat \cup {-1} /\ pool.nodes[id].bits \in Nat \cup {-1}
            /\ pool.nodes[id].offset \in Nat
        BY <3>2 DEF Node
      <3>4. pool.nodes[id].index <= index /\ pool.nodes[id].offset <= trial.limit
        BY <2>1, <3>1
      <3>5. index \in Int
        BY <2>1, <2>2
      <3>6. pool.nodes[id].index \in -1 .. index
        <4>1. PICK x : x = pool.nodes[id].index
          OBVIOUS
        <4>2. x \in Int /\ -1 <= x /\ x <= index
          BY <3>3, <3>4, <4>1
        <4>3. x \in -1 .. index
          BY <3>5, <4>2
        <4> QED BY <4>1, <4>3
      <3>7. pool.nodes[id].offset \in 0 .. trial.limit
        BY <2>2, <3>3, <3>4
      <3> QED BY <3>2, <3>3, <3>6, <3>7
    <2> QED BY <2>1, <2>3, <2>4 DEF TypeOK
<1> QED BY <1>1, InvHolds, PTL

-----------------------------------------------------------------------------
(* What the units cost, compared.                                          *)

\* The function of the logarithm does not depend on how far it is worked out.
LEMMA LogSame ==
    ASSUME NEW a \in Nat, NEW b \in Nat, NEW f, NEW g, IsLog(f, a), IsLog(g, b)
    PROVE  \A u \in 1 .. a : u \in 1 .. b => f[u] = g[u]
<1>1. \A u \in 1 .. a : f[u] = IF u = 1 THEN 0 ELSE 1 + f[u \div 2]
    BY DEF IsLog
<1>2. \A u \in 1 .. b : g[u] = IF u = 1 THEN 0 ELSE 1 + g[u \div 2]
    BY DEF IsLog
<1> DEFINE Bad == {u \in Nat : u \in 1 .. a /\ u \in 1 .. b /\ f[u] # g[u]}
<1>3. ASSUME Bad # {} PROVE FALSE
    <2>1. PICK u \in Bad : \A y \in Bad : u <= y
      BY <1>3, LeastNatural
    <2>2. u \in Nat /\ u \in 1 .. a /\ u \in 1 .. b /\ f[u] # g[u] /\ u # 1
      BY <1>1, <1>2, <2>1
    <2>3. u \div 2 \in 1 .. a /\ u \div 2 \in 1 .. b /\ u \div 2 \in Nat /\ ~(u <= u \div 2)
      BY <2>2
    <2>4. f[u \div 2] = g[u \div 2]
      BY <2>1, <2>3
    <2>5. f[u] = 1 + f[u \div 2] /\ g[u] = 1 + g[u \div 2]
      BY <1>1, <1>2, <2>2
    <2> QED BY <2>2, <2>4, <2>5
<1> QED BY <1>3

\* The logarithm of a half is one less.
LEMMA LogHalf ==
    ASSUME NEW v \in Nat \ {0}
    PROVE  FloorLog2(v) = IF v = 1 THEN 0 ELSE 1 + FloorLog2(v \div 2)
<1> DEFINE F(m) == CHOOSE g : IsLog(g, m)
<1>1. \A m \in Nat : IsLog(F(m), m)
    BY LogExists
<1>2. \A m : FloorLog2(m) = F(m)[m]
    BY DEF FloorLog2, IsLog
<1> HIDE DEF F
<1>3. F(v)[v] = IF v = 1 THEN 0 ELSE 1 + F(v)[v \div 2]
    <2>1. v \in 1 .. v
      OBVIOUS
    <2> QED BY <1>1, <2>1 DEF IsLog
<1>4. CASE v = 1
    BY <1>2, <1>3, <1>4
<1>5. CASE v # 1
    <2>1. v \div 2 \in Nat /\ v \div 2 \in 1 .. v /\ v \div 2 \in 1 .. (v \div 2)
      BY <1>5
    <2>2. F(v)[v \div 2] = F(v \div 2)[v \div 2]
      BY <1>1, <2>1, LogSame
    <2> QED BY <1>2, <1>3, <1>5, <2>2
<1> QED BY <1>4, <1>5

\* The logarithm of a sum is at most the sum of the logarithms, and one.
LEMMA LogSum ==
    \A a, b \in Nat \ {0} : FloorLog2(a + b) <= FloorLog2(a) + FloorLog2(b) + 1
<1> DEFINE Ok(a, b) == FloorLog2(a + b) <= FloorLog2(a) + FloorLog2(b) + 1
           Bad == {s \in Nat : \E a, b \in Nat \ {0} : a + b = s /\ ~Ok(a, b)}
<1>0. \A v \in Nat \ {0} : FloorLog2(v) \in Nat
    BY LogType
<1>1. ASSUME Bad # {} PROVE FALSE
    <2>1. PICK s \in Bad : \A y \in Bad : s <= y
      BY <1>1, LeastNatural
    <2>2. PICK x, y \in Nat \ {0} : x + y = s /\ ~Ok(x, y)
      BY <2>1
    <2>3. ASSUME NEW c \in Nat \ {0}, NEW d \in Nat \ {0}, c + d < s PROVE Ok(c, d)
      <3>1. c + d \in Nat /\ ~(s <= c + d)
        BY <2>1, <2>3
      <3> HIDE DEF Ok
      <3> QED BY <2>1, <3>1
    <2>4. ASSUME NEW a \in Nat \ {0}, NEW b \in Nat \ {0}, a + b = s, a <= b PROVE Ok(a, b)
      <3> DEFINE A == a \div 2
                 B == b \div 2
                 S == (a + b) \div 2
      <3>1. FloorLog2(a + b) = 1 + FloorLog2(S) /\ S \in Nat \ {0}
        <4>1. a + b \in Nat \ {0} /\ a + b # 1
          OBVIOUS
        <4> QED BY <4>1, LogHalf
      <3>2. CASE b = 1
        <4>1. a = 1 /\ S = 1
          BY <2>4, <3>2
        <4> QED BY <1>0, <3>1, <3>2, <4>1, LogHalf
      <3>3. CASE a = 1 /\ b # 1
        <4>1. B \in Nat \ {0} /\ S \in {B, B + 1} /\ B + 1 < s
          BY <2>4, <3>3
        <4>2. FloorLog2(1) = 0 /\ FloorLog2(b) = 1 + FloorLog2(B)
          BY <3>3, LogHalf
        <4>3. FloorLog2(B + 1) <= FloorLog2(B) + FloorLog2(1) + 1
          BY <2>3, <4>1
        <4>4. FloorLog2(S) <= FloorLog2(B) + 1
          <5>1. FloorLog2(S) = FloorLog2(B) \/ FloorLog2(S) = FloorLog2(B + 1)
            BY <4>1
          <5>2. FloorLog2(B) \in Nat /\ FloorLog2(S) \in Nat
            BY <1>0, <3>1, <4>1
          <5> QED BY <4>2, <4>3, <5>1, <5>2
        <4>5. FloorLog2(B) \in Nat /\ FloorLog2(S) \in Nat
          BY <1>0, <3>1, <4>1
        <4> HIDE DEF B, S
        <4> QED BY <3>1, <3>3, <4>2, <4>4, <4>5
      <3>4. CASE a # 1
        <4>1. A \in Nat \ {0} /\ B \in Nat \ {0} /\ S \in {A + B, A + B + 1}
              /\ A + B < s /\ (A + B) + 1 < s /\ A + B \in Nat \ {0}
          BY <2>4, <3>4
        <4>2. FloorLog2(1) = 0 /\ FloorLog2(a) = 1 + FloorLog2(A) /\ FloorLog2(b) = 1 + FloorLog2(B)
          BY <2>4, <3>4, LogHalf
        <4>3. /\ FloorLog2(A + B) <= FloorLog2(A) + FloorLog2(B) + 1
              /\ FloorLog2((A + B) + 1) <= FloorLog2(A + B) + FloorLog2(1) + 1
          <5> HIDE DEF A, B, S
          <5> QED BY <2>3, <4>1
        <4>4. /\ FloorLog2(A) \in Nat /\ FloorLog2(B) \in Nat /\ FloorLog2(A + B) \in Nat
              /\ FloorLog2(S) \in Nat /\ FloorLog2((A + B) + 1) \in Nat
          <5>1. (A + B) + 1 \in Nat \ {0}
            BY <4>1
          <5> QED BY <1>0, <3>1, <4>1, <5>1
        <4>5. FloorLog2(S) = FloorLog2(A + B) \/ FloorLog2(S) = FloorLog2((A + B) + 1)
          BY <4>1
        <4> HIDE DEF A, B, S
        <4> QED BY <3>1, <4>2, <4>3, <4>4, <4>5
      <3> QED BY <3>2, <3>3, <3>4
    <2>5. CASE x <= y
      BY <2>2, <2>4, <2>5
    <2>6. CASE ~(x <= y)
      <3>1. y <= x /\ y + x = s /\ y + x = x + y
        BY <2>2, <2>6
      <3>2. Ok(y, x)
        BY <2>4, <3>1
      <3>3. FloorLog2(x) \in Nat /\ FloorLog2(y) \in Nat /\ FloorLog2(x + y) \in Nat
        <4>1. x + y \in Nat \ {0}
          OBVIOUS
        <4> QED BY <1>0, <4>1
      <3> QED BY <2>2, <3>1, <3>2, <3>3
    <2> QED BY <2>5, <2>6
<1>2. ASSUME NEW a \in Nat \ {0}, NEW b \in Nat \ {0} PROVE Ok(a, b)
    <2>1. Bad = {}
      <3> HIDE DEF Bad
      <3> QED BY <1>1
    <2>2. a + b \in Nat /\ a + b \notin Bad
      <3> HIDE DEF Bad
      <3> QED BY <2>1
    <2> HIDE DEF Ok
    <2> QED BY <2>2
<1> QED BY <1>2

\* The code for a value, where it is not too great for the code.
LEMMA GammaLog ==
    ASSUME trial \in Trials, NEW v \in Nat \ {0}
    PROVE  /\ FloorLog2(v) \in Nat
           /\ Gamma(v) = BIG \/ Gamma(v) = 1 + 2 * FloorLog2(v)
           /\ trial.variant = "zx0" \/ v <= trial.cap => Gamma(v) = 1 + 2 * FloorLog2(v)
<1>1. FloorLog2(v) \in Nat /\ trial.cap \in Nat /\ trial.variant \in {"zx0", "zx02"}
    BY LogType, TrialType
<1> QED BY <1>1 DEF Gamma

\* A repetition is no dearer than a new match of the same length.
LEMMA RepCheaper ==
    ASSUME trial \in Trials, NEW off \in Nat \ {0}, NEW len \in Nat \ {0}, len >= Shortest
    PROVE  RepBits(len) <= NewBits(off, len)
<1>1. /\ trial.cap \in Nat \ {0} /\ trial.variant \in {"zx0", "zx02"}
      /\ trial.variant = "zx0" => len # 1
    BY TrialType DEF Shortest
<1>2. OffsetBits(off) \in Nat /\ OffsetBits(off) >= 9
    <2> DEFINE d == IF trial.variant = "zx0" THEN off - 1 ELSE off
    <2>1. d \in Nat /\ trial.low \in Nat /\ trial.low >= 1
      BY TrialType
    <2>2. d \div trial.low + 1 \in Nat \ {0}
      <3> HIDE DEF d
      <3> QED BY <2>1
    <2>3. OffsetBits(off) = 8 + Gamma(d \div trial.low + 1)
      BY DEF OffsetBits
    <2> HIDE DEF d
    <2> QED BY <2>2, <2>3, GammaType
<1>3. RepBits(len) = 1 + Gamma(len) /\ NewBits(off, len) = OffsetBits(off) + NewLengthBits(len)
    BY DEF RepBits, NewBits
<1>4. Gamma(len) \in Nat /\ NewLengthBits(len) \in Nat
    BY GammaType, CostType
<1>5. CASE len = 1
    <2>1. FloorLog2(1) = 0 /\ 1 <= trial.cap
      BY <1>1, LogHalf
    <2>2. Gamma(len) = 1
      BY <1>5, <2>1, GammaLog
    <2> QED BY <1>2, <1>3, <1>4, <2>2
<1>6. CASE len # 1 /\ trial.variant = "zx02" /\ len > trial.cap
    <2>1. NewLengthBits(len) = BIG /\ Gamma(len) = BIG
      BY <1>6 DEF NewLengthBits, Gamma
    <2> QED BY <1>2, <1>3, <1>4, <2>1
<1>7. CASE len # 1 /\ ~(trial.variant = "zx02" /\ len > trial.cap)
    <2>1. len - 1 \in Nat \ {0} /\ (len - 1) + 1 = len
      BY <1>7
    <2>2. NewLengthBits(len) = Gamma(len - 1)
      BY <1>7 DEF NewLengthBits
    <2>3. /\ Gamma(len) = 1 + 2 * FloorLog2(len)
          /\ Gamma(len - 1) = 1 + 2 * FloorLog2(len - 1)
          /\ FloorLog2(len) \in Nat /\ FloorLog2(len - 1) \in Nat
      <3>1. trial.variant = "zx0" \/ (len <= trial.cap /\ len - 1 <= trial.cap)
        BY <1>1, <1>7
      <3> QED BY <2>1, <3>1, GammaLog
    <2>4. FloorLog2(len) <= FloorLog2(len - 1) + 1
      <3>1. FloorLog2((len - 1) + 1) <= FloorLog2(len - 1) + FloorLog2(1) + 1 /\ FloorLog2(1) = 0
        BY <2>1, LogSum, LogHalf
      <3> QED BY <2>1, <2>3, <3>1
    <2> QED BY <1>2, <1>3, <2>2, <2>3, <2>4
<1> QED BY <1>5, <1>6, <1>7

\* What ZX0 charges, by logarithms.
LEMMA Zx0Costs ==
    ASSUME trial \in Trials, trial.variant = "zx0", NEW off \in Nat \ {0}, NEW len \in Nat \ {0}
    PROVE  /\ FloorLog2(len) \in Nat /\ RepBits(len) = 2 + 2 * FloorLog2(len)
           /\ OffsetBits(off) \in Nat /\ OffsetBits(off) >= 9
           /\ NewBits(off, len) = OffsetBits(off) + NewLengthBits(len)
           /\ len # 1 => /\ FloorLog2(len - 1) \in Nat
                         /\ NewLengthBits(len) = 1 + 2 * FloorLog2(len - 1)
                         /\ FloorLog2(len) <= FloorLog2(len - 1) + 1
<1>1. FloorLog2(len) \in Nat /\ Gamma(len) = 1 + 2 * FloorLog2(len)
    BY GammaLog
<1>2. OffsetBits(off) \in Nat /\ OffsetBits(off) >= 9
    <2>1. off - 1 \in Nat /\ trial.low \in Nat /\ trial.low >= 1
      BY TrialType
    <2>2. (off - 1) \div trial.low + 1 \in Nat \ {0}
      BY <2>1
    <2>3. OffsetBits(off) = 8 + Gamma((off - 1) \div trial.low + 1)
      BY DEF OffsetBits
    <2> QED BY <2>2, <2>3, GammaType
<1>3. ASSUME len # 1
      PROVE  /\ FloorLog2(len - 1) \in Nat
             /\ NewLengthBits(len) = 1 + 2 * FloorLog2(len - 1)
             /\ FloorLog2(len) <= FloorLog2(len - 1) + 1
    <2>1. len - 1 \in Nat \ {0} /\ (len - 1) + 1 = len
      BY <1>3
    <2>2. FloorLog2(len - 1) \in Nat /\ Gamma(len - 1) = 1 + 2 * FloorLog2(len - 1)
      BY <2>1, GammaLog
    <2>3. NewLengthBits(len) = Gamma(len - 1)
      BY <1>3 DEF NewLengthBits
    <2>4. FloorLog2((len - 1) + 1) <= FloorLog2(len - 1) + FloorLog2(1) + 1 /\ FloorLog2(1) = 0
      BY <2>1, LogSum, LogHalf
    <2> QED BY <1>1, <2>1, <2>2, <2>3, <2>4
<1> QED BY <1>1, <1>2, <1>3 DEF RepBits, NewBits

\* In ZX0 a longer repetition is no dearer than a repetition and a new match behind it.
LEMMA RepLonger ==
    ASSUME trial \in Trials, trial.variant = "zx0", NEW off \in Nat \ {0},
           NEW a \in Nat \ {0}, NEW b \in Nat \ {0, 1}
    PROVE  RepBits(a + b) <= RepBits(a) + NewBits(off, b)
<1>1. a + b \in Nat \ {0} /\ b \in Nat \ {0} /\ b # 1
    OBVIOUS
<1>2. /\ RepBits(a + b) = 2 + 2 * FloorLog2(a + b) /\ RepBits(a) = 2 + 2 * FloorLog2(a)
      /\ FloorLog2(a + b) \in Nat /\ FloorLog2(a) \in Nat
    BY <1>1, Zx0Costs
<1>3. /\ NewBits(off, b) = OffsetBits(off) + (1 + 2 * FloorLog2(b - 1))
      /\ OffsetBits(off) \in Nat /\ OffsetBits(off) >= 9
      /\ FloorLog2(b) \in Nat /\ FloorLog2(b - 1) \in Nat /\ FloorLog2(b) <= FloorLog2(b - 1) + 1
    BY <1>1, Zx0Costs
<1>4. FloorLog2(a + b) <= FloorLog2(a) + FloorLog2(b) + 1
    BY <1>1, LogSum
<1> QED BY <1>2, <1>3, <1>4

\* In ZX0 the length of a longer match is cheaper than another match before it.
LEMMA NewLonger ==
    ASSUME trial \in Trials, trial.variant = "zx0", NEW off \in Nat \ {0},
           NEW a \in Nat \ {0, 1}, NEW b \in Nat \ {0, 1}
    PROVE  NewLengthBits(a + b) < NewBits(off, a) + NewLengthBits(b)
<1>1. /\ a + b \in Nat \ {0} /\ a + b # 1 /\ a \in Nat \ {0} /\ a # 1 /\ b \in Nat \ {0} /\ b # 1
      /\ a - 1 \in Nat \ {0} /\ b - 1 \in Nat \ {0}
      /\ (a - 1) + (b - 1) \in Nat \ {0} /\ ((a - 1) + (b - 1)) + 1 = (a + b) - 1
    OBVIOUS
<1>2. /\ NewLengthBits(a + b) = 1 + 2 * FloorLog2((a + b) - 1)
      /\ NewLengthBits(b) = 1 + 2 * FloorLog2(b - 1)
      /\ NewBits(off, a) = OffsetBits(off) + (1 + 2 * FloorLog2(a - 1))
      /\ OffsetBits(off) \in Nat /\ OffsetBits(off) >= 9
      /\ FloorLog2((a + b) - 1) \in Nat /\ FloorLog2(a - 1) \in Nat /\ FloorLog2(b - 1) \in Nat
    BY <1>1, Zx0Costs
<1>3. FloorLog2((a - 1) + (b - 1)) \in Nat
    BY <1>1, LogType
<1>4. FloorLog2((a - 1) + (b - 1)) <= FloorLog2(a - 1) + FloorLog2(b - 1) + 1
    BY <1>1, LogSum
<1>5. FloorLog2((a + b) - 1) <= FloorLog2((a - 1) + (b - 1)) + 1
    <2>1. /\ FloorLog2(((a - 1) + (b - 1)) + 1) <= FloorLog2((a - 1) + (b - 1)) + FloorLog2(1) + 1
          /\ FloorLog2(1) = 0
      BY <1>1, LogSum, LogHalf
    <2> QED BY <1>1, <1>3, <2>1
<1> QED BY <1>2, <1>3, <1>4, <1>5

-----------------------------------------------------------------------------
(* Every block is a unit behind the one before it.                         *)

First == Block(-1, -1, INITIAL_OFFSET, NIL)

\* The block before, how long a block is, and the offset that is the last one behind it.
Before(P, node) == P.nodes[node.chain]
Length(P, node) == node.index - Before(P, node).index
Behind(P, node) == IF node.offset = 0 THEN Before(P, node).offset ELSE node.offset

\* A block copies what it covers.
Copied(P, node) == Copies(node.index + 1, node.offset, Length(P, node))

\* The block before is one of literals, and the offset behind it is the block's.
Repeating(P, node) ==
    Before(P, node).offset = 0 /\ Behind(P, Before(P, node)) = node.offset

\* Literals follow a match, a repetition follows literals behind its offset, and a
\* match at a new offset follows neither these nor, in ZX0, a match at its offset.
IsLiterals(P, node) ==
    /\ node.offset = 0 /\ Before(P, node).offset # 0
    /\ node.bits = Before(P, node).bits + LiteralBits(Length(P, node))
IsRep(P, node) ==
    /\ node.offset # 0 /\ Copied(P, node) /\ Repeating(P, node)
    /\ node.bits = Before(P, node).bits + RepBits(Length(P, node))
IsNew(P, node) ==
    /\ node.offset # 0 /\ Copied(P, node) /\ ~Repeating(P, node)
    /\ trial.variant = "zx0" => Before(P, node).offset # node.offset
    /\ Length(P, node) >= Shortest
    /\ Before(P, node).index \in Positions /\ node.chain = Optimal(P, Before(P, node).index)
    /\ node.bits = Before(P, node).bits + NewBits(node.offset, Length(P, node))

IsUnit(P, node) ==
    IF node.chain = NIL THEN node = First
    ELSE Length(P, node) > 0 /\ (IsLiterals(P, node) \/ IsRep(P, node) \/ IsNew(P, node))
Linked(P) == \A b \in Blocks(P) : IsUnit(P, P.nodes[b])

\* What the tables refer to: literals behind their offset, if any after a match at it,
\* and blocks that end at their position; and no literals come later than the last
\* behind their offset.
LastOnes(P) ==
    \A t \in Offsets :
        /\ LastLiteral(P, t) # NIL => /\ P.nodes[LastLiteral(P, t)].offset = 0
                                      /\ Behind(P, P.nodes[LastLiteral(P, t)]) = t
                                      /\ LastMatch(P, t) # NIL
        /\ LastMatch(P, t) # NIL => P.nodes[LastMatch(P, t)].offset = t
Latest(P) ==
    \A b \in Blocks(P) : P.nodes[b].offset = 0 =>
        /\ Behind(P, P.nodes[b]) \in Offsets
        /\ LastLiteral(P, Behind(P, P.nodes[b])) # NIL
        /\ \/ LastLiteral(P, Behind(P, P.nodes[b])) = b
           \/ P.nodes[LastLiteral(P, Behind(P, P.nodes[b]))].index > P.nodes[b].index
Ending(P) ==
    \A j \in Positions : Optimal(P, j) # NIL => P.nodes[Optimal(P, j)].index = j

Links(P) == Linked(P) /\ LastOnes(P) /\ Latest(P) /\ Ending(P)

\* What a block refers to, and what that refers to.
LEMMA ChainType ==
    ASSUME NEW P, Good(P, {}), NEW b \in Blocks(P)
    PROVE  /\ P.nodes[b].index \in Int /\ P.nodes[b].bits \in Int /\ P.nodes[b].offset \in Nat
           /\ P.nodes[b].chain # NIL => P.nodes[b].chain \in Blocks(P)
<1>1. IsPool(P)
    BY DEF Good
<1>2. P.nodes[b] \in Node /\ P.nodes[b].chain \in 0 .. Size(P) /\ Size(P) \in Nat
    BY <1>1, PoolType DEF IsPool
<1> QED BY <1>2 DEF Node, Blocks, NIL

\* Literals are never the first block.
LEMMA LiteralsChained ==
    ASSUME NEW P, Good(P, {}), Linked(P), NEW b \in Blocks(P), P.nodes[b].offset = 0
    PROVE  P.nodes[b].chain \in Blocks(P)
<1>1. P.nodes[b].chain # NIL
    <2>1. First.offset = 1
      BY DEF First, Block, INITIAL_OFFSET
    <2> QED BY <2>1 DEF Linked, IsUnit
<1> QED BY <1>1, ChainType

\* A unit stays a unit when a block nothing refers to becomes another.
LEMMA UnitKept ==
    ASSUME Within, NEW P, Good(P, {}), Linked(P), NEW Q, NEW new, NEW s \in Slots, NEW fresh,
           Renewed(P, Q, new, s, <<"optimal", index>>, fresh),
           \A j : s # <<"optimal", j>>,
           NEW node \in Node, node.chain \in Blocks(P), node.chain # new, node.index <= index,
           IsUnit(P, node)
    PROVE  /\ IsUnit(Q, node) /\ Before(Q, node) = Before(P, node)
           /\ Behind(Q, node) = Behind(P, node)
<1>1. PICK c : c = node.chain
    OBVIOUS
<1>2. c \in Blocks(P) /\ c # new /\ c # NIL /\ Q.nodes[c] = P.nodes[c] /\ Q.nodes[c].chain # new
    BY <1>1 DEF Renewed, Blocks, NIL
<1>3. Before(Q, node) = Before(P, node) /\ Before(P, node) = P.nodes[c] /\ Length(Q, node) = Length(P, node)
    BY <1>1, <1>2 DEF Before, Length
<1>4. P.nodes[c].offset = 0 => Behind(Q, P.nodes[c]) = Behind(P, P.nodes[c])
    <2> HAVE P.nodes[c].offset = 0
    <2>1. P.nodes[c].chain \in Blocks(P)
      BY <1>2, LiteralsChained
    <2>2. Q.nodes[P.nodes[c].chain] = P.nodes[P.nodes[c].chain]
      BY <1>2, <2>1 DEF Renewed
    <2> QED BY <2>2 DEF Behind, Before
<1>5. Behind(Q, node) = Behind(P, node)
    BY <1>3 DEF Behind
<1>6. Repeating(Q, node) <=> Repeating(P, node)
    BY <1>3, <1>4 DEF Repeating
<1>7. Copied(Q, node) <=> Copied(P, node)
    BY <1>3 DEF Copied
<1>8. /\ IsLiterals(Q, node) <=> IsLiterals(P, node)
      /\ IsRep(Q, node) <=> IsRep(P, node)
    BY <1>3, <1>6, <1>7 DEF IsLiterals, IsRep
<1>9. Length(P, node) > 0
    BY <1>1, <1>2 DEF IsUnit
<1>10. ASSUME IsNew(P, node) PROVE IsNew(Q, node)
    <2>1. P.nodes[c].index \in Positions /\ P.nodes[c].index \in Int
      BY <1>2, <1>3, <1>10, ChainType DEF IsNew
    <2>2. node.index \in Int /\ index \in Int
      BY Places DEF Node
    <2>3. P.nodes[c].index # index
      BY <1>3, <1>9, <2>1, <2>2 DEF Length
    <2>4. <<"optimal", P.nodes[c].index>> \in Slots \ {s, <<"optimal", index>>}
      BY <2>1, <2>3 DEF Slots
    <2>5. Optimal(Q, P.nodes[c].index) = Optimal(P, P.nodes[c].index)
      BY <2>4 DEF Renewed, Optimal
    <2> QED BY <1>3, <1>6, <1>7, <1>10, <2>5 DEF IsNew
<1>11. IsUnit(Q, node)
    BY <1>1, <1>2, <1>3, <1>8, <1>9, <1>10 DEF IsUnit
<1> QED BY <1>3, <1>5, <1>11

\* A new block that is a unit behind a block of a table keeps the links, and what
\* the tables of the other offsets and positions refer to.
LEMMA RelaxLinks ==
    ASSUME Within, NEW P, NEW late \in {offset, offset + 1}, Fit(P, index, late), Links(P),
           NEW table \in {"last_literal", "last_match"},
           NEW off \in {0, offset}, NEW bits \in Nat,
           off = IF table = "last_match" THEN offset ELSE 0,
           table = "last_literal" => late = offset,
           NEW r \in Slots, P.slot[r] # NIL,
           table = "last_literal" => r = <<"last_match", offset>>,
           IsUnit(P, Block(bits, index, off, P.slot[r])),
           NEW Q, Q = Relax(P, table, off, bits, P.slot[r])
    PROVE  /\ Links(Q)
           /\ Relaxed(P, Q, <<table, offset>>, <<"optimal", index>>,
                      Block(bits, index, off, P.slot[r]))
<1>1. /\ index \in Nat /\ offset \in Nat /\ offset \in Offsets /\ offset >= 1
      /\ index \in Positions
      /\ \A o \in Offsets : o \in Nat
      /\ \A j \in Positions : j \in Nat /\ <<"optimal", j>> \in Slots
      /\ \A o \in Offsets : <<"last_literal", o>> \in Slots /\ <<"last_match", o>> \in Slots
    <2>1. index \in Positions
      BY DEF Within
    <2> QED BY <2>1, Places DEF Offsets
<1>2. PICK s : s = <<table, offset>>
    OBVIOUS
<1>3. PICK best : best = <<"optimal", index>>
    OBVIOUS
<1>4. PICK c : c = P.slot[r]
    OBVIOUS
<1>5. PICK node : node = Block(bits, index, off, c)
    OBVIOUS
<1>6. node.bits = bits /\ node.index = index /\ node.offset = off /\ node.chain = c
    BY <1>5 DEF Block
<1>7. Good(P, {}) /\ IsFiniteSet(Slots) /\ c \in Blocks(P) /\ c # NIL
    <2>1. Good(P, {}) /\ trial \in Trials
      BY DEF Fit, Within
    <2> QED BY <1>4, <2>1, BlockOf, SlotsFinite
<1>8. s \in Slots /\ best \in Slots /\ s # best /\ \A j : s # <<"optimal", j>>
    <2>1. s = <<"last_match", offset>> \/ s = <<"last_literal", offset>>
      BY <1>2
    <2>2. s \in Slots /\ best \in Slots
      BY <1>1, <1>3, <2>1
    <2>3. \A j, k : <<"last_match", j>> # <<"optimal", k>> /\ <<"last_literal", j>> # <<"optimal", k>>
      OBVIOUS
    <2> HIDE DEF Slots
    <2> QED BY <1>3, <2>1, <2>2, <2>3, Zenon
<1>9. table = "last_literal" => P.nodes[c].offset = offset /\ LastMatch(P, offset) # NIL
    <2>1. LastOnes(P)
      BY DEF Links
    <2> QED BY <1>1, <1>4, <2>1 DEF LastOnes, LastMatch
<1>10. Relaxed(P, Q, s, best, node)
    BY <1>1, <1>2, <1>3, <1>4, <1>5, <1>7, <1>8, RelaxExact
<1>11. PICK new : Renewed(P, Q, new, s, best, node)
    BY <1>10 DEF Relaxed
<1>12. /\ new # NIL /\ Blocks(Q) = Blocks(P) \cup {new} /\ Q.nodes[new] = node
       /\ \A k \in Blocks(P) \ {new} : Q.nodes[k] = P.nodes[k]
       /\ \A k \in Blocks(Q) : Q.nodes[k].chain # new
       /\ \A q \in Slots : P.slot[q] # new
       /\ \A q \in Slots \ {s, best} : Q.slot[q] = P.slot[q]
       /\ Q.slot[s] = new /\ Q.slot[best] \in {new, P.slot[best]}
    BY <1>11 DEF Renewed
<1>13. Linked(P) /\ LastOnes(P) /\ Latest(P) /\ Ending(P)
    BY DEF Links
<1>14. \A k \in Blocks(P) : P.nodes[k] \in Node /\ P.nodes[k].index <= index /\ P.nodes[k].index \in Int
    <2>1. \A k \in Blocks(P) : P.nodes[k] \in Node
      BY <1>7, PoolType DEF Good
    <2> QED BY <1>7, <2>1, ChainType DEF Fit
<1>15. ASSUME NEW nd \in Node, nd.chain \in Blocks(P), nd.chain # new, nd.index <= index,
              IsUnit(P, nd)
       PROVE  IsUnit(Q, nd) /\ Before(Q, nd) = Before(P, nd) /\ Behind(Q, nd) = Behind(P, nd)
    BY <1>3, <1>7, <1>8, <1>11, <1>13, <1>15, UnitKept
<1>16. node \in Node /\ IsUnit(Q, node) /\ Before(Q, node) = P.nodes[c] /\ Behind(Q, node) = Behind(P, node)
    <2>1. node \in Node
      BY <1>1, <1>5, <1>7, PoolType DEF Block, Node, Blocks, Good
    <2>2. IsUnit(P, node) /\ c # new
      BY <1>4, <1>5, <1>12
    <2>3. IsUnit(Q, node) /\ Before(Q, node) = Before(P, node) /\ Behind(Q, node) = Behind(P, node)
      BY <1>1, <1>6, <1>7, <1>15, <2>1, <2>2
    <2> QED BY <1>6, <2>1, <2>3 DEF Before
<1>17. ASSUME NEW k \in Blocks(P) \ {new}, P.nodes[k].chain # NIL
       PROVE  /\ IsUnit(Q, P.nodes[k]) /\ Before(Q, P.nodes[k]) = Before(P, P.nodes[k])
              /\ Behind(Q, P.nodes[k]) = Behind(P, P.nodes[k])
    <2>1. P.nodes[k].chain \in Blocks(P)
      BY <1>7, <1>17, ChainType
    <2>2. P.nodes[k].chain # new
      BY <1>12
    <2>3. IsUnit(P, P.nodes[k])
      BY <1>13 DEF Linked
    <2> QED BY <1>14, <1>15, <2>1, <2>2, <2>3
<1>18. Linked(Q)
    <2>1. ASSUME NEW k \in Blocks(P) \ {new}, P.nodes[k].chain = NIL
          PROVE  IsUnit(Q, P.nodes[k])
      BY <1>13, <2>1 DEF Linked, IsUnit
    <2> QED BY <1>12, <1>16, <1>17, <2>1 DEF Linked
<1>19. ASSUME NEW k \in Blocks(P) \ {new}, P.nodes[k].offset = 0
       PROVE  Behind(Q, P.nodes[k]) = Behind(P, P.nodes[k])
    <2>1. P.nodes[k].chain \in Blocks(P)
      BY <1>7, <1>13, <1>19, LiteralsChained
    <2>2. P.nodes[k].chain # NIL
      BY <2>1 DEF Blocks, NIL
    <2> QED BY <1>17, <2>2
<1>20. ASSUME NEW q \in Slots \ {s, best}, P.slot[q] # NIL
       PROVE  /\ Q.slot[q] = P.slot[q] /\ P.slot[q] \in Blocks(P) \ {new}
              /\ Q.nodes[P.slot[q]] = P.nodes[P.slot[q]]
    <2>1. P.slot[q] \in Blocks(P)
      BY <1>7, <1>20, BlockOf
    <2> QED BY <1>12, <2>1
<1>21. LastOnes(Q)
    <2>1. ASSUME NEW t \in Offsets, LastMatch(P, t) # NIL PROVE LastMatch(Q, t) # NIL
      <3>1. CASE <<"last_match", t>> = s
        BY <1>12, <3>1 DEF LastMatch
      <3>2. CASE <<"last_match", t>> # s
        <4>1. <<"last_match", t>> \in Slots \ {s, best}
          BY <1>1, <1>3, <3>2
        <4> QED BY <1>12, <2>1, <4>1 DEF LastMatch
      <3> QED BY <3>1, <3>2
    <2>2. ASSUME NEW t \in Offsets, LastLiteral(Q, t) # NIL
          PROVE  /\ Q.nodes[LastLiteral(Q, t)].offset = 0
                 /\ Behind(Q, Q.nodes[LastLiteral(Q, t)]) = t
                 /\ LastMatch(Q, t) # NIL
      <3>1. CASE <<"last_literal", t>> = s
        <4>1. t = offset /\ table = "last_literal" /\ LastLiteral(Q, t) = new
          BY <1>2, <1>12, <3>1 DEF LastLiteral
        <4>2. off = 0 /\ P.nodes[c].offset = offset
          BY <1>9, <4>1
        <4> QED BY <1>6, <1>9, <1>12, <1>16, <2>1, <4>1, <4>2 DEF Behind
      <3>2. CASE <<"last_literal", t>> # s
        <4>1. <<"last_literal", t>> \in Slots \ {s, best}
          BY <1>1, <1>3, <3>2
        <4>2. LastLiteral(Q, t) = LastLiteral(P, t) /\ LastLiteral(P, t) # NIL
          BY <1>12, <2>2, <4>1 DEF LastLiteral
        <4>3. /\ LastLiteral(P, t) \in Blocks(P) \ {new}
              /\ Q.nodes[LastLiteral(P, t)] = P.nodes[LastLiteral(P, t)]
          BY <1>20, <4>1, <4>2 DEF LastLiteral
        <4>4. /\ P.nodes[LastLiteral(P, t)].offset = 0
              /\ Behind(P, P.nodes[LastLiteral(P, t)]) = t
              /\ LastMatch(P, t) # NIL
          BY <1>13, <4>2 DEF LastOnes
        <4> QED BY <1>19, <2>1, <4>2, <4>3, <4>4
      <3> QED BY <3>1, <3>2
    <2>3. ASSUME NEW t \in Offsets, LastMatch(Q, t) # NIL
          PROVE  Q.nodes[LastMatch(Q, t)].offset = t
      <3>1. CASE <<"last_match", t>> = s
        <4>1. t = offset /\ table = "last_match" /\ LastMatch(Q, t) = new
          BY <1>2, <1>12, <3>1 DEF LastMatch
        <4> QED BY <1>6, <1>12, <4>1
      <3>2. CASE <<"last_match", t>> # s
        <4>1. <<"last_match", t>> \in Slots \ {s, best}
          BY <1>1, <1>3, <3>2
        <4>2. LastMatch(Q, t) = LastMatch(P, t) /\ LastMatch(P, t) # NIL
          BY <1>12, <2>3, <4>1 DEF LastMatch
        <4>3. Q.nodes[LastMatch(P, t)] = P.nodes[LastMatch(P, t)]
          BY <1>20, <4>1, <4>2 DEF LastMatch
        <4> QED BY <1>13, <4>2, <4>3 DEF LastOnes
      <3> QED BY <3>1, <3>2
    <2> QED BY <2>2, <2>3 DEF LastOnes
<1>22. Latest(Q)
    <2>1. ASSUME node.offset = 0
          PROVE  /\ Behind(Q, node) = offset /\ LastLiteral(Q, offset) = new
      <3>1. table = "last_literal"
        BY <1>1, <1>6, <2>1
      <3>2. P.nodes[c].offset = offset /\ s = <<"last_literal", offset>>
        BY <1>2, <1>9, <3>1
      <3> QED BY <1>12, <1>16, <2>1, <3>2 DEF Behind, LastLiteral
    <2>2. ASSUME NEW k \in Blocks(P) \ {new}, P.nodes[k].offset = 0,
                 NEW t, t = Behind(P, P.nodes[k])
          PROVE  /\ t \in Offsets /\ LastLiteral(Q, t) # NIL
                 /\ LastLiteral(Q, t) = k \/ Q.nodes[LastLiteral(Q, t)].index > P.nodes[k].index
      <3>1. /\ t \in Offsets /\ LastLiteral(P, t) # NIL
            /\ LastLiteral(P, t) = k \/ P.nodes[LastLiteral(P, t)].index > P.nodes[k].index
        BY <1>13, <2>2 DEF Latest
      <3>2. LastLiteral(P, t) \in Blocks(P) /\ <<"last_literal", t>> \in Slots
        <4>1. <<"last_literal", t>> \in Slots
          BY <1>1, <3>1
        <4> QED BY <1>7, <3>1, <4>1, BlockOf DEF LastLiteral
      <3>3. CASE <<"last_literal", t>> = s
        <4>1. t = offset /\ table = "last_literal" /\ LastLiteral(Q, t) = new
          BY <1>2, <1>12, <3>3 DEF LastLiteral
        <4>2. P.nodes[LastLiteral(P, t)].index < index
          <5>1. late = offset
            BY <4>1
          <5>2. Earlier(P, LastLiteral(P, t), index)
            BY <1>1, <4>1, <5>1 DEF Fit
          <5> QED BY <3>1, <5>2 DEF Earlier
        <4>3. P.nodes[k].index < index
          BY <1>1, <1>14, <3>1, <3>2, <4>2
        <4> QED BY <1>6, <1>12, <3>1, <4>1, <4>3
      <3>4. CASE <<"last_literal", t>> # s
        <4>1. <<"last_literal", t>> \in Slots \ {s, best}
          BY <1>3, <3>2, <3>4
        <4>2. /\ LastLiteral(Q, t) = LastLiteral(P, t)
              /\ Q.nodes[LastLiteral(P, t)] = P.nodes[LastLiteral(P, t)]
          BY <1>20, <3>1, <4>1 DEF LastLiteral
        <4> QED BY <3>1, <4>2
      <3> QED BY <3>3, <3>4
    <2>3. ASSUME NEW b \in Blocks(Q), Q.nodes[b].offset = 0
          PROVE  /\ Behind(Q, Q.nodes[b]) \in Offsets
                 /\ LastLiteral(Q, Behind(Q, Q.nodes[b])) # NIL
                 /\ \/ LastLiteral(Q, Behind(Q, Q.nodes[b])) = b
                    \/ Q.nodes[LastLiteral(Q, Behind(Q, Q.nodes[b]))].index > Q.nodes[b].index
      <3>1. CASE b = new
        BY <1>1, <1>12, <2>1, <2>3, <3>1
      <3>2. CASE b # new
        <4>1. b \in Blocks(P) \ {new} /\ Q.nodes[b] = P.nodes[b]
          BY <1>12, <3>2
        <4>2. Behind(Q, Q.nodes[b]) = Behind(P, P.nodes[b])
          BY <1>19, <2>3, <4>1
        <4> QED BY <2>2, <2>3, <4>1, <4>2
      <3> QED BY <3>1, <3>2
    <2> QED BY <2>3 DEF Latest
<1>23. Ending(Q)
    <2>1. ASSUME NEW j \in Positions, Optimal(Q, j) # NIL
          PROVE  Q.nodes[Optimal(Q, j)].index = j
      <3>1. CASE j = index /\ Optimal(Q, j) = new
        BY <1>6, <1>12, <3>1
      <3>2. CASE ~(j = index /\ Optimal(Q, j) = new)
        <4>1. <<"optimal", j>> \in Slots /\ <<"optimal", j>> # s
          BY <1>1, <1>8
        <4>2. Optimal(Q, j) = Optimal(P, j)
          <5>1. CASE j = index
            BY <1>3, <1>12, <3>2, <5>1 DEF Optimal
          <5>2. CASE j # index
            <6>1. <<"optimal", j>> # best
              BY <1>3, <5>2
            <6> QED BY <1>12, <4>1, <6>1 DEF Optimal
          <5> QED BY <5>1, <5>2
        <4>3. Optimal(P, j) \in Blocks(P) /\ Optimal(P, j) # new
          BY <1>7, <1>12, <2>1, <4>1, <4>2, BlockOf DEF Optimal
        <4>4. Q.nodes[Optimal(P, j)] = P.nodes[Optimal(P, j)]
          BY <1>12, <4>3
        <4> QED BY <1>13, <2>1, <4>2, <4>4 DEF Ending
      <3> QED BY <3>1, <3>2
    <2> QED BY <2>1 DEF Ending
<1> QED BY <1>2, <1>3, <1>4, <1>5, <1>10, <1>18, <1>21, <1>22, <1>23 DEF Links

-----------------------------------------------------------------------------
(* The lengths of matches, and the last literals before them.              *)

\* The last position worked on for the offset t, when the loop is at the offset o of i.
Done(t, i, o) == IF t < o THEN i ELSE i - 1

\* The longest copy at the offset t that ends with the byte i has this length.
Longest(i, t, len) == Copies(i + 1, t, len) /\ (i >= len => ~RepeatsAt(i + 1 - len, t))

\* match_length is the length of the longest copy, and the last literals of an offset
\* end where it begins.
Runs(lengths, i, o) == \A t \in Offsets : Longest(Done(t, i, o), t, lengths[t])
Placed(P, lengths, i, o) ==
    \A t \in Offsets : LastLiteral(P, t) # NIL =>
        t <= Ceiling(i) /\ P.nodes[LastLiteral(P, t)].index = Done(t, i, o) - lengths[t]

\* Of the lengths up to k, len costs least.
Best(P, len, k) == len \in Shortest .. k /\ \A j \in (Shortest .. k) \ {len} : At(P, len) <= At(P, j)
BestOnes(P, best, size) ==
    /\ \A k \in Positions : k \in Shortest .. size /\ k <= index => Best(P, best[k], k)
    /\ Shortest \in Positions => best[Shortest] = Shortest

\* What the tables say of the offset t, and of the positions before this one, is the same.
SameLiterals(P, Q, t) ==
    /\ LastLiteral(Q, t) = LastLiteral(P, t)
    /\ LastLiteral(P, t) # NIL => Q.nodes[LastLiteral(P, t)] = P.nodes[LastLiteral(P, t)]
SameBefore(P, Q) ==
    \A j \in Positions : j < index /\ Optimal(P, j) # NIL =>
        Optimal(Q, j) = Optimal(P, j) /\ Q.nodes[Optimal(P, j)] = P.nodes[Optimal(P, j)]

\* A new block leaves the rest of the tables.
LEMMA RelaxedSame ==
    ASSUME Within, NEW P, NEW Q, NEW table \in {"last_literal", "last_match"}, NEW node,
           Relaxed(P, Q, <<table, offset>>, <<"optimal", index>>, node)
    PROVE  /\ \A t \in Offsets : table = "last_match" \/ t # offset => SameLiterals(P, Q, t)
           /\ SameBefore(P, Q)
<1>1. /\ \A j \in Positions : <<"optimal", j>> \in Slots
      /\ \A t \in Offsets : <<"last_literal", t>> \in Slots
      /\ index \in Nat /\ \A j \in Positions : j \in Nat
    <2>1. index \in Nat /\ \A j \in Positions : j \in Nat
      BY Places
    <2> QED BY <2>1, Places
<1>2. ASSUME NEW q \in Slots, q # <<table, offset>>, q # <<"optimal", index>>
      PROVE  Q.slot[q] = P.slot[q] /\ (P.slot[q] # NIL => Q.nodes[P.slot[q]] = P.nodes[P.slot[q]])
    BY <1>2 DEF Relaxed
<1>3. ASSUME NEW t \in Offsets, table = "last_match" \/ t # offset PROVE SameLiterals(P, Q, t)
    <2>1. <<"last_literal", t>> # <<table, offset>> /\ <<"last_literal", t>> # <<"optimal", index>>
      BY <1>3
    <2> QED BY <1>1, <1>2, <2>1 DEF SameLiterals, LastLiteral
<1>4. ASSUME NEW j \in Positions, j < index, Optimal(P, j) # NIL
      PROVE  Optimal(Q, j) = Optimal(P, j) /\ Q.nodes[Optimal(P, j)] = P.nodes[Optimal(P, j)]
    <2>1. <<"optimal", j>> # <<table, offset>> /\ <<"optimal", j>> # <<"optimal", index>>
      BY <1>1, <1>4
    <2> QED BY <1>1, <1>2, <1>4, <2>1 DEF Optimal
<1> QED BY <1>3, <1>4 DEF SameBefore

\* Costs are numbers, and as long as the blocks before this position stay, the same.
LEMMA AtType ==
    ASSUME Within, NEW P, NEW late \in {offset, offset + 1}, Fit(P, index, late), NEW len \in 1 .. index
    PROVE  /\ index - len \in Positions /\ Optimal(P, index - len) \in Blocks(P)
           /\ Optimal(P, index - len) # NIL /\ <<"optimal", index - len>> \in Slots
           /\ At(P, len) \in Int
           /\ \A Q : SameBefore(P, Q) => At(Q, len) = At(P, len)
<1>1. index \in Nat /\ n \in Nat /\ index <= n - 1
    BY Places
<1>2. index - len \in Positions /\ index - len < index /\ len \in Nat \ {0}
    BY <1>1 DEF Positions
<1>3. Optimal(P, index - len) # NIL /\ Good(P, {}) /\ <<"optimal", index - len>> \in Slots
    BY <1>2 DEF Fit, Slots
<1>4. P.nodes[Optimal(P, index - len)].bits \in Int /\ Optimal(P, index - len) \in Blocks(P)
    BY <1>3, BlockOf DEF Optimal
<1>5. NewLengthBits(len) \in Nat
    BY <1>2, CostType DEF Within
<1> QED BY <1>2, <1>3, <1>4, <1>5 DEF At, SameBefore

\* The best lengths grow: they stay best.
LEMMA GrownBest ==
    ASSUME Within, NEW P, NEW late \in {offset, offset + 1}, Fit(P, index, late),
           NEW size \in Nat, size >= Shortest, BestOnes(P, best_length, size),
           NEW ml \in Positions, size < ml, ml <= index
    PROVE  BestOnes(P, Grown(P, size, ml), ml)
<1>1. ml \in Nat /\ ml >= size /\ ml <= n - 1 /\ n \in Nat /\ index \in Nat /\ Shortest \in Nat /\ Shortest >= 1
    <2>1. n \in Nat /\ index \in Nat /\ ml \in Nat /\ ml <= n - 1
      BY Places DEF Positions
    <2> QED BY <2>1 DEF Shortest
<1>2. \A len \in Shortest .. ml : At(P, len) \in Int
    <2>1. \A len \in Shortest .. ml : len \in 1 .. index
      BY <1>1
    <2> QED BY <2>1, AtType
<1> DEFINE f == CHOOSE g : IsUpto(g, P, size, ml)
<1>3. IsUpto(f, P, size, ml)
    BY <1>1, UptoExists
<1>4. Grown(P, size, ml) =
          [k \in Positions |-> IF k \in (size + 1) .. ml THEN f[k].len ELSE best_length[k]]
    BY DEF Grown, IsUpto, At
<1> HIDE DEF f
<1> DEFINE Winner(k) == /\ f[k].len \in Shortest .. k /\ f[k].bits = At(P, f[k].len)
                       /\ \A j \in Shortest .. k : f[k].bits <= At(P, j)
<1>5. Winner(size)
    <2>1. size \in size .. ml /\ size \in Positions /\ size <= index /\ size \in Shortest .. size
      BY <1>1 DEF Positions
    <2>2. f[size] = [len |-> best_length[size], bits |-> At(P, best_length[size])]
      BY <1>3, <2>1 DEF IsUpto
    <2>3. Best(P, best_length[size], size)
      BY <2>1 DEF BestOnes
    <2>4. f[size].len = best_length[size] /\ f[size].bits = At(P, best_length[size])
      BY <2>2
    <2>5. \A j \in Shortest .. size : j \in Shortest .. ml
      BY <1>1
    <2>6. best_length[size] \in Shortest .. size /\ At(P, best_length[size]) \in Int
      BY <1>2, <2>3, <2>5 DEF Best
    <2>7. ASSUME NEW j \in Shortest .. size PROVE At(P, best_length[size]) <= At(P, j)
      <3>1. CASE j = best_length[size]
        BY <2>6, <3>1
      <3>2. CASE j # best_length[size]
        BY <2>3, <3>2 DEF Best
      <3> QED BY <3>1, <3>2
    <2> HIDE DEF At
    <2> QED BY <2>4, <2>6, <2>7
<1>6. ASSUME NEW k \in (size + 1) .. ml, Winner(k - 1) PROVE Winner(k)
    <2>1. k \in Nat /\ k \in size .. ml /\ k # size /\ k \in Shortest .. ml /\ k \in Shortest .. k
          /\ \A j \in Shortest .. k : j \in Shortest .. ml /\ (j = k \/ j \in Shortest .. (k - 1))
      BY <1>1
    <2>2. f[k] = IF At(P, k) <= f[k - 1].bits THEN [len |-> k, bits |-> At(P, k)] ELSE f[k - 1]
      BY <1>3, <2>1 DEF IsUpto
    <2>3. /\ f[k - 1].len \in Shortest .. k /\ f[k - 1].bits = At(P, f[k - 1].len)
          /\ f[k - 1].bits \in Int /\ At(P, k) \in Int
          /\ \A j \in Shortest .. (k - 1) : f[k - 1].bits <= At(P, j)
          /\ \A j \in Shortest .. k : At(P, j) \in Int
      <3>1. f[k - 1].len \in Shortest .. (k - 1) /\ f[k - 1].bits = At(P, f[k - 1].len)
            /\ \A j \in Shortest .. (k - 1) : f[k - 1].bits <= At(P, j)
        BY <1>6
      <3>2. f[k - 1].len \in Shortest .. k /\ f[k - 1].len \in Shortest .. ml
        BY <1>1, <2>1, <3>1
      <3> HIDE DEF At
      <3> QED BY <1>2, <2>1, <3>1, <3>2
    <2> HIDE DEF At
    <2>4. CASE At(P, k) <= f[k - 1].bits
      <3>1. f[k].len = k /\ f[k].bits = At(P, k)
        BY <2>2, <2>4
      <3>2. \A j \in Shortest .. k : At(P, k) <= At(P, j)
        BY <2>1, <2>3, <2>4
      <3> QED BY <2>1, <3>1, <3>2
    <2>5. CASE ~(At(P, k) <= f[k - 1].bits)
      <3>1. f[k] = f[k - 1]
        BY <2>2, <2>5
      <3>2. \A j \in Shortest .. k : f[k - 1].bits <= At(P, j)
        BY <2>1, <2>3, <2>5
      <3> QED BY <2>3, <3>1, <3>2
    <2> QED BY <2>4, <2>5
<1> HIDE DEF Winner
<1> DEFINE Bad == {k \in Nat : k \in size .. ml /\ ~Winner(k)}
<1>7. ASSUME Bad # {} PROVE FALSE
    <2>1. PICK k \in Bad : \A y \in Bad : k <= y
      BY <1>7, LeastNatural
    <2>2. k \in Nat /\ k \in size .. ml /\ ~Winner(k) /\ k # size
      BY <1>5, <2>1
    <2>3. k \in (size + 1) .. ml /\ k - 1 \in Nat /\ k - 1 \in size .. ml /\ ~(k <= k - 1)
      BY <1>1, <2>2
    <2>4. Winner(k - 1)
      BY <2>1, <2>3
    <2> QED BY <1>6, <2>2, <2>3, <2>4
<1>8. \A k \in (size + 1) .. ml : Winner(k)
    <2>1. \A k \in (size + 1) .. ml : k \in Nat /\ k \in size .. ml
      BY <1>1
    <2>2. Bad = {}
      <3> HIDE DEF Bad
      <3> QED BY <1>7
    <2> QED BY <2>1, <2>2
<1>9. ASSUME NEW k \in Positions, k \in Shortest .. ml, k <= index
      PROVE  Best(P, Grown(P, size, ml)[k], k)
    <2>1. Grown(P, size, ml)[k] = IF k \in (size + 1) .. ml THEN f[k].len ELSE best_length[k]
      BY <1>4
    <2>2. CASE k \in (size + 1) .. ml
      <3>1. Winner(k)
        BY <1>8, <2>2
      <3> HIDE DEF At
      <3> QED BY <2>1, <2>2, <3>1 DEF Best, Winner
    <2>3. CASE k \notin (size + 1) .. ml
      <3>1. k \in Shortest .. size
        BY <1>1, <1>9, <2>3
      <3> QED BY <1>9, <2>1, <2>3, <3>1 DEF BestOnes
    <2> QED BY <2>2, <2>3
<1>10. ASSUME Shortest \in Positions PROVE Grown(P, size, ml)[Shortest] = Shortest
    <2>1. Shortest \notin (size + 1) .. ml
      BY <1>1
    <2> QED BY <1>4, <1>10, <2>1 DEF BestOnes
<1> QED BY <1>9, <1>10 DEF BestOnes

-----------------------------------------------------------------------------
(* The steps keep the links.                                               *)

\* The blocks the steps make: a repetition, a match at a new offset, literals.
RepBlock(P, ll) ==
    Block(P.nodes[ll].bits + RepBits(index - P.nodes[ll].index), index, offset, ll)
NewBlock(P, len) ==
    Block(P.nodes[Optimal(P, index - len)].bits + NewBits(offset, len), index, offset,
          Optimal(P, index - len))
LiteralsBlock(P, lm) ==
    Block(P.nodes[lm].bits + LiteralBits(index - P.nodes[lm].index), index, 0, lm)

\* Behind literals at this offset there is a repetition that ends here.
Repeated(P) ==
    LET ll == LastLiteral(P, offset)
        lm == LastMatch(P, offset)
    IN  ll # NIL =>
            /\ lm # NIL /\ P.nodes[lm].index = index
            /\ P.nodes[lm].bits = P.nodes[ll].bits + RepBits(index - P.nodes[ll].index)

\* A match at the last offset.
LEMMA LastOffsetLinks ==
    ASSUME Within, Fit(pool, index, offset), index > 0, Links(pool), Matches,
           match_length \in [Offsets -> Nat],
           Runs(match_length, index, offset), Placed(pool, match_length, index, offset),
           NEW P, P = LastOffset(pool)
    PROVE  /\ Links(P) /\ Repeated(P) /\ SameBefore(pool, P)
           /\ \A t \in Offsets : SameLiterals(pool, P, t)
           /\ IF LastLiteral(pool, offset) = NIL THEN P = pool
              ELSE Relaxed(pool, P, <<"last_match", offset>>, <<"optimal", index>>,
                           RepBlock(pool, LastLiteral(pool, offset)))
<1>1. /\ index \in Nat /\ offset \in Nat /\ offset \in Offsets /\ offset >= 1
      /\ <<"last_literal", offset>> \in Slots
    BY Places
<1>2. PICK ll : ll = LastLiteral(pool, offset)
    OBVIOUS
<1>3. CASE ll = NIL
    <2>1. P = pool
      BY <1>2, <1>3 DEF LastOffset
    <2> QED BY <1>2, <1>3, <2>1 DEF Repeated, SameBefore, SameLiterals
<1>4. CASE ll # NIL
    <2> DEFINE len == index - pool.nodes[ll].index
               bits == pool.nodes[ll].bits + RepBits(len)
               node == Block(bits, index, offset, ll)
    <2>1. P = Relax(pool, "last_match", offset, bits, ll)
      BY <1>2, <1>4 DEF LastOffset
    <2>2. ll = pool.slot[<<"last_literal", offset>>]
      BY <1>2 DEF LastLiteral
    <2>3. Good(pool, {})
      BY DEF Fit
    <2>4. pool.nodes[ll].bits \in Nat \cup {-1} /\ pool.nodes[ll].index \in Nat \cup {-1}
          /\ ll \in Blocks(pool)
      BY <1>1, <1>4, <2>2, <2>3, BlockOf
    <2>5. match_length[offset] \in Nat /\ len = match_length[offset] + 1 /\ len \in Nat \ {0}
      <3>1. match_length[offset] \in Nat
        BY <1>1
      <3>2. pool.nodes[ll].index = (index - 1) - match_length[offset]
        BY <1>1, <1>2, <1>4 DEF Placed, Done
      <3> QED BY <1>1, <3>1, <3>2
    <2>6. bits \in Nat
      <3>1. RepBits(len) \in Nat \ {0}
        <4> HIDE DEF len
        <4> QED BY <2>5, CostType DEF Within
      <3> HIDE DEF len
      <3> QED BY <2>4, <3>1
    <2>7. Copies(index + 1, offset, len)
      <3>1. Copies(index, offset, match_length[offset])
        <4>1. Done(offset, index, offset) = index - 1 /\ (index - 1) + 1 = index
          BY <1>1 DEF Done
        <4>2. Copies(Done(offset, index, offset) + 1, offset, match_length[offset])
          BY <1>1 DEF Runs, Longest
        <4> QED BY <4>1, <4>2
      <3>2. RepeatsAt(index + 1, offset)
        <4>1. index + 1 > offset /\ (index + 1) - offset = index - offset + 1
          BY <1>1 DEF Matches
        <4> QED BY <4>1 DEF Matches, RepeatsAt
      <3>3. ASSUME NEW j \in (index + 1 - len + 1) .. (index + 1) PROVE RepeatsAt(j, offset)
        <4> HIDE DEF len
        <4>1. j = index + 1 \/ j \in (index - match_length[offset] + 1) .. index
          BY <1>1, <2>5
        <4> QED BY <3>1, <3>2, <4>1 DEF Copies
      <3> HIDE DEF len
      <3> QED BY <1>1, <2>5, <3>3 DEF Copies
    <2>8. /\ node.bits = bits /\ node.index = index /\ node.offset = offset /\ node.chain = ll
      BY DEF Block
    <2> HIDE DEF bits, node
    <2>9. Before(pool, node) = pool.nodes[ll] /\ Length(pool, node) = len
      BY <2>8 DEF Before, Length
    <2>10. IsUnit(pool, node)
      <3>1. pool.nodes[ll].offset = 0 /\ Behind(pool, pool.nodes[ll]) = offset
        BY <1>1, <1>2, <1>4 DEF Links, LastOnes
      <3>2. IsRep(pool, node)
        BY <1>1, <2>7, <2>8, <2>9, <3>1 DEF IsRep, Copied, Repeating, bits
      <3>3. len > 0
        BY <2>5
      <3> QED BY <1>4, <2>8, <2>9, <3>2, <3>3 DEF IsUnit
    <2>11. /\ Links(P)
           /\ Relaxed(pool, P, <<"last_match", offset>>, <<"optimal", index>>, node)
      <3> HIDE DEF len
      <3>1. node = Block(bits, index, offset, ll)
        BY DEF node
      <3> QED BY <1>1, <1>4, <2>1, <2>2, <2>6, <2>10, <3>1, RelaxLinks
    <2>12. SameBefore(pool, P) /\ \A t \in Offsets : SameLiterals(pool, P, t)
      BY <2>11, RelaxedSame
    <2>13. Repeated(P)
      <3>1. Refers(P, <<"last_match", offset>>, node)
        BY <2>11 DEF Relaxed
      <3>2. LastMatch(P, offset) # NIL /\ P.nodes[LastMatch(P, offset)] = node
        BY <3>1 DEF Refers, LastMatch, Blocks, NIL
      <3>3. LastLiteral(P, offset) = ll /\ P.nodes[ll] = pool.nodes[ll]
        BY <1>1, <1>2, <1>4, <2>12 DEF SameLiterals
      <3>4. index - P.nodes[ll].index = len
        BY <3>3
      <3> HIDE DEF len
      <3> QED BY <2>8, <3>2, <3>3, <3>4 DEF Repeated, bits
    <2>14. node = RepBlock(pool, ll)
      BY DEF node, bits, RepBlock
    <2> HIDE DEF len
    <2> QED BY <1>2, <1>4, <2>11, <2>12, <2>13, <2>14
<1> QED BY <1>3, <1>4

\* What copies from here back to a block of copies copies no more than the longest.
LEMMA LongestCopy ==
    ASSUME NEW i \in Nat, NEW t, NEW ml \in Nat, ml <= i, Longest(i, t, ml),
           NEW len \in Nat, NEW more \in Nat,
           Copies(i + 1, t, len), Copies(i + 1 - len, t, more)
    PROVE  len + more <= ml
<1>1. ASSUME len + more > ml PROVE FALSE
    <2>1. ~RepeatsAt(i + 1 - ml, t)
      BY DEF Longest
    <2>2. CASE ml < len
      <3>1. i + 1 - ml \in (i + 1 - len + 1) .. (i + 1)
        BY <2>2
      <3> QED BY <2>1, <3>1 DEF Copies
    <2>3. CASE ~(ml < len)
      <3>1. i + 1 - ml \in (i + 1 - len - more + 1) .. (i + 1 - len)
        BY <1>1, <2>3
      <3> QED BY <2>1, <3>1 DEF Copies
    <2> QED BY <2>2, <2>3
<1> QED BY <1>1

\* A match at a new offset: a repetition, or a longer match, would have been taken
\* before one that the writers would take for something else.
LEMMA NewOffsetLinks ==
    ASSUME Within, index > 0, NEW P, Fit(P, index, offset + 1), Links(P), Repeated(P),
           NEW ml \in 1 .. index, Longest(index, offset, ml),
           LastLiteral(P, offset) # NIL => P.nodes[LastLiteral(P, offset)].index = index - ml,
           NEW len, Best(P, len, ml), NEW Q, Q = NewOffset(P, len)
    PROVE  /\ Links(Q) /\ SameBefore(P, Q)
           /\ \A t \in Offsets : SameLiterals(P, Q, t)
           /\ \/ /\ Q = P /\ LastMatch(P, offset) # NIL
                 /\ P.nodes[LastMatch(P, offset)].index = index
                 /\ ~(P.nodes[LastMatch(P, offset)].bits > NewBlock(P, len).bits)
              \/ /\ Relaxed(P, Q, <<"last_match", offset>>, <<"optimal", index>>, NewBlock(P, len))
                 /\ LastLiteral(P, offset) # NIL =>
                        P.nodes[LastMatch(P, offset)].bits > NewBlock(P, len).bits
                 /\ IsNew(P, NewBlock(P, len))
<1>1. /\ index \in Nat /\ offset \in Nat \ {0} /\ offset \in Offsets /\ Shortest \in {1, 2}
      /\ len \in Shortest .. ml /\ len \in 1 .. index /\ len \in Nat \ {0} /\ len >= Shortest
      /\ len <= ml /\ ml \in Nat /\ ml <= index
      /\ <<"last_literal", offset>> \in Slots /\ <<"last_match", offset>> \in Slots
    <2>1. /\ index \in Nat /\ offset \in Nat /\ offset \in Offsets /\ offset >= 1
          /\ <<"last_literal", offset>> \in Slots /\ <<"last_match", offset>> \in Slots
      BY Places
    <2>2. Shortest \in {1, 2} /\ len \in Shortest .. ml
      BY DEF Shortest, Best
    <2> QED BY <2>1, <2>2
<1>2. PICK c : c = Optimal(P, index - len)
    OBVIOUS
<1>3. /\ index - len \in Positions /\ c \in Blocks(P) /\ c # NIL /\ <<"optimal", index - len>> \in Slots
      /\ c = P.slot[<<"optimal", index - len>>]
    BY <1>1, <1>2, AtType DEF Optimal
<1>4. Good(P, {}) /\ Linked(P) /\ LastOnes(P) /\ Latest(P) /\ Ending(P)
    BY DEF Fit, Links
<1>5. P.nodes[c].index = index - len /\ P.nodes[c].bits \in Nat \cup {-1}
    BY <1>2, <1>3, <1>4, BlockOf DEF Ending
<1> DEFINE bits == P.nodes[c].bits + NewBits(offset, len)
           node == Block(bits, index, offset, c)
           lm == LastMatch(P, offset)
<1>6. NewBits(offset, len) \in Nat \ {0} /\ bits \in Nat
    <2>1. NewBits(offset, len) \in Nat \ {0}
      BY <1>1, CostType DEF Within
    <2> QED BY <1>5, <2>1
<1>7. \/ Q = P /\ lm # NIL /\ P.nodes[lm].index = index /\ ~(P.nodes[lm].bits > bits)
      \/ /\ Q = Relax(P, "last_match", offset, bits, c)
         /\ lm = NIL \/ P.nodes[lm].index # index \/ P.nodes[lm].bits > bits
    BY <1>2 DEF NewOffset
<1>8. Copies(index + 1, offset, len)
    <2>1. \A j \in (index + 1 - len + 1) .. (index + 1) : j \in (index + 1 - ml + 1) .. (index + 1)
      BY <1>1
    <2> QED BY <1>1, <2>1 DEF Longest, Copies
<1>9. ASSUME NEW b \in Blocks(P), P.nodes[b].offset = 0, Behind(P, P.nodes[b]) = offset,
             P.nodes[b].index >= index - ml
      PROVE  /\ LastLiteral(P, offset) = b
             /\ lm # NIL /\ P.nodes[lm].index = index
             /\ P.nodes[lm].bits = P.nodes[b].bits + RepBits(index - P.nodes[b].index)
    <2>1. /\ LastLiteral(P, offset) # NIL
          /\ LastLiteral(P, offset) = b \/ P.nodes[LastLiteral(P, offset)].index > P.nodes[b].index
      BY <1>4, <1>9 DEF Latest
    <2>2. P.nodes[LastLiteral(P, offset)].index = index - ml /\ P.nodes[b].index \in Int
      BY <1>4, <2>1, ChainType
    <2>3. LastLiteral(P, offset) = b
      BY <1>1, <1>9, <2>1, <2>2
    <2> QED BY <2>1, <2>3 DEF Repeated
<1> HIDE DEF lm, bits
<1>10. ASSUME lm = NIL \/ P.nodes[lm].index # index \/ P.nodes[lm].bits > bits
       PROVE  ~(P.nodes[c].offset = 0 /\ Behind(P, P.nodes[c]) = offset)
    <2> SUFFICES ASSUME P.nodes[c].offset = 0, Behind(P, P.nodes[c]) = offset PROVE FALSE
      OBVIOUS
    <2>1. /\ lm # NIL /\ P.nodes[lm].index = index
          /\ P.nodes[lm].bits = P.nodes[c].bits + RepBits(index - P.nodes[c].index)
      <3>1. P.nodes[c].index >= index - ml
        BY <1>1, <1>5
      <3> QED BY <1>3, <1>9, <3>1
    <2>2. index - P.nodes[c].index = len
      BY <1>1, <1>5
    <2>3. RepBits(len) <= NewBits(offset, len) /\ RepBits(len) \in Nat \ {0}
      BY <1>1, RepCheaper, CostType DEF Within
    <2> QED BY <1>5, <1>6, <1>10, <2>1, <2>2, <2>3 DEF bits
<1>11. ASSUME lm = NIL \/ P.nodes[lm].index # index \/ P.nodes[lm].bits > bits,
              trial.variant = "zx0"
       PROVE  P.nodes[c].offset # offset
    <2> SUFFICES ASSUME P.nodes[c].offset = offset PROVE FALSE
      OBVIOUS
    <2>1. PICK d : d = P.nodes[c].chain
      OBVIOUS
    <2>2. d # NIL
      <3>1. P.nodes[c].index >= 0 /\ P.nodes[c].index \in Int
        BY <1>1, <1>5
      <3>2. First.index = -1
        BY DEF First, Block
      <3> QED BY <1>3, <1>4, <2>1, <3>1, <3>2 DEF Linked, IsUnit
    <2>3. d \in Blocks(P) /\ P.nodes[d].index \in Int /\ P.nodes[d].bits \in Int
      BY <1>3, <1>4, <2>1, <2>2, ChainType
    <2>4. PICK more : more = P.nodes[c].index - P.nodes[d].index
      OBVIOUS
    <2>5. /\ Before(P, P.nodes[c]) = P.nodes[d] /\ Length(P, P.nodes[c]) = more
      BY <2>1, <2>4 DEF Before, Length
    <2>6. more > 0 /\ (IsRep(P, P.nodes[c]) \/ IsNew(P, P.nodes[c]))
      <3>1. ~IsLiterals(P, P.nodes[c])
        BY <1>1 DEF IsLiterals
      <3> QED BY <1>3, <1>4, <2>1, <2>2, <2>5, <3>1 DEF Linked, IsUnit
    <2>7. /\ more \in Nat \ {0} /\ P.nodes[d].index = index - len - more
          /\ index - P.nodes[d].index = more + len
      BY <1>1, <1>5, <2>3, <2>4, <2>6
    <2>8. Copies(index + 1 - len, offset, more)
      <3>1. P.nodes[c].index + 1 = index + 1 - len
        BY <1>1, <1>5
      <3> QED BY <2>5, <2>6, <3>1 DEF IsRep, IsNew, Copied
    <2>9. len + more <= ml
      BY <1>1, <1>8, <2>7, <2>8, LongestCopy
    <2>10. len \in Nat \ {0, 1}
      BY <1>1, <1>11 DEF Shortest
    <2>11. CASE IsRep(P, P.nodes[c])
      <3>1. P.nodes[d].offset = 0 /\ Behind(P, P.nodes[d]) = offset
            /\ P.nodes[c].bits = P.nodes[d].bits + RepBits(more)
        BY <2>5, <2>11 DEF IsRep, Repeating
      <3>2. P.nodes[d].index >= index - ml
        BY <1>1, <2>7, <2>9
      <3>3. /\ lm # NIL /\ P.nodes[lm].index = index
            /\ P.nodes[lm].bits = P.nodes[d].bits + RepBits(more + len)
        BY <1>9, <2>3, <2>7, <3>1, <3>2
      <3>4. RepBits(more + len) <= RepBits(more) + NewBits(offset, len)
        BY <1>1, <1>11, <2>7, <2>10, RepLonger DEF Within
      <3>5. RepBits(more) \in Nat \ {0} /\ RepBits(more + len) \in Nat \ {0}
        <4>1. more + len \in Nat \ {0}
          BY <1>1, <2>7
        <4> QED BY <2>7, <4>1, CostType DEF Within
      <3> QED BY <1>6, <1>11, <2>3, <3>1, <3>3, <3>4, <3>5 DEF bits
    <2>12. CASE IsNew(P, P.nodes[c])
      <3>1. /\ P.nodes[d].index \in Positions /\ d = Optimal(P, P.nodes[d].index)
            /\ P.nodes[c].bits = P.nodes[d].bits + NewBits(offset, more) /\ more >= Shortest
        <4>1. PICK block, before : block = P.nodes[c] /\ before = P.nodes[d]
          OBVIOUS
        <4>2. IsNew(P, block) /\ Before(P, block) = before /\ Length(P, block) = more /\ block.chain = d
              /\ block.offset = offset
          BY <2>1, <2>5, <2>12, <4>1
        <4>3. /\ before.index \in Positions /\ d = Optimal(P, before.index)
              /\ block.bits = before.bits + NewBits(offset, more) /\ more >= Shortest
          BY <4>2 DEF IsNew
        <4> QED BY <4>1, <4>3
      <3>2. more \in Nat \ {0, 1}
        BY <1>11, <2>7, <3>1 DEF Shortest
      <3>3. index - (more + len) = P.nodes[d].index /\ more + len \in Shortest .. ml /\ more + len # len
        BY <1>1, <2>7, <2>9
      <3>4. At(P, len) <= At(P, more + len)
        BY <3>3 DEF Best
      <3>5. /\ At(P, len) = P.nodes[c].bits + NewLengthBits(len)
            /\ At(P, more + len) = P.nodes[d].bits + NewLengthBits(more + len)
        BY <1>2, <3>1, <3>3 DEF At
      <3>6. NewLengthBits(more + len) < NewBits(offset, more) + NewLengthBits(len)
        BY <1>1, <1>11, <2>10, <3>2, NewLonger DEF Within
      <3>7. /\ NewLengthBits(more + len) \in Nat /\ NewLengthBits(len) \in Nat
            /\ NewBits(offset, more) \in Nat
        <4>1. more + len \in Nat \ {0} /\ more \in Nat \ {0}
          BY <1>1, <2>7
        <4> QED BY <1>1, <4>1, CostType DEF Within
      <3> QED BY <2>3, <3>1, <3>4, <3>5, <3>6, <3>7
    <2> QED BY <2>6, <2>11, <2>12
<1>12. /\ node.bits = bits /\ node.index = index /\ node.offset = offset /\ node.chain = c
    BY DEF Block
<1> HIDE DEF node
<1>13. /\ Before(P, node) = P.nodes[c] /\ Length(P, node) = len
    BY <1>1, <1>5, <1>12 DEF Before, Length
<1>14. ASSUME lm = NIL \/ P.nodes[lm].index # index \/ P.nodes[lm].bits > bits
       PROVE  IsUnit(P, node) /\ IsNew(P, node)
    <2>1. ~Repeating(P, node) /\ (trial.variant = "zx0" => Before(P, node).offset # node.offset)
      BY <1>10, <1>11, <1>12, <1>13, <1>14 DEF Repeating
    <2>2. Copied(P, node)
      BY <1>8, <1>12, <1>13 DEF Copied
    <2>3. IsNew(P, node)
      BY <1>1, <1>2, <1>3, <1>5, <1>12, <1>13, <2>1, <2>2 DEF IsNew, bits
    <2>4. Length(P, node) > 0
      BY <1>1, <1>13
    <2> QED BY <1>3, <1>12, <2>3, <2>4 DEF IsUnit
<1>15. CASE Q = P /\ lm # NIL /\ P.nodes[lm].index = index /\ ~(P.nodes[lm].bits > bits)
    <2>1. NewBlock(P, len).bits = bits
      BY <1>2 DEF NewBlock, Block, bits
    <2> QED BY <1>15, <2>1 DEF SameBefore, SameLiterals, lm
<1>16. CASE /\ Q = Relax(P, "last_match", offset, bits, c)
            /\ lm = NIL \/ P.nodes[lm].index # index \/ P.nodes[lm].bits > bits
    <2>1. IsUnit(P, Block(bits, index, offset, c))
      BY <1>14, <1>16 DEF node
    <2>2. /\ Links(Q)
          /\ Relaxed(P, Q, <<"last_match", offset>>, <<"optimal", index>>,
                     Block(bits, index, offset, c))
      <3>1. PICK r : r = <<"optimal", index - len>>
        OBVIOUS
      <3>2. r \in Slots /\ c = P.slot[r]
        BY <1>3, <3>1
      <3> QED BY <1>3, <1>6, <1>16, <2>1, <3>2, RelaxLinks
    <2>3. NewBlock(P, len) = Block(bits, index, offset, c)
      BY <1>2 DEF NewBlock, bits
    <2>4. IsNew(P, NewBlock(P, len))
      BY <1>14, <1>16, <2>3 DEF node
    <2>5. LastLiteral(P, offset) # NIL => P.nodes[LastMatch(P, offset)].bits > NewBlock(P, len).bits
      <3>1. NewBlock(P, len).bits = bits
        BY <2>3 DEF Block
      <3> QED BY <1>16, <3>1 DEF Repeated, lm
    <2>6. SameBefore(P, Q) /\ \A t \in Offsets : SameLiterals(P, Q, t)
      BY <2>2, RelaxedSame
    <2> QED BY <2>2, <2>3, <2>4, <2>5, <2>6
<1> QED BY <1>7, <1>15, <1>16

\* Literals.
LEMMA LiteralsLinks ==
    ASSUME Within, Fit(pool, index, offset), Links(pool), NEW Q,
           Q = LiteralsPool
    PROVE  /\ Links(Q) /\ SameBefore(pool, Q)
           /\ \A t \in Offsets : t # offset => SameLiterals(pool, Q, t)
           /\ LastLiteral(Q, offset) # NIL => Q.nodes[LastLiteral(Q, offset)].index = index
           /\ IF LastMatch(pool, offset) = NIL THEN Q = pool
              ELSE Relaxed(pool, Q, <<"last_literal", offset>>, <<"optimal", index>>,
                           LiteralsBlock(pool, LastMatch(pool, offset)))
<1>1. /\ index \in Nat /\ offset \in Nat /\ offset \in Offsets /\ offset >= 1
      /\ <<"last_match", offset>> \in Slots
    BY Places
<1>2. PICK lm : lm = LastMatch(pool, offset)
    OBVIOUS
<1>3. CASE lm = NIL
    <2>1. Q = pool
      BY <1>2, <1>3 DEF LiteralsPool
    <2>2. LastLiteral(pool, offset) = NIL
      BY <1>1, <1>2, <1>3 DEF Links, LastOnes
    <2> QED BY <1>2, <1>3, <2>1, <2>2 DEF SameBefore, SameLiterals
<1>4. CASE lm # NIL
    <2> DEFINE len == index - pool.nodes[lm].index
               bits == pool.nodes[lm].bits + LiteralBits(len)
               node == Block(bits, index, 0, lm)
    <2>1. Q = Relax(pool, "last_literal", 0, bits, lm)
      BY <1>2, <1>4 DEF LiteralsPool
    <2>2. lm = pool.slot[<<"last_match", offset>>]
      BY <1>2 DEF LastMatch
    <2>3. Good(pool, {}) /\ Earlier(pool, lm, index)
      BY <1>1, <1>2 DEF Fit
    <2>4. pool.nodes[lm].bits \in Nat \cup {-1} /\ pool.nodes[lm].index \in Nat \cup {-1}
          /\ lm \in Blocks(pool)
      BY <1>1, <1>4, <2>2, <2>3, BlockOf
    <2>5. len \in Nat \ {0}
      BY <1>1, <1>4, <2>3, <2>4 DEF Earlier
    <2>6. bits \in Nat
      <3>1. LiteralBits(len) \in Nat \ {0}
        <4> HIDE DEF len
        <4> QED BY <2>5, CostType DEF Within
      <3> HIDE DEF len
      <3> QED BY <2>4, <3>1
    <2>7. /\ node.bits = bits /\ node.index = index /\ node.offset = 0 /\ node.chain = lm
      BY DEF Block
    <2> HIDE DEF bits, node
    <2>8. Before(pool, node) = pool.nodes[lm] /\ Length(pool, node) = len
      BY <2>7 DEF Before, Length
    <2>9. IsUnit(pool, node)
      <3>1. pool.nodes[lm].offset = offset /\ offset # 0
        BY <1>1, <1>2, <1>4 DEF Links, LastOnes
      <3>2. IsLiterals(pool, node)
        BY <2>7, <2>8, <3>1 DEF IsLiterals, bits
      <3>3. len > 0
        BY <2>5
      <3> QED BY <1>4, <2>7, <2>8, <3>2, <3>3 DEF IsUnit
    <2>10. /\ Links(Q)
           /\ Relaxed(pool, Q, <<"last_literal", offset>>, <<"optimal", index>>, node)
      <3> HIDE DEF len
      <3>1. node = Block(bits, index, 0, lm)
        BY DEF node
      <3> QED BY <1>1, <1>4, <2>1, <2>2, <2>6, <2>9, <3>1, RelaxLinks
    <2>11. SameBefore(pool, Q) /\ \A t \in Offsets : t # offset => SameLiterals(pool, Q, t)
      <3>1. PICK table : table = "last_literal"
        OBVIOUS
      <3>2. table \in {"last_literal", "last_match"} /\ table # "last_match"
        BY <3>1
      <3>3. Relaxed(pool, Q, <<table, offset>>, <<"optimal", index>>, node)
        BY <2>10, <3>1
      <3>4. SameBefore(pool, Q)
            /\ \A t \in Offsets : table = "last_match" \/ t # offset => SameLiterals(pool, Q, t)
        <4> HIDE DEF len
        <4> QED BY <3>2, <3>3, RelaxedSame
      <3> QED BY <3>2, <3>4
    <2>12. Q.nodes[LastLiteral(Q, offset)] = node
      <3> HIDE DEF len
      <3>1. Refers(Q, <<"last_literal", offset>>, node)
        BY <2>10, Zenon DEF Relaxed
      <3> QED BY <3>1, Zenon DEF Refers, LastLiteral
    <2>13. node = LiteralsBlock(pool, lm)
      BY DEF node, bits, LiteralsBlock
    <2> HIDE DEF len
    <2> QED BY <1>2, <1>4, <2>7, <2>10, <2>11, <2>12, <2>13
<1> QED BY <1>3, <1>4

\* The best lengths are best as long as the blocks before this position stay.
LEMMA BestSame ==
    ASSUME Within, NEW P, NEW late \in {offset, offset + 1}, Fit(P, index, late),
           NEW Q, SameBefore(P, Q), NEW best, NEW size, BestOnes(P, best, size)
    PROVE  BestOnes(Q, best, size)
<1>1. index \in Nat /\ Shortest \in {1, 2} /\ \A k \in Positions : k \in Nat
    <2>1. index \in Nat /\ \A k \in Positions : k \in Nat
      BY Places
    <2> QED BY <2>1 DEF Shortest
<1>2. ASSUME NEW k \in Positions, k \in Shortest .. size, k <= index PROVE Best(Q, best[k], k)
    <2>1. Best(P, best[k], k)
      BY <1>2 DEF BestOnes
    <2>2. \A j \in Shortest .. k : j \in 1 .. index
      BY <1>1, <1>2
    <2>3. \A j \in Shortest .. k : At(Q, j) = At(P, j)
      BY <2>2, AtType
    <2> QED BY <2>1, <2>3 DEF Best
<1> QED BY <1>2 DEF BestOnes

\* The links of the blocks, with the lengths of the copies and the best lengths.
LinkInv ==
    /\ Links(pool)
    /\ Runs(match_length, index, offset)
    /\ Placed(pool, match_length, index, offset)
    /\ index < n => BestOnes(pool, best_length, best_size)

\* What depends on the trial alone stays.
LEMMA LinksKept ==
    ASSUME trial' = trial
    PROVE  /\ \A P : (Links(P)' <=> Links(P))
           /\ \A l, i, o : (Runs(l, i, o)' <=> Runs(l, i, o))
           /\ \A P, l, i, o : (Placed(P, l, i, o)' <=> Placed(P, l, i, o))
           /\ \A i, t, k : (Longest(i, t, k)' <=> Longest(i, t, k))
           /\ index' = index => \A P, b, s : (BestOnes(P, b, s)' <=> BestOnes(P, b, s))
<1>1. /\ n' = n /\ Offsets' = Offsets /\ Positions' = Positions /\ Shortest' = Shortest
      /\ \A i : Ceiling(i)' = Ceiling(i)
    BY TrialKept
<1>2. \A v : Gamma(v)' = Gamma(v)
    BY DEF Gamma
<1>3. /\ \A k : NewLengthBits(k)' = NewLengthBits(k) /\ LiteralBits(k)' = LiteralBits(k)
                /\ RepBits(k)' = RepBits(k)
      /\ \A o : OffsetBits(o)' = OffsetBits(o)
    BY <1>2 DEF NewLengthBits, LiteralBits, RepBits, OffsetBits
<1>4. \A o, k : NewBits(o, k)' = NewBits(o, k)
    BY <1>3 DEF NewBits
<1>5. \A i, o : (RepeatsAt(i, o)' <=> RepeatsAt(i, o))
    BY DEF RepeatsAt, input
<1>6. \A i, o, k : (Copies(i, o, k)' <=> Copies(i, o, k))
    BY <1>5 DEF Copies
<1>7. \A P, node : (Copied(P, node)' <=> Copied(P, node))
    BY <1>6 DEF Copied
<1>8. \A P, node : /\ (IsLiterals(P, node)' <=> IsLiterals(P, node))
                   /\ (IsRep(P, node)' <=> IsRep(P, node))
    BY <1>3, <1>7 DEF IsLiterals, IsRep
<1>9. \A P, node : (IsNew(P, node)' <=> IsNew(P, node))
    BY <1>1, <1>4, <1>7 DEF IsNew
<1>10. \A P, node : (IsUnit(P, node)' <=> IsUnit(P, node))
    BY <1>8, <1>9 DEF IsUnit
<1>11. \A P : (Links(P)' <=> Links(P))
    BY <1>1, <1>10 DEF Links, Linked, LastOnes, Latest, Ending
<1>12. \A i, t, k : (Longest(i, t, k)' <=> Longest(i, t, k))
    BY <1>5, <1>6 DEF Longest
<1>13. \A l, i, o : (Runs(l, i, o)' <=> Runs(l, i, o))
    BY <1>1, <1>12 DEF Runs
<1>14. \A P, l, i, o : (Placed(P, l, i, o)' <=> Placed(P, l, i, o))
    BY <1>1 DEF Placed
<1>15. ASSUME index' = index PROVE \A P, b, s : (BestOnes(P, b, s)' <=> BestOnes(P, b, s))
    <2>1. \A P, k : At(P, k)' = At(P, k)
      BY <1>3, <1>15 DEF At
    <2> QED BY <1>1, <1>15, <2>1 DEF BestOnes, Best
<1> QED BY <1>11, <1>12, <1>13, <1>14, <1>15

\* What a step makes of the lengths at its offset is what the next one needs.
LEMMA NextLengths ==
    ASSUME Within, match_length \in [Offsets -> Nat], Runs(match_length, index, offset),
           Placed(pool, match_length, index, offset),
           NEW ml \in Nat, Longest(index, offset, ml),
           NEW lengths, lengths = [match_length EXCEPT ![offset] = ml], NEW Q,
           \A t \in Offsets : t # offset => SameLiterals(pool, Q, t),
           LastLiteral(Q, offset) # NIL => Q.nodes[LastLiteral(Q, offset)].index = index - ml
    PROVE  Runs(lengths, index, offset + 1) /\ Placed(Q, lengths, index, offset + 1)
<1>1. /\ index \in Nat /\ offset \in Nat /\ offset \in Offsets /\ \A t \in Offsets : t \in Nat
      /\ offset <= Ceiling(index)
    <2>1. index \in Nat /\ offset \in Nat /\ offset \in Offsets
      BY Places
    <2>2. \A t \in Offsets : t \in Nat
      BY Places
    <2>3. offset <= Ceiling(index)
      BY DEF Within
    <2> QED BY <2>1, <2>2, <2>3
<1>2. ASSUME NEW t \in Offsets
      PROVE  /\ t = offset => lengths[t] = ml /\ Done(t, index, offset + 1) = index
             /\ t # offset => /\ lengths[t] = match_length[t]
                              /\ Done(t, index, offset + 1) = Done(t, index, offset)
    <2>1. t < offset + 1 <=> t = offset \/ t < offset
      <3>1. PICK o \in Nat : o = offset
        BY <1>1
      <3>2. PICK x \in Nat : x = t
        BY <1>1
      <3>3. x < o + 1 <=> x = o \/ x < o
        OBVIOUS
      <3> QED BY <3>1, <3>2, <3>3
    <2>2. Done(t, index, offset + 1) = IF t = offset THEN index ELSE Done(t, index, offset)
      BY <2>1 DEF Done
    <2>3. lengths[t] = IF t = offset THEN ml ELSE match_length[t]
      OBVIOUS
    <2> QED BY <2>2, <2>3
<1>3. ASSUME NEW t \in Offsets PROVE Longest(Done(t, index, offset + 1), t, lengths[t])
    BY <1>2 DEF Runs
<1>4. ASSUME NEW t \in Offsets, LastLiteral(Q, t) # NIL
      PROVE  /\ t <= Ceiling(index)
             /\ Q.nodes[LastLiteral(Q, t)].index = Done(t, index, offset + 1) - lengths[t]
    <2>1. CASE t = offset
      BY <1>1, <1>2, <1>4, <2>1
    <2>2. CASE t # offset
      <3>1. SameLiterals(pool, Q, t)
        BY <2>2
      <3> QED BY <1>2, <1>4, <2>2, <3>1 DEF SameLiterals, Placed
    <2> QED BY <2>1, <2>2
<1> QED BY <1>3, <1>4 DEF Runs, Placed

\* Behind the last offset of a position, what the tables say of it is what they say
\* before the first of the next: no byte repeats one farther back than the input.
LEMMA WrapLengths ==
    ASSUME Within, offset = Ceiling(index), NEW lengths \in [Offsets -> Nat], NEW P,
           Runs(lengths, index, offset + 1), Placed(P, lengths, index, offset + 1)
    PROVE  Runs(lengths, index + 1, 1) /\ Placed(P, lengths, index + 1, 1)
<1>1. /\ index \in Nat /\ offset \in Nat /\ offset >= 1 /\ n \in Nat /\ index <= n - 1
      /\ trial.limit \in Nat /\ trial.limit >= 1
    <2>1. trial.limit \in Nat /\ trial.limit >= 1
      BY TrialType DEF Within
    <2> QED BY <2>1, Places
<1>2. \A t \in Offsets : t \in Nat /\ t >= 1 /\ t <= trial.limit
    <2>1. Ceiling(n - 1) \in Nat /\ Ceiling(n - 1) <= trial.limit
      BY <1>1 DEF Ceiling, INITIAL_OFFSET
    <2> QED BY <1>1, <2>1 DEF Offsets
<1>3. \A t \in Offsets : Done(t, index + 1, 1) = index
    BY <1>1, <1>2 DEF Done
<1>4. ASSUME NEW t \in Offsets, t > offset PROVE Longest(index, t, lengths[t])
    <2>1. t >= index + 1
      BY <1>1, <1>2, <1>4 DEF Ceiling, INITIAL_OFFSET
    <2>2. ~RepeatsAt(index, t) /\ ~RepeatsAt(index + 1, t)
      BY <1>1, <1>2, <2>1 DEF RepeatsAt
    <2>3. Done(t, index, offset + 1) = index - 1
      BY <1>1, <1>2, <1>4 DEF Done
    <2>4. Copies(index, t, lengths[t])
      <3>1. index - 1 + 1 = index
        BY <1>1
      <3>2. Longest(index - 1, t, lengths[t])
        BY <2>3 DEF Runs
      <3> QED BY <3>1, <3>2 DEF Longest
    <2>5. lengths[t] = 0
      <3>1. lengths[t] \in Nat
        OBVIOUS
      <3>2. CASE lengths[t] >= 1
        <4>1. index \in (index - lengths[t] + 1) .. index
          BY <1>1, <3>1, <3>2
        <4> QED BY <2>2, <2>4, <4>1 DEF Copies
      <3> QED BY <3>1, <3>2
    <2>6. Copies(index + 1, t, 0) /\ ~RepeatsAt(index + (1 - 0), t)
      <3>1. (index + 1) - 0 = index + 1 /\ index + (1 - 0) = index + 1 /\ \A j \in ((index + 1) - 0 + 1) .. (index + 1) : FALSE
        BY <1>1
      <3>2. Copies(index + 1, t, 0)
        BY <3>1, Zenon DEF Copies
      <3> QED BY <2>2, <3>1, <3>2, Zenon
    <2> QED BY <2>5, <2>6 DEF Longest
<1>5. ASSUME NEW t \in Offsets, t <= offset
      PROVE  Done(t, index, offset + 1) = index
    BY <1>1, <1>2, <1>5 DEF Done
<1>6. Runs(lengths, index + 1, 1)
    <2>1. ASSUME NEW t \in Offsets PROVE Longest(Done(t, index + 1, 1), t, lengths[t])
      <3>1. CASE t > offset
        BY <1>3, <1>4, <3>1
      <3>2. CASE t <= offset
        BY <1>3, <1>5, <3>2 DEF Runs
      <3> QED BY <1>1, <1>2, <3>1, <3>2
    <2> QED BY <2>1 DEF Runs
<1>7. Placed(P, lengths, index + 1, 1)
    <2>1. ASSUME NEW t \in Offsets, LastLiteral(P, t) # NIL
          PROVE  /\ t <= Ceiling(index + 1)
                 /\ P.nodes[LastLiteral(P, t)].index = Done(t, index + 1, 1) - lengths[t]
      <3>1. /\ t <= offset
            /\ P.nodes[LastLiteral(P, t)].index = Done(t, index, offset + 1) - lengths[t]
        BY <2>1 DEF Placed
      <3>2. offset <= Ceiling(index + 1) /\ Ceiling(index + 1) \in Nat
        BY <1>1 DEF Ceiling, INITIAL_OFFSET
      <3>3. t <= Ceiling(index + 1)
        BY <1>1, <1>2, <3>1, <3>2
      <3> QED BY <1>3, <1>5, <3>1, <3>3
    <2> QED BY <2>1 DEF Placed
<1> QED BY <1>6, <1>7

\* The end of every step: the loops go on.
LEMMA AdvanceLinks ==
    ASSUME Inv, Within, NEW size, Advance(size),
           NEW P, P = pool', NEW lengths \in [Offsets -> Nat], lengths = match_length',
           NEW best, best = best_length',
           Links(P), Runs(lengths, index, offset + 1), Placed(P, lengths, index, offset + 1),
           BestOnes(P, best, size)
    PROVE  LinkInv'
<1>1. /\ trial' = trial /\ index \in Nat /\ offset \in Nat /\ offset <= Ceiling(index)
      /\ Ceiling(index) \in Nat /\ index \in Positions
    <2>1. index \in Nat /\ offset \in Nat
      BY Places
    <2>2. trial.limit \in Nat /\ trial \in Trials
      BY TrialType DEF Within
    <2>3. Ceiling(index) \in Nat
      BY <2>1, <2>2 DEF Ceiling, INITIAL_OFFSET
    <2>4. trial' = trial
      BY DEF Advance
    <2>5. offset <= Ceiling(index) /\ index \in Positions
      BY DEF Within
    <2> QED BY <2>1, <2>3, <2>4, <2>5
<1>2. /\ \A R : (Links(R)' <=> Links(R))
      /\ \A l, i, o : (Runs(l, i, o)' <=> Runs(l, i, o))
      /\ \A R, l, i, o : (Placed(R, l, i, o)' <=> Placed(R, l, i, o))
      /\ index' = index => \A R, b, s : (BestOnes(R, b, s)' <=> BestOnes(R, b, s))
      /\ n' = n /\ Positions' = Positions /\ Shortest' = Shortest
    BY <1>1, LinksKept, TrialKept
<1>3. Links(pool)'
    BY <1>2
<1>4. CASE offset < Ceiling(index)
    <2>1. offset' = offset + 1 /\ index' = index /\ best_size' = size
      BY <1>4 DEF Advance
    <2>2. Runs(match_length, index, offset)' /\ Placed(pool, match_length, index, offset)'
      BY <1>2, <2>1
    <2>3. BestOnes(pool, best_length, best_size)'
      BY <1>2, <2>1
    <2> QED BY <1>3, <2>2, <2>3 DEF LinkInv
<1>5. CASE ~(offset < Ceiling(index))
    <2>1. offset' = 1 /\ index' = index + 1 /\ best_size' = Shortest
      BY <1>5 DEF Advance
    <2>2. offset = Ceiling(index)
      BY <1>1, <1>5
    <2>3. Runs(lengths, index + 1, 1) /\ Placed(P, lengths, index + 1, 1)
      BY <2>2, WrapLengths
    <2>4. Runs(match_length, index, offset)' /\ Placed(pool, match_length, index, offset)'
      BY <1>2, <2>1, <2>3
    <2>5. Shortest \in {1, 2}
      BY DEF Shortest
    <2>6. Shortest \in Positions => best[Shortest] = Shortest
      BY DEF BestOnes
    <2>7. ASSUME NEW k \in Positions', k \in Shortest' .. best_size' PROVE Best(P, best[k], k)'
      <3>1. k = Shortest /\ Shortest .. k = {Shortest}
        BY <1>2, <2>1, <2>5, <2>7
      <3>2. best[k] = Shortest
        BY <1>2, <2>6, <2>7, <3>1
      <3>3. Shortest' .. k = {Shortest} /\ best'[k] = Shortest
        BY <1>2, <3>1, <3>2
      <3> QED BY <3>1, <3>3 DEF Best
    <2>8. BestOnes(pool, best_length, best_size)'
      <3>1. Shortest' \in Positions' => best_length'[Shortest'] = Shortest'
        BY <1>2, <2>6
      <3> QED BY <2>7, <3>1 DEF BestOnes
    <2> QED BY <1>3, <2>4, <2>8 DEF LinkInv
<1> QED BY <1>4, <1>5

\* Literals keep the links.
LEMMA LiteralsKeepLinks ==
    ASSUME Inv, LinkInv, Literals
    PROVE  LinkInv'
<1>1. /\ index < n /\ match_length' = [match_length EXCEPT ![offset] = 0]
      /\ best_length' = best_length /\ Advance(best_size) /\ ~Matches
    BY DEF Literals
<1>2. Within
    <2>1. trial \in Trials /\ index \in 0 .. n /\ offset \in 1 .. Ceiling(index)
      BY DEF Inv
    <2>2. n \in Nat
      BY <2>1, TrialType
    <2>3. index \in Positions
      BY <1>1, <2>1, <2>2 DEF Positions
    <2> QED BY <2>1, <2>3 DEF Within
<1>3. /\ match_length \in [Offsets -> Nat] /\ Fit(pool, index, offset) /\ Links(pool)
      /\ Runs(match_length, index, offset) /\ Placed(pool, match_length, index, offset)
      /\ BestOnes(pool, best_length, best_size)
    BY <1>1 DEF Inv, LinkInv
<1>4. PICK Q : Q = pool'
    OBVIOUS
<1>5. Q = LiteralsPool
    BY <1>4 DEF Literals, LiteralsPool
<1>6. /\ Links(Q) /\ SameBefore(pool, Q)
      /\ \A t \in Offsets : t # offset => SameLiterals(pool, Q, t)
      /\ LastLiteral(Q, offset) # NIL => Q.nodes[LastLiteral(Q, offset)].index = index
    BY <1>2, <1>3, <1>5, LiteralsLinks
<1>7. index \in Nat /\ offset \in Nat /\ offset \in Offsets /\ offset >= 1
    BY <1>2, Places
<1>8. Longest(index, offset, 0)
    <2>1. ~RepeatsAt(index + 1, offset)
      <3>1. index + 1 > offset => index # 0 /\ index >= offset
        BY <1>7
      <3>2. (index + 1) - offset = index - offset + 1
        BY <1>7
      <3>3. ~(index # 0 /\ index >= offset /\ input[index + 1] = input[index - offset + 1])
        BY <1>1 DEF Matches
      <3> QED BY <3>1, <3>2, <3>3, Zenon DEF RepeatsAt
    <2>2. (index + 1) - 0 = index + 1 /\ index + (1 - 0) = index + 1 /\ \A j \in ((index + 1) - 0 + 1) .. (index + 1) : FALSE
      BY <1>7
    <2>3. Copies(index + 1, offset, 0)
      BY <2>2, Zenon DEF Copies
    <2> QED BY <2>1, <2>2, <2>3, Zenon DEF Longest
<1>9. PICK lengths : lengths = match_length'
    OBVIOUS
<1>10. lengths = [match_length EXCEPT ![offset] = 0] /\ lengths \in [Offsets -> Nat]
    BY <1>1, <1>3, <1>7, <1>9
<1>11. Runs(lengths, index, offset + 1) /\ Placed(Q, lengths, index, offset + 1)
    <2>1. LastLiteral(Q, offset) # NIL => Q.nodes[LastLiteral(Q, offset)].index = index - 0
      BY <1>6, <1>7
    <2> QED BY <1>2, <1>3, <1>6, <1>8, <1>10, <2>1, NextLengths
<1>12. BestOnes(Q, best_length, best_size)
    <2>1. offset \in {offset, offset + 1}
      OBVIOUS
    <2> QED BY <1>2, <1>3, <1>6, <2>1, BestSame
<1> QED BY <1>1, <1>2, <1>4, <1>6, <1>9, <1>10, <1>11, <1>12, AdvanceLinks

\* What a match does: it carries the run on, and then what a copy that long may be.
LEMMA MatchMade ==
    ASSUME Inv, LinkInv, Match, NEW ml, ml = match_length[offset] + 1,
           NEW P, P = LastOffset(pool), NEW Q, Q = pool'
    PROVE  /\ Within /\ index > 0 /\ Matches /\ match_length \in [Offsets -> Nat]
           /\ ml \in 1 .. index /\ Longest(index, offset, ml)
           /\ Fit(P, index, offset + 1) /\ Links(P) /\ Repeated(P)
           /\ \A t \in Offsets : SameLiterals(pool, P, t)
           /\ LastLiteral(P, offset) # NIL => P.nodes[LastLiteral(P, offset)].index = index - ml
           /\ \E best, size, len :
                  /\ best = best_length' /\ BestOnes(P, best, size) /\ Advance(size)
                  /\ IF ml >= Shortest THEN Best(P, len, ml) /\ Q = NewOffset(P, len) ELSE Q = P
<1> DEFINE grows == ml >= Shortest /\ best_size < ml
           best == IF grows THEN Grown(P, best_size, ml) ELSE best_length
           size == IF grows THEN ml ELSE best_size
<1>1. /\ index < n /\ Matches
      /\ best_length' = best
      /\ Q = IF ml >= Shortest THEN NewOffset(P, best[ml]) ELSE P
      /\ Advance(size)
    BY DEF Match
<1>2. /\ index \in Nat /\ n \in Nat /\ index > 0 /\ index < n /\ Within
    <2>1. trial \in Trials /\ index \in 0 .. n /\ offset \in 1 .. Ceiling(index) /\ index # 0
      BY <1>1 DEF Inv, Matches
    <2>2. n \in Nat
      BY <2>1, TrialType
    <2>3. index \in Nat /\ index \in Positions /\ index > 0
      BY <1>1, <2>1, <2>2 DEF Positions
    <2> QED BY <1>1, <2>1, <2>2, <2>3 DEF Within
<1>3. /\ match_length \in [Offsets -> Nat] /\ Fit(pool, index, offset) /\ Links(pool)
      /\ Runs(match_length, index, offset) /\ Placed(pool, match_length, index, offset)
      /\ BestOnes(pool, best_length, best_size)
      /\ match_length[offset] <= index - 1
    <2>1. offset \in Offsets /\ offset >= offset
      BY <1>2, Places
    <2> QED BY <1>1, <1>2, <2>1 DEF Inv, LinkInv
<1>4. index \in Nat /\ offset \in Nat /\ offset \in Offsets /\ offset >= 1
    BY <1>2, Places
<1>5. ml \in Nat /\ ml >= 1 /\ ml <= index /\ match_length[offset] = ml - 1 /\ ml \in Positions
      /\ match_length[offset] \in Nat
    <2>1. match_length[offset] \in Nat
      BY <1>3, <1>4
    <2>2. ml \in Nat /\ ml >= 1 /\ ml <= index /\ match_length[offset] = ml - 1
      BY <1>2, <1>3, <2>1
    <2> QED BY <1>2, <2>1, <2>2 DEF Positions
<1>6. Shortest \in {1, 2} /\ best_size \in Nat /\ best_size >= Shortest
    <2>1. Shortest \in {1, 2} /\ best_size \in Shortest .. n + 1
      BY DEF Inv, Shortest
    <2> QED BY <1>2, <2>1
<1>7. Longest(index, offset, ml)
    <2>1. RepeatsAt(index + 1, offset)
      <3>1. index # 0 /\ index >= offset /\ input[index + 1] = input[index - offset + 1]
        BY <1>1 DEF Matches
      <3>2. index + 1 > offset /\ (index + 1) - offset = index - offset + 1
        BY <1>4, <3>1
      <3> QED BY <3>1, <3>2, Zenon DEF RepeatsAt
    <2>2. Copies(index, offset, ml - 1)
          /\ (index - 1 >= ml - 1 => ~RepeatsAt((index - 1) + 1 - (ml - 1), offset))
      <3>1. Done(offset, index, offset) = index - 1
        BY <1>4 DEF Done
      <3>2. Longest(index - 1, offset, ml - 1)
        BY <1>3, <1>4, <1>5, <3>1 DEF Runs
      <3>3. (index - 1) + 1 = index
        BY <1>4
      <3> QED BY <3>2, <3>3 DEF Longest
    <2>3. ASSUME NEW j \in ((index + 1) - ml + 1) .. (index + 1) PROVE RepeatsAt(j, offset)
      <3>1. j = index + 1 \/ j \in (index - (ml - 1) + 1) .. index
        BY <1>4, <1>5, <2>3
      <3> QED BY <2>1, <2>2, <3>1 DEF Copies
    <2>4. Copies(index + 1, offset, ml)
      BY <2>3, Zenon DEF Copies
    <2>5. index >= ml => ~RepeatsAt(index + 1 - ml, offset)
      <3>1. (index - 1) + 1 - (ml - 1) = index + 1 - ml /\ (index >= ml => index - 1 >= ml - 1)
        BY <1>4, <1>5
      <3> QED BY <2>2, <3>1
    <2> QED BY <2>4, <2>5 DEF Longest
<1>8. /\ Links(P) /\ Repeated(P) /\ SameBefore(pool, P)
      /\ \A t \in Offsets : SameLiterals(pool, P, t)
    BY <1>1, <1>2, <1>3, LastOffsetLinks
<1>9. Fit(P, index, offset + 1)
    BY <1>2, <1>3, LastOffsetFits
<1>10. offset \in {offset, offset + 1} /\ offset + 1 \in {offset, offset + 1}
    OBVIOUS
<1>11. BestOnes(P, best_length, best_size)
    BY <1>2, <1>3, <1>8, <1>10, BestSame
<1>12. BestOnes(P, best, size) /\ (ml >= Shortest => ml \in Shortest .. size)
    <2>1. CASE grows
      <3>1. best = Grown(P, best_size, ml) /\ size = ml /\ best_size < ml
        BY <2>1
      <3> HIDE DEF best, size, grows
      <3>2. BestOnes(P, Grown(P, best_size, ml), ml)
        BY <1>2, <1>5, <1>6, <1>9, <1>10, <1>11, <3>1, GrownBest
      <3>3. ml >= Shortest => ml \in Shortest .. ml
        BY <1>5, <1>6
      <3> QED BY <3>1, <3>2, <3>3
    <2>2. CASE ~grows
      <3>1. best = best_length /\ size = best_size
        BY <2>2
      <3>2. ml >= Shortest => ml \in Shortest .. best_size
        BY <1>5, <1>6, <2>2
      <3> QED BY <1>11, <3>1, <3>2
    <2> QED BY <2>1, <2>2
<1> HIDE DEF best, size, grows
<1>13. LastLiteral(P, offset) # NIL => P.nodes[LastLiteral(P, offset)].index = index - ml
    <2>1. Done(offset, index, offset) = index - 1
      BY <1>4 DEF Done
    <2>2. (index - 1) - match_length[offset] = index - ml
      BY <1>4, <1>5
    <2>3. SameLiterals(pool, P, offset)
      BY <1>4, <1>8
    <2> QED BY <1>3, <1>4, <2>1, <2>2, <2>3 DEF Placed, SameLiterals
<1>14. \E len : IF ml >= Shortest THEN Best(P, len, ml) /\ Q = NewOffset(P, len) ELSE Q = P
    <2>1. CASE ml >= Shortest
      <3>1. PICK len : len = best[ml]
        OBVIOUS
      <3>2. Best(P, len, ml)
        BY <1>5, <1>12, <2>1, <3>1 DEF BestOnes
      <3>3. Q = NewOffset(P, len)
        BY <1>1, <2>1, <3>1
      <3> QED BY <2>1, <3>2, <3>3, Zenon
    <2>2. CASE ~(ml >= Shortest)
      BY <1>1, <2>2
    <2> QED BY <2>1, <2>2
<1>15. ml \in 1 .. index
    BY <1>4, <1>5
<1>16. \E b, s, len :
           /\ b = best_length' /\ BestOnes(P, b, s) /\ Advance(s)
           /\ IF ml >= Shortest THEN Best(P, len, ml) /\ Q = NewOffset(P, len) ELSE Q = P
    BY <1>1, <1>12, <1>14, Zenon
<1> QED BY <1>1, <1>2, <1>3, <1>7, <1>8, <1>9, <1>13, <1>15, <1>16

\* A match keeps the links.
LEMMA MatchKeepsLinks ==
    ASSUME Inv, LinkInv, Match
    PROVE  LinkInv'
<1>1. PICK ml : ml = match_length[offset] + 1
    OBVIOUS
<1>2. PICK P : P = LastOffset(pool)
    OBVIOUS
<1>3. PICK Q : Q = pool'
    OBVIOUS
<1>4. /\ Within /\ index > 0 /\ Matches /\ match_length \in [Offsets -> Nat]
      /\ ml \in 1 .. index /\ Longest(index, offset, ml)
      /\ Fit(P, index, offset + 1) /\ Links(P) /\ Repeated(P)
      /\ \A t \in Offsets : SameLiterals(pool, P, t)
      /\ LastLiteral(P, offset) # NIL => P.nodes[LastLiteral(P, offset)].index = index - ml
    BY <1>1, <1>2, <1>3, MatchMade
<1>5. PICK best, size, len :
          /\ best = best_length' /\ BestOnes(P, best, size) /\ Advance(size)
          /\ IF ml >= Shortest THEN Best(P, len, ml) /\ Q = NewOffset(P, len) ELSE Q = P
    BY <1>1, <1>2, <1>3, MatchMade
<1>6. offset \in Offsets /\ offset + 1 \in {offset, offset + 1} /\ ml \in Nat
    BY <1>4, Places
<1>7. /\ Links(Q) /\ BestOnes(Q, best, size)
      /\ \A t \in Offsets : SameLiterals(P, Q, t)
    <2>1. CASE ml >= Shortest
      <3>1. Links(Q) /\ SameBefore(P, Q) /\ \A t \in Offsets : SameLiterals(P, Q, t)
        BY <1>4, <1>5, <2>1, NewOffsetLinks
      <3>2. BestOnes(Q, best, size)
        BY <1>4, <1>5, <1>6, <3>1, BestSame
      <3> QED BY <3>1, <3>2
    <2>2. CASE ~(ml >= Shortest)
      <3>1. Q = P
        BY <1>5, <2>2
      <3> QED BY <1>4, <1>5, <3>1 DEF SameLiterals
    <2> QED BY <2>1, <2>2
<1>8. PICK lengths : lengths = match_length'
    OBVIOUS
<1>9. lengths = [match_length EXCEPT ![offset] = ml] /\ lengths \in [Offsets -> Nat]
    BY <1>1, <1>4, <1>6, <1>8 DEF Match
<1>10. \A t \in Offsets : SameLiterals(pool, Q, t)
    BY <1>4, <1>7 DEF SameLiterals
<1>11. LastLiteral(Q, offset) # NIL => Q.nodes[LastLiteral(Q, offset)].index = index - ml
    <2>1. SameLiterals(P, Q, offset)
      BY <1>6, <1>7
    <2> QED BY <1>4, <2>1 DEF SameLiterals
<1>12. Runs(lengths, index, offset + 1) /\ Placed(Q, lengths, index, offset + 1)
    <2>1. Runs(match_length, index, offset) /\ Placed(pool, match_length, index, offset)
      BY DEF LinkInv
    <2> QED BY <1>4, <1>6, <1>9, <1>10, <1>11, <2>1, NextLengths
<1> QED BY <1>3, <1>4, <1>5, <1>7, <1>8, <1>9, <1>12, AdvanceLinks

\* A step that leaves all but the result keeps the links.
LEMMA OthersKeepLinks ==
    ASSUME LinkInv, Return \/ UNCHANGED vars
    PROVE  LinkInv'
<1>1. /\ trial' = trial /\ index' = index /\ offset' = offset /\ pool' = pool
      /\ match_length' = match_length /\ best_length' = best_length /\ best_size' = best_size
    BY DEF Return, vars
<1>2. /\ \A P : (Links(P)' <=> Links(P))
      /\ \A l, i, o : (Runs(l, i, o)' <=> Runs(l, i, o))
      /\ \A P, l, i, o : (Placed(P, l, i, o)' <=> Placed(P, l, i, o))
      /\ \A P, b, s : (BestOnes(P, b, s)' <=> BestOnes(P, b, s))
      /\ n' = n
    BY <1>1, LinksKept, TrialKept
<1>3. Links(pool)' /\ Runs(match_length, index, offset)' /\ Placed(pool, match_length, index, offset)'
    BY <1>1, <1>2 DEF LinkInv
<1>4. index' < n' => BestOnes(pool, best_length, best_size)'
    BY <1>1, <1>2 DEF LinkInv
<1> QED BY <1>3, <1>4 DEF LinkInv

\* The first states satisfy the links.
LEMMA InitLinks ==
    ASSUME Init
    PROVE  LinkInv
<1>1. /\ trial \in Trials /\ index = 0 /\ offset = 1
      /\ match_length = [o \in Offsets |-> 0]
      /\ best_length = [k \in Positions |-> IF k = Shortest THEN Shortest ELSE 0]
      /\ best_size = Shortest
    BY DEF Init
<1>2. /\ Within /\ Blocks(pool) = {1} /\ pool.nodes[1] = First
      /\ \A r \in Slots : pool.slot[r] = IF r = <<"last_match", 1>> THEN 1 ELSE NIL
    BY InitPool DEF First
<1>3. First.index = -1 /\ First.offset = 1 /\ First.chain = NIL
    BY DEF First, Block, INITIAL_OFFSET
<1>4. /\ \A t \in Offsets : /\ <<"last_literal", t>> \in Slots /\ <<"last_match", t>> \in Slots
                            /\ t \in Nat /\ t >= 1
      /\ \A j \in Positions : <<"optimal", j>> \in Slots
    <2>1. \A t \in Offsets : t \in Nat /\ t >= 1
      <3>1. n \in Nat /\ n >= 1 /\ trial.limit \in Nat
        BY <1>1, TrialType
      <3>2. Ceiling(n - 1) \in Nat
        BY <3>1 DEF Ceiling, INITIAL_OFFSET
      <3> QED BY <3>2 DEF Offsets
    <2> QED BY <2>1 DEF Slots
<1>5. /\ \A t \in Offsets : LastLiteral(pool, t) = NIL
      /\ \A t \in Offsets : LastMatch(pool, t) = IF t = 1 THEN 1 ELSE NIL
      /\ \A j \in Positions : Optimal(pool, j) = NIL
    BY <1>2, <1>4 DEF LastLiteral, LastMatch, Optimal
<1>6. Links(pool)
    <2>1. Linked(pool) /\ Latest(pool) /\ Ending(pool)
      BY <1>2, <1>3, <1>5 DEF Linked, Latest, Ending, IsUnit
    <2>2. LastOnes(pool)
      BY <1>2, <1>3, <1>5 DEF LastOnes
    <2> QED BY <2>1, <2>2 DEF Links
<1>7. ASSUME NEW t \in Offsets PROVE Longest(Done(t, index, offset), t, match_length[t])
    <2>1. Done(t, index, offset) = -1 /\ match_length[t] = 0
      <3>1. t \in Nat /\ t >= 1
        BY <1>4, Zenon
      <3>2. ~(t < 1)
        BY <3>1
      <3>3. Done(t, 0, 1) = -1
        BY <3>2 DEF Done
      <3>4. match_length[t] = 0
        BY <1>1
      <3> QED BY <1>1, <3>3, <3>4
    <2>2. ((-1 + 1) - 0 + 1) .. (-1 + 1) = {} /\ ~(-1 >= 0)
      OBVIOUS
    <2>3. Copies(-1 + 1, t, 0)
      BY <2>2 DEF Copies
    <2> QED BY <2>1, <2>2, <2>3 DEF Longest
<1>8. Placed(pool, match_length, index, offset)
    BY <1>5 DEF Placed
<1>9. BestOnes(pool, best_length, best_size)
    <2>1. Shortest \in {1, 2}
      BY DEF Shortest
    <2>2. ASSUME NEW k \in Positions, k \in Shortest .. best_size, k <= index PROVE FALSE
      BY <1>1, <2>1, <2>2
    <2> QED BY <1>1, <2>2 DEF BestOnes
<1> QED BY <1>6, <1>7, <1>8, <1>9 DEF LinkInv, Runs

\* What the blocks, the tables and the lengths say of one another holds throughout.
THEOREM LinksHold == Spec => [](Inv /\ LinkInv)
<1>1. Init => Inv /\ LinkInv
    BY InitInv, InitLinks
<1>2. Inv /\ LinkInv /\ [Next]_vars => LinkInv'
    <2> SUFFICES ASSUME Inv, LinkInv, [Next]_vars PROVE LinkInv'
      OBVIOUS
    <2>1. CASE Match
      BY <2>1, MatchKeepsLinks
    <2>2. CASE Literals
      BY <2>2, LiteralsKeepLinks
    <2>3. CASE Return
      BY <2>3, OthersKeepLinks
    <2>4. CASE UNCHANGED vars
      BY <2>4, OthersKeepLinks
    <2> QED BY <2>1, <2>2, <2>3, <2>4 DEF Next
<1> QED BY <1>1, <1>2, InvHolds, PTL DEF Spec

-----------------------------------------------------------------------------
(* The blocks that lead to one are a parse.                                *)

\* The recursive functions of Chain and of Written, as far as they are worked out.
Longer(P, c) == IF P.nodes[Head(c)].chain = NIL THEN c ELSE <<P.nodes[Head(c)].chain>> \o c
IsBack(f, P, id, m) == f = [k \in 0 .. m |-> IF k = 0 THEN <<id>> ELSE Longer(P, f[k - 1])]
IsWritten(f, us, m) ==
    f = [k \in 0 .. m |-> IF k = 0 THEN Nothing ELSE Write(f[k - 1], us[k])]

\* They exist.
LEMMA BackExists == ASSUME NEW P, NEW id PROVE \A m \in Nat : \E f : IsBack(f, P, id, m)
<1> DEFINE Bad == {m \in Nat : ~ \E f : IsBack(f, P, id, m)}
<1>1. ASSUME Bad # {} PROVE FALSE
    <2>1. PICK m \in Bad : \A y \in Bad : m <= y
      BY <1>1, LeastNatural
    <2>2. \E f : IsBack(f, P, id, m)
      <3>1. CASE m = 0
        <4> DEFINE f == [k \in 0 .. m |-> <<id>>]
        <4>1. \A k \in 0 .. m : k = 0
          BY <3>1
        <4>2. f = [k \in 0 .. m |-> IF k = 0 THEN <<id>> ELSE Longer(P, f[k - 1])]
          BY <4>1
        <4> QED BY <4>2 DEF IsBack
      <3>2. CASE m # 0
        <4>1. m \in Nat /\ m - 1 \in Nat /\ ~(m <= m - 1)
          BY <2>1, <3>2
        <4>2. PICK g : IsBack(g, P, id, m - 1)
          BY <2>1, <4>1
        <4>3. g = [k \in 0 .. (m - 1) |-> IF k = 0 THEN <<id>> ELSE Longer(P, g[k - 1])]
          BY <4>2 DEF IsBack
        <4> DEFINE f == [k \in 0 .. m |-> IF k = 0 THEN <<id>> ELSE Longer(P, g[k - 1])]
        <4>4. ASSUME NEW k \in 0 .. m, k # 0 PROVE f[k - 1] = g[k - 1]
          <5>1. k - 1 \in 0 .. (m - 1) /\ k - 1 \in 0 .. m
            BY <4>1, <4>4
          <5>2. f[k - 1] = IF k - 1 = 0 THEN <<id>> ELSE Longer(P, g[(k - 1) - 1])
            BY <5>1
          <5>3. g[k - 1] = IF k - 1 = 0 THEN <<id>> ELSE Longer(P, g[(k - 1) - 1])
            BY <4>3, <5>1
          <5> QED BY <5>2, <5>3
        <4>5. ASSUME NEW k \in 0 .. m
              PROVE  (IF k = 0 THEN <<id>> ELSE Longer(P, g[k - 1])) =
                         (IF k = 0 THEN <<id>> ELSE Longer(P, f[k - 1]))
          <5> HIDE DEF f
          <5> QED BY <4>4
        <4>6. f = [k \in 0 .. m |-> IF k = 0 THEN <<id>> ELSE Longer(P, f[k - 1])]
          BY <4>5
        <4> QED BY <4>6 DEF IsBack
      <3> QED BY <3>1, <3>2
    <2> QED BY <2>1, <2>2
<1> QED BY <1>1

LEMMA WrittenExists == ASSUME NEW us PROVE \A m \in Nat : \E f : IsWritten(f, us, m)
<1> DEFINE Bad == {m \in Nat : ~ \E f : IsWritten(f, us, m)}
<1>1. ASSUME Bad # {} PROVE FALSE
    <2>1. PICK m \in Bad : \A y \in Bad : m <= y
      BY <1>1, LeastNatural
    <2>2. \E f : IsWritten(f, us, m)
      <3>1. CASE m = 0
        <4> DEFINE f == [k \in 0 .. m |-> Nothing]
        <4>1. \A k \in 0 .. m : k = 0
          BY <3>1
        <4>2. f = [k \in 0 .. m |-> IF k = 0 THEN Nothing ELSE Write(f[k - 1], us[k])]
          BY <4>1
        <4> QED BY <4>2 DEF IsWritten
      <3>2. CASE m # 0
        <4>1. m \in Nat /\ m - 1 \in Nat /\ ~(m <= m - 1)
          BY <2>1, <3>2
        <4>2. PICK g : IsWritten(g, us, m - 1)
          BY <2>1, <4>1
        <4>3. g = [k \in 0 .. (m - 1) |-> IF k = 0 THEN Nothing ELSE Write(g[k - 1], us[k])]
          BY <4>2 DEF IsWritten
        <4> DEFINE f == [k \in 0 .. m |-> IF k = 0 THEN Nothing ELSE Write(g[k - 1], us[k])]
        <4>4. ASSUME NEW k \in 0 .. m, k # 0 PROVE f[k - 1] = g[k - 1]
          <5>1. k - 1 \in 0 .. (m - 1) /\ k - 1 \in 0 .. m
            BY <4>1, <4>4
          <5>2. f[k - 1] = IF k - 1 = 0 THEN Nothing ELSE Write(g[(k - 1) - 1], us[k - 1])
            BY <5>1
          <5>3. g[k - 1] = IF k - 1 = 0 THEN Nothing ELSE Write(g[(k - 1) - 1], us[k - 1])
            BY <4>3, <5>1
          <5> QED BY <5>2, <5>3
        <4>5. ASSUME NEW k \in 0 .. m
              PROVE  (IF k = 0 THEN Nothing ELSE Write(g[k - 1], us[k])) =
                         (IF k = 0 THEN Nothing ELSE Write(f[k - 1], us[k]))
          <5> HIDE DEF f
          <5> QED BY <4>4
        <4>6. f = [k \in 0 .. m |-> IF k = 0 THEN Nothing ELSE Write(f[k - 1], us[k])]
          BY <4>5
        <4> QED BY <4>6 DEF IsWritten
      <3> QED BY <3>1, <3>2
    <2> QED BY <2>1, <2>2
<1> QED BY <1>1

\* Blocks that lead to id, each referring to the one before it.
Joined(P, c, id) ==
    /\ c \in Seq(Blocks(P)) /\ Len(c) >= 1 /\ c[Len(c)] = id
    /\ \A j \in 1 .. (Len(c) - 1) : P.nodes[c[j + 1]].chain = c[j]

\* One more block in front.
LEMMA JoinedLonger ==
    ASSUME NEW P, Good(P, {}), NEW id, NEW c, Joined(P, c, id)
    PROVE  /\ Joined(P, Longer(P, c), id) /\ Head(c) \in Blocks(P)
           /\ P.nodes[Head(c)].chain # NIL =>
                  /\ Head(Longer(P, c)) = P.nodes[Head(c)].chain
                  /\ P.nodes[Head(c)].chain \in Blocks(P)
<1>1. /\ c \in Seq(Blocks(P)) /\ Len(c) \in Nat /\ Len(c) >= 1 /\ c[Len(c)] = id
      /\ \A j \in 1 .. (Len(c) - 1) : P.nodes[c[j + 1]].chain = c[j]
    BY LenProperties DEF Joined
<1>2. Head(c) = c[1] /\ c[1] \in Blocks(P)
    <2>1. c # <<>> /\ 1 \in 1 .. Len(c)
      BY <1>1, EmptySeq
    <2> QED BY <1>1, <2>1, HeadTailProperties, ElementOfSeq
<1>3. PICK d : d = P.nodes[Head(c)].chain
    OBVIOUS
<1>4. CASE d = NIL
    <2>1. Longer(P, c) = c
      BY <1>3, <1>4 DEF Longer
    <2> QED BY <1>2, <1>3, <1>4, <2>1
<1>5. CASE d # NIL
    <2>1. d \in Blocks(P)
      BY <1>2, <1>3, <1>5, ChainType
    <2>2. PICK p : p = <<d>> \o c
      OBVIOUS
    <2>3. Longer(P, c) = p
      BY <1>3, <1>5, <2>2 DEF Longer
    <2>4. <<d>> \in Seq(Blocks(P)) /\ Len(<<d>>) = 1 /\ <<d>>[1] = d
      BY <2>1
    <2>5. p \in Seq(Blocks(P)) /\ Len(p) = Len(c) + 1
      BY <1>1, <2>2, <2>4, ConcatProperties
    <2>6. \A i \in 1 .. Len(p) : p[i] = IF i <= 1 THEN <<d>>[i] ELSE c[i - 1]
      BY <1>1, <2>2, <2>4, ConcatProperties
    <2>7. p[1] = d /\ \A i \in 2 .. (Len(c) + 1) : p[i] = c[i - 1]
      <3>1. 1 \in 1 .. Len(p) /\ \A i \in 2 .. (Len(c) + 1) : i \in 1 .. Len(p) /\ ~(i <= 1)
        BY <1>1, <2>5
      <3> QED BY <2>4, <2>6, <3>1
    <2>8. Head(p) = d
      <3>1. p # <<>>
        BY <1>1, <2>5, EmptySeq
      <3> QED BY <2>5, <2>7, <3>1, HeadTailProperties
    <2>9. p[Len(p)] = id
      <3>1. Len(c) + 1 \in 2 .. (Len(c) + 1) /\ (Len(c) + 1) - 1 = Len(c)
        BY <1>1
      <3> QED BY <1>1, <2>5, <2>7, <3>1
    <2>10. ASSUME NEW j \in 1 .. (Len(p) - 1) PROVE P.nodes[p[j + 1]].chain = p[j]
      <3>1. j \in Nat /\ j + 1 \in 2 .. (Len(c) + 1) /\ (j + 1) - 1 = j
        BY <1>1, <2>5
      <3>2. p[j + 1] = c[j]
        BY <2>7, <3>1
      <3>3. CASE j = 1
        BY <1>2, <1>3, <2>7, <3>2, <3>3
      <3>4. CASE j # 1
        <4>1. j \in 2 .. (Len(c) + 1) /\ j - 1 \in 1 .. (Len(c) - 1) /\ (j - 1) + 1 = j
          BY <1>1, <2>5, <3>1, <3>4
        <4> QED BY <1>1, <2>7, <3>2, <4>1
      <3> QED BY <3>3, <3>4
    <2>11. Len(p) >= 1
      BY <1>1, <2>5
    <2>12. Joined(P, p, id)
      BY <2>5, <2>9, <2>10, <2>11 DEF Joined
    <2> QED BY <1>2, <1>3, <2>1, <2>3, <2>8, <2>12
<1> QED BY <1>4, <1>5

\* The blocks from the first to id.
LEMMA ChainBack ==
    ASSUME trial \in Trials, NEW P, Good(P, {}), Linked(P), NEW id \in Blocks(P),
           P.nodes[id].index <= n - 1
    PROVE  Joined(P, Chain(P, id), id) /\ P.nodes[Chain(P, id)[1]] = First
<1>1. n \in Nat /\ n + 1 \in Nat
    BY TrialType
<1> DEFINE f == CHOOSE g : IsBack(g, P, id, n + 1)
<1>2. IsBack(f, P, id, n + 1)
    BY <1>1, BackExists
<1>3. Chain(P, id) = f[n + 1]
    BY DEF Chain, IsBack, Longer
<1> HIDE DEF f
<1> DEFINE Reached(k) ==
        /\ Joined(P, f[k], id)
        /\ \/ P.nodes[Head(f[k])].chain = NIL
           \/ P.nodes[Head(f[k])].index + k <= n - 1
<1>4. Reached(0)
    <2>1. f[0] = <<id>>
      BY <1>1, <1>2 DEF IsBack
    <2>2. <<id>> \in Seq(Blocks(P)) /\ Len(<<id>>) = 1 /\ <<id>>[1] = id /\ Head(<<id>>) = id
      OBVIOUS
    <2>3. \A j \in 1 .. (Len(<<id>>) - 1) : FALSE
      BY <2>2
    <2>4. Joined(P, <<id>>, id)
      BY <2>2, <2>3 DEF Joined
    <2>5. P.nodes[id].index + 0 <= n - 1
      BY ChainType
    <2> QED BY <2>1, <2>2, <2>4, <2>5
<1>5. ASSUME NEW k \in 1 .. (n + 1), Reached(k - 1) PROVE Reached(k)
    <2>1. PICK c : c = f[k - 1]
      OBVIOUS
    <2>2. f[k] = Longer(P, c)
      <3>1. k \in 0 .. (n + 1) /\ k # 0
        BY <1>1
      <3> QED BY <1>2, <2>1, <3>1 DEF IsBack
    <2>3. /\ Joined(P, c, id)
          /\ P.nodes[Head(c)].chain = NIL \/ P.nodes[Head(c)].index + (k - 1) <= n - 1
      BY <1>5, <2>1
    <2>4. /\ Joined(P, Longer(P, c), id) /\ Head(c) \in Blocks(P)
          /\ P.nodes[Head(c)].chain # NIL =>
                 /\ Head(Longer(P, c)) = P.nodes[Head(c)].chain
                 /\ P.nodes[Head(c)].chain \in Blocks(P)
      BY <2>3, JoinedLonger
    <2>5. CASE P.nodes[Head(c)].chain = NIL
      <3>1. Longer(P, c) = c
        BY <2>5 DEF Longer
      <3> QED BY <2>2, <2>4, <2>5, <3>1
    <2>6. CASE P.nodes[Head(c)].chain # NIL
      <3>1. PICK d : d = P.nodes[Head(c)].chain
        OBVIOUS
      <3>2. d \in Blocks(P) /\ Head(f[k]) = d
        BY <2>2, <2>4, <2>6, <3>1
      <3>3. P.nodes[Head(c)].index - P.nodes[d].index > 0
        BY <2>4, <2>6, <3>1 DEF Linked, IsUnit, Length, Before
      <3>4. P.nodes[Head(c)].index \in Int /\ P.nodes[d].index \in Int
        BY <2>4, <3>2, ChainType
      <3>5. P.nodes[d].index + k <= n - 1
        BY <1>1, <2>3, <2>6, <3>3, <3>4
      <3> QED BY <2>2, <2>4, <3>2, <3>5
    <2> QED BY <2>5, <2>6
<1> HIDE DEF Reached
<1> DEFINE Bad == {k \in Nat : k <= n + 1 /\ ~Reached(k)}
<1>6. ASSUME Bad # {} PROVE FALSE
    <2>1. PICK k \in Bad : \A y \in Bad : k <= y
      BY <1>6, LeastNatural
    <2>2. k \in Nat /\ k <= n + 1 /\ ~Reached(k) /\ k # 0
      BY <1>4, <2>1
    <2>3. k \in 1 .. (n + 1) /\ k - 1 \in Nat /\ k - 1 <= n + 1 /\ ~(k <= k - 1)
      BY <1>1, <2>2
    <2>4. Reached(k - 1)
      BY <2>1, <2>3
    <2> QED BY <1>5, <2>2, <2>3, <2>4
<1>7. Reached(n + 1)
    <2>1. Bad = {}
      <3> HIDE DEF Bad
      <3> QED BY <1>6
    <2>2. n + 1 \in Nat /\ n + 1 <= n + 1
      BY <1>1
    <2> QED BY <2>1, <2>2
<1>8. PICK c : c = Chain(P, id)
    OBVIOUS
<1>9. Joined(P, c, id) /\ (P.nodes[Head(c)].chain = NIL \/ P.nodes[Head(c)].index + (n + 1) <= n - 1)
    BY <1>3, <1>7, <1>8 DEF Reached
<1>10. /\ Head(c) = c[1] /\ Head(c) \in Blocks(P)
    <2>1. c \in Seq(Blocks(P)) /\ c # <<>>
      BY <1>9, EmptySeq DEF Joined
    <2> QED BY <1>9, <2>1, JoinedLonger, HeadTailProperties
<1>11. P.nodes[Head(c)].chain = NIL
    <2>1. P.nodes[Head(c)] \in Node
      BY <1>10, PoolType DEF Good
    <2>2. P.nodes[Head(c)].index \in Nat \cup {-1}
      BY <2>1 DEF Node
    <2>3. ~(P.nodes[Head(c)].index + (n + 1) <= n - 1)
      BY <1>1, <2>2
    <2> QED BY <1>9, <2>3
<1>12. P.nodes[Head(c)] = First
    BY <1>10, <1>11 DEF Linked, IsUnit
<1> QED BY <1>8, <1>9, <1>10, <1>12

\* A quotient grows with what is divided, by 1 at most where that grows by 1, and then
\* only to a multiple.
LEMMA Quotient ==
    ASSUME NEW v \in Nat, NEW b \in Nat \ {0}
    PROVE  /\ v \div b \in Nat /\ (v + 1) \div b \in Nat
           /\ (v + 1) \div b = v \div b \/ (v + 1) \div b = v \div b + 1
           /\ (v + 1) % b # 0 => (v + 1) \div b = v \div b
<1>1. PICK q, r, p, s : q = v \div b /\ r = v % b /\ p = (v + 1) \div b /\ s = (v + 1) % b
    OBVIOUS
<1>2. /\ q \in Nat /\ r \in 0 .. b - 1 /\ v = b * q + r
      /\ p \in Nat /\ s \in 0 .. b - 1 /\ v + 1 = b * p + s
    BY <1>1, SMT
<1>3. b * p + s = b * q + r + 1
    BY <1>2, SMT
<1>4. ~(p <= q - 1)
    <2> SUFFICES ASSUME p <= q - 1 PROVE FALSE
      OBVIOUS
    <2>1. b * p <= b * (q - 1) /\ b * (q - 1) = b * q - b
      BY <1>2, SMT
    <2> QED BY <1>2, <1>3, <2>1, SMT
<1>5. ~(p >= q + 2)
    <2> SUFFICES ASSUME p >= q + 2 PROVE FALSE
      OBVIOUS
    <2>1. b * p >= b * (q + 2) /\ b * (q + 2) = b * q + 2 * b
      BY <1>2, SMT
    <2> QED BY <1>2, <1>3, <2>1, SMT
<1>6. p = q \/ p = q + 1
    BY <1>2, <1>4, <1>5
<1>7. ASSUME p = q + 1 PROVE s = 0
    <2>1. b * p = b * q + b
      BY <1>2, <1>7, SMT
    <2> QED BY <1>2, <1>3, <2>1, SMT
<1> QED BY <1>1, <1>2, <1>6, <1>7

\* A value below a multiple of b has a quotient below the factor.
LEMMA QuotientBelow ==
    ASSUME NEW v \in Nat, NEW b \in Nat \ {0}, NEW a \in Nat, v < a * b
    PROVE  v \div b < a
<1>1. PICK q, r : q = v \div b /\ r = v % b
    OBVIOUS
<1>2. q \in Nat /\ r \in 0 .. b - 1 /\ v = b * q + r
    BY <1>1, SMT
<1>3. ~(q >= a)
    <2> SUFFICES ASSUME q >= a PROVE FALSE
      OBVIOUS
    <2>1. b * q >= b * a /\ b * a = a * b
      BY <1>2, SMT
    <2> QED BY <1>2, <2>1, SMT
<1> QED BY <1>1, <1>2, <1>3

\* The logarithm grows.
LEMMA LogGrows == \A v \in Nat \ {0} : FloorLog2(v) <= FloorLog2(v + 1)
<1> DEFINE Ok(v) == FloorLog2(v) <= FloorLog2(v + 1)
           Bad == {v \in Nat : v # 0 /\ ~Ok(v)}
<1>1. ASSUME Bad # {} PROVE FALSE
    <2>1. PICK v \in Bad : \A y \in Bad : v <= y
      <3>1. Bad \in SUBSET Nat
        OBVIOUS
      <3> HIDE DEF Bad
      <3> QED BY <1>1, <3>1, LeastNatural
    <2>2. v \in Nat \ {0} /\ ~Ok(v) /\ v + 1 \in Nat \ {0, 1}
      BY <2>1
    <2>3. FloorLog2(v) \in Nat /\ FloorLog2(v + 1) \in Nat
      BY <2>2, LogType
    <2>4. v # 1
      <3>1. FloorLog2(1) = 0
        BY LogHalf
      <3> QED BY <2>2, <2>3, <3>1
    <2>5. PICK h, g : h = v \div 2 /\ g = (v + 1) \div 2
      OBVIOUS
    <2>6. h \in Nat \ {0} /\ h < v /\ g \in Nat \ {0} /\ (g = h \/ g = h + 1)
      BY <2>2, <2>4, <2>5
    <2>7. FloorLog2(v) = 1 + FloorLog2(h) /\ FloorLog2(v + 1) = 1 + FloorLog2(g)
      <3>1. v + 1 # 1
        BY <2>2
      <3> QED BY <2>2, <2>4, <2>5, <3>1, LogHalf
    <2>8. Ok(h)
      <3>1. h \notin Bad
        <4> HIDE DEF Bad
        <4> QED BY <2>1, <2>2, <2>6
      <3> QED BY <2>6, <3>1
    <2>9. FloorLog2(h) \in Nat /\ FloorLog2(h + 1) \in Nat /\ FloorLog2(h) <= FloorLog2(h + 1)
      <3>1. h + 1 \in Nat \ {0}
        BY <2>6
      <3> QED BY <2>6, <2>8, <3>1, LogType
    <2>10. FloorLog2(h) <= FloorLog2(g) /\ FloorLog2(g) \in Nat
      BY <2>6, <2>9
    <2> QED BY <2>2, <2>3, <2>7, <2>9, <2>10
<1>2. Bad = {}
    <2> HIDE DEF Bad
    <2> QED BY <1>1
<1> QED BY <1>2

\* The code the writers write for a value is the one the parser counts, if there is one.
LEMMA GammaBits ==
    ASSUME trial \in Trials, NEW v \in Nat \ {0}
    PROVE  /\ GammaWritten(v) = 1 + 2 * FloorLog2(v) /\ GammaWritten(v) \in Nat /\ GammaWritten(v) >= 1
           /\ trial.variant = "zx0" \/ v <= trial.cap => Gamma(v) = GammaWritten(v)
           /\ trial.variant = "zx02" /\ v > trial.cap => Gamma(v) = BIG
<1>1. GammaWritten(v) = 1 + 2 * FloorLog2(v)
    BY DEF GammaWritten
<1>2. FloorLog2(v) \in Nat
    BY LogType
<1>3. trial.variant = "zx02" /\ v > trial.cap => Gamma(v) = BIG
    BY DEF Gamma
<1> QED BY <1>1, <1>2, <1>3, GammaLog

\* What the parser counts for a unit, c, against what is written.
Charged(u, rep, c) ==
    /\ c \in Nat /\ BitsWritten(u, rep) \in Nat
    /\ Fits(u, rep) => BitsWritten(u, rep) <= c
    /\ Fits(u, rep) /\ Fair(u) => BitsWritten(u, rep) = c
    /\ ~Fits(u, rep) => c > BIG

LEMMA LiteralsCharged ==
    ASSUME trial \in Trials, NEW u, u.offset = 0, u.len \in Nat \ {0}, NEW rep \in BOOLEAN
    PROVE  Charged(u, rep, LiteralBits(u.len))
<1>1. PICK l, g, w : l = u.len /\ g = Gamma(l) /\ w = GammaWritten(l)
    OBVIOUS
<1>2. /\ l \in Nat \ {0} /\ g \in Nat /\ w \in Nat
      /\ trial.variant = "zx0" \/ l <= trial.cap => g = w
      /\ trial.variant = "zx02" /\ l > trial.cap => g = BIG
    BY <1>1, GammaBits, GammaType
<1>3. BitsWritten(u, rep) = 1 + w + 8 * l /\ LiteralBits(u.len) = 1 + g + 8 * l
    BY <1>1 DEF BitsWritten, LiteralBits
<1>4. Fits(u, rep) <=> (trial.variant = "zx02" => l <= trial.cap)
    BY <1>1 DEF Fits
<1>5. trial.variant \in {"zx0", "zx02"} /\ trial.cap \in Nat
    BY TrialType
<1>6. Fits(u, rep) => BitsWritten(u, rep) = LiteralBits(u.len)
    BY <1>2, <1>3, <1>4, <1>5
<1>7. ~Fits(u, rep) => LiteralBits(u.len) > BIG
    <2> HAVE ~Fits(u, rep)
    <2>1. g = BIG
      BY <1>2, <1>4, <1>5
    <2> QED BY <1>2, <1>3, <2>1
<1>8. BitsWritten(u, rep) \in Nat /\ LiteralBits(u.len) \in Nat
    BY <1>2, <1>3
<1> QED BY <1>6, <1>7, <1>8 DEF Charged

LEMMA RepCharged ==
    ASSUME trial \in Trials, NEW u, u.offset # 0, u.len \in Nat \ {0}, NEW rep \in BOOLEAN, rep
    PROVE  Charged(u, rep, RepBits(u.len))
<1> DEFINE fits == Fits(u, rep)
<1>1. PICK l, g, w, b, c :
          /\ l = u.len /\ g = Gamma(l) /\ w = GammaWritten(l)
          /\ b = BitsWritten(u, rep) /\ c = RepBits(u.len)
    OBVIOUS
<1>2. /\ l \in Nat \ {0} /\ g \in Nat /\ w \in Nat
      /\ trial.variant = "zx0" \/ l <= trial.cap => g = w
      /\ trial.variant = "zx02" /\ l > trial.cap => g = BIG
    BY <1>1, GammaBits, GammaType
<1>3. b = 1 + w /\ c = 1 + g
    BY <1>1 DEF BitsWritten, RepBits
<1>4. fits <=> (trial.variant = "zx02" => l <= trial.cap)
    BY <1>1 DEF Fits
<1> HIDE DEF fits
<1>5. trial.variant \in {"zx0", "zx02"} /\ trial.cap \in Nat
    BY TrialType
<1>6. fits => b = c
    BY <1>2, <1>3, <1>4, <1>5
<1>7. ~fits => c > BIG
    <2> HAVE ~fits
    <2>1. g = BIG
      BY <1>2, <1>4, <1>5
    <2> QED BY <1>2, <1>3, <2>1
<1>8. b \in Nat /\ c \in Nat
    BY <1>2, <1>3
<1>9. fits => b <= c
    BY <1>6, <1>8
<1> QED BY <1>1, <1>6, <1>7, <1>8, <1>9, Zenon DEF Charged, fits

\* The offset of a new match: ZX02's parser looks at the offset, the writer at the offset
\* less 1, which is cheaper or the same, and never codes as the end.
LEMMA OffsetCharged ==
    ASSUME trial \in Trials, NEW off \in Nat \ {0}, off <= trial.limit
    PROVE  /\ OffsetMsb(off) \in Nat \ {0} /\ GammaWritten(OffsetMsb(off)) \in Nat
           /\ OffsetBits(off) \in Nat /\ OffsetBits(off) >= 9
           /\ trial.variant = "zx02" => OffsetMsb(off) < trial.cap
           /\ 8 + GammaWritten(OffsetMsb(off)) <= OffsetBits(off)
           /\ trial.variant = "zx0" \/ off % trial.low # 0 =>
                  8 + GammaWritten(OffsetMsb(off)) = OffsetBits(off)
<1>1. /\ off - 1 \in Nat /\ trial.low \in Nat \ {0} /\ trial.cap \in Nat /\ trial.limit \in Nat
      /\ trial.variant \in {"zx0", "zx02"} /\ (off - 1) + 1 = off
    BY TrialType
<1>2. PICK m, q : m = (off - 1) \div trial.low /\ q = off \div trial.low
    OBVIOUS
<1>3. /\ m \in Nat /\ q \in Nat /\ (q = m \/ q = m + 1)
      /\ off % trial.low # 0 => q = m
    <2>1. PICK v, b : v = off - 1 /\ b = trial.low
      OBVIOUS
    <2>2. v \in Nat /\ b \in Nat \ {0} /\ v + 1 = off
      BY <1>1, <2>1
    <2>3. /\ v \div b \in Nat /\ (v + 1) \div b \in Nat
          /\ (v + 1) \div b = v \div b \/ (v + 1) \div b = v \div b + 1
          /\ (v + 1) % b # 0 => (v + 1) \div b = v \div b
      BY <2>2, Quotient
    <2>4. m = v \div b /\ q = (v + 1) \div b /\ off % trial.low = (v + 1) % b
      BY <1>2, <2>1, <2>2
    <2> QED BY <2>3, <2>4
<1>4. OffsetMsb(off) = m + 1 /\ m + 1 \in Nat \ {0} /\ q + 1 \in Nat \ {0}
    BY <1>2, <1>3 DEF OffsetMsb
<1>5. OffsetBits(off) = 8 + Gamma(IF trial.variant = "zx0" THEN m + 1 ELSE q + 1)
    BY <1>2 DEF OffsetBits
<1>6. /\ GammaWritten(m + 1) = 1 + 2 * FloorLog2(m + 1) /\ GammaWritten(m + 1) \in Nat
      /\ GammaWritten(m + 1) >= 1
      /\ GammaWritten(q + 1) = 1 + 2 * FloorLog2(q + 1) /\ GammaWritten(q + 1) \in Nat
    BY <1>4, GammaBits
<1>7. CASE trial.variant = "zx0"
    <2>1. Gamma(m + 1) = GammaWritten(m + 1)
      BY <1>4, <1>7, GammaBits
    <2> QED BY <1>4, <1>5, <1>6, <1>7, <2>1
<1>8. CASE trial.variant = "zx02"
    <2>1. trial.limit <= (trial.cap - 1) * trial.low /\ trial.cap - 1 \in Int
      BY <1>1, <1>8, TrialsAssumption
    <2>2. trial.cap - 1 \in Nat
      BY <1>1, TrialType
    <2>3. off - 1 < (trial.cap - 1) * trial.low
      <3>1. PICK x : x = (trial.cap - 1) * trial.low
        OBVIOUS
      <3>2. x \in Int
        BY <1>1, <3>1
      <3> QED BY <1>1, <2>1, <3>1, <3>2
    <2>4. m < trial.cap - 1
      BY <1>1, <1>2, <2>2, <2>3, QuotientBelow
    <2>5. m + 1 < trial.cap /\ q + 1 <= trial.cap
      BY <1>1, <1>3, <2>4
    <2>6. Gamma(q + 1) = GammaWritten(q + 1)
      BY <1>4, <2>5, GammaBits
    <2>7. GammaWritten(m + 1) <= GammaWritten(q + 1)
      <3>1. CASE q = m
        BY <1>6, <3>1
      <3>2. CASE q = m + 1
        <4>1. PICK a, b : a = FloorLog2(m + 1) /\ b = FloorLog2(q + 1)
          OBVIOUS
        <4>2. a \in Nat /\ b \in Nat
          BY <1>4, <4>1, LogType
        <4>3. a <= b
          BY <1>4, <3>2, <4>1, LogGrows
        <4>4. GammaWritten(m + 1) = 1 + 2 * a /\ GammaWritten(q + 1) = 1 + 2 * b
          BY <1>6, <4>1
        <4> QED BY <4>2, <4>3, <4>4
      <3> QED BY <1>3, <3>1, <3>2
    <2>8. OffsetBits(off) = 8 + GammaWritten(q + 1)
      BY <1>5, <1>8, <2>6
    <2>9. GammaWritten(q + 1) >= 1
      BY <1>6, <2>7
    <2>10. off % trial.low # 0 => 8 + GammaWritten(m + 1) = OffsetBits(off)
      BY <1>3, <2>8
    <2> QED BY <1>4, <1>6, <1>8, <2>5, <2>7, <2>8, <2>9, <2>10
<1> QED BY <1>1, <1>7, <1>8

LEMMA NewCharged ==
    ASSUME trial \in Trials, NEW u, u.offset \in Nat \ {0}, u.offset <= trial.limit,
           u.len \in Nat \ {0}, u.len >= Shortest,
           NEW rep \in BOOLEAN, ~rep
    PROVE  Charged(u, rep, NewBits(u.offset, u.len))
<1>1. PICK l, g, w, o, p :
          /\ l = u.len /\ g = NewLengthBits(l) /\ w = GammaWritten(l - 1)
          /\ o = OffsetBits(u.offset) /\ p = GammaWritten(OffsetMsb(u.offset))
    OBVIOUS
<1>2. /\ trial.variant \in {"zx0", "zx02"} /\ trial.cap \in Nat \ {0}
      /\ l \in Nat \ {0} /\ g \in Nat /\ (trial.variant = "zx0" => l # 1)
    <2>1. trial.variant \in {"zx0", "zx02"} /\ trial.cap \in Nat \ {0}
      BY TrialType
    <2>2. l \in Nat \ {0} /\ g \in Nat
      BY <1>1, CostType
    <2>3. trial.variant = "zx0" => l >= 2
      BY <1>1 DEF Shortest
    <2> QED BY <2>1, <2>2, <2>3
<1>3. /\ w \in Nat
      /\ trial.variant = "zx0" \/ l <= trial.cap => g = w
      /\ trial.variant = "zx02" /\ l > trial.cap => g = BIG
    <2>1. CASE l = 1
      <3>1. w = GammaWritten(trial.cap) /\ g = Gamma(trial.cap)
        BY <1>1, <1>2, <2>1 DEF GammaWritten, NewLengthBits
      <3>2. w \in Nat /\ g = w
        BY <1>2, <3>1, GammaBits
      <3>3. ~(l > trial.cap)
        BY <1>2, <2>1
      <3> QED BY <3>2, <3>3
    <2>2. CASE l # 1
      <3>1. l - 1 \in Nat \ {0}
        BY <1>2, <2>2
      <3>2. w \in Nat
        BY <1>1, <3>1, GammaBits
      <3>3. CASE trial.variant = "zx02" /\ l > trial.cap
        <4>1. g = BIG
          BY <1>1, <2>2, <3>3 DEF NewLengthBits
        <4> QED BY <1>2, <3>2, <3>3, <4>1
      <3>4. CASE ~(trial.variant = "zx02" /\ l > trial.cap)
        <4>1. g = Gamma(l - 1)
          BY <1>1, <2>2, <3>4 DEF NewLengthBits
        <4>2. trial.variant = "zx0" \/ l - 1 <= trial.cap
          BY <1>2, <3>4
        <4> QED BY <1>1, <3>1, <3>2, <3>4, <4>1, <4>2, GammaBits
      <3> QED BY <3>3, <3>4
    <2> QED BY <2>1, <2>2
<1>4. w >= 1
    <2>1. CASE l = 1
      <3>1. w = GammaWritten(trial.cap)
        BY <1>1, <1>2, <2>1 DEF GammaWritten
      <3> QED BY <1>2, <3>1, GammaBits
    <2>2. CASE l # 1
      <3>1. l - 1 \in Nat \ {0}
        BY <1>2, <2>2
      <3> QED BY <1>1, <3>1, GammaBits
    <2> QED BY <2>1, <2>2
<1>5. /\ p \in Nat /\ o \in Nat /\ o >= 9 /\ 8 + p <= o
      /\ trial.variant = "zx02" => OffsetMsb(u.offset) < trial.cap
      /\ trial.variant = "zx0" \/ u.offset % trial.low # 0 => 8 + p = o
    BY <1>1, OffsetCharged
<1>6. BitsWritten(u, rep) = 1 + p + 8 + (w - 1) /\ NewBits(u.offset, u.len) = o + g
    BY <1>1 DEF BitsWritten, NewBits
<1>7. Fits(u, rep) <=> (trial.variant = "zx02" => l <= trial.cap)
    BY <1>1, <1>5 DEF Fits
<1>8. Fair(u) => 8 + p = o
    BY <1>5 DEF Fair
<1>9. BitsWritten(u, rep) = 8 + p + w /\ BitsWritten(u, rep) \in Nat /\ NewBits(u.offset, u.len) \in Nat
    BY <1>2, <1>3, <1>4, <1>5, <1>6
<1>10. Fits(u, rep) => g = w
    BY <1>2, <1>3, <1>7
<1>11. Fits(u, rep) => BitsWritten(u, rep) <= NewBits(u.offset, u.len)
    BY <1>3, <1>5, <1>6, <1>9, <1>10
<1>12. Fits(u, rep) /\ Fair(u) => BitsWritten(u, rep) = NewBits(u.offset, u.len)
    BY <1>3, <1>5, <1>6, <1>8, <1>9, <1>10
<1>13. ~Fits(u, rep) => NewBits(u.offset, u.len) > BIG
    <2> HAVE ~Fits(u, rep)
    <2>1. g = BIG
      BY <1>2, <1>3, <1>7
    <2> QED BY <1>2, <1>5, <1>6, <2>1
<1> QED BY <1>9, <1>11, <1>12, <1>13 DEF Charged

\* What the writer knows once it has written the units up to the block.
Knows(P, acc, node) ==
    /\ acc.at = node.index + 1 /\ acc.last = Behind(P, node)
    /\ acc.literal = (node.offset = 0) /\ acc.legal
    /\ acc.bits \in Int /\ acc.fits \in BOOLEAN /\ acc.fair \in BOOLEAN
    /\ acc.fits => acc.bits <= node.bits
    /\ acc.fits /\ acc.fair => acc.bits = node.bits
    /\ ~acc.fits => node.bits >= BIG

\* The writer writes the unit of the block as the parser meant it.
LEMMA UnitWritten ==
    ASSUME trial \in Trials, NEW P, Good(P, {}), Linked(P), NEW b \in Blocks(P), P.nodes[b].chain # NIL,
           P.nodes[b].offset <= trial.limit, NEW acc, Knows(P, acc, P.nodes[P.nodes[b].chain]),
           NEW u, u = [offset |-> P.nodes[b].offset,
                       len |-> P.nodes[b].index - P.nodes[P.nodes[b].chain].index]
    PROVE  Knows(P, Write(acc, u), P.nodes[b])
<1>1. PICK node, before, new : node = P.nodes[b] /\ before = P.nodes[node.chain] /\ new = Write(acc, u)
    OBVIOUS
<1>2. /\ node.index \in Int /\ before.index \in Int
      /\ node.offset \in Nat /\ before.offset \in Nat
      /\ node.bits \in Int /\ before.bits \in Int /\ before.bits >= -1 /\ node.offset <= trial.limit
    <2>1. P.nodes[b].chain \in Blocks(P)
      BY ChainType
    <2>2. P.nodes[b] \in Node /\ P.nodes[P.nodes[b].chain] \in Node
      BY <2>1, PoolType DEF Good
    <2>3. before.bits \in Nat \cup {-1}
      BY <1>1, <2>2 DEF Node
    <2>4. before.bits >= -1
      <3>1. PICK x : x = before.bits
        OBVIOUS
      <3>2. x \in Nat \cup {-1}
        BY <2>3, <3>1
      <3>3. x >= -1
        BY <3>2
      <3> QED BY <3>1, <3>3
    <2> QED BY <1>1, <2>1, <2>4, ChainType
<1>3. /\ Before(P, node) = before /\ Length(P, node) = node.index - before.index
      /\ u.offset = node.offset /\ u.len = Length(P, node)
    BY <1>1 DEF Before, Length
<1>4. /\ IsLiterals(P, node) \/ IsRep(P, node) \/ IsNew(P, node)
      /\ u.len \in Nat \ {0}
    <2>1. /\ IsLiterals(P, node) \/ IsRep(P, node) \/ IsNew(P, node)
          /\ Length(P, node) > 0
      BY <1>1 DEF Linked, IsUnit
    <2> QED BY <1>2, <1>3, <2>1
<1>5. /\ acc.at = before.index + 1 /\ acc.last = Behind(P, before)
      /\ acc.literal = (before.offset = 0) /\ acc.legal
      /\ acc.bits \in Int /\ acc.fits \in BOOLEAN /\ acc.fair \in BOOLEAN
      /\ acc.fits => acc.bits <= before.bits
      /\ acc.fits /\ acc.fair => acc.bits = before.bits
      /\ ~acc.fits => before.bits >= BIG
    BY <1>1 DEF Knows
<1>6. PICK rep : rep = (u.offset = acc.last /\ (trial.variant = "zx0" \/ acc.literal))
    OBVIOUS
<1>7. /\ new.at = acc.at + u.len
      /\ new.last = IF u.offset = 0 THEN acc.last ELSE u.offset
      /\ new.literal = (u.offset = 0)
      /\ new.bits = acc.bits + BitsWritten(u, rep)
      /\ new.fits = (acc.fits /\ Fits(u, rep)) /\ new.fair = (acc.fair /\ Fair(u))
      /\ new.legal = (/\ acc.legal
                      /\ IF u.offset = 0 THEN ~acc.literal
                         ELSE (rep => acc.literal) /\ Copies(acc.at + u.len, u.offset, u.len))
    <2>1. new.at = acc.at + u.len /\ new.last = IF u.offset = 0 THEN acc.last ELSE u.offset
      BY <1>1 DEF Write
    <2>2. new.literal = (u.offset = 0)
      BY <1>1 DEF Write
    <2>3. new.bits = acc.bits + BitsWritten(u, rep)
      BY <1>1, <1>6 DEF Write
    <2>5. new.fits = (acc.fits /\ Fits(u, rep)) /\ new.fair = (acc.fair /\ Fair(u))
      BY <1>1, <1>6 DEF Write
    <2>4. new.legal = (/\ acc.legal
                       /\ IF u.offset = 0 THEN ~acc.literal
                          ELSE (rep => acc.literal) /\ Copies(acc.at + u.len, u.offset, u.len))
      BY <1>1, <1>6 DEF Write
    <2> QED BY <2>1, <2>2, <2>3, <2>4, <2>5
<1>8. acc.at + u.len = node.index + 1 /\ new.at = node.index + 1
    <2>1. acc.at + u.len = node.index + 1
      BY <1>2, <1>3, <1>5
    <2> QED BY <1>7, <2>1
<1>13. ASSUME NEW c, Charged(u, rep, c), node.bits = before.bits + c
       PROVE  /\ new.bits \in Int /\ new.fits \in BOOLEAN /\ new.fair \in BOOLEAN
              /\ new.fits => new.bits <= node.bits
              /\ new.fits /\ new.fair => new.bits = node.bits
              /\ ~new.fits => node.bits >= BIG
    <2>1. PICK w : w = BitsWritten(u, rep)
      OBVIOUS
    <2>2. /\ c \in Nat /\ w \in Nat /\ (Fits(u, rep) => w <= c)
          /\ (Fits(u, rep) /\ Fair(u) => w = c) /\ (~Fits(u, rep) => c > BIG)
      BY <1>13, <2>1 DEF Charged
    <2>3. new.bits = acc.bits + w
      BY <1>7, <2>1
    <2>4. new.fits \in BOOLEAN /\ new.fair \in BOOLEAN /\ new.bits \in Int
      BY <1>5, <1>7, <2>2, <2>3
    <2>5. ASSUME new.fits
          PROVE  new.bits <= node.bits /\ (new.fair => new.bits = node.bits)
      <3>1. acc.fits /\ Fits(u, rep) /\ (new.fair => acc.fair /\ Fair(u))
        BY <1>7, <2>5
      <3>2. acc.bits <= before.bits /\ w <= c
        BY <1>5, <2>2, <3>1
      <3>3. new.bits <= node.bits
        BY <1>2, <1>5, <1>13, <2>2, <2>3, <3>2
      <3>4. new.fair => acc.bits = before.bits /\ w = c
        BY <1>5, <2>2, <3>1
      <3> QED BY <1>13, <2>3, <3>3, <3>4
    <2>6. BIG \in Nat
      BY DEF BIG
    <2>7. ASSUME ~new.fits PROVE node.bits >= BIG
      <3>1. CASE ~acc.fits
        <4>1. before.bits >= BIG
          BY <1>5, <3>1
        <4> QED BY <1>2, <1>13, <2>2, <2>6, <4>1
      <3>2. CASE acc.fits
        <4>1. c > BIG
          BY <1>7, <2>2, <2>7, <3>2
        <4> QED BY <1>2, <1>13, <2>2, <2>6, <4>1
      <3> QED BY <1>5, <3>1, <3>2
    <2> QED BY <2>4, <2>5, <2>7
<1>14. rep \in BOOLEAN
    BY <1>6
<1>9. CASE IsLiterals(P, node)
    <2>1. node.offset = 0 /\ before.offset # 0 /\ node.bits = before.bits + LiteralBits(Length(P, node))
      BY <1>3, <1>9 DEF IsLiterals
    <2>2. Behind(P, node) = before.offset /\ Behind(P, before) = before.offset
      BY <1>3, <2>1 DEF Behind
    <2>3. new.last = Behind(P, node) /\ new.legal /\ new.literal = (node.offset = 0)
      <3>1. u.offset = 0 /\ u.len = Length(P, node) /\ ~acc.literal
        BY <1>3, <1>5, <2>1
      <3>2. new.last = Behind(P, node)
        BY <1>5, <1>7, <2>1, <2>2, <3>1
      <3>3. new.legal
        BY <1>5, <1>7, <3>1
      <3>4. new.literal = (node.offset = 0)
        BY <1>3, <1>7
      <3> QED BY <3>2, <3>3, <3>4
    <2>4. Charged(u, rep, LiteralBits(u.len)) /\ node.bits = before.bits + LiteralBits(u.len)
      BY <1>3, <1>4, <1>14, <2>1, LiteralsCharged
    <2> QED BY <1>1, <1>8, <1>13, <2>3, <2>4, Zenon DEF Knows
<1>10. ASSUME node.offset # 0, Copied(P, node)
       PROVE  /\ Behind(P, node) = new.last /\ new.literal = (node.offset = 0)
              /\ Copies(acc.at + u.len, u.offset, u.len)
    BY <1>3, <1>7, <1>8, <1>10 DEF Behind, Copied
<1>11. CASE IsRep(P, node)
    <2>1. /\ node.offset # 0 /\ Copied(P, node) /\ before.offset = 0 /\ Behind(P, before) = node.offset
          /\ node.bits = before.bits + RepBits(Length(P, node))
      BY <1>3, <1>11 DEF IsRep, Repeating
    <2>2. rep /\ acc.literal
      BY <1>3, <1>5, <1>6, <2>1
    <2>3. Charged(u, rep, RepBits(u.len)) /\ node.bits = before.bits + RepBits(u.len)
      <3>1. rep /\ u.offset # 0
        BY <1>3, <1>14, <2>1, <2>2
      <3> QED BY <1>3, <1>4, <1>14, <2>1, <3>1, RepCharged
    <2>4. new.legal
      BY <1>3, <1>5, <1>7, <1>10, <2>1, <2>2
    <2>5. new.last = Behind(P, node) /\ new.literal = (node.offset = 0)
      BY <1>10, <2>1
    <2> QED BY <1>1, <1>8, <1>13, <2>3, <2>4, <2>5, Zenon DEF Knows
<1>12. CASE IsNew(P, node)
    <2>1. /\ node.offset # 0 /\ Copied(P, node)
          /\ ~(before.offset = 0 /\ Behind(P, before) = node.offset)
          /\ trial.variant = "zx0" => before.offset # node.offset
          /\ node.bits = before.bits + NewBits(node.offset, Length(P, node))
      BY <1>3, <1>12 DEF IsNew, Repeating
    <2>2. ~rep
      <3>1. CASE before.offset = 0
        BY <1>3, <1>5, <1>6, <2>1, <3>1
      <3>2. CASE before.offset # 0
        <4>1. Behind(P, before) = before.offset
          BY <3>2 DEF Behind
        <4> QED BY <1>3, <1>5, <1>6, <2>1, <3>2, <4>1
      <3> QED BY <3>1, <3>2
    <2>3. Charged(u, rep, NewBits(u.offset, u.len)) /\ node.bits = before.bits + NewBits(u.offset, u.len)
      <3>1. ~rep /\ u.offset \in Nat \ {0} /\ u.offset <= trial.limit
        BY <1>2, <1>3, <1>14, <2>1, <2>2
      <3>2. u.len >= Shortest
        BY <1>3, <1>12 DEF IsNew
      <3> QED BY <1>3, <1>4, <1>14, <2>1, <3>1, <3>2, NewCharged
    <2>4. new.legal
      BY <1>3, <1>5, <1>7, <1>10, <2>1, <2>2
    <2>5. new.last = Behind(P, node) /\ new.literal = (node.offset = 0)
      BY <1>10, <2>1
    <2> QED BY <1>1, <1>8, <1>13, <2>3, <2>4, <2>5, Zenon DEF Knows
<1> QED BY <1>4, <1>9, <1>11, <1>12

\* The blocks that lead to id are written as the parser meant them.
LEMMA ParseWritten ==
    ASSUME trial \in Trials, NEW P, Good(P, {}), Linked(P),
           \A k \in Blocks(P) : P.nodes[k].offset <= trial.limit,
           NEW id \in Blocks(P), P.nodes[id].index <= n - 1
    PROVE  Knows(P, Written(UnitsOf(P, id)), P.nodes[id])
<1>1. PICK c : c = Chain(P, id)
    OBVIOUS
<1>2. Joined(P, c, id) /\ P.nodes[c[1]] = First
    BY <1>1, ChainBack
<1>3. PICK m : m = Len(c) - 1
    OBVIOUS
<1>4. /\ m \in Nat /\ Len(c) = m + 1 /\ c[m + 1] = id
      /\ \A k \in 0 .. m : c[k + 1] \in Blocks(P)
      /\ \A k \in 1 .. m : P.nodes[c[k + 1]].chain = c[k]
    <2>1. c \in Seq(Blocks(P)) /\ Len(c) \in Nat /\ Len(c) >= 1 /\ c[Len(c)] = id
      BY <1>2, LenProperties DEF Joined
    <2>2. m \in Nat /\ Len(c) = m + 1
      BY <1>3, <2>1
    <2>3. \A k \in 0 .. m : k + 1 \in 1 .. Len(c)
      BY <2>2
    <2>4. \A k \in 0 .. m : c[k + 1] \in Blocks(P)
      BY <2>1, <2>3, ElementOfSeq
    <2> QED BY <1>2, <1>3, <2>1, <2>2, <2>4 DEF Joined
<1>5. PICK us : us = UnitsOf(P, id)
    OBVIOUS
<1>6. us = [j \in 1 .. m |-> [offset |-> P.nodes[c[j + 1]].offset,
                              len |-> P.nodes[c[j + 1]].index - P.nodes[c[j]].index]]
    BY <1>1, <1>3, <1>5 DEF UnitsOf
<1>7. Len(us) = m
    BY <1>4, <1>6
<1> DEFINE f == CHOOSE g : IsWritten(g, us, m)
<1>8. IsWritten(f, us, m)
    BY <1>4, WrittenExists
<1>9. Written(us) = f[m]
    BY <1>7 DEF Written, IsWritten
<1> HIDE DEF f
<1> DEFINE Right(k) == Knows(P, f[k], P.nodes[c[k + 1]])
<1>10. Right(0)
    <2>1. f[0] = Nothing
      BY <1>4, <1>8 DEF IsWritten
    <2>2. c[0 + 1] = c[1]
      OBVIOUS
    <2>3. First.index = -1 /\ First.bits = -1 /\ First.offset = 1
      BY DEF First, Block, INITIAL_OFFSET
    <2>4. Behind(P, First) = 1
      BY <2>3 DEF Behind
    <2>5. Nothing.at = 0 /\ Nothing.last = 1 /\ Nothing.literal = FALSE /\ Nothing.bits = -1
          /\ Nothing.legal = TRUE /\ Nothing.fits = TRUE /\ Nothing.fair = TRUE
      BY DEF Nothing, INITIAL_OFFSET
    <2>6. Knows(P, Nothing, First)
      <3>1. Nothing.at = First.index + 1 /\ Nothing.bits = First.bits /\ Nothing.bits \in Int
        BY <2>3, <2>5
      <3>2. Nothing.bits <= First.bits
        BY <2>3, <2>5
      <3>3. Nothing.literal = (First.offset = 0)
        <4>1. First.offset # 0 /\ Nothing.literal = FALSE
          BY <2>3, <2>5
        <4> QED BY <4>1, Zenon
      <3>4. Nothing.legal /\ Nothing.fits /\ Nothing.fair /\ Nothing.last = Behind(P, First)
        BY <2>4, <2>5
      <3>5. Nothing.fits \in BOOLEAN /\ Nothing.fair \in BOOLEAN
        BY <2>5
      <3> QED BY <3>1, <3>2, <3>3, <3>4, <3>5, Zenon DEF Knows
    <2> QED BY <1>2, <2>1, <2>2, <2>6
<1>11. ASSUME NEW k \in 1 .. m, Right(k - 1) PROVE Right(k)
    <2>1. PICK acc : acc = f[k - 1]
      OBVIOUS
    <2>2. f[k] = Write(acc, us[k])
      <3>1. k \in 0 .. m /\ k # 0
        BY <1>4
      <3> QED BY <1>8, <2>1, <3>1 DEF IsWritten
    <2>3. PICK b : b = c[k + 1]
      OBVIOUS
    <2>4. b \in Blocks(P) /\ P.nodes[b].chain = c[k]
      BY <1>4, <2>3
    <2>5. c[k] \in Blocks(P) /\ c[k] # NIL
      <3>1. k - 1 \in 0 .. m /\ (k - 1) + 1 = k
        BY <1>4
      <3>2. c[k] \in Blocks(P)
        BY <1>4, <3>1
      <3> QED BY <3>2 DEF Blocks, NIL
    <2>6. us[k] = [offset |-> P.nodes[b].offset,
                   len |-> P.nodes[b].index - P.nodes[P.nodes[b].chain].index]
      BY <1>6, <2>3, <2>4
    <2>7. Knows(P, acc, P.nodes[P.nodes[b].chain])
      <3>1. (k - 1) + 1 = k
        BY <1>4
      <3> QED BY <1>11, <2>1, <2>4, <3>1
    <2>8. Knows(P, Write(acc, us[k]), P.nodes[b])
      BY <2>4, <2>5, <2>6, <2>7, UnitWritten
    <2> QED BY <2>2, <2>3, <2>8
<1> HIDE DEF Right
<1> DEFINE Bad == {k \in Nat : k <= m /\ ~Right(k)}
<1>12. ASSUME Bad # {} PROVE FALSE
    <2>1. PICK k \in Bad : \A y \in Bad : k <= y
      BY <1>12, LeastNatural
    <2>2. k \in Nat /\ k <= m /\ ~Right(k) /\ k # 0
      BY <1>10, <2>1
    <2>3. k \in 1 .. m /\ k - 1 \in Nat /\ k - 1 <= m /\ ~(k <= k - 1)
      BY <1>4, <2>2
    <2>4. Right(k - 1)
      BY <2>1, <2>3
    <2> QED BY <1>11, <2>2, <2>3, <2>4
<1>13. Right(m)
    <2>1. Bad = {}
      <3> HIDE DEF Bad
      <3> QED BY <1>12
    <2>2. m \in Nat /\ m <= m
      BY <1>4
    <2> QED BY <2>1, <2>2
<1> QED BY <1>4, <1>5, <1>9, <1>13 DEF Right

\* Whatever is parsed, the blocks that lead to a position are units one behind the
\* other that cover the input up to there, literals or a match that copies what it
\* covers; and the writers of zx0compat.rs and zx02.rs, which see no more of a unit than
\* chain_to_commands leaves, take each for the kind whose bits the parser counted.
THEOREM ParseStaysFaithful == Spec => []Faithful
<1>1. Inv /\ LinkInv => Faithful
    <2> SUFFICES ASSUME Inv, LinkInv, NEW i \in Positions, i < index
                 PROVE  LET counted == pool.nodes[Optimal(pool, i)].bits
                            result == Written(UnitsOf(pool, Optimal(pool, i)))
                        IN /\ result.legal /\ result.at = i + 1
                           /\ counted < BIG => result.fits
                           /\ result.fits => result.bits <= counted
                           /\ result.fits /\ result.fair => result.bits = counted
      BY DEF Faithful
    <2>1. trial \in Trials /\ Good(pool, {}) /\ Linked(pool) /\ Ending(pool)
      BY DEF Inv, Fit, LinkInv, Links
    <2>2. PICK id : id = Optimal(pool, i)
      OBVIOUS
    <2>3. id # NIL
      BY <2>2 DEF Inv, Fit
    <2>4. id \in Blocks(pool)
      <3>1. <<"optimal", i>> \in Slots
        BY DEF Slots
      <3> QED BY <2>1, <2>2, <2>3, <3>1, BlockOf DEF Optimal
    <2>5. pool.nodes[id].index = i
      BY <2>1, <2>2, <2>3 DEF Ending
    <2>6. n \in Nat /\ i <= n - 1
      BY <2>1, TrialType DEF Positions
    <2>7. Knows(pool, Written(UnitsOf(pool, id)), pool.nodes[id])
      <3>1. \A k \in Blocks(pool) : pool.nodes[k].offset <= trial.limit
        BY DEF Inv, Fit
      <3> QED BY <2>1, <2>4, <2>5, <2>6, <3>1, ParseWritten
    <2>8. PICK node, acc : node = pool.nodes[id] /\ acc = Written(UnitsOf(pool, id))
      OBVIOUS
    <2>9. /\ acc.legal /\ acc.at = i + 1
          /\ acc.fits => acc.bits <= node.bits
          /\ acc.fits /\ acc.fair => acc.bits = node.bits
          /\ ~acc.fits => node.bits >= BIG
      BY <2>5, <2>7, <2>8 DEF Knows
    <2>10. node.bits \in Int /\ BIG \in Int
      BY <2>1, <2>4, <2>8, ChainType DEF BIG
    <2>11. node.bits < BIG => acc.fits
      BY <2>9, <2>10
    <2> QED BY <2>2, <2>8, <2>9, <2>11
<1> QED BY <1>1, LinksHold, PTL

-----------------------------------------------------------------------------
(* The costs the reference counts, and what the tables say of them.         *)

\* What the units that cover the first j bytes cost at least: the row of the position
\* that is worked on is not written down before it is done.
Cell(j, t, k) == IF j <= index THEN least[j + 1][<<t, k>>] ELSE Row(index + 1)[<<t, k>>]

\* There is one cost at most.  Behind a match the last byte is one that the offset
\* copies, but for the start; behind literals it is one that it does not.
Single(costs) == costs \subseteq Nat \cup {-1} /\ \A x, y \in costs : x = y
Shaped(j) ==
    \A t \in Offsets :
        /\ \A k \in Kinds : Single(Cell(j, t, k))
        /\ Cell(j, t, "Match") # {} => RepeatsAt(j, t) \/ (j = 0 /\ t = 1)
        /\ Cell(j, t, "Literals") # {} => j >= 1 /\ ~RepeatsAt(j, t)
Rows ==
    /\ least \in Seq([Offsets \X Kinds -> SUBSET Int]) /\ Len(least) = index + 1
    /\ \A j \in 0 .. index : Shaped(j)

\* The last match behind an offset costs what the reference says, and since then no
\* byte repeats; where there is none, the reference has none.  So with the literals.
\* Where there are no literals yet, a match goes on that is long enough.
MatchTold(P, t, d) ==
    LET m == P.nodes[LastMatch(P, t)] IN
    IF LastMatch(P, t) = NIL THEN \A j \in 0 .. d + 1 : Cell(j, t, "Match") = {}
    ELSE /\ m.index <= d /\ Cell(m.index + 1, t, "Match") = {m.bits}
         /\ \A x \in m.index + 2 .. d + 1 : ~RepeatsAt(x, t)
LiteralsTold(P, t, d) ==
    LET l == P.nodes[LastLiteral(P, t)] IN
    IF LastLiteral(P, t) = NIL THEN \A j \in 0 .. d + 1 : Cell(j, t, "Literals") = {}
    ELSE Cell(l.index + 1, t, "Literals") = {l.bits}
Opening(P, t, d, len) ==
    LastMatch(P, t) # NIL /\ LastLiteral(P, t) = NIL =>
        P.nodes[LastMatch(P, t)].index = d /\ (d >= 0 => len >= Shortest)
Told(P, t, d, len) == MatchTold(P, t, d) /\ LiteralsTold(P, t, d) /\ Opening(P, t, d, len)
Tables(P, lengths, i, o) == \A t \in Offsets : Told(P, t, Done(t, i, o), lengths[t])

\* What the cheapest block at a position ends: its cost is one the reference has, and
\* no more than any other there, as far as the loop over the offsets has come.
Ends(P, j) ==
    LET c == P.nodes[Optimal(P, j)] IN
    [bits |-> c.bits, offset |-> Behind(P, c), kind |-> IF c.offset = 0 THEN "Literals" ELSE "Match"]
Attained(e, j) == e.offset \in Offsets /\ e.bits \in Cell(j + 1, e.offset, e.kind)
NoDearer(e, j, t) == \A k \in Kinds : \A x \in Cell(j + 1, t, k) : e.bits <= x
Optima(P, i, o) ==
    \A j \in Positions : j <= i /\ Optimal(P, j) # NIL =>
        /\ Attained(Ends(P, j), j)
        /\ \A t \in Offsets : j < i \/ t < o => NoDearer(Ends(P, j), j, t)

CostInv ==
    /\ Rows
    /\ Tables(pool, match_length, index, offset)
    /\ Optima(pool, index, offset)

\* The least of some costs.
LEMMA LeastIs ==
    ASSUME NEW costs, costs \subseteq Nat
    PROVE  /\ Single(Least(costs)) /\ Least(costs) \subseteq costs
           /\ \A x \in costs : \E y \in Least(costs) : y <= x
<1>1. CASE costs = {}
    BY <1>1 DEF Least, Single
<1>2. CASE costs # {}
    <2>1. PICK m \in costs : \A y \in costs : m <= y
      BY <1>2, LeastNatural
    <2>2. Min(costs) = CHOOSE x \in costs : \A y \in costs : x <= y
      BY DEF Min
    <2>3. Min(costs) \in costs /\ \A y \in costs : Min(costs) <= y
      BY <2>1, <2>2
    <2>4. Least(costs) = {Min(costs)}
      BY <1>2 DEF Least
    <2> HIDE DEF Least
    <2> QED BY <2>3, <2>4 DEF Single
<1> QED BY <1>1, <1>2

\* Costs that are one cost have it as their least.
LEMMA LeastOne ==
    ASSUME NEW costs, costs \subseteq Nat, NEW v \in costs, \A x \in costs : v <= x
    PROVE  Least(costs) = {v}
<1>1. Single(Least(costs)) /\ Least(costs) \subseteq costs /\ \E y \in Least(costs) : y <= v
    BY LeastIs
<1>2. PICK y \in Least(costs) : y <= v
    BY <1>1
<1>3. y \in costs /\ v <= y
    BY <1>1
<1>4. y = v
    BY <1>2, <1>3
<1> QED BY <1>1, <1>4 DEF Single

\* What is among the costs of literals, of repetitions and of matches that end at a position.
LEMMA LiteralsAre ==
    ASSUME NEW i, NEW t, NEW x
    PROVE  x \in LiteralCosts(i, t) <=>
               \E len \in 1 .. i : /\ Plain(i, t, len)
                                  /\ \E c \in After(i - len, t, "Match") : x = c + LiteralBits(len)
<1> DEFINE Lens == {len \in 1 .. i : Plain(i, t, len)}
           Costs(len) == {c + LiteralBits(len) : c \in After(i - len, t, "Match")}
<1>1. LiteralCosts(i, t) = UNION {Costs(len) : len \in Lens}
    BY DEF LiteralCosts
<1>2. \A len : x \in Costs(len) <=> \E c \in After(i - len, t, "Match") : x = c + LiteralBits(len)
    BY Zenon
<1>3. \A len : len \in Lens <=> len \in 1 .. i /\ Plain(i, t, len)
    BY Zenon
<1> HIDE DEF Lens, Costs
<1>4. x \in LiteralCosts(i, t) <=> \E len \in Lens : x \in Costs(len)
    BY <1>1, Zenon
<1> QED BY <1>2, <1>3, <1>4, Zenon

LEMMA RepsAre ==
    ASSUME NEW i, NEW t, NEW x
    PROVE  x \in RepCosts(i, t) <=>
               \E len \in 1 .. i : /\ Copies(i, t, len)
                                  /\ \E c \in After(i - len, t, "Literals") : x = c + RepBits(len)
<1> DEFINE Lens == {len \in 1 .. i : Copies(i, t, len)}
           Costs(len) == {c + RepBits(len) : c \in After(i - len, t, "Literals")}
<1>1. RepCosts(i, t) = UNION {Costs(len) : len \in Lens}
    BY DEF RepCosts, Reach
<1>2. \A len : x \in Costs(len) <=> \E c \in After(i - len, t, "Literals") : x = c + RepBits(len)
    BY Zenon
<1>3. \A len : len \in Lens <=> len \in 1 .. i /\ Copies(i, t, len)
    BY Zenon
<1> HIDE DEF Lens, Costs
<1>4. x \in RepCosts(i, t) <=> \E len \in Lens : x \in Costs(len)
    BY <1>1, Zenon
<1> QED BY <1>2, <1>3, <1>4, Zenon

LEMMA NewsAre ==
    ASSUME NEW i, NEW t, NEW x
    PROVE  x \in NewCosts(i, t) <=>
               \E len \in 1 .. i : \E u \in Offsets, k \in Kinds :
                   /\ Copies(i, t, len) /\ len >= Shortest /\ (u = t => Again(k))
                   /\ \E c \in After(i - len, u, k) : x = c + NewBits(t, len)
<1> DEFINE Ways == {p \in Reach(i, t) \X Offsets \X Kinds : p[1] >= Shortest /\ (p[2] = t => Again(p[3]))}
           Costs(p) == {c + NewBits(t, p[1]) : c \in After(i - p[1], p[2], p[3])}
<1>1. NewCosts(i, t) = UNION {Costs(p) : p \in Ways}
    BY DEF NewCosts
<1>2. ASSUME x \in NewCosts(i, t)
      PROVE  \E len \in 1 .. i : \E u \in Offsets, k \in Kinds :
                 /\ Copies(i, t, len) /\ len >= Shortest /\ (u = t => Again(k))
                 /\ \E c \in After(i - len, u, k) : x = c + NewBits(t, len)
    <2>1. PICK p \in Ways : x \in Costs(p)
      <3> HIDE DEF Ways, Costs
      <3> QED BY <1>1, <1>2, Zenon
    <2>2. PICK c \in After(i - p[1], p[2], p[3]) : x = c + NewBits(t, p[1])
      BY <2>1, Zenon
    <2>3. /\ p[1] \in Reach(i, t) /\ p[2] \in Offsets /\ p[3] \in Kinds
          /\ p[1] >= Shortest /\ (p[2] = t => Again(p[3]))
      <3>1. p \in Reach(i, t) \X Offsets \X Kinds /\ p[1] >= Shortest /\ (p[2] = t => Again(p[3]))
        BY <2>1, Zenon
      <3>2. p[1] \in Reach(i, t) /\ p[2] \in Offsets /\ p[3] \in Kinds
        BY <3>1
      <3> QED BY <3>1, <3>2, Zenon
    <2>4. p[1] \in 1 .. i /\ Copies(i, t, p[1])
      BY <2>3, Zenon DEF Reach
    <2> QED BY <2>2, <2>3, <2>4, Zenon
<1>3. ASSUME NEW len \in 1 .. i, NEW u \in Offsets, NEW k \in Kinds,
             Copies(i, t, len), len >= Shortest, u = t => Again(k),
             NEW c \in After(i - len, u, k), x = c + NewBits(t, len)
      PROVE  x \in NewCosts(i, t)
    <2>1. PICK p : p = <<len, u, k>>
      OBVIOUS
    <2>2. p[1] = len /\ p[2] = u /\ p[3] = k
      BY <2>1
    <2>3. p \in Reach(i, t) \X Offsets \X Kinds
      <3>1. len \in Reach(i, t)
        BY <1>3, Zenon DEF Reach
      <3> QED BY <2>1, <3>1
    <2>4. p \in Ways
      <3>1. p[1] >= Shortest /\ (p[2] = t => Again(p[3]))
        BY <1>3, <2>2, Zenon
      <3> QED BY <2>3, <3>1, Zenon
    <2>5. x \in Costs(p)
      BY <1>3, <2>2, Zenon
    <2> HIDE DEF Ways, Costs
    <2> QED BY <1>1, <2>4, <2>5, Zenon
<1> QED BY <1>2, <1>3, Zenon

\* What the reference counts for the position worked on, from the rows before.
LEMMA RowCosts ==
    ASSUME Within, Rows, NEW t \in Offsets
    PROVE  /\ Cell(index + 1, t, "Literals") = Least(LiteralCosts(index + 1, t))
           /\ Cell(index + 1, t, "Match") = Least(RepCosts(index + 1, t) \cup NewCosts(index + 1, t))
           /\ LiteralCosts(index + 1, t) \subseteq Nat /\ RepCosts(index + 1, t) \subseteq Nat
           /\ NewCosts(index + 1, t) \subseteq Nat
<1>1. /\ index \in Nat /\ t \in Nat \ {0}
    <2>1. n \in Nat /\ n >= 1 /\ trial.limit \in Nat
      BY TrialType DEF Within
    <2>2. Ceiling(n - 1) \in Nat
      BY <2>1 DEF Ceiling, INITIAL_OFFSET
    <2>3. t \in Nat \ {0}
      BY <2>2 DEF Offsets
    <2> QED BY <2>3, Places
<1>2. \A k \in Kinds : Cell(index + 1, t, k) = Row(index + 1)[<<t, k>>]
    BY <1>1 DEF Cell
<1>3. /\ Cell(index + 1, t, "Literals") = Least(LiteralCosts(index + 1, t))
      /\ Cell(index + 1, t, "Match") = Least(RepCosts(index + 1, t) \cup NewCosts(index + 1, t))
    BY <1>2 DEF Row, Kinds
<1>4. ASSUME NEW len \in 1 .. index + 1, NEW u \in Offsets, NEW k \in Kinds
      PROVE  /\ After((index + 1) - len, u, k) \subseteq Nat \cup {-1}
             /\ len \in Nat \ {0}
    <2>1. (index + 1) - len \in 0 .. index /\ len \in Nat \ {0}
      BY <1>1
    <2>2. Single(Cell((index + 1) - len, u, k))
      BY <2>1 DEF Rows, Shaped
    <2>3. Cell((index + 1) - len, u, k) = After((index + 1) - len, u, k)
      BY <1>1, <2>1 DEF Cell, After
    <2> QED BY <2>1, <2>2, <2>3 DEF Single
<1>5. ASSUME NEW c \in Nat \cup {-1}, NEW bits \in Nat \ {0} PROVE c + bits \in Nat
    OBVIOUS
<1>6. LiteralCosts(index + 1, t) \subseteq Nat
    <2>1. ASSUME NEW len \in 1 .. index + 1, NEW c \in After((index + 1) - len, t, "Match")
          PROVE  c + LiteralBits(len) \in Nat
      <3>1. c \in Nat \cup {-1} /\ len \in Nat \ {0}
        BY <1>4 DEF Kinds
      <3>2. LiteralBits(len) \in Nat \ {0}
        BY <3>1, CostType DEF Within
      <3> QED BY <1>5, <3>1, <3>2
    <2>2. ASSUME NEW x \in LiteralCosts(index + 1, t) PROVE x \in Nat
      <3>1. \E len \in 1 .. index + 1 :
                \E c \in After((index + 1) - len, t, "Match") : x = c + LiteralBits(len)
        BY LiteralsAre
      <3> QED BY <2>1, <3>1, Zenon
    <2> QED BY <2>2
<1>7. RepCosts(index + 1, t) \subseteq Nat
    <2>1. ASSUME NEW len \in 1 .. index + 1, NEW c \in After((index + 1) - len, t, "Literals")
          PROVE  c + RepBits(len) \in Nat
      <3>1. c \in Nat \cup {-1} /\ len \in Nat \ {0}
        BY <1>4 DEF Kinds
      <3>2. RepBits(len) \in Nat \ {0}
        BY <3>1, CostType DEF Within
      <3> QED BY <1>5, <3>1, <3>2
    <2>2. ASSUME NEW x \in RepCosts(index + 1, t) PROVE x \in Nat
      <3>1. \E len \in 1 .. index + 1 :
                \E c \in After((index + 1) - len, t, "Literals") : x = c + RepBits(len)
        BY RepsAre
      <3> QED BY <2>1, <3>1, Zenon
    <2> QED BY <2>2
<1>8. NewCosts(index + 1, t) \subseteq Nat
    <2>1. ASSUME NEW len \in 1 .. index + 1, NEW u \in Offsets, NEW k \in Kinds,
                 NEW c \in After((index + 1) - len, u, k)
          PROVE  c + NewBits(t, len) \in Nat
      <3>1. c \in Nat \cup {-1} /\ len \in Nat \ {0}
        BY <1>4
      <3>2. NewBits(t, len) \in Nat \ {0}
        BY <1>1, <3>1, CostType DEF Within
      <3> QED BY <1>5, <3>1, <3>2
    <2>2. ASSUME NEW x \in NewCosts(index + 1, t) PROVE x \in Nat
      <3>1. \E len \in 1 .. index + 1 : \E u \in Offsets, k \in Kinds :
                \E c \in After((index + 1) - len, u, k) : x = c + NewBits(t, len)
        BY NewsAre
      <3> QED BY <2>1, <3>1, Zenon
    <2> QED BY <2>2
<1> QED BY <1>3, <1>6, <1>7, <1>8

\* The row of the position worked on has the shape of the rows before.
LEMMA RowShaped ==
    ASSUME Within, Rows
    PROVE  Shaped(index + 1)
<1>1. index \in Nat
    BY Places
<1>2. ASSUME NEW t \in Offsets
      PROVE  /\ \A k \in Kinds : Single(Cell(index + 1, t, k))
             /\ Cell(index + 1, t, "Match") # {} => RepeatsAt(index + 1, t)
             /\ Cell(index + 1, t, "Literals") # {} => ~RepeatsAt(index + 1, t)
    <2>1. PICK lits : lits = LiteralCosts(index + 1, t)
      OBVIOUS
    <2>2. PICK copies : copies = RepCosts(index + 1, t) \cup NewCosts(index + 1, t)
      OBVIOUS
    <2>3. /\ Cell(index + 1, t, "Literals") = Least(lits) /\ lits \subseteq Nat
          /\ Cell(index + 1, t, "Match") = Least(copies) /\ copies \subseteq Nat
      BY <2>1, <2>2, RowCosts
    <2>4. /\ Single(Least(lits)) /\ Least(lits) \subseteq lits
          /\ Single(Least(copies)) /\ Least(copies) \subseteq copies
      BY <2>3, LeastIs
    <2>5. ASSUME NEW x \in lits PROVE ~RepeatsAt(index + 1, t)
      <3>1. PICK len \in 1 .. index + 1 : Plain(index + 1, t, len)
        BY <2>1, LiteralsAre
      <3>2. index + 1 \in ((index + 1) - len + 1) .. (index + 1)
        BY <1>1
      <3> QED BY <3>1, <3>2, Zenon DEF Plain
    <2>6. ASSUME NEW x \in copies PROVE RepeatsAt(index + 1, t)
      <3>1. PICK len \in 1 .. index + 1 : Copies(index + 1, t, len)
        <4>1. CASE x \in RepCosts(index + 1, t)
          BY <4>1, RepsAre
        <4>2. CASE x \in NewCosts(index + 1, t)
          BY <4>2, NewsAre
        <4> QED BY <2>2, <4>1, <4>2
      <3>2. index + 1 \in ((index + 1) - len + 1) .. (index + 1)
        BY <1>1
      <3> QED BY <3>1, <3>2, Zenon DEF Copies
    <2> QED BY <2>3, <2>4, <2>5, <2>6 DEF Kinds
<1> QED BY <1>1, <1>2 DEF Shaped

\* A row before the one worked on.
LEMMA CellBefore ==
    ASSUME Within, Rows, NEW len \in 1 .. index + 1
    PROVE  /\ (index + 1) - len \in 0 .. index /\ Shaped((index + 1) - len)
           /\ \A t, k : After((index + 1) - len, t, k) = Cell((index + 1) - len, t, k)
<1>1. index \in Nat /\ (index + 1) - len \in 0 .. index
    BY Places
<1> QED BY <1>1 DEF Rows, Cell, After

\* Literals go back to the last match at the offset, and no other.
LEMMA LiteralsAfter ==
    ASSUME Within, Rows, NEW P, Good(P, {}), MatchTold(P, offset, index - 1),
           ~RepeatsAt(index + 1, offset),
           NEW lm, lm = LastMatch(P, offset)
    PROVE  /\ Cell(index + 1, offset, "Match") = {}
           /\ Cell(index + 1, offset, "Literals") =
                  IF lm = NIL THEN {} ELSE {LiteralsBlock(P, lm).bits}
<1>1. /\ index \in Nat /\ offset \in Offsets /\ offset \in Nat
      /\ <<"last_match", offset>> \in Slots
    BY Places
<1>2. Cell(index + 1, offset, "Match") = {}
    BY <1>1, RowShaped DEF Shaped
<1>3. PICK costs : costs = LiteralCosts(index + 1, offset)
    OBVIOUS
<1>4. Cell(index + 1, offset, "Literals") = Least(costs) /\ costs \subseteq Nat
    BY <1>1, <1>3, RowCosts
<1>5. (index - 1) + 1 = index
    BY <1>1
<1>6. CASE lm = NIL
    <2>1. ASSUME NEW x \in costs PROVE FALSE
      <3>1. PICK len \in 1 .. index + 1 : After((index + 1) - len, offset, "Match") # {}
        BY <1>3, LiteralsAre
      <3>2. (index + 1) - len \in 0 .. index /\ Cell((index + 1) - len, offset, "Match") # {}
        BY <3>1, CellBefore
      <3> QED BY <1>5, <1>6, <3>2 DEF MatchTold
    <2>2. costs = {}
      BY <2>1
    <2> QED BY <1>2, <1>4, <1>6, <2>2 DEF Least
<1>7. CASE lm # NIL
    <2>1. PICK m : m = P.nodes[lm]
      OBVIOUS
    <2>2. /\ m.index <= index - 1 /\ Cell(m.index + 1, offset, "Match") = {m.bits}
          /\ \A x \in m.index + 2 .. index : ~RepeatsAt(x, offset)
      BY <1>5, <1>7, <2>1 DEF MatchTold
    <2>3. m.index \in Nat \cup {-1} /\ m.bits \in Nat \cup {-1}
      BY <1>1, <1>7, <2>1, BlockOf DEF LastMatch
    <2>4. PICK len : len = index - m.index
      OBVIOUS
    <2>5. len \in 1 .. index + 1 /\ (index + 1) - len = m.index + 1
      BY <1>1, <2>2, <2>3, <2>4
    <2>6. \A x \in m.index + 2 .. index + 1 : ~RepeatsAt(x, offset)
      <3>1. \A x \in m.index + 2 .. index + 1 : x \in m.index + 2 .. index \/ x = index + 1
        BY <1>1, <2>3
      <3> QED BY <2>2, <3>1
    <2>7. After((index + 1) - len, offset, "Match") = {m.bits}
      BY <2>2, <2>5, CellBefore
    <2>8. LiteralsBlock(P, lm).bits = m.bits + LiteralBits(len)
      BY <2>1, <2>4 DEF LiteralsBlock, Block
    <2>9. m.bits + LiteralBits(len) \in costs
      <3>1. Plain(index + 1, offset, len)
        <4>1. (index + 1) - len + 1 = m.index + 2
          BY <1>1, <2>3, <2>4
        <4> QED BY <2>6, <4>1 DEF Plain
      <3> QED BY <1>3, <2>5, <2>7, <3>1, LiteralsAre
    <2>10. ASSUME NEW x \in costs PROVE x = m.bits + LiteralBits(len)
      <3>1. PICK k \in 1 .. index + 1 :
                /\ Plain(index + 1, offset, k)
                /\ \E c \in After((index + 1) - k, offset, "Match") : x = c + LiteralBits(k)
        BY <1>3, LiteralsAre
      <3>2. PICK j : j = (index + 1) - k
        OBVIOUS
      <3>3. j \in 0 .. index /\ Shaped(j) /\ After(j, offset, "Match") = Cell(j, offset, "Match")
        BY <3>2, CellBefore
      <3>4. RepeatsAt(j, offset) \/ j = 0
        <4>1. Cell(j, offset, "Match") # {}
          BY <3>1, <3>2, <3>3
        <4> QED BY <1>1, <3>3, <4>1 DEF Shaped
      <3>5. j <= m.index + 1
        <4>1. CASE j > m.index + 1
          <5>1. j \in m.index + 2 .. index + 1
            BY <1>1, <2>3, <3>3, <4>1
          <5>2. j # 0
            BY <2>3, <3>3, <4>1
          <5> QED BY <2>6, <3>4, <5>1, <5>2
        <4> QED BY <1>1, <2>3, <3>3, <4>1
      <3>6. j >= m.index + 1
        <4>1. CASE j < m.index + 1
          <5>1. RepeatsAt(m.index + 1, offset)
            <6>1. Shaped(m.index + 1)
              BY <2>5, CellBefore
            <6>2. m.index + 1 # 0
              BY <2>3, <3>3, <4>1
            <6> QED BY <1>1, <2>2, <6>1, <6>2 DEF Shaped
          <5>2. m.index + 1 \in ((index + 1) - k + 1) .. (index + 1)
            BY <1>1, <2>2, <2>3, <3>2, <3>3, <4>1
          <5> QED BY <3>1, <5>1, <5>2 DEF Plain
        <4> QED BY <1>1, <2>3, <3>3, <4>1
      <3>7. k = len
        BY <1>1, <2>3, <2>4, <3>2, <3>3, <3>5, <3>6
      <3> QED BY <2>7, <3>1, <3>7
    <2>11. costs = {m.bits + LiteralBits(len)}
      BY <2>9, <2>10
    <2>12. Least(costs) = {m.bits + LiteralBits(len)}
      <3>1. PICK v : v = m.bits + LiteralBits(len)
        OBVIOUS
      <3>2. v \in costs /\ costs = {v} /\ v \in Nat
        BY <1>4, <2>9, <2>11, <3>1
      <3>3. \A x \in costs : v <= x
        BY <3>2
      <3>4. Least(costs) = {v}
        BY <1>4, <3>2, <3>3, LeastOne
      <3> QED BY <3>1, <3>4
    <2> QED BY <1>2, <1>4, <1>7, <2>8, <2>12
<1> QED BY <1>2, <1>6, <1>7

\* A repetition goes back to the last literals, and no other: the literals before it end
\* where the longest copy begins.
LEMMA RepsAfter ==
    ASSUME Within, Rows, index > 0, NEW P, LiteralsTold(P, offset, index - 1), Good(P, {}),
           NEW ml \in 1 .. index, Longest(index, offset, ml),
           NEW ll, ll = LastLiteral(P, offset), ll # NIL => P.nodes[ll].index = index - ml
    PROVE  RepCosts(index + 1, offset) = IF ll = NIL THEN {} ELSE {RepBlock(P, ll).bits}
<1>1. /\ index \in Nat /\ offset \in Offsets /\ offset \in Nat
      /\ <<"last_literal", offset>> \in Slots /\ ml \in Nat /\ (index - 1) + 1 = index
    <2>1. /\ index \in Nat /\ offset \in Offsets /\ offset \in Nat
          /\ <<"last_literal", offset>> \in Slots
      BY Places
    <2> QED BY <2>1
<1>2. ASSUME NEW k \in 1 .. index + 1, Copies(index + 1, offset, k),
             Cell((index + 1) - k, offset, "Literals") # {}
      PROVE  k = ml
    <2>1. k <= ml
      <3>1. k \in Nat /\ 0 \in Nat /\ ml <= index
        BY <1>1
      <3>2. Copies((index + 1) - k, offset, 0)
        <4>1. ((index + 1) - k) - 0 + 1 .. (index + 1) - k = {}
          BY <1>1
        <4> QED BY <4>1 DEF Copies
      <3>3. Copies(index + 1 - k, offset, 0)
        <4>1. index + 1 - k = (index + 1) - k
          BY <1>1
        <4> QED BY <3>2, <4>1
      <3>4. k + 0 <= ml
        BY <1>1, <1>2, <3>1, <3>3, LongestCopy
      <3> QED BY <3>1, <3>4
    <2>2. (index + 1) - k >= 1 /\ ~RepeatsAt((index + 1) - k, offset)
      <3>1. Shaped((index + 1) - k)
        BY CellBefore
      <3> QED BY <1>1, <1>2, <3>1 DEF Shaped
    <2>3. k >= ml
      <3>1. CASE k < ml
        <4>1. (index + 1) - k \in (index + 1) - ml + 1 .. index + 1
          BY <1>1, <3>1
        <4> QED BY <2>2, <4>1 DEF Longest, Copies
      <3> QED BY <1>1, <3>1
    <2> QED BY <1>1, <2>1, <2>3
<1>3. CASE ll = NIL
    <2>1. ASSUME NEW x \in RepCosts(index + 1, offset) PROVE FALSE
      <3>1. PICK k \in 1 .. index + 1 : After((index + 1) - k, offset, "Literals") # {}
                                        /\ Copies(index + 1, offset, k)
        BY RepsAre
      <3>2. Cell((index + 1) - k, offset, "Literals") # {}
        BY <3>1, CellBefore
      <3>3. (index + 1) - k \in 0 .. index
        BY <1>1
      <3> QED BY <1>1, <1>3, <3>2, <3>3 DEF LiteralsTold
    <2> QED BY <1>3, <2>1
<1>4. CASE ll # NIL
    <2>1. PICK l : l = P.nodes[ll]
      OBVIOUS
    <2>2. Cell(l.index + 1, offset, "Literals") = {l.bits} /\ l.index = index - ml
      BY <1>4, <2>1 DEF LiteralsTold
    <2>3. (index + 1) - ml = l.index + 1 /\ index - l.index = ml /\ ml \in 1 .. index + 1
      BY <1>1, <2>2
    <2>4. After((index + 1) - ml, offset, "Literals") = {l.bits}
          /\ Cell((index + 1) - ml, offset, "Literals") = {l.bits}
      BY <2>2, <2>3, CellBefore
    <2>5. RepBlock(P, ll).bits = l.bits + RepBits(ml)
      BY <2>1, <2>3 DEF RepBlock, Block
    <2>6. l.bits + RepBits(ml) \in RepCosts(index + 1, offset)
      <3>1. Copies(index + 1, offset, ml)
        BY DEF Longest
      <3> QED BY <2>3, <2>4, <3>1, RepsAre
    <2>7. ASSUME NEW x \in RepCosts(index + 1, offset) PROVE x = l.bits + RepBits(ml)
      <3>1. PICK k \in 1 .. index + 1 :
                /\ Copies(index + 1, offset, k)
                /\ \E c \in After((index + 1) - k, offset, "Literals") : x = c + RepBits(k)
        BY RepsAre
      <3>2. Cell((index + 1) - k, offset, "Literals") # {}
        BY <3>1, CellBefore
      <3>3. k = ml
        BY <1>2, <3>1, <3>2
      <3> QED BY <2>4, <3>1, <3>3
    <2> QED BY <1>4, <2>5, <2>6, <2>7
<1> QED BY <1>3, <1>4

\* What an offset costs.
LEMMA OffsetType ==
    ASSUME trial \in Trials, NEW off \in Nat \ {0}
    PROVE  OffsetBits(off) \in Nat
<1> DEFINE d == IF trial.variant = "zx0" THEN off - 1 ELSE off
<1>1. d \in Nat /\ trial.low \in Nat /\ trial.low >= 1
    BY TrialType
<1>2. d \div trial.low + 1 \in Nat \ {0}
    <2> HIDE DEF d
    <2> QED BY <1>1
<1>3. Gamma(d \div trial.low + 1) \in Nat
    BY <1>2, GammaType
<1>4. OffsetBits(off) = 8 + Gamma(d \div trial.low + 1)
    BY DEF OffsetBits
<1> HIDE DEF d
<1> QED BY <1>3, <1>4

\* The cheapest blocks before this position are the cheapest.
OptimaBefore(P) ==
    \A j \in Positions : j < index =>
        Attained(Ends(P, j), j) /\ \A t \in Offsets : NoDearer(Ends(P, j), j, t)

\* A match at a new offset costs no less than one of the best length behind the cheapest
\* block there; and what that one costs is counted, if the writers write it as such.
LEMMA NewsAfter ==
    ASSUME Within, Rows, index > 0, NEW P, NEW late \in {offset, offset + 1}, Fit(P, index, late),
           OptimaBefore(P),
           NEW ml \in 1 .. index, Longest(index, offset, ml)
    PROVE  /\ \A x \in NewCosts(index + 1, offset) :
                  ml >= Shortest /\ \A len : Best(P, len, ml) => NewBlock(P, len).bits <= x
           /\ \A len : Best(P, len, ml) /\ IsNew(P, NewBlock(P, len)) =>
                  NewBlock(P, len).bits \in NewCosts(index + 1, offset)
<1>1. /\ index \in Nat /\ offset \in Offsets /\ offset \in Nat \ {0} /\ ml \in Nat /\ ml <= index
      /\ Shortest \in {1, 2}
    <2>1. /\ index \in Nat /\ offset \in Offsets /\ offset \in Nat /\ offset >= 1
      BY Places
    <2> QED BY <2>1 DEF Shortest
<1>2. ASSUME NEW k \in 1 .. index
      PROVE  /\ index - k \in Positions /\ index - k < index /\ Optimal(P, index - k) # NIL
             /\ (index - k) + 1 = (index + 1) - k /\ k \in 1 .. index + 1
             /\ Ends(P, index - k).bits = P.nodes[Optimal(P, index - k)].bits
             /\ P.nodes[Optimal(P, index - k)].bits \in Int
             /\ P.nodes[Optimal(P, index - k)].bits + NewBits(offset, k) = At(P, k) + OffsetBits(offset)
             /\ At(P, k) \in Int
    <2>1. /\ index - k \in Positions /\ Optimal(P, index - k) # NIL /\ At(P, k) \in Int
          /\ <<"optimal", index - k>> \in Slots
      BY AtType
    <2>2. P.nodes[Optimal(P, index - k)].bits \in Int
      <3>1. Good(P, {})
        BY DEF Fit
      <3>2. PICK s : s = <<"optimal", index - k>>
        OBVIOUS
      <3>3. P.slot[s] = Optimal(P, index - k)
        BY <3>2 DEF Optimal
      <3>4. P.nodes[P.slot[s]].bits \in Nat \cup {-1}
        BY <2>1, <3>1, <3>2, <3>3, BlockOf
      <3> QED BY <3>3, <3>4
    <2>3. NewLengthBits(k) \in Nat /\ OffsetBits(offset) \in Nat
      <3>1. k \in Nat \ {0}
        OBVIOUS
      <3> QED BY <1>1, <3>1, CostType, OffsetType DEF Within
    <2>4. P.nodes[Optimal(P, index - k)].bits + NewBits(offset, k) = At(P, k) + OffsetBits(offset)
      BY <2>2, <2>3 DEF NewBits, At
    <2>5. index - k < index /\ (index - k) + 1 = (index + 1) - k /\ k \in 1 .. index + 1
      BY <1>1
    <2>6. Ends(P, index - k).bits = P.nodes[Optimal(P, index - k)].bits
      BY DEF Ends
    <2> QED BY <2>1, <2>2, <2>4, <2>5, <2>6
<1>3. ASSUME NEW len, Best(P, len, ml)
      PROVE  /\ len \in 1 .. index /\ NewBlock(P, len).bits = At(P, len) + OffsetBits(offset)
             /\ len >= Shortest /\ len <= ml
             /\ \A k \in Shortest .. ml : At(P, len) <= At(P, k)
    <2>1. len \in Shortest .. ml /\ len \in 1 .. index
      BY <1>1, <1>3 DEF Best
    <2>2. NewBlock(P, len).bits = P.nodes[Optimal(P, index - len)].bits + NewBits(offset, len)
      BY DEF NewBlock, Block
    <2>3. ASSUME NEW k \in Shortest .. ml PROVE At(P, len) <= At(P, k)
      <3>1. CASE k = len
        <4>1. At(P, len) \in Int
          BY <1>2, <2>1
        <4> QED BY <3>1, <4>1
      <3>2. CASE k # len
        BY <1>3, <3>2 DEF Best
      <3> QED BY <3>1, <3>2
    <2> QED BY <1>1, <1>2, <2>1, <2>2, <2>3
<1>4. ASSUME NEW x \in NewCosts(index + 1, offset)
      PROVE  ml >= Shortest /\ \A len : Best(P, len, ml) => NewBlock(P, len).bits <= x
    <2>1. PICK k \in 1 .. index + 1, u \in Offsets, kind \in Kinds :
              /\ Copies(index + 1, offset, k) /\ k >= Shortest
              /\ \E c \in After((index + 1) - k, u, kind) : x = c + NewBits(offset, k)
      BY NewsAre
    <2>2. PICK c \in After((index + 1) - k, u, kind) : x = c + NewBits(offset, k)
      BY <2>1
    <2>3. k \in Nat /\ k <= ml
      <3>1. k \in Nat /\ 0 \in Nat /\ index + 1 - k = (index + 1) - k
        BY <1>1
      <3>2. Copies((index + 1) - k, offset, 0)
        <4>1. ((index + 1) - k) - 0 + 1 .. (index + 1) - k = {}
          BY <1>1
        <4> QED BY <4>1 DEF Copies
      <3>3. k + 0 <= ml
        BY <1>1, <2>1, <3>1, <3>2, LongestCopy
      <3> QED BY <3>1, <3>3
    <2>4. k \in 1 .. index /\ k \in Shortest .. ml
      BY <1>1, <2>1, <2>3
    <2>5. Ends(P, index - k).bits <= c
      <3>1. index - k \in Positions /\ index - k < index /\ index - k <= index /\ Optimal(P, index - k) # NIL
            /\ (index - k) + 1 = (index + 1) - k
        BY <1>1, <1>2, <2>4
      <3>2. c \in Cell((index - k) + 1, u, kind)
        BY <2>2, <3>1, CellBefore
      <3>3. PICK j : j = index - k
        OBVIOUS
      <3>4. NoDearer(Ends(P, j), j, u)
        BY <3>1, <3>3 DEF OptimaBefore
      <3> QED BY <3>2, <3>3, <3>4 DEF NoDearer
    <2>6. ASSUME NEW len, Best(P, len, ml) PROVE NewBlock(P, len).bits <= x
      <3>1. c \in Int
        <4>1. Single(Cell((index + 1) - k, u, kind)) /\ c \in Cell((index + 1) - k, u, kind)
          BY <2>2, CellBefore DEF Shaped
        <4> QED BY <4>1 DEF Single
      <3>2. NewBits(offset, k) \in Int /\ OffsetBits(offset) \in Int
        <4>1. k \in Nat \ {0}
          OBVIOUS
        <4>2. NewBits(offset, k) \in Nat \ {0}
          BY <1>1, <4>1, CostType DEF Within
        <4> QED BY <1>1, <4>2, OffsetType DEF Within
      <3>3. PICK a \in Int : a = P.nodes[Optimal(P, index - k)].bits
        BY <1>2, <2>4
      <3>4. a <= c /\ a + NewBits(offset, k) = At(P, k) + OffsetBits(offset) /\ At(P, k) \in Int
        BY <1>2, <2>4, <2>5, <3>3
      <3>5. At(P, len) <= At(P, k) /\ NewBlock(P, len).bits = At(P, len) + OffsetBits(offset)
            /\ At(P, len) \in Int
        BY <1>2, <1>3, <2>4, <2>6
      <3> HIDE DEF At
      <3> QED BY <2>2, <3>1, <3>2, <3>4, <3>5
    <2> QED BY <1>1, <2>1, <2>3, <2>6
<1>5. ASSUME NEW len, Best(P, len, ml), IsNew(P, NewBlock(P, len))
      PROVE  NewBlock(P, len).bits \in NewCosts(index + 1, offset)
    <2>1. PICK c : c = P.nodes[Optimal(P, index - len)]
      OBVIOUS
    <2>2. PICK node : node = NewBlock(P, len)
      OBVIOUS
    <2>3. Before(P, node) = c /\ node.offset = offset /\ node.bits = c.bits + NewBits(offset, len)
      BY <2>1, <2>2 DEF NewBlock, Block, Before
    <2>4. /\ ~(c.offset = 0 /\ Behind(P, c) = offset)
          /\ trial.variant = "zx0" => c.offset # offset
      BY <1>5, <2>2, <2>3 DEF IsNew, Repeating
    <2>5. len \in 1 .. index /\ len >= Shortest /\ len <= ml /\ len \in Nat
      BY <1>1, <1>3, <1>5
    <2>6. PICK e : e = Ends(P, index - len)
      OBVIOUS
    <2>7. /\ e.bits = c.bits /\ e.offset = Behind(P, c)
          /\ e.kind = IF c.offset = 0 THEN "Literals" ELSE "Match"
      BY <2>1, <2>6 DEF Ends
    <2>8. e.offset \in Offsets /\ e.bits \in Cell((index + 1) - len, e.offset, e.kind)
      <3>1. index - len \in Positions /\ index - len < index
            /\ (index - len) + 1 = (index + 1) - len
        BY <1>1, <1>2, <2>5
      <3>2. Attained(e, index - len)
        BY <2>6, <3>1 DEF OptimaBefore
      <3> QED BY <3>1, <3>2 DEF Attained
    <2>9. e.offset = offset => Again(e.kind)
      <3> HAVE e.offset = offset
      <3>1. c.offset # 0 /\ e.kind = "Match"
        BY <2>4, <2>7
      <3>2. c.offset = offset
        BY <2>7, <3>1 DEF Behind
      <3>3. trial.variant = "zx02"
        BY <2>4, <3>2, TrialType DEF Within
      <3> QED BY <3>1, <3>3 DEF Again
    <2>10. Copies(index + 1, offset, len)
      <3>1. \A j \in (index + 1) - len + 1 .. index + 1 : j \in (index + 1) - ml + 1 .. index + 1
        BY <1>1, <2>5
      <3> QED BY <3>1 DEF Longest, Copies
    <2>11. len \in 1 .. index + 1 /\ e.kind \in Kinds
      BY <1>1, <2>5, <2>7 DEF Kinds
    <2>12. c.bits \in After((index + 1) - len, e.offset, e.kind)
      BY <2>7, <2>8, <2>11, CellBefore
    <2>13. PICK x : x = c.bits + NewBits(offset, len)
      OBVIOUS
    <2>14. x \in NewCosts(index + 1, offset)
      BY <2>5, <2>8, <2>9, <2>10, <2>11, <2>12, <2>13, NewsAre
    <2> QED BY <2>2, <2>3, <2>13, <2>14
<1> QED BY <1>4, <1>5

-----------------------------------------------------------------------------
(* The steps keep the costs.                                                *)

SameMatches(P, Q, t) ==
    /\ LastMatch(Q, t) = LastMatch(P, t)
    /\ LastMatch(P, t) # NIL => Q.nodes[LastMatch(P, t)] = P.nodes[LastMatch(P, t)]

\* What is told of an offset depends on its entries in the tables.
LEMMA ToldSame ==
    ASSUME NEW P, NEW Q, NEW t, NEW d, NEW len,
           SameMatches(P, Q, t), SameLiterals(P, Q, t), Told(P, t, d, len)
    PROVE  Told(Q, t, d, len)
<1>1. CASE LastMatch(P, t) = NIL /\ LastLiteral(P, t) = NIL
    BY <1>1 DEF SameMatches, SameLiterals, Told, MatchTold, LiteralsTold, Opening
<1>2. CASE ~(LastMatch(P, t) = NIL /\ LastLiteral(P, t) = NIL)
    <2>1. MatchTold(Q, t, d)
      BY DEF SameMatches, Told, MatchTold
    <2>2. LiteralsTold(Q, t, d)
      BY DEF SameLiterals, Told, LiteralsTold
    <2>3. Opening(Q, t, d, len)
      BY DEF SameMatches, SameLiterals, Told, Opening
    <2> QED BY <2>1, <2>2, <2>3 DEF Told
<1> QED BY <1>1, <1>2

\* What the new block of an offset ends.
Ended(node, table) ==
    [bits |-> node.bits, offset |-> offset,
     kind |-> IF table = "last_literal" THEN "Literals" ELSE "Match"]

\* From P to Q, the cheapest blocks before this position end what they ended, and the
\* one here what it ended or what e says, and costs no more than either.
EndsKept(P, Q) ==
    \A j \in Positions : j < index /\ Optimal(P, j) # NIL => Ends(Q, j) = Ends(P, j)
Cheaper(P, Q, e) ==
    /\ Ends(Q, index) = e \/ (Optimal(P, index) # NIL /\ Ends(Q, index) = Ends(P, index))
    /\ Ends(Q, index).bits <= e.bits
    /\ Optimal(P, index) # NIL => Ends(Q, index).bits <= Ends(P, index).bits

\* What a new block for the offset makes of the tables and the cheapest blocks.
LEMMA RelaxedEnds ==
    ASSUME Within, NEW P, Good(P, {}), Linked(P), NEW Q,
           NEW table \in {"last_literal", "last_match"}, NEW node,
           Relaxed(P, Q, <<table, offset>>, <<"optimal", index>>, node),
           table = "last_match" => node.offset = offset,
           table = "last_literal" => node.offset = 0 /\ node.chain \in Blocks(P)
                                     /\ P.nodes[node.chain].offset = offset
    PROVE  /\ \A t \in Offsets : table = "last_literal" \/ t # offset => SameMatches(P, Q, t)
           /\ EndsKept(P, Q) /\ Cheaper(P, Q, Ended(node, table)) /\ Optimal(Q, index) # NIL
           /\ Q.slot[<<table, offset>>] # NIL /\ Q.nodes[Q.slot[<<table, offset>>]] = node
<1>1. /\ index \in Nat /\ index \in Positions /\ offset \in Nat /\ offset >= 1
      /\ \A j \in Positions : <<"optimal", j>> \in Slots
      /\ \A t \in Offsets : <<"last_match", t>> \in Slots
    <2>1. index \in Positions
      BY DEF Within
    <2> QED BY <2>1, Places
<1>2. PICK s, best : s = <<table, offset>> /\ best = <<"optimal", index>>
    OBVIOUS
<1>3. PICK new : Renewed(P, Q, new, s, best, node)
    BY <1>2 DEF Relaxed
<1>4. /\ new # NIL /\ Blocks(Q) = Blocks(P) \cup {new} /\ Q.nodes[new] = node
      /\ \A k \in Blocks(P) \ {new} : Q.nodes[k] = P.nodes[k]
      /\ \A k \in Blocks(Q) : Q.nodes[k].chain # new
      /\ \A q \in Slots : P.slot[q] # new
      /\ \A q \in Slots \ {s, best} : Q.slot[q] = P.slot[q]
      /\ Q.slot[s] = new /\ Q.slot[best] \in {new, P.slot[best]}
    BY <1>3 DEF Renewed
<1>5. best \in Slots /\ Q.slot[best] # NIL /\ NotDearer(P, Q, best, node)
    BY <1>1, <1>2 DEF Relaxed
<1>6. ASSUME NEW k \in Blocks(P) \ {new} PROVE Behind(Q, Q.nodes[k]) = Behind(P, P.nodes[k])
    <2>1. Q.nodes[k] = P.nodes[k]
      BY <1>4
    <2>2. CASE P.nodes[k].offset # 0
      BY <2>1, <2>2 DEF Behind
    <2>3. CASE P.nodes[k].offset = 0
      <3>1. P.nodes[k].chain \in Blocks(P)
        BY <2>3, LiteralsChained
      <3>2. P.nodes[k].chain # new
        BY <1>4, <2>1
      <3>3. Q.nodes[P.nodes[k].chain] = P.nodes[P.nodes[k].chain]
        BY <1>4, <3>1, <3>2
      <3> QED BY <2>1, <2>3, <3>3 DEF Behind, Before
    <2> QED BY <2>2, <2>3
<1>7. Behind(Q, node) = offset
    <2>1. CASE table = "last_match"
      BY <1>1, <2>1 DEF Behind
    <2>2. CASE table = "last_literal"
      <3>1. node.chain # new
        BY <1>4
      <3>2. Q.nodes[node.chain] = P.nodes[node.chain]
        BY <1>4, <2>2, <3>1
      <3> QED BY <2>2, <3>2 DEF Behind, Before
    <2> QED BY <2>1, <2>2
<1>8. \A t \in Offsets : table = "last_literal" \/ t # offset => SameMatches(P, Q, t)
    <2>1. ASSUME NEW t \in Offsets, table = "last_literal" \/ t # offset PROVE SameMatches(P, Q, t)
      <3>1. <<"last_match", t>> # <<table, offset>> /\ <<"last_match", t>> # <<"optimal", index>>
        BY <2>1
      <3> QED BY <1>1, <2>1, <3>1 DEF SameMatches, LastMatch, Relaxed
    <2> QED BY <2>1
<1>9. \A j \in Positions : P.slot[<<"optimal", j>>] # NIL => P.slot[<<"optimal", j>>] \in Blocks(P) \ {new}
    <2>1. ASSUME NEW r \in Slots, P.slot[r] # NIL PROVE P.slot[r] \in Blocks(P) \ {new}
      BY <1>4, <2>1, BlockOf
    <2> QED BY <1>1, <2>1
<1>10. ASSUME NEW j \in Positions, P.slot[<<"optimal", j>>] # NIL,
              Q.slot[<<"optimal", j>>] = P.slot[<<"optimal", j>>]
       PROVE  Ends(Q, j) = Ends(P, j)
    <2>1. PICK b : b = P.slot[<<"optimal", j>>]
      OBVIOUS
    <2>2. b \in Blocks(P) \ {new} /\ Q.nodes[b] = P.nodes[b] /\ Optimal(P, j) = b /\ Optimal(Q, j) = b
      BY <1>4, <1>9, <1>10, <2>1 DEF Optimal
    <2> QED BY <1>6, <2>2 DEF Ends
<1>11. EndsKept(P, Q)
    <2>1. ASSUME NEW j \in Positions, j < index, Optimal(P, j) # NIL PROVE Ends(Q, j) = Ends(P, j)
      <3>1. j # index
        BY <1>1, <2>1
      <3>2. <<"optimal", j>> # <<table, offset>> /\ <<"optimal", j>> # <<"optimal", index>>
        BY <3>1
      <3>3. Q.slot[<<"optimal", j>>] = P.slot[<<"optimal", j>>]
        BY <1>1, <1>2, <1>4, <3>2
      <3> QED BY <1>10, <2>1, <3>3 DEF Optimal
    <2> QED BY <2>1 DEF EndsKept
<1>12. Cheaper(P, Q, Ended(node, table))
    <2>1. Ends(Q, index) = Ended(node, table) \/ (Optimal(P, index) # NIL /\ Ends(Q, index) = Ends(P, index))
      <3>1. CASE Q.slot[best] = new
        <4>1. Optimal(Q, index) = new
          BY <1>2, <3>1 DEF Optimal
        <4>2. (node.offset = 0) <=> (table = "last_literal")
          BY <1>1
        <4> QED BY <1>4, <1>7, <4>1, <4>2 DEF Ends, Ended
      <3>2. CASE Q.slot[best] # new
        <4>1. Q.slot[<<"optimal", index>>] = P.slot[<<"optimal", index>>]
              /\ P.slot[<<"optimal", index>>] # NIL
          BY <1>2, <1>4, <1>5, <3>2
        <4> QED BY <1>1, <1>10, <4>1 DEF Optimal
      <3> QED BY <3>1, <3>2
    <2>2. Ends(Q, index).bits <= node.bits
      BY <1>2, <1>5 DEF NotDearer, Ends, Optimal
    <2>3. Optimal(P, index) # NIL => Ends(Q, index).bits <= Ends(P, index).bits
      BY <1>2, <1>5 DEF NotDearer, Ends, Optimal
    <2>4. Ended(node, table).bits = node.bits
      BY DEF Ended
    <2> QED BY <2>1, <2>2, <2>3, <2>4 DEF Cheaper
<1> QED BY <1>2, <1>4, <1>5, <1>8, <1>11, <1>12 DEF Optimal

\* The cheapest blocks stay the cheapest: there was one here before, unless this is the
\* first offset, and what this offset adds costs v.
LEMMA OptimaNext ==
    ASSUME Within, NEW P, Fit(P, index, offset), Optima(P, index, offset), Rows, NEW Q,
           EndsKept(P, Q),
           NEW e, NEW v \in Int, e.bits = v, Attained(e, index),
           \A k \in Kinds : \A x \in Cell(index + 1, offset, k) : x = v,
           Cheaper(P, Q, e)
    PROVE  Optima(Q, index, offset + 1)
<1>1. /\ index \in Nat /\ offset \in Nat /\ offset >= 1
      /\ \A j \in Positions : j \in Nat
      /\ index \in Positions
      /\ \A t \in Offsets : t \in Nat /\ t >= 1
    <2>1. \A t \in Offsets : t \in Nat
      BY Places
    <2>2. \A t \in Offsets : t \in Nat /\ t >= 1
      BY <2>1 DEF Offsets
    <2>3. index \in Nat /\ offset \in Nat /\ offset >= 1
      BY Places
    <2>4. \A j \in Positions : j \in Nat
      BY Places
    <2> QED BY <2>2, <2>3, <2>4 DEF Within
<1>2. ASSUME NEW j \in Positions, j < index
      PROVE  Attained(Ends(Q, j), j) /\ \A t \in Offsets : NoDearer(Ends(Q, j), j, t)
    <2>1. Optimal(P, j) # NIL /\ j <= index
      BY <1>1, <1>2 DEF Fit
    <2>2. Ends(Q, j) = Ends(P, j)
      BY <1>2, <2>1 DEF EndsKept
    <2> QED BY <1>2, <2>1, <2>2 DEF Optima
<1>3. Attained(Ends(Q, index), index)
    <2>1. CASE Ends(Q, index) = e
      BY <2>1
    <2>2. CASE Optimal(P, index) # NIL /\ Ends(Q, index) = Ends(P, index)
      <3>1. index <= index
        BY <1>1
      <3> QED BY <1>1, <2>2, <3>1 DEF Optima
    <2> QED BY <2>1, <2>2 DEF Cheaper
<1>4. Ends(Q, index).bits \in Int
    <2>1. Ends(Q, index).kind \in Kinds
      BY DEF Ends, Kinds
    <2>2. Single(Cell(index + 1, Ends(Q, index).offset, Ends(Q, index).kind))
      BY <1>3, <2>1, RowShaped DEF Attained, Shaped
    <2> QED BY <1>3, <2>2 DEF Attained, Single
<1>5. ASSUME NEW t \in Offsets, t < offset + 1 PROVE NoDearer(Ends(Q, index), index, t)
    <2>1. CASE t < offset
      <3>1. Optimal(P, index) # NIL
        <4>1. offset > 1
          BY <1>1, <2>1
        <4> QED BY <1>1, <4>1 DEF Fit
      <3>2. NoDearer(Ends(P, index), index, t) /\ Attained(Ends(P, index), index)
        <4>1. index <= index
          BY <1>1
        <4> QED BY <1>1, <2>1, <3>1, <4>1 DEF Optima
      <3>3. Ends(Q, index).bits <= Ends(P, index).bits
        BY <3>1 DEF Cheaper
      <3>4. Ends(P, index).bits \in Int
        <4>1. Ends(P, index).kind \in Kinds
          BY DEF Ends, Kinds
        <4>2. Single(Cell(index + 1, Ends(P, index).offset, Ends(P, index).kind))
          BY <3>2, <4>1, RowShaped DEF Attained, Shaped
        <4> QED BY <3>2, <4>2 DEF Attained, Single
      <3>5. ASSUME NEW k \in Kinds, NEW x \in Cell(index + 1, t, k)
            PROVE  Ends(Q, index).bits <= x
        <4>1. x \in Int
          BY RowShaped DEF Shaped, Single
        <4>2. Ends(P, index).bits <= x
          BY <3>2 DEF NoDearer
        <4> QED BY <1>4, <3>3, <3>4, <4>1, <4>2
      <3> QED BY <3>5 DEF NoDearer
    <2>2. CASE t = offset
      <3>1. Ends(Q, index).bits <= v
        BY DEF Cheaper
      <3> QED BY <2>2, <3>1 DEF NoDearer
    <2>3. t < offset \/ t = offset
      BY <1>1, <1>5
    <2> QED BY <2>1, <2>2, <2>3
<1>6. ASSUME NEW j \in Positions, j <= index, Optimal(Q, j) # NIL
      PROVE  /\ Attained(Ends(Q, j), j)
             /\ \A t \in Offsets : j < index \/ t < offset + 1 => NoDearer(Ends(Q, j), j, t)
    <2>1. j < index \/ j = index
      BY <1>1, <1>6
    <2>2. ~(index < index)
      BY <1>1
    <2> QED BY <1>2, <1>3, <1>5, <2>1, <2>2
<1> QED BY <1>6 DEF Optima

\* So they do when this offset adds nothing.
LEMMA OptimaStay ==
    ASSUME Within, NEW P, Optima(P, index, offset),
           \A k \in Kinds : Cell(index + 1, offset, k) = {}
    PROVE  Optima(P, index, offset + 1)
<1>1. \A t \in Offsets : t \in Nat
    BY Places
<1>2. offset \in Nat
    BY Places
<1>3. ASSUME NEW t \in Offsets, t < offset + 1 PROVE t < offset \/ t = offset
    BY <1>1, <1>2, <1>3
<1>4. NoDearer(Ends(P, index), index, offset)
    BY DEF NoDearer
<1>5. index \in Nat /\ \A j \in Positions : j \in Nat
    BY Places
<1>6. ASSUME NEW j \in Positions, j <= index, Optimal(P, j) # NIL
      PROVE  /\ Attained(Ends(P, j), j)
             /\ \A t \in Offsets : j < index \/ t < offset + 1 => NoDearer(Ends(P, j), j, t)
    <2>1. j < index \/ j = index
      BY <1>5, <1>6
    <2> QED BY <1>3, <1>4, <1>6, <2>1 DEF Optima
<1> QED BY <1>6 DEF Optima

\* Literals: what the step makes of its offset, and of the others.
LEMMA LiteralsCosts ==
    ASSUME Within, Fit(pool, index, offset), Links(pool), Rows, ~Matches,
           match_length \in [Offsets -> Nat],
           Tables(pool, match_length, index, offset), Optima(pool, index, offset), NEW Q,
           Q = LiteralsPool
    PROVE  /\ \A t \in Offsets : t # offset => SameMatches(pool, Q, t) /\ SameLiterals(pool, Q, t)
           /\ Told(Q, offset, index, 0)
           /\ Optima(Q, index, offset + 1)
<1>1. /\ index \in Nat /\ offset \in Nat \ {0} /\ offset \in Offsets
      /\ <<"last_match", offset>> \in Slots
    <2>1. /\ index \in Nat /\ offset \in Nat /\ offset >= 1 /\ offset \in Offsets
          /\ <<"last_match", offset>> \in Slots
      BY Places
    <2> QED BY <2>1
<1>2. PICK lm : lm = LastMatch(pool, offset)
    OBVIOUS
<1>3. Good(pool, {}) /\ Linked(pool) /\ LastOnes(pool)
    BY DEF Fit, Links
<1>4. ~RepeatsAt(index + 1, offset)
    <2>1. index + 1 > offset => index # 0 /\ index >= offset
      BY <1>1
    <2>2. (index + 1) - offset = index - offset + 1
      BY <1>1
    <2>3. ~(index # 0 /\ index >= offset /\ input[index + 1] = input[index - offset + 1])
      BY DEF Matches
    <2> QED BY <2>1, <2>2, <2>3, Zenon DEF RepeatsAt
<1>5. Told(pool, offset, index - 1, match_length[offset])
    <2>1. Done(offset, index, offset) = index - 1
      BY <1>1 DEF Done
    <2> QED BY <1>1, <2>1 DEF Tables
<1>6. /\ Cell(index + 1, offset, "Match") = {}
      /\ Cell(index + 1, offset, "Literals") = IF lm = NIL THEN {} ELSE {LiteralsBlock(pool, lm).bits}
    BY <1>2, <1>3, <1>4, <1>5, LiteralsAfter DEF Told
<1>7. /\ \A t \in Offsets : t # offset => SameLiterals(pool, Q, t)
      /\ IF lm = NIL THEN Q = pool
         ELSE Relaxed(pool, Q, <<"last_literal", offset>>, <<"optimal", index>>,
                      LiteralsBlock(pool, lm))
    BY <1>2, LiteralsLinks
<1>8. CASE lm = NIL
    <2>1. LastLiteral(pool, offset) = NIL /\ LastMatch(pool, offset) = NIL /\ Q = pool
      BY <1>1, <1>2, <1>3, <1>7, <1>8 DEF LastOnes
    <2>2. \A k \in Kinds : Cell(index + 1, offset, k) = {}
      BY <1>6, <1>8 DEF Kinds
    <2>3. /\ \A j \in 0 .. (index - 1) + 1 : Cell(j, offset, "Match") = {}
          /\ \A j \in 0 .. (index - 1) + 1 : Cell(j, offset, "Literals") = {}
      BY <1>5, <2>1 DEF Told, MatchTold, LiteralsTold
    <2>4. \A j \in 0 .. index + 1 : j \in 0 .. (index - 1) + 1 \/ j = index + 1
      BY <1>1
    <2>5. Told(Q, offset, index, 0)
      <3>1. /\ \A j \in 0 .. index + 1 : Cell(j, offset, "Match") = {}
            /\ \A j \in 0 .. index + 1 : Cell(j, offset, "Literals") = {}
        BY <1>6, <1>8, <2>3, <2>4
      <3> QED BY <2>1, <3>1 DEF Told, MatchTold, LiteralsTold, Opening
    <2>6. \A t \in Offsets : SameMatches(pool, Q, t)
      BY <2>1 DEF SameMatches
    <2> QED BY <1>7, <2>1, <2>2, <2>5, <2>6, OptimaStay
<1>9. CASE lm # NIL
    <2>1. PICK node : node = LiteralsBlock(pool, lm)
      OBVIOUS
    <2>2. /\ node.offset = 0 /\ node.chain = lm /\ node.index = index
      BY <2>1 DEF LiteralsBlock, Block
    <2>3. lm \in Blocks(pool) /\ pool.nodes[lm].offset = offset
      <3>1. lm \in Blocks(pool)
        BY <1>1, <1>2, <1>3, <1>9, BlockOf DEF LastMatch
      <3> QED BY <1>1, <1>2, <1>3, <1>9, <3>1 DEF LastOnes
    <2>4. PICK table : table = "last_literal"
      OBVIOUS
    <2>5. Relaxed(pool, Q, <<table, offset>>, <<"optimal", index>>, node)
      BY <1>7, <1>9, <2>1, <2>4
    <2>6. table \in {"last_literal", "last_match"} /\ table # "last_match"
      BY <2>4
    <2>7. /\ \A t \in Offsets : table = "last_literal" \/ t # offset => SameMatches(pool, Q, t)
          /\ EndsKept(pool, Q) /\ Cheaper(pool, Q, Ended(node, table)) /\ Optimal(Q, index) # NIL
          /\ Q.slot[<<table, offset>>] # NIL /\ Q.nodes[Q.slot[<<table, offset>>]] = node
      BY <1>3, <2>2, <2>3, <2>5, <2>6, RelaxedEnds
    <2>8. PICK v : v = node.bits
      OBVIOUS
    <2>9. Cell(index + 1, offset, "Literals") = {v} /\ Cell(index + 1, offset, "Match") = {}
      BY <1>6, <1>9, <2>1, <2>8
    <2>10. v \in Int
      <3>1. Single(Cell(index + 1, offset, "Literals"))
        BY <1>1, RowShaped DEF Shaped, Kinds
      <3> QED BY <2>9, <3>1 DEF Single
    <2>11. PICK e : e = Ended(node, table)
      OBVIOUS
    <2>12. e.bits = v /\ e.offset = offset /\ e.kind = "Literals"
      BY <2>4, <2>8, <2>11 DEF Ended
    <2>13. Attained(e, index)
      BY <1>1, <2>9, <2>12 DEF Attained
    <2>14. \A k \in Kinds : \A x \in Cell(index + 1, offset, k) : x = v
      BY <2>9 DEF Kinds
    <2>15. Optima(Q, index, offset + 1)
      BY <2>7, <2>10, <2>11, <2>12, <2>13, <2>14, OptimaNext
    <2>16. SameMatches(pool, Q, offset) /\ \A t \in Offsets : t # offset => SameMatches(pool, Q, t)
      BY <1>1, <2>4, <2>7
    <2>17. Told(Q, offset, index, 0)
      <3>1. PICK m : m = pool.nodes[lm]
        OBVIOUS
      <3>2. /\ m.index <= index - 1 /\ Cell(m.index + 1, offset, "Match") = {m.bits}
            /\ \A x \in m.index + 2 .. (index - 1) + 1 : ~RepeatsAt(x, offset)
        BY <1>2, <1>5, <1>9, <3>1 DEF Told, MatchTold
      <3>3. m.index \in Nat \cup {-1}
        BY <1>1, <1>2, <1>3, <1>9, <3>1, BlockOf DEF LastMatch
      <3>4. \A x \in m.index + 2 .. index + 1 : ~RepeatsAt(x, offset)
        <4>1. \A x \in m.index + 2 .. index + 1 : x \in m.index + 2 .. (index - 1) + 1 \/ x = index + 1
          BY <1>1, <3>3
        <4> QED BY <1>4, <3>2, <4>1
      <3>5. LastMatch(Q, offset) = lm /\ Q.nodes[lm] = m
        BY <1>2, <1>9, <2>16, <3>1 DEF SameMatches
      <3>6. LastLiteral(Q, offset) # NIL /\ Q.nodes[LastLiteral(Q, offset)] = node
        BY <2>4, <2>7, Zenon DEF LastLiteral
      <3>7. MatchTold(Q, offset, index)
        <4>1. m.index <= index
          BY <1>1, <3>2, <3>3
        <4>2. LastMatch(Q, offset) # NIL /\ Q.nodes[LastMatch(Q, offset)] = m
          BY <1>9, <3>5
        <4>3. Cell(m.index + 1, offset, "Match") = {m.bits}
          BY <3>2
        <4> QED BY <3>4, <4>1, <4>2, <4>3 DEF MatchTold
      <3>8. LiteralsTold(Q, offset, index)
        BY <2>2, <2>8, <2>9, <3>6 DEF LiteralsTold
      <3> QED BY <3>6, <3>7, <3>8 DEF Told, Opening
    <2> QED BY <1>7, <2>15, <2>16, <2>17
<1> QED BY <1>8, <1>9

\* A match: what the step makes of its offset, and of the others.
LEMMA MatchCosts ==
    ASSUME Within, index > 0, Fit(pool, index, offset), Links(pool), Rows, Matches,
           match_length \in [Offsets -> Nat],
           Runs(match_length, index, offset), Placed(pool, match_length, index, offset),
           Tables(pool, match_length, index, offset), Optima(pool, index, offset),
           NEW ml \in 1 .. index, ml = match_length[offset] + 1, Longest(index, offset, ml),
           NEW P, P = LastOffset(pool), Fit(P, index, offset + 1),
           NEW len, ml >= Shortest => Best(P, len, ml),
           NEW Q, Q = IF ml >= Shortest THEN NewOffset(P, len) ELSE P
    PROVE  /\ \A t \in Offsets : t # offset => SameMatches(pool, Q, t) /\ SameLiterals(pool, Q, t)
           /\ Told(Q, offset, index, ml)
           /\ Optima(Q, index, offset + 1)
<1>1. /\ index \in Nat /\ offset \in Nat \ {0} /\ offset \in Offsets /\ ml \in Nat
      /\ <<"last_match", offset>> \in Slots /\ <<"last_literal", offset>> \in Slots
      /\ index \in Positions
    <2>1. /\ index \in Nat /\ offset \in Nat /\ offset >= 1 /\ offset \in Offsets
          /\ <<"last_match", offset>> \in Slots /\ <<"last_literal", offset>> \in Slots
      BY Places
    <2> QED BY <2>1 DEF Within
<1>2. PICK ll : ll = LastLiteral(pool, offset)
    OBVIOUS
<1>3. Good(pool, {}) /\ Linked(pool) /\ LastOnes(pool) /\ Good(P, {})
    BY DEF Fit, Links
<1>4. PICK rep : rep = RepBlock(pool, ll)
    OBVIOUS
<1>5. PICK new : new = NewBlock(P, len)
    OBVIOUS
<1>6. Told(pool, offset, index - 1, match_length[offset])
    <2>1. Done(offset, index, offset) = index - 1
      BY <1>1 DEF Done
    <2> QED BY <1>1, <2>1 DEF Tables
<1>7. ll # NIL => pool.nodes[ll].index = index - ml
    <2>1. Done(offset, index, offset) = index - 1 /\ match_length[offset] \in Nat
      BY <1>1 DEF Done
    <2>2. (index - 1) - match_length[offset] = index - ml
      BY <1>1, <2>1
    <2> QED BY <1>1, <1>2, <2>1, <2>2 DEF Placed
<1>8. RepeatsAt(index + 1, offset)
    <2>1. index + 1 \in (index + 1) - ml + 1 .. index + 1
      BY <1>1
    <2> QED BY <2>1 DEF Longest, Copies
<1>9. Cell(index + 1, offset, "Literals") = {}
    BY <1>1, <1>8, RowShaped DEF Shaped
<1>10. PICK reps, news : reps = RepCosts(index + 1, offset) /\ news = NewCosts(index + 1, offset)
    OBVIOUS
<1>11. reps = IF ll = NIL THEN {} ELSE {rep.bits}
    BY <1>2, <1>3, <1>4, <1>6, <1>7, <1>10, RepsAfter DEF Told
<1>12. Cell(index + 1, offset, "Match") = Least(reps \cup news) /\ reps \subseteq Nat /\ news \subseteq Nat
    BY <1>1, <1>10, RowCosts
\* The repetition.
<1>13. /\ Links(P) /\ Repeated(P) /\ \A t \in Offsets : SameLiterals(pool, P, t)
       /\ IF ll = NIL THEN P = pool
          ELSE Relaxed(pool, P, <<"last_match", offset>>, <<"optimal", index>>, rep)
    BY <1>2, <1>4, LastOffsetLinks
<1>14. rep.bits = pool.nodes[ll].bits + RepBits(index - pool.nodes[ll].index) /\ rep.index = index
       /\ rep.offset = offset
    BY <1>4 DEF RepBlock, Block
<1>15. /\ \A t \in Offsets : t # offset => SameMatches(pool, P, t)
       /\ EndsKept(pool, P)
       /\ ll = NIL => P = pool
       /\ ll # NIL => /\ Cheaper(pool, P, Ended(rep, "last_match")) /\ Optimal(P, index) # NIL
                      /\ LastMatch(P, offset) # NIL /\ P.nodes[LastMatch(P, offset)] = rep
    <2>1. CASE ll = NIL
      <3>1. P = pool
        BY <1>13, <2>1
      <3> QED BY <2>1, <3>1 DEF SameMatches, EndsKept
    <2>2. CASE ll # NIL
      <3>1. PICK table : table = "last_match"
        OBVIOUS
      <3>2. table \in {"last_literal", "last_match"} /\ table # "last_literal"
        BY <3>1
      <3>3. Relaxed(pool, P, <<table, offset>>, <<"optimal", index>>, rep)
        BY <1>13, <2>2, <3>1
      <3>4. /\ \A t \in Offsets : table = "last_literal" \/ t # offset => SameMatches(pool, P, t)
            /\ EndsKept(pool, P) /\ Cheaper(pool, P, Ended(rep, table)) /\ Optimal(P, index) # NIL
            /\ P.slot[<<table, offset>>] # NIL /\ P.nodes[P.slot[<<table, offset>>]] = rep
        BY <1>3, <1>14, <3>2, <3>3, RelaxedEnds
      <3> QED BY <2>2, <3>1, <3>4, Zenon DEF LastMatch
    <2> QED BY <2>1, <2>2
<1>16. OptimaBefore(P)
    <2>1. ASSUME NEW j \in Positions, j < index
          PROVE  Attained(Ends(P, j), j) /\ \A t \in Offsets : NoDearer(Ends(P, j), j, t)
      <3>1. j <= index
        <4>1. j \in Nat
          BY Places
        <4> QED BY <1>1, <2>1, <4>1
      <3>2. Optimal(pool, j) # NIL
        BY <2>1 DEF Fit
      <3>3. Ends(P, j) = Ends(pool, j)
        BY <1>15, <2>1, <3>2 DEF EndsKept
      <3> QED BY <2>1, <3>1, <3>2, <3>3 DEF Optima
    <2> QED BY <2>1 DEF OptimaBefore
\* The match at a new offset.
<1>17. /\ \A x \in news : ml >= Shortest /\ new.bits <= x
       /\ ml >= Shortest /\ IsNew(P, new) => new.bits \in news
    <2>1. offset + 1 \in {offset, offset + 1}
      OBVIOUS
    <2>2. /\ \A x \in NewCosts(index + 1, offset) :
                ml >= Shortest /\ \A k : Best(P, k, ml) => NewBlock(P, k).bits <= x
          /\ \A k : Best(P, k, ml) /\ IsNew(P, NewBlock(P, k)) =>
                NewBlock(P, k).bits \in NewCosts(index + 1, offset)
      BY <1>16, <2>1, NewsAfter
    <2> QED BY <1>5, <1>10, <2>2
<1>18. new.index = index /\ new.offset = offset
    BY <1>5 DEF NewBlock, Block
<1> DEFINE Taken(node) ==
        /\ LastMatch(Q, offset) # NIL /\ Q.nodes[LastMatch(Q, offset)] = node /\ node.index = index
        /\ node.bits \in reps \cup news /\ \A x \in reps \cup news : node.bits <= x
        /\ Cheaper(pool, Q, Ended(node, "last_match"))
        /\ ll = NIL => ml >= Shortest
<1>19. ASSUME Q = P, ll # NIL, \A x \in news : rep.bits <= x
       PROVE  Taken(rep)
    <2>1. rep.bits \in Nat /\ reps = {rep.bits}
      BY <1>11, <1>12, <1>19
    <2>2. \A x \in reps \cup news : rep.bits <= x
      BY <1>19, <2>1
    <2> QED BY <1>14, <1>15, <1>19, <2>1, <2>2
<1>20. /\ \A t \in Offsets : SameLiterals(pool, Q, t)
       /\ \A t \in Offsets : t # offset => SameMatches(pool, Q, t)
       /\ EndsKept(pool, Q)
       /\ (\E node : Taken(node)) \/ (Q = pool /\ ll = NIL /\ reps \cup news = {} /\ ml < Shortest)
    <2>1. CASE ~(ml >= Shortest)
      <3>1. Q = P /\ news = {} /\ ml < Shortest
        <4>1. ml < Shortest
          BY <1>1, <2>1 DEF Shortest
        <4> QED BY <1>17, <2>1, <4>1
      <3>2. CASE ll = NIL
        <4>1. reps \cup news = {} /\ Q = pool
          BY <1>11, <1>15, <3>1, <3>2
        <4> HIDE DEF Taken
        <4> QED BY <1>13, <1>15, <3>1, <3>2, <4>1
      <3>3. CASE ll # NIL
        <4>1. Taken(rep)
          BY <1>19, <3>1, <3>3
        <4> HIDE DEF Taken
        <4> QED BY <1>13, <1>15, <3>1, <4>1
      <3> QED BY <3>2, <3>3
    <2>2. CASE ml >= Shortest
      <3>1. Q = NewOffset(P, len) /\ Best(P, len, ml)
        BY <2>2
      <3>2. LastLiteral(P, offset) = ll /\ (ll # NIL => P.nodes[ll] = pool.nodes[ll])
        BY <1>1, <1>2, <1>13 DEF SameLiterals
      <3>3. LastLiteral(P, offset) # NIL => P.nodes[LastLiteral(P, offset)].index = index - ml
        BY <1>7, <3>2
      <3>4. /\ \A t \in Offsets : SameLiterals(P, Q, t)
            /\ \/ /\ Q = P /\ LastMatch(P, offset) # NIL
                  /\ P.nodes[LastMatch(P, offset)].index = index
                  /\ ~(P.nodes[LastMatch(P, offset)].bits > new.bits)
               \/ /\ Relaxed(P, Q, <<"last_match", offset>>, <<"optimal", index>>, new)
                  /\ LastLiteral(P, offset) # NIL =>
                         P.nodes[LastMatch(P, offset)].bits > new.bits
                  /\ IsNew(P, new)
        BY <1>5, <1>13, <3>1, <3>3, NewOffsetLinks
      <3>5. \A t \in Offsets : SameLiterals(pool, Q, t)
        BY <1>13, <3>4 DEF SameLiterals
      <3>6. CASE /\ Q = P /\ LastMatch(P, offset) # NIL
                 /\ P.nodes[LastMatch(P, offset)].index = index
                 /\ ~(P.nodes[LastMatch(P, offset)].bits > new.bits)
        <4>1. ll # NIL
          <5>1. ASSUME ll = NIL PROVE FALSE
            <6>1. P = pool
              BY <1>15, <5>1
            <6>2. pool.nodes[LastMatch(pool, offset)].index <= index - 1
              BY <1>6, <3>6, <6>1 DEF Told, MatchTold
            <6> QED BY <1>1, <3>6, <6>1, <6>2
          <5> QED BY <5>1
        <4>2. ~(rep.bits > new.bits) /\ rep.bits \in Nat
          BY <1>11, <1>12, <1>15, <3>6, <4>1
        <4>3. \A x \in news : rep.bits <= x
          <5>1. ASSUME NEW x \in news PROVE rep.bits <= x
            <6>1. new.bits <= x /\ x \in Nat
              BY <1>12, <1>17
            <6>2. new.bits \in Int
              <7>1. P.nodes[Optimal(P, index - len)].bits + NewBits(offset, len) \in Int
                <8>1. len \in 1 .. index
                  BY <1>1, <2>2, <3>1 DEF Best, Shortest
                <8>2. Optimal(P, index - len) \in Blocks(P)
                  BY <8>1, AtType
                <8>3. P.nodes[Optimal(P, index - len)].bits \in Int
                  BY <1>3, <8>2, ChainType
                <8>4. NewBits(offset, len) \in Int
                  <9>1. len \in Nat \ {0}
                    BY <1>1, <8>1
                  <9> QED BY <1>1, <9>1, CostType DEF Within
                <8> QED BY <8>3, <8>4
              <7> QED BY <1>5, <7>1 DEF NewBlock, Block
            <6> QED BY <4>2, <6>1, <6>2
          <5> QED BY <5>1
        <4>4. Taken(rep)
          BY <1>19, <3>6, <4>1, <4>3
        <4> HIDE DEF Taken
        <4> QED BY <1>15, <3>5, <3>6, <4>4
      <3>7. CASE /\ Relaxed(P, Q, <<"last_match", offset>>, <<"optimal", index>>, new)
                 /\ LastLiteral(P, offset) # NIL => P.nodes[LastMatch(P, offset)].bits > new.bits
                 /\ IsNew(P, new)
        <4>1. PICK table : table = "last_match"
          OBVIOUS
        <4>2. table \in {"last_literal", "last_match"} /\ table # "last_literal"
          BY <4>1
        <4>3. Relaxed(P, Q, <<table, offset>>, <<"optimal", index>>, new)
          BY <3>7, <4>1
        <4>4. Linked(P)
          BY <1>13 DEF Links
        <4>5. /\ \A t \in Offsets : table = "last_literal" \/ t # offset => SameMatches(P, Q, t)
              /\ EndsKept(P, Q) /\ Cheaper(P, Q, Ended(new, table)) /\ Optimal(Q, index) # NIL
              /\ Q.slot[<<table, offset>>] # NIL /\ Q.nodes[Q.slot[<<table, offset>>]] = new
          BY <1>3, <1>18, <4>2, <4>3, <4>4, RelaxedEnds
        <4>6. \A t \in Offsets : t # offset => SameMatches(pool, Q, t)
          BY <1>15, <4>5 DEF SameMatches
        <4>7. EndsKept(pool, Q)
          <5>1. ASSUME NEW j \in Positions, j < index, Optimal(pool, j) # NIL
                PROVE  Ends(Q, j) = Ends(pool, j)
            <6>1. Optimal(P, j) # NIL
              BY <5>1 DEF Fit
            <6> QED BY <1>15, <4>5, <5>1, <6>1 DEF EndsKept
          <5> QED BY <5>1 DEF EndsKept
        <4>8. new.bits \in news /\ new.bits \in Nat
          BY <1>12, <1>17, <2>2, <3>7
        <4>9. ll # NIL => rep.bits > new.bits /\ rep.bits \in Nat
          BY <1>11, <1>12, <1>15, <3>2, <3>7
        <4>10. \A x \in reps \cup news : new.bits <= x
          BY <1>11, <1>17, <4>8, <4>9
        <4>11. Cheaper(pool, Q, Ended(new, "last_match"))
          <5>1. Cheaper(P, Q, Ended(new, "last_match"))
            BY <4>1, <4>5
          <5>2. CASE ll = NIL
            BY <1>15, <5>1, <5>2
          <5>3. CASE ll # NIL
            <6>1. Cheaper(pool, P, Ended(rep, "last_match")) /\ Optimal(P, index) # NIL
              BY <1>15, <5>3
            <6>2. PICK eq, ep, eo : eq = Ends(Q, index) /\ ep = Ends(P, index) /\ eo = Ends(pool, index)
              OBVIOUS
            <6>3. eq.bits \in Int /\ ep.bits \in Int /\ (Optimal(pool, index) # NIL => eo.bits \in Int)
              <7>1. ASSUME NEW R, Good(R, {}), Optimal(R, index) # NIL PROVE Ends(R, index).bits \in Int
                <8>1. PICK s : s = <<"optimal", index>>
                  OBVIOUS
                <8>2. s \in Slots /\ R.slot[s] = Optimal(R, index)
                  BY <1>1, <8>1, Places DEF Optimal
                <8>3. R.nodes[R.slot[s]].bits \in Nat \cup {-1}
                  BY <7>1, <8>2, BlockOf
                <8> QED BY <8>2, <8>3 DEF Ends
              <7>2. Good(Q, {})
                BY <3>7 DEF Relaxed
              <7> QED BY <1>3, <4>5, <6>1, <6>2, <7>1, <7>2
            <6>4. Ended(new, "last_match").bits = new.bits /\ Ended(rep, "last_match").bits = rep.bits
              BY DEF Ended
            <6>5. /\ eq = Ended(new, "last_match") \/ eq = ep
                  /\ eq.bits <= new.bits /\ eq.bits <= ep.bits
                  /\ ep = Ended(rep, "last_match") \/ (Optimal(pool, index) # NIL /\ ep = eo)
                  /\ Optimal(pool, index) # NIL => ep.bits <= eo.bits
              BY <5>1, <6>1, <6>2, <6>4 DEF Cheaper
            <6>6. ~(eq = Ended(rep, "last_match"))
              <7> SUFFICES ASSUME eq = Ended(rep, "last_match") PROVE FALSE
                OBVIOUS
              <7>1. eq.bits = rep.bits
                BY <6>4
              <7> QED BY <4>8, <4>9, <5>3, <6>5, <7>1
            <6>7. eq = Ended(new, "last_match") \/ (Optimal(pool, index) # NIL /\ eq = eo)
              BY <6>5, <6>6
            <6>8. Optimal(pool, index) # NIL => eq.bits <= eo.bits
              BY <6>3, <6>5
            <6> QED BY <6>2, <6>4, <6>5, <6>7, <6>8 DEF Cheaper
          <5> QED BY <5>2, <5>3
        <4>12. LastMatch(Q, offset) # NIL /\ Q.nodes[LastMatch(Q, offset)] = new
          BY <4>1, <4>5, Zenon DEF LastMatch
        <4>13. Taken(new)
          BY <1>18, <2>2, <4>8, <4>10, <4>11, <4>12
        <4> HIDE DEF Taken
        <4> QED BY <3>5, <4>6, <4>7, <4>13
      <3> QED BY <3>4, <3>6, <3>7
    <2> QED BY <2>1, <2>2
\* What follows for the row.
<1>21. LiteralsTold(Q, offset, index) /\ LastLiteral(Q, offset) = ll
    <2>1. LastLiteral(Q, offset) = ll /\ (ll # NIL => Q.nodes[ll] = pool.nodes[ll])
      BY <1>1, <1>2, <1>20 DEF SameLiterals
    <2>2. LiteralsTold(pool, offset, index - 1)
      BY <1>6 DEF Told
    <2>3. CASE ll # NIL
      BY <1>2, <2>1, <2>2, <2>3 DEF LiteralsTold
    <2>4. CASE ll = NIL
      <3>1. \A j \in 0 .. (index - 1) + 1 : Cell(j, offset, "Literals") = {}
        BY <1>2, <2>2, <2>4 DEF LiteralsTold
      <3>2. \A j \in 0 .. index + 1 : j \in 0 .. (index - 1) + 1 \/ j = index + 1
        BY <1>1
      <3>3. \A j \in 0 .. index + 1 : Cell(j, offset, "Literals") = {}
        BY <1>9, <3>1, <3>2
      <3> QED BY <2>1, <2>4, <3>3 DEF LiteralsTold
    <2> QED BY <2>1, <2>3, <2>4
<1>22. CASE \E node : Taken(node)
    <2>1. PICK node : Taken(node)
      BY <1>22
    <2>2. PICK v : v = node.bits
      OBVIOUS
    <2>3. /\ LastMatch(Q, offset) # NIL /\ Q.nodes[LastMatch(Q, offset)] = node /\ node.index = index
          /\ v \in reps \cup news /\ \A x \in reps \cup news : v <= x
          /\ Cheaper(pool, Q, Ended(node, "last_match"))
          /\ ll = NIL => ml >= Shortest
      BY <2>1, <2>2
    <2> HIDE DEF Taken
    <2>4. Cell(index + 1, offset, "Match") = {v} /\ v \in Int
      <3>1. PICK costs : costs = reps \cup news
        OBVIOUS
      <3>2. costs \subseteq Nat /\ v \in costs /\ \A x \in costs : v <= x
        BY <1>12, <2>3, <3>1
      <3>3. Least(costs) = {v}
        BY <3>2, LeastOne
      <3> QED BY <1>12, <3>1, <3>2, <3>3
    <2>5. PICK e : e = Ended(node, "last_match")
      OBVIOUS
    <2>6. e.bits = v /\ e.offset = offset /\ e.kind = "Match"
      BY <2>2, <2>5 DEF Ended
    <2>7. Attained(e, index)
      BY <1>1, <2>4, <2>6 DEF Attained
    <2>8. \A k \in Kinds : \A x \in Cell(index + 1, offset, k) : x = v
      BY <1>9, <2>4 DEF Kinds
    <2>9. Optima(Q, index, offset + 1)
      BY <1>20, <2>3, <2>4, <2>5, <2>6, <2>7, <2>8, OptimaNext
    <2>10. MatchTold(Q, offset, index)
      <3>1. node.index + 1 = index + 1 /\ node.index <= index
        BY <1>1, <2>3
      <3>2. node.index + 2 .. index + 1 = {}
        BY <1>1, <2>3
      <3> QED BY <2>2, <2>3, <2>4, <3>1, <3>2 DEF MatchTold
    <2>11. Opening(Q, offset, index, ml)
      BY <1>21, <2>3 DEF Opening
    <2> QED BY <1>20, <1>21, <2>9, <2>10, <2>11 DEF Told
<1>23. CASE Q = pool /\ ll = NIL /\ reps \cup news = {} /\ ml < Shortest
    <2>1. Cell(index + 1, offset, "Match") = {}
      BY <1>12, <1>23 DEF Least
    <2>2. LastMatch(pool, offset) = NIL
      <3>1. ASSUME LastMatch(pool, offset) # NIL PROVE FALSE
        <4>1. index - 1 >= 0 => match_length[offset] >= Shortest
          BY <1>2, <1>6, <1>23, <3>1 DEF Told, Opening
        <4>2. match_length[offset] \in Nat /\ Shortest \in {1, 2}
          BY <1>1 DEF Shortest
        <4> QED BY <1>1, <1>23, <4>1, <4>2
      <3> QED BY <3>1
    <2>3. \A j \in 0 .. index + 1 : Cell(j, offset, "Match") = {}
      <3>1. \A j \in 0 .. (index - 1) + 1 : Cell(j, offset, "Match") = {}
        BY <1>6, <2>2 DEF Told, MatchTold
      <3>2. \A j \in 0 .. index + 1 : j \in 0 .. (index - 1) + 1 \/ j = index + 1
        BY <1>1
      <3> QED BY <2>1, <3>1, <3>2
    <2>4. \A k \in Kinds : Cell(index + 1, offset, k) = {}
      BY <1>9, <2>1 DEF Kinds
    <2>5. Optima(Q, index, offset + 1)
      BY <1>23, <2>4, OptimaStay
    <2>6. Told(Q, offset, index, ml)
      BY <1>21, <1>23, <2>2, <2>3 DEF Told, MatchTold, Opening
    <2> HIDE DEF Taken
    <2> QED BY <1>20, <2>5, <2>6
<1> HIDE DEF Taken
<1> QED BY <1>20, <1>22, <1>23

\* What a step makes of the tables at its offset is what the next one needs.
LEMMA TablesNext ==
    ASSUME Within, match_length \in [Offsets -> Nat],
           Tables(pool, match_length, index, offset), NEW ml \in Nat,
           NEW lengths, lengths = [match_length EXCEPT ![offset] = ml], NEW Q,
           \A t \in Offsets : t # offset => SameMatches(pool, Q, t) /\ SameLiterals(pool, Q, t),
           Told(Q, offset, index, ml)
    PROVE  Tables(Q, lengths, index, offset + 1)
<1>1. /\ index \in Nat /\ offset \in Nat /\ offset \in Offsets /\ \A t \in Offsets : t \in Nat
    <2>1. index \in Nat /\ offset \in Nat /\ offset \in Offsets
      BY Places
    <2>2. \A t \in Offsets : t \in Nat
      BY Places
    <2> QED BY <2>1, <2>2
<1>2. ASSUME NEW t \in Offsets PROVE Told(Q, t, Done(t, index, offset + 1), lengths[t])
    <2>1. CASE t = offset
      <3>1. Done(t, index, offset + 1) = index /\ lengths[t] = ml
        BY <1>1, <2>1 DEF Done
      <3> QED BY <2>1, <3>1
    <2>2. CASE t # offset
      <3>1. t < offset + 1 <=> t < offset
        BY <1>1, <2>2
      <3>2. Done(t, index, offset + 1) = Done(t, index, offset) /\ lengths[t] = match_length[t]
        BY <2>2, <3>1 DEF Done
      <3>3. Told(pool, t, Done(t, index, offset), match_length[t])
        BY DEF Tables
      <3> QED BY <2>2, <3>2, <3>3, ToldSame
    <2> QED BY <2>1, <2>2
<1> QED BY <1>2 DEF Tables

\* The reference has nothing behind an offset farther back than the input.
LEMMA NothingFar ==
    ASSUME Within, Rows, offset = Ceiling(index), NEW t \in Offsets, t > offset
    PROVE  /\ \A j \in 0 .. index + 1 : Cell(j, t, "Match") = {}
           /\ Cell(index + 1, t, "Literals") = {}
<1>1. /\ index \in Nat /\ offset \in Nat /\ offset >= 1 /\ n \in Nat /\ index <= n - 1
      /\ trial.limit \in Nat /\ trial.limit >= 1
    <2>1. trial.limit \in Nat /\ trial.limit >= 1
      BY TrialType DEF Within
    <2> QED BY <2>1, Places
<1>2. t \in Nat /\ t >= index + 1 /\ t >= 2
    <2>1. Ceiling(n - 1) \in Nat /\ Ceiling(n - 1) <= trial.limit
      BY <1>1 DEF Ceiling, INITIAL_OFFSET
    <2>2. t \in Nat /\ t <= trial.limit
      BY <1>1, <2>1 DEF Offsets
    <2>3. t >= index + 1
      BY <1>1, <2>2 DEF Ceiling, INITIAL_OFFSET
    <2> QED BY <1>1, <2>2, <2>3
<1>3. ASSUME NEW j \in 0 .. index + 1 PROVE Cell(j, t, "Match") = {}
    <2>1. Shaped(j)
      <3>1. j \in 0 .. index \/ j = index + 1
        BY <1>1
      <3> QED BY <3>1, RowShaped DEF Rows
    <2>2. ~RepeatsAt(j, t) /\ t # 1
      BY <1>1, <1>2 DEF RepeatsAt
    <2> QED BY <2>1, <2>2 DEF Shaped
<1>4. LiteralCosts(index + 1, t) = {}
    <2>1. ASSUME NEW x \in LiteralCosts(index + 1, t) PROVE FALSE
      <3>1. PICK len \in 1 .. index + 1 : After((index + 1) - len, t, "Match") # {}
        BY LiteralsAre
      <3>2. (index + 1) - len \in 0 .. index + 1 /\ Cell((index + 1) - len, t, "Match") # {}
        <4>1. (index + 1) - len \in 0 .. index + 1
          BY <1>1
        <4> QED BY <3>1, <4>1, CellBefore
      <3> QED BY <1>3, <3>2
    <2> QED BY <2>1
<1>5. Cell(index + 1, t, "Literals") = {}
    BY <1>4, RowCosts DEF Least
<1> QED BY <1>3, <1>5

\* Behind the last offset of a position, what the tables and the cheapest blocks say is
\* what they say before the first of the next.
LEMMA WrapTables ==
    ASSUME Within, Rows, offset = Ceiling(index), NEW lengths, NEW P, Good(P, {}), LastOnes(P),
           Tables(P, lengths, index, offset + 1)
    PROVE  Tables(P, lengths, index + 1, 1)
<1>1. /\ index \in Nat /\ offset \in Nat /\ (index - 1) + 1 = index
      /\ \A t \in Offsets : t \in Nat /\ t >= 1
    <2>1. index \in Nat /\ offset \in Nat /\ (index - 1) + 1 = index
      <3>1. index \in Nat /\ offset \in Nat
        BY Places
      <3> QED BY <3>1
    <2>2. \A t \in Offsets : t \in Nat
      BY Places
    <2>3. \A t \in Offsets : t \in Nat /\ t >= 1
      BY <2>2 DEF Offsets
    <2> QED BY <2>1, <2>3
<1>2. \A t \in Offsets : Done(t, index + 1, 1) = index
    BY <1>1 DEF Done
<1>3. ASSUME NEW t \in Offsets PROVE Told(P, t, index, lengths[t])
    <2>1. CASE t <= offset
      <3>1. Done(t, index, offset + 1) = index
        BY <1>1, <2>1 DEF Done
      <3> QED BY <3>1 DEF Tables
    <2>2. CASE t > offset
      <3>1. Done(t, index, offset + 1) = index - 1
        BY <1>1, <2>2 DEF Done
      <3>2. Told(P, t, index - 1, lengths[t])
        BY <3>1 DEF Tables
      <3>3. /\ \A j \in 0 .. index + 1 : Cell(j, t, "Match") = {}
            /\ Cell(index + 1, t, "Literals") = {}
        BY <2>2, NothingFar
      <3>4. LastMatch(P, t) = NIL
        <4>1. ASSUME LastMatch(P, t) # NIL PROVE FALSE
          <5>1. PICK m : m = P.nodes[LastMatch(P, t)]
            OBVIOUS
          <5>2. m.index <= index - 1 /\ Cell(m.index + 1, t, "Match") = {m.bits}
            BY <3>2, <4>1, <5>1 DEF Told, MatchTold
          <5>3. m.index \in Nat \cup {-1}
            <6>1. <<"last_match", t>> \in Slots
              BY DEF Slots
            <6> QED BY <4>1, <5>1, <6>1, BlockOf DEF LastMatch
          <5>4. m.index + 1 \in 0 .. index + 1
            BY <1>1, <5>2, <5>3
          <5> QED BY <3>3, <5>2, <5>4
        <4> QED BY <4>1
      <3>5. LastLiteral(P, t) = NIL
        BY <3>4 DEF LastOnes
      <3>6. \A j \in 0 .. index + 1 : Cell(j, t, "Literals") = {}
        <4>1. \A j \in 0 .. (index - 1) + 1 : Cell(j, t, "Literals") = {}
          BY <3>2, <3>5 DEF Told, LiteralsTold
        <4>2. \A j \in 0 .. index + 1 : j \in 0 .. (index - 1) + 1 \/ j = index + 1
          BY <1>1
        <4> QED BY <3>3, <4>1, <4>2
      <3> QED BY <3>3, <3>4, <3>5, <3>6 DEF Told, MatchTold, LiteralsTold, Opening
    <2> QED BY <1>1, <2>1, <2>2
<1> QED BY <1>2, <1>3 DEF Tables

LEMMA NoneBeyond ==
    ASSUME Within, NEW P, Fit(P, index, offset + 1), Ending(P), NEW j \in Positions, j > index
    PROVE  Optimal(P, j) = NIL
<1>1. ASSUME Optimal(P, j) # NIL PROVE FALSE
    <2>1. PICK s : s = <<"optimal", j>>
      OBVIOUS
    <2>2. s \in Slots /\ P.slot[s] # NIL /\ Good(P, {}) /\ Optimal(P, j) = P.slot[s]
      BY <1>1, <2>1 DEF Slots, Optimal, Fit
    <2>3. P.slot[s] \in Blocks(P)
      BY <2>2, BlockOf
    <2>4. P.nodes[P.slot[s]].index <= index /\ P.nodes[P.slot[s]].index = j
      BY <1>1, <2>2, <2>3 DEF Fit, Ending
    <2>5. index \in Nat /\ j \in Nat
      BY Places
    <2> QED BY <2>4, <2>5
<1> QED BY <1>1

LEMMA WrapOptima ==
    ASSUME Within, Rows, offset = Ceiling(index), NEW P, Fit(P, index, offset + 1), Ending(P),
           Optima(P, index, offset + 1)
    PROVE  Optima(P, index + 1, 1)
<1>1. index \in Nat /\ offset \in Nat /\ \A j \in Positions : j \in Nat
    <2>1. \A j \in Positions : j \in Nat
      BY Places
    <2> QED BY <2>1, Places
<1>2. \A t \in Offsets : t \in Nat /\ t >= 1
    <2>1. \A t \in Offsets : t \in Nat
      BY Places
    <2> QED BY <2>1 DEF Offsets
<1>3. ASSUME NEW j \in Positions, j <= index + 1, Optimal(P, j) # NIL
      PROVE  /\ Attained(Ends(P, j), j)
             /\ \A t \in Offsets : j < index + 1 \/ t < 1 => NoDearer(Ends(P, j), j, t)
    <2>1. j <= index
      <3>1. ~(j > index)
        BY <1>3, NoneBeyond
      <3> QED BY <1>1, <3>1
    <2>2. ASSUME NEW t \in Offsets PROVE NoDearer(Ends(P, j), j, t)
      <3>1. CASE j < index \/ t < offset + 1
        BY <1>3, <2>1, <3>1 DEF Optima
      <3>2. CASE ~(j < index \/ t < offset + 1)
        <4>1. j = index /\ t > offset
          BY <1>1, <1>2, <2>1, <3>2
        <4>2. Cell(index + 1, t, "Match") = {} /\ Cell(index + 1, t, "Literals") = {}
          <5>1. index + 1 \in 0 .. index + 1
            BY <1>1
          <5> QED BY <4>1, <5>1, NothingFar
        <4> QED BY <4>1, <4>2 DEF NoDearer, Kinds
      <3> QED BY <3>1, <3>2
    <2> QED BY <1>3, <2>1, <2>2 DEF Optima
<1> QED BY <1>3 DEF Optima

\* What depends on the trial and the rows alone stays with them.
LEMMA CellsKept ==
    ASSUME trial' = trial, index' = index, least' = least
    PROVE  \A j, t, k : Cell(j, t, k)' = Cell(j, t, k)
<1>1. Offsets' = Offsets /\ Shortest' = Shortest
    BY TrialKept
<1>2. \A v : Gamma(v)' = Gamma(v)
    BY DEF Gamma
<1>3. /\ \A k : NewLengthBits(k)' = NewLengthBits(k) /\ LiteralBits(k)' = LiteralBits(k)
                /\ RepBits(k)' = RepBits(k)
      /\ \A o : OffsetBits(o)' = OffsetBits(o)
    BY <1>2 DEF NewLengthBits, LiteralBits, RepBits, OffsetBits
<1>4. \A o, k : NewBits(o, k)' = NewBits(o, k)
    BY <1>3 DEF NewBits
<1>5. \A i, o : (RepeatsAt(i, o)' <=> RepeatsAt(i, o))
    BY DEF RepeatsAt, input
<1>6. \A i, o, k : (Copies(i, o, k)' <=> Copies(i, o, k)) /\ (Plain(i, o, k)' <=> Plain(i, o, k))
    BY <1>5 DEF Copies, Plain
<1>7. /\ \A j, o, k : After(j, o, k)' = After(j, o, k)
      /\ \A i, o : Reach(i, o)' = Reach(i, o)
      /\ \A k : (Again(k)' <=> Again(k))
    BY <1>6 DEF After, Reach, Again
<1>8. \A i, o : LiteralCosts(i, o)' = LiteralCosts(i, o)
    BY <1>3, <1>6, <1>7 DEF LiteralCosts
<1>9. \A i, o : RepCosts(i, o)' = RepCosts(i, o)
    BY <1>3, <1>7 DEF RepCosts
<1>10. \A i, o : NewCosts(i, o)' = NewCosts(i, o)
    BY <1>1, <1>4, <1>7 DEF NewCosts, Kinds
<1>11. \A i : Row(i)' = Row(i)
    BY <1>1, <1>8, <1>9, <1>10 DEF Row, Kinds, Least
<1> QED BY <1>11 DEF Cell

\* What depends on cells that stay stays.
LEMMA ShapedKept ==
    ASSUME trial' = trial, NEW j, \A t, k : Cell(j, t, k)' = Cell(j, t, k), Shaped(j)
    PROVE  Shaped(j)'
<1>1. Offsets' = Offsets
    BY TrialKept
<1>2. \A i, o : (RepeatsAt(i, o)' <=> RepeatsAt(i, o))
    BY DEF RepeatsAt, input
<1> QED BY <1>1, <1>2 DEF Shaped, Kinds, Single

LEMMA ToldKept ==
    ASSUME trial' = trial, NEW J, \A j \in J : \A t, k : Cell(j, t, k)' = Cell(j, t, k),
           NEW P, NEW t, NEW d, NEW len, 0 .. d + 1 \subseteq J,
           LastMatch(P, t) # NIL => P.nodes[LastMatch(P, t)].index + 1 \in J,
           LastLiteral(P, t) # NIL => P.nodes[LastLiteral(P, t)].index + 1 \in J,
           Told(P, t, d, len)
    PROVE  Told(P, t, d, len)'
<1>1. Shortest' = Shortest
    BY TrialKept
<1>2. \A i, o : (RepeatsAt(i, o)' <=> RepeatsAt(i, o))
    BY DEF RepeatsAt, input
<1>3. MatchTold(P, t, d)'
    <2>1. CASE LastMatch(P, t) = NIL
      <3>1. \A j \in 0 .. d + 1 : Cell(j, t, "Match") = {}
        BY <2>1 DEF Told, MatchTold
      <3>2. \A j \in 0 .. d + 1 : Cell(j, t, "Match")' = {}
        BY <3>1
      <3> QED BY <2>1, <3>2 DEF MatchTold, LastMatch
    <2>2. CASE LastMatch(P, t) # NIL
      <3>1. PICK m : m = P.nodes[LastMatch(P, t)]
        OBVIOUS
      <3>2. /\ m.index <= d /\ Cell(m.index + 1, t, "Match") = {m.bits}
            /\ \A x \in m.index + 2 .. d + 1 : ~RepeatsAt(x, t)
        BY <2>2, <3>1 DEF Told, MatchTold
      <3>3. Cell(m.index + 1, t, "Match")' = {m.bits}
        BY <2>2, <3>1, <3>2
      <3>4. \A x \in m.index + 2 .. d + 1 : ~RepeatsAt(x, t)'
        BY <1>2, <3>2, Zenon
      <3> QED BY <2>2, <3>1, <3>2, <3>3, <3>4, Zenon DEF MatchTold, LastMatch
    <2> QED BY <2>1, <2>2
<1>4. LiteralsTold(P, t, d)'
    <2>1. CASE LastLiteral(P, t) = NIL
      <3>1. \A j \in 0 .. d + 1 : Cell(j, t, "Literals") = {}
        BY <2>1 DEF Told, LiteralsTold
      <3>2. \A j \in 0 .. d + 1 : Cell(j, t, "Literals")' = {}
        BY <3>1
      <3> QED BY <2>1, <3>2 DEF LiteralsTold, LastLiteral
    <2>2. CASE LastLiteral(P, t) # NIL
      <3>1. PICK l : l = P.nodes[LastLiteral(P, t)]
        OBVIOUS
      <3>2. Cell(l.index + 1, t, "Literals") = {l.bits}
        BY <2>2, <3>1 DEF Told, LiteralsTold
      <3>3. Cell(l.index + 1, t, "Literals")' = {l.bits}
        BY <2>2, <3>1, <3>2
      <3> QED BY <2>2, <3>1, <3>3 DEF LiteralsTold, LastLiteral
    <2> QED BY <2>1, <2>2
<1>5. Opening(P, t, d, len)'
    BY <1>1 DEF Told, Opening, LastMatch, LastLiteral
<1> QED BY <1>3, <1>4, <1>5 DEF Told

LEMMA OptimaKept ==
    ASSUME trial' = trial, NEW J, \A j \in J : \A t, k : Cell(j, t, k)' = Cell(j, t, k),
           NEW P, NEW i, NEW o,
           \A j \in Positions : j <= i /\ Optimal(P, j) # NIL => j + 1 \in J,
           Optima(P, i, o)
    PROVE  Optima(P, i, o)'
<1>1. Positions' = Positions /\ Offsets' = Offsets
    BY TrialKept
<1>2. ASSUME NEW j \in Positions, j <= i, Optimal(P, j) # NIL
      PROVE  /\ Attained(Ends(P, j), j)'
             /\ \A t \in Offsets : j < i \/ t < o => NoDearer(Ends(P, j), j, t)'
    <2>1. /\ Attained(Ends(P, j), j)
          /\ \A t \in Offsets : j < i \/ t < o => NoDearer(Ends(P, j), j, t)
      BY <1>2 DEF Optima
    <2>2. \A t, k : Cell(j + 1, t, k)' = Cell(j + 1, t, k)
      BY <1>2
    <2>3. PICK e : e = Ends(P, j)
      OBVIOUS
    <2>4. Attained(e, j)'
      BY <1>1, <2>1, <2>2, <2>3 DEF Attained
    <2>5. \A t \in Offsets : j < i \/ t < o => NoDearer(e, j, t)'
      BY <2>1, <2>2, <2>3 DEF NoDearer, Kinds
    <2>6. Ends(P, j)' = e
      BY <2>3 DEF Ends, Behind, Before, Optimal
    <2> QED BY <2>4, <2>5, <2>6
<1> QED BY <1>1, <1>2 DEF Optima, Optimal

\* The rows, when another is written down, are what they were.
LEMMA RowAdded ==
    ASSUME Within, Rows, trial' = trial, index' = index + 1, least' = Append(least, Row(index + 1))
    PROVE  /\ Rows'
           /\ \A j \in 0 .. index + 1 : \A t, k : Cell(j, t, k)' = Cell(j, t, k)
<1>1. index \in Nat
    BY Places
<1>2. PICK R : R = Row(index + 1)
    OBVIOUS
<1>3. PICK D : D = Offsets \X Kinds
    OBVIOUS
<1>4. R \in [D -> SUBSET Int]
    <2>1. R = [s \in D |-> R[s]]
      BY <1>2, <1>3 DEF Row
    <2>2. ASSUME NEW s \in D PROVE R[s] \in SUBSET Int
      <3>1. PICK t \in Offsets, k \in Kinds : s = <<t, k>>
        BY <1>3
      <3>2. R[s] = Cell(index + 1, t, k)
        BY <1>1, <1>2, <3>1 DEF Cell
      <3>3. Single(Cell(index + 1, t, k))
        BY RowShaped DEF Shaped
      <3> QED BY <3>2, <3>3 DEF Single
    <2> QED BY <2>1, <2>2
<1>5. /\ least' \in Seq([D -> SUBSET Int]) /\ Len(least') = index + 2
      /\ \A j \in 1 .. index + 1 : least'[j] = least[j]
      /\ least'[index + 2] = R
    <2>1. least \in Seq([D -> SUBSET Int]) /\ Len(least) = index + 1
      BY <1>3 DEF Rows
    <2>2. least' = Append(least, R)
      BY <1>2
    <2> QED BY <1>1, <1>4, <2>1, <2>2
<1>6. ASSUME NEW j \in 0 .. index + 1 PROVE \A t, k : Cell(j, t, k)' = Cell(j, t, k)
    <2>1. j <= index'
      BY <1>1
    <2>2. \A t, k : Cell(j, t, k)' = least'[j + 1][<<t, k>>]
      BY <2>1, Zenon DEF Cell
    <2>3. CASE j <= index
      <3>1. least'[j + 1] = least[j + 1]
        BY <1>1, <1>5, <2>3
      <3> QED BY <2>2, <2>3, <3>1, Zenon DEF Cell
    <2>4. CASE ~(j <= index)
      <3>1. j = index + 1 /\ least'[j + 1] = R
        BY <1>1, <1>5, <2>4
      <3> QED BY <1>2, <2>2, <2>4, <3>1, Zenon DEF Cell
    <2> QED BY <2>3, <2>4
<1>7. ASSUME NEW j \in 0 .. index + 1 PROVE Shaped(j)'
    <2>1. Shaped(j)
      <3>1. j \in 0 .. index \/ j = index + 1
        BY <1>1
      <3> QED BY <3>1, RowShaped DEF Rows
    <2> QED BY <1>6, <2>1, ShapedKept
<1>8. Offsets' = Offsets
    BY TrialKept
<1>9. Rows'
    <2>1. (Offsets \X Kinds)' = D
      BY <1>3, <1>8 DEF Kinds
    <2>2. index' = index + 1 /\ (index + 1) + 1 = index + 2
      BY <1>1
    <2> QED BY <1>5, <1>7, <2>1, <2>2 DEF Rows
<1> QED BY <1>6, <1>9

\* Where the blocks of the tables end.
LEMMA LastEnds ==
    ASSUME Within, NEW P, NEW o, Fit(P, index, o), NEW t \in Offsets
    PROVE  /\ LastMatch(P, t) # NIL => P.nodes[LastMatch(P, t)].index + 1 \in 0 .. index + 1
           /\ LastLiteral(P, t) # NIL => P.nodes[LastLiteral(P, t)].index + 1 \in 0 .. index + 1
<1>1. index \in Nat /\ <<"last_match", t>> \in Slots /\ <<"last_literal", t>> \in Slots
    BY Places
<1>2. ASSUME NEW s \in Slots, P.slot[s] # NIL PROVE P.nodes[P.slot[s]].index + 1 \in 0 .. index + 1
    <2>1. PICK i : i = P.nodes[P.slot[s]].index
      OBVIOUS
    <2>2. Good(P, {})
      BY DEF Fit
    <2>3. i \in Nat \cup {-1} /\ P.slot[s] \in Blocks(P)
      BY <1>2, <2>1, <2>2, BlockOf
    <2>4. i <= index
      BY <2>1, <2>3 DEF Fit
    <2>5. i + 1 \in 0 .. index + 1
      BY <1>1, <2>3, <2>4
    <2> QED BY <2>1, <2>5
<1> QED BY <1>1, <1>2 DEF LastMatch, LastLiteral

\* What the tables and the cheapest blocks say stays while the cells stay.
LEMMA TablesKept ==
    ASSUME Within, trial' = trial,
           \A j \in 0 .. index + 1 : \A t, k : Cell(j, t, k)' = Cell(j, t, k),
           NEW P, Fit(P, index, offset + 1), NEW lengths, NEW i, NEW o,
           \A t \in Offsets : Done(t, i, o) \in {index, index - 1},
           Tables(P, lengths, i, o)
    PROVE  Tables(P, lengths, i, o)'
<1>1. Offsets' = Offsets /\ index \in Nat
    BY Places, TrialKept
<1>2. ASSUME NEW t \in Offsets PROVE Told(P, t, Done(t, i, o), lengths[t])'
    <2>1. PICK d : d = Done(t, i, o)
      OBVIOUS
    <2>2. PICK len : len = lengths[t]
      OBVIOUS
    <2>3. Told(P, t, d, len)
      BY <2>1, <2>2 DEF Tables
    <2>4. PICK J : J = 0 .. index + 1
      OBVIOUS
    <2>5. \A j \in J : \A u, k : Cell(j, u, k)' = Cell(j, u, k)
      BY <2>4
    <2>6. 0 .. d + 1 \subseteq J
      <3>1. d \in {index, index - 1}
        BY <2>1
      <3> QED BY <1>1, <2>4, <3>1
    <2>7. /\ LastMatch(P, t) # NIL => P.nodes[LastMatch(P, t)].index + 1 \in J
          /\ LastLiteral(P, t) # NIL => P.nodes[LastLiteral(P, t)].index + 1 \in J
      BY <2>4, LastEnds
    <2>8. Told(P, t, d, len)'
      BY <2>3, <2>5, <2>6, <2>7, ToldKept
    <2>9. Done(t, i, o)' = d
      BY <2>1 DEF Done
    <2> QED BY <2>2, <2>8, <2>9
<1> QED BY <1>1, <1>2 DEF Tables

LEMMA CheapestKept ==
    ASSUME Within, trial' = trial,
           \A j \in 0 .. index + 1 : \A t, k : Cell(j, t, k)' = Cell(j, t, k),
           NEW P, Fit(P, index, offset + 1), Ending(P), NEW i, NEW o, Optima(P, i, o)
    PROVE  Optima(P, i, o)'
<1>1. PICK J : J = 0 .. index + 1
    OBVIOUS
<1>2. \A j \in J : \A u, k : Cell(j, u, k)' = Cell(j, u, k)
    BY <1>1
<1>3. index \in Nat /\ \A j \in Positions : j \in Nat
    <2>1. \A j \in Positions : j \in Nat
      BY Places
    <2> QED BY <2>1, Places
<1>4. ASSUME NEW j \in Positions, j <= i, Optimal(P, j) # NIL PROVE j + 1 \in J
    <2>1. ~(j > index)
      BY <1>4, NoneBeyond
    <2>2. j + 1 \in 0 .. index + 1
      BY <1>3, <2>1
    <2> QED BY <1>1, <2>2
<1> QED BY <1>2, <1>4, OptimaKept

\* The end of every step: the loops go on.
LEMMA AdvanceCosts ==
    ASSUME Within, Rows, NEW size, Advance(size),
           NEW P, P = pool', NEW lengths, lengths = match_length',
           Fit(P, index, offset + 1), Links(P),
           Tables(P, lengths, index, offset + 1), Optima(P, index, offset + 1)
    PROVE  CostInv'
<1>1. /\ index \in Nat /\ offset \in Nat /\ offset <= Ceiling(index) /\ Ceiling(index) \in Nat
      /\ trial' = trial /\ Good(P, {}) /\ LastOnes(P) /\ Ending(P)
      /\ Offsets' = Offsets
    <2>1. index \in Nat /\ offset \in Nat
      BY Places
    <2>2. Ceiling(index) \in Nat
      <3>1. trial.limit \in Nat
        BY TrialType DEF Within
      <3> QED BY <2>1, <3>1 DEF Ceiling, INITIAL_OFFSET
    <2>3. trial' = trial
      BY DEF Advance
    <2>4. offset <= Ceiling(index)
      BY <2>2 DEF Within
    <2> QED BY <2>1, <2>2, <2>3, <2>4, TrialKept DEF Links, Fit
<1>2. PICK i, o : i = index' /\ o = offset'
    OBVIOUS
<1>3. ASSUME Rows', Tables(P, lengths, i, o), Optima(P, i, o),
             \A j \in 0 .. index + 1 : \A t, k : Cell(j, t, k)' = Cell(j, t, k),
             \A t \in Offsets : Done(t, i, o) \in {index, index - 1}
      PROVE  CostInv'
    <2>1. Tables(P, lengths, i, o)'
      BY <1>1, <1>3, TablesKept
    <2>2. Optima(P, i, o)'
      BY <1>1, <1>3, CheapestKept
    <2>3. Tables(pool, match_length, index, offset)'
      BY <1>2, <2>1
    <2>4. Optima(pool, index, offset)'
      BY <1>2, <2>2
    <2> QED BY <1>3, <2>3, <2>4 DEF CostInv
<1>4. CASE offset < Ceiling(index)
    <2>1. o = offset + 1 /\ i = index /\ index' = index /\ least' = least
      BY <1>2, <1>4 DEF Advance
    <2>2. \A j, t, k : Cell(j, t, k)' = Cell(j, t, k)
      BY <1>1, <2>1, CellsKept
    <2>3. Rows'
      <3>1. ASSUME NEW j \in 0 .. index PROVE Shaped(j)'
        BY <1>1, <2>2, ShapedKept DEF Rows
      <3>2. (Offsets \X Kinds)' = Offsets \X Kinds
        BY <1>1 DEF Kinds
      <3> QED BY <2>1, <3>1, <3>2 DEF Rows
    <2>4. \A t \in Offsets : Done(t, i, o) \in {index, index - 1}
      BY <2>1 DEF Done
    <2> QED BY <1>3, <2>1, <2>2, <2>3, <2>4
<1>5. CASE ~(offset < Ceiling(index))
    <2>1. o = 1 /\ i = index + 1 /\ index' = index + 1 /\ least' = Append(least, Row(index + 1))
          /\ offset = Ceiling(index)
      BY <1>1, <1>2, <1>5 DEF Advance
    <2>2. Rows' /\ \A j \in 0 .. index + 1 : \A t, k : Cell(j, t, k)' = Cell(j, t, k)
      BY <1>1, <2>1, RowAdded
    <2>3. Tables(P, lengths, index + 1, 1)
      BY <1>1, <2>1, WrapTables
    <2>4. Optima(P, index + 1, 1)
      BY <1>1, <2>1, WrapOptima
    <2>5. \A t \in Offsets : Done(t, i, o) \in {index, index - 1}
      <3>1. (index + 1) - 1 = index
        BY <1>1
      <3>2. ASSUME NEW t \in Offsets PROVE ~(t < 1)
        <4>1. \A u \in Offsets : u \in Nat
          BY Places
        <4> QED BY <4>1 DEF Offsets
      <3> QED BY <2>1, <3>1, <3>2 DEF Done
    <2> QED BY <1>3, <2>1, <2>2, <2>3, <2>4, <2>5
<1> QED BY <1>4, <1>5

\* Literals keep the costs.
LEMMA LiteralsKeepCosts ==
    ASSUME Inv, LinkInv, CostInv, Literals
    PROVE  CostInv'
<1>1. /\ index < n /\ match_length' = [match_length EXCEPT ![offset] = 0]
      /\ Advance(best_size) /\ ~Matches
    BY DEF Literals
<1>2. Within
    <2>1. trial \in Trials /\ index \in 0 .. n /\ offset \in 1 .. Ceiling(index)
      BY DEF Inv
    <2>2. n \in Nat
      BY <2>1, TrialType
    <2>3. index \in Positions
      BY <1>1, <2>1, <2>2 DEF Positions
    <2> QED BY <2>1, <2>3 DEF Within
<1>3. /\ match_length \in [Offsets -> Nat] /\ Fit(pool, index, offset) /\ Links(pool) /\ Rows
      /\ Tables(pool, match_length, index, offset) /\ Optima(pool, index, offset)
    BY DEF Inv, LinkInv, CostInv
<1>4. PICK Q : Q = pool'
    OBVIOUS
<1>5. Q = LiteralsPool
    BY <1>4 DEF Literals, LiteralsPool
<1>6. /\ \A t \in Offsets : t # offset => SameMatches(pool, Q, t) /\ SameLiterals(pool, Q, t)
      /\ Told(Q, offset, index, 0) /\ Optima(Q, index, offset + 1)
    BY <1>1, <1>2, <1>3, <1>5, LiteralsCosts
<1>7. PICK lengths : lengths = match_length'
    OBVIOUS
<1>8. Tables(Q, lengths, index, offset + 1)
    BY <1>1, <1>2, <1>3, <1>6, <1>7, TablesNext
<1>9. Fit(Q, index, offset + 1)
    BY <1>2, <1>3, <1>5, LiteralsFits
<1>10. Links(Q)
    BY <1>1, <1>2, <1>3, <1>5, LiteralsLinks
<1> QED BY <1>1, <1>2, <1>3, <1>4, <1>6, <1>7, <1>8, <1>9, <1>10, AdvanceCosts

\* A match keeps the costs.
LEMMA MatchKeepsCosts ==
    ASSUME Inv, LinkInv, CostInv, Match
    PROVE  CostInv'
<1>1. PICK ml : ml = match_length[offset] + 1
    OBVIOUS
<1>2. PICK P : P = LastOffset(pool)
    OBVIOUS
<1>3. PICK Q : Q = pool'
    OBVIOUS
<1>4. /\ Within /\ index > 0 /\ Matches /\ match_length \in [Offsets -> Nat]
      /\ ml \in 1 .. index /\ Longest(index, offset, ml)
      /\ Fit(P, index, offset + 1) /\ Links(P) /\ Repeated(P)
      /\ LastLiteral(P, offset) # NIL => P.nodes[LastLiteral(P, offset)].index = index - ml
    BY <1>1, <1>2, <1>3, MatchMade
<1>5. PICK best, size, len :
          /\ best = best_length' /\ BestOnes(P, best, size) /\ Advance(size)
          /\ IF ml >= Shortest THEN Best(P, len, ml) /\ Q = NewOffset(P, len) ELSE Q = P
    BY <1>1, <1>2, <1>3, MatchMade
<1>6. /\ Fit(pool, index, offset) /\ Links(pool) /\ Rows
      /\ Runs(match_length, index, offset) /\ Placed(pool, match_length, index, offset)
      /\ Tables(pool, match_length, index, offset) /\ Optima(pool, index, offset)
    BY DEF Inv, LinkInv, CostInv
<1>7. Q = IF ml >= Shortest THEN NewOffset(P, len) ELSE P
    BY <1>5
<1>8. ml >= Shortest => Best(P, len, ml)
    BY <1>5
<1>9. /\ \A t \in Offsets : t # offset => SameMatches(pool, Q, t) /\ SameLiterals(pool, Q, t)
      /\ Told(Q, offset, index, ml) /\ Optima(Q, index, offset + 1)
    BY <1>1, <1>2, <1>4, <1>6, <1>7, <1>8, MatchCosts
<1>10. PICK lengths : lengths = match_length'
    OBVIOUS
<1>11. lengths = [match_length EXCEPT ![offset] = ml] /\ ml \in Nat
    BY <1>1, <1>4, <1>10 DEF Match
<1>12. Tables(Q, lengths, index, offset + 1)
    BY <1>4, <1>6, <1>9, <1>11, TablesNext
<1>13. Fit(Q, index, offset + 1) /\ Links(Q)
    <2>1. CASE ml >= Shortest
      <3>1. Shortest \in {1, 2} /\ index \in Nat
        BY <1>4, Places DEF Shortest
      <3>2. len \in 1 .. index
        BY <1>4, <1>8, <2>1, <3>1 DEF Best
      <3>3. Q = NewOffset(P, len) /\ Best(P, len, ml)
        BY <1>7, <1>8, <2>1
      <3>4. Fit(Q, index, offset + 1)
        BY <1>4, <3>2, <3>3, NewOffsetFits
      <3>5. Links(Q)
        BY <1>4, <3>3, NewOffsetLinks
      <3> QED BY <3>4, <3>5
    <2>2. CASE ~(ml >= Shortest)
      BY <1>4, <1>7, <2>2
    <2> QED BY <2>1, <2>2
<1> QED BY <1>3, <1>4, <1>5, <1>6, <1>9, <1>10, <1>12, <1>13, AdvanceCosts

\* A step that leaves all but the result keeps the costs.
LEMMA OthersKeepCosts ==
    ASSUME Inv, LinkInv, CostInv, Return \/ UNCHANGED vars
    PROVE  CostInv'
<1>1. /\ trial' = trial /\ index' = index /\ offset' = offset /\ pool' = pool
      /\ match_length' = match_length /\ least' = least
    BY DEF Return, vars
<1>2. \A j, t, k : Cell(j, t, k)' = Cell(j, t, k)
    BY <1>1, CellsKept
<1>3. PICK P, lengths, i, o : P = pool /\ lengths = match_length /\ i = index /\ o = offset
    OBVIOUS
<1>4. Offsets' = Offsets
    BY <1>1, TrialKept
<1>5. Rows'
    <2>1. ASSUME NEW j \in 0 .. index PROVE Shaped(j)'
      BY <1>1, <1>2, ShapedKept DEF Rows, CostInv
    <2>2. (Offsets \X Kinds)' = Offsets \X Kinds
      BY <1>4 DEF Kinds
    <2> QED BY <1>1, <2>1, <2>2 DEF Rows, CostInv
<1>6. \A j \in Int : \A t, k : Cell(j, t, k)' = Cell(j, t, k)
    BY <1>2
<1>7. Good(P, {})
    BY <1>3 DEF Inv, Fit
<1>8. Tables(P, lengths, i, o)'
    <2>1. ASSUME NEW t \in Offsets PROVE Told(P, t, Done(t, i, o), lengths[t])'
      <3>1. PICK d : d = Done(t, i, o)
        OBVIOUS
      <3>2. PICK len : len = lengths[t]
        OBVIOUS
      <3>3. Told(P, t, d, len)
        BY <1>3, <3>1, <3>2 DEF Tables, CostInv
      <3>4. 0 .. d + 1 \subseteq Int
        OBVIOUS
      <3>5. ASSUME NEW s \in Slots, P.slot[s] # NIL PROVE P.nodes[P.slot[s]].index + 1 \in Int
        <4>1. P.nodes[P.slot[s]].index \in Nat \cup {-1}
          BY <1>7, <3>5, BlockOf
        <4> QED BY <4>1
      <3>6. <<"last_match", t>> \in Slots /\ <<"last_literal", t>> \in Slots
        BY DEF Slots
      <3>7. /\ LastMatch(P, t) # NIL => P.nodes[LastMatch(P, t)].index + 1 \in Int
            /\ LastLiteral(P, t) # NIL => P.nodes[LastLiteral(P, t)].index + 1 \in Int
        BY <3>5, <3>6 DEF LastMatch, LastLiteral
      <3>8. Told(P, t, d, len)'
        BY <1>1, <1>6, <3>3, <3>4, <3>7, ToldKept
      <3>9. Done(t, i, o)' = d
        BY <3>1 DEF Done
      <3> QED BY <3>2, <3>8, <3>9
    <2> QED BY <1>4, <2>1 DEF Tables
<1>9. Optima(P, i, o)'
    <2>1. \A j \in Positions : j + 1 \in Int
      BY DEF Positions
    <2>2. Optima(P, i, o)
      BY <1>3 DEF CostInv
    <2> QED BY <1>1, <1>6, <2>1, <2>2, OptimaKept
<1>10. Tables(pool, match_length, index, offset)'
    BY <1>1, <1>3, <1>8
<1>11. Optima(pool, index, offset)'
    BY <1>1, <1>3, <1>9
<1> QED BY <1>5, <1>10, <1>11 DEF CostInv

\* The first states satisfy them.
LEMMA InitCosts ==
    ASSUME Init
    PROVE  CostInv
<1>1. /\ trial \in Trials /\ index = 0 /\ offset = 1
      /\ least = <<[s \in Offsets \X Kinds |-> IF s = <<INITIAL_OFFSET, "Match">> THEN {-1} ELSE {}]>>
    BY DEF Init
<1>2. /\ Within /\ Blocks(pool) = {1} /\ pool.nodes[1] = First
      /\ \A r \in Slots : pool.slot[r] = IF r = <<"last_match", 1>> THEN 1 ELSE NIL
    BY InitPool DEF First
<1>3. First.index = -1 /\ First.offset = 1 /\ First.bits = -1
    BY DEF First, Block, INITIAL_OFFSET
<1>4. /\ \A t \in Offsets : t \in Nat
      /\ \A t \in Offsets : <<"last_literal", t>> \in Slots /\ <<"last_match", t>> \in Slots
      /\ \A j \in Positions : <<"optimal", j>> \in Slots
    <2>1. \A t \in Offsets : t \in Nat
      BY <1>2, Places
    <2> QED BY <2>1 DEF Slots
<1>5. /\ \A t \in Offsets : LastLiteral(pool, t) = NIL
      /\ \A t \in Offsets : LastMatch(pool, t) = IF t = 1 THEN 1 ELSE NIL
      /\ \A j \in Positions : Optimal(pool, j) = NIL
    BY <1>2, <1>4 DEF LastLiteral, LastMatch, Optimal
<1>6. ASSUME NEW t \in Offsets, NEW k \in Kinds
      PROVE  Cell(0, t, k) = IF t = 1 /\ k = "Match" THEN {-1} ELSE {}
    <2>1. Cell(0, t, k) = least[1][<<t, k>>]
      BY <1>1 DEF Cell
    <2>2. <<t, k>> = <<INITIAL_OFFSET, "Match">> <=> t = 1 /\ k = "Match"
      BY DEF INITIAL_OFFSET
    <2>3. <<t, k>> \in Offsets \X Kinds
      OBVIOUS
    <2> QED BY <1>1, <2>1, <2>2, <2>3
<1>7. Rows
    <2>1. Shaped(0)
      BY <1>6 DEF Shaped, Single, Kinds
    <2>2. least \in Seq([Offsets \X Kinds -> SUBSET Int]) /\ Len(least) = 1
      <3>1. PICK first : first = [s \in Offsets \X Kinds |-> IF s = <<INITIAL_OFFSET, "Match">> THEN {-1} ELSE {}]
        OBVIOUS
      <3>2. first \in [Offsets \X Kinds -> SUBSET Int]
        BY <3>1
      <3> QED BY <1>1, <3>1, <3>2
    <2> QED BY <1>1, <2>1, <2>2 DEF Rows
<1>8. ASSUME NEW t \in Offsets PROVE Told(pool, t, Done(t, index, offset), match_length[t])
    <2>1. Done(t, index, offset) = -1
      <3>1. ~(t < 1)
        BY <1>4 DEF Offsets
      <3> QED BY <1>1, <3>1 DEF Done
    <2>2. 0 .. (-1) + 1 = {0} /\ \A x \in (-1) + 2 .. (-1) + 1 : FALSE
      OBVIOUS
    <2>3. MatchTold(pool, t, -1)
      <3>1. CASE t = 1
        <4>1. LastMatch(pool, t) = 1 /\ LastMatch(pool, t) # NIL
          BY <1>5, <3>1 DEF NIL
        <4>2. Cell(0, t, "Match") = {-1}
          BY <1>6, <3>1 DEF Kinds
        <4> QED BY <1>2, <1>3, <2>2, <4>1, <4>2 DEF MatchTold
      <3>2. CASE t # 1
        <4>1. LastMatch(pool, t) = NIL
          BY <1>5, <3>2
        <4>2. Cell(0, t, "Match") = {}
          BY <1>6, <3>2 DEF Kinds
        <4> QED BY <2>2, <4>1, <4>2 DEF MatchTold
      <3> QED BY <3>1, <3>2
    <2>4. LiteralsTold(pool, t, -1)
      <3>1. Cell(0, t, "Literals") = {}
        BY <1>6 DEF Kinds
      <3> QED BY <1>5, <2>2, <3>1 DEF LiteralsTold
    <2>5. Opening(pool, t, -1, match_length[t])
      BY <1>2, <1>3, <1>5 DEF Opening, NIL
    <2> QED BY <2>1, <2>3, <2>4, <2>5 DEF Told
<1>9. Optima(pool, index, offset)
    BY <1>5 DEF Optima
<1> QED BY <1>7, <1>8, <1>9 DEF CostInv, Tables

\* What the tables and the cheapest blocks say of the reference holds throughout.
THEOREM CostsHold == Spec => [](Inv /\ LinkInv /\ CostInv)
<1>1. Init => CostInv
    BY InitCosts
<1>2. Inv /\ LinkInv /\ CostInv /\ [Next]_vars => CostInv'
    <2> SUFFICES ASSUME Inv, LinkInv, CostInv, [Next]_vars PROVE CostInv'
      OBVIOUS
    <2>1. CASE Match
      BY <2>1, MatchKeepsCosts
    <2>2. CASE Literals
      BY <2>2, LiteralsKeepCosts
    <2>3. CASE Return
      BY <2>3, OthersKeepCosts
    <2>4. CASE UNCHANGED vars
      BY <2>4, OthersKeepCosts
    <2> QED BY <2>1, <2>2, <2>3, <2>4 DEF Next
<1> QED BY <1>1, <1>2, LinksHold, PTL DEF Spec

\* The block that optimize of zx0opt.rs and of zx02.rs keeps for a position costs as
\* much as the cheapest parse of the input up to there that the reference allows: the
\* one cost kept for an offset and a kind is enough, and so is the best length of a
\* copy alone.
THEOREM CheapestIsExact == Spec => []Exact
<1>1. Inv /\ LinkInv /\ CostInv => Exact
    <2> SUFFICES ASSUME Inv, LinkInv, CostInv PROVE Exact
      OBVIOUS
    <2>1. ASSUME NEW i \in Positions, i < index
          PROVE  pool.nodes[Optimal(pool, i)].bits = LeastCost(i + 1)
      <3>1. i \in Nat /\ index \in Nat /\ i + 1 \in 0 .. index /\ i <= index
        <4>1. trial \in Trials /\ index \in 0 .. n
          BY DEF Inv
        <4>2. n \in Nat
          BY <4>1, TrialType
        <4> QED BY <2>1, <4>1, <4>2 DEF Positions
      <3>2. PICK e : e = Ends(pool, i)
        OBVIOUS
      <3>3. Attained(e, i) /\ \A t \in Offsets : NoDearer(e, i, t)
        <4>1. Optimal(pool, i) # NIL
          BY <2>1 DEF Inv, Fit
        <4> QED BY <2>1, <3>1, <3>2, <4>1 DEF CostInv, Optima
      <3>4. PICK costs : costs = UNION {least[(i + 1) + 1][s] : s \in Offsets \X Kinds}
        OBVIOUS
      <3>5. ASSUME NEW t \in Offsets, NEW k \in Kinds
            PROVE  Cell(i + 1, t, k) = least[(i + 1) + 1][<<t, k>>] /\ Cell(i + 1, t, k) \subseteq Int
        <4>1. Shaped(i + 1)
          BY <3>1 DEF CostInv, Rows
        <4>2. Cell(i + 1, t, k) \subseteq Int
          BY <4>1 DEF Shaped, Single
        <4> QED BY <3>1, <4>2 DEF Cell
      <3>6. e.bits \in costs /\ e.bits \in Int
        <4>1. e.offset \in Offsets /\ e.kind \in Kinds /\ e.bits \in Cell(i + 1, e.offset, e.kind)
          BY <3>2, <3>3 DEF Attained, Ends, Kinds
        <4>2. PICK s : s = <<e.offset, e.kind>>
          OBVIOUS
        <4>3. s \in Offsets \X Kinds /\ e.bits \in least[(i + 1) + 1][s] /\ e.bits \in Int
          BY <3>5, <4>1, <4>2
        <4> QED BY <3>4, <4>3
      <3>7. ASSUME NEW x \in costs PROVE x \in Int /\ e.bits <= x
        <4>1. PICK s \in Offsets \X Kinds : x \in least[(i + 1) + 1][s]
          BY <3>4
        <4>2. PICK t \in Offsets, k \in Kinds : s = <<t, k>>
          BY <4>1
        <4>3. x \in Cell(i + 1, t, k) /\ x \in Int
          BY <3>5, <4>1, <4>2
        <4> QED BY <3>3, <4>3 DEF NoDearer
      <3>8. Min(costs) = e.bits
        <4>1. Min(costs) = CHOOSE x \in costs : \A y \in costs : x <= y
          BY DEF Min
        <4>2. \A x \in costs : (\A y \in costs : x <= y) => x = e.bits
          BY <3>6, <3>7
        <4>3. \A y \in costs : e.bits <= y
          BY <3>7
        <4> QED BY <3>6, <4>1, <4>2, <4>3
      <3>9. LeastCost(i + 1) = Min(costs)
        BY <3>4 DEF LeastCost
      <3>10. e.bits = pool.nodes[Optimal(pool, i)].bits
        BY <3>2 DEF Ends
      <3> QED BY <3>8, <3>9, <3>10
    <2> QED BY <2>1 DEF Exact
<1> QED BY <1>1, CostsHold, PTL

=============================================================================
