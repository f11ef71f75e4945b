---------------------------- MODULE MCAssembler ----------------------------
EXTENDS Assembler

A == <<"user", 1>>
B == <<"user", 2>>
Z == <<"user", 3>>

Span(s, e) == [start |-> s, end |-> e]

(* A body with labels A and B put in front of items a and b.               *)
WithLabels(body, a, b) ==
    LET Put(k) == (IF k = a THEN <<Label(A)>> ELSE <<>>)
                  \o (IF k = b THEN <<Label(B)>> ELSE <<>>)
                  \o (IF k <= Len(body) THEN <<body[k]>> ELSE <<>>)
    IN  FoldLeft(LAMBDA out, k : out \o Put(k), <<>>, [k \in 1 .. Len(body) + 1 |-> k])

Body(shape) ==
    [k \in 1 .. Len(shape) |->
        CASE shape[k] = "A" -> Branch(k, A)
          [] shape[k] = "B" -> Branch(k, B)
          [] shape[k] = "1" -> Op(k, 1)
          [] shape[k] = "3" -> Op(k, 3)]

Source(list, ranges, origin) == [items |-> list, ranges |-> ranges, origin |-> origin]

(* One to three branches over each other and over the reserved ranges,     *)
(* both ways.                                                              *)
Shapes ==
    {shape \in [1 .. 5 -> {"A", "B", "1", "3"}] :
        Cardinality({k \in 1 .. 5 : shape[k] \in {"A", "B"}}) \in 1 .. 3}
BranchSources ==
    {Source(WithLabels(Body(shape), a, b), ranges, 8) :
        shape \in Shapes, a \in {1, 5}, b \in {6},
        ranges \in {{}, {Span(17, 18)}, {Span(15, 15), Span(19, 20)}}}

(* Data, origins, constants, operands in the zero page and out of it, the  *)
(* user's own JMP behind a range, and the ends of the address space.       *)
Fill(from, n) == [k \in 1 .. n |-> Op(from + k - 1, 1)]

OddSources ==
    {Source(Fill(10, n) \o <<Data(20, 4), Label(A), Jump(21, A)>>,
            {Span(17, 18)}, 8) : n \in 0 .. 8} \cup
    {Source(<<Constant(Z, operand), Org(At(o))>> \o Fill(10, n)
                \o <<Label(A), Refer(20, A), Refer(21, Z), Branch(22, A)>>
                \o Fill(30, m) \o <<Jump(40, At(19)), Org(At(45)), Op(41, 2)>>,
            {Span(17, 18)}, 8) :
        operand \in {At(2), At(5)}, o \in {1, 8, 15, 17, 19}, n \in 0 .. 3, m \in {1, 7}} \cup
    {Source(<<Jump(1, A), Label(B), Op(2, 1), Branch(3, operand), Op(4, 3), Op(5, 3), Label(A), Op(6, 1)>>,
            {}, o) : operand \in {A, B, Z}, o \in {8, 50, 56}} \cup
    {Source(<<Org(Z), Op(1, 1), Constant(Z, At(9))>>, {}, 8)}

(* A zero-page name that is defined behind its use, and branches near it.  *)
ForwardSources ==
    {Source(<<Refer(1, Z), Refer(2, Z), Label(B), Branch(3, A)>> \o Fill(10, n)
               \o <<Label(A), Branch(5, B), Constant(Z, At(2))>>, {}, 8) : n \in 0 .. 8}

TrialSources == BranchSources \cup OddSources \cup ForwardSources

(* A table that a reserved range pushes away.                              *)
TableSources ==
    {Source(<<Refer(1, A)>> \o Fill(10, n) \o <<Jump(2, B), Label(A), Data(3, 4), Label(B), Op(4, 1)>>,
            {Span(17, 18)}, 8) : n \in 0 .. 8}
=============================================================================
