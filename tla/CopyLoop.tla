------------------------------ MODULE CopyLoop ------------------------------
(***************************************************************************)
(* The copy loops src/lzan-c64/src/emit.rs generates: render_move picks a  *)
(* direction, copy_forward or copy_backward emits the 6502 code.  The code *)
(* counts nothing in 16 bits: it runs on two byte registers and on the     *)
(* high bytes of its own LDA and STA operands, and its loop bounds are     *)
(* arranged (the biased window, the top chunk) so that it ends exactly     *)
(* after len bytes.                                                        *)
(*                                                                         *)
(* A register holds a byte, 0 .. Page - 1, and wraps; an address is two    *)
(* bytes and wraps too.  An action is one pass through a loop body.        *)
(***************************************************************************)
EXTENDS Integers

CONSTANTS Page,       \* Values of a byte (256 in the code).
          Space,      \* Size of the address space (Page * Page).
          Value,      \* Contents of a memory cell.
          Memories    \* The initial memory contents tried.

ASSUME PageAssumption == Page \in Nat \ {0, 1}
ASSUME SpaceAssumption == Space = Page * Page
ASSUME MemoriesAssumption == Memories \subseteq [0 .. (Space - 1) -> Value]

VARIABLES src, dst, len,  \* the move
          orig,           \* history: the memory before it
          mem,            \* the memory
          pc,             \* "loop" (the body), "page" (after a BNE falls through), "end"
          shape,          \* which code was generated
          ld, st,         \* operands of LDA and STA
          x, y,           \* the registers
          k               \* history: bytes copied

move == <<src, dst, len, orig, shape>>
vars == <<move, mem, pc, ld, st, x, y, k>>

Addr == 0 .. (Space - 1)
Reg == 0 .. (Page - 1)

\* (Mutant of Inc: the register does not wrap.)
IncWide(r) == r + 1

\* Byte and address arithmetic.
Inc(r) == IF r = Page - 1 THEN 0 ELSE r + 1
Dec(r) == IF r = 0 THEN Page - 1 ELSE r - 1
Wrap(a) == IF a < 0 THEN a + Space ELSE IF a >= Space THEN a - Space ELSE a

\* (Mutant of Descending: source and destination exchanged.)
DescendingSwapped(s, d, n) == s > d /\ s < d + n

\* render_move: descending when dst > src and the ranges overlap.
Descending(s, d, n) == d > s /\ d < s + n

Shape(s, d, n) ==
    IF n = 0 THEN "none"
    ELSE IF Descending(s, d, n) THEN "backward"
    ELSE IF n <= Page THEN "single" ELSE "biased"

\* (Mutants: a full top chunk is taken as empty; the operands of the biased
\* loop are not biased.)
TopRem(n) == n % Page
ShiftUnbiased(sh, n) ==
    IF sh = "backward" THEN n - (IF n % Page = 0 THEN Page ELSE n % Page) ELSE 0

Rem(n) == n % Page
Bias(n) == IF Rem(n) = 0 THEN 0 ELSE Page - Rem(n)
Top(n) == IF Rem(n) = 0 THEN Page ELSE Rem(n)
\* div_ceil
Pages(n) == n \div Page + (IF Rem(n) = 0 THEN 0 ELSE 1)

\* What the operands are biased by: down for the biased window, up to the top
\* chunk for the descending loop.
Shift(sh, n) == CASE sh = "biased" -> -Bias(n) [] sh = "backward" -> n - Top(n) [] OTHER -> 0

\* A move the build accepts ends inside the address space; that its source does as well
\* is the caller's part.
Legal(s, d, n) == s + n <= Space /\ d + n <= Space

\* The operands as assembled, and the registers after LDX and LDY.
Init ==
    /\ src \in Addr /\ dst \in Addr /\ len \in Addr
    /\ Legal(src, dst, len)
    /\ mem \in Memories /\ orig = mem
    /\ shape = Shape(src, dst, len)
    /\ pc = IF shape = "none" THEN "end" ELSE "loop"
    /\ ld = Wrap(src + Shift(shape, len))
    /\ st = Wrap(dst + Shift(shape, len))
    /\ x = IF shape \in {"biased", "backward"} THEN Pages(len) % Page ELSE 0
    /\ y = CASE shape = "biased" -> Bias(len) [] shape = "backward" -> Rem(len) [] OTHER -> 0
    /\ k = 0

\* LDA ld,Y; STA st,Y.
CopyByte(i) ==
    /\ mem' = [mem EXCEPT ![Wrap(st + i)] = mem[Wrap(ld + i)]]
    /\ k' = k + 1
    /\ UNCHANGED <<move, ld, st, x>>

\* copy_forward up to a page: INY; CPY #<len; BNE.
SingleByte ==
    /\ pc = "loop" /\ shape = "single"
    /\ CopyByte(y)
    /\ y' = Inc(y)
    /\ pc' = IF y' = Rem(len) THEN "end" ELSE "loop"

\* copy_forward above a page: INY; BNE.
BiasedByte ==
    /\ pc = "loop" /\ shape = "biased"
    /\ CopyByte(y)
    /\ y' = Inc(y)
    /\ pc' = IF y' = 0 THEN "page" ELSE "loop"

\* copy_backward: DEY first, then the copy; TYA; BNE.
BackwardByte ==
    /\ pc = "loop" /\ shape = "backward"
    /\ y' = Dec(y)
    /\ CopyByte(Dec(y))
    /\ pc' = IF y' = 0 THEN "page" ELSE "loop"

\* (Mutant of NextPage: no DEX, and the branch goes back to the INC.)
NextPageStuck ==
    /\ pc = "page"
    /\ LET step == IF shape = "biased" THEN Page ELSE -Page IN
       /\ ld' = Wrap(ld + step)
       /\ st' = Wrap(st + step)
    /\ pc' = IF x = 0 THEN "end" ELSE "page"
    /\ UNCHANGED <<move, mem, x, y, k>>

\* INC (DEC) of both operands' high bytes; DEX; BNE.
NextPage ==
    /\ pc = "page"
    /\ LET step == IF shape = "biased" THEN Page ELSE -Page IN
       /\ ld' = Wrap(ld + step)
       /\ st' = Wrap(st + step)
    /\ x' = Dec(x)
    /\ pc' = IF x' = 0 THEN "end" ELSE "loop"
    /\ UNCHANGED <<move, mem, y, k>>

Next == SingleByte \/ BiasedByte \/ BackwardByte \/ NextPage

\* A processor that has been started runs on.
Spec == Init /\ [][Next]_vars /\ WF_vars(Next)
-----------------------------------------------------------------------------
(* Properties. *)

TypeOK ==
    /\ src \in Addr /\ dst \in Addr /\ len \in Addr
    /\ orig \in [Addr -> Value] /\ mem \in [Addr -> Value]
    /\ pc \in {"loop", "page", "end"}
    /\ shape \in {"none", "single", "biased", "backward"}
    /\ ld \in Addr /\ st \in Addr
    /\ x \in Reg /\ y \in Reg
    /\ k \in Nat

\* The bytes still to be copied have not been overwritten: the direction
\* render_move chose is safe at every byte, not just in the end.
Unread ==
    IF shape = "backward" THEN src .. (src + len - k - 1) ELSE (src + k) .. (src + len - 1)
SourceIntact == \A a \in Unread : mem[a] = orig[a]

\* The loop never stores outside the destination, and never stops short of it
\* or runs past it.
NoOvershoot ==
    /\ k <= len
    /\ pc = "end" => k = len
    /\ \A a \in Addr \ (dst .. (dst + len - 1)) : mem[a] = orig[a]

\* Seen from outside, where nothing looks before the loop has ended, it is one
\* move of all the bytes at once.
Abstract == INSTANCE Memmove WITH
    mem <- IF pc = "end" THEN mem ELSE orig, done <- (pc = "end" /\ len # 0)
ImplementsMemmove == Abstract!Spec

\* The loop ends.
Terminates == <>(pc = "end")
-----------------------------------------------------------------------------
(* For TLC: one memory, each cell of which has a content of its own.       *)

OwnValues == 0 .. (Space - 1)
OneMemory == {[a \in 0 .. (Space - 1) |-> a]}
=============================================================================
