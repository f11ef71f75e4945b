--------------------------- MODULE CopyLoopProofs ---------------------------
(***************************************************************************)
(* Proofs about CopyLoop, for every page size, every move and every memory *)
(* content: the generated loop stops exactly after len bytes and leaves    *)
(* what one move of all the bytes at once would leave.                     *)
(*                                                                         *)
(* The inductive invariant IInv ties the registers and the operands, which *)
(* is all the code has, to the number k of bytes copied: how many bytes    *)
(* are left (CountInv and the *Inv of each shape), where the operands      *)
(* point, and what the memory holds by then (MemInv).                      *)
(***************************************************************************)
EXTENDS CopyLoop, TLAPS

\* Passes left: DEX takes a register that holds 0 through all its values.
XLeft == IF x = 0 THEN Page ELSE x
YLeft == IF y = 0 THEN Page ELSE y

\* base,i reaches a: as it stands, or after the address has wrapped.
Reaches(base, i, a) == base + i = a \/ base + i = a + Space

MoveInv == Legal(src, dst, len) /\ shape = Shape(src, dst, len)

Copied ==
    IF shape = "backward" THEN (dst + len - k) .. (dst + len - 1) ELSE dst .. (dst + k - 1)
MemInv == mem = [a \in Addr |-> IF a \in Copied THEN orig[src + (a - dst)] ELSE orig[a]]

CountInv ==
    /\ k <= len
    /\ pc = "end" => k = len
    /\ pc = "loop" => k < len
    /\ shape = "none" => pc = "end"

SingleInv ==
    shape = "single" =>
        /\ pc # "page"
        /\ pc = "loop" => y = k /\ ld = src /\ st = dst

BiasedInv ==
    shape = "biased" =>
        /\ pc = "loop" =>
            /\ len - k = (Page - y) + (XLeft - 1) * Page
            /\ Reaches(ld, y, src + k) /\ Reaches(st, y, dst + k)
        /\ pc = "page" =>
            /\ y = 0 /\ len - k = (XLeft - 1) * Page
            /\ Reaches(ld, Page, src + k) /\ Reaches(st, Page, dst + k)

BackwardInv ==
    shape = "backward" =>
        /\ pc = "loop" =>
            /\ len - k = YLeft + (XLeft - 1) * Page
            /\ ld + YLeft = src + len - k /\ st + YLeft = dst + len - k
        /\ pc = "page" =>
            /\ y = 0 /\ len - k = (XLeft - 1) * Page
            /\ ld = src + len - k /\ st = dst + len - k

IInv ==
    TypeOK /\ MoveInv /\ MemInv /\ CountInv /\ SingleInv /\ BiasedInv /\ BackwardInv
-----------------------------------------------------------------------------
(* Arithmetic. *)

\* Rem and the quotient Pages rounds up are those of the division by Page.
LEMMA DivMod ==
    ASSUME NEW n \in Nat
    PROVE  /\ n \div Page \in Nat
           /\ Rem(n) \in 0 .. (Page - 1)
           /\ n = (n \div Page) * Page + Rem(n)
BY PageAssumption, SMT DEF Rem

\* One page more or less.
LEMMA OnePage ==
    ASSUME NEW n \in Nat \ {0}
    PROVE  /\ (n - 1) * Page \in Nat
           /\ n * Page = Page + (n - 1) * Page
           /\ n >= 2 => (n - 1) * Page >= Page
BY PageAssumption, SMT

\* The sizes of a page and of the address space.
LEMMA SpaceFacts == Space \in Nat /\ Space > Page /\ Page \in Nat /\ Page >= 2
BY PageAssumption, SpaceAssumption, SMT

\* The first pass copies Top bytes, every later one a page.
LEMMA Windows ==
    ASSUME NEW n \in 1 .. (Space - 1)
    PROVE  /\ Pages(n) \in 1 .. Page
           /\ Top(n) \in 1 .. Page /\ Top(n) <= n
           /\ Bias(n) = Page - Top(n)
           /\ n = Top(n) + (Pages(n) - 1) * Page
           /\ Pages(n) % Page = IF Pages(n) = Page THEN 0 ELSE Pages(n)
<1> DEFINE q == n \div Page
<1>0. n \in Nat
  BY SpaceFacts
<1>1. q \in Nat /\ Rem(n) \in 0 .. (Page - 1) /\ n = q * Page + Rem(n)
  BY <1>0, DivMod
<1>2. q < Page
  <2>1. SUFFICES ASSUME q >= Page PROVE FALSE
    BY <1>1, SpaceFacts
  <2>2. q * Page >= Page * Page
    BY <2>1, <1>1, SpaceFacts, SMT
  <2> QED
    BY <2>2, <1>1, SpaceFacts, SpaceAssumption
<1>3. Rem(n) = 0 => q >= 1
  BY <1>1, SpaceFacts
<1>4. Pages(n) \in 1 .. Page
  BY <1>1, <1>2, <1>3, SpaceFacts DEF Pages
<1>5. Top(n) \in 1 .. Page /\ Bias(n) = Page - Top(n)
  BY <1>1, SpaceFacts DEF Top, Bias
<1>6. n = Top(n) + (Pages(n) - 1) * Page
  <2>1. CASE Rem(n) = 0
    <3>1. Pages(n) = q /\ Top(n) = Page
      BY <2>1, <1>1 DEF Pages, Top
    <3>2. q * Page = Page + (q - 1) * Page
      BY <1>1, <1>3, <2>1, OnePage
    <3> QED
      BY <3>1, <3>2, <1>1, <2>1, SpaceFacts
  <2>2. CASE Rem(n) # 0
    <3>1. Pages(n) - 1 = q /\ Top(n) = Rem(n)
      BY <2>2, <1>1 DEF Pages, Top
    <3> QED
      BY <3>1, <1>1, SpaceFacts
  <2> QED
    BY <2>1, <2>2
<1>7. (Pages(n) - 1) * Page \in Nat
  BY <1>4, SpaceFacts, OnePage
<1>8. Pages(n) % Page = IF Pages(n) = Page THEN 0 ELSE Pages(n)
  BY <1>4, SpaceFacts, SMT
<1> QED
  BY <1>4, <1>5, <1>6, <1>7, <1>8, SpaceFacts
-----------------------------------------------------------------------------
(* The invariant. *)

\* The loop starts with nothing copied and its operands on the first window.
LEMMA InitIInv == Init => IInv
<1> SUFFICES ASSUME Init PROVE IInv
  OBVIOUS
<1> USE DEF Init
<1>1. /\ src \in Nat /\ dst \in Nat /\ len \in Nat /\ len < Space
      /\ src + len <= Space /\ dst + len <= Space /\ k = 0
      /\ src < Space /\ dst < Space
  BY SpaceFacts DEF Addr, Legal
<1>2. MoveInv
  BY DEF MoveInv
<1>3. mem \in [Addr -> Value] /\ orig \in [Addr -> Value] /\ orig = mem
  BY MemoriesAssumption DEF Addr
<1>4. MemInv
  <2>1. \A a \in Addr : a \notin Copied
    BY <1>1 DEF Copied, Addr
  <2> QED
    BY <2>1, <1>3 DEF MemInv
<1>5. CASE len = 0
  <2>1. shape = "none" /\ pc = "end" /\ x = 0 /\ y = 0 /\ ld = src /\ st = dst
    BY <1>5, <1>1, SpaceFacts DEF Shape, Shift, Wrap
  <2>2. TypeOK
    BY <2>1, <1>1, <1>3, SpaceFacts DEF TypeOK, Addr, Reg
  <2> QED
    BY <2>1, <2>2, <1>1, <1>2, <1>4, <1>5
    DEF IInv, CountInv, SingleInv, BiasedInv, BackwardInv
<1>6. CASE len # 0
  <2>1. /\ Pages(len) \in 1 .. Page
        /\ Top(len) \in 1 .. Page /\ Top(len) <= len
        /\ Bias(len) = Page - Top(len)
        /\ len = Top(len) + (Pages(len) - 1) * Page
        /\ Pages(len) % Page = IF Pages(len) = Page THEN 0 ELSE Pages(len)
    BY <1>1, <1>6, SpaceFacts, Windows
  <2>2. Rem(len) = (IF Top(len) = Page THEN 0 ELSE Top(len)) /\ Rem(len) \in 0 .. (Page - 1)
    BY <1>1, DivMod, SpaceFacts DEF Top
  <2>3. pc = "loop" /\ shape \in {"single", "biased", "backward"}
    BY <1>6 DEF Shape
  <2>4. CASE shape = "single"
    <3>1. x = 0 /\ y = 0 /\ ld = src /\ st = dst
      BY <2>4, <1>1, SpaceFacts DEF Shift, Wrap
    <3>2. TypeOK
      BY <2>3, <3>1, <1>1, <1>3, SpaceFacts DEF TypeOK, Addr, Reg
    <3> QED
      BY <2>3, <2>4, <3>1, <3>2, <1>1, <1>2, <1>4, <1>6
      DEF IInv, CountInv, SingleInv, BiasedInv, BackwardInv
  <2>5. CASE shape = "biased"
    <3>1. x = Pages(len) % Page /\ XLeft = Pages(len) /\ x \in Reg
      BY <2>1, <2>5, SpaceFacts DEF XLeft, Reg
    <3>2. y = Bias(len) /\ y \in Reg
      BY <2>1, <2>5, SpaceFacts DEF Reg
    <3>3. ld \in Addr /\ Reaches(ld, y, src)
      BY <2>1, <2>5, <3>2, <1>1, SpaceFacts DEF Shift, Wrap, Reaches, Addr
    <3>4. st \in Addr /\ Reaches(st, y, dst)
      BY <2>1, <2>5, <3>2, <1>1, SpaceFacts DEF Shift, Wrap, Reaches, Addr
    <3>5. TypeOK
      BY <2>3, <3>1, <3>2, <3>3, <3>4, <1>1, <1>3 DEF TypeOK, Addr
    <3>6. len - k = (Page - y) + (XLeft - 1) * Page
      BY <2>1, <3>1, <3>2, <1>1, SpaceFacts, OnePage
    <3>7. BiasedInv
      BY <2>3, <3>3, <3>4, <3>6, <1>1 DEF BiasedInv
    <3> QED
      BY <2>3, <2>5, <3>5, <3>7, <1>1, <1>2, <1>4, <1>6
      DEF IInv, CountInv, SingleInv, BackwardInv
  <2>6. CASE shape = "backward"
    <3>1. x = Pages(len) % Page /\ XLeft = Pages(len) /\ x \in Reg
      BY <2>1, <2>6, SpaceFacts DEF XLeft, Reg
    <3>2. y = Rem(len) /\ y \in Reg /\ YLeft = Top(len)
      BY <2>1, <2>2, <2>6, SpaceFacts DEF Reg, YLeft
    <3>3. ld = src + len - Top(len) /\ ld \in Addr
      BY <2>1, <2>6, <1>1, SpaceFacts DEF Shift, Wrap, Addr
    <3>4. st = dst + len - Top(len) /\ st \in Addr
      BY <2>1, <2>6, <1>1, SpaceFacts DEF Shift, Wrap, Addr
    <3>5. TypeOK
      BY <2>3, <3>1, <3>2, <3>3, <3>4, <1>1, <1>3 DEF TypeOK, Addr
    <3>6. len - k = YLeft + (XLeft - 1) * Page
      BY <2>1, <3>1, <3>2, <1>1, SpaceFacts, OnePage
    <3>7. BackwardInv
      BY <2>1, <2>3, <3>2, <3>3, <3>4, <3>6, <1>1, SpaceFacts DEF BackwardInv
    <3> QED
      BY <2>3, <2>6, <3>5, <3>7, <1>1, <1>2, <1>4, <1>6
      DEF IInv, CountInv, SingleInv, BiasedInv
  <2> QED
    BY <2>3, <2>4, <2>5, <2>6
<1> QED
  BY <1>5, <1>6

\* What every action leaves alone, and the numbers it works with.
LEMMA MoveFacts ==
    ASSUME IInv
    PROVE  /\ src \in Nat /\ dst \in Nat /\ len \in Nat /\ k \in Nat /\ k <= len
           /\ src + len <= Space /\ dst + len <= Space
           /\ pc # "end" => shape \in {"single", "biased", "backward"} /\ len >= 1
           /\ shape = "backward" => dst > src /\ dst < src + len
           /\ shape \in {"single", "biased"} => dst <= src \/ dst >= src + len
           /\ shape = "single" => len <= Page
BY SpaceFacts DEF IInv, TypeOK, MoveInv, CountInv, Legal, Shape, Descending, Addr

\* An ascending loop reads the next source byte before anything was stored
\* there, and stores it at the end of what is copied.
LEMMA AscendingByte ==
    ASSUME IInv, pc = "loop", shape \in {"single", "biased"},
           NEW i \in Reg, CopyByte(i),
           Wrap(ld + i) = src + k, Wrap(st + i) = dst + k
    PROVE  mem' \in [Addr -> Value] /\ MemInv'
<1>1. /\ src \in Nat /\ dst \in Nat /\ len \in Nat /\ k \in Nat /\ k < len
      /\ src + len <= Space /\ dst + len <= Space
      /\ dst <= src \/ dst >= src + len
      /\ Space \in Nat /\ shape # "backward"
  BY MoveFacts, SpaceFacts DEF IInv, CountInv
<1>2. mem \in [Addr -> Value] /\ orig \in [Addr -> Value]
  BY DEF IInv, TypeOK
<1>3. src + k \in Addr /\ dst + k \in Addr
  BY <1>1 DEF Addr
<1>4. mem' = [mem EXCEPT ![dst + k] = mem[src + k]]
  BY DEF CopyByte
<1>5. mem' \in [Addr -> Value]
  BY <1>2, <1>3, <1>4
<1>6. /\ k' = k + 1 /\ src' = src /\ dst' = dst /\ len' = len
      /\ orig' = orig /\ shape' = shape
  BY DEF CopyByte, move
<1>7. \A a \in Addr : mem[a] = IF a \in dst .. (dst + k - 1) THEN orig[src + (a - dst)] ELSE orig[a]
  BY <1>1 DEF IInv, MemInv, Copied
<1>8. mem[src + k] = orig[src + k]
  <2>1. src + k \notin dst .. (dst + k - 1)
    BY <1>1
  <2> QED
    BY <2>1, <1>3, <1>7
<1>9. ASSUME NEW a \in Addr
      PROVE  mem'[a] = IF a \in dst .. (dst + k) THEN orig[src + (a - dst)] ELSE orig[a]
  <2>1. CASE a = dst + k
    <3>1. mem'[a] = orig[src + k] /\ a \in dst .. (dst + k) /\ a - dst = k
      BY <2>1, <1>1, <1>2, <1>3, <1>4, <1>8
    <3> QED
      BY <3>1
  <2>2. CASE a # dst + k
    <3>1. mem'[a] = mem[a]
      BY <2>2, <1>2, <1>4
    <3>2. a \in dst .. (dst + k) <=> a \in dst .. (dst + k - 1)
      BY <2>2, <1>1 DEF Addr
    <3> QED
      BY <3>1, <3>2, <1>7
  <2> QED
    BY <2>1, <2>2
<1>10. Copied' = dst .. (dst + k)
  BY <1>1, <1>6 DEF Copied
<1>11. mem' = [a \in Addr |-> mem'[a]]
  BY <1>5
<1>12. mem' = [a \in Addr |-> IF a \in dst .. (dst + k) THEN orig[src + (a - dst)] ELSE orig[a]]
  BY <1>9, <1>11
<1> QED
  BY <1>5, <1>6, <1>10, <1>12 DEF MemInv

\* A descending loop does so from the top.
LEMMA DescendingByte ==
    ASSUME IInv, pc = "loop", shape = "backward",
           NEW i \in Reg, CopyByte(i),
           Wrap(ld + i) = src + (len - k - 1), Wrap(st + i) = dst + (len - k - 1)
    PROVE  mem' \in [Addr -> Value] /\ MemInv'
<1> DEFINE j == len - k - 1
<1>1. /\ src \in Nat /\ dst \in Nat /\ len \in Nat /\ k \in Nat /\ k < len
      /\ src + len <= Space /\ dst + len <= Space
      /\ dst > src /\ Space \in Nat /\ j \in Nat
  BY MoveFacts, SpaceFacts DEF IInv, CountInv
<1>2. mem \in [Addr -> Value] /\ orig \in [Addr -> Value]
  BY DEF IInv, TypeOK
<1>3. src + j \in Addr /\ dst + j \in Addr
  BY <1>1 DEF Addr
<1>4. mem' = [mem EXCEPT ![dst + j] = mem[src + j]]
  BY DEF CopyByte
<1>5. mem' \in [Addr -> Value]
  BY <1>2, <1>3, <1>4
<1>6. /\ k' = k + 1 /\ src' = src /\ dst' = dst /\ len' = len
      /\ orig' = orig /\ shape' = shape
  BY DEF CopyByte, move
<1>7. \A a \in Addr : mem[a] = IF a \in (dst + j + 1) .. (dst + len - 1)
                              THEN orig[src + (a - dst)] ELSE orig[a]
  <2>1. Copied = (dst + j + 1) .. (dst + len - 1)
    BY <1>1 DEF Copied
  <2> QED
    BY <2>1 DEF IInv, MemInv
<1>8. mem[src + j] = orig[src + j]
  <2>1. src + j \notin (dst + j + 1) .. (dst + len - 1)
    BY <1>1
  <2> QED
    BY <2>1, <1>3, <1>7
<1>9. ASSUME NEW a \in Addr
      PROVE  mem'[a] = IF a \in (dst + j) .. (dst + len - 1)
                       THEN orig[src + (a - dst)] ELSE orig[a]
  <2>1. CASE a = dst + j
    <3>1. mem'[a] = orig[src + j] /\ a \in (dst + j) .. (dst + len - 1) /\ a - dst = j
      BY <2>1, <1>1, <1>2, <1>3, <1>4, <1>8
    <3> QED
      BY <3>1
  <2>2. CASE a # dst + j
    <3>1. mem'[a] = mem[a]
      BY <2>2, <1>2, <1>4
    <3>2. a \in (dst + j) .. (dst + len - 1) <=> a \in (dst + j + 1) .. (dst + len - 1)
      BY <2>2, <1>1 DEF Addr
    <3> QED
      BY <3>1, <3>2, <1>7
  <2> QED
    BY <2>1, <2>2
<1>10. Copied' = (dst + j) .. (dst + len - 1)
  BY <1>1, <1>6 DEF Copied
<1>11. mem' = [a \in Addr |-> mem'[a]]
  BY <1>5
<1>12. mem' = [a \in Addr |-> IF a \in (dst + j) .. (dst + len - 1)
                             THEN orig[src + (a - dst)] ELSE orig[a]]
  BY <1>9, <1>11
<1> QED
  BY <1>5, <1>6, <1>10, <1>12 DEF MemInv
\* The single-page loop: Y is the number of bytes copied, and CPY #<len finds
\* it equal to len only when it is (256 reads as 0, and INY has wrapped).
LEMMA SingleIInv == ASSUME IInv, SingleByte PROVE IInv'
<1>1. /\ src \in Nat /\ dst \in Nat /\ len \in Nat /\ k \in Nat /\ k < len
      /\ src + len <= Space /\ dst + len <= Space /\ len <= Page
      /\ pc = "loop" /\ shape = "single" /\ y = k /\ ld = src /\ st = dst
      /\ y \in Reg
  BY MoveFacts DEF SingleByte, IInv, TypeOK, CountInv, SingleInv
<1>2. Wrap(ld + y) = src + k /\ Wrap(st + y) = dst + k
  BY <1>1, SpaceFacts DEF Wrap
<1>3. mem' \in [Addr -> Value] /\ MemInv'
  BY <1>1, <1>2, AscendingByte DEF SingleByte
<1>4. /\ src' = src /\ dst' = dst /\ len' = len /\ orig' = orig /\ shape' = shape
      /\ ld' = ld /\ st' = st /\ x' = x /\ k' = k + 1
      /\ y' = Inc(y) /\ pc' = IF y' = Rem(len) THEN "end" ELSE "loop"
  BY DEF SingleByte, CopyByte, move
<1>5. y' = IF k = Page - 1 THEN 0 ELSE k + 1
  BY <1>1, <1>4 DEF Inc
<1>6. TypeOK'
  BY <1>1, <1>3, <1>4, <1>5, SpaceFacts DEF IInv, TypeOK, Reg
<1>7. MoveInv'
  BY <1>4 DEF IInv, MoveInv, Legal, Shape, Descending
<1>8. Rem(len) = IF len = Page THEN 0 ELSE len
  BY <1>1, SpaceFacts, SMT DEF Rem
<1>9. y' = Rem(len) <=> k + 1 = len
  BY <1>1, <1>5, <1>8, SpaceFacts
<1>10. CountInv' /\ SingleInv'
  BY <1>1, <1>4, <1>5, <1>8, <1>9, SpaceFacts DEF CountInv, SingleInv
<1> QED
  BY <1>1, <1>3, <1>4, <1>6, <1>7, <1>10 DEF IInv, BiasedInv, BackwardInv

\* The biased loop, within a window.
LEMMA BiasedIInv == ASSUME IInv, BiasedByte PROVE IInv'
<1>1. /\ src \in Nat /\ dst \in Nat /\ len \in Nat /\ k \in Nat /\ k < len
      /\ src + len <= Space /\ dst + len <= Space
      /\ pc = "loop" /\ shape = "biased"
      /\ y \in 0 .. (Page - 1) /\ x \in 0 .. (Page - 1)
      /\ ld \in 0 .. (Space - 1) /\ st \in 0 .. (Space - 1)
      /\ len - k = (Page - y) + (XLeft - 1) * Page
      /\ Reaches(ld, y, src + k) /\ Reaches(st, y, dst + k)
  BY MoveFacts DEF BiasedByte, IInv, TypeOK, CountInv, BiasedInv, Reg, Addr
<1>2. Wrap(ld + y) = src + k /\ Wrap(st + y) = dst + k
  BY <1>1, SpaceFacts DEF Wrap, Reaches
<1>3. mem' \in [Addr -> Value] /\ MemInv'
  BY <1>1, <1>2, AscendingByte DEF BiasedByte, Reg
<1>4. /\ src' = src /\ dst' = dst /\ len' = len /\ orig' = orig /\ shape' = shape
      /\ ld' = ld /\ st' = st /\ x' = x /\ k' = k + 1
      /\ y' = Inc(y) /\ pc' = IF y' = 0 THEN "page" ELSE "loop"
  BY DEF BiasedByte, CopyByte, move
<1>5. y' = IF y = Page - 1 THEN 0 ELSE y + 1
  BY <1>4 DEF Inc
<1>6. XLeft' = XLeft /\ XLeft \in Nat \ {0}
  BY <1>1, <1>4, SpaceFacts DEF XLeft
<1>7. (XLeft - 1) * Page \in Nat
  BY <1>6, OnePage
<1>8. TypeOK'
  BY <1>1, <1>3, <1>4, <1>5, SpaceFacts DEF IInv, TypeOK, Reg
<1>9. MoveInv'
  BY <1>4 DEF IInv, MoveInv, Legal, Shape, Descending
<1>10. BiasedInv'
  <2> DEFINE n == (XLeft - 1) * Page
  <2>1. n' = n /\ n \in Nat /\ len - k = (Page - y) + n
    BY <1>1, <1>6, <1>7
  <2> HIDE DEF n
  <2>2. CASE y = Page - 1
    <3>1. y' = 0 /\ pc' = "page" /\ len' - k' = n'
      BY <2>1, <2>2, <1>1, <1>4, <1>5, SpaceFacts
    <3>2. Reaches(ld', Page, src' + k') /\ Reaches(st', Page, dst' + k')
      BY <2>2, <1>1, <1>4, SpaceFacts DEF Reaches
    <3> QED
      BY <3>1, <3>2 DEF BiasedInv, n
  <2>3. CASE y # Page - 1
    <3>1. pc' = "loop" /\ len' - k' = (Page - y') + n'
      BY <2>1, <2>3, <1>1, <1>4, <1>5, SpaceFacts
    <3>2. Reaches(ld', y', src' + k') /\ Reaches(st', y', dst' + k')
      BY <2>3, <1>1, <1>4, <1>5, SpaceFacts DEF Reaches
    <3> QED
      BY <3>1, <3>2 DEF BiasedInv, n
  <2> QED
    BY <2>2, <2>3
<1>11. CountInv'
  BY <1>1, <1>4, <1>5, <1>7, SpaceFacts DEF CountInv
<1> QED
  BY <1>1, <1>3, <1>4, <1>8, <1>9, <1>10, <1>11 DEF IInv, SingleInv, BackwardInv

\* The descending loop, within a window.
LEMMA BackwardIInv == ASSUME IInv, BackwardByte PROVE IInv'
<1>1. /\ src \in Nat /\ dst \in Nat /\ len \in Nat /\ k \in Nat /\ k < len
      /\ src + len <= Space /\ dst + len <= Space
      /\ pc = "loop" /\ shape = "backward"
      /\ y \in 0 .. (Page - 1) /\ x \in 0 .. (Page - 1)
      /\ ld \in 0 .. (Space - 1) /\ st \in 0 .. (Space - 1)
      /\ len - k = YLeft + (XLeft - 1) * Page
      /\ ld + YLeft = src + len - k /\ st + YLeft = dst + len - k
  BY MoveFacts DEF BackwardByte, IInv, TypeOK, CountInv, BackwardInv, Reg, Addr
<1>2. Dec(y) = YLeft - 1 /\ Dec(y) \in 0 .. (Page - 1) /\ YLeft \in 1 .. Page
  BY <1>1, SpaceFacts DEF Dec, YLeft
<1>3. Wrap(ld + Dec(y)) = src + (len - k - 1) /\ Wrap(st + Dec(y)) = dst + (len - k - 1)
  BY <1>1, <1>2, SpaceFacts DEF Wrap
<1>4. mem' \in [Addr -> Value] /\ MemInv'
  BY <1>1, <1>2, <1>3, DescendingByte DEF BackwardByte, Reg
<1>5. /\ src' = src /\ dst' = dst /\ len' = len /\ orig' = orig /\ shape' = shape
      /\ ld' = ld /\ st' = st /\ x' = x /\ k' = k + 1
      /\ y' = Dec(y) /\ pc' = IF y' = 0 THEN "page" ELSE "loop"
  BY DEF BackwardByte, CopyByte, move
<1>6. XLeft' = XLeft /\ XLeft \in Nat \ {0}
  BY <1>1, <1>5, SpaceFacts DEF XLeft
<1>7. (XLeft - 1) * Page \in Nat
  BY <1>6, OnePage
<1>8. TypeOK'
  BY <1>1, <1>2, <1>4, <1>5, SpaceFacts DEF IInv, TypeOK, Reg
<1>9. MoveInv'
  BY <1>5 DEF IInv, MoveInv, Legal, Shape, Descending
<1>10. BackwardInv'
  <2> DEFINE n == (XLeft - 1) * Page
  <2>1. n' = n /\ n \in Nat /\ len - k = YLeft + n
    BY <1>1, <1>6, <1>7
  <2> HIDE DEF n
  <2>2. CASE y' = 0
    <3>1. YLeft = 1 /\ pc' = "page" /\ len' - k' = n'
      BY <2>1, <2>2, <1>1, <1>2, <1>5, SpaceFacts
    <3>2. ld' = src' + len' - k' /\ st' = dst' + len' - k'
      BY <3>1, <1>1, <1>5
    <3> QED
      BY <2>2, <3>1, <3>2 DEF BackwardInv, n
  <2>3. CASE y' # 0
    <3>1. YLeft' = YLeft - 1 /\ pc' = "loop"
      BY <2>3, <1>2, <1>5 DEF YLeft
    <3>2. len' - k' = YLeft' + n' /\ ld' + YLeft' = src' + len' - k'
          /\ st' + YLeft' = dst' + len' - k'
      BY <2>1, <3>1, <1>1, <1>2, <1>5, SpaceFacts
    <3> QED
      BY <3>1, <3>2 DEF BackwardInv, n
  <2> QED
    BY <2>2, <2>3
<1>11. CountInv'
  BY <1>1, <1>2, <1>5, <1>7, SpaceFacts DEF CountInv
<1> QED
  BY <1>1, <1>4, <1>5, <1>8, <1>9, <1>10, <1>11 DEF IInv, SingleInv, BiasedInv
\* The next window, or the end: the operands move by a page exactly when X says
\* there is a page left.
LEMMA PageIInv == ASSUME IInv, NextPage PROVE IInv'
<1>1. /\ src \in Nat /\ dst \in Nat /\ len \in Nat /\ k \in Nat /\ k <= len
      /\ src + len <= Space /\ dst + len <= Space
      /\ pc = "page" /\ shape \in {"biased", "backward"}
      /\ y = 0 /\ x \in 0 .. (Page - 1)
      /\ ld \in 0 .. (Space - 1) /\ st \in 0 .. (Space - 1)
      /\ len - k = (XLeft - 1) * Page
  BY MoveFacts DEF NextPage, IInv, TypeOK, CountInv, SingleInv, BiasedInv, BackwardInv, Reg, Addr
<1>2. /\ src' = src /\ dst' = dst /\ len' = len /\ orig' = orig /\ shape' = shape
      /\ mem' = mem /\ y' = y /\ k' = k
      /\ x' = Dec(x) /\ pc' = IF x' = 0 THEN "end" ELSE "loop"
  BY DEF NextPage, move
<1>3. /\ x' \in 0 .. (Page - 1)
      /\ XLeft \in Nat \ {0}
      /\ x' = 0 => XLeft = 1
      /\ x' # 0 => XLeft' = XLeft - 1 /\ XLeft - 1 \in Nat \ {0}
  BY <1>1, <1>2, SpaceFacts DEF Dec, XLeft
<1>4. CASE x' = 0
  <2>1. k = len /\ pc' = "end"
    BY <1>1, <1>2, <1>3, <1>4, SpaceFacts
  <2>2. ld' \in Addr /\ st' \in Addr
    BY <1>1, SpaceFacts DEF NextPage, Wrap, Addr
  <2>3. TypeOK'
    BY <1>1, <1>2, <1>3, <2>1, <2>2, SpaceFacts DEF IInv, TypeOK, Reg
  <2>4. MoveInv' /\ MemInv'
    BY <1>2 DEF IInv, MoveInv, Legal, Shape, Descending, MemInv, Copied
  <2> QED
    BY <1>1, <1>2, <2>1, <2>3, <2>4
    DEF IInv, CountInv, SingleInv, BiasedInv, BackwardInv
<1>5. CASE x' # 0
  <2>1. /\ len - k = Page + (XLeft' - 1) * Page
        /\ (XLeft' - 1) * Page \in Nat
    BY <1>1, <1>3, <1>5, OnePage
  <2> DEFINE n == (XLeft' - 1) * Page
  <2>2. n \in Nat /\ len - k = Page + n
    BY <2>1
  <2> HIDE DEF n
  <2>3. k < len /\ pc' = "loop"
    BY <2>2, <1>1, <1>2, <1>5, SpaceFacts
  <2>4. MoveInv' /\ MemInv'
    BY <1>2 DEF IInv, MoveInv, Legal, Shape, Descending, MemInv, Copied
  <2>5. CASE shape = "biased"
    <3>1. Reaches(ld, Page, src + k) /\ Reaches(st, Page, dst + k)
      BY <2>5, <1>1 DEF IInv, BiasedInv
    <3>2. ld' = Wrap(ld + Page) /\ st' = Wrap(st + Page)
      BY <2>5 DEF NextPage
    <3>3. ld' = src + k /\ ld' \in Addr
      BY <3>1, <3>2, <2>3, <1>1, SpaceFacts DEF Wrap, Reaches, Addr
    <3>4. st' = dst + k /\ st' \in Addr
      BY <3>1, <3>2, <2>3, <1>1, SpaceFacts DEF Wrap, Reaches, Addr
    <3>5. TypeOK'
      BY <1>1, <1>2, <1>3, <2>3, <3>3, <3>4, SpaceFacts DEF IInv, TypeOK, Reg
    <3>6. len' - k' = (Page - y') + n
      BY <2>2, <1>1, <1>2, SpaceFacts
    <3>7. BiasedInv'
      BY <1>1, <1>2, <2>3, <3>3, <3>4, <3>6, SpaceFacts DEF BiasedInv, Reaches, n
    <3> QED
      BY <2>5, <1>1, <1>2, <2>3, <2>4, <3>5, <3>7 DEF IInv, CountInv, SingleInv, BackwardInv
  <2>6. CASE shape = "backward"
    <3>1. ld = src + len - k /\ st = dst + len - k
      BY <2>6, <1>1 DEF IInv, BackwardInv
    <3>2. ld' = Wrap(ld - Page) /\ st' = Wrap(st - Page)
      BY <2>6, <1>1, SpaceFacts DEF NextPage
    <3>3. ld' = src + len - k - Page /\ ld' \in Addr
      BY <3>1, <3>2, <2>2, <1>1, SpaceFacts DEF Wrap, Addr
    <3>4. st' = dst + len - k - Page /\ st' \in Addr
      BY <3>1, <3>2, <2>2, <1>1, SpaceFacts DEF Wrap, Addr
    <3>5. TypeOK'
      BY <1>1, <1>2, <1>3, <2>3, <3>3, <3>4, SpaceFacts DEF IInv, TypeOK, Reg
    <3>6. YLeft' = Page
      BY <1>1, <1>2, SpaceFacts DEF YLeft
    <3>7. len' - k' = YLeft' + n
      BY <2>2, <3>6, <1>2
    <3>8. BackwardInv'
      BY <1>1, <1>2, <2>3, <3>3, <3>4, <3>6, <3>7, SpaceFacts DEF BackwardInv, n
    <3> QED
      BY <2>6, <1>1, <1>2, <2>3, <2>4, <3>5, <3>8 DEF IInv, CountInv, SingleInv, BiasedInv
  <2> QED
    BY <2>5, <2>6, <1>1
<1> QED
  BY <1>4, <1>5

\* IInv holds of every reachable state.
LEMMA SpecIInv == Spec => []IInv
<1>1. IInv /\ [Next]_vars => IInv'
  <2> SUFFICES ASSUME IInv, [Next]_vars PROVE IInv'
    OBVIOUS
  <2>1. CASE SingleByte
    BY <2>1, SingleIInv
  <2>2. CASE BiasedByte
    BY <2>2, BiasedIInv
  <2>3. CASE BackwardByte
    BY <2>3, BackwardIInv
  <2>4. CASE NextPage
    BY <2>4, PageIInv
  <2>5. CASE UNCHANGED vars
    BY <2>5 DEF vars, move, IInv, TypeOK, MoveInv, Legal, Shape, Descending, MemInv, Copied,
                CountInv, SingleInv, BiasedInv, BackwardInv, XLeft, YLeft, Reaches
  <2> QED
    BY <2>1, <2>2, <2>3, <2>4, <2>5 DEF Next
<1> QED
  BY InitIInv, <1>1, PTL DEF Spec
-----------------------------------------------------------------------------
(* The theorems. *)

\* Registers stay bytes and operands stay addresses.
THEOREM TypeCorrect == Spec => []TypeOK
BY SpecIInv, PTL DEF IInv

\* Whatever the move and its overlap, the direction render_move chooses never
\* lets the loop overwrite a source byte it has still to read.
THEOREM SourceIntactHolds == Spec => []SourceIntact
<1>1. IInv => SourceIntact
  <2> SUFFICES ASSUME IInv, NEW a \in Unread PROVE mem[a] = orig[a]
    BY DEF SourceIntact
  <2>1. /\ src \in Nat /\ dst \in Nat /\ len \in Nat /\ k \in Nat /\ k <= len
        /\ src + len <= Space /\ dst + len <= Space
        /\ shape = "backward" => dst > src
        /\ shape # "backward" => dst <= src \/ dst >= src + len
        /\ shape \in {"none", "single", "biased", "backward"}
    BY MoveFacts, SpaceFacts
    DEF IInv, TypeOK, MoveInv, CountInv, Legal, Shape, Descending, Addr
  <2>2. a \in Addr /\ a \notin Copied
    BY <2>1, SpaceFacts DEF Unread, Copied, Addr
  <2> QED
    BY <2>2 DEF IInv, MemInv
<1> QED
  BY SpecIInv, <1>1, PTL

\* The loop ends after exactly len bytes and writes nowhere else.
THEOREM NoOvershootHolds == Spec => []NoOvershoot
<1>1. IInv => NoOvershoot
  <2> SUFFICES ASSUME IInv PROVE NoOvershoot
    OBVIOUS
  <2>1. /\ src \in Nat /\ dst \in Nat /\ len \in Nat /\ k \in Nat /\ k <= len
        /\ pc = "end" => k = len
    BY MoveFacts DEF IInv, CountInv
  <2>2. ASSUME NEW a \in Addr \ (dst .. (dst + len - 1)) PROVE mem[a] = orig[a]
    <3>1. a \notin Copied
      BY <2>1, SpaceFacts DEF Copied, Addr
    <3> QED
      BY <3>1 DEF IInv, MemInv
  <2> QED
    BY <2>1, <2>2 DEF NoOvershoot
<1> QED
  BY SpecIInv, <1>1, PTL
\* A step that leaves all bytes copied leaves what one move makes of the
\* original memory.
LEMMA AllMoved ==
    ASSUME IInv', pc' = "end"
    PROVE  mem' = Abstract!Moved(orig', src', dst', len')
<1>1. /\ src' \in Nat /\ dst' \in Nat /\ len' \in Nat /\ k' = len'
      /\ orig' \in [Addr -> Value]
  BY SpaceFacts DEF IInv, CountInv, TypeOK, Addr
<1>2. Copied' = dst' .. (dst' + len' - 1)
  BY <1>1 DEF Copied
<1>3. mem' = [a \in Addr |-> IF a \in dst' .. (dst' + len' - 1)
                            THEN orig'[src' + (a - dst')] ELSE orig'[a]]
  BY <1>2 DEF IInv, MemInv
<1>4. DOMAIN orig' = Addr
  BY <1>1
<1> QED
  BY <1>3, <1>4 DEF Abstract!Moved

\* The generated loop implements a move of all the bytes at once: overlapping
\* moves are safe.
THEOREM ImplementsMemmoveHolds == Spec => ImplementsMemmove
<1>1. Init => Abstract!Init
  <2> SUFFICES ASSUME Init PROVE Abstract!Init
    OBVIOUS
  <2>1. ~(pc = "end" /\ len # 0)
    BY DEF Init, Shape
  <2>2. (IF pc = "end" THEN mem ELSE orig) \in Memories
    BY DEF Init
  <2> QED
    BY <2>1, <2>2 DEF Abstract!Init
<1>2. IInv /\ IInv' /\ [Next]_vars => [Abstract!Move]_(Abstract!vars)
  <2> SUFFICES ASSUME IInv, IInv', [Next]_vars PROVE [Abstract!Move]_(Abstract!vars)
    OBVIOUS
  <2>1. src' = src /\ dst' = dst /\ len' = len /\ orig' = orig
    BY DEF Next, SingleByte, BiasedByte, BackwardByte, NextPage, CopyByte, move, vars
  <2>2. CASE UNCHANGED vars
    BY <2>2 DEF vars, move, Abstract!vars
  <2>3. CASE Next
    <3>1. pc # "end" /\ len # 0
      <4>1. pc # "end"
        BY <2>3 DEF Next, SingleByte, BiasedByte, BackwardByte, NextPage
      <4> QED
        BY <4>1, MoveFacts
    <3>2. CASE pc' = "end"
      <4>1. mem' = Abstract!Moved(orig, src, dst, len)
        BY <3>2, <2>1, AllMoved
      <4>2. Abstract!Move
        BY <3>1, <3>2, <4>1, <2>1 DEF Abstract!Move
      <4> QED
        BY <4>2
    <3>3. CASE pc' # "end"
      BY <3>1, <3>3, <2>1 DEF Abstract!vars
    <3> QED
      BY <3>2, <3>3
  <2> QED
    BY <2>2, <2>3
<1> QED
  BY <1>1, <1>2, SpecIInv, PTL DEF ImplementsMemmove, Abstract!Spec, Spec
=============================================================================
