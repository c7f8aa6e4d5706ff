------------------------- MODULE ZeroizeEngineProofs -------------------------
(***************************************************************************)
(* Proofs about the zeroize traversal, for every layout that is sound      *)
(* (ZeroizeEngine!LayoutSound): every call stays inside the value, and     *)
(* every match reads its discriminant before anything zeroes it.           *)
(*                                                                         *)
(* The argument is about the stack of pending calls.  A call never writes  *)
(* a cell that a call below it on the stack still reads (OrderedSeq), and  *)
(* every cell a pending call reads is still as the ESAPI returned it       *)
(* (PristineSeq).  A walk or a decode replaces itself by calls inside its  *)
(* own value whose order the layout makes safe; a wipe only writes cells   *)
(* no call below it reads.                                                 *)
(***************************************************************************)
EXTENDS ZeroizeEngine, SequenceTheorems, TLAPS

\* The calls of w stay inside the cells D.
BoundedSeq(w, D) == \A i \in 1..Len(w) : CellsOf(w[i]) \subseteq D

\* No call of w writes a cell that a later call of w reads.
OrderedSeq(w) == \A i, j \in 1..Len(w) : i < j => CellsOf(w[i]) \cap Needs(w[j]) = {}

\* Every cell a call of w reads holds in m what it held in m0.
PristineSeq(w, m, m0) == \A i \in 1..Len(w) : \A c \in Needs(w[i]) : m[c] = m0[c]

\* The inductive invariant.
EInv ==
    /\ work \in Seq(Tasks)
    /\ \A c \in DOMAIN mem : mem[c] \in Vals
    /\ BoundedSeq(work, DOMAIN mem)
    /\ OrderedSeq(work)
    /\ PristineSeq(work, mem, mem0)

-----------------------------------------------------------------------------

LEMMA NeedsInCells == \A x : Needs(x) \subseteq CellsOf(x)
BY DEF Needs

\* What the three invariants of the stack become when its first call is
\* replaced by calls nested in it, as a walk and a decode do.
LEMMA PushNested ==
    ASSUME NEW w \in Seq(Tasks), w # << >>, NEW s, Nested(s, Head(w)),
           Head(w).op # "wipe", NEW D, NEW m, NEW m0,
           BoundedSeq(w, D), OrderedSeq(w), PristineSeq(w, m, m0)
    PROVE  /\ s \o Tail(w) \in Seq(Tasks)
           /\ BoundedSeq(s \o Tail(w), D)
           /\ OrderedSeq(s \o Tail(w))
           /\ PristineSeq(s \o Tail(w), m, m0)
<1> DEFINE t == Tail(w)  n == Len(s)  w2 == s \o t
<1>0. Head(w) = w[1] /\ 1 \in 1..Len(w)
  BY EmptySeq
<1>1. /\ s \in Seq(Tasks)
      /\ \A k \in 1..n : CellsOf(s[k]) \subseteq CellsOf(w[1])
      /\ \A k, l \in 1..n : k < l => CellsOf(s[k]) \cap Needs(s[l]) = {}
  BY <1>0 DEF Nested
<1>2. /\ t \in Seq(Tasks)
      /\ Len(t) = Len(w) - 1
      /\ \A i \in 1..Len(t) : t[i] = w[i + 1]
  BY HeadTailProperties
<1>3. /\ w2 \in Seq(Tasks)
      /\ Len(w2) = n + Len(t)
      /\ \A i \in 1..n + Len(t) : w2[i] = IF i <= n THEN s[i] ELSE t[i - n]
  BY <1>1, <1>2, ConcatProperties
\* The calls of s lie in the first call's value; the others are the rest of w.
<1>4. \A i \in 1..Len(w2) :
         \/ i <= n /\ w2[i] = s[i] /\ CellsOf(w2[i]) \subseteq CellsOf(w[1])
         \/ i > n /\ i - n + 1 \in 2..Len(w) /\ w2[i] = w[i - n + 1]
  <2> SUFFICES ASSUME NEW i \in 1..Len(w2) PROVE
         \/ i <= n /\ w2[i] = s[i] /\ CellsOf(w2[i]) \subseteq CellsOf(w[1])
         \/ i > n /\ i - n + 1 \in 2..Len(w) /\ w2[i] = w[i - n + 1]
    OBVIOUS
  <2>1. CASE i <= n
    <3>1. i \in 1..n /\ w2[i] = s[i]
      BY <2>1, <1>1, <1>3
    <3>. QED  BY <3>1, <1>1
  <2>2. CASE i > n
    <3>1. i - n \in 1..Len(t) /\ w2[i] = t[i - n]
      BY <2>2, <1>1, <1>3
    <3>. QED  BY <3>1, <2>2, <1>1, <1>2
  <2>. QED  BY <2>1, <2>2
<1>5. Needs(w[1]) = CellsOf(w[1])
  BY <1>0 DEF Needs
<1>6. BoundedSeq(w2, D)
  <2> SUFFICES ASSUME NEW i \in 1..Len(w2) PROVE CellsOf(w2[i]) \subseteq D
    BY DEF BoundedSeq
  <2>1. CellsOf(w[1]) \subseteq D
    BY <1>0 DEF BoundedSeq
  <2>2. CASE i <= n
    BY <2>1, <2>2, <1>4
  <2>3. CASE i > n
    <3>1. i - n + 1 \in 1..Len(w) /\ w2[i] = w[i - n + 1]
      BY <2>3, <1>4
    <3>. QED  BY <3>1 DEF BoundedSeq
  <2>. QED  BY <2>2, <2>3
<1>7. OrderedSeq(w2)
  <2> SUFFICES ASSUME NEW i \in 1..Len(w2), NEW j \in 1..Len(w2), i < j
               PROVE  CellsOf(w2[i]) \cap Needs(w2[j]) = {}
    BY DEF OrderedSeq
  <2>1. CASE j <= n
    <3>1. i \in 1..n /\ j \in 1..n /\ w2[i] = s[i] /\ w2[j] = s[j]
      BY <2>1, <1>4
    <3>. QED  BY <3>1, <1>1
  <2>2. CASE i <= n /\ j > n
    <3>1. j - n + 1 \in 1..Len(w) /\ 1 < j - n + 1 /\ w2[j] = w[j - n + 1]
      BY <2>2, <1>4
    <3>2. CellsOf(w[1]) \cap Needs(w[j - n + 1]) = {}
      BY <3>1, <1>0 DEF OrderedSeq
    <3>3. CellsOf(w2[i]) \subseteq CellsOf(w[1])
      BY <2>2, <1>4
    <3>. QED  BY <3>1, <3>2, <3>3
  <2>3. CASE i > n
    <3>1. /\ i - n + 1 \in 1..Len(w) /\ j - n + 1 \in 1..Len(w)
          /\ i - n + 1 < j - n + 1
          /\ w2[i] = w[i - n + 1] /\ w2[j] = w[j - n + 1]
      BY <2>3, <1>4
    <3>2. CellsOf(w[i - n + 1]) \cap Needs(w[j - n + 1]) = {}
      BY <3>1 DEF OrderedSeq
    <3>. QED  BY <3>1, <3>2
  <2>4. j <= n \/ (i <= n /\ j > n) \/ i > n
    BY <1>1
  <2>. QED  BY <2>1, <2>2, <2>3, <2>4
<1>8. PristineSeq(w2, m, m0)
  <2> SUFFICES ASSUME NEW i \in 1..Len(w2), NEW c \in Needs(w2[i])
               PROVE  m[c] = m0[c]
    BY DEF PristineSeq
  <2>1. CASE i <= n
    <3>1. c \in Needs(w[1])
      BY <2>1, <1>4, <1>5, NeedsInCells
    <3>. QED  BY <3>1, <1>5 DEF PristineSeq
  <2>2. CASE i > n
    BY <2>2, <1>4 DEF PristineSeq
  <2>. QED  BY <2>1, <2>2
<1>. QED  BY <1>3, <1>6, <1>7, <1>8

-----------------------------------------------------------------------------

LEMMA InitEInv == Init => EInv
<1> SUFFICES ASSUME Init PROVE EInv
  OBVIOUS
<1>1. PICK x \in Tasks : /\ x.op = "walk"
                         /\ mem \in [CellsOf(x) -> Vals]
                         /\ mem0 = mem
                         /\ work = <<x>>
  BY DEF Init
<1>. QED  BY <1>1 DEF EInv, BoundedSeq, OrderedSeq, PristineSeq

LEMMA WipeEInv == LayoutSound /\ EInv /\ Wipe => EInv'
<1> SUFFICES ASSUME LayoutSound, EInv, Wipe PROVE EInv'
  OBVIOUS
<1> DEFINE x == Head(work)  t == Tail(work)
<1>1. /\ t \in Seq(Tasks)
      /\ Len(t) = Len(work) - 1
      /\ \A i \in 1..Len(t) : t[i] = work[i + 1]
      /\ x = work[1] /\ 1 \in 1..Len(work)
  BY HeadTailProperties, EmptySeq DEF Wipe, EInv
<1>2. /\ work' = t
      /\ mem' = [c \in DOMAIN mem |-> IF c \in CellsOf(x) THEN Zero ELSE mem[c]]
      /\ mem0' = mem0
  BY DEF Wipe
<1>3. \A c \in DOMAIN mem' : mem'[c] \in Vals
  BY <1>2 DEF EInv, LayoutSound
\* A cell the rest of the stack reads is not one the wipe writes.
<1>4. \A i \in 1..Len(t) : \A c \in Needs(t[i]) : c \in DOMAIN mem /\ c \notin CellsOf(x)
  BY <1>1, NeedsInCells DEF EInv, BoundedSeq, OrderedSeq
<1>5. PristineSeq(t, mem', mem0')
  BY <1>1, <1>2, <1>4 DEF EInv, PristineSeq
<1>6. BoundedSeq(t, DOMAIN mem')
  BY <1>1, <1>2 DEF EInv, BoundedSeq
<1>7. OrderedSeq(t)
  BY <1>1 DEF EInv, OrderedSeq
<1>. QED  BY <1>1, <1>2, <1>3, <1>5, <1>6, <1>7 DEF EInv

LEMMA WalkEInv == LayoutSound /\ EInv /\ Walk => EInv'
<1> SUFFICES ASSUME LayoutSound, EInv, Walk PROVE EInv'
  OBVIOUS
<1>1. Head(work) \in Tasks /\ Head(work).op = "walk"
  BY HeadTailProperties DEF Walk, EInv
<1>2. Nested(BodyOf(Head(work)), Head(work))
  BY <1>1 DEF LayoutSound
<1>. QED  BY <1>1, <1>2, PushNested DEF Walk, EInv

LEMMA DecodeEInv == LayoutSound /\ EInv /\ Decode => EInv'
<1> SUFFICES ASSUME LayoutSound, EInv, Decode PROVE EInv'
  OBVIOUS
<1> DEFINE x == Head(work)
<1>1. x \in Tasks /\ x.op = "decode" /\ x = work[1] /\ 1 \in 1..Len(work)
  BY HeadTailProperties, EmptySeq DEF Decode, EInv
<1>2. mem[x.base] \in Vals
  BY <1>1 DEF LayoutSound, EInv, BoundedSeq
<1>3. Nested(DispatchOf(x, mem[x.base]), x)
  BY <1>1, <1>2 DEF LayoutSound
<1>. QED  BY <1>1, <1>3, PushNested DEF Decode, EInv

LEMMA NextEInv == LayoutSound /\ EInv /\ [Next]_evars => EInv'
<1> SUFFICES ASSUME LayoutSound, EInv, [Next]_evars PROVE EInv'
  OBVIOUS
<1>1. CASE Wipe    BY <1>1, WipeEInv
<1>2. CASE Walk    BY <1>2, WalkEInv
<1>3. CASE Decode  BY <1>3, DecodeEInv
<1>4. CASE UNCHANGED evars
  BY <1>4 DEF EInv, evars, BoundedSeq, OrderedSeq, PristineSeq
<1>. QED  BY <1>1, <1>2, <1>3, <1>4 DEF Next

THEOREM EngineInvariant == LayoutSound => (Spec => []EInv)
<1> SUFFICES ASSUME LayoutSound PROVE Spec => []EInv
  OBVIOUS
<1>. QED  BY InitEInv, NextEInv, PTL DEF Spec

-----------------------------------------------------------------------------

\* For a sound layout, no call of ffi_data_zeroize addresses a cell outside
\* the value it was handed.
THEOREM CallsInBounds == LayoutSound => (Spec => []InBounds)
<1> SUFFICES ASSUME LayoutSound PROVE Spec => []InBounds
  OBVIOUS
<1>1. EInv => InBounds
  BY DEF EInv, BoundedSeq, InBounds
<1>. QED  BY <1>1, EngineInvariant, PTL

\* For a sound layout, every match of a TPMT impl reads its discriminant
\* while it still holds the value the ESAPI returned.
THEOREM DiscriminantReadPristine == LayoutSound => (Spec => []DiscriminantPristineAtDispatch)
<1> SUFFICES ASSUME LayoutSound PROVE Spec => []DiscriminantPristineAtDispatch
  OBVIOUS
<1>1. EInv => DiscriminantPristineAtDispatch
  <2> SUFFICES ASSUME EInv, work # << >>, Head(work).op = "decode"
               PROVE  mem[Head(work).base] = mem0[Head(work).base]
    BY DEF DiscriminantPristineAtDispatch
  <2>1. Head(work) = work[1] /\ 1 \in 1..Len(work) /\ Head(work) \in Tasks
    BY HeadTailProperties, EmptySeq DEF EInv
  <2>2. Head(work).base \in Needs(work[1])
    BY <2>1 DEF LayoutSound, Needs
  <2>. QED  BY <2>1, <2>2 DEF EInv, PristineSeq
<1>. QED  BY <1>1, EngineInvariant, PTL

=============================================================================
