---------------------------- MODULE ZeroizeEngine ----------------------------
(***************************************************************************)
(* The traversal of FfiDataZeroize (src/tss-esapi/src/ffi/data_zeroize.rs) *)
(* with the layout left as a parameter.  A call is a task: "wipe" zeroes   *)
(* the cells of a field, "walk" runs the calls of an impl, "decode" reads  *)
(* a discriminant and runs the calls of its match arm.  The calls an impl  *)
(* or an arm makes are given by BodyOf and DispatchOf, the cells of the    *)
(* value a task is about by CellsOf.                                       *)
(*                                                                         *)
(* Zeroize instantiates this module with the layout of the crate's TSS     *)
(* structures; LayoutSound is what the proofs of ZeroizeEngineProofs need  *)
(* of a layout: the calls of an impl or an arm stay inside its value, and  *)
(* none of them writes a value that a later one still has to read.         *)
(***************************************************************************)
EXTENDS Naturals, Sequences

CONSTANTS
    Tasks,           \* the calls: records with an op, a type and a first cell
    Vals,            \* what a cell can hold
    Zero,            \* what Zeroize::zeroize writes
    CellsOf(_),      \* the cells of the value a call is about
    BodyOf(_),       \* the calls ffi_data_zeroize makes for a "walk"
    DispatchOf(_, _) \* the calls of the match arm of a "decode", by discriminant

VARIABLES
    mem,    \* the cells of the value
    mem0,   \* history: the cells as the ESAPI returned them
    work    \* the calls still to make, the next one first

evars == <<mem, mem0, work>>

\* The cells a pending call still reads: a walk or a decode reads the
\* discriminants inside its value, a wipe reads nothing.
Needs(x) == IF x.op = "wipe" THEN {} ELSE CellsOf(x)

\* The calls s made on behalf of x stay inside x's value, and none of them
\* writes a cell that a later one of them reads.
Nested(s, x) ==
    /\ s \in Seq(Tasks)
    /\ \A k \in 1..Len(s) : CellsOf(s[k]) \subseteq CellsOf(x)
    /\ \A k, l \in 1..Len(s) : k < l => CellsOf(s[k]) \cap Needs(s[l]) = {}

\* What the proofs need of the layout.
LayoutSound ==
    /\ Zero \in Vals
    /\ \A x \in Tasks : x.op = "walk" => Nested(BodyOf(x), x)
    /\ \A x \in Tasks : x.op = "decode" =>
            /\ x.base \in CellsOf(x)
            /\ \A v \in Vals : Nested(DispatchOf(x, v), x)

Init ==
    \E x \in Tasks :
        /\ x.op = "walk"
        /\ mem \in [CellsOf(x) -> Vals]
        /\ mem0 = mem
        /\ work = <<x>>

Wipe ==
    /\ work # << >>
    /\ Head(work).op = "wipe"
    /\ mem' = [c \in DOMAIN mem |-> IF c \in CellsOf(Head(work)) THEN Zero ELSE mem[c]]
    /\ work' = Tail(work)
    /\ UNCHANGED mem0

Walk ==
    /\ work # << >>
    /\ Head(work).op = "walk"
    /\ work' = BodyOf(Head(work)) \o Tail(work)
    /\ UNCHANGED <<mem, mem0>>

Decode ==
    /\ work # << >>
    /\ Head(work).op = "decode"
    /\ work' = DispatchOf(Head(work), mem[Head(work).base]) \o Tail(work)
    /\ UNCHANGED <<mem, mem0>>

Next == Wipe \/ Walk \/ Decode

Spec == Init /\ [][Next]_evars

-----------------------------------------------------------------------------

\* Every pending call is about cells of the value: no impl or arm addresses
\* memory outside the structure it was handed.
InBounds == \A i \in 1..Len(work) : CellsOf(work[i]) \subseteq DOMAIN mem

\* Every match reads its discriminant while it still holds the value the
\* ESAPI returned, whatever the calls made before it.
DiscriminantPristineAtDispatch ==
    work # << >> /\ Head(work).op = "decode" =>
        mem[Head(work).base] = mem0[Head(work).base]

=============================================================================
