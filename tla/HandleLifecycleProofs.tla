------------------------ MODULE HandleLifecycleProofs ------------------------
(***************************************************************************)
(* Proofs about the abstract handle lifecycle: its type, and that every    *)
(* identifier only moves forward through Unused, one disposition and       *)
(* Released.  ContextRefinement lifts them to the Context.                 *)
(***************************************************************************)
EXTENDS HandleLifecycle, TLAPS

\* The lifecycle is well typed: every identifier is unused, live with a
\* disposition, or released.
THEOREM LifecycleTypeCorrect == Spec => []TypeOK
<1>1. Init => TypeOK
  BY DEF Init, TypeOK, LifeState
<1>2. TypeOK /\ [Next]_<<life, open>> => TypeOK'
  <2> SUFFICES ASSUME TypeOK, [Next]_<<life, open>> PROVE TypeOK'
    OBVIOUS
  <2>1. ASSUME NEW h \in Ids, NEW d \in Disposition, Acquire(h, d) PROVE TypeOK'
    BY <2>1 DEF Acquire, TypeOK, LifeState
  <2>2. ASSUME NEW h \in Ids, Release(h) PROVE TypeOK'
    BY <2>2 DEF Release, TypeOK, LifeState
  <2>3. CASE Teardown
    BY <2>3 DEF Teardown, TypeOK, LifeState
  <2>4. CASE UNCHANGED <<life, open>>
    BY <2>4 DEF TypeOK
  <2>. QED  BY <2>1, <2>2, <2>3, <2>4 DEF Next
<1>. QED  BY <1>1, <1>2, PTL DEF Spec

LEMMA StepAdvances == TypeOK /\ [Next]_<<life, open>> => Advance
<1> SUFFICES ASSUME TypeOK, [Next]_<<life, open>> PROVE Advance
  OBVIOUS
<1>1. ASSUME NEW h \in Ids, NEW d \in Disposition, Acquire(h, d) PROVE Advance
  BY <1>1 DEF Acquire, TypeOK, Advance
<1>2. ASSUME NEW h \in Ids, Release(h) PROVE Advance
  BY <1>2 DEF Release, TypeOK, Advance
<1>3. CASE Teardown
  <2>1. PICK failed \in SUBSET LiveIds :
          life' = [h \in Ids |-> IF h \in LiveIds \ failed THEN "Released" ELSE life[h]]
    BY <1>3 DEF Teardown
  <2>. QED  BY <1>3, <2>1 DEF Teardown, TypeOK, Advance, LiveIds
<1>4. CASE UNCHANGED <<life, open>>
  BY <1>4 DEF Advance
<1>. QED  BY <1>1, <1>2, <1>3, <1>4 DEF Next

\* No identifier goes back in its lifecycle, changes disposition while live,
\* or moves after teardown.
THEOREM LivesAdvance == Spec => LifeAdvances
BY LifecycleTypeCorrect, StepAdvances, PTL DEF LifeAdvances, Spec
=============================================================================
