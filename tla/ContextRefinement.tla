-------------------------- MODULE ContextRefinement --------------------------
(***************************************************************************)
(* Proof that the Context implements the abstract handle lifecycle of      *)
(* HandleLifecycle under the mapping LifeOf, phase = "Open".               *)
(*                                                                         *)
(* The step that needs an invariant is the creation of a handle: the       *)
(* abstract Acquire requires the identifier to be unused, and the Context  *)
(* only knows that ESYS hands out nextTr.  Fresh says that every           *)
(* identifier at or above nextTr is still unused.                          *)
(***************************************************************************)
EXTENDS ContextProofs

\* Every ESYS_TR ESYS has handed out lies below the counter.
Fresh == \A h \in Handles : esys[h] # "Unused" => h < nextTr

LEMMA InitFresh == Init => Fresh
BY DEF Init, Fresh

LEMMA NextFresh == TypeOK /\ Fresh /\ [Next]_vars => Fresh'
<1> SUFFICES ASSUME TypeOK, Fresh, [Next]_vars PROVE Fresh'
    OBVIOUS
<1> USE DEF Fresh
<1>1. ASSUME NEW k \in Volatile, Created(k) PROVE Fresh'
    BY <1>1 DEF Created, TypeOK, Handles
<1>2. ASSUME NEW x \in Handles \cup {NoHandle}, Flushed(x), nextTr' = nextTr
      PROVE  Fresh'
    BY <1>2 DEF Flushed, TypeOK, Volatile
<1>3. CASE CreateObject \/ StartAuthSession \/ EnterNullauth \/ NullauthSetupFails
    BY <1>1, <1>3 DEF CreateObject, StartAuthSession, EnterNullauth,
                      NullauthSetupFails, Volatile
<1>4. ASSUME NEW p \in PersistentHandles, TrFromTpmPublic(p) PROVE Fresh'
    BY <1>4 DEF TrFromTpmPublic, TypeOK, Handles
<1>5. ASSUME NEW h \in Handles, FlushContext(h) PROVE Fresh'
    BY <1>2, <1>5 DEF FlushContext
<1>6. ASSUME NEW h \in Handles, TrClose(h) PROVE Fresh'
    BY <1>6 DEF TrClose, TypeOK, Live, Volatile
<1>7. ASSUME NEW r \in Result, ExitNullauth(r) \/ ExitTempObj(r) PROVE Fresh'
    <2>1. Top.obj \in Handles \cup {NoHandle}
        <3>1. stack # <<>>
            BY <1>7 DEF ExitNullauth, ExitTempObj
        <3>2. Top \in Frame
            BY <3>1, StackOps DEF TypeOK, Top
        <3>3. QED
            BY <3>2 DEF Frame
    <2>2. ReleaseOnReturn(Top.obj, r) /\ nextTr' = nextTr
        BY <1>7 DEF ExitNullauth, ExitTempObj
    <2>3. QED
        BY <1>2, <2>1, <2>2 DEF ReleaseOnReturn
<1>8. CASE Drop
    <2>1. PICK failed \in SUBSET (HandlesToFlush(reg) \cup HandlesToClose(reg)) :
            LET flushed == {h \in HandlesToFlush(reg) \ failed : esys[h] \in Volatile}
                closed  == {h \in HandlesToClose(reg) \ failed : esys[h] \in Live}
                done    == flushed \cup closed
            IN esys' = [h \in Handles |-> IF h \in done THEN "Released" ELSE esys[h]]
        BY <1>8 DEF Drop
    <2>2. QED
        BY <1>8, <2>1 DEF Drop, Volatile, Live
<1>9. QED
    BY <1>3, <1>4, <1>5, <1>6, <1>7, <1>8
    DEF Next, vars, SetSessions, ClearSessions, SlotsSet, EnterSessions,
        ExitSessions, EnterTempObj

-----------------------------------------------------------------------------
(* The refinement mapping, step by step *)

LEMMA InitRefines == Init => Lifecycle!Init
BY DEF Init, Lifecycle!Init, LifeOf

\* ESYS handing out nextTr for a resource of kind k is an abstract Acquire.
LEMMA CreationAcquires ==
    ASSUME TypeOK, Fresh, NEW k \in Live, nextTr \in Handles,
           esys' = [esys EXCEPT ![nextTr] = k], phase = "Open", phase' = phase
    PROVE  Lifecycle!Acquire(nextTr, DispositionOf(k))
<1>1. LifeOf[nextTr] = "Unused"
    BY DEF Fresh, LifeOf, TypeOK, Handles
<1>2. LifeOf' = [LifeOf EXCEPT ![nextTr] = DispositionOf(k)]
    BY DEF LifeOf, TypeOK, Live, Volatile, DispositionOf
<1>3. QED
    BY <1>1, <1>2 DEF Lifecycle!Acquire

\* Forgetting a live handle is an abstract Release.
LEMMA ForgettingReleases ==
    ASSUME TypeOK, NEW h \in Handles, esys[h] \in Live,
           esys' = [esys EXCEPT ![h] = "Released"], phase = "Open", phase' = phase
    PROVE  Lifecycle!Release(h)
<1>1. LifeOf[h] \in Disposition
    BY DEF LifeOf, Live, Volatile, DispositionOf, Disposition
<1>2. LifeOf' = [LifeOf EXCEPT ![h] = "Released"]
    BY DEF LifeOf, TypeOK
<1>3. QED
    BY <1>1, <1>2 DEF Lifecycle!Release, Lifecycle!Disposition, Disposition

\* A step that leaves esys and phase alone is an abstract stutter.
LEMMA QuietStutters ==
    ASSUME esys' = esys, phase' = phase
    PROVE  UNCHANGED <<LifeOf, phase = "Open">>
BY DEF LifeOf

\* Drop is the abstract Teardown: the handles whose release fails are the
\* live ones it leaves alone.
LEMMA DropTearsDown ==
    ASSUME TypeOK, Drop
    PROVE  Lifecycle!Teardown
<1>1. PICK failed \in SUBSET (HandlesToFlush(reg) \cup HandlesToClose(reg)) :
        LET flushed == {h \in HandlesToFlush(reg) \ failed : esys[h] \in Volatile}
            closed  == {h \in HandlesToClose(reg) \ failed : esys[h] \in Live}
            done    == flushed \cup closed
        IN esys' = [h \in Handles |-> IF h \in done THEN "Released" ELSE esys[h]]
    BY DEF Drop
<1> DEFINE done == {h \in HandlesToFlush(reg) \ failed : esys[h] \in Volatile}
                   \cup {h \in HandlesToClose(reg) \ failed : esys[h] \in Live}
<1>2. Lifecycle!LiveIds = {h \in Handles : esys[h] \in Live}
    <2>1. \A h \in Handles : LifeOf[h] \in Disposition <=> esys[h] \in Live
        BY DEF LifeOf, Live, Volatile, DispositionOf, Disposition, NotTracked,
               TypeOK, EsysState
    <2>2. QED
        BY <2>1 DEF Lifecycle!LiveIds, Lifecycle!Disposition, Disposition
<1>3. done \subseteq Lifecycle!LiveIds
    BY <1>2 DEF HandlesToFlush, HandlesToClose, TypeOK, Live
<1>4. LifeOf' = [h \in Handles |-> IF h \in done THEN "Released" ELSE LifeOf[h]]
    BY <1>1 DEF LifeOf
<1>5. \E f \in SUBSET Lifecycle!LiveIds :
        LifeOf' = [h \in Handles |-> IF h \in Lifecycle!LiveIds \ f THEN "Released"
                                    ELSE LifeOf[h]]
    <2>1. Lifecycle!LiveIds \ (Lifecycle!LiveIds \ done) = done
        BY <1>3
    <2>2. QED
        BY <1>4, <2>1
<1>6. QED
    BY <1>5 DEF Drop, Lifecycle!Teardown

LEMMA NextRefines ==
    TypeOK /\ Fresh /\ [Next]_vars => [Lifecycle!Next]_<<LifeOf, phase = "Open">>
<1> SUFFICES ASSUME TypeOK, Fresh, [Next]_vars
             PROVE  [Lifecycle!Next]_<<LifeOf, phase = "Open">>
    OBVIOUS
<1>1. ASSUME NEW k \in Volatile, Created(k), phase = "Open", phase' = phase
      PROVE  Lifecycle!Next
    <2>1. Lifecycle!Acquire(nextTr, DispositionOf(k))
        BY <1>1, CreationAcquires DEF Created, Volatile, Live
    <2>2. nextTr \in Handles /\ DispositionOf(k) \in Lifecycle!Disposition
        BY <1>1 DEF Created, DispositionOf, Volatile, Lifecycle!Disposition
    <2>3. QED
        BY <2>1, <2>2 DEF Lifecycle!Next
<1>2. ASSUME NEW x \in Handles \cup {NoHandle}, Flushed(x), phase = "Open", phase' = phase
      PROVE  [Lifecycle!Next]_<<LifeOf, phase = "Open">>
    <2>1. CASE x \in Handles
        <3>1. Lifecycle!Release(x)
            BY <1>2, <2>1, ForgettingReleases DEF Flushed, Live
        <3>2. QED
            BY <2>1, <3>1 DEF Lifecycle!Next
    <2>2. CASE x = NoHandle
        <3>1. esys' = esys
            BY <1>2, <2>2 DEF Flushed, TypeOK, NoHandle, Handles
        <3>2. QED
            BY <1>2, <3>1, QuietStutters
    <2>3. QED
        BY <2>1, <2>2
<1>3. CASE CreateObject \/ StartAuthSession \/ EnterNullauth \/ NullauthSetupFails
    BY <1>1, <1>3 DEF CreateObject, StartAuthSession, EnterNullauth,
                      NullauthSetupFails, Volatile
<1>4. ASSUME NEW p \in PersistentHandles, TrFromTpmPublic(p) PROVE Lifecycle!Next
    <2>1. Lifecycle!Acquire(nextTr, "Close")
        BY <1>4, CreationAcquires DEF TrFromTpmPublic, Live, DispositionOf, Volatile
    <2>2. QED
        BY <1>4, <2>1 DEF TrFromTpmPublic, Lifecycle!Next, Lifecycle!Disposition
<1>5. ASSUME NEW h \in Handles, FlushContext(h) PROVE [Lifecycle!Next]_<<LifeOf, phase = "Open">>
    BY <1>2, <1>5 DEF FlushContext
<1>6. ASSUME NEW h \in Handles, TrClose(h) PROVE Lifecycle!Next
    <2>1. Lifecycle!Release(h)
        BY <1>6, ForgettingReleases DEF TrClose
    <2>2. QED
        BY <2>1 DEF Lifecycle!Next
<1>7. ASSUME NEW r \in Result, ExitNullauth(r) \/ ExitTempObj(r)
      PROVE  [Lifecycle!Next]_<<LifeOf, phase = "Open">>
    <2>1. Top.obj \in Handles \cup {NoHandle}
        <3>1. stack # <<>>
            BY <1>7 DEF ExitNullauth, ExitTempObj
        <3>2. Top \in Frame
            BY <3>1, StackOps DEF TypeOK, Top
        <3>3. QED
            BY <3>2 DEF Frame
    <2>2. ReleaseOnReturn(Top.obj, r) /\ phase = "Open" /\ phase' = phase
        BY <1>7 DEF ExitNullauth, ExitTempObj
    <2>3. CASE Flushed(Top.obj)
        BY <1>2, <2>1, <2>2, <2>3
    <2>4. CASE UNCHANGED <<esys, loaded, reg>>
        BY <2>2, <2>4, QuietStutters
    <2>5. QED
        BY <2>2, <2>3, <2>4 DEF ReleaseOnReturn
<1>8. CASE Drop
    BY <1>8, DropTearsDown DEF Lifecycle!Next
<1>9. CASE UNCHANGED vars
    BY <1>9, QuietStutters DEF vars
<1>10. ASSUME NEW s \in SlotValue, SetSessions(s) \/ EnterSessions(s)
       PROVE  UNCHANGED <<LifeOf, phase = "Open">>
    BY <1>10, QuietStutters DEF SetSessions, SlotsSet, EnterSessions
<1>11. CASE ClearSessions
    BY <1>11, QuietStutters DEF ClearSessions, SlotsSet
<1>12. ASSUME NEW r \in Result, ExitSessions(r) PROVE UNCHANGED <<LifeOf, phase = "Open">>
    BY <1>12, QuietStutters DEF ExitSessions
<1>13. ASSUME NEW h \in Handles, EnterTempObj(h) PROVE UNCHANGED <<LifeOf, phase = "Open">>
    BY <1>13, QuietStutters DEF EnterTempObj
<1>14. QED
    BY <1>3, <1>4, <1>5, <1>6, <1>7, <1>8, <1>9, <1>10, <1>11, <1>12, <1>13 DEF Next

\* The Context implements the handle lifecycle of HandleLifecycle for every
\* number of identifiers, TPM slots, nesting depth and persistent handles:
\* ESYS_TRs handed out by create_primary, start_auth_session,
\* tr_from_tpm_public and execute_with_nullauth_session are fresh and keep
\* their disposition, flush_context, tr_close and the scopes' flush release
\* one live handle each, and Drop is one teardown after which nothing moves.
THEOREM LifecycleRefinement == Spec => LifecycleRefined
<1>1. Init => TypeOK /\ Fresh
    BY InitTypeOK, InitFresh
<1>2. TypeOK /\ Fresh /\ [Next]_vars => (TypeOK /\ Fresh)'
    BY NextTypeOK, NextFresh
<1>3. Init => Lifecycle!Init
    BY InitRefines
<1>4. TypeOK /\ Fresh /\ [Next]_vars => [Lifecycle!Next]_<<LifeOf, phase = "Open">>
    BY NextRefines
<1>5. QED
    BY <1>1, <1>2, <1>3, <1>4, PTL DEF Spec, LifecycleRefined, Lifecycle!Spec

-----------------------------------------------------------------------------

LifecycleProofs == INSTANCE HandleLifecycleProofs WITH Ids <- Handles, life <- LifeOf,
                                                      open <- (phase = "Open")

\* Every ESYS_TR of the Context only moves forward: unused, then live with the
\* disposition it was created with, then released for good, and nothing
\* moves after Drop, for every number of identifiers, slots and nesting.
THEOREM HandleLivesAdvance == Spec => HandleLifeAdvances
<1>1. Spec => Lifecycle!Spec
    BY LifecycleRefinement DEF LifecycleRefined
<1>2. Lifecycle!Spec => Lifecycle!LifeAdvances
    BY LifecycleProofs!LivesAdvance, PTL
    DEF LifecycleProofs!Spec, Lifecycle!Spec, LifecycleProofs!LifeAdvances,
        Lifecycle!LifeAdvances, LifecycleProofs!Init, Lifecycle!Init,
        LifecycleProofs!Next, Lifecycle!Next, LifecycleProofs!Advance, Lifecycle!Advance,
        LifecycleProofs!Acquire, Lifecycle!Acquire, LifecycleProofs!Release,
        Lifecycle!Release, LifecycleProofs!Teardown, Lifecycle!Teardown,
        LifecycleProofs!LiveIds, Lifecycle!LiveIds, LifecycleProofs!Disposition,
        Lifecycle!Disposition
<1>. QED  BY <1>1, <1>2 DEF HandleLifeAdvances

=============================================================================
