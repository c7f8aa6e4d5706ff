---------------------------- MODULE ContextProofs ----------------------------
(***************************************************************************)
(* Proofs about the Context specification, for every value of the         *)
(* constants that satisfies ConstantsAssumption.                           *)
(***************************************************************************)
EXTENDS Context, HandleManagerProofs, SequenceTheorems, TLAPS

USE ConstantsAssumption

\* The Frame records a scope entry pushes are frames.
LEMMA FramesTyped ==
    ASSUME NEW s \in SlotTriple, NEW h \in Handles \cup {NoHandle},
           NEW ty \in FrameType
    PROVE  [type |-> ty, obj |-> h, saved |-> s] \in Frame
BY DEF Frame

\* The length SubSeq gives the prefix that drops the last element.
LEMMA PredecessorLength ==
    ASSUME NEW n \in Nat \ {0}
    PROVE  n - 1 = IF 1 <= n - 1 THEN (n - 1) - 1 + 1 ELSE 0
BY SMT

\* Pushing and popping keep the closure stack a sequence of frames.
LEMMA StackOps ==
    ASSUME NEW st \in Seq(Frame), NEW f \in Frame
    PROVE  /\ Append(st, f) \in Seq(Frame)
           /\ st # <<>> => /\ SubSeq(st, 1, Len(st) - 1) \in Seq(Frame)
                           /\ st[Len(st)] \in Frame
                           /\ Len(SubSeq(st, 1, Len(st) - 1)) = Len(st) - 1
<1>1. Append(st, f) \in Seq(Frame)
    BY AppendProperties
<1>2. ASSUME st # <<>> PROVE /\ SubSeq(st, 1, Len(st) - 1) \in Seq(Frame)
                            /\ st[Len(st)] \in Frame
                            /\ Len(SubSeq(st, 1, Len(st) - 1)) = Len(st) - 1
    <2>1. Len(st) \in Nat \ {0}
        BY <1>2, EmptySeq
    <2>2. \A i \in 1..(Len(st) - 1) : st[i] \in Frame
        BY <2>1, ElementOfSeq
    <2>3. SubSeq(st, 1, Len(st) - 1) \in Seq(Frame)
          /\ Len(SubSeq(st, 1, Len(st) - 1)) = Len(st) - 1
        <3>1. 1 \in Int /\ Len(st) - 1 \in Int
            BY <2>1
        <3>2. SubSeq(st, 1, Len(st) - 1) \in Seq(Frame)
              /\ Len(SubSeq(st, 1, Len(st) - 1))
                   = IF 1 <= Len(st) - 1 THEN (Len(st) - 1) - 1 + 1 ELSE 0
            BY <2>2, <3>1, SubSeqProperties
        <3>3. Len(st) - 1 = IF 1 <= Len(st) - 1 THEN (Len(st) - 1) - 1 + 1 ELSE 0
            BY <2>1, PredecessorLength
        <3>4. QED
            BY <3>2, <3>3
    <2>4. st[Len(st)] \in Frame
        BY <2>1, ElementOfSeq
    <2>5. QED
        BY <2>3, <2>4
<1>3. QED
    BY <1>1, <1>2

-----------------------------------------------------------------------------
(* Type correctness *)

LEMMA InitTypeOK == Init => TypeOK
BY DEF Init, TypeOK, NoSessions, SlotTriple, SlotValue, ExitRecord, NoExit,
       EsysState, RegistryEntry, Handles, NoHandle

LEMMA NextTypeOK == TypeOK /\ [Next]_vars => TypeOK'
<1> SUFFICES ASSUME TypeOK, [Next]_vars PROVE TypeOK'
    OBVIOUS
<1>1. ASSUME NEW k \in Volatile, Created(k) PROVE esys' \in [Handles -> EsysState]
                                                 /\ loaded' \in SUBSET Handles
                                                 /\ nextTr' \in 1..(MaxHandles + 1)
                                                 /\ reg' \in [Handles -> RegistryEntry]
    BY <1>1 DEF Created, TypeOK, AddHandle, Volatile, EsysState, RegistryEntry,
                Disposition, Handles
<1>2. ASSUME NEW h \in Handles \cup {NoHandle}, Flushed(h)
      PROVE  /\ esys' \in [Handles -> EsysState]
             /\ loaded' \in SUBSET Handles
             /\ reg' \in [Handles -> RegistryEntry]
    BY <1>2 DEF Flushed, TypeOK, RemoveHandle, EsysState, RegistryEntry
<1>3. CASE CreateObject
    BY <1>1, <1>3 DEF CreateObject, TypeOK, Volatile
<1>4. CASE StartAuthSession
    BY <1>1, <1>4 DEF StartAuthSession, TypeOK, Volatile
<1>5. ASSUME NEW p \in PersistentHandles, TrFromTpmPublic(p) PROVE TypeOK'
    <2>1. reg' \in [Handles -> RegistryEntry]
        BY <1>5, AddHandleLists DEF TrFromTpmPublic, TypeOK, Disposition
    <2>2. QED
        BY <1>5, <2>1 DEF TrFromTpmPublic, TypeOK, EsysState, Handles, NoHandle
<1>6. ASSUME NEW h \in Handles, FlushContext(h) PROVE TypeOK'
    BY <1>2, <1>6 DEF FlushContext, TypeOK
<1>7. ASSUME NEW h \in Handles, TrClose(h) PROVE TypeOK'
    <2>1. reg' \in [Handles -> RegistryEntry]
        BY <1>7, RemoveHandleLists DEF TrClose, TypeOK
    <2>2. QED
        BY <1>7, <2>1 DEF TrClose, TypeOK, EsysState, NoHandle
<1>8. ASSUME NEW t \in SlotTriple, SlotsSet(t) PROVE TypeOK'
    BY <1>8 DEF SlotsSet, TypeOK
<1>9. ASSUME NEW s \in SlotValue, SetSessions(s) PROVE TypeOK'
    BY <1>8, <1>9 DEF SetSessions, SlotTriple, SlotValue
<1>10. CASE ClearSessions
    BY <1>8, <1>10 DEF ClearSessions, NoSessions, SlotTriple, SlotValue
<1>11. ASSUME NEW s \in SlotValue, EnterSessions(s) PROVE TypeOK'
    <2>1. [type |-> "Sessions", obj |-> NoHandle, saved |-> sessions] \in Frame
        BY FramesTyped DEF TypeOK, FrameType
    <2>2. <<s, NoSession, NoSession>> \in SlotTriple
        BY DEF SlotTriple, SlotValue
    <2>3. stack' \in Seq(Frame)
        BY <1>11, <2>1, StackOps DEF EnterSessions, TypeOK
    <2>4. QED
        BY <1>11, <2>2, <2>3 DEF EnterSessions, TypeOK
<1>12. ASSUME NEW r \in Result, ExitSessions(r) PROVE TypeOK'
    <2>1. Top \in Frame /\ Pop \in Seq(Frame)
        BY <1>12, StackOps DEF ExitSessions, TypeOK, Top, Pop
    <2>2. Top.saved \in SlotTriple
        BY <2>1 DEF Frame
    <2>3. [body |-> r, result |-> r] \in ExitRecord
        BY DEF ExitRecord, Result
    <2>4. QED
        BY <1>12, <2>1, <2>2, <2>3 DEF ExitSessions, TypeOK
<1>13. CASE EnterNullauth
    <2>1. nextTr \in Handles
        BY <1>13 DEF EnterNullauth, Created
    <2>2. [type |-> "Nullauth", obj |-> nextTr, saved |-> sessions] \in Frame
        BY <2>1, FramesTyped DEF TypeOK, FrameType
    <2>3. QED
        BY <1>1, <1>13, <2>1, <2>2, StackOps
        DEF EnterNullauth, TypeOK, Volatile, SlotTriple, SlotValue
<1>14. ASSUME NEW h \in Handles \cup {NoHandle}, NEW r \in Result, ReleaseOnReturn(h, r)
       PROVE  /\ esys' \in [Handles -> EsysState]
              /\ loaded' \in SUBSET Handles
              /\ reg' \in [Handles -> RegistryEntry]
              /\ lastExit' \in ExitRecord
    BY <1>2, <1>14 DEF ReleaseOnReturn, TypeOK, ExitRecord, Result
<1>15. ASSUME NEW r \in Result, ExitNullauth(r) PROVE TypeOK'
    <2>1. stack # <<>> /\ Top \in Frame
        BY <1>15, StackOps DEF ExitNullauth, TypeOK, Top
    <2>2. Top.obj \in Handles \cup {NoHandle} /\ Top.saved \in SlotTriple
        BY <2>1 DEF Frame
    <2>3. QED
        BY <1>14, <1>15, <2>1, <2>2, StackOps DEF ExitNullauth, TypeOK, Pop, Top
<1>16. ASSUME NEW h \in Handles, EnterTempObj(h) PROVE TypeOK'
    <2>1. [type |-> "TempObj", obj |-> h, saved |-> sessions] \in Frame
        BY FramesTyped DEF TypeOK, FrameType
    <2>2. QED
        BY <1>16, <2>1, StackOps DEF EnterTempObj, TypeOK
<1>17. ASSUME NEW r \in Result, ExitTempObj(r) PROVE TypeOK'
    <2>1. stack # <<>> /\ Top \in Frame
        BY <1>17, StackOps DEF ExitTempObj, TypeOK, Top
    <2>2. Top.obj \in Handles \cup {NoHandle}
        BY <2>1 DEF Frame
    <2>3. QED
        BY <1>14, <1>17, <2>1, <2>2, StackOps DEF ExitTempObj, TypeOK, Pop, Top
<1>18. CASE Drop
    <2>1. PICK failed \in SUBSET (HandlesToFlush(reg) \cup HandlesToClose(reg)) :
            LET flushed == {h \in HandlesToFlush(reg) \ failed : esys[h] \in Volatile}
                closed  == {h \in HandlesToClose(reg) \ failed : esys[h] \in Live}
                done    == flushed \cup closed
            IN /\ esys' = [h \in Handles |-> IF h \in done THEN "Released" ELSE esys[h]]
               /\ loaded' = loaded \ flushed
               /\ reg' = [h \in Handles |-> IF h \in done THEN NotTracked ELSE reg[h]]
               /\ persistentTr' = [p \in PersistentHandles |->
                                     IF persistentTr[p] \in closed THEN NoHandle
                                     ELSE persistentTr[p]]
               /\ teardownFailed' = failed
        BY <1>18 DEF Drop
    <2>2. HandlesToFlush(reg) \cup HandlesToClose(reg) \subseteq Handles
        BY DEF HandlesToFlush, HandlesToClose, TypeOK
    <2>3. QED
        BY <1>18, <2>1, <2>2 DEF Drop, TypeOK, EsysState, RegistryEntry, NoHandle
<1>19. CASE UNCHANGED vars
    BY <1>19 DEF vars, TypeOK
<1>20. CASE NullauthSetupFails
    <2>1. [body |-> "none", result |-> "Err"] \in ExitRecord
        BY DEF ExitRecord, Result
    <2>2. QED
        BY <1>1, <1>20, <2>1 DEF NullauthSetupFails, TypeOK, Volatile
<1>21. QED
    BY <1>3, <1>4, <1>5, <1>6, <1>7, <1>9, <1>10, <1>11, <1>12, <1>13, <1>15,
       <1>16, <1>17, <1>18, <1>19, <1>20 DEF Next

\* Every behaviour of the Context keeps its variables in their types: the
\* identifiers handed out stay within the pool, the session slots hold
\* session values, and the closure stack holds well-formed frames.
THEOREM TypeCorrect == Spec => []TypeOK
BY InitTypeOK, NextTypeOK, PTL DEF Spec

-----------------------------------------------------------------------------
(* The registry of the handle manager *)

LEMMA InitRegistryExact == Init => RegistryExact
BY DEF Init, RegistryExact, DispositionOf, Volatile

\* A created volatile handle and a flushed one keep the registry exact.
LEMMA CreatedExact ==
    ASSUME TypeOK, RegistryExact, NEW k \in Volatile, Created(k)
    PROVE  \A h \in Handles : reg'[h] = DispositionOf(esys'[h])
BY DEF Created, TypeOK, RegistryExact, AddHandle, DispositionOf, Volatile

LEMMA FlushedExact ==
    ASSUME TypeOK, RegistryExact, NEW x \in Handles \cup {NoHandle}, Flushed(x)
    PROVE  \A h \in Handles : reg'[h] = DispositionOf(esys'[h])
BY DEF Flushed, TypeOK, RegistryExact, RemoveHandle, DispositionOf, Volatile

LEMMA NextRegistryExact ==
    TypeOK /\ RegistryExact /\ [Next]_vars => RegistryExact'
<1> SUFFICES ASSUME TypeOK, RegistryExact, [Next]_vars PROVE RegistryExact'
    OBVIOUS
<1> USE DEF RegistryExact
<1>1. CASE CreateObject
    BY <1>1, CreatedExact DEF CreateObject, Volatile
<1>2. CASE StartAuthSession
    BY <1>2, CreatedExact DEF StartAuthSession, Volatile
<1>3. ASSUME NEW p \in PersistentHandles, TrFromTpmPublic(p) PROVE RegistryExact'
    BY <1>3 DEF TrFromTpmPublic, TypeOK, AddHandle, DispositionOf, Volatile
<1>4. ASSUME NEW h \in Handles, FlushContext(h) PROVE RegistryExact'
    BY <1>4, FlushedExact DEF FlushContext
<1>5. ASSUME NEW h \in Handles, TrClose(h) PROVE RegistryExact'
    BY <1>5 DEF TrClose, TypeOK, RemoveHandle, DispositionOf, Volatile
<1>6. ASSUME NEW s \in SlotValue, SetSessions(s) \/ EnterSessions(s) PROVE RegistryExact'
    BY <1>6 DEF SetSessions, SlotsSet, EnterSessions
<1>7. CASE ClearSessions
    BY <1>7 DEF ClearSessions, SlotsSet
<1>8. CASE EnterNullauth
    BY <1>8, CreatedExact DEF EnterNullauth, Volatile
<1>9. ASSUME NEW h \in Handles, EnterTempObj(h) PROVE RegistryExact'
    BY <1>9 DEF EnterTempObj
<1>10. ASSUME NEW r \in Result, ExitSessions(r) PROVE RegistryExact'
    BY <1>10 DEF ExitSessions
<1>11. ASSUME NEW r \in Result, ExitNullauth(r) \/ ExitTempObj(r) PROVE RegistryExact'
    <2>1. Top.obj \in Handles \cup {NoHandle}
        <3>1. stack # <<>>
            BY <1>11 DEF ExitNullauth, ExitTempObj
        <3>2. Top \in Frame
            BY <3>1, StackOps DEF TypeOK, Top
        <3>3. QED
            BY <3>2 DEF Frame
    <2>2. ReleaseOnReturn(Top.obj, r)
        BY <1>11 DEF ExitNullauth, ExitTempObj
    <2>3. QED
        BY <2>1, <2>2, FlushedExact DEF ReleaseOnReturn
<1>12. CASE Drop
    <2>1. PICK failed \in SUBSET (HandlesToFlush(reg) \cup HandlesToClose(reg)) :
            LET flushed == {h \in HandlesToFlush(reg) \ failed : esys[h] \in Volatile}
                closed  == {h \in HandlesToClose(reg) \ failed : esys[h] \in Live}
                done    == flushed \cup closed
            IN /\ esys' = [h \in Handles |-> IF h \in done THEN "Released" ELSE esys[h]]
               /\ reg' = [h \in Handles |-> IF h \in done THEN NotTracked ELSE reg[h]]
        BY <1>12 DEF Drop
    <2>2. QED
        BY <2>1 DEF DispositionOf, Volatile, Live, HandlesToFlush, HandlesToClose
<1>13. CASE UNCHANGED vars
    BY <1>13 DEF vars
<1>14. CASE NullauthSetupFails
    BY <1>14, CreatedExact DEF NullauthSetupFails, Volatile
<1>15. QED
    BY <1>1, <1>2, <1>3, <1>4, <1>5, <1>6, <1>7, <1>8, <1>9, <1>10, <1>11,
       <1>12, <1>13, <1>14 DEF Next

\* The handle manager tracks exactly the live ESYS_TRs, a volatile one for
\* flushing and an external one for closing, whatever sequence of creations,
\* tr_from_tpm_public calls, flushes, closes, closures and Drop runs: no
\* live handle escapes the teardown sweep and none is released twice.
THEOREM RegistryExactness == Spec => []RegistryExact
<1>1. Init => TypeOK /\ RegistryExact
    BY InitTypeOK, InitRegistryExact
<1>2. TypeOK /\ RegistryExact /\ [Next]_vars => (TypeOK /\ RegistryExact)'
    BY NextTypeOK, NextRegistryExact
<1>3. QED
    BY <1>1, <1>2, PTL DEF Spec

-----------------------------------------------------------------------------
(* Teardown *)

\* Every operation but Drop runs on an open context and leaves it open.
LEMMA OnlyDropCloses ==
    ASSUME Next, ~Drop
    PROVE  phase = "Open" /\ phase' = "Open"
BY DEF Next, CreateObject, StartAuthSession, TrFromTpmPublic, FlushContext,
       TrClose, EnterTempObj, SetSessions, EnterSessions, SlotsSet, ClearSessions,
       EnterNullauth, NullauthSetupFails, ExitSessions, ExitNullauth, ExitTempObj

\* With the registry exact, every handle on the flush list is a live
\* volatile ESYS_TR and every handle on the close list a live external one:
\* no release of the sweep fails because of the handle's own state.
LEMMA ListsLive ==
    ASSUME TypeOK, RegistryExact
    PROVE  /\ \A h \in HandlesToFlush(reg) : esys[h] \in Volatile
           /\ \A h \in HandlesToClose(reg) : esys[h] \in Live
BY DEF TypeOK, RegistryExact, HandlesToFlush, HandlesToClose, DispositionOf,
       Volatile, Live, NotTracked

LEMMA NextTeardown ==
    TypeOK /\ RegistryExact /\ TeardownLeavesOnlyFailures /\ [Next]_vars
        => TeardownLeavesOnlyFailures'
<1> SUFFICES ASSUME TypeOK, RegistryExact, TeardownLeavesOnlyFailures, [Next]_vars
             PROVE  TeardownLeavesOnlyFailures'
    OBVIOUS
<1>1. CASE Drop
    <2> DEFINE tracked == HandlesToFlush(reg) \cup HandlesToClose(reg)
    <2>1. PICK failed \in SUBSET tracked :
            LET flushed == {h \in HandlesToFlush(reg) \ failed : esys[h] \in Volatile}
                closed  == {h \in HandlesToClose(reg) \ failed : esys[h] \in Live}
                done    == flushed \cup closed
            IN /\ reg' = [h \in Handles |-> IF h \in done THEN NotTracked ELSE reg[h]]
               /\ teardownFailed' = failed
        BY <1>1 DEF Drop
    <2> DEFINE done == {h \in HandlesToFlush(reg) \ failed : esys[h] \in Volatile}
                       \cup {h \in HandlesToClose(reg) \ failed : esys[h] \in Live}
    <2>2. tracked = {h \in Handles : reg[h] # NotTracked}
        BY TrackedSplit DEF TypeOK
    <2>3. tracked \ failed \subseteq done
        BY ListsLive
    <2>4. done \cap failed = {}
        OBVIOUS
    <2>5. \A h \in Handles : reg'[h] # NotTracked <=> h \in failed
        BY <2>1, <2>2, <2>3, <2>4
    <2>6. failed \subseteq Handles
        BY <2>1, <2>2
    <2>7. QED
        BY <2>1, <2>5, <2>6 DEF TeardownLeavesOnlyFailures
<1>2. CASE Next /\ ~Drop
    BY <1>2, OnlyDropCloses DEF TeardownLeavesOnlyFailures
<1>3. CASE UNCHANGED vars
    BY <1>3 DEF vars, TeardownLeavesOnlyFailures
<1>4. QED
    BY <1>1, <1>2, <1>3

\* Once Drop has run, the handle manager still tracks exactly the handles
\* whose flush or close the TPM refused, for every size of the registry:
\* the sweep visits both lists to the end whatever fails, and the registry
\* it walks is exact (RegistryExact), so no tracked handle is stale and none
\* stays tracked without a refused call.  The registry's exactness is the
\* strengthening: without it a tracked handle whose ESYS_TR was already
\* released would survive the sweep without a TPM error.
THEOREM TeardownExactness == Spec => []TeardownLeavesOnlyFailures
<1>1. Init => TypeOK /\ RegistryExact /\ TeardownLeavesOnlyFailures
    BY InitTypeOK, InitRegistryExact DEF Init, TeardownLeavesOnlyFailures
<1>2. TypeOK /\ RegistryExact /\ TeardownLeavesOnlyFailures /\ [Next]_vars
        => (TypeOK /\ RegistryExact /\ TeardownLeavesOnlyFailures)'
    BY NextTypeOK, NextRegistryExact, NextTeardown
<1>3. QED
    BY <1>1, <1>2, PTL DEF Spec

-----------------------------------------------------------------------------
(* Session slots restored *)

ScopeTypes == {"Sessions", "Nullauth"}

\* Some frame of st is a session scope.
Scoped(st) == \E i \in 1..Len(st) : st[i].type \in ScopeTypes

\* The outermost session scope of st saved the triple T.
OutermostSaved(st, T) ==
    \A i \in 1..Len(st) :
        st[i].type \in ScopeTypes /\ (\A j \in 1..(i - 1) : st[j].type \notin ScopeTypes)
            => st[i].saved = T

\* Pushing a frame keeps the outermost saved triple when a new outermost
\* session scope saves T.
LEMMA PushKeepsOutermost ==
    ASSUME NEW st \in Seq(Frame), NEW f \in Frame, NEW T, OutermostSaved(st, T),
           ~Scoped(st) /\ f.type \in ScopeTypes => f.saved = T
    PROVE  /\ OutermostSaved(Append(st, f), T)
           /\ Scoped(Append(st, f)) <=> Scoped(st) \/ f.type \in ScopeTypes
<1> DEFINE a == Append(st, f)
           n == Len(st)
<1>1. /\ n \in Nat /\ Len(a) = n + 1 /\ a[n + 1] = f
      /\ \A i \in 1..n : a[i] = st[i]
    BY AppendProperties
<1>2. OutermostSaved(a, T)
    <2> SUFFICES ASSUME NEW i \in 1..Len(a), a[i].type \in ScopeTypes,
                        \A j \in 1..(i - 1) : a[j].type \notin ScopeTypes
                 PROVE  a[i].saved = T
        BY DEF OutermostSaved
    <2>1. CASE i \in 1..n
        <3>1. \A j \in 1..(i - 1) : st[j].type \notin ScopeTypes
            BY <1>1, <2>1
        <3>2. QED
            BY <1>1, <2>1, <3>1 DEF OutermostSaved
    <2>2. CASE i = n + 1
        <3>1. ~Scoped(st)
            BY <1>1, <2>2 DEF Scoped
        <3>2. QED
            BY <1>1, <2>2, <3>1
    <2>3. QED
        BY <1>1, <2>1, <2>2
<1>3. Scoped(a) <=> Scoped(st) \/ f.type \in ScopeTypes
    BY <1>1 DEF Scoped
<1>4. QED
    BY <1>2, <1>3

\* Popping the innermost frame keeps the outermost saved triple, and when
\* no session scope is left the popped one, if a session scope, saved T.
LEMMA PopKeepsOutermost ==
    ASSUME NEW st \in Seq(Frame), st # <<>>, NEW T, OutermostSaved(st, T)
    PROVE  LET p == SubSeq(st, 1, Len(st) - 1)
               top == st[Len(st)]
           IN  /\ OutermostSaved(p, T)
               /\ ~Scoped(p) /\ top.type \in ScopeTypes => top.saved = T
               /\ top.type \notin ScopeTypes => (Scoped(p) <=> Scoped(st))
<1> DEFINE p == SubSeq(st, 1, Len(st) - 1)
           n == Len(st)
<1>1. n \in Nat \ {0} /\ Len(p) = n - 1 /\ \A i \in 1..(n - 1) : p[i] = st[i]
    <2>1. n \in Nat \ {0}
        BY EmptySeq
    <2>2. Len(p) = n - 1
        BY StackOps
    <2>3. \A i \in 1..(n - 1) : st[i] \in Frame
        BY <2>1, ElementOfSeq
    <2>4. \A i \in 1..(n - 1) - 1 + 1 : p[i] = st[1 + i - 1]
        BY <2>1, <2>3, SubSeqProperties
    <2>5. QED
        BY <2>1, <2>2, <2>4
<1>2. OutermostSaved(p, T)
    BY <1>1 DEF OutermostSaved
<1>3. ~Scoped(p) /\ st[n].type \in ScopeTypes => st[n].saved = T
    BY <1>1 DEF Scoped, OutermostSaved
<1>4. st[n].type \notin ScopeTypes => (Scoped(p) <=> Scoped(st))
    BY <1>1 DEF Scoped
<1>5. QED
    BY <1>2, <1>3, <1>4

\* SessionsRestored, strengthened by what the outermost session scope saved.
SessionsInv == SessionsRestored /\ OutermostSaved(stack, topSessions)

LEMMA ScopedIsInScope == InSessionScope <=> Scoped(stack)
BY DEF InSessionScope, Scoped, ScopeTypes

LEMMA NextSessions == TypeOK /\ SessionsInv /\ [Next]_vars => SessionsInv'
<1> SUFFICES ASSUME TypeOK, SessionsInv, [Next]_vars PROVE SessionsInv'
    OBVIOUS
<1>0. /\ ~Scoped(stack) => sessions = topSessions
      /\ OutermostSaved(stack, topSessions)
      /\ SessionsInv' <=> /\ ~Scoped(stack') => sessions' = topSessions'
                          /\ OutermostSaved(stack', topSessions')
    BY ScopedIsInScope DEF SessionsInv, SessionsRestored, InSessionScope, Scoped,
                           ScopeTypes
\* Pushing a session scope that saves the current slots.
<1>1. ASSUME NEW f \in Frame, f.type \in ScopeTypes, f.saved = sessions,
             stack' = Append(stack, f), topSessions' = topSessions
      PROVE  SessionsInv'
    <2>1. OutermostSaved(stack', topSessions') /\ Scoped(stack')
        BY <1>0, <1>1, PushKeepsOutermost DEF TypeOK
    <2>2. QED
        BY <1>0, <2>1
\* Popping a frame.
<1>2. ASSUME stack # <<>>, stack' = Pop, topSessions' = topSessions,
             Top.type \in ScopeTypes => sessions' = Top.saved,
             Top.type \notin ScopeTypes => sessions' = sessions
      PROVE  SessionsInv'
    <2>1. /\ OutermostSaved(Pop, topSessions)
          /\ ~Scoped(Pop) /\ Top.type \in ScopeTypes => Top.saved = topSessions
          /\ Top.type \notin ScopeTypes => (Scoped(Pop) <=> Scoped(stack))
        BY <1>0, <1>2, PopKeepsOutermost DEF TypeOK, Pop, Top
    <2>2. QED
        BY <1>0, <1>2, <2>1
\* A step that leaves the stack, the slots and the caller's slots alone.
<1>3. ASSUME UNCHANGED <<stack, sessions, topSessions>> PROVE SessionsInv'
    BY <1>0, <1>3
<1>4. ASSUME NEW t \in SlotTriple, SlotsSet(t) PROVE SessionsInv'
    <2>1. CASE Scoped(stack)
        BY <1>0, <1>4, <2>1, ScopedIsInScope DEF SlotsSet
    <2>2. CASE ~Scoped(stack)
        <3>1. OutermostSaved(stack, t)
            BY <2>2 DEF OutermostSaved, Scoped
        <3>2. QED
            BY <1>0, <1>4, <2>2, <3>1, ScopedIsInScope DEF SlotsSet
    <2>3. QED
        BY <2>1, <2>2
<1>5. ASSUME NEW s \in SlotValue, SetSessions(s) PROVE SessionsInv'
    BY <1>4, <1>5 DEF SetSessions, SlotTriple, SlotValue
<1>6. CASE ClearSessions
    BY <1>4, <1>6 DEF ClearSessions, NoSessions, SlotTriple, SlotValue
<1>7. ASSUME NEW s \in SlotValue, EnterSessions(s) PROVE SessionsInv'
    <2>1. [type |-> "Sessions", obj |-> NoHandle, saved |-> sessions] \in Frame
        BY FramesTyped DEF TypeOK, FrameType
    <2>2. QED
        BY <1>1, <1>7, <2>1 DEF EnterSessions, ScopeTypes
<1>8. CASE EnterNullauth
    <2>1. [type |-> "Nullauth", obj |-> nextTr, saved |-> sessions] \in Frame
        BY <1>8, FramesTyped DEF TypeOK, FrameType, EnterNullauth, Created
    <2>2. QED
        BY <1>1, <1>8, <2>1 DEF EnterNullauth, ScopeTypes
<1>9. ASSUME NEW h \in Handles, EnterTempObj(h) PROVE SessionsInv'
    <2>1. [type |-> "TempObj", obj |-> h, saved |-> sessions] \in Frame
        BY FramesTyped DEF TypeOK, FrameType
    <2>2. /\ OutermostSaved(stack', topSessions')
          /\ Scoped(stack') <=> Scoped(stack)
        BY <1>0, <1>9, <2>1, PushKeepsOutermost DEF TypeOK, EnterTempObj, ScopeTypes
    <2>3. QED
        BY <1>0, <1>9, <2>2 DEF EnterTempObj
<1>10. ASSUME NEW r \in Result, ExitSessions(r) \/ ExitNullauth(r) PROVE SessionsInv'
    BY <1>2, <1>10 DEF ExitSessions, ExitNullauth, ScopeTypes
<1>11. ASSUME NEW r \in Result, ExitTempObj(r) PROVE SessionsInv'
    BY <1>2, <1>11 DEF ExitTempObj, ScopeTypes
<1>12. QED
    BY <1>3, <1>5, <1>6, <1>7, <1>8, <1>9, <1>10, <1>11
    DEF Next, vars, CreateObject, StartAuthSession, TrFromTpmPublic, FlushContext,
        TrClose, NullauthSetupFails, Drop

\* Outside every execute_with_sessions and execute_with_nullauth_session
\* scope the session slots are those the caller last set at that level, for
\* every nesting depth: whatever a closure sets or clears, and whatever
\* scopes it opens inside, is undone by the time its scope returns.
THEOREM SessionsRestoration == Spec => []SessionsRestored
<1>1. Init => TypeOK /\ SessionsInv
    BY InitTypeOK DEF Init, SessionsInv, SessionsRestored, OutermostSaved
<1>2. TypeOK /\ SessionsInv /\ [Next]_vars => (TypeOK /\ SessionsInv)'
    BY NextTypeOK, NextSessions
<1>3. QED
    BY <1>1, <1>2, PTL DEF Spec, SessionsInv

-----------------------------------------------------------------------------
(* Temporary scopes release their resource *)

\* Every frame of a temporary scope names an identifier to flush.
ObjFrames(st) == \A i \in 1..Len(st) : st[i].type # "Sessions" => st[i].obj \in Handles

LEMMA PushKeepsObjFrames ==
    ASSUME NEW st \in Seq(Frame), NEW f \in Frame, ObjFrames(st),
           f.type # "Sessions" => f.obj \in Handles
    PROVE  ObjFrames(Append(st, f))
<1>1. /\ Len(Append(st, f)) = Len(st) + 1 /\ Append(st, f)[Len(st) + 1] = f
      /\ \A i \in 1..Len(st) : Append(st, f)[i] = st[i]
    BY AppendProperties
<1>2. QED
    BY <1>1 DEF ObjFrames

LEMMA PopKeepsObjFrames ==
    ASSUME NEW st \in Seq(Frame), st # <<>>, ObjFrames(st)
    PROVE  /\ ObjFrames(SubSeq(st, 1, Len(st) - 1))
           /\ st[Len(st)].type # "Sessions" => st[Len(st)].obj \in Handles
<1>1. Len(st) \in Nat \ {0}
    BY EmptySeq
<1>2. \A i \in 1..(Len(st) - 1) : st[i] \in Frame
    BY <1>1, ElementOfSeq
<1>3. /\ Len(SubSeq(st, 1, Len(st) - 1)) = Len(st) - 1
      /\ \A i \in 1..(Len(st) - 1) - 1 + 1 : SubSeq(st, 1, Len(st) - 1)[i] = st[1 + i - 1]
    BY <1>1, <1>2, StackOps, SubSeqProperties
<1>4. QED
    BY <1>1, <1>3 DEF ObjFrames

LEMMA NextObjFrames == TypeOK /\ ObjFrames(stack) /\ [Next]_vars => ObjFrames(stack')
<1> SUFFICES ASSUME TypeOK, ObjFrames(stack), [Next]_vars PROVE ObjFrames(stack')
    OBVIOUS
<1>1. ASSUME NEW s \in SlotValue, EnterSessions(s) PROVE ObjFrames(stack')
    <2>1. [type |-> "Sessions", obj |-> NoHandle, saved |-> sessions] \in Frame
        BY FramesTyped DEF TypeOK, FrameType
    <2>2. QED
        BY <1>1, <2>1, PushKeepsObjFrames DEF EnterSessions, TypeOK
<1>2. CASE EnterNullauth
    <2>1. nextTr \in Handles
        BY <1>2 DEF EnterNullauth, Created
    <2>2. [type |-> "Nullauth", obj |-> nextTr, saved |-> sessions] \in Frame
        BY <2>1, FramesTyped DEF TypeOK, FrameType
    <2>3. QED
        BY <1>2, <2>1, <2>2, PushKeepsObjFrames DEF EnterNullauth, TypeOK
<1>3. ASSUME NEW h \in Handles, EnterTempObj(h) PROVE ObjFrames(stack')
    <2>1. [type |-> "TempObj", obj |-> h, saved |-> sessions] \in Frame
        BY FramesTyped DEF TypeOK, FrameType
    <2>2. QED
        BY <1>3, <2>1, PushKeepsObjFrames DEF EnterTempObj, TypeOK
<1>4. ASSUME NEW r \in Result, ExitSessions(r) \/ ExitNullauth(r) \/ ExitTempObj(r)
      PROVE  ObjFrames(stack')
    BY <1>4, PopKeepsObjFrames DEF ExitSessions, ExitNullauth, ExitTempObj, TypeOK, Pop
<1>5. QED
    BY <1>1, <1>2, <1>3, <1>4
    DEF Next, vars, CreateObject, StartAuthSession, TrFromTpmPublic, FlushContext,
        TrClose, SetSessions, ClearSessions, SlotsSet, NullauthSetupFails, Drop

\* The step TempScopeReleases constrains.
ReleasedOnOk ==
    ScopeReturned /\ Top.type \in {"Nullauth", "TempObj"} /\ lastExit'.result = "Ok"
        => /\ esys'[Top.obj] = "Released"
           /\ Top.obj \notin loaded'

\* A step that keeps the stack or pushes on it returns from no scope.
LEMMA NoReturnWithoutPop ==
    ASSUME TypeOK, \/ stack' = stack
                   \/ \E f \in Frame : stack' = Append(stack, f)
    PROVE  ~ScopeReturned
<1>1. Len(stack) \in Nat
    BY DEF TypeOK
<1>2. Len(stack') \in {Len(stack), Len(stack) + 1}
    BY StackOps DEF TypeOK
<1>3. QED
    BY <1>1, <1>2 DEF ScopeReturned

LEMMA StepReleasedOnOk ==
    TypeOK /\ ObjFrames(stack) /\ [Next]_vars => [ReleasedOnOk]_vars
<1> SUFFICES ASSUME TypeOK, ObjFrames(stack), [Next]_vars PROVE [ReleasedOnOk]_vars
    OBVIOUS
<1>1. ASSUME NEW r \in Result, ExitNullauth(r) \/ ExitTempObj(r) PROVE ReleasedOnOk
    <2>1. stack # <<>> /\ Top.type \in {"Nullauth", "TempObj"}
        BY <1>1 DEF ExitNullauth, ExitTempObj
    <2>2. Top.obj \in Handles
        BY <2>1, PopKeepsObjFrames DEF TypeOK, Top
    <2>3. ReleaseOnReturn(Top.obj, r)
        BY <1>1 DEF ExitNullauth, ExitTempObj
    <2>4. CASE Flushed(Top.obj)
        BY <2>2, <2>4 DEF Flushed, ReleasedOnOk, TypeOK
    <2>5. CASE UNCHANGED <<esys, loaded, reg>> /\ lastExit' = [body |-> r, result |-> "FlushErr"]
        BY <2>5 DEF ReleasedOnOk
    <2>6. QED
        BY <2>3, <2>4, <2>5 DEF ReleaseOnReturn
<1>2. ASSUME NEW r \in Result, ExitSessions(r) PROVE ReleasedOnOk
    BY <1>2 DEF ExitSessions, ReleasedOnOk
<1>3. ASSUME \/ stack' = stack
             \/ \E f \in Frame : stack' = Append(stack, f)
      PROVE  ReleasedOnOk
    BY <1>3, NoReturnWithoutPop DEF ReleasedOnOk
<1>4. ASSUME NEW s \in SlotValue, EnterSessions(s) PROVE ReleasedOnOk
    <2>1. [type |-> "Sessions", obj |-> NoHandle, saved |-> sessions] \in Frame
        BY FramesTyped DEF TypeOK, FrameType
    <2>2. QED
        BY <1>3, <1>4, <2>1 DEF EnterSessions
<1>5. CASE EnterNullauth
    <2>1. [type |-> "Nullauth", obj |-> nextTr, saved |-> sessions] \in Frame
        BY <1>5, FramesTyped DEF TypeOK, FrameType, EnterNullauth, Created
    <2>2. QED
        BY <1>3, <1>5, <2>1 DEF EnterNullauth
<1>6. ASSUME NEW h \in Handles, EnterTempObj(h) PROVE ReleasedOnOk
    <2>1. [type |-> "TempObj", obj |-> h, saved |-> sessions] \in Frame
        BY FramesTyped DEF TypeOK, FrameType
    <2>2. QED
        BY <1>3, <1>6, <2>1 DEF EnterTempObj
<1>7. CASE UNCHANGED vars
    BY <1>7 DEF vars
<1>8. QED
    BY <1>1, <1>2, <1>3, <1>4, <1>5, <1>6, <1>7
    DEF Next, CreateObject, StartAuthSession, TrFromTpmPublic, FlushContext,
        TrClose, SetSessions, ClearSessions, SlotsSet, NullauthSetupFails, Drop

\* For every nesting depth and pool size, execute_with_temporary_object and
\* execute_with_nullauth_session return a success only when the trailing
\* flush_context released their object or session: a failed flush is never
\* reported as Ok, whatever the closure did to the resource.
THEOREM TempScopesRelease == Spec => TempScopeReleases
<1>1. Init => TypeOK /\ ObjFrames(stack)
    BY InitTypeOK DEF Init, ObjFrames
<1>2. TypeOK /\ ObjFrames(stack) /\ [Next]_vars => (TypeOK /\ ObjFrames(stack))'
    BY NextTypeOK, NextObjFrames
<1>3. TypeOK /\ ObjFrames(stack) /\ [Next]_vars => [ReleasedOnOk]_vars
    BY StepReleasedOnOk
<1>4. QED
    BY <1>1, <1>2, <1>3, PTL DEF Spec, TempScopeReleases, ReleasedOnOk

=============================================================================
