------------------------------- MODULE Context -------------------------------
(***************************************************************************)
(* The Context of tss-esapi (src/tss-esapi/src/context.rs): one ESYS       *)
(* context, its three session slots, the handle manager that tracks every  *)
(* ESYS_TR created through it, the scoped execution helpers whose closures *)
(* run arbitrary further context operations, and the teardown of Drop.     *)
(*                                                                         *)
(* The ESAPI and the TPM below it are part of the state: for every ESYS_TR *)
(* identifier, esys says what it refers to, and loaded is the set of       *)
(* volatile resources (objects, sessions) the TPM holds for this context.  *)
(* A closure passed to execute_with_* is an arbitrary sequence of context  *)
(* operations: the scope is entered, any actions may follow (nested scopes *)
(* included, up to MaxDepth), and the closure returns Ok or Err.           *)
(***************************************************************************)
EXTENDS Naturals, Sequences, FiniteSets, HandleManager

CONSTANTS
    MaxHandles,        \* ESYS_TR identifiers ESYS hands out during one run
    TpmSlots,          \* volatile objects and sessions the TPM can hold
    MaxDepth,          \* nesting depth of execute_with_* closures
    PersistentHandles, \* TPM handles of persistent objects and NV indices
    NoSession,         \* None in a session slot
    PasswordSession    \* Some(AuthSession::Password)

Handles == 1..MaxHandles

NoHandle == 0

ASSUME ConstantsAssumption ==
    /\ MaxHandles \in Nat \ {0}
    /\ TpmSlots \in Nat
    /\ MaxDepth \in Nat
    /\ NoSession \notin 0..MaxHandles
    /\ PasswordSession \notin 0..MaxHandles
    /\ NoSession # PasswordSession

\* What a session slot holds: None, the password session, or a session ESYS_TR.
SlotValue == {NoSession, PasswordSession} \cup Handles

SlotTriple == SlotValue \X SlotValue \X SlotValue

NoSessions == <<NoSession, NoSession, NoSession>>

\* What an ESYS_TR identifier refers to.  "Released" once flushed or closed.
EsysState == {"Unused", "Object", "Session", "External", "Released"}

Volatile == {"Object", "Session"}

Live == Volatile \cup {"External"}

\* The disposition the code registers for each kind of ESYS_TR.
DispositionOf(s) ==
    CASE s \in Volatile   -> "Flush"
      [] s = "External"   -> "Close"
      [] OTHER            -> NotTracked

FrameType == {"Sessions", "Nullauth", "TempObj"}

\* A closure in progress: which helper opened it, the object or session it
\* must flush on return, and the session triple it must restore.
Frame == [type : FrameType, obj : Handles \cup {NoHandle}, saved : SlotTriple]

Result == {"Ok", "Err"}

ExitRecord == [body : Result \cup {"none"}, result : Result \cup {"FlushErr", "none"}]

NoExit == [body |-> "none", result |-> "none"]

VARIABLES
    esys,           \* ESYS_TR identifier -> what it refers to
    loaded,         \* volatile resources the TPM holds
    persistentTr,   \* TPM persistent handle -> the ESYS_TR ESYS keeps for it
    nextTr,         \* next ESYS_TR identifier ESYS will hand out
    reg,            \* the handle manager's registry
    sessions,       \* Context.sessions
    stack,          \* closures in progress, innermost last
    phase,          \* "Open" until Drop has run
    topSessions,    \* history: the slots as the outermost caller set them
    lastExit,       \* history: what the last returning scope returned
    teardownFailed  \* history: the release calls of Drop the TPM refused

vars == <<esys, loaded, persistentTr, nextTr, reg, sessions, stack, phase,
          topSessions, lastExit, teardownFailed>>

-----------------------------------------------------------------------------
(* Helpers *)

Top == stack[Len(stack)]

Pop == SubSeq(stack, 1, Len(stack) - 1)

HeldHandles == {h \in Handles : esys[h] # "Unused"}

\* The sessions callers pass: None, the password session, or an AuthSession
\* made from a session handle.  The triples passed are (s, None, None), as
\* execute_with_session and execute_without_session build them.
SessionChoice(s) ==
    \/ s \in {NoSession, PasswordSession}
    \/ s \in Handles /\ esys[s] = "Session"

InSessionScope == \E i \in 1..Len(stack) : stack[i].type \in {"Sessions", "Nullauth"}

\* ESYS accepts a session argument when it is None, the password session or
\* a live session; a required slot (required_session_1) must not be None.
SessionUsable(s) == s = PasswordSession \/ (s \in Handles /\ esys[s] = "Session")

CallSessionsValid(required) ==
    /\ required => sessions[1] # NoSession
    /\ \A i \in 1..3 : sessions[i] # NoSession => SessionUsable(sessions[i])

\* Variant of Created with an off-by-one bound on the identifier pool
\* (detected by TypeOK).
CreatedPastPool(k) ==
    /\ nextTr \in 1..(MaxHandles + 1)
    /\ Cardinality(loaded) < TpmSlots
    /\ esys' = [esys EXCEPT ![nextTr] = k]
    /\ loaded' = loaded \cup {nextTr}
    /\ reg' = AddHandle(reg, nextTr, "Flush")
    /\ nextTr' = nextTr + 1

\* Variant of Created in which ESYS hands out the last identifier again
\* (detected by LifecycleRefined).
CreatedStaleCounter(k) ==
    /\ nextTr \in Handles
    /\ Cardinality(loaded) < TpmSlots
    /\ esys' = [esys EXCEPT ![nextTr] = k]
    /\ loaded' = loaded \cup {nextTr}
    /\ reg' = AddHandle(reg, nextTr, "Flush")
    /\ nextTr' = nextTr

\* A new volatile ESYS_TR of kind k is created by the TPM and registered.
Created(k) ==
    /\ nextTr \in Handles
    /\ Cardinality(loaded) < TpmSlots
    /\ esys' = [esys EXCEPT ![nextTr] = k]
    /\ loaded' = loaded \cup {nextTr}
    /\ reg' = AddHandle(reg, nextTr, "Flush")
    /\ nextTr' = nextTr + 1

\* Variant of Flushed that forgets to tell the handle manager
\* (detected by RegistryExact).
FlushedUntracked(h) ==
    /\ esys[h] \in Volatile
    /\ esys' = [esys EXCEPT ![h] = "Released"]
    /\ loaded' = loaded \ {h}
    /\ reg' = reg

\* flush_context(h) succeeds: the TPM forgets h and so does the manager.
Flushed(h) ==
    /\ esys[h] \in Volatile
    /\ esys' = [esys EXCEPT ![h] = "Released"]
    /\ loaded' = loaded \ {h}
    /\ reg' = RemoveHandle(reg, h)

-----------------------------------------------------------------------------
(* Operations *)

Init ==
    /\ esys = [h \in Handles |-> "Unused"]
    /\ loaded = {}
    /\ persistentTr = [p \in PersistentHandles |-> NoHandle]
    /\ nextTr = 1
    /\ reg = [h \in Handles |-> NotTracked]
    /\ sessions = NoSessions
    /\ stack = <<>>
    /\ phase = "Open"
    /\ topSessions = NoSessions
    /\ lastExit = NoExit
    /\ teardownFailed = {}

\* create_primary / load: a command with required_session_1 that creates a
\* transient object, registered for flushing.
CreateObject ==
    /\ phase = "Open"
    /\ CallSessionsValid(TRUE)
    /\ Created("Object")
    /\ UNCHANGED <<persistentTr, sessions, stack, phase, topSessions, lastExit,
                   teardownFailed>>

\* start_auth_session: optional sessions, the new session registered for flushing.
StartAuthSession ==
    /\ phase = "Open"
    /\ CallSessionsValid(FALSE)
    /\ Created("Session")
    /\ UNCHANGED <<persistentTr, sessions, stack, phase, topSessions, lastExit,
                   teardownFailed>>

\* tr_from_tpm_public(p): a new ESYS_TR registered for closing.  When ESYS
\* already has one for p it returns it again and add_handle(h, Close) is
\* idempotent: that call changes no state and is a stuttering step.
TrFromTpmPublic(p) ==
    /\ phase = "Open"
    /\ CallSessionsValid(FALSE)
    /\ persistentTr[p] = NoHandle
    /\ nextTr \in Handles
    /\ esys' = [esys EXCEPT ![nextTr] = "External"]
    /\ persistentTr' = [persistentTr EXCEPT ![p] = nextTr]
    /\ reg' = AddHandle(reg, nextTr, "Close")
    /\ nextTr' = nextTr + 1
    /\ UNCHANGED <<loaded, sessions, stack, phase, topSessions, lastExit,
                   teardownFailed>>

\* flush_context(h); on a failure (external or released handle, TPM error)
\* nothing changes.
FlushContext(h) ==
    /\ phase = "Open"
    /\ Flushed(h)
    /\ UNCHANGED <<persistentTr, nextTr, sessions, stack, phase, topSessions,
                   lastExit, teardownFailed>>

\* tr_close(h): ESYS forgets h and the manager removes it; a volatile
\* resource behind it stays in the TPM.
TrClose(h) ==
    /\ phase = "Open"
    /\ esys[h] \in Live
    /\ esys' = [esys EXCEPT ![h] = "Released"]
    /\ reg' = RemoveHandle(reg, h)
    /\ persistentTr' = [p \in PersistentHandles |->
                          IF persistentTr[p] = h THEN NoHandle ELSE persistentTr[p]]
    /\ UNCHANGED <<loaded, nextTr, sessions, stack, phase, topSessions, lastExit,
                   teardownFailed>>

\* Context.sessions is replaced by t (set_sessions, clear_sessions).
SlotsSet(t) ==
    /\ sessions' = t
    /\ topSessions' = IF InSessionScope THEN topSessions ELSE t
    /\ UNCHANGED <<esys, loaded, persistentTr, nextTr, reg, stack, phase, lastExit,
                   teardownFailed>>

\* set_sessions((s, None, None)); the all-None triple is clear_sessions.
SetSessions(s) ==
    /\ phase = "Open"
    /\ s # NoSession
    /\ SessionChoice(s)
    /\ SlotsSet(<<s, NoSession, NoSession>>)

ClearSessions ==
    /\ phase = "Open"
    /\ SlotsSet(NoSessions)

\* execute_with_sessions((s, None, None), f) (execute_with_session,
\* execute_without_session) up to the call of f: save and substitute.
EnterSessions(s) ==
    /\ phase = "Open"
    /\ Len(stack) < MaxDepth
    /\ SessionChoice(s)
    /\ stack' = Append(stack, [type |-> "Sessions", obj |-> NoHandle, saved |-> sessions])
    /\ sessions' = <<s, NoSession, NoSession>>
    /\ UNCHANGED <<esys, loaded, persistentTr, nextTr, reg, phase, topSessions,
                   lastExit, teardownFailed>>

\* f returns r: the saved triple is restored and r returned.
ExitSessions(r) ==
    /\ phase = "Open"
    /\ stack # <<>>
    /\ Top.type = "Sessions"
    /\ sessions' = Top.saved
    /\ stack' = Pop
    /\ lastExit' = [body |-> r, result |-> r]
    /\ UNCHANGED <<esys, loaded, persistentTr, nextTr, reg, phase, topSessions,
                   teardownFailed>>

\* execute_with_nullauth_session(f) up to the call of f: start an HMAC
\* session (with the current slots as its optional sessions), set its
\* attributes, and enter execute_with_session(Some(session), f).
EnterNullauth ==
    /\ phase = "Open"
    /\ Len(stack) < MaxDepth
    /\ CallSessionsValid(FALSE)
    /\ Created("Session")
    /\ stack' = Append(stack, [type |-> "Nullauth", obj |-> nextTr, saved |-> sessions])
    /\ sessions' = <<nextTr, NoSession, NoSession>>
    /\ UNCHANGED <<persistentTr, phase, topSessions, lastExit, teardownFailed>>

\* execute_with_nullauth_session when tr_sess_set_attributes fails: the `?`
\* returns the error before f is called, and the session just started stays
\* loaded and registered until someone flushes it or Drop does.
NullauthSetupFails ==
    /\ phase = "Open"
    /\ CallSessionsValid(FALSE)
    /\ Created("Session")
    /\ lastExit' = [body |-> "none", result |-> "Err"]
    /\ UNCHANGED <<persistentTr, sessions, stack, phase, topSessions, teardownFailed>>

\* Variant that ignores a failed flush and returns the closure's result
\* (detected by TempScopeReleases).
ReleaseIgnoringError(h, r) ==
    /\ \/ Flushed(h)
       \/ UNCHANGED <<esys, loaded, reg>>
    /\ lastExit' = [body |-> r, result |-> r]

\* Both temporary scopes end with flush_context(obj)?: a failed flush
\* replaces the closure's result by the flush error.
ReleaseOnReturn(h, r) ==
    \/ /\ Flushed(h)
       /\ lastExit' = [body |-> r, result |-> r]
    \/ /\ UNCHANGED <<esys, loaded, reg>>
       /\ lastExit' = [body |-> r, result |-> "FlushErr"]

\* Variant that flushes the session without restoring the slots
\* (detected by SessionsRestored).
ExitNullauthNoRestore(r) ==
    /\ phase = "Open"
    /\ stack # <<>>
    /\ Top.type = "Nullauth"
    /\ sessions' = sessions
    /\ stack' = Pop
    /\ ReleaseOnReturn(Top.obj, r)
    /\ UNCHANGED <<persistentTr, nextTr, phase, topSessions, teardownFailed>>

\* f returns r inside execute_with_nullauth_session: the slots are restored
\* by execute_with_session, then the session is flushed.
ExitNullauth(r) ==
    /\ phase = "Open"
    /\ stack # <<>>
    /\ Top.type = "Nullauth"
    /\ sessions' = Top.saved
    /\ stack' = Pop
    /\ ReleaseOnReturn(Top.obj, r)
    /\ UNCHANGED <<persistentTr, nextTr, phase, topSessions, teardownFailed>>

\* execute_with_temporary_object(h, f) up to the call of f.
EnterTempObj(h) ==
    /\ phase = "Open"
    /\ Len(stack) < MaxDepth
    /\ h \in HeldHandles
    /\ stack' = Append(stack, [type |-> "TempObj", obj |-> h, saved |-> sessions])
    /\ UNCHANGED <<esys, loaded, persistentTr, nextTr, reg, sessions, phase,
                   topSessions, lastExit, teardownFailed>>

\* f returns r inside execute_with_temporary_object: flush the object.
ExitTempObj(r) ==
    /\ phase = "Open"
    /\ stack # <<>>
    /\ Top.type = "TempObj"
    /\ stack' = Pop
    /\ ReleaseOnReturn(Top.obj, r)
    /\ UNCHANGED <<persistentTr, nextTr, sessions, phase, topSessions, teardownFailed>>

\* Variant of Drop without the loop over handles_to_close
\* (detected by TeardownLeavesOnlyFailures).
DropFlushOnly ==
    /\ phase = "Open"
    /\ stack = <<>>
    /\ \E failed \in SUBSET HandlesToFlush(reg) :
         LET flushed == {h \in HandlesToFlush(reg) \ failed : esys[h] \in Volatile}
         IN /\ esys' = [h \in Handles |-> IF h \in flushed THEN "Released" ELSE esys[h]]
            /\ loaded' = loaded \ flushed
            /\ reg' = [h \in Handles |-> IF h \in flushed THEN NotTracked ELSE reg[h]]
            /\ persistentTr' = persistentTr
            /\ teardownFailed' = failed
    /\ phase' = "Closed"
    /\ UNCHANGED <<nextTr, sessions, stack, topSessions, lastExit>>

\* Drop: flush every handle of handles_to_flush, close every handle of
\* handles_to_close, each attempt may fail without stopping the sweep, then
\* Esys_Finalize.  No closure can be running: f holds the &mut Context.
Drop ==
    /\ phase = "Open"
    /\ stack = <<>>
    /\ \E failed \in SUBSET (HandlesToFlush(reg) \cup HandlesToClose(reg)) :
         LET flushed == {h \in HandlesToFlush(reg) \ failed : esys[h] \in Volatile}
             closed  == {h \in HandlesToClose(reg) \ failed : esys[h] \in Live}
             done    == flushed \cup closed
         IN /\ esys' = [h \in Handles |-> IF h \in done THEN "Released" ELSE esys[h]]
            /\ loaded' = loaded \ flushed
            /\ reg' = [h \in Handles |-> IF h \in done THEN NotTracked ELSE reg[h]]
            /\ persistentTr' = [p \in PersistentHandles |->
                                  IF persistentTr[p] \in closed THEN NoHandle
                                  ELSE persistentTr[p]]
            /\ teardownFailed' = failed
    /\ phase' = "Closed"
    /\ UNCHANGED <<nextTr, sessions, stack, topSessions, lastExit>>

Next ==
    \/ CreateObject
    \/ StartAuthSession
    \/ \E p \in PersistentHandles : TrFromTpmPublic(p)
    \/ \E h \in Handles : FlushContext(h) \/ TrClose(h) \/ EnterTempObj(h)
    \/ \E s \in SlotValue : SetSessions(s) \/ EnterSessions(s)
    \/ ClearSessions
    \/ EnterNullauth
    \/ NullauthSetupFails
    \/ \E r \in Result : ExitSessions(r) \/ ExitNullauth(r) \/ ExitTempObj(r)
    \/ Drop

Spec == Init /\ [][Next]_vars

-----------------------------------------------------------------------------
(* Properties *)

TypeOK ==
    /\ esys \in [Handles -> EsysState]
    /\ loaded \in SUBSET Handles
    /\ persistentTr \in [PersistentHandles -> Handles \cup {NoHandle}]
    /\ nextTr \in 1..(MaxHandles + 1)
    /\ reg \in [Handles -> RegistryEntry]
    /\ sessions \in SlotTriple
    /\ stack \in Seq(Frame)
    /\ phase \in {"Open", "Closed"}
    /\ topSessions \in SlotTriple
    /\ lastExit \in ExitRecord
    /\ teardownFailed \in SUBSET Handles

\* The handle manager tracks exactly the ESYS_TRs that are alive, each with
\* the disposition its kind needs, across creation, the repeated handle of
\* tr_from_tpm_public, explicit flush and close, closures and Drop.
RegistryExact == \A h \in Handles : reg[h] = DispositionOf(esys[h])

\* Outside every execute_with_sessions / execute_with_nullauth_session scope
\* the slots are those the caller set last at that level: no closure's
\* set_sessions, clear_sessions or substituted triple leaks out.
SessionsRestored == ~InSessionScope => sessions = topSessions

ScopeReturned == Len(stack') = Len(stack) - 1

\* execute_with_temporary_object and execute_with_nullauth_session return a
\* success only once their object or session is gone from the TPM.
TempScopeReleases ==
    [][ScopeReturned /\ Top.type \in {"Nullauth", "TempObj"} /\ lastExit'.result = "Ok"
         => /\ esys'[Top.obj] = "Released"
            /\ Top.obj \notin loaded']_vars

\* spec.md 8: a teardown sweep attempts one flush per handle of
\* handles_to_flush and one close per handle of handles_to_close, and
\* has_open_handles() then reflects only the entries whose release call the
\* TPM refused.  After Drop the registry holds exactly the handles whose
\* release the TPM refused: the sweep neither stops at a failure nor skips a
\* list, and no tracked handle is in a state where its release fails on its
\* own (a stale registry entry would stay tracked without a TPM error).
TeardownLeavesOnlyFailures ==
    phase = "Closed" => {h \in Handles : reg[h] # NotTracked} = teardownFailed

\* spec.md 4.2: in execute_with_nullauth_session a failure to flush the
\* session is reported but does not suppress the closure's own result.
NullauthKeepsBodyResult ==
    [][ScopeReturned /\ Top.type = "Nullauth" => lastExit'.result = lastExit'.body]_vars

-----------------------------------------------------------------------------
(* Refinement of the handle lifecycle *)

\* An identifier's place in its lifecycle, read off what ESYS holds for it.
LifeOf == [h \in Handles |->
             CASE esys[h] = "Unused"   -> "Unused"
               [] esys[h] = "Released" -> "Released"
               [] OTHER                -> DispositionOf(esys[h])]

Lifecycle == INSTANCE HandleLifecycle WITH Ids <- Handles, life <- LifeOf,
                                           open <- (phase = "Open")

\* The Context implements the handle lifecycle: every ESYS_TR it hands out
\* (create_primary, start_auth_session, tr_from_tpm_public, the nullauth
\* session) is fresh, keeps its disposition while live, is released at most
\* once by flush_context, tr_close or a scope's flush, and Drop releases the
\* live handles whose release succeeds, after which nothing happens.
LifecycleRefined == Lifecycle!Spec

\* The step property of the handle lifecycle (proved in ContextRefinement).
HandleLifeAdvances == Lifecycle!LifeAdvances

=============================================================================
