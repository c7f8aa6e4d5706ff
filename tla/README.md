# Formal models of tss-esapi's Context and FFI zeroization

This directory holds TLA+ models of two parts of `src/tss-esapi`:

- `src/context.rs`: the `Context`, with its session slots, scoped-execution helpers, handle registry, property cache and `Drop`.
- `src/ffi/data_zeroize.rs`: the `FfiDataZeroize` traversal.

It also holds the TLC configurations that check the models, the TLAPS proofs about the Context, and `PROJECT.json`. `PROJECT.json` maps every modelled definition to the source lines it translates, and lists the runs, mutants, findings and hazards.

## 1. The system

| Part | Source | What it holds / does |
|---|---|---|
| Context | `context.rs` 47-116 | One ESYS context, the triple `sessions` of optional `AuthSession`s, a `HandleManager`, and `cached_tpm_properties`. |
| Session slots | `context.rs` 169-236, 399-439 | `set_sessions`, `clear_sessions` and `sessions`. `optional_session_n` turns `None` into `ESYS_TR_NONE`. `required_session_n` turns `None` into `MissingAuthSession`. |
| Scoped helpers | `context.rs` 239-328 | `execute_with_sessions` saves the slots, substitutes a triple, runs `f`, and restores the slots. `execute_with_session` and `execute_without_session` wrap it. `execute_with_nullauth_session` starts an HMAC session, sets its attributes, runs `f` with it, then flushes it with `?`. `execute_with_temporary_object` runs `f`, then flushes the object with `?`. |
| Handle manager | `context/handle_manager.rs` (not in `src/`) | ESYS_TR → Flush/Close disposition. It offers `add_handle`, `remove_handle`, `handles_to_flush` and `handles_to_close`. |
| Property cache | `context.rs` 357-383 | `get_tpm_property` first tries the cache. On a miss it queries four properties starting at the tag and inserts all of them, then answers from the cache. |
| Drop | `context.rs` 452-489 | Flushes every Flush handle, then closes every Close handle. Errors are logged and the sweep continues. Then `has_open_handles`, then `Esys_Finalize`. |
| Zeroization | `data_zeroize.rs` 23-370 | Zeroizes TPM2B, TPMS, TPML and ticket types field by field. The TPMT impls first decode a discriminant with `try_from`, then wipe the members of its union arm, then wipe the discriminant. `TPMT_PUBLIC` wipes its discriminant only inside the `if let`. |

How the parts interact:

- Every command wrapper creates or releases ESYS_TRs and updates the handle manager.
- A closure passed to a scoped helper receives `&mut Context`. It can therefore run any operation, including set/clear sessions, flush, close and further nested helpers, before it returns `Ok` or `Err`.
- `get_tpm_property` runs its query through `execute_without_session`.
- Drop consumes the registry that all of the above maintained.

There is no concurrency. `&mut self` serialises every call (spec.md 5). The hard behaviours are therefore:

- sequences: nested closures that change the state the helper saved;
- partial failures: a flush that fails after the closure, or a release that fails in the Drop sweep;
- data the TPM chooses: over-fetched and variable properties, and discriminants that do not decode.

## 2. Modules

| Module | Models | Kind |
|---|---|---|
| `HandleManager` | Registry operators (spec_modelled, from spec.md 4.1) | operators |
| `HandleManagerProofs` | Lemmas on the registry operators: the two lists split the tracked handles; what `add_handle` and `remove_handle` do to them | lemmas |
| `Context` | Context: handles, slots, scoped helpers, Drop | state machine |
| `HandleLifecycle` | What a Context promises of its ESYS_TRs: the abstract specification | state machine |
| `MCContext` | Context with 3 ESYS_TRs, 2 TPM slots, depth 2; 4 ESYS_TRs, depth 1 for the lifecycle | TLC instance |
| `ContextProofs` | TLAPS proofs of every property of `context_core`: `TypeOK`, `RegistryExact`, `SessionsRestored`, `TeardownLeavesOnlyFailures`, `TempScopeReleases` | theorems |
| `HandleLifecycleProofs` | TLAPS proofs that the abstract lifecycle is well typed and only moves forward (`LifeAdvances`) | theorems |
| `ContextRefinement` | TLAPS proof that `Context` implements `HandleLifecycle`, and `LifeAdvances` carried over (`HandleLifeAdvances`) | theorems |
| `PropertyCache` | `get_tpm_property` against a TPM | state machine |
| `FixedPropertyCache` | What the cache promises for the properties the TPM never changes (spec.md 3): the abstract specification | state machine |
| `FixedPropertyCacheProofs` | TLAPS proof that the abstract cache is never invalidated | theorems |
| `PropertyCacheProofs` | TLAPS proofs of every property of `propcache`: `TypeOK`, `FixedCacheRefined`; that a fixed property is answered with the TPM's value (`GetReturnsTpmValue`) and that fixed entries never change | theorems |
| `MCPropertyCache` | 5 tags, queries of 4, tag 5 variable | TLC instance |
| `Zeroize` | `FfiDataZeroize` as a call-by-call interpreter over a cell-level memory | state machine + reference |
| `ZeroizeEngine` | The same traversal with the layout as constant operators (`CellsOf`, `BodyOf`, `DispatchOf`), and `LayoutSound`, what its proofs need of a layout | state machine |
| `ZeroizeEngineProofs` | TLAPS proofs that for every sound layout no call leaves the value and every match reads a pristine discriminant | theorems |

### Context

**State.** The state represents both the ESAPI and the Context:

- `esys[h]` records what ESYS_TR `h` refers to: Unused, Object, Session, External or Released.
- `loaded` is the set of volatile resources the TPM holds.
- `persistentTr` gives the ESYS_TR that ESYS keeps for each persistent TPM handle. It matters because `Esys_TR_FromTPMPublic` returns the same ESYS_TR again.
- `nextTr` is the next identifier ESYS will hand out.
- `reg` is the handle manager: a total function whose missing keys are `NotTracked`.
- `sessions` is the slot triple.
- `stack` holds the closures in progress, one frame per helper call. A frame records the helper, the object or session it must flush, and the triple it must restore.
- `phase` is Open or Closed.
- Three history variables feed the properties:
  - `topSessions`: the slots as the caller outside all scopes set them;
  - `lastExit`: the closure result and the helper result of the last scope to return;
  - `teardownFailed`: the release calls of Drop the TPM refused, an input of the Drop step.

**Actions.** Each action is one whole handler:

- `CreateObject` and `StartAuthSession` call a command with the slots, create a volatile resource and register it for Flush.
- `TrFromTpmPublic` registers a Close handle.
- `FlushContext` and `TrClose` release a handle explicitly.
- `SetSessions` and `ClearSessions` set the slots.
- Each scoped helper has an `Enter*` action, up to the call of `f`, and an `Exit*(r)` action from `f` returning `r` to the helper's return. Both failure outcomes of the trailing flush are included.
- `NullauthSetupFails` is the `?` of `tr_sess_set_attributes`.
- `Drop` performs the sweep. The release calls the TPM refuses are any subset of the two lists, chosen nondeterministically and recorded in `teardownFailed`. Which handles the sweep actually releases is computed from the lists and the ESYS state, as the code's two loops do: a flush needs a live volatile handle and a close a live one, whatever the TPM says.

**What is left out.** Failures that change nothing (a command error, a full TPM) are stutter steps and are left out. The commands themselves live outside `src/` and are modelled from spec.md 4.1; `PROJECT.json` marks them `spec_modelled`.

### HandleLifecycle and the refinement

`HandleLifecycle` abstracts away sessions, closures and the TPM. Each identifier in `life` is Unused until one `Acquire(h, d)` gives it the disposition `d` it keeps while live. `Release(h)` ends a live handle, one at a time. `Teardown` releases every live handle except any subset whose release fails, and closes the abstract context (`open`), after which no action is enabled.

`Context` defines the refinement mapping:

- `LifeOf` reads each identifier's place off `esys`. A volatile resource maps to Flush and an external one to Close.
- `open` is `phase = "Open"`.
- `Lifecycle == INSTANCE HandleLifecycle WITH ...`, and the property `LifecycleRefined` is `Lifecycle!Spec`.

Under this mapping:

- creating an object or session, the nullauth session and `tr_from_tpm_public` are `Acquire`s;
- `flush_context`, `tr_close` and a scope's successful trailing flush are `Release`s;
- Drop is `Teardown`;
- every other step is an abstract stutter.

`LifeAdvances` is the action property `[][Advance]_<<life, open>>`: an identifier moves from Unused to a disposition, or from a disposition to Released, or not at all, and nothing moves once `open` is false. `HandleLifeAdvances` in `Context` is the same property under the mapping. It says that an ESYS_TR keeps its flush or close disposition until released and is never handed out again. It follows from `LifecycleRefined` and `LifeAdvances`, so it is proved (below) rather than checked by a run of its own.

The refinement implies the part of spec.md 4.1 that the registry alone cannot show: `add_handle` is never called for a tracked identifier with another disposition.

### PropertyCache

**State.** `tpm` maps each tag to its value or `NoValue`. `cache` is `cached_tpm_properties`.

**Actions:**

- `GetCached` is the early return of a cache hit.
- `GetQueried` stores every property of the `Answer` and then reads the cache.
- `GetFails` covers a query error or `WrongValueFromTpm`.
- `TpmUpdates` models a TPM_PT_VAR property that changes.

`lastCall` and `tick` record each call for the action properties.

**Refinement.** `FixedPropertyCache` is spec.md 3's cache, for the properties the TPM never changes: `props` (the TPM's values, constant), `known` (the cache), `reply` (the last successful answer on such a property) and `tick`. A call is `Serve(p, S)` (answer the TPM's value of `p`) or `Other(S)` (a failure, or a call on a variable property). Either one may refill the entries of `S` from the TPM. `PropertyCache` maps `props`, `known` and `reply` to `tpm`, `cache` and `lastCall` restricted to `FixedTags == Tags \ VarTags` (`FixedProps`, `FixedKnown`, `FixedReply`). A query fills `Answer(p) ∩ FixedTags`, a hit or a failure fills nothing, and `TpmUpdates` is a stutter. `FixedCacheRefined == FixedCache!Spec` states the refinement. It fails for the variable tags, as `propcache_stale` shows, and that is why the abstract cache leaves them out.

### Zeroize

**Memory model.** A value is a sequence of cells. A scalar or byte array is one cell, a struct lays its fields out in C order, and union members overlap from the union's first cell. `Layout` and `Members` follow `tss2_tpm2_types.h`.

**The code.** The code is represented by three tables:

- `Code`: the impls without a discriminant, in their call order, taken from the macros;
- `*Arms`: the match arms of each TPMT impl;
- `Body`: the shape of an impl, in particular where it wipes the discriminant.

`Wipe`, `Walk` and `Decode` execute one call at a time from the stack `work`.

**The reference.** `Selects` is written independently from TPM 2.0 Part 2's selector tables. It says which union member a discriminant makes active. `Reached` walks the active fields.

**The generic engine.** `ZeroizeEngine` states the traversal once more, with the layout abstracted:

- `CellsOf(x)` gives the cells of the value a call `x` is about;
- `BodyOf(x)` gives the calls of a walk;
- `DispatchOf(x, v)` gives the calls of a decode whose discriminant is `v`.

Its `Wipe`, `Walk` and `Decode` are the same three steps. `LayoutSound` is what its proofs need of a layout. The calls of every impl and every match arm stay inside the value (`Nested`), and none of them zeroes a cell that a later one of them still reads (a walk or a decode reads its whole value, a wipe reads nothing). A decode's discriminant lies in its value. `Zeroize` instantiates the engine with its own tables (`Engine`, over the calls `EngineTasks` that fit in the largest root). `Zeroize`'s `Wipe`, `Walk` and `Decode` are the engine's under this substitution, textually, so the engine's theorems apply to the crate's traversal exactly when the layout is sound and the traversal's calls are engine calls. `EngineLayoutSound` states both; TLC evaluates `LayoutSound` for every call that fits and every cell value.

**Inputs.** `Inputs` enumerates every value the TPM can return for the root types:

- every discriminant of each table, nested ones included, plus one `Reserved` value;
- each union filled with its selected member, the remaining cells holding Data.

## 3. Runs

| Run | cfg | Expect | Shows |
|---|---|---|---|
| context_core | `MCContext.cfg` | pass | Covers `TypeOK`, `RegistryExact`, `SessionsRestored`, `TeardownLeavesOnlyFailures` (after Drop the registry holds exactly the handles whose release the TPM refused) and `TempScopeReleases`. About 780k states, 30 s. |
| context_lifecycle | `MCContextLifecycle.cfg` | pass | `LifecycleRefined`: Context implements `HandleLifecycle`. 4 ESYS_TRs, closures one deep, 182k states, about 70 s. |
| context_nullauth_result | `MCContextNullauth.cfg` | violation | A failed session flush replaces f's result (context.rs:312). spec.md 4.2 says it does not. |
| propcache | `MCPropertyCache.cfg` | pass | `FixedCacheRefined`: on the fixed properties the cache implements `FixedPropertyCache`; in particular a fixed property is always answered with the TPM's value, whatever earlier over-fetches cached. 22.8k states, 15 s. |
| propcache_stale | `MCPropertyCacheStale.cfg` | violation | A later over-fetch overwrites a cached TPM_PT_VAR value (context.rs:374). spec.md 3 says cached values are immutable. |
| propcache_requery | `MCPropertyCacheRequery.cfg` | violation | A tag without a value is queried on every call (context.rs:382). spec.md 8 says at most one query. |
| zeroize | `MCZeroize.cfg` | pass | Covers `ZeroizationComplete`, `UnknownPayloadUntouched` and `DiscriminantPristineAtDispatch` for four root types, 283 inputs, 8.9k states. |
| zeroize_engine | `MCZeroizeEngine.cfg` | pass | `EngineLayoutSound`: the crate's layout meets the hypothesis of the engine's theorems, and every call pending in the traversal of every input (TDES and reserved discriminants included) is an engine call. 10.6k states, 3 s. |
| zeroize_tdes | `MCZeroizeTdes.cfg` | violation | The empty `Tdes` arm (data_zeroize.rs:216) leaves the active `keyBits.sym`/`mode.sym`. |
| zeroize_unknown_public | `MCZeroizeUnknown.cfg` | violation | An undecodable `TPMT_PUBLIC.type_` is never zeroized (data_zeroize.rs:273). Every other TPMT impl does zeroize its discriminant. |

**The zeroize pass run.** It leaves out TDES inputs, because `zeroize_tdes` shows their gap. Every other discriminant of every table, and a reserved value at every level, are inputs.

**Mutants.** Every property of a passing run is broken by a mutant of the mapped code; `PROJECT.json` lists them. The mutations are:

- an off-by-one identifier pool;
- a flush that forgets the registry;
- a release that ignores the flush error;
- a nullauth exit without restore;
- a Drop without its close loop (breaking `TeardownLeavesOnlyFailures`);
- a cache fill with swapped fields (breaking `TypeOK` and `FixedCacheRefined`);
- an arm that addresses each field at the next field's offset;
- a Camellia arm that misses `mode`;
- a catch-all decode (breaking `UnknownPayloadUntouched`);
- a discriminant wiped before the match (breaking `DiscriminantPristineAtDispatch` and `EngineLayoutSound`);
- an ESYS that hands out its last identifier again, breaking `LifecycleRefined`.

### Bounds

- **Context:**
  - *3 ESYS_TRs and 2 TPM slots.* This allows an object and a session to be loaded at once, a third identifier for a persistent handle, and the TPM-full case.
  - *Closures nested 2 deep.* This is the smallest depth at which a scope runs inside a scope, which `SessionsRestored` needs.
  - *One persistent handle.* This suffices for the repeated `tr_from_tpm_public`.
  - With a fourth identifier the state space exceeds 30M states.
  - *The lifecycle run: 4 identifiers, closures 1 deep.* The handle lifecycle does not depend on nesting, because one scope already acquires and releases its handle. Four identifiers let Drop meet live Flush and Close handles after others were released explicitly, and let a persistent handle be re-fetched.
- **PropertyCache:** 5 tags with queries of 4 is the smallest instance in which two queries overlap on some tags and each misses others. Tag 5 is variable; values come from two elements plus `NoValue`.
- **Zeroize:** the real layouts, with byte arrays reduced to one cell and `TPML_PCR_SELECTION` reduced to two entries. The code treats all entries the same (`iter_mut().for_each`).

### Fairness and deadlock

No liveness property is checked. `ffi_data_zeroize` is one sequential call over a finite, acyclic layout: every `Walk` and `Decode` replaces a call by calls on the fields nested in its type, and the type nesting has no cycle, so its termination holds by the shape of the layout and says nothing about the code. No fairness is assumed for the Context: its operations are the caller's choice, and a caller may stop at any point. The runs that disable deadlock checking do so for these reasons:

- Drop ends the Context's life, so `MCContext` stops there.
- A call of `ffi_data_zeroize` returns when its work is done, so `Zeroize` stops there.

`MCPropertyCache` checks deadlock.

## 4. Proofs (`HandleManagerProofs`, `ContextProofs`, `ContextRefinement`, `PropertyCacheProofs`, `FixedPropertyCacheProofs`)

**Assumptions.** The proofs hold for every value of the constants that satisfies `ConstantsAssumption`:

- `MaxHandles` ≥ 1;
- `TpmSlots` and `MaxDepth` are naturals;
- the two session sentinels are distinct and are not identifiers.

**Theorems:**

- `TypeCorrect`: `Spec => []TypeOK`. It is proved from `InitTypeOK` and `NextTypeOK`. `NextTypeOK` has one step per action, plus helper steps for `Created`, `Flushed` and `ReleaseOnReturn`, which several actions share. Two lemmas support it:
  - `StackOps`: push and pop keep the closure stack a `Seq(Frame)`. It is proved with the `SequenceTheorems` facts `AppendProperties`, `SubSeqProperties` and `ElementOfSeq`.
  - `PredecessorLength`.
- `RegistryExactness`: `Spec => []RegistryExact`. The invariant is inductive only together with `TypeOK`, for two reasons:
  - the step for `Drop` needs it to know that a handle in `handles_to_flush` is volatile and one in `handles_to_close` is external;
  - the exits of the helpers need `TypeOK` to know that the frame's object is an identifier.

  The proof therefore shows `Init => TypeOK /\ RegistryExact` and that `TypeOK /\ RegistryExact` is preserved by `[Next]_vars`, and concludes by PTL. The lemmas `CreatedExact` and `FlushedExact` state, once, that creation and a flush keep every registry entry equal to `DispositionOf` the ESYS state.

- `TeardownExactness`: `Spec => []TeardownLeavesOnlyFailures`. After Drop the registry holds exactly the handles whose release the TPM refused. The invariant is inductive only together with `TypeOK` and `RegistryExact`:
  - `OnlyDropCloses` shows that every action but Drop runs on an open Context and leaves it open;
  - in the Drop step, `handles_to_flush ∪ handles_to_close` is exactly the set of tracked handles (`TrackedSplit`);
  - `ListsLive`: by `RegistryExact`, every handle on the flush list is a live volatile ESYS_TR and every one on the close list a live one, so every release the TPM does not refuse succeeds. Without the registry's exactness a stale entry, whose ESYS_TR was already released, would stay tracked after Drop with no refused call.
- `SessionsRestoration`: `Spec => []SessionsRestored`. `SessionsRestored` alone is not inductive: when the last session scope returns, the proof must know what that scope restores. The strengthening `SessionsInv` adds `OutermostSaved(stack, topSessions)`: the outermost session-type frame saved exactly the caller's triple. Two lemmas about any sequence of frames carry the proof:
  - `PushKeepsOutermost`: a push keeps the strengthening when a new outermost scope saves the caller's triple;
  - `PopKeepsOutermost`: a pop keeps it, and when no session scope is left, the popped one saved the caller's triple.

  TLC checked the strengthening on the `MCContext` instance before it was proved.
- `TempScopesRelease`: `Spec => TempScopeReleases`, an action property. The step lemma `StepReleasedOnOk` needs the invariant `ObjFrames`: every frame of a temporary scope names an identifier. Without it, a flush of the frame's object might not change `esys`. The proof splits on the actions:
  - an exit whose result is Ok went through the `Flushed` branch of `ReleaseOnReturn`;
  - `ExitSessions` returns from a scope of another type;
  - every other action keeps or pushes the stack, so by `NoReturnWithoutPop` it returns from no scope.
- `LifecycleRefinement` (in `ContextRefinement`): `Spec => LifecycleRefined`. The proof follows the standard form:
  - `InitRefines`: the initial state maps to `Lifecycle!Init`;
  - `NextRefines`: every step maps to a `Lifecycle!Next` step or a stutter;
  - PTL closes the proof.

  The invariant it needs is `Fresh`: every identifier at or above `nextTr` is unused. Without it, the abstract `Acquire`'s guard `life[h] = "Unused"` does not follow from ESYS handing out `nextTr`. The lemmas `CreationAcquires`, `ForgettingReleases`, `QuietStutters` and `DropTearsDown` state the four kinds of step once.

- `LifecycleTypeCorrect` and `LivesAdvance` (in `HandleLifecycleProofs`): the abstract lifecycle is well typed and satisfies `LifeAdvances`. The step lemma `StepAdvances` needs the type invariant, because `Acquire` and `Release` are `EXCEPT`s on a function over `Ids`.
- `HandleLivesAdvance` (in `ContextRefinement`): `Spec => HandleLifeAdvances`. It instantiates `HandleLifecycleProofs` under the refinement mapping (`LifecycleProofs`) and combines `LifecycleProofs!LivesAdvance` with `LifecycleRefinement`. Both instances of the abstract module expand to the same formulas, and PTL closes the proof.

**PropertyCache.** `PropertyCacheAssumption` requires `QueryCount` ≥ 1, `VarTags ⊆ Tags`, and that `NoValue` is not a value.

- `PropertyCacheTypeCorrect`: `Spec => []TypeOK`.
- `TpmValueReturned`: `Spec => GetReturnsTpmValue`, an action property. No run checks it on its own, since `FixedCacheRefined` implies it. It rests on the state invariant `FixedCached`: a fixed tag is cached with the TPM's value or not at all. That holds because every over-fetching query stores the TPM's current values, and only variable tags change afterwards. `FixedCached` was checked with TLC on the `MCPropertyCache` instance first. The query step needs the lemma `AnswerHasQueriedTag`: a query from tag `p` returns `p` whenever the TPM has a value for it, because no returned property precedes it (the cardinality of the empty set is 0 < `QueryCount`). When the TPM has no value for `p`, `p` is not in the answer and the call returns None. The proof closes with PTL, as for the Context.

- `FixedCacheRefinement`: `Spec => FixedCacheRefined`. It follows the same form as `LifecycleRefinement`, with `TypeOK /\ FixedCached` as the invariant. `FillsFixed` shows once that every call's update of the cache is a `Learn` of the fixed tags it filled. `CachedFixedIsTpm` and `QueriedFixedIsTpm` give the value a hit and a query return.
- `KnownNeverInvalidated` (in `FixedPropertyCacheProofs`): the abstract cache never changes a filled entry. Its inductive invariant is `KnownFromProps`: every entry is empty or the TPM's value.
- `FixedEntriesNeverChange`: `Spec => [][FixedEntryKept]_vars`. A cached fixed property of the code's `cached_tpm_properties` keeps its value. The proof instantiates the abstract theorem under the refinement mapping (`FixedCacheProofs!KnownNeverInvalidated`), combines it with `FixedCacheRefinement`, and translates the abstract step into the concrete one.

**Zeroize, through the generic engine.** The theorems of `ZeroizeEngineProofs` have the hypothesis `LayoutSound` and hold for every set of calls, every value set and every choice of layout operators that satisfy it:

- `CallsInBounds`: `Spec => []InBounds`. No pending call addresses a cell outside the value handed to `ffi_data_zeroize`.
- `DiscriminantReadPristine`: `Spec => []DiscriminantPristineAtDispatch`. Every match reads its discriminant while it still holds the value the ESAPI returned.

Both follow from `EngineInvariant`, whose inductive invariant `EInv` describes the stack of pending calls:

- it is a sequence of calls, and the cells hold values;
- every call lies inside the value (`BoundedSeq`);
- no call writes a cell that a later call reads (`OrderedSeq`);
- every cell a pending call reads is still pristine (`PristineSeq`).

The invariant is needed because the property is about one call, while the danger comes from the calls before it. The lemma `PushNested` shows once that replacing the first call by calls nested in it keeps the three stack conditions. A walk and a decode both do this, and the concatenation is reasoned about with `ConcatProperties` and `HeadTailProperties`. A wipe writes only the cells of the first call, which `OrderedSeq` keeps away from everything the rest of the stack reads.

For the crate itself the link is `EngineLayoutSound`, which the `zeroize_engine` run checks: the layout is sound and the traversal's calls are engine calls. `Zeroize`'s actions are the engine's by substitution, and the engine's `DiscriminantPristineAtDispatch` is the formula of the same name in `Zeroize`. TLAPS cannot make that last step itself, because `Zeroize` is RECURSIVE.

**Registry lemmas.** `HandleManagerProofs` states, for a registry over any set, three facts:
- `TrackedSplit`: `handles_to_flush` and `handles_to_close` are disjoint and together are the tracked handles;
- `AddHandleLists`: what `add_handle` does to the two lists;
- `RemoveHandleLists`: what `remove_handle` does to them.

The Drop step of `TeardownExactness` and the type steps of `tr_from_tpm_public` and `tr_close` cite them.

**What stays with TLC.** The other properties are checked only by TLC: the properties of the violation runs, `EngineLayoutSound`, and `TypeOK`, `ZeroizationComplete` and `UnknownPayloadUntouched` of `Zeroize`. `Zeroize` uses RECURSIVE operators, which TLAPS's SMT backend cannot handle, so it carries no theorems. Its ordering property is proved through the generic engine, as above. `ZeroizationComplete` and `UnknownPayloadUntouched` are about the reference `Reached` and the `Selects` tables, which are recursive and layout-specific, so they have no generic counterpart. What a recursive traversal computes for every input would also need induction over data, which the installed provers cannot instantiate. Liveness and ENABLED are out of TLAPS's reach as well, which is one more reason no liveness property is stated. For the safety properties of `Zeroize`, very little is lost. The model's only constants are the roots and the excluded discriminants, and the layouts are the code's own tables, so there is no family of instances for a proof to cover. The `zeroize` run enumerates every input of the four roots: every discriminant of every table, except the TDES inputs that `zeroize_tdes` shows violated, and a reserved value at every level. It checks each invariant in every state of every traversal. That is already a complete check of the modelled code, not a sample.

## 5. Not modelled

- **Context::new failure paths and `Esys_Finalize`.** These are FFI calls with no Context state.
- **`ffi_data_to_owned`.** This is a pointer copy and free.
- **The command wrappers (`tpm_commands`, `session_administration`, `general_esys_tr`).** They are not in `src/`; the generic create/flush/close actions stand for them.
- **The byte-level content of buffers.** A buffer is wiped as a whole, as `Zeroize` for arrays does.
- **The TPM2B types other than those reached from the four roots.** They share the TPM2B macro.
- **Tickets other than `TPMT_TK_CREATION`.** They share the ticket macro.
