---------------------------- MODULE PropertyCache ----------------------------
(***************************************************************************)
(* Context::get_tpm_property (src/tss-esapi/src/context.rs) and the cache  *)
(* cached_tpm_properties it fills from TPM2_GetCapability(TPM_PROPERTIES). *)
(* Property tags are the integers 1..NumTags in the TPM's order.  The TPM  *)
(* answers a query for tag p with the first QueryCount properties it has   *)
(* at tags >= p; the properties in VarTags may change value at any time    *)
(* (the TPM_PT_VAR group), the others never do.                            *)
(***************************************************************************)
EXTENDS Naturals, FiniteSets

CONSTANTS
    NumTags,     \* property tags 1..NumTags
    Values,      \* the values a property can have
    VarTags,     \* tags whose value the TPM may change
    QueryCount,  \* the count passed to get_capability (4 in the code)
    NoValue      \* the TPM has no value for a tag; also "not cached"

Tags == 1..NumTags

ASSUME PropertyCacheAssumption ==
    /\ NumTags \in Nat
    /\ QueryCount \in Nat \ {0}
    /\ VarTags \subseteq Tags
    /\ NoValue \notin Values

\* What one get_tpm_property call did: its tag, whether it returned Ok,
\* whether it issued a capability query, and the value it returned.
CallRecord == [tag : Tags \cup {0}, ok : BOOLEAN, queried : BOOLEAN,
               value : Values \cup {NoValue}]

NoCall == [tag |-> 0, ok |-> FALSE, queried |-> FALSE, value |-> NoValue]

VARIABLES
    tpm,       \* tag -> the value the TPM holds for it, or NoValue
    cache,     \* cached_tpm_properties: tag -> value, or NoValue when absent
    tick,      \* history: flips at every get_tpm_property call
    lastCall   \* history: what the last call did

vars == <<tpm, cache, tick, lastCall>>

\* The tags a TPM2_GetCapability(TPM_PROPERTIES, p, QueryCount) returns.
Answer(p) ==
    LET has == {t \in Tags : t >= p /\ tpm[t] # NoValue}
    IN  {t \in has : Cardinality({u \in has : u < t}) < QueryCount}

Init ==
    /\ tpm \in [Tags -> Values \cup {NoValue}]
    /\ cache = [t \in Tags |-> NoValue]
    /\ tick = 0
    /\ lastCall = NoCall

Called(rec) ==
    /\ tick' = 1 - tick
    /\ lastCall' = rec

\* The value is cached: Ok(Some(val)) without a query.
GetCached(p) ==
    /\ cache[p] # NoValue
    /\ Called([tag |-> p, ok |-> TRUE, queried |-> FALSE, value |-> cache[p]])
    /\ UNCHANGED <<tpm, cache>>

\* Variant that confuses property() and value() of the returned entries
\* (detected by TypeOK).
StoreAnswerSwapped(p) ==
    [t \in Tags |-> IF t \in Answer(p) THEN t ELSE cache[t]]

\* Every returned property is inserted, requested or not.
StoreAnswer(p) ==
    [t \in Tags |-> IF t \in Answer(p) THEN tpm[t] ELSE cache[t]]

\* Not cached: query under execute_without_session, insert every returned
\* property, return the one asked for if it came back, else Ok(None).
GetQueried(p) ==
    /\ cache[p] = NoValue
    /\ cache' = StoreAnswer(p)
    /\ Called([tag |-> p, ok |-> TRUE, queried |-> TRUE, value |-> cache'[p]])
    /\ UNCHANGED tpm

\* The capability query fails, or returns data other than TpmProperties
\* (WrongValueFromTpm): the error is returned and nothing is cached.
GetFails(p) ==
    /\ cache[p] = NoValue
    /\ Called([tag |-> p, ok |-> FALSE, queried |-> TRUE, value |-> NoValue])
    /\ UNCHANGED <<tpm, cache>>

\* The TPM changes a variable property.
TpmUpdates(t, v) ==
    /\ t \in VarTags
    /\ tpm[t] # NoValue
    /\ tpm' = [tpm EXCEPT ![t] = v]
    /\ UNCHANGED <<cache, tick, lastCall>>

Next ==
    \/ \E p \in Tags : GetCached(p) \/ GetQueried(p) \/ GetFails(p)
    \/ \E t \in Tags, v \in Values : TpmUpdates(t, v)

Spec == Init /\ [][Next]_vars

-----------------------------------------------------------------------------

TypeOK ==
    /\ tpm \in [Tags -> Values \cup {NoValue}]
    /\ cache \in [Tags -> Values \cup {NoValue}]
    /\ tick \in {0, 1}
    /\ lastCall \in CallRecord

\* A successful get_tpm_property(tag) of a fixed property returns the TPM's
\* value, and None only when the TPM has no value for the tag (proved in
\* PropertyCacheProofs; FixedCacheRefined implies it on every run).
GetReturnsTpmValue ==
    [][tick' # tick /\ lastCall'.ok /\ lastCall'.tag \notin VarTags
         => lastCall'.value = tpm[lastCall'.tag]]_vars

\* spec.md 3: once a property is cached it is immutable for the lifetime of
\* the Context.
CachedValueNeverChanges ==
    [][\A t \in Tags : cache[t] # NoValue => cache'[t] = cache[t]]_vars

\* spec.md 8: two successive get_tpm_property(tag) calls issue at most one
\* capability query.
SecondCallServedFromCache ==
    [][tick' # tick /\ lastCall.tag = lastCall'.tag /\ lastCall.ok
         => ~lastCall'.queried]_vars


-----------------------------------------------------------------------------
(* Refinement of the cache of static properties *)

FixedTags == Tags \ VarTags

\* The TPM's values, the cache and the last reply, on the fixed tags.
FixedProps == [t \in FixedTags |-> tpm[t]]

FixedKnown == [t \in FixedTags |-> cache[t]]

FixedReply == IF lastCall.ok /\ lastCall.tag \in FixedTags
              THEN [tag |-> lastCall.tag, value |-> lastCall.value]
              ELSE [tag |-> NoValue, value |-> NoValue]

FixedCache == INSTANCE FixedPropertyCache WITH
    FixedTags <- FixedTags, props <- FixedProps, known <- FixedKnown, reply <- FixedReply

\* On the properties the TPM never changes, cached_tpm_properties is the
\* cache spec.md 3 describes: filled from the TPM's values by the entries
\* every query over-fetches, never invalidated (an over-fetch rewrites a
\* cached fixed entry only with the value it already holds), and every
\* successful get_tpm_property of such a property returns the TPM's value.
FixedCacheRefined == FixedCache!Spec

=============================================================================
