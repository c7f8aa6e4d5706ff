------------------------- MODULE PropertyCacheProofs -------------------------
(***************************************************************************)
(* Proof that get_tpm_property answers a fixed property with the TPM's     *)
(* value, for every number of tags, every query count and every set of     *)
(* variable tags that PropertyCacheAssumption allows.                      *)
(*                                                                         *)
(* The action property needs a state invariant: the cache holds, for a     *)
(* fixed tag, nothing or the TPM's value.  An over-fetching query stores   *)
(* the TPM's current values, and only variable tags change afterwards.     *)
(***************************************************************************)
EXTENDS PropertyCache, FiniteSetTheorems, TLAPS

USE PropertyCacheAssumption

\* A fixed tag is cached with the TPM's value or not at all.
FixedCached == \A t \in Tags \ VarTags : cache[t] \in {NoValue, tpm[t]}

\* A query from tag p returns p itself whenever the TPM has a value for it:
\* no returned property precedes it.
LEMMA AnswerHasQueriedTag ==
    ASSUME NEW p \in Tags, tpm[p] # NoValue
    PROVE  p \in Answer(p)
<1> DEFINE has == {t \in Tags : t >= p /\ tpm[t] # NoValue}
<1>1. p \in has
    BY DEF Tags
<1>2. {u \in has : u < p} = {}
    BY DEF Tags
<1>3. Cardinality({u \in has : u < p}) < QueryCount
    BY <1>2, FS_EmptySet
<1>4. Answer(p) = {t \in has : Cardinality({u \in has : u < t}) < QueryCount}
    BY DEF Answer
<1>5. QED
    BY <1>1, <1>3, <1>4

LEMMA InitTypeOK == Init => TypeOK
BY DEF Init, TypeOK, NoCall, CallRecord

LEMMA NextTypeOK == TypeOK /\ [Next]_vars => TypeOK'
<1> SUFFICES ASSUME TypeOK, [Next]_vars PROVE TypeOK'
    OBVIOUS
<1>0. ASSUME NEW rec \in CallRecord, Called(rec) PROVE tick' \in {0, 1} /\ lastCall' \in CallRecord
    BY <1>0 DEF Called, TypeOK
<1>1. ASSUME NEW p \in Tags, GetCached(p) \/ GetQueried(p) \/ GetFails(p)
      PROVE  TypeOK'
    <2>1. StoreAnswer(p) \in [Tags -> Values \cup {NoValue}]
        BY DEF StoreAnswer, TypeOK
    <2>2. CASE GetCached(p)
        <3>1. [tag |-> p, ok |-> TRUE, queried |-> FALSE, value |-> cache[p]] \in CallRecord
            BY DEF CallRecord, TypeOK
        <3>2. QED
            BY <1>0, <2>2, <3>1 DEF GetCached, TypeOK
    <2>3. CASE GetQueried(p)
        <3>1. [tag |-> p, ok |-> TRUE, queried |-> TRUE, value |-> cache'[p]] \in CallRecord
            BY <2>1, <2>3 DEF CallRecord, GetQueried
        <3>2. QED
            BY <1>0, <2>1, <2>3, <3>1 DEF GetQueried, TypeOK
    <2>4. CASE GetFails(p)
        <3>1. [tag |-> p, ok |-> FALSE, queried |-> TRUE, value |-> NoValue] \in CallRecord
            BY DEF CallRecord
        <3>2. QED
            BY <1>0, <2>4, <3>1 DEF GetFails, TypeOK
    <2>5. QED
        BY <1>1, <2>2, <2>3, <2>4
<1>2. ASSUME NEW t \in Tags, NEW v \in Values, TpmUpdates(t, v) PROVE TypeOK'
    BY <1>2 DEF TpmUpdates, TypeOK
<1>3. CASE UNCHANGED vars
    BY <1>3 DEF vars, TypeOK
<1>4. QED
    BY <1>1, <1>2, <1>3 DEF Next

\* The TPM, the cache and the call record keep their types through every
\* get_tpm_property call and TPM update: the cache only ever holds values
\* the TPM had.
THEOREM PropertyCacheTypeCorrect == Spec => []TypeOK
BY InitTypeOK, NextTypeOK, PTL DEF Spec

LEMMA NextFixedCached == TypeOK /\ FixedCached /\ [Next]_vars => FixedCached'
<1> SUFFICES ASSUME TypeOK, FixedCached, [Next]_vars PROVE FixedCached'
    OBVIOUS
<1>1. ASSUME NEW p \in Tags, GetQueried(p) PROVE FixedCached'
    BY <1>1 DEF GetQueried, StoreAnswer, FixedCached, TypeOK
<1>2. ASSUME NEW p \in Tags, GetCached(p) \/ GetFails(p) PROVE FixedCached'
    BY <1>2 DEF GetCached, GetFails, FixedCached
<1>3. ASSUME NEW t \in Tags, NEW v \in Values, TpmUpdates(t, v) PROVE FixedCached'
    BY <1>3 DEF TpmUpdates, FixedCached, TypeOK
<1>4. CASE UNCHANGED vars
    BY <1>4 DEF vars, FixedCached
<1>5. QED
    BY <1>1, <1>2, <1>3, <1>4 DEF Next

\* The step property GetReturnsTpmValue asks of every step.
ReturnsTpmValue ==
    tick' # tick /\ lastCall'.ok /\ lastCall'.tag \notin VarTags
        => lastCall'.value = tpm[lastCall'.tag]

LEMMA StepReturnsTpmValue ==
    TypeOK /\ FixedCached /\ [Next]_vars => [ReturnsTpmValue]_vars
<1> SUFFICES ASSUME TypeOK, FixedCached, [Next]_vars PROVE [ReturnsTpmValue]_vars
    OBVIOUS
<1>1. ASSUME NEW p \in Tags, GetCached(p) PROVE ReturnsTpmValue
    BY <1>1 DEF GetCached, Called, FixedCached, ReturnsTpmValue
<1>2. ASSUME NEW p \in Tags, GetQueried(p) PROVE ReturnsTpmValue
    <2>1. CASE tpm[p] # NoValue
        BY <1>2, <2>1, AnswerHasQueriedTag
        DEF GetQueried, Called, StoreAnswer, ReturnsTpmValue
    <2>2. CASE tpm[p] = NoValue
        <3>1. p \notin Answer(p)
            BY <2>2 DEF Answer
        <3>2. QED
            BY <1>2, <2>2, <3>1 DEF GetQueried, Called, StoreAnswer, ReturnsTpmValue
    <2>3. QED
        BY <2>1, <2>2
<1>3. ASSUME NEW p \in Tags, GetFails(p) PROVE ReturnsTpmValue
    BY <1>3 DEF GetFails, Called, ReturnsTpmValue
<1>4. ASSUME NEW t \in Tags, NEW v \in Values, TpmUpdates(t, v) PROVE ReturnsTpmValue
    BY <1>4 DEF TpmUpdates, ReturnsTpmValue
<1>5. CASE UNCHANGED vars
    BY <1>5
<1>6. QED
    BY <1>1, <1>2, <1>3, <1>4, <1>5 DEF Next

\* For every number of tags, every count passed to get_capability and every
\* set of TPM_PT_VAR tags, a successful get_tpm_property of a fixed property
\* returns the TPM's value, and None only when the TPM has none, whether it
\* is answered from the cache or from a query whose over-fetched entries
\* overwrite what earlier queries cached.
THEOREM TpmValueReturned == Spec => GetReturnsTpmValue
<1>1. Init => TypeOK /\ FixedCached
    BY InitTypeOK DEF Init, FixedCached
<1>2. TypeOK /\ FixedCached /\ [Next]_vars => (TypeOK /\ FixedCached)'
    BY NextTypeOK, NextFixedCached
<1>3. TypeOK /\ FixedCached /\ [Next]_vars => [ReturnsTpmValue]_vars
    BY StepReturnsTpmValue
<1>4. QED
    BY <1>1, <1>2, <1>3, PTL DEF Spec, GetReturnsTpmValue, ReturnsTpmValue

-----------------------------------------------------------------------------
(* The cache of static properties *)

\* Answered from the cache or from a query, a fixed property gets the
\* TPM's value.
LEMMA CachedFixedIsTpm ==
    ASSUME TypeOK, FixedCached, NEW p \in FixedTags, cache[p] # NoValue
    PROVE  cache[p] = tpm[p]
BY DEF FixedCached, FixedTags

LEMMA QueriedFixedIsTpm ==
    ASSUME TypeOK, NEW p \in FixedTags, cache[p] = NoValue
    PROVE  StoreAnswer(p)[p] = tpm[p]
<1>1. CASE tpm[p] # NoValue
    BY <1>1, AnswerHasQueriedTag DEF StoreAnswer, FixedTags
<1>2. CASE tpm[p] = NoValue
    <2>1. p \notin Answer(p)
        BY <1>2 DEF Answer
    <2>2. QED
        BY <1>2, <2>1 DEF StoreAnswer, FixedTags
<1>3. QED
    BY <1>1, <1>2

LEMMA InitRefines == Init => FixedCache!Init
BY DEF Init, FixedCache!Init, FixedProps, FixedKnown, FixedReply, FixedCache!NoReply,
       NoCall, FixedTags

\* A call that fills the fixed entries of S: a query fills those of
\* Answer(p), a cache hit or a failure none.
LEMMA FillsFixed ==
    ASSUME TypeOK, NEW S \in SUBSET Tags,
           cache' = [t \in Tags |-> IF t \in S THEN tpm[t] ELSE cache[t]],
           tpm' = tpm
    PROVE  /\ FixedCache!Learn(S \cap FixedTags)
           /\ FixedProps' = FixedProps
BY DEF FixedCache!Learn, FixedKnown, FixedProps, FixedTags

LEMMA NextRefines ==
    TypeOK /\ FixedCached /\ [Next]_vars => [FixedCache!Next]_FixedCache!avars
<1> SUFFICES ASSUME TypeOK, FixedCached, [Next]_vars
             PROVE  [FixedCache!Next]_FixedCache!avars
    OBVIOUS
<1>1. ASSUME NEW p \in Tags,
             \E S \in SUBSET Tags :
                cache' = [t \in Tags |-> IF t \in S THEN tpm[t] ELSE cache[t]],
             tpm' = tpm, tick' = 1 - tick,
             lastCall'.tag = p,
             lastCall'.ok => lastCall'.value = tpm[p] \/ p \notin FixedTags
      PROVE  FixedCache!Next
    <2> PICK S \in SUBSET Tags :
            cache' = [t \in Tags |-> IF t \in S THEN tpm[t] ELSE cache[t]]
        BY <1>1
    <2>1. FixedCache!Learn(S \cap FixedTags) /\ FixedProps' = FixedProps
        BY <1>1, FillsFixed
    <2>2. CASE lastCall'.ok /\ p \in FixedTags
        <3>1. FixedReply' = [tag |-> p, value |-> FixedProps[p]]
            BY <1>1, <2>2 DEF FixedReply, FixedProps
        <3>2. FixedCache!Serve(p, S \cap FixedTags)
            BY <2>1, <3>1, <1>1 DEF FixedCache!Serve
        <3>3. QED
            BY <2>2, <3>2 DEF FixedCache!Next
    <2>3. CASE ~(lastCall'.ok /\ p \in FixedTags)
        <3>1. FixedReply' = FixedCache!NoReply
            BY <1>1, <2>3 DEF FixedReply, FixedCache!NoReply
        <3>2. FixedCache!Other(S \cap FixedTags)
            BY <2>1, <3>1, <1>1 DEF FixedCache!Other
        <3>3. QED
            BY <3>2 DEF FixedCache!Next
    <2>4. QED
        BY <2>2, <2>3
<1>2. ASSUME NEW p \in Tags, GetCached(p) PROVE FixedCache!Next
    <2>1. \E S \in SUBSET Tags :
            cache' = [t \in Tags |-> IF t \in S THEN tpm[t] ELSE cache[t]]
        <3>1. cache' = [t \in Tags |-> IF t \in {} THEN tpm[t] ELSE cache[t]]
            BY <1>2 DEF GetCached, TypeOK
        <3>2. {} \in SUBSET Tags
            OBVIOUS
        <3>3. QED
            BY <3>1, <3>2, Zenon
    <2>2. lastCall'.ok => lastCall'.value = tpm[p] \/ p \notin FixedTags
        BY <1>2, CachedFixedIsTpm DEF GetCached, Called
    <2>3. QED
        BY <1>1, <1>2, <2>1, <2>2 DEF GetCached, Called
<1>3. ASSUME NEW p \in Tags, GetQueried(p) PROVE FixedCache!Next
    <2>1. Answer(p) \subseteq Tags
        BY DEF Answer
    <2>2. \E S \in SUBSET Tags :
            cache' = [t \in Tags |-> IF t \in S THEN tpm[t] ELSE cache[t]]
        <3>1. cache' = [t \in Tags |-> IF t \in Answer(p) THEN tpm[t] ELSE cache[t]]
            BY <1>3 DEF GetQueried, StoreAnswer
        <3>2. QED
            BY <2>1, <3>1
    <2>3. lastCall'.ok => lastCall'.value = tpm[p] \/ p \notin FixedTags
        BY <1>3, QueriedFixedIsTpm DEF GetQueried, Called
    <2>4. QED
        BY <1>1, <1>3, <2>1, <2>2, <2>3 DEF GetQueried, Called
<1>4. ASSUME NEW p \in Tags, GetFails(p) PROVE FixedCache!Next
    <2>1. \E S \in SUBSET Tags :
            cache' = [t \in Tags |-> IF t \in S THEN tpm[t] ELSE cache[t]]
        <3>1. cache' = [t \in Tags |-> IF t \in {} THEN tpm[t] ELSE cache[t]]
            BY <1>4 DEF GetFails, TypeOK
        <3>2. {} \in SUBSET Tags
            OBVIOUS
        <3>3. QED
            BY <3>1, <3>2, Zenon
    <2>2. QED
        BY <1>1, <1>4, <2>1 DEF GetFails, Called
<1>5. ASSUME NEW t \in Tags, NEW v \in Values, TpmUpdates(t, v)
      PROVE  UNCHANGED FixedCache!avars
    BY <1>5 DEF TpmUpdates, FixedCache!avars, FixedProps, FixedKnown, FixedReply,
                FixedTags, TypeOK
<1>6. CASE UNCHANGED vars
    BY <1>6 DEF vars, FixedCache!avars, FixedProps, FixedKnown, FixedReply
<1>7. QED
    BY <1>2, <1>3, <1>4, <1>5, <1>6 DEF Next

\* For every number of tags, query count and set of variable tags, the
\* code's cache restricted to the properties the TPM never changes
\* implements the never-invalidated cache of spec.md 3: each step of
\* get_tpm_property is a fill from the TPM's values together with an answer
\* equal to the TPM's value, and a change of a variable property is a
\* stutter.
THEOREM FixedCacheRefinement == Spec => FixedCacheRefined
<1>1. Init => TypeOK /\ FixedCached /\ FixedCache!Init
    BY InitTypeOK, InitRefines DEF Init, FixedCached
<1>2. TypeOK /\ FixedCached /\ [Next]_vars => (TypeOK /\ FixedCached)'
    BY NextTypeOK, NextFixedCached
<1>3. TypeOK /\ FixedCached /\ [Next]_vars => [FixedCache!Next]_FixedCache!avars
    BY NextRefines
<1>4. QED
    BY <1>1, <1>2, <1>3, PTL DEF Spec, FixedCacheRefined, FixedCache!Spec

\* The abstract cache's theorem, for the code's cache of fixed tags.
FixedCacheProofs == INSTANCE FixedPropertyCacheProofs WITH
    FixedTags <- FixedTags, props <- FixedProps, known <- FixedKnown, reply <- FixedReply

\* The step FixedEntriesNeverChange asks of every step.
FixedEntryKept == \A t \in FixedTags : cache[t] # NoValue => cache'[t] = cache[t]

\* spec.md 3's "once cached, immutable" holds of the code for the
\* properties the TPM never changes, for every number of tags, query count
\* and set of variable tags: an over-fetching query rewrites a cached fixed
\* property only with the value it holds.  (For a TPM_PT_VAR property it
\* fails: CachedValueNeverChanges.)
THEOREM FixedEntriesNeverChange == Spec => [][FixedEntryKept]_vars
<1>1. FixedCache!Spec => FixedCache!NeverInvalidated
    BY FixedCacheProofs!KnownNeverInvalidated, PTL
    DEF FixedCacheProofs!Spec, FixedCache!Spec, FixedCacheProofs!NeverInvalidated,
        FixedCache!NeverInvalidated, FixedCacheProofs!Init, FixedCache!Init,
        FixedCacheProofs!Next, FixedCache!Next, FixedCacheProofs!avars, FixedCache!avars,
        FixedCacheProofs!Serve, FixedCache!Serve, FixedCacheProofs!Other, FixedCache!Other,
        FixedCacheProofs!Learn, FixedCache!Learn, FixedCacheProofs!NoReply, FixedCache!NoReply
<1>2. [\A t \in FixedTags : FixedKnown[t] # NoValue => FixedKnown'[t] = FixedKnown[t]]_FixedCache!avars
        => [FixedEntryKept]_vars
    BY DEF FixedKnown, FixedEntryKept, FixedCache!avars, vars
<1>3. QED
    BY <1>1, <1>2, FixedCacheRefinement, PTL DEF FixedCacheRefined, FixedCache!NeverInvalidated

=============================================================================
