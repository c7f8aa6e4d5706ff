----------------------- MODULE FixedPropertyCacheProofs -----------------------
(***************************************************************************)
(* The abstract cache of static properties is never invalidated: every     *)
(* entry holds nothing or the TPM's value, and a fill writes the TPM's     *)
(* value, so a filled entry keeps its value.                               *)
(***************************************************************************)
EXTENDS FixedPropertyCache, TLAPS

\* Every entry is absent or the TPM's value.
KnownFromProps == \A t \in FixedTags : known[t] \in {NoValue, props[t]}

LEMMA InitKnown == Init => TypeOK /\ KnownFromProps
BY DEF Init, TypeOK, KnownFromProps, NoReply

LEMMA NextKnown == TypeOK /\ KnownFromProps /\ [Next]_avars => (TypeOK /\ KnownFromProps)'
<1> SUFFICES ASSUME TypeOK, KnownFromProps, [Next]_avars PROVE (TypeOK /\ KnownFromProps)'
    OBVIOUS
<1>1. ASSUME NEW S \in SUBSET FixedTags, NEW p \in FixedTags, Serve(p, S)
      PROVE  (TypeOK /\ KnownFromProps)'
    BY <1>1 DEF Serve, Learn, TypeOK, KnownFromProps, Reply
<1>2. ASSUME NEW S \in SUBSET FixedTags, Other(S) PROVE (TypeOK /\ KnownFromProps)'
    BY <1>2 DEF Other, Learn, TypeOK, KnownFromProps, NoReply
<1>3. CASE UNCHANGED avars
    BY <1>3 DEF avars, TypeOK, KnownFromProps
<1>4. QED
    BY <1>1, <1>2, <1>3 DEF Next

\* The step NeverInvalidated asks of every step.
Kept == \A t \in FixedTags : known[t] # NoValue => known'[t] = known[t]

LEMMA StepKept == KnownFromProps /\ [Next]_avars => [Kept]_avars
<1> SUFFICES ASSUME KnownFromProps, [Next]_avars PROVE [Kept]_avars
    OBVIOUS
<1>1. ASSUME NEW S \in SUBSET FixedTags, Learn(S) PROVE Kept
    BY <1>1 DEF Learn, KnownFromProps, Kept
<1>2. QED
    BY <1>1 DEF Next, Serve, Other

\* A cached static property keeps its value for the lifetime of the cache,
\* whichever calls refill it: spec.md 3's "never invalidated".
THEOREM KnownNeverInvalidated == Spec => NeverInvalidated
<1>1. Init => TypeOK /\ KnownFromProps
    BY InitKnown
<1>2. TypeOK /\ KnownFromProps /\ [Next]_avars => (TypeOK /\ KnownFromProps)'
    BY NextKnown
<1>3. TypeOK /\ KnownFromProps /\ [Next]_avars => [Kept]_avars
    BY StepKept
<1>4. QED
    BY <1>1, <1>2, <1>3, PTL DEF Spec, NeverInvalidated, Kept

=============================================================================
