-------------------------- MODULE FixedPropertyCache --------------------------
(***************************************************************************)
(* What the property cache of a Context promises about the properties the  *)
(* TPM never changes (spec.md 3 and 4.3), with queries, batches and the    *)
(* variable properties left out.  The cache is filled from the TPM's       *)
(* values and never invalidated; a successful get_tpm_property of such a   *)
(* property returns the TPM's value; any call may fill further entries.    *)
(***************************************************************************)
EXTENDS Naturals

CONSTANTS
    FixedTags,   \* the tags whose value the TPM never changes
    Values,      \* the values a property can have
    NoValue      \* no value, or not cached

VARIABLES
    props,   \* tag -> the TPM's value for it, or NoValue
    known,   \* the cache: tag -> value, or NoValue when absent
    reply,   \* the tag and value of the last successful call on a fixed tag
    tick     \* flips at every get_tpm_property call

avars == <<props, known, reply, tick>>

Reply == [tag : FixedTags, value : Values \cup {NoValue}]

NoReply == [tag |-> NoValue, value |-> NoValue]

Init ==
    /\ props \in [FixedTags -> Values \cup {NoValue}]
    /\ known = [t \in FixedTags |-> NoValue]
    /\ reply = NoReply
    /\ tick = 0

\* The entries of S are (re)filled from the TPM.
Learn(S) == known' = [t \in FixedTags |-> IF t \in S THEN props[t] ELSE known[t]]

\* A call on fixed tag p returns its value, filling the entries of S.
Serve(p, S) ==
    /\ Learn(S)
    /\ reply' = [tag |-> p, value |-> props[p]]
    /\ tick' = 1 - tick
    /\ UNCHANGED props

\* A failed call, or a call on a variable property, filling the entries of S.
Other(S) ==
    /\ Learn(S)
    /\ reply' = NoReply
    /\ tick' = 1 - tick
    /\ UNCHANGED props

Next == \E S \in SUBSET FixedTags : (\E p \in FixedTags : Serve(p, S)) \/ Other(S)

Spec == Init /\ [][Next]_avars

TypeOK ==
    /\ props \in [FixedTags -> Values \cup {NoValue}]
    /\ known \in [FixedTags -> Values \cup {NoValue}]
    /\ reply \in Reply \cup {NoReply}
    /\ tick \in {0, 1}

\* spec.md 3: once a property is cached, its entry never changes for the
\* lifetime of the Context.
NeverInvalidated ==
    [][\A t \in FixedTags : known[t] # NoValue => known'[t] = known[t]]_avars

=============================================================================
