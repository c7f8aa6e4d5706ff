--------------------------- MODULE HandleLifecycle ---------------------------
(***************************************************************************)
(* What a Context promises about the ESYS_TR handles it hands out, with    *)
(* the sessions, closures and the TPM left out.  Each identifier is unused *)
(* until it is acquired once, with the disposition it keeps for the rest   *)
(* of its life (flushed if volatile, closed if external); it is released   *)
(* one at a time by an explicit flush_context or tr_close, and never       *)
(* reused.  Teardown releases every live handle except those whose release *)
(* fails, in one step, and nothing happens after it.                       *)
(***************************************************************************)
EXTENDS HandleManager

CONSTANT Ids   \* the ESYS_TR identifiers

VARIABLES
    life,   \* identifier -> "Unused", its disposition, or "Released"
    open    \* TRUE until teardown

LifeState == {"Unused", "Released"} \cup Disposition

LiveIds == {h \in Ids : life[h] \in Disposition}

Init ==
    /\ life = [h \in Ids |-> "Unused"]
    /\ open = TRUE

Acquire(h, d) ==
    /\ open
    /\ life[h] = "Unused"
    /\ life' = [life EXCEPT ![h] = d]
    /\ UNCHANGED open

Release(h) ==
    /\ open
    /\ life[h] \in Disposition
    /\ life' = [life EXCEPT ![h] = "Released"]
    /\ UNCHANGED open

Teardown ==
    /\ open
    /\ \E failed \in SUBSET LiveIds :
         life' = [h \in Ids |-> IF h \in LiveIds \ failed THEN "Released" ELSE life[h]]
    /\ open' = FALSE

Next ==
    \/ \E h \in Ids, d \in Disposition : Acquire(h, d)
    \/ \E h \in Ids : Release(h)
    \/ Teardown

Spec == Init /\ [][Next]_<<life, open>>

TypeOK ==
    /\ life \in [Ids -> LifeState]
    /\ open \in BOOLEAN

\* One step of an identifier's life: it is acquired with a disposition while
\* unused, released while live, or left alone; after teardown nothing moves.
Advance ==
    /\ ~open => life' = life
    /\ \A h \in Ids :
         \/ life'[h] = life[h]
         \/ life[h] = "Unused" /\ life'[h] \in Disposition
         \/ life[h] \in Disposition /\ life'[h] = "Released"

\* An ESYS_TR handed out by the Context keeps the disposition it was created
\* with (flush or close) until it is released, is never handed out again
\* once released, and no handle changes after Drop.
LifeAdvances == [][Advance]_<<life, open>>

=============================================================================
