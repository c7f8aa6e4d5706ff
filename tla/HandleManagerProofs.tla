------------------------- MODULE HandleManagerProofs -------------------------
(***************************************************************************)
(* Facts about the registry operators of the handle manager, for a         *)
(* registry over any set of handles.                                       *)
(***************************************************************************)
EXTENDS HandleManager, TLAPS

\* handles_to_flush and handles_to_close split the tracked handles: each
\* tracked handle is on exactly one of the two lists, so Drop's two loops
\* visit every tracked handle once (has_open_handles is their union).
LEMMA TrackedSplit ==
    ASSUME NEW D, NEW reg \in [D -> RegistryEntry]
    PROVE  /\ HandlesToFlush(reg) \cup HandlesToClose(reg) = {h \in D : reg[h] # NotTracked}
           /\ HandlesToFlush(reg) \cap HandlesToClose(reg) = {}
BY DEF HandlesToFlush, HandlesToClose, RegistryEntry, Disposition, NotTracked

\* add_handle(h, d) puts h on the list of d and off the other one.
LEMMA AddHandleLists ==
    ASSUME NEW D, NEW reg \in [D -> RegistryEntry], NEW h \in D, NEW d \in Disposition
    PROVE  /\ AddHandle(reg, h, d) \in [D -> RegistryEntry]
           /\ HandlesToFlush(AddHandle(reg, h, d))
                = IF d = "Flush" THEN HandlesToFlush(reg) \cup {h} ELSE HandlesToFlush(reg) \ {h}
           /\ HandlesToClose(AddHandle(reg, h, d))
                = IF d = "Close" THEN HandlesToClose(reg) \cup {h} ELSE HandlesToClose(reg) \ {h}
BY DEF AddHandle, HandlesToFlush, HandlesToClose, RegistryEntry, Disposition

\* remove_handle(h) takes h off both lists and leaves the others, whether
\* or not h was tracked.
LEMMA RemoveHandleLists ==
    ASSUME NEW D, NEW reg \in [D -> RegistryEntry], NEW h
    PROVE  /\ RemoveHandle(reg, h) \in [D -> RegistryEntry]
           /\ HandlesToFlush(RemoveHandle(reg, h)) = HandlesToFlush(reg) \ {h}
           /\ HandlesToClose(RemoveHandle(reg, h)) = HandlesToClose(reg) \ {h}
BY DEF RemoveHandle, HandlesToFlush, HandlesToClose, RegistryEntry, Disposition, NotTracked

=============================================================================
