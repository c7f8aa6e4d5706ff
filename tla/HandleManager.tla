--------------------------- MODULE HandleManager ---------------------------
(***************************************************************************)
(* The handle manager of a Context (context/handle_manager.rs, which is    *)
(* not part of the sources at hand: these operators follow spec.md 4.1).   *)
(* The registry maps every ESYS_TR the context tracks to the way it must   *)
(* be released at teardown.  An ESYS_TR that is not tracked maps to        *)
(* NotTracked, so that the registry is a total function over the handle    *)
(* identifiers, as a HashMap whose missing keys read as absent.            *)
(***************************************************************************)

\* HandleDropAction: a volatile object is flushed, an external one closed.
Disposition == {"Flush", "Close"}

NotTracked == "None"

RegistryEntry == Disposition \cup {NotTracked}

\* add_handle: the ESAPI may return a handle it already returned, which is
\* then registered again with the same disposition.
AddHandle(reg, h, d) == [reg EXCEPT ![h] = d]

\* remove_handle: removing an absent handle is a no-op.
RemoveHandle(reg, h) == [reg EXCEPT ![h] = NotTracked]

HandlesToFlush(reg) == {h \in DOMAIN reg : reg[h] = "Flush"}

HandlesToClose(reg) == {h \in DOMAIN reg : reg[h] = "Close"}

=============================================================================
