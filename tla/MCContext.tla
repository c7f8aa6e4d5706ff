------------------------------ MODULE MCContext ------------------------------
(* Context instantiated for TLC: three ESYS_TR identifiers, room for two      *)
(* volatile resources in the TPM, closures nested two deep, one persistent  *)
(* TPM handle; the lifecycle run takes four identifiers and one level.     *)
EXTENDS Context

MCMaxHandles == 3

MCTpmSlots == 2

MCMaxDepth == 2

\* For the handle lifecycle one level of closures is enough: nesting moves
\* no handle through its lifecycle that one scope does not.
MCMaxDepthOne == 1

\* ... and four identifiers, so that Drop meets several live handles of both
\* dispositions after some were released explicitly.
MCMaxHandlesFour == 4
=============================================================================
