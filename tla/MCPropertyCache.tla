--------------------------- MODULE MCPropertyCache ---------------------------
(* Five property tags, the code's count of four per query, so that a query  *)
(* from tag 1 or 2 reaches tags that an earlier query from a higher tag has  *)
(* cached; tag 5 is variable.                                               *)
EXTENDS PropertyCache

MCNumTags == 5

MCQueryCount == 4

MCVarTags == {5}
=============================================================================
