------------------------------- MODULE MCDisorder -------------------------------
(***************************************************************************)
(* Events alone, in every order: two limit changes, of versions 1 and 2.   *)
(***************************************************************************)
EXTENDS MCBase

Limits == [p \in Programs |-> 10]

RecordSet ==
  {Event(m1, p1, 1, "LIMIT_CHANGED", 8, None, 1),
   Event(m2, p1, 2, "LIMIT_CHANGED", 12, None, 2)}
===============================================================================
