------------------------------- MODULE MCCommands -------------------------------
(***************************************************************************)
(* Callers only: two programs of limit 10 and two handlers, every command  *)
(* resent and raced at will, crashes and retention sweeps at any moment.   *)
(* The two reservations of p1 fit alone and not together; k1 is reused for *)
(* the other program and for the release of what it reserved, which hashes *)
(* the same fields; k2 with another currency, which the rate on the day    *)
(* converts to 3 or to 8; the releases of i1 are a partial one and one     *)
(* that only fits before it.                                               *)
(***************************************************************************)
EXTENDS MCBase

Limits == [p \in Programs |-> 10]

CommandSet ==
  {ReserveCommand(k1, p1, i1, "EUR", 6),
   ReserveCommand(k1, p2, i1, "EUR", 6),
   ReserveCommand(k2, p1, i2, "EUR", 5),
   ReserveCommand(k2, p1, i2, "USD", 5),
   ReleaseCommand(k1, p1, i1, "EUR", 6), ReleaseCommand(k3, p1, i1, "EUR", 4),
   ReleaseCommand(k4, p1, i1, "EUR", 6),
   CancelCommand(k4, p1, i1, "CANCELLED"), CancelCommand(k4, p1, i1, "WRITTEN_OFF")}
=============================================================================
