--------------------------------- MODULE MCReads ---------------------------------
(***************************************************************************)
(* Readers beside one handler: three reservations of p1, at instants that  *)
(* collide or run backwards, one of them then partly released or another   *)
(* cancelled, and a booking of treasury's for p2. Pages of one and of two  *)
(* rows make every list of two rows or more turn a page.                   *)
(***************************************************************************)
EXTENDS MCBase, AuditReads

CONSTANT i3

Limits == [p \in Programs |-> 10]

CommandSet ==
  {ReserveCommand(k1, p1, i1, "EUR", 4), ReserveCommand(k2, p1, i2, "EUR", 3),
   ReserveCommand(k3, p1, i3, "EUR", 2),
   ReleaseCommand(k4, p1, i1, "EUR", 1), CancelCommand(k4, p1, i2, "CANCELLED")}

RecordSet == {Event(m1, p2, 1, "RESERVATION_BOOKED", 5, None, 1)}

(* The random ids are in another order than the reservations' names.       *)
Ranks == [i \in Invoices |-> CASE i = i1 -> 2 [] i = i2 -> 3 [] OTHER -> 1]

Everything == [from |-> None, to |-> None, cause |-> None]

Queries ==
  {Everything, [from |-> 2, to |-> 4, cause |-> "RESERVATION"]}
=============================================================================
