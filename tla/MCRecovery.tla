------------------------------- MODULE MCRecovery -------------------------------
(***************************************************************************)
(* One reservation reserved and cancelled, one event and one snapshot, and *)
(* an event for a program the service does not have, while stream          *)
(* positions are restored from older backups and instances boot and detect *)
(* programs that are behind, beside those still serving.                   *)
(***************************************************************************)
EXTENDS MCBase

Limits == [p \in Programs |-> 10]

CommandSet == {ReserveCommand(k1, p1, i1, "EUR", 4), CancelCommand(k2, p1, i1, "CANCELLED")}

RecordSet ==
  {Event(m1, p1, 1, "RESERVATION_BOOKED", 2, None, 1),
   Snapshot(m2, p1, 1, 10, 5, Watermark(2), 1),
   Event(m3, unknown, 1, "RESERVATION_BOOKED", 2, None, 2)}
===============================================================================
