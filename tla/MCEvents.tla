-------------------------------- MODULE MCEvents --------------------------------
(***************************************************************************)
(* Incremental events beside one reservation of a program of limit 10:     *)
(* two different events of version 1, a RELEASED event that may be the     *)
(* echo of the reservation, a limit change below the reservation, and an   *)
(* event in a foreign currency.                                            *)
(***************************************************************************)
EXTENDS MCBase

Limits == [p \in Programs |-> 10]

CommandSet == {ReserveCommand(k1, p1, i1, "EUR", 6), ReleaseCommand(k2, p1, i1, "EUR", 6)}

(* The last record but one does not parse: a sum of 19 digits no BIGINT    *)
(* can hold. The last one does, and its version fits no BIGINT either.     *)
RecordSet ==
  {Event(m1, p1, 1, "RESERVATION_BOOKED", 5, None, 1),
   Event(m2, p1, 1, "RESERVATION_BOOKED", 3, None, 2),
   Event(m3, p1, 2, "RESERVATION_RELEASED", 5, ref1, 3),
   Event(m4, p1, 3, "LIMIT_CHANGED", 4, None, 4),
   EventIn("USD", m6, p1, 5, "RESERVATION_BOOKED", 5, None, 6),
   Event(m5, p1, 6, "RESERVATION_BOOKED", MaxMinor + 1, None, 7),
   Event(m6, p1, MaxMinor + 1, "RESERVATION_BOOKED", 5, None, 8)}
=============================================================================
