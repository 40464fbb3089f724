------------------------------ MODULE MCSnapshots ------------------------------
(***************************************************************************)
(* Snapshots beside two reservations of a program of limit 10: one that    *)
(* acknowledges by watermark, a newer one that acknowledges by reference   *)
(* and lowers the limit, one that disagrees with it on the same version,   *)
(* one without a marker, and an event that may echo the linked reservation *)
(* with a version above theirs.                                            *)
(***************************************************************************)
EXTENDS MCBase

Limits == [p \in Programs |-> 10]

CommandSet ==
  {ReserveCommand(k1, p1, i1, "EUR", 4), ReserveCommand(k2, p1, i2, "EUR", 3)}

(* The last two do not parse: a marker of both kinds, and a negative sum.  *)
RecordSet ==
  {Snapshot(m1, p1, 1, 10, 5, Watermark(2), 1),
   Snapshot(m2, p1, 2, 6, 7, Explicit(<<Text(ref1)>>), 2),
   Snapshot(m3, p1, 2, 6, 2, Explicit(<<Text(ref1)>>), 3),
   Snapshot(m4, p1, 3, 10, 0, Null, 4),
   Event(m5, p1, 3, "RESERVATION_BOOKED", 4, ref1, 1),
   Snapshot(m6, p1, 4, 10, 0,
            Object([kind |-> Text("WATERMARK"), ingestedThrough |-> Text(2),
                    reservationIds |-> List(<<>>)]), 5),
   Snapshot(m6, p1, 4, 10, -1, Watermark(2), 6)}
=============================================================================
