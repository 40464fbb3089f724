-------------------------- MODULE ReservationLifecycle --------------------------
(***************************************************************************)
(* The life of one reservation under the release and cancel policies, for  *)
(* every amount and rate: what the services do to its row and what they    *)
(* give back to the program, with everything else left out. The concurrent *)
(* system serialises these steps under the program lock.                   *)
(***************************************************************************)
EXTENDS ReservationPolicies

CONSTANTS Amounts, Rates   \* invoice amounts and scaled rates considered

(* The schema lets no other amounts through, and scaleRate no other rates. *)
ASSUME LifecycleAssumption == Amounts \subseteq Nat \ {0} /\ Rates \subseteq Nat \ {0}

VARIABLES row, returned   \* the row; what its releases gave back in all

lifecycle == <<row, returned>>

(* A reserve that converted to something.                                  *)
Open ==
  \E amount \in Amounts, rate \in Rates :
    /\ ~RoundsToZero(amount, rate)
    /\ row = NewReservation("USD", amount, FxRate(rate), 0)
    /\ returned = 0

ReleasePart(amount) ==
  /\ ReleaseVerdict(row, row.currency, amount) = Accepted
  /\ returned' = returned + ReleaseDelta(row, amount)
  /\ row' = Released(row, amount)

Close ==
  /\ CancelVerdict(row) = Accepted
  /\ returned' = returned + row.outstandingReserved
  /\ row' = Cancelled(row)

LifecycleNext == (\E amount \in Amounts : ReleasePart(amount)) \/ Close

LifecycleSpec == Open /\ [][LifecycleNext]_lifecycle

-------------------------------------------------------------------------------
IsLive == row.status \notin TerminalStatuses

(* FR-009: what is still reserved of a live reservation is what is left of *)
(* the invoice at the recorded rate, however it was released: rounding     *)
(* errors never pile up.                                                   *)
ReservedTracksInvoice ==
  IsLive => /\ row.outstandingReserved = Convert(row.outstandingInvoice, row.rate)
            /\ row.outstandingReserved > 0

(* FR-009, FR-009b, SC-004a: in the end exactly what was reserved is given *)
(* back, and a closed reservation holds nothing.                           *)
ReturnsWhatItTook ==
  /\ returned + row.outstandingReserved = row.reserved
  /\ ~IsLive => row.outstandingReserved = 0

(* FR-009b: a live reservation can always be repaid in full: no sequence   *)
(* of partial releases leaves a rest that every release refuses.           *)
AlwaysSettleable ==
  IsLive => ReleaseVerdict(row, row.currency, row.outstandingInvoice) = Accepted

(* A write-off is recorded only of a reservation that gave something back  *)
(* before, and a cancellation only of one that gave back nothing.          *)
ClosingTellsHistory ==
  [][row'.status \in {"WRITTEN_OFF", "CANCELLED"} /\ row'.status # row.status =>
       (row'.status = "WRITTEN_OFF") = (returned > 0)]_lifecycle
=============================================================================
