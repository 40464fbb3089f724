-------------------------- MODULE ReservationPolicies --------------------------
(***************************************************************************)
(* The pure decisions of src/src/capacity/domain/policies: what a reserve, *)
(* a release and a cancellation do to one reservation, and why they are    *)
(* refused. No operator here reads or writes the database.                 *)
(***************************************************************************)
EXTENDS Money, Position

(***************************************************************************)
(* A policy is a list of checks in the order the code makes them; the      *)
(* first that fails names the refusal.                                     *)
(***************************************************************************)
Accepted == "ACCEPTED"

Check(fails, code) == IF fails THEN code ELSE Accepted

Verdict(checks) ==
  LET failed == {k \in DOMAIN checks : checks[k] # Accepted}
  IN  IF failed = {} THEN Accepted
      ELSE checks[CHOOSE k \in failed : \A j \in failed : k <= j]

-------------------------------------------------------------------------------
(* Reserving.                                                              *)

(* FxResolution; scaleRate admits no zero rate, so 0 stands for "no rate". *)
SameCurrency   == [kind |-> "sameCurrency", rate |-> RateScale]
FxRate(rate)   == [kind |-> "rate", rate |-> rate]
FxUnavailable  == [kind |-> "unavailable", rate |-> 0]

ReservedAmount(amount, fx) ==
  IF fx.kind = "sameCurrency" THEN amount ELSE Convert(amount, fx.rate)

(* mutant: the amount is held against the limit, not what is left of it    *)
ReserveVerdictOnLimit(p, amount, fx) ==
  Verdict(<<Check(~p.positionVerified, "POSITION_UNVERIFIED"),
            Check(IsOverLimit(p), "PROGRAM_OVER_LIMIT"),
            Check(fx.kind = "unavailable", "FX_RATE_UNAVAILABLE"),
            Check(ReservedAmount(amount, fx) > p.limit, "INSUFFICIENT_CAPACITY")>>)

ReserveVerdict(p, amount, fx) ==
  Verdict(<<Check(~p.positionVerified, "POSITION_UNVERIFIED"),
            Check(IsOverLimit(p), "PROGRAM_OVER_LIMIT"),
            Check(fx.kind = "unavailable", "FX_RATE_UNAVAILABLE"),
            Check(fx.kind = "rate" /\ RoundsToZero(amount, fx.rate),
                  "AMOUNT_ROUNDS_TO_ZERO"),
            Check(ReservedAmount(amount, fx) > Available(p),
                  "INSUFFICIENT_CAPACITY")>>)

(***************************************************************************)
(* The invoice_reservation row a reserve inserts. The rate of a            *)
(* same-currency row is NULL, which a release reads as '1.0': RateScale.   *)
(* acknowledgedBy is acknowledged_by_version; the table's CHECK makes      *)
(* treasury_acknowledged the same fact. confirmedAt is a logical instant.  *)
(***************************************************************************)
NewReservation(currency, amount, fx, confirmedAt) ==
  [status |-> "ACTIVE", currency |-> currency, rate |-> fx.rate,
   amount |-> amount, reserved |-> ReservedAmount(amount, fx),
   outstandingInvoice |-> amount, outstandingReserved |-> ReservedAmount(amount, fx),
   treasuryReference |-> None, acknowledgedBy |-> None, confirmedAt |-> confirmedAt]

-------------------------------------------------------------------------------
(* Releasing and cancelling.                                               *)

TerminalStatuses == {"FULLY_RELEASED", "CANCELLED", "WRITTEN_OFF"}

(* What stays reserved for the rest of the invoice; dust counts as nothing. *)
Remainder(row, amount) == Convert(row.outstandingInvoice - amount, row.rate)

(* mutant: the released amount is converted, not the rest of the invoice   *)
ReleaseDeltaConverted(row, amount) == Convert(amount, row.rate)

ReleaseDelta(row, amount) == row.outstandingReserved - Remainder(row, amount)

ReleaseVerdict(row, currency, amount) ==
  Verdict(<<Check(amount <= 0, "INVALID_AMOUNT"),
            Check(currency # row.currency, "CURRENCY_MISMATCH"),
            Check(row.status \in TerminalStatuses, "RESERVATION_TERMINAL"),
            Check(amount > row.outstandingInvoice, "RELEASE_EXCEEDS_RESERVED"),
            Check(RoundsToZero(amount, row.rate), "AMOUNT_ROUNDS_TO_ZERO"),
            Check(ReleaseDelta(row, amount) < 0, "RELEASE_EXCEEDS_RESERVED"),
            Check(ReleaseDelta(row, amount) = 0, "AMOUNT_ROUNDS_TO_ZERO")>>)

(* mutant: what stays reserved is counted down instead of recomputed       *)
ReleasedCountingDown(row, amount) ==
  IF Remainder(row, amount) = 0
  THEN [row EXCEPT !.outstandingInvoice = 0, !.outstandingReserved = 0,
                   !.status = "FULLY_RELEASED"]
  ELSE [row EXCEPT !.outstandingInvoice = @ - amount,
                   !.outstandingReserved = @ - Convert(amount, row.rate),
                   !.status = "PARTIALLY_RELEASED"]

(* mutant: only the last unit of the invoice settles the reservation       *)
ReleasedKeepingDust(row, amount) ==
  [row EXCEPT !.outstandingInvoice = @ - amount,
              !.outstandingReserved = Remainder(row, amount),
              !.status = IF amount = row.outstandingInvoice
                         THEN "FULLY_RELEASED" ELSE "PARTIALLY_RELEASED"]

(* The row after an accepted release: dust left on the invoice is settled. *)
Released(row, amount) ==
  IF Remainder(row, amount) = 0
  THEN [row EXCEPT !.outstandingInvoice = 0, !.outstandingReserved = 0,
                   !.status = "FULLY_RELEASED"]
  ELSE [row EXCEPT !.outstandingInvoice = @ - amount,
                   !.outstandingReserved = Remainder(row, amount),
                   !.status = "PARTIALLY_RELEASED"]

CancelVerdict(row) ==
  Verdict(<<Check(row.status \in TerminalStatuses, "RESERVATION_TERMINAL")>>)

(* What already happened to the reservation, never the caller, chooses.    *)
CancelCause(row) ==
  IF row.status = "PARTIALLY_RELEASED" THEN "WRITE_OFF" ELSE "CANCELLATION"

(* mutant: the row keeps the amount the ledger has given back              *)
CancelledHolding(row) ==
  [row EXCEPT !.status = IF row.status = "PARTIALLY_RELEASED"
                         THEN "WRITTEN_OFF" ELSE "CANCELLED"]

(* mutant: a closed reservation is cancelled whatever happened to it       *)
CancelledAlways(row) == [row EXCEPT !.outstandingReserved = 0, !.status = "CANCELLED"]

(* The row after a cancellation: outstanding_invoice_minor is left as it is. *)
Cancelled(row) ==
  [row EXCEPT !.outstandingReserved = 0,
              !.status = IF row.status = "PARTIALLY_RELEASED"
                         THEN "WRITTEN_OFF" ELSE "CANCELLED"]
=============================================================================
