--------------------------------- MODULE MCBase ---------------------------------
(***************************************************************************)
(* What the instances for TLC share: model values and constructors of the  *)
(* commands and messages. The program currency is EUR everywhere; USD is   *)
(* the foreign one.                                                        *)
(***************************************************************************)
EXTENDS CapacityProperties, TLC

CONSTANTS p1, p2, unknown, i1, i2, k1, k2, k3, k4, m1, m2, m3, m4, m5, m6, ref1, w1, w2

(* Handlers are interchangeable. *)
WorkerSymmetry == Permutations(Workers)

EuroPrograms == [p \in Programs |-> "EUR"]

ReserveCommand(k, p, i, currency, amount) ==
  [operation |-> "RESERVE", id |-> k, program |-> p, invoice |-> i,
   currency |-> currency, amount |-> amount, reason |-> None]

ReleaseCommand(k, p, i, currency, amount) ==
  [ReserveCommand(k, p, i, currency, amount) EXCEPT !.operation = "RELEASE"]

CancelCommand(k, p, i, reason) ==
  [operation |-> "CANCEL", id |-> k, program |-> p, invoice |-> i,
   currency |-> None, amount |-> None, reason |-> reason]

(* Records as treasury publishes them.                                     *)
Reference(reference) ==
  IF reference = None THEN [reservationReference |-> Null]
  ELSE [reservationReference |-> Text(reference)]

EventIn(currency, m, p, version, type, amount, reference, offset) ==
  [topic |-> "events", offset |-> offset,
   value |-> Object([messageId |-> Text(m), programId |-> Text(p),
                     version |-> Number(version), effectiveAt |-> Text(offset),
                     type |-> Text(type),
                     payload |-> Object([amountMinor |-> Text(amount),
                                         currency |-> Text(currency)]
                                        @@ Reference(reference))])]

Event(m, p, version, type, amount, reference, offset) ==
  EventIn("EUR", m, p, version, type, amount, reference, offset)

Snapshot(m, p, version, limit, reserved, acknowledgement, offset) ==
  [topic |-> "snapshots", offset |-> offset,
   value |-> Object([messageId |-> Text(m), programId |-> Text(p),
                     version |-> Number(version), effectiveAt |-> Text(offset),
                     correlationId |-> Null, currency |-> Text("EUR"),
                     creditLimitMinor |-> Text(limit), reservedMinor |-> Text(reserved),
                     acknowledgement |-> acknowledgement])]

Explicit(references) ==
  Object([kind |-> Text("EXPLICIT"), reservationIds |-> List(references)])

Watermark(through) ==
  Object([kind |-> Text("WATERMARK"), ingestedThrough |-> Text(through)])
=============================================================================
