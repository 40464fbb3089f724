---------------------------- MODULE CapacityCommands ----------------------------
(***************************************************************************)
(* The write API: reserve, release and cancel under an idempotency key     *)
(* (src/src/capacity/application: reserve, release, cancel and idempotency *)
(* services) and the retention sweep of the keys.                          *)
(*                                                                         *)
(* A command is                                                            *)
(*   [operation, id, program, invoice, currency, amount, reason]           *)
(* with None in the fields its operation does not have. A caller may send  *)
(* any command any number of times, to any number of handlers at once.     *)
(***************************************************************************)
EXTENDS CapacityStore

Operations == {"RESERVE", "RELEASE", "CANCEL"}

CONSTANTS
  Commands,   \* the commands callers send
  FxRates     \* scaled rates the FX provider may quote for a foreign invoice

(* What the DTOs and the program scope guard let through.                  *)
ASSUME CommandsAssumption ==
  /\ FxRates \subseteq Nat \ {0}
  /\ \A c \in Commands :
       /\ c.operation \in Operations
       /\ c.id \in RequestIds /\ c.program \in Programs /\ c.invoice \in Invoices
       /\ c.operation # "CANCEL" => c.amount \in 1..MaxMinor

(***************************************************************************)
(* The fields hashed into content_fingerprint. A cancellation has no       *)
(* amount; its reason stands for its reason and note.                      *)
(***************************************************************************)
Fingerprint(c) == [program |-> c.program, invoice |-> c.invoice, currency |-> c.currency,
                   amount |-> c.amount, reason |-> c.reason]

RequestRecord(c, state, outcome) ==
  [operation |-> c.operation, fingerprint |-> Fingerprint(c),
   state |-> state, outcome |-> outcome]

(* The body of an accepted answer: the reservation and the availability    *)
(* computed from the row just written.                                     *)
Body(row, reservationRow) ==
  [reservation |-> reservationRow, available |-> Available(row),
   reserved |-> TotalReserved(row), overLimit |-> row.overLimit]

-------------------------------------------------------------------------------
(* The request identifier.                                                 *)

(* withProgramLock for a command.                                          *)
StartCommand(w, c) ==
  /\ pc[w] = "idle"
  /\ TakeLock(w, c)
  /\ UNCHANGED tables

(* mutant: the key is looked up with a plain SELECT                        *)
KeyUnseen(w) == FALSE

(***************************************************************************)
(* INSERT ... ON CONFLICT DO NOTHING waits for the transaction that has    *)
(* inserted the same key and not ended: no one ever reads its PENDING row. *)
(***************************************************************************)
KeyInFlight(w) ==
  \E v \in Workers \ {w} : pc[v] = "begun" /\ job[v].id = job[w].id

(* mutant: the content tells all, whatever the operation                   *)
KeyVerdictOnContent(record, c) ==
  Verdict(<<Check(record.fingerprint # Fingerprint(c), "IDEMPOTENCY_CONFLICT"),
            Check(record.state = "PENDING", "REQUEST_IN_FLIGHT"),
            Check(record.state = "EXPIRED", "IDEMPOTENCY_EXPIRED")>>)

(* IdempotencyService.begin: the verdict on a key the table already has.   *)
KeyVerdict(record, c) ==
  Verdict(<<Check(record.operation # c.operation \/ record.fingerprint # Fingerprint(c),
                  "IDEMPOTENCY_CONFLICT"),
            Check(record.state = "PENDING", "REQUEST_IN_FLIGHT"),
            Check(record.state = "EXPIRED", "IDEMPOTENCY_EXPIRED")>>)

BeginRequest(w) ==
  /\ pc[w] = "locked" /\ job[w] \in Commands
  /\ ~KeyInFlight(w)
  /\ request[job[w].id] = None
  /\ pc' = [pc EXCEPT ![w] = "begun"]
  /\ answer' = None
  /\ UNCHANGED <<tables, job, view>>

Replay(w) ==
  /\ pc[w] = "locked" /\ job[w] \in Commands
  /\ ~KeyInFlight(w)
  /\ request[job[w].id] # None
  /\ LET record  == request[job[w].id]
         verdict == KeyVerdict(record, job[w])
     IN  FinishUnchanged(w, IF verdict = Accepted
                            THEN Reply(w, "replayed", Accepted, record.outcome)
                            ELSE Reply(w, "refused", verdict, None))

(* mutant: the sweep deletes the rows                                      *)
RetentionPurge ==
  \E old \in SUBSET {k \in RequestIds : request[k] # None /\ request[k].state = "COMPLETE"} :
    /\ old # {}
    /\ request' = [k \in RequestIds |-> IF k \in old THEN None ELSE request[k]]
    /\ answer' = None
    /\ UNCHANGED <<program, reservation, ledger, processed, streamPosition, pc, job, view>>

(* RequestRetentionJob.sweep: whatever is old enough loses its outcome.    *)
RetentionSweep ==
  \E old \in SUBSET {k \in RequestIds : request[k] # None /\ request[k].state = "COMPLETE"} :
    /\ old # {}
    /\ request' = [k \in RequestIds |->
                     IF k \in old THEN [request[k] EXCEPT !.state = "EXPIRED",
                                                          !.outcome = None]
                     ELSE request[k]]
    /\ answer' = None
    /\ UNCHANGED <<program, reservation, ledger, processed, streamPosition, pc, job, view>>

-------------------------------------------------------------------------------
(* The effect of a command.                                                *)

Working(w, operation) == pc[w] = "begun" /\ job[w].operation = operation

Row(w) == reservation[job[w].program][job[w].invoice]

Refuse(w, code) == FinishUnchanged(w, Reply(w, "refused", code, None))

LocalDraft(w, delta, cause) ==
  <<[delta |-> delta, component |-> "LOCAL", cause |-> cause, origin |-> job[w].invoice,
     actor |-> "caller", correlationId |-> job[w].id]>>

(***************************************************************************)
(* The tail every accepted command shares: the reservation row, the ledger *)
(* and the program row, the completed request, the commit. A statement the *)
(* schema refuses rolls all of it back.                                    *)
(***************************************************************************)
CommitCommand(w, delta, cause, row) ==
  LET drafts  == LocalDraft(w, delta, cause)
      outcome == Body(Advanced(w, drafts), row)
  IN  IF /\ AdvanceAllowed(w, drafts, FALSE)
         /\ ReservationRowAllowed(job[w].program, row)
      THEN /\ PersistAdvance(w, drafts)
           /\ reservation' = [reservation EXCEPT ![job[w].program][job[w].invoice] = row]
           /\ request' = [request EXCEPT ![job[w].id] =
                            RequestRecord(job[w], "COMPLETE", outcome)]
           /\ Finish(w, Reply(w, "created", Accepted, outcome))
           /\ UNCHANGED <<processed, streamPosition>>
      ELSE FinishUnchanged(w, Reply(w, "failed", "CONSTRAINT_VIOLATION", None))

(* The rate lookup: none is needed, one is quoted, or none is available.   *)
FxResolutions(w) ==
  IF job[w].currency = ProgramCurrency[job[w].program]
  THEN {SameCurrency} ELSE {FxRate(r) : r \in FxRates} \cup {FxUnavailable}

ReserveRefusal(w, fx) ==
  Verdict(<<Check(Row(w) # None, "DUPLICATE_INVOICE"),
            ReserveVerdict(view[w], job[w].amount, fx)>>)

Reserve(w) ==
  /\ Working(w, "RESERVE")
  /\ \E fx \in FxResolutions(w) :
       IF ReserveRefusal(w, fx) # Accepted
       THEN Refuse(w, ReserveRefusal(w, fx))
       ELSE CommitCommand(w, ReservedAmount(job[w].amount, fx), "RESERVATION",
              NewReservation(job[w].currency, job[w].amount, fx, view[w].nextSequence))

(* mutant: only reserving looks at position_verified                       *)
SettlementRefusalUnguarded(w, policyVerdict) ==
  IF Row(w) = None THEN "NOT_FOUND" ELSE policyVerdict

(* What a release and a cancellation check before their policies.          *)
SettlementRefusal(w, policyVerdict) ==
  IF ~view[w].positionVerified THEN "POSITION_UNVERIFIED"
  ELSE IF Row(w) = None THEN "NOT_FOUND"
  ELSE policyVerdict

Release(w) ==
  LET refusal == SettlementRefusal(w, ReleaseVerdict(Row(w), job[w].currency, job[w].amount))
  IN  /\ Working(w, "RELEASE")
      /\ IF refusal # Accepted THEN Refuse(w, refusal)
         ELSE CommitCommand(w, -ReleaseDelta(Row(w), job[w].amount), "RELEASE",
                            Released(Row(w), job[w].amount))

Cancel(w) ==
  LET refusal == SettlementRefusal(w, CancelVerdict(Row(w)))
  IN  /\ Working(w, "CANCEL")
      /\ IF refusal # Accepted THEN Refuse(w, refusal)
         ELSE CommitCommand(w, -Row(w).outstandingReserved, CancelCause(Row(w)),
                            Cancelled(Row(w)))

HandleCommand(w) ==
  \/ \E c \in Commands : StartCommand(w, c)
  \/ BeginRequest(w)
  \/ Replay(w)
  \/ Reserve(w)
  \/ Release(w)
  \/ Cancel(w)
=============================================================================
