----------------------------- MODULE TreasuryIngest -----------------------------
(***************************************************************************)
(* What one delivery of a treasury message does: the handlers of           *)
(* src/src/treasury and the services ApplyTreasuryEventService and         *)
(* ApplySnapshotService they call. A handler first parses the record       *)
(* (MessageSchemas) and inspects the message outside any transaction, then *)
(* applies it under the program lock, where it checks again. Kafka         *)
(* delivers at least once, and a quarantined message may be published      *)
(* again: any message may be handled at any time, any number of times, by  *)
(* any number of consumers at once.                                        *)
(***************************************************************************)
EXTENDS MessageSchemas, Functions

CONSTANT GuardBasisPoints   \* SNAPSHOT_DELTA_GUARD_RATIO in basis points

(* The fields hashed into content_hash.                                    *)
Content(m) ==
  IF m.kind = "EVENT"
  THEN [type |-> m.type, amount |-> m.amount, currency |-> m.currency,
        reference |-> m.reference]
  ELSE [currency |-> m.currency, limit |-> m.limit, reserved |-> m.reserved,
        effectiveAt |-> m.effectiveAt, marker |-> m.marker]

ProcessedRow(m) ==
  [program |-> m.program, kind |-> m.kind, version |-> m.version, content |-> Content(m)]

(* Message ids processed for the same program, kind and version.           *)
SameVersion(m) ==
  {id \in MessageIds : /\ processed[id] # None
                       /\ processed[id].program = m.program
                       /\ processed[id].kind = m.kind
                       /\ processed[id].version = m.version}

ContentDiffers(m) == \A id \in SameVersion(m) : processed[id].content # Content(m)

-------------------------------------------------------------------------------
(* Inspection, and the checks repeated under the lock.                     *)

AlreadyProcessed(m) == processed[m.id] # None

(* A program the table has, in the currency of the message.                *)
CurrencyMatches(m) == m.program \in Programs /\ m.currency = ProgramCurrency[m.program]

Stale(m) == m.program \in Programs /\ m.version < program[m.program].treasuryVersion

Current(m) == m.program \in Programs /\ m.version = program[m.program].treasuryVersion

(* A version that no BIGINT holds fails the query that looks it up; the    *)
(* consumer tries again and then quarantines the message.                  *)
InspectEvent(m) ==
  Verdict(<<Check(AlreadyProcessed(m), "ALREADY_APPLIED"),
            Check(m.program \notin Programs, "UNKNOWN_PROGRAM"),
            Check(~CurrencyMatches(m), "CURRENCY_MISMATCH"),
            Check(m.version > MaxMinor, "HANDLER_FAILURE"),
            Check(SameVersion(m) # {} /\ ContentDiffers(m), "VERSION_CONFLICT"),
            Check(SameVersion(m) # {}, "ALREADY_APPLIED")>>)

InspectSnapshot(m) ==
  Verdict(<<Check(AlreadyProcessed(m), "IGNORED"),
            Check(m.program \notin Programs, "UNKNOWN_PROGRAM"),
            Check(~CurrencyMatches(m), "CURRENCY_MISMATCH"),
            Check(Stale(m), "IGNORED"),
            Check(Current(m) /\ SameVersion(m) # {} /\ ContentDiffers(m), "VERSION_CONFLICT"),
            Check(Current(m) /\ SameVersion(m) # {}, "IGNORED"),
            Check(m.marker = None, "MISSING_ACK_MARKER")>>)

(* mutant: under the lock only the identity is looked up again             *)
EventVerdictByIdentity(m) ==
  Verdict(<<Check(~CurrencyMatches(m), "CURRENCY_MISMATCH"),
            Check(AlreadyProcessed(m), "ALREADY_APPLIED")>>)

(* mutant: the inspection is trusted                                       *)
EventVerdictInspected(m) == Verdict(<<Check(~CurrencyMatches(m), "CURRENCY_MISMATCH")>>)

EventVerdict(m) ==
  Verdict(<<Check(~CurrencyMatches(m), "CURRENCY_MISMATCH"),
            Check(m.id \in SameVersion(m), "ALREADY_APPLIED"),
            Check(SameVersion(m) # {} /\ ContentDiffers(m), "VERSION_CONFLICT"),
            Check(SameVersion(m) # {}, "ALREADY_APPLIED"),
            Check(AlreadyProcessed(m), "ALREADY_APPLIED")>>)

Disposition(m, code) ==
  [to |-> m, code |-> code, outcome |-> None,
   kind |-> CASE code \in {"ALREADY_APPLIED", "IGNORED"} -> "skipped"
              [] code = "HANDLER_FAILURE" -> "failed"
              [] OTHER -> "quarantined"]

(* A record that does not parse is quarantined without another look.       *)
RejectRecord(w) ==
  /\ pc[w] = "idle"
  /\ answer' = Disposition(None, "SCHEMA_INVALID")
  /\ UNCHANGED <<tables, pc, job, view>>

(* The handler up to the call of apply: reads, without a lock.             *)
Inspect(w, m) ==
  LET verdict == IF m.kind = "EVENT" THEN InspectEvent(m) ELSE InspectSnapshot(m)
  IN  /\ pc[w] = "idle"
      /\ IF verdict = Accepted
         THEN /\ pc'  = [pc EXCEPT ![w] = "waiting"]
              /\ job' = [job EXCEPT ![w] = m]
              /\ answer' = None
         ELSE answer' = Disposition(m, verdict) /\ UNCHANGED <<pc, job>>
      /\ UNCHANGED <<tables, view>>

StartApply(w) ==
  /\ pc[w] = "waiting"
  /\ TakeLock(w, job[w])
  /\ UNCHANGED tables

-------------------------------------------------------------------------------
(* Applying.                                                               *)

Applying(w, kind) == pc[w] = "locked" /\ job[w] \in Messages /\ job[w].kind = kind

MarkProcessed(w) == processed' = [processed EXCEPT ![job[w].id] = ProcessedRow(job[w])]

(* The stream position of the program on the topic never goes back.        *)
RecordPosition(w) ==
  streamPosition' =
    [streamPosition EXCEPT ![job[w].program][job[w].topic] =
       IF @.offset < job[w].offset
       THEN [offset |-> job[w].offset, updatedAt |-> view[w].nextSequence] ELSE @]

Skip(w, code) == FinishUnchanged(w, Disposition(job[w], code))

Applied(w) == Finish(w, Reply(w, "applied", Accepted, None))

(* A statement the schema refuses: no failure the consumer recognises, so  *)
(* it tries again and then quarantines the message as HANDLER_FAILURE.     *)
Fail(w) == FinishUnchanged(w, Reply(w, "failed", "HANDLER_FAILURE", None))

(* mutant: an event with a reference moves LOCAL, which holds its booking   *)
EventDraftOnReference(m, p) ==
  [delta |-> IF m.type = "RESERVATION_BOOKED" THEN m.amount
             ELSE IF m.type = "RESERVATION_RELEASED" THEN -m.amount
             ELSE m.amount - p.limit,
   component |-> IF m.type = "LIMIT_CHANGED" THEN "LIMIT"
                 ELSE IF m.reference = None THEN "TREASURY" ELSE "LOCAL",
   cause |-> IF m.type = "LIMIT_CHANGED" THEN "LIMIT_CHANGE" ELSE "TREASURY_EVENT",
   origin |-> m.id, actor |-> "treasury", correlationId |-> m.id]

EventDraft(m, p) ==
  [delta |-> IF m.type = "RESERVATION_BOOKED" THEN m.amount
             ELSE IF m.type = "RESERVATION_RELEASED" THEN -m.amount
             ELSE m.amount - p.limit,
   component |-> IF m.type = "LIMIT_CHANGED" THEN "LIMIT" ELSE "TREASURY",
   cause |-> IF m.type = "LIMIT_CHANGED" THEN "LIMIT_CHANGE" ELSE "TREASURY_EVENT",
   origin |-> IF m.type = "LIMIT_CHANGED" \/ m.reference = None THEN m.id ELSE m.reference,
   actor |-> "treasury", correlationId |-> m.id]

(* The reservations an event echoes: bookings this service made itself.    *)
Echoed(m) ==
  {i \in Invoices : /\ m.type # "LIMIT_CHANGED" /\ m.reference # None
                    /\ reservation[m.program][i] # None
                    /\ reservation[m.program][i].treasuryReference = m.reference}

SuppressEcho(w) ==
  /\ reservation' =
       [reservation EXCEPT ![job[w].program] =
          [i \in Invoices |->
             IF i \in Echoed(job[w]) /\ @[i].acknowledgedBy = None
             THEN [@[i] EXCEPT !.acknowledgedBy = job[w].version] ELSE @[i]]]
  /\ MarkProcessed(w)
  /\ RecordPosition(w)
  /\ Finish(w, Reply(w, "skipped", "ECHO_SUPPRESSED", None))
  /\ UNCHANGED <<program, ledger, request>>

ApplyEvent(w) ==
  LET m       == job[w]
      verdict == EventVerdict(m)
      drafts  == <<EventDraft(m, view[w])>>
  IN  /\ Applying(w, "EVENT")
      /\ IF verdict # Accepted THEN Skip(w, verdict)
         ELSE IF Echoed(m) # {} THEN SuppressEcho(w)
         ELSE IF ~AdvanceAllowed(w, drafts, FALSE) THEN Fail(w)
         ELSE /\ PersistAdvance(w, drafts)
              /\ MarkProcessed(w)
              /\ RecordPosition(w)
              /\ Applied(w)
              /\ UNCHANGED <<reservation, request>>

-------------------------------------------------------------------------------
(* A snapshot corrects the position to what treasury asserts.              *)

Booked(p) == {i \in Invoices : reservation[p][i] # None}

MarkerMatches(marker, row) ==
  IF marker.kind = "EXPLICIT" THEN row.treasuryReference \in Range(marker.references)
  ELSE row.confirmedAt <= marker.through

(* mutant: the marker of any snapshot acknowledges what it matches         *)
NewlyMatched(m) ==
  {i \in Booked(m.program) : MarkerMatches(m.marker, reservation[m.program][i])}

(* A marker no newer than the one that acknowledged a row is stale for it. *)
NewlyAcknowledged(m) ==
  {i \in Booked(m.program) :
     LET row == reservation[m.program][i]
     IN  /\ MarkerMatches(m.marker, row)
         /\ row.acknowledgedBy = None \/ row.acknowledgedBy < m.version}

Acknowledged(m) ==
  NewlyAcknowledged(m) \cup
    {i \in Booked(m.program) : reservation[m.program][i].acknowledgedBy # None}

Outstanding(p, invoices) ==
  SumFunctionOnSet([i \in invoices |-> reservation[p][i].outstandingReserved], invoices)

(* mutant: the sums are taken before the marker is applied (FR-011d)       *)
TargetTreasuryUnmarked(m) ==
  m.reserved - Outstanding(m.program, {i \in Booked(m.program) :
                                         reservation[m.program][i].acknowledgedBy # None})

TargetTreasury(m) == m.reserved - Outstanding(m.program, Acknowledged(m))

(* mutant: an acknowledged reservation is taken for treasury's             *)
TargetLocalUnacknowledged(m) ==
  Outstanding(m.program, Booked(m.program) \ Acknowledged(m))

TargetLocal(m) == Outstanding(m.program, Booked(m.program))

ExceedsGuard(delta, limit) == Magnitude(delta) * 10000 > GuardBasisPoints * limit

SnapshotVerdict(m, p) ==
  Verdict(<<Check(~CurrencyMatches(m), "CURRENCY_MISMATCH"),
            Check(AlreadyProcessed(m), "IGNORED"),
            Check(SameVersion(m) # {} /\ ContentDiffers(m), "VERSION_CONFLICT"),
            Check(SameVersion(m) # {}, "IGNORED"),
            Check(m.version < p.treasuryVersion, "IGNORED"),
            Check(TargetTreasury(m) < 0, "SNAPSHOT_INCONSISTENT"),
            Check(ExceedsGuard(TargetTreasury(m) - p.treasury, p.limit),
                  "IMPLAUSIBLE_DELTA")>>)

Adjustment(m, component, delta) ==
  [delta |-> delta, component |-> component, cause |-> "RECONCILIATION_ADJUSTMENT",
   origin |-> m.id, actor |-> "treasury", correlationId |-> m.id]

(* push(component, delta): no entry for a component that is on target.     *)
NonZero(draft) == IF draft.delta = 0 THEN <<>> ELSE <<draft>>

SnapshotDrafts(m, p) ==
  NonZero(Adjustment(m, "TREASURY", TargetTreasury(m) - p.treasury))
    \o NonZero(Adjustment(m, "LOCAL", TargetLocal(m) - p.local))
    \o NonZero(Adjustment(m, "LIMIT", m.limit - p.limit))

(* mutant: the asserted total is written over the position                 *)
ReconciledOverwriting(w, m) ==
  [Advanced(w, SnapshotDrafts(m, view[w])) EXCEPT
     !.treasury = m.reserved, !.treasuryVersion = m.version, !.positionVerified = TRUE]

(* mutant: a snapshot does not vouch for the position again                *)
ReconciledUnverified(w, m) ==
  [Advanced(w, SnapshotDrafts(m, view[w])) EXCEPT
     !.treasuryVersion = m.version,
     !.investigationRequired = @ \/ TargetLocal(m) # view[w].local]

(* The program row after the snapshot's two updates of it.                 *)
Reconciled(w, m) ==
  [Advanced(w, SnapshotDrafts(m, view[w])) EXCEPT
     !.treasuryVersion = m.version,
     !.investigationRequired = @ \/ TargetLocal(m) # view[w].local,
     !.positionVerified = TRUE]

ApplySnapshot(w) ==
  LET m       == job[w]
      verdict == SnapshotVerdict(m, view[w])
      drafts  == SnapshotDrafts(m, view[w])
  IN  /\ Applying(w, "SNAPSHOT")
      /\ IF verdict # Accepted THEN Skip(w, verdict)
         ELSE IF ~AdvanceAllowed(w, drafts, TRUE) THEN Fail(w)
         ELSE /\ PersistRow(w, Reconciled(w, m))
              /\ PersistLedger(w, drafts)
              /\ reservation' =
                   [reservation EXCEPT ![m.program] =
                      [i \in Invoices |->
                         IF i \in NewlyAcknowledged(m)
                         THEN [@[i] EXCEPT !.acknowledgedBy = m.version] ELSE @[i]]]
              /\ MarkProcessed(w)
              /\ RecordPosition(w)
              /\ Applied(w)
              /\ UNCHANGED request

HandleMessage(w) ==
  \/ \E r \in Records : ~Parsable(r) /\ RejectRecord(w)
  \/ \E m \in Messages : Inspect(w, m)
  \/ StartApply(w)
  \/ ApplyEvent(w)
  \/ ApplySnapshot(w)
=============================================================================
