------------------------------ MODULE LedgerProofs ------------------------------
(***************************************************************************)
(* The ledger, the position cached from it and the reservations agree, for *)
(* every set of programs, invoices, workers, commands and messages, and so *)
(* do the requests and the messages on record with what they have booked.  *)
(***************************************************************************)
EXTENDS FacilityProofs, AuditReads

-------------------------------------------------------------------------------
(* What a step does to the tables: it commits a command, an event or a     *)
(* snapshot, or it leaves every amount in them alone.                      *)

SamePosition(old, new) ==
  /\ new.local = old.local /\ new.treasury = old.treasury /\ new.limit = old.limit
  /\ new.nextSequence = old.nextSequence /\ new.overLimit = old.overLimit

AcknowledgedFurther(old, new) ==
  old.acknowledgedBy # None => /\ new.acknowledgedBy # None
                               /\ old.acknowledgedBy <= new.acknowledgedBy

SameTerms(old, new) ==
  /\ new.currency = old.currency /\ new.rate = old.rate
  /\ new.amount = old.amount /\ new.reserved = old.reserved
  /\ new.outstandingInvoice = old.outstandingInvoice

SameHolding(old, new) ==
  /\ new = None <=> old = None
  /\ old # None => /\ new.status = old.status
                   /\ new.outstandingReserved = old.outstandingReserved
                   /\ SameTerms(old, new)
                   /\ AcknowledgedFurther(old, new)

(* A request keeps its record, or loses its outcome.                       *)
SameRequest(old, new) ==
  /\ new = None <=> old = None
  /\ old # None /\ new.state = "COMPLETE" => new = old

(* The message a consumer applies is new, by identity and by version.      *)
AppliesNew(w) ==
  /\ pc[w] = "locked" /\ job[w] \in Messages
  /\ ~AlreadyProcessed(job[w]) /\ SameVersion(job[w]) = {}
  /\ MarkProcessed(w)

Quiet ==
  /\ UNCHANGED ledger
  /\ \A p \in Programs : SamePosition(program[p], program'[p])
  /\ \A p \in Programs, i \in Invoices : SameHolding(reservation[p][i], reservation'[p][i])
  /\ \A k \in RequestIds : SameRequest(request[k], request'[k])
  /\ UNCHANGED processed \/ \E w \in Workers : AppliesNew(w)

HeldBy(row) == IF row = None THEN 0 ELSE row.outstandingReserved

CommandCommits(w, delta, cause, row) ==
  LET drafts == LocalDraft(w, delta, cause)
  IN  /\ pc[w] = "begun" /\ job[w] \in Commands /\ view[w].positionVerified
      /\ delta \in Int /\ cause \in {"RESERVATION", "RELEASE", "CANCELLATION", "WRITE_OFF"}
      /\ row \in ReservationRow /\ row.outstandingReserved = HeldBy(Row(w)) + delta
      /\ row.status \in TerminalStatuses => row.outstandingReserved = 0
      /\ Row(w) # None => row.acknowledgedBy = Row(w).acknowledgedBy
      /\ ReservationRowAllowed(job[w].program, row)
      /\ AdvanceAllowed(w, drafts, FALSE) /\ PersistAdvance(w, drafts)
      /\ reservation' = [reservation EXCEPT ![job[w].program][job[w].invoice] = row]
      /\ request' = [request EXCEPT ![job[w].id] =
                       RequestRecord(job[w], "COMPLETE", Body(Advanced(w, drafts), row))]
      /\ UNCHANGED processed

EventCommits(w) ==
  LET drafts == <<EventDraft(job[w], view[w])>>
  IN  /\ AppliesNew(w) /\ job[w].kind = "EVENT"
      /\ AdvanceAllowed(w, drafts, FALSE) /\ PersistAdvance(w, drafts)
      /\ UNCHANGED <<reservation, request>>

SnapshotCommits(w) ==
  LET m      == job[w]
      drafts == SnapshotDrafts(m, view[w])
  IN  /\ AppliesNew(w) /\ m.kind = "SNAPSHOT" /\ SnapshotVerdict(m, view[w]) = Accepted
      /\ AdvanceAllowed(w, drafts, TRUE)
      /\ PersistLedger(w, drafts) /\ PersistRow(w, Reconciled(w, m))
      /\ reservation' = [reservation EXCEPT ![m.program] =
                           [i \in Invoices |-> IF i \in NewlyAcknowledged(m)
                                               THEN [@[i] EXCEPT !.acknowledgedBy = m.version]
                                               ELSE @[i]]]
      /\ UNCHANGED request

(* A step that leaves the tables alone.                                    *)
LEMMA TablesQuiet ==
  ASSUME IInv, UNCHANGED <<program, reservation, ledger, request, processed>>
  PROVE  Quiet
<1>1. ASSUME NEW p \in Programs, NEW i \in Invoices
      PROVE  SameHolding(reservation[p][i], reservation'[p][i])
  <2>1. reservation[p][i] \in ReservationRow \cup {None}
    BY DEF IInv, TypeOK, TablesOK
  <2> QED BY <2>1 DEF SameHolding, SameTerms, AcknowledgedFurther, ReservationRow
<1> QED BY <1>1 DEF Quiet, SamePosition, SameRequest

(* The tail of a command commits, or leaves the tables alone.              *)
LEMMA CommitCommandCases ==
  ASSUME IInv, NEW w \in Workers, pc[w] = "begun", view[w].positionVerified,
         NEW delta, NEW cause \in {"RESERVATION", "RELEASE", "CANCELLATION", "WRITE_OFF"}, NEW row,
         ReservationRowAllowed(job[w].program, row) =>
           /\ delta \in Int /\ row \in ReservationRow
           /\ row.outstandingReserved = HeldBy(Row(w)) + delta
           /\ row.status \in TerminalStatuses => row.outstandingReserved = 0
           /\ Row(w) # None => row.acknowledgedBy = Row(w).acknowledgedBy,
         CommitCommand(w, delta, cause, row)
  PROVE  CommandCommits(w, delta, cause, row) \/ Quiet
<1> DEFINE drafts  == LocalDraft(w, delta, cause)
           allowed == AdvanceAllowed(w, drafts, FALSE) /\ ReservationRowAllowed(job[w].program, row)
<1>1. job[w] \in Commands
  BY DEF IInv, TypeOK, SessionsOK
<1>2. CASE allowed
  <2>1. /\ PersistAdvance(w, drafts)
        /\ reservation' = [reservation EXCEPT ![job[w].program][job[w].invoice] = row]
        /\ request' = [request EXCEPT ![job[w].id] =
                         RequestRecord(job[w], "COMPLETE", Body(Advanced(w, drafts), row))]
        /\ UNCHANGED processed
    BY <1>2, Zenon DEF CommitCommand
  <2> QED BY <1>1, <1>2, <2>1, Zenon DEF CommandCommits
<1>3. CASE ~allowed
  <2>1. FinishUnchanged(w, Reply(w, "failed", "CONSTRAINT_VIOLATION", None))
    BY <1>3, Zenon DEF CommitCommand
  <2> QED BY <2>1, TablesQuiet DEF FinishUnchanged, tables
<1> QED BY <1>2, <1>3

CommandStep(w) ==
  \E delta \in Int, cause \in Causes, row \in ReservationRow : CommandCommits(w, delta, cause, row)

LEMMA CommandStepWitness ==
  ASSUME NEW w, NEW delta, NEW cause, NEW row, CommandCommits(w, delta, cause, row)
  PROVE  CommandStep(w)
<1>1. delta \in Int /\ cause \in Causes /\ row \in ReservationRow
  BY DEF CommandCommits, Causes
<1> QED BY <1>1 DEF CommandStep

(* A reserve books what its new row holds.                                 *)
LEMMA ReserveCases ==
  ASSUME IInv, NEW w \in Workers, Reserve(w)
  PROVE  CommandStep(w) \/ Quiet
<1>1. PICK fx \in FxResolutions(w) :
        IF ReserveRefusal(w, fx) # Accepted
        THEN Refuse(w, ReserveRefusal(w, fx))
        ELSE CommitCommand(w, ReservedAmount(job[w].amount, fx), "RESERVATION",
               NewReservation(job[w].currency, job[w].amount, fx, view[w].nextSequence))
  BY DEF Reserve
<1>2. /\ pc[w] = "begun" /\ job[w] \in Commands /\ job[w].program \in Programs
      /\ view[w] \in ProgramRow
  BY CommandsAssumption DEF Reserve, Working, IInv, TypeOK, TablesOK, SessionsOK,
                            LockedViewIsCurrent, InTransaction
<1>3. CASE ReserveRefusal(w, fx) # Accepted
  BY <1>1, <1>3, TablesQuiet DEF Refuse, FinishUnchanged, tables
<1>4. CASE ReserveRefusal(w, fx) = Accepted
  <2> DEFINE n   == ReservedAmount(job[w].amount, fx)
             row == NewReservation(job[w].currency, job[w].amount, fx, view[w].nextSequence)
  <2>1. Row(w) = None /\ view[w].positionVerified /\ fx.kind # "unavailable"
    BY <1>4, ReserveAccepted
  <2>2. /\ row.reserved = n /\ row.outstandingReserved = n /\ row.status = "ACTIVE"
    BY DEF NewReservation
  <2>3. ReservationRowAllowed(job[w].program, row) => row \in ReservationRow /\ n \in Int
    <3>1. fx.rate \in Nat \ {0}
      BY <2>1, FxResolutionRate
    <3>2. job[w].currency \in {c.currency : c \in Commands} /\ view[w].nextSequence \in Nat
      BY <1>2 DEF ProgramRow
    <3> QED BY <3>1, <3>2, StoreAssumption
            DEF NewReservation, ReservationRowAllowed, ReservationRow, Minor
  <2>4. CommitCommand(w, n, "RESERVATION", row)
    BY <1>1, <1>4
  <2> HIDE DEF n, row
  <2>5. HeldBy(Row(w)) = 0 /\ row.status \notin TerminalStatuses
    BY <2>1, <2>2 DEF HeldBy, TerminalStatuses
  <2>6. CommandCommits(w, n, "RESERVATION", row) \/ Quiet
    <3>1. ReservationRowAllowed(job[w].program, row) =>
            row.outstandingReserved = HeldBy(Row(w)) + n
      BY <2>2, <2>3, <2>5
    <3> HIDE DEF HeldBy
    <3> QED BY <1>2, <2>1, <2>2, <2>3, <2>4, <2>5, <3>1, CommitCommandCases
  <2> QED BY <2>6, CommandStepWitness
<1> QED BY <1>3, <1>4

(* A release books what the row holds less.                                *)
LEMMA ReleaseCases ==
  ASSUME IInv, NEW w \in Workers, Release(w)
  PROVE  CommandStep(w) \/ Quiet
<1> DEFINE n == ReleaseDelta(Row(w), job[w].amount)
           verdict == ReleaseVerdict(Row(w), job[w].currency, job[w].amount)
           refusal == SettlementRefusal(w, verdict)
           row     == Released(Row(w), job[w].amount)
<1>1. /\ pc[w] = "begun"
      /\ IF refusal # Accepted THEN Refuse(w, refusal)
         ELSE CommitCommand(w, -n, "RELEASE", row)
  BY Zenon DEF Release, Working
<1> HIDE DEF verdict, row, n
<1>2. CASE refusal # Accepted
  BY <1>1, <1>2, TablesQuiet DEF Refuse, FinishUnchanged, tables
<1>3. CASE refusal = Accepted
  <2>1. Row(w) \in ReservationRow /\ view[w].positionVerified
    BY <1>1, <1>3, SettlementRow
  <2>2. Row(w) # None /\ HeldBy(Row(w)) = Row(w).outstandingReserved
    BY <2>1, NullAssumption DEF HeldBy
  <2>3. /\ row.amount = Row(w).amount /\ row.reserved = Row(w).reserved
        /\ row.acknowledgedBy = Row(w).acknowledgedBy
        /\ row.outstandingReserved = Remainder(Row(w), job[w].amount)
        /\ row.status \in TerminalStatuses => row.outstandingReserved = 0
        /\ row.outstandingInvoice \in Minor /\ row.outstandingReserved \in Minor
             => row \in ReservationRow
    BY <2>1 DEF row, Released, ReservationRow, TerminalStatuses
  <2>4. {Row(w).amount, Row(w).reserved, Row(w).outstandingReserved} \subseteq Minor
    BY <2>1 DEF ReservationRow
  <2>5. ReservationRowAllowed(job[w].program, row) =>
          /\ row \in ReservationRow /\ -n \in Int
          /\ row.outstandingReserved = HeldBy(Row(w)) + (-n)
    <3>1. n = Row(w).outstandingReserved - row.outstandingReserved
      BY <2>3 DEF n, ReleaseDelta
    <3> QED BY <2>2, <2>3, <2>4, <3>1, StoreAssumption DEF ReservationRowAllowed, Minor
  <2>6. CommandCommits(w, -n, "RELEASE", row) \/ Quiet
    <3>1. CommitCommand(w, -n, "RELEASE", row)
      BY <1>1, <1>3
    <3> QED BY <1>1, <2>1, <2>3, <2>5, <3>1, CommitCommandCases
  <2> QED BY <2>6, CommandStepWitness
<1> QED BY <1>2, <1>3

(* A cancellation books all of it.                                         *)
LEMMA CancelCases ==
  ASSUME IInv, NEW w \in Workers, Cancel(w)
  PROVE  CommandStep(w) \/ Quiet
<1> DEFINE n == Row(w).outstandingReserved
           refusal == SettlementRefusal(w, CancelVerdict(Row(w)))
           row     == Cancelled(Row(w))
<1>1. /\ pc[w] = "begun"
      /\ IF refusal # Accepted THEN Refuse(w, refusal)
         ELSE CommitCommand(w, -n, CancelCause(Row(w)), row)
  BY Zenon DEF Cancel, Working
<1> HIDE DEF row
<1>2. CASE refusal # Accepted
  BY <1>1, <1>2, TablesQuiet DEF Refuse, FinishUnchanged, tables
<1>3. CASE refusal = Accepted
  <2>1. Row(w) \in ReservationRow /\ view[w].positionVerified
    BY <1>1, <1>3, SettlementRow
  <2>2. Row(w) # None /\ HeldBy(Row(w)) = n /\ n \in Int
    BY <2>1, NullAssumption, StoreAssumption DEF HeldBy, ReservationRow, Minor
  <2>3. /\ row \in ReservationRow /\ row.outstandingReserved = 0
        /\ row.acknowledgedBy = Row(w).acknowledgedBy
    <3>1. PICK status \in TerminalStatuses :
            row = [Row(w) EXCEPT !.outstandingReserved = 0, !.status = status]
      BY Zenon DEF row, Cancelled, TerminalStatuses
    <3>2. 0 \in Minor
      BY StoreAssumption DEF Minor
    <3> QED BY <2>1, <3>1, <3>2 DEF ReservationRow
  <2>4. -n \in Int /\ row.outstandingReserved = HeldBy(Row(w)) + (-n)
    BY <2>2, <2>3
  <2>5. CommandCommits(w, -n, CancelCause(Row(w)), row) \/ Quiet
    <3>1. CommitCommand(w, -n, CancelCause(Row(w)), row)
      BY <1>1, <1>3
    <3>2. CancelCause(Row(w)) \in {"RESERVATION", "RELEASE", "CANCELLATION", "WRITE_OFF"}
      BY DEF CancelCause
    <3> QED BY <1>1, <2>1, <2>3, <2>4, <3>1, <3>2, CommitCommandCases
  <2> QED BY <2>5, CommandStepWitness
<1> QED BY <1>2, <1>3

(* To acknowledge a reservation, for the first time or by a newer message, *)
(* leaves what it holds.                                                   *)
LEMMA AcknowledgingKeeps ==
  ASSUME IInv, NEW P \in Programs, NEW version \in Nat, NEW S,
         \A i \in S : /\ reservation[P][i] # None
                      /\ \/ reservation[P][i].acknowledgedBy = None
                         \/ reservation[P][i].acknowledgedBy <= version,
         reservation' = [reservation EXCEPT ![P] =
           [i \in Invoices |-> IF i \in S THEN [@[i] EXCEPT !.acknowledgedBy = version]
                               ELSE @[i]]]
  PROVE  \A p \in Programs, i \in Invoices : SameHolding(reservation[p][i], reservation'[p][i])
<1>1. ASSUME NEW p \in Programs, NEW i \in Invoices
      PROVE  SameHolding(reservation[p][i], reservation'[p][i])
  <2>1. reservation[p][i] \in ReservationRow \cup {None}
    BY DEF IInv, TypeOK, TablesOK
  <2>2. CASE p = P /\ i \in S
    <3>1. reservation'[p][i] = [reservation[p][i] EXCEPT !.acknowledgedBy = version]
      BY <2>2 DEF IInv, TypeOK, TablesOK
    <3>2. reservation[p][i] \in ReservationRow /\ reservation[p][i] # None
      BY <2>1, <2>2
    <3>3. /\ reservation'[p][i] \in ReservationRow
          /\ reservation'[p][i].status = reservation[p][i].status
          /\ reservation'[p][i].outstandingReserved = reservation[p][i].outstandingReserved
          /\ reservation'[p][i].acknowledgedBy = version
      BY <3>1, <3>2 DEF ReservationRow
    <3>4. version # None
      BY NullAssumption, <3>2, <3>3, StoreAssumption DEF ReservationRow, Minor
    <3>5. reservation'[p][i] # None
      BY <3>3, NullAssumption
    <3> QED BY <2>2, <3>2, <3>3, <3>4, <3>5 DEF SameHolding, SameTerms, AcknowledgedFurther
  <2>3. CASE ~(p = P /\ i \in S)
    <3>1. reservation'[p][i] = reservation[p][i]
      BY <2>3 DEF IInv, TypeOK, TablesOK
    <3> QED BY <2>1, <3>1 DEF SameHolding, SameTerms, AcknowledgedFurther, ReservationRow
  <2> QED BY <2>2, <2>3
<1> QED BY <1>1

(* An event commits, or leaves every amount alone.                         *)
LEMMA EventCases ==
  ASSUME IInv, NEW w \in Workers, ApplyEvent(w)
  PROVE  EventCommits(w) \/ Quiet
<1> DEFINE m      == job[w]
           P      == m.program
           drafts == <<EventDraft(m, view[w])>>
<1>1. /\ Applying(w, "EVENT")
      /\ \/ Skip(w, EventVerdict(m))
         \/ Fail(w)
         \/ EventVerdict(m) = Accepted /\ SuppressEcho(w)
         \/ /\ EventVerdict(m) = Accepted
            /\ AdvanceAllowed(w, drafts, FALSE)
            /\ PersistAdvance(w, drafts)
            /\ MarkProcessed(w)
            /\ UNCHANGED <<reservation, request>>
  BY Zenon DEF ApplyEvent
<1>2. m \in Messages /\ m.version \in Nat /\ P \in Programs
  BY <1>1, ParsedMessagesFit DEF Applying, IInv, TypeOK, SessionsOK
<1>3. CASE Skip(w, EventVerdict(m)) \/ Fail(w)
  <2>1. \E reply : FinishUnchanged(w, reply)
    BY <1>3, Zenon DEF Skip, Fail
  <2> QED BY <2>1, TablesQuiet DEF FinishUnchanged, tables
<1>4. ASSUME EventVerdict(m) = Accepted, MarkProcessed(w)
      PROVE  AppliesNew(w)
  BY <1>1, <1>4, VerdictOnNew DEF AppliesNew, Applying
<1>5. CASE EventVerdict(m) = Accepted /\ SuppressEcho(w)
  <2> DEFINE S == {i \in Echoed(m) : reservation[P][i].acknowledgedBy = None}
  <2>1. \A p \in Programs, i \in Invoices : SameHolding(reservation[p][i], reservation'[p][i])
    <3>1. \A i \in S : reservation[P][i] # None /\ reservation[P][i].acknowledgedBy = None
      BY DEF Echoed
    <3>2. reservation' = [reservation EXCEPT ![P] =
             [i \in Invoices |-> IF i \in S THEN [@[i] EXCEPT !.acknowledgedBy = m.version]
                                 ELSE @[i]]]
      BY <1>2, <1>5 DEF SuppressEcho, IInv, TypeOK, TablesOK
    <3> HIDE DEF P, S
    <3> QED BY <1>2, <3>1, <3>2, AcknowledgingKeeps
  <2>2. MarkProcessed(w) /\ UNCHANGED <<program, ledger, request>>
    BY <1>5 DEF SuppressEcho
  <2>3. AppliesNew(w)
    BY <1>4, <1>5, <2>2
  <2> QED BY <2>1, <2>2, <2>3 DEF Quiet, SamePosition, SameRequest
<1>6. CASE /\ EventVerdict(m) = Accepted
           /\ AdvanceAllowed(w, drafts, FALSE)
           /\ PersistAdvance(w, drafts)
           /\ MarkProcessed(w)
           /\ UNCHANGED <<reservation, request>>
  <2>1. AppliesNew(w) /\ m.kind = "EVENT"
    BY <1>1, <1>4, <1>6 DEF Applying
  <2> QED BY <1>6, <2>1, Zenon DEF EventCommits
<1> QED BY <1>1, <1>3, <1>5, <1>6

(* A snapshot commits, or leaves the tables alone.                         *)
LEMMA SnapshotCases ==
  ASSUME IInv, NEW w \in Workers, ApplySnapshot(w)
  PROVE  SnapshotCommits(w) \/ Quiet
<1> DEFINE m      == job[w]
           drafts == SnapshotDrafts(m, view[w])
           acknowledging ==
             reservation' = [reservation EXCEPT ![m.program] =
                               [i \in Invoices |-> IF i \in NewlyAcknowledged(m)
                                                   THEN [@[i] EXCEPT !.acknowledgedBy = m.version]
                                                   ELSE @[i]]]
<1>1. /\ Applying(w, "SNAPSHOT")
      /\ \/ Skip(w, SnapshotVerdict(m, view[w]))
         \/ Fail(w)
         \/ /\ SnapshotVerdict(m, view[w]) = Accepted
            /\ AdvanceAllowed(w, drafts, TRUE)
            /\ PersistRow(w, Reconciled(w, m)) /\ PersistLedger(w, drafts)
            /\ acknowledging
            /\ MarkProcessed(w)
            /\ UNCHANGED request
  BY Zenon DEF ApplySnapshot
<1>2. CASE Skip(w, SnapshotVerdict(m, view[w])) \/ Fail(w)
  <2>1. \E reply : FinishUnchanged(w, reply)
    BY <1>2, Zenon DEF Skip, Fail
  <2> QED BY <2>1, TablesQuiet DEF FinishUnchanged, tables
<1>3. CASE /\ SnapshotVerdict(m, view[w]) = Accepted
           /\ AdvanceAllowed(w, drafts, TRUE)
           /\ PersistRow(w, Reconciled(w, m)) /\ PersistLedger(w, drafts)
           /\ acknowledging
           /\ MarkProcessed(w)
           /\ UNCHANGED request
  <2>1. AppliesNew(w)
    BY <1>1, <1>3, VerdictOnNew DEF AppliesNew, Applying
  <2>2. m.kind = "SNAPSHOT"
    BY <1>1 DEF Applying
  <2> QED BY <1>3, <2>1, <2>2, Zenon DEF SnapshotCommits
<1> QED BY <1>1, <1>2, <1>3

(* The sweep takes outcomes, and nothing else.                             *)
LEMMA SweepQuiet ==
  ASSUME IInv, RetentionSweep
  PROVE  Quiet
<1>1. PICK old \in SUBSET {k \in RequestIds : request[k] # None /\ request[k].state = "COMPLETE"} :
        request' = [k \in RequestIds |->
                      IF k \in old THEN [request[k] EXCEPT !.state = "EXPIRED", !.outcome = None]
                      ELSE request[k]]
  BY DEF RetentionSweep
<1>2. UNCHANGED <<program, reservation, ledger, processed>>
  BY DEF RetentionSweep
<1>3. ASSUME NEW k \in RequestIds
      PROVE  SameRequest(request[k], request'[k])
  <2>1. CASE k \in old
    <3>1. request[k] \in RequestRow /\ request[k] # None
      BY <2>1 DEF IInv, TypeOK, TablesOK
    <3>2. request'[k] = [request[k] EXCEPT !.state = "EXPIRED", !.outcome = None]
      BY <1>1, <2>1
    <3>3. request'[k] \in RequestRow /\ request'[k].state = "EXPIRED"
      BY <3>1, <3>2 DEF RequestRow
    <3> QED BY <3>1, <3>3, NullAssumption DEF SameRequest
  <2>2. CASE k \notin old
    BY <1>1, <2>2 DEF SameRequest
  <2> QED BY <2>1, <2>2
<1>4. \A p \in Programs, i \in Invoices : SameHolding(reservation[p][i], reservation'[p][i])
  <2>1. \A p \in Programs, i \in Invoices : reservation[p][i] \in ReservationRow \cup {None}
    BY DEF IInv, TypeOK, TablesOK
  <2> QED BY <1>2, <2>1 DEF SameHolding, SameTerms, AcknowledgedFurther, ReservationRow
<1> QED BY <1>2, <1>3, <1>4 DEF Quiet, SamePosition

(* The reference treasury files a reservation under changes no amount.     *)
LEMMA LinkQuiet ==
  ASSUME IInv, NEW p \in Programs, NEW i \in Invoices, NEW reference \in TreasuryReferences,
         LinkReference(p, i, reference)
  PROVE  Quiet
<1>1. UNCHANGED <<program, ledger, request, processed>>
  BY DEF LinkReference
<1>2. ASSUME NEW q \in Programs, NEW j \in Invoices
      PROVE  SameHolding(reservation[q][j], reservation'[q][j])
  <2>1. CASE q = p /\ j = i
    <3>1. reservation[p][i] \in ReservationRow /\ reservation[p][i] # None
      BY DEF LinkReference, IInv, TypeOK, TablesOK
    <3>2. reservation'[p][i] = [reservation[p][i] EXCEPT !.treasuryReference = reference]
      BY DEF LinkReference, IInv, TypeOK, TablesOK
    <3>3. /\ reservation'[p][i] \in ReservationRow
          /\ reservation'[p][i].status = reservation[p][i].status
          /\ reservation'[p][i].outstandingReserved = reservation[p][i].outstandingReserved
          /\ reservation'[p][i].acknowledgedBy = reservation[p][i].acknowledgedBy
          /\ SameTerms(reservation[p][i], reservation'[p][i])
      BY <3>1, <3>2 DEF ReservationRow, SameTerms
    <3>4. reservation'[p][i] # None /\ reservation[p][i].acknowledgedBy \in Nat \cup {None}
      BY <3>1, <3>3, NullAssumption DEF ReservationRow
    <3> QED BY <2>1, <3>1, <3>3, <3>4 DEF SameHolding, AcknowledgedFurther
  <2>2. CASE ~(q = p /\ j = i)
    <3>1. /\ reservation'[q][j] = reservation[q][j]
          /\ reservation[q][j] \in ReservationRow \cup {None}
      BY <2>2 DEF LinkReference, IInv, TypeOK, TablesOK
    <3> QED BY <3>1 DEF SameHolding, SameTerms, AcknowledgedFurther, ReservationRow
  <2> QED BY <2>1, <2>2
<1> QED BY <1>1, <1>2 DEF Quiet, SamePosition, SameRequest

(* Recovery and the reconciliation check touch the flags of a program only. *)
LEMMA FlagsQuiet ==
  ASSUME IInv, UNCHANGED <<reservation, ledger, request, processed>>, NEW P \in Programs,
         \/ program' = [program EXCEPT ![P].positionVerified = FALSE]
         \/ program' = [program EXCEPT ![P].investigationRequired = TRUE]
  PROVE  Quiet
<1>1. ASSUME NEW p \in Programs
      PROVE  SamePosition(program[p], program'[p])
  <2>1. program[p] \in ProgramRow
    BY DEF IInv, TypeOK, TablesOK
  <2>2. \/ program'[p] = program[p]
        \/ program'[p] = [program[p] EXCEPT !.positionVerified = FALSE]
        \/ program'[p] = [program[p] EXCEPT !.investigationRequired = TRUE]
    BY DEF IInv, TypeOK, TablesOK
  <2> QED BY <2>1, <2>2 DEF SamePosition, ProgramRow
<1>2. \A p \in Programs, i \in Invoices : SameHolding(reservation[p][i], reservation'[p][i])
  <2>1. \A p \in Programs, i \in Invoices : reservation[p][i] \in ReservationRow \cup {None}
    BY DEF IInv, TypeOK, TablesOK
  <2> QED BY <2>1 DEF SameHolding, SameTerms, AcknowledgedFurther, ReservationRow
<1> QED BY <1>1, <1>2 DEF Quiet, SameRequest

(* Every step of the system commits something, or leaves all amounts alone. *)
LEMMA NextCases ==
  ASSUME IInv, [Next]_system
  PROVE  \/ \E w \in Workers : CommandStep(w) \/ EventCommits(w) \/ SnapshotCommits(w)
         \/ Quiet
<1>1. CASE UNCHANGED system
  BY <1>1, TablesQuiet DEF system, vars
<1>2. CASE Recover
  <2>1. CASE \E p \in Programs : FlagUnverified(p)
    BY <2>1, FlagsQuiet DEF FlagUnverified
  <2>2. CASE DetectBehind \/ \E p \in Programs : RestoreOlderPosition(p)
    BY <2>2, TablesQuiet DEF DetectBehind, RestoreOlderPosition, tables
  <2> QED BY <1>2, <2>1, <2>2 DEF Recover
<1>3. ASSUME NEW w \in Workers, HandleCommand(w)
      PROVE  CommandStep(w) \/ Quiet
  <2>1. CASE (\E c \in Commands : StartCommand(w, c)) \/ BeginRequest(w) \/ Replay(w)
    BY <2>1, TablesQuiet DEF StartCommand, BeginRequest, Replay, FinishUnchanged, tables
  <2> QED BY <1>3, <2>1, ReserveCases, ReleaseCases, CancelCases DEF HandleCommand
<1>4. ASSUME NEW w \in Workers, HandleMessage(w)
      PROVE  EventCommits(w) \/ SnapshotCommits(w) \/ Quiet
  <2>1. CASE RejectRecord(w) \/ StartApply(w)
    BY <2>1, TablesQuiet DEF RejectRecord, StartApply, tables
  <2>2. CASE \E m \in Messages : Inspect(w, m)
    <3>1. UNCHANGED tables
      BY <2>2, Zenon DEF Inspect
    <3> QED BY <3>1, TablesQuiet DEF tables
  <2> QED BY <1>4, <2>1, <2>2, EventCases, SnapshotCases DEF HandleMessage
<1>5. ASSUME NEW w \in Workers, Crash(w)
      PROVE  Quiet
  BY <1>5, TablesQuiet DEF Crash, FinishUnchanged, tables
<1>6. CASE Serve
  BY <1>3, <1>4, <1>5, <1>6, SweepQuiet, LinkQuiet DEF Serve
<1> QED BY <1>1, <1>2, <1>6 DEF Next

-------------------------------------------------------------------------------
(* What a commit does to the ledger.                                       *)

(* An entry books a draft.                                                 *)
Books(entry, draft) ==
  /\ entry.delta = draft.delta /\ entry.component = draft.component
  /\ entry.cause = draft.cause /\ entry.origin = draft.origin
  /\ entry.actor = draft.actor /\ entry.correlationId = draft.correlationId

(* The entry of the over-limit mark.                                       *)
BooksMark(entry) ==
  /\ entry.delta = 0 /\ entry.component = "LIMIT" /\ entry.origin = None
  /\ entry.actor = "system"
  /\ entry.cause \in {"OVER_LIMIT_ONSET", "OVER_LIMIT_CLEARED"}

(* The ledger of P goes on with the drafts and the mark.                   *)
Grows(P, drafts) ==
  LET L     == Len(ledger[P])
      N     == Len(drafts)
      marks == MarkEntries(program[P], drafts)
  IN  /\ \A p \in Programs \ {P} : ledger'[p] = ledger[p]
      /\ L \in Nat /\ N \in Nat /\ Len(marks) \in Nat
      /\ DOMAIN ledger[P] = 1..L /\ DOMAIN drafts = 1..N
      /\ DOMAIN ledger'[P] = 1..(L + N + Len(marks))
      /\ Len(ledger'[P]) = L + N + Len(marks)
      /\ \A n \in 1..L : ledger'[P][n] = ledger[P][n]
      /\ \A k \in 1..N : Books(ledger'[P][L + k], drafts[k])
      /\ \A k \in 1..Len(marks) : /\ BooksMark(ledger'[P][L + N + k])
                                  /\ ledger'[P][L + N + k].cause = marks[k].cause

(* Two sequences, one after the other.                                     *)
LEMMA Concatenated ==
  ASSUME NEW A, NEW B, NEW s \in Seq(A), NEW t \in Seq(B)
  PROVE  /\ Len(s \o t) = Len(s) + Len(t)
         /\ DOMAIN (s \o t) = 1..(Len(s) + Len(t))
         /\ \A n \in 1..Len(s) : (s \o t)[n] = s[n]
         /\ \A k \in 1..Len(t) : (s \o t)[Len(s) + k] = t[k]
<1> DEFINE C == A \cup B
<1>1. s \in Seq(C) /\ t \in Seq(C)
  OBVIOUS
<1> HIDE DEF C
<1> QED BY <1>1, ConcatProperties

LEMMA LedgerGrows ==
  ASSUME IInv, NEW w \in Workers, InTransaction(w), NEW P \in Programs, P = job[w].program,
         NEW D, NEW drafts \in Seq(D), PersistLedger(w, drafts)
  PROVE  Grows(P, drafts) /\ view[w] = program[P]
<1> DEFINE L       == Len(ledger[P])
           N       == Len(drafts)
           marks   == MarkEntries(view[w], drafts)
           entries == AdvanceEntries(view[w], drafts)
           booked  == drafts \o marks
           onset   == MarkEntry("OVER_LIMIT_ONSET", drafts)
           cleared == MarkEntry("OVER_LIMIT_CLEARED", drafts)
<1>1. view[w] = program[P] /\ program[P] \in ProgramRow
  BY DEF IInv, TypeOK, TablesOK, LockedViewIsCurrent
<1>2. view[w].nextSequence \in Nat
  BY <1>1 DEF ProgramRow
<1>3. /\ marks \in Seq({onset, cleared}) /\ N \in Nat /\ Len(marks) \in Nat
      /\ DOMAIN entries = 1..(N + Len(marks)) /\ DOMAIN drafts = 1..N
  BY <1>2, AdvanceEntriesLength
<1>4. ledger' = [ledger EXCEPT ![P] = @ \o entries]
  BY DEF PersistLedger
<1>5. /\ ledger \in [Programs -> Seq(EntryRow)] /\ ledger[P] \in Seq(EntryRow)
      /\ L \in Nat /\ DOMAIN ledger[P] = 1..L
  BY DEF IInv, TypeOK, TablesOK
<1>6. /\ \A k \in 1..N : booked[k] = drafts[k]
      /\ \A k \in 1..Len(marks) : booked[N + k] = marks[k]
      /\ Len(booked) = N + Len(marks)
  <2> HIDE DEF marks, onset, cleared
  <2> QED BY <1>3
<1>7. \A k \in 1..(N + Len(marks)) :
        entries[k] = SequencedEntry(view[w].nextSequence + k - 1, view[w].nextSequence, booked[k])
  BY <1>6 DEF AdvanceEntries
<1>8. entries \in Seq({entries[k] : k \in 1..(N + Len(marks))}) /\ Len(entries) = N + Len(marks)
  <2>1. entries = [k \in 1..(N + Len(marks)) |->
           SequencedEntry(view[w].nextSequence + k - 1, view[w].nextSequence, booked[k])]
    BY <1>6 DEF AdvanceEntries
  <2> HIDE DEF entries, marks, booked
  <2>2. N + Len(marks) \in Nat
    BY <1>3
  <2> QED BY <2>1, <2>2
<1>9. \A k \in 1..(N + Len(marks)) : Books(entries[k], booked[k])
  <2>1. \A sequence, now, draft : Books(SequencedEntry(sequence, now, draft), draft)
    BY DEF Books, SequencedEntry
  <2> HIDE DEF entries, booked, marks, N
  <2> QED BY <1>7, <2>1, Zenon
<1>10. /\ \A p \in Programs \ {P} : ledger'[p] = ledger[p]
       /\ ledger'[P] = ledger[P] \o entries
  BY <1>4, <1>5
<1> HIDE DEF entries, booked
<1>11. /\ Len(ledger'[P]) = L + N + Len(marks)
       /\ DOMAIN ledger'[P] = 1..(L + N + Len(marks))
       /\ \A n \in 1..L : ledger'[P][n] = ledger[P][n]
       /\ \A k \in 1..(N + Len(marks)) : ledger'[P][L + k] = entries[k]
  <2> DEFINE size == N + Len(marks)
  <2>1. size \in Nat /\ L + N + Len(marks) = L + size
    <3> HIDE DEF marks, N, L
    <3> QED BY <1>3, <1>5
  <2>2. /\ Len(ledger'[P]) = L + size
        /\ DOMAIN ledger'[P] = 1..(L + size)
        /\ \A n \in 1..L : ledger'[P][n] = ledger[P][n]
        /\ \A k \in 1..size : ledger'[P][L + k] = entries[k]
    <3>1. /\ Len(ledger[P] \o entries) = L + Len(entries)
          /\ DOMAIN (ledger[P] \o entries) = 1..(L + Len(entries))
          /\ \A n \in 1..L : (ledger[P] \o entries)[n] = ledger[P][n]
          /\ \A k \in 1..Len(entries) : (ledger[P] \o entries)[L + k] = entries[k]
      <4> DEFINE T == {entries[k] : k \in 1..(N + Len(marks))}
      <4>1. entries \in Seq(T)
        BY <1>8
      <4> HIDE DEF T
      <4>2. ledger[P] \in Seq(EntryRow)
        BY <1>5
      <4> HIDE DEF entries
      <4> QED BY ONLY <4>1, <4>2, Concatenated
    <3>2. Len(entries) = size
      BY <1>8
    <3> HIDE DEF L, size
    <3> QED BY <1>10, <3>1, <3>2
  <2> QED BY <2>1, <2>2, Zenon
<1>12. \A k \in 1..N : Books(ledger'[P][L + k], drafts[k])
  <2> HIDE DEF marks
  <2> QED BY <1>3, <1>6, <1>9, <1>11
<1>13. \A k \in 1..Len(marks) : Books(ledger'[P][L + N + k], marks[k])
  <2> HIDE DEF marks, N, L
  <2> SUFFICES ASSUME NEW k \in 1..Len(marks) PROVE Books(ledger'[P][L + N + k], marks[k])
    OBVIOUS
  <2>1. /\ N + k \in 1..(N + Len(marks)) /\ booked[N + k] = marks[k]
        /\ L + N + k = L + (N + k)
    BY <1>3, <1>5, <1>6
  <2> QED BY <1>9, <1>11, <2>1
<1>14. \A k \in 1..Len(marks) :
         /\ BooksMark(ledger'[P][L + N + k])
         /\ ledger'[P][L + N + k].cause = marks[k].cause
  <2>1. \A k \in 1..Len(marks) : marks[k] \in {onset, cleared}
    <3> HIDE DEF marks, onset, cleared
    <3> QED BY <1>3
  <2>2. \A k \in 1..Len(marks) :
          /\ marks[k].delta = 0 /\ marks[k].component = "LIMIT" /\ marks[k].origin = None
          /\ marks[k].actor = "system"
          /\ marks[k].cause \in {"OVER_LIMIT_ONSET", "OVER_LIMIT_CLEARED"}
    <3> HIDE DEF marks
    <3> QED BY <2>1 DEF MarkEntry
  <2> HIDE DEF marks, N, L
  <2> QED BY <1>13, <2>2 DEF Books, BooksMark
<1> QED BY <1>1, <1>3, <1>5, <1>10, <1>11, <1>12, <1>14 DEF Grows

LEMMA EntriesTyped ==
  ASSUME NEW entries \in Seq(EntryRow)
  PROVE  /\ Len(entries) \in Nat /\ DOMAIN entries = 1..Len(entries)
         /\ \A n \in DOMAIN entries : entries[n] \in EntryRow /\ entries[n].delta \in Int
<1>1. \A n \in DOMAIN entries : entries[n] \in EntryRow
  BY ElementOfSeq
<1>2. \A e \in EntryRow : e.delta \in Int
  BY StoreAssumption DEF EntryRow, Bigint
<1> QED BY <1>1, <1>2

Taken(drafts, K, k) == IF k \in K THEN drafts[k].delta ELSE 0

(* The entries of S: old ones, those that book the drafts of K, and marks. *)
Among(P, drafts, S, old, K, marks) ==
  Chosen(S, old, K, marks, Len(ledger[P]), Len(drafts), Len(MarkEntries(program[P], drafts)))

(* What the entries of a set add up to moves by the drafts booked among    *)
(* them: the marks count for nothing.                                      *)
LEMMA TotalMoves ==
  ASSUME IInv', NEW P \in Programs, NEW drafts, Grows(P, drafts), Len(drafts) <= 3,
         NEW S, NEW old, NEW K, NEW marks, Among(P, drafts, S, old, K, marks)
  PROVE  LedgerTotal(P, S)' =
           LedgerTotal(P, old) + (Taken(drafts, K, 1) + Taken(drafts, K, 2) + Taken(drafts, K, 3))
<1> DEFINE L == Len(ledger[P])
           N == Len(drafts)
           M == Len(MarkEntries(program[P], drafts))
           f == [n \in old |-> ledger[P][n].delta]
           g == [n \in S |-> ledger'[P][n].delta]
           h == [n \in 1..(L + N + M) |-> ledger'[P][n].delta]
           d == [k \in 1..N |-> drafts[k].delta]
<1>1. /\ L \in Nat /\ N \in 0..3 /\ M \in Nat
      /\ Len(ledger'[P]) = L + N + M /\ DOMAIN ledger'[P] = 1..(L + N + M)
      /\ \A n \in 1..L : ledger'[P][n] = ledger[P][n]
      /\ \A k \in 1..N : ledger'[P][L + k].delta = drafts[k].delta
      /\ \A k \in 1..M : ledger'[P][L + N + k].delta = 0
  <2>1. /\ L \in Nat /\ N \in Nat /\ M \in Nat /\ N <= 3
        /\ Len(ledger'[P]) = L + N + M /\ DOMAIN ledger'[P] = 1..(L + N + M)
        /\ \A n \in 1..L : ledger'[P][n] = ledger[P][n]
        /\ \A k \in 1..N : Books(ledger'[P][L + k], drafts[k])
        /\ \A k \in 1..M : BooksMark(ledger'[P][L + N + k])
    BY Zenon DEF Grows
  <2> HIDE DEF L, N, M
  <2>2. N \in 0..3
    BY <2>1
  <2>3. \A k \in 1..N : ledger'[P][L + k].delta = drafts[k].delta
    BY <2>1, Zenon DEF Books
  <2>4. \A k \in 1..M : ledger'[P][L + N + k].delta = 0
    BY <2>1, Zenon DEF BooksMark
  <2> QED BY <2>1, <2>2, <2>3, <2>4, Zenon
<1>2. \A n \in 1..(L + N + M) : ledger'[P][n].delta \in Int
  <2>1. ledger'[P] \in Seq(EntryRow)
    BY DEF IInv, TypeOK, TablesOK
  <2> HIDE DEF L, N, M
  <2> QED BY <1>1, <2>1, EntriesTyped
<1> HIDE DEF L, N, M
<1>0. /\ old \subseteq 1..L /\ K \subseteq 1..N /\ marks \subseteq (L + N + 1)..(L + N + M)
      /\ S = (old \cup {L + k : k \in K}) \cup marks
  BY DEF Among, Chosen, L, N, M
<1>3. \A n \in 1..L : n \in 1..(L + N + M)
  BY <1>1
<1>4. \A k \in 1..N : L + k \in 1..(L + N + M)
  BY <1>1
<1>5. \A k \in 1..M : L + N + k \in 1..(L + N + M)
  BY <1>1
<1>7. /\ S \subseteq 1..(L + N + M) /\ IsFiniteSet(S)
  <2>1. \A n \in marks : n \in 1..(L + N + M)
    BY <1>0, <1>1
  <2>2. \A n \in S : n \in 1..(L + N + M)
    <3>1. \A k \in K : L + k \in 1..(L + N + M)
      BY <1>0, <1>4
    <3> QED BY <1>0, <1>3, <2>1, <3>1
  <2>3. IsFiniteSet(1..(L + N + M))
    <3>1. 1 \in Int /\ L + N + M \in Int
      BY <1>1
    <3> QED BY <3>1, FS_Interval
  <2> QED BY <2>2, <2>3, FS_Subset
<1>8. /\ \A n \in 1..(L + N + M) : h[n] \in Int
      /\ \A n \in 1..L : h[n] = ledger[P][n].delta
      /\ \A k \in 1..N : h[L + k] = d[k]
      /\ \A k \in 1..M : h[L + N + k] = 0
  BY <1>1, <1>2, <1>3, <1>4, <1>5
<1>9. SumFunctionOnSet(g, S) = SumFunctionOnSet(h, S)
  <2>1. \A n \in S : h[n] \in Int /\ g[n] = h[n]
    <3> QED BY <1>7, <1>8
  <2> HIDE DEF g, h
  <2> QED BY <1>7, <2>1, SumSame
<1> DEFINE f2 == [n \in 1..L |-> ledger[P][n].delta]
<1>10. SumFunctionOnSet(f2, old) = SumFunctionOnSet(f, old)
  <2>1. IsFiniteSet(old)
    <3>1. old \subseteq S
      BY <1>0
    <3> QED BY <1>7, <3>1, FS_Subset
  <2>2. \A n \in old : f2[n] \in Int /\ f[n] = f2[n]
    <3> HIDE DEF h
    <3> QED BY <1>0, <1>3, <1>8
  <2> HIDE DEF f, f2
  <2>3. SumFunctionOnSet(f, old) = SumFunctionOnSet(f2, old)
    BY <2>1, <2>2, SumSame
  <2> QED BY <2>3
<1>11. \A n \in 1..L : h[n] = f2[n]
  BY <1>8
<1> HIDE DEF h, f2, d
<1>12. SumFunctionOnSet(h, S) =
         SumFunctionOnSet(f2, old) + ((IF 1 \in K THEN d[1] ELSE 0)
                                       + (IF 2 \in K THEN d[2] ELSE 0)
                                       + (IF 3 \in K THEN d[3] ELSE 0))
  <2>1. Appended(h, f2, d, L, N, M)
    BY <1>1, <1>8, <1>11 DEF Appended
  <2>2. Chosen(S, old, K, marks, L, N, M)
    BY DEF Among, L, N, M
  <2> QED BY <2>1, <2>2, SumGrows
<1>13. /\ (IF 1 \in K THEN d[1] ELSE 0) = Taken(drafts, K, 1)
       /\ (IF 2 \in K THEN d[2] ELSE 0) = Taken(drafts, K, 2)
       /\ (IF 3 \in K THEN d[3] ELSE 0) = Taken(drafts, K, 3)
  BY <1>0 DEF d, Taken
<1>14. LedgerTotal(P, old) = SumFunctionOnSet(f, old)
  BY Zenon DEF LedgerTotal
<1>15. LedgerTotal(P, S)' = SumFunctionOnSet(g, S)
  BY Zenon DEF LedgerTotal
<1> HIDE DEF f, g
<1> QED BY <1>9, <1>10, <1>12, <1>13, <1>14, <1>15

-------------------------------------------------------------------------------
(* What a commit does to the row of its program.                           *)

(* The components of the row move by what the loop adds up.                *)
LEMMA RowMoves ==
  ASSUME NEW p \in ProgramRow, NEW drafts
  PROVE  /\ AdvancePosition(p, drafts).local = p.local + ComponentDelta(drafts, "LOCAL")
         /\ AdvancePosition(p, drafts).treasury = p.treasury + ComponentDelta(drafts, "TREASURY")
         /\ AdvancePosition(p, drafts).limit = p.limit + ComponentDelta(drafts, "LIMIT")
<1> DEFINE moved == MovedPosition(p, drafts)
           row   == AdvancePosition(p, drafts)
<1>1. /\ moved.local = p.local + ComponentDelta(drafts, "LOCAL")
      /\ moved.treasury = p.treasury + ComponentDelta(drafts, "TREASURY")
      /\ moved.limit = p.limit + ComponentDelta(drafts, "LIMIT")
      /\ DOMAIN moved = DOMAIN p
  BY DEF MovedPosition, ProgramRow
<1>2. row.local = moved.local /\ row.treasury = moved.treasury /\ row.limit = moved.limit
  <2>1. row = [moved EXCEPT !.nextSequence = @ + Len(drafts) + Len(MarkEntries(p, drafts)),
                            !.overLimit = IsOverLimit(moved)]
    BY Zenon DEF AdvancePosition
  <2> HIDE DEF moved, row
  <2> QED BY <1>1, <2>1 DEF ProgramRow
<1> HIDE DEF moved, row
<1> QED BY <1>1, <1>2 DEF row

(* One draft moves its own component, and three move theirs.               *)
LEMMA OneDraft ==
  ASSUME NEW d, d.delta \in Int
  PROVE  /\ <<d>> \in Seq({d}) /\ Len(<<d>>) = 1 /\ DOMAIN <<d>> = {1} /\ <<d>>[1] = d
         /\ \A c : ComponentDelta(<<d>>, c) = IF d.component = c THEN d.delta ELSE 0
<1> DEFINE drafts == <<d>>
<1>1. DOMAIN drafts = {1} /\ drafts[1] = d /\ drafts \in Seq({d}) /\ Len(drafts) = 1
  OBVIOUS
<1> HIDE DEF drafts
<1>2. \A c : ComponentDelta(drafts, c) = IF d.component = c THEN d.delta ELSE 0
  BY <1>1 DEF ComponentDelta, DraftDelta
<1> QED BY <1>1, <1>2 DEF drafts

(* What a draft adds to a component.                                       *)
Adds(d, c) == IF d.component = c THEN d.delta ELSE 0

(* The first n of x, y and z, in this order: the others add nothing.       *)
FirstOf(drafts, D, n, x, y, z) ==
  /\ drafts \in Seq(D) /\ n \in 0..3 /\ Len(drafts) = n
  /\ (n >= 1 => drafts[1] = x) /\ (n >= 2 => drafts[2] = y) /\ (n >= 3 => drafts[3] = z)
  /\ (n < 1 => x.delta = 0) /\ (n < 2 => y.delta = 0) /\ (n < 3 => z.delta = 0)

LEMMA FirstMove ==
  ASSUME NEW drafts, NEW D, NEW n, NEW x, NEW y, NEW z, FirstOf(drafts, D, n, x, y, z),
         x.delta \in Int, y.delta \in Int, z.delta \in Int, NEW c
  PROVE  ComponentDelta(drafts, c) = Adds(x, c) + Adds(y, c) + Adds(z, c)
<1>1. DOMAIN drafts = 1..n /\ n \in 0..3
  BY DEF FirstOf
<1>2. /\ DraftDelta(drafts, 1, c) = Adds(x, c)
      /\ DraftDelta(drafts, 2, c) = Adds(y, c)
      /\ DraftDelta(drafts, 3, c) = Adds(z, c)
  BY <1>1 DEF FirstOf, DraftDelta, Adds
<1> QED BY <1>2, Zenon DEF ComponentDelta

(* Drafts that move nothing are left out, and move nothing.                *)
Moving(drafts, D, a, b, c) ==
  D = {a, b, c} /\ drafts = NonZero(a) \o NonZero(b) \o NonZero(c)

LEMMA ThreeDrafts ==
  ASSUME NEW a, NEW b, NEW c, a.delta \in Int, b.delta \in Int, c.delta \in Int,
         NEW D, NEW drafts, Moving(drafts, D, a, b, c)
  PROVE  /\ drafts \in Seq(D) /\ Len(drafts) <= 3 /\ (b.delta = 0 => Len(drafts) <= 2)
         /\ \A component :
              ComponentDelta(drafts, component) =
                Adds(a, component) + Adds(b, component) + Adds(c, component)
<1> USE DEF Moving
<1>0. /\ NonZero(a) = IF a.delta = 0 THEN <<>> ELSE <<a>>
      /\ NonZero(b) = IF b.delta = 0 THEN <<>> ELSE <<b>>
      /\ NonZero(c) = IF c.delta = 0 THEN <<>> ELSE <<c>>
  BY DEF NonZero
<1> DEFINE Done == /\ drafts \in Seq(D) /\ Len(drafts) <= 3 /\ (b.delta = 0 => Len(drafts) <= 2)
                   /\ \A component :
                        ComponentDelta(drafts, component) =
                          Adds(a, component) + Adds(b, component) + Adds(c, component)
<1>9. \A component : Adds(a, component) \in Int /\ Adds(b, component) \in Int
                       /\ Adds(c, component) \in Int
  BY DEF Adds
<1>1. ASSUME a.delta = 0, b.delta = 0, c.delta = 0 PROVE Done
  <2>1. FirstOf(<<>> \o <<>> \o <<>>, D, 0, a, b, c)
    BY <1>1 DEF FirstOf
  <2>2. FirstOf(drafts, D, 0, a, b, c)
    BY <1>0, <1>1, <2>1, Zenon
  <2>3. drafts \in Seq(D) /\ Len(drafts) <= 3 /\ (b.delta = 0 => Len(drafts) <= 2)
    BY <1>1, <2>2 DEF FirstOf
  <2> QED BY <1>9, <2>2, <2>3, FirstMove
<1>2. ASSUME a.delta # 0, b.delta = 0, c.delta = 0 PROVE Done
  <2>1. FirstOf(<<a>> \o <<>> \o <<>>, D, 1, a, b, c)
    BY <1>2 DEF FirstOf
  <2>2. FirstOf(drafts, D, 1, a, b, c)
    BY <1>0, <1>2, <2>1, Zenon
  <2>3. drafts \in Seq(D) /\ Len(drafts) <= 3 /\ (b.delta = 0 => Len(drafts) <= 2)
    BY <1>2, <2>2 DEF FirstOf
  <2> QED BY <1>9, <2>2, <2>3, FirstMove
<1>3. ASSUME a.delta = 0, b.delta # 0, c.delta = 0 PROVE Done
  <2>1. FirstOf(<<>> \o <<b>> \o <<>>, D, 1, b, a, c)
    BY <1>3 DEF FirstOf
  <2>2. FirstOf(drafts, D, 1, b, a, c)
    BY <1>0, <1>3, <2>1, Zenon
  <2>3. drafts \in Seq(D) /\ Len(drafts) <= 3 /\ (b.delta = 0 => Len(drafts) <= 2)
    BY <1>3, <2>2 DEF FirstOf
  <2> QED BY <1>9, <2>2, <2>3, FirstMove
<1>4. ASSUME a.delta = 0, b.delta = 0, c.delta # 0 PROVE Done
  <2>1. FirstOf(<<>> \o <<>> \o <<c>>, D, 1, c, a, b)
    BY <1>4 DEF FirstOf
  <2>2. FirstOf(drafts, D, 1, c, a, b)
    BY <1>0, <1>4, <2>1, Zenon
  <2>3. drafts \in Seq(D) /\ Len(drafts) <= 3 /\ (b.delta = 0 => Len(drafts) <= 2)
    BY <1>4, <2>2 DEF FirstOf
  <2> QED BY <1>9, <2>2, <2>3, FirstMove
<1>5. ASSUME a.delta # 0, b.delta # 0, c.delta = 0 PROVE Done
  <2>1. FirstOf(<<a>> \o <<b>> \o <<>>, D, 2, a, b, c)
    BY <1>5 DEF FirstOf
  <2>2. FirstOf(drafts, D, 2, a, b, c)
    BY <1>0, <1>5, <2>1, Zenon
  <2>3. drafts \in Seq(D) /\ Len(drafts) <= 3 /\ (b.delta = 0 => Len(drafts) <= 2)
    BY <1>5, <2>2 DEF FirstOf
  <2> QED BY <1>9, <2>2, <2>3, FirstMove
<1>6. ASSUME a.delta # 0, b.delta = 0, c.delta # 0 PROVE Done
  <2>1. FirstOf(<<a>> \o <<>> \o <<c>>, D, 2, a, c, b)
    BY <1>6 DEF FirstOf
  <2>2. FirstOf(drafts, D, 2, a, c, b)
    BY <1>0, <1>6, <2>1, Zenon
  <2>3. drafts \in Seq(D) /\ Len(drafts) <= 3 /\ (b.delta = 0 => Len(drafts) <= 2)
    BY <1>6, <2>2 DEF FirstOf
  <2> QED BY <1>9, <2>2, <2>3, FirstMove
<1>7. ASSUME a.delta = 0, b.delta # 0, c.delta # 0 PROVE Done
  <2>1. FirstOf(<<>> \o <<b>> \o <<c>>, D, 2, b, c, a)
    BY <1>7 DEF FirstOf
  <2>2. FirstOf(drafts, D, 2, b, c, a)
    BY <1>0, <1>7, <2>1, Zenon
  <2>3. drafts \in Seq(D) /\ Len(drafts) <= 3 /\ (b.delta = 0 => Len(drafts) <= 2)
    BY <1>7, <2>2 DEF FirstOf
  <2> QED BY <1>9, <2>2, <2>3, FirstMove
<1>8. ASSUME a.delta # 0, b.delta # 0, c.delta # 0 PROVE Done
  <2>1. FirstOf(<<a>> \o <<b>> \o <<c>>, D, 3, a, b, c)
    BY <1>8 DEF FirstOf
  <2>2. FirstOf(drafts, D, 3, a, b, c)
    BY <1>0, <1>8, <2>1, Zenon
  <2>3. drafts \in Seq(D) /\ Len(drafts) <= 3 /\ (b.delta = 0 => Len(drafts) <= 2)
    BY <1>8, <2>2 DEF FirstOf
  <2> QED BY <1>9, <2>2, <2>3, FirstMove
<1> QED BY <1>1, <1>2, <1>3, <1>4, <1>5, <1>6, <1>7, <1>8

(* A transaction on P books the drafts, and its row moves by them.         *)
Advances(P, drafts) ==
  /\ P \in Programs /\ Grows(P, drafts) /\ Len(drafts) <= 3
  /\ \A k \in DOMAIN drafts : drafts[k].delta \in Int /\ drafts[k].component \in Components
  /\ \A p \in Programs \ {P} : program'[p] = program[p]
  /\ program'[P].local = program[P].local + ComponentDelta(drafts, "LOCAL")
  /\ program'[P].treasury = program[P].treasury + ComponentDelta(drafts, "TREASURY")
  /\ program'[P].limit = program[P].limit + ComponentDelta(drafts, "LIMIT")

LEMMA AdvanceMoves ==
  ASSUME IInv, NEW w \in Workers, InTransaction(w), NEW P \in Programs, P = job[w].program,
         NEW D, NEW drafts \in Seq(D), Len(drafts) <= 3,
         \A d \in D : d.delta \in Int /\ d.component \in Components,
         PersistLedger(w, drafts), NEW row, PersistRow(w, row),
         /\ row.local = Advanced(w, drafts).local
         /\ row.treasury = Advanced(w, drafts).treasury
         /\ row.limit = Advanced(w, drafts).limit
  PROVE  Advances(P, drafts)
<1>1. Grows(P, drafts) /\ view[w] = program[P]
  BY LedgerGrows
<1>2. \A k \in DOMAIN drafts : drafts[k].delta \in Int /\ drafts[k].component \in Components
  <2>1. \A k \in DOMAIN drafts : drafts[k] \in D
    BY ElementOfSeq
  <2> QED BY <2>1
<1>3. program[P] \in ProgramRow /\ program' = [program EXCEPT ![P] = row]
  BY DEF IInv, TypeOK, TablesOK, PersistRow
<1>4. program'[P] = row /\ \A p \in Programs \ {P} : program'[p] = program[p]
  BY <1>3 DEF IInv, TypeOK, TablesOK
<1>5. /\ row.local = program[P].local + ComponentDelta(drafts, "LOCAL")
      /\ row.treasury = program[P].treasury + ComponentDelta(drafts, "TREASURY")
      /\ row.limit = program[P].limit + ComponentDelta(drafts, "LIMIT")
  BY <1>1, <1>3, RowMoves DEF Advanced
<1> QED BY <1>1, <1>2, <1>4, <1>5 DEF Advances

LEMMA OneDraftAdvances ==
  ASSUME IInv, NEW w \in Workers, InTransaction(w), job[w].program \in Programs,
         NEW d, d.delta \in Int, d.component \in Components,
         NEW drafts, drafts = <<d>>, PersistAdvance(w, drafts)
  PROVE  Advances(job[w].program, drafts)
<1> DEFINE D == {d}
           row == Advanced(w, drafts)
<1>1. /\ drafts \in Seq(D) /\ Len(drafts) <= 3
      /\ \A e \in D : e.delta \in Int /\ e.component \in Components
  BY OneDraft
<1>2. PersistLedger(w, drafts) /\ PersistRow(w, row)
  BY DEF PersistAdvance
<1> HIDE DEF D, row
<1> QED BY <1>1, <1>2, AdvanceMoves DEF row

(* What a command, an event and a snapshot book.                           *)
CommandDraft(w, delta, cause) ==
  [delta |-> delta, component |-> "LOCAL", cause |-> cause, origin |-> job[w].invoice,
   actor |-> "caller", correlationId |-> job[w].id]

LEMMA CommandAdvances ==
  ASSUME IInv, NEW w \in Workers, NEW delta, NEW cause, NEW row,
         CommandCommits(w, delta, cause, row)
  PROVE  /\ LocalDraft(w, delta, cause) = <<CommandDraft(w, delta, cause)>>
         /\ Advances(job[w].program, LocalDraft(w, delta, cause))
<1> DEFINE d == CommandDraft(w, delta, cause)
           drafts == LocalDraft(w, delta, cause)
<1>1. drafts = <<d>>
  BY Zenon DEF LocalDraft, CommandDraft
<1>2. /\ InTransaction(w) /\ job[w].program \in Programs
      /\ delta \in Int /\ PersistAdvance(w, drafts)
  BY CommandsAssumption DEF CommandCommits, InTransaction
<1>3. d.delta = delta /\ d.component = "LOCAL"
  BY DEF CommandDraft
<1> HIDE DEF d, drafts
<1>4. Advances(job[w].program, drafts)
  BY <1>1, <1>2, <1>3, OneDraftAdvances DEF Components
<1> QED BY <1>1, <1>4 DEF d, drafts

LEMMA EventAdvances ==
  ASSUME IInv, NEW w \in Workers, EventCommits(w)
  PROVE  Advances(job[w].program, <<EventDraft(job[w], view[w])>>)
<1> DEFINE d == EventDraft(job[w], view[w])
           drafts == <<d>>
<1>1. /\ InTransaction(w) /\ job[w].program \in Programs /\ job[w].amount \in Bigint
      /\ PersistAdvance(w, drafts)
  BY ParsedMessagesFit DEF EventCommits, AppliesNew, InTransaction, IInv, TypeOK, SessionsOK
<1>2. view[w] \in ProgramRow
  BY <1>1 DEF IInv, TypeOK, TablesOK, LockedViewIsCurrent
<1>3. d.delta \in Int /\ d.component \in Components
  BY <1>1, <1>2, StoreAssumption DEF EventDraft, Components, ProgramRow, Minor, Bigint
<1> HIDE DEF d
<1>4. drafts = <<d>>
  OBVIOUS
<1> HIDE DEF drafts
<1>5. Advances(job[w].program, drafts)
  BY <1>1, <1>3, <1>4, OneDraftAdvances
<1> QED BY <1>5 DEF d, drafts

(* Only finitely many invoices are ever booked.                            *)
BookedFinite == \A p \in Programs : IsFiniteSet(Booked(p))

LEMMA OutstandingInt ==
  ASSUME IInv, BookedFinite, NEW p \in Programs, NEW S, S \subseteq Booked(p)
  PROVE  /\ IsFiniteSet(S)
         /\ \A i \in S : reservation[p][i].outstandingReserved \in Nat
         /\ Outstanding(p, S) \in Nat
<1> DEFINE f == [i \in S |-> reservation[p][i].outstandingReserved]
<1>1. IsFiniteSet(S)
  BY FS_Subset DEF BookedFinite
<1>2. \A i \in S : reservation[p][i].outstandingReserved \in Nat
  BY StoreAssumption DEF IInv, TypeOK, TablesOK, Booked, ReservationRow, Minor
<1>3. \A i \in S : f[i] \in Nat
  BY <1>2
<1>4. Outstanding(p, S) = SumFunctionOnSet(f, S)
  BY Zenon DEF Outstanding
<1> HIDE DEF f
<1>5. SumFunctionOnSet(f, S) \in Nat
  BY <1>1, <1>3, SumNat
<1> QED BY <1>1, <1>2, <1>4, <1>5

(* A snapshot moves its program to what treasury asserts.                  *)
LEMMA SnapshotAdvances ==
  ASSUME IInv, BookedFinite, NEW w \in Workers, SnapshotCommits(w)
  PROVE  LET m == job[w]
         IN  /\ Advances(m.program, SnapshotDrafts(m, view[w]))
             /\ TargetLocal(m) = view[w].local => Len(SnapshotDrafts(m, view[w])) <= 2
             /\ \A k \in DOMAIN SnapshotDrafts(m, view[w]) :
                  LET d == SnapshotDrafts(m, view[w])[k]
                  IN  /\ d.origin = m.id /\ d.actor = "treasury" /\ d.correlationId = m.id
                      /\ d.cause = "RECONCILIATION_ADJUSTMENT"
                      /\ d.component = "LOCAL" => d.delta = TargetLocal(m) - view[w].local
             /\ program'[m.program].local = TargetLocal(m)
             /\ program'[m.program].treasury = TargetTreasury(m)
             /\ program'[m.program].limit = m.limit
<1> DEFINE m      == job[w]
           p      == view[w]
           P      == m.program
           a      == Adjustment(m, "TREASURY", TargetTreasury(m) - p.treasury)
           b      == Adjustment(m, "LOCAL", TargetLocal(m) - p.local)
           c      == Adjustment(m, "LIMIT", m.limit - p.limit)
           D      == {a, b, c}
           drafts == SnapshotDrafts(m, p)
           row    == Reconciled(w, m)
<1>1. /\ InTransaction(w) /\ P \in Programs /\ m.limit \in Minor /\ m.reserved \in Minor
      /\ m.version \in Nat
      /\ PersistLedger(w, drafts) /\ PersistRow(w, row)
  BY ParsedMessagesFit DEF SnapshotCommits, AppliesNew, InTransaction, IInv, TypeOK, SessionsOK, Minor
<1>2. p \in ProgramRow /\ p = program[P]
  BY <1>1 DEF IInv, TypeOK, TablesOK, LockedViewIsCurrent
<1>3. TargetTreasury(m) \in Int /\ TargetLocal(m) \in Int
  <2>1. Acknowledged(m) \subseteq Booked(P)
    BY DEF Acknowledged, NewlyAcknowledged
  <2>2. Outstanding(P, Acknowledged(m)) \in Nat /\ Outstanding(P, Booked(P)) \in Nat
    BY <1>1, <2>1, OutstandingInt
  <2> QED BY <1>1, <2>2, StoreAssumption DEF TargetTreasury, TargetLocal, Minor
<1>4. /\ a.delta = TargetTreasury(m) - p.treasury /\ a.component = "TREASURY"
      /\ b.delta = TargetLocal(m) - p.local /\ b.component = "LOCAL"
      /\ c.delta = m.limit - p.limit /\ c.component = "LIMIT"
      /\ \A d \in D : /\ d.origin = m.id /\ d.actor = "treasury" /\ d.correlationId = m.id
                      /\ d.cause = "RECONCILIATION_ADJUSTMENT"
  BY DEF Adjustment
<1>5. {p.local, p.treasury, p.limit, m.limit} \subseteq Int
  BY <1>1, <1>2, StoreAssumption DEF ProgramRow, Minor
<1>6. drafts = NonZero(a) \o NonZero(b) \o NonZero(c)
  BY Zenon DEF SnapshotDrafts
<1> HIDE DEF a, b, c, drafts, row
<1>7. a.delta \in Int /\ b.delta \in Int /\ c.delta \in Int
  BY <1>3, <1>4, <1>5
<1>8. /\ drafts \in Seq(D) /\ Len(drafts) <= 3 /\ (b.delta = 0 => Len(drafts) <= 2)
      /\ \A component : ComponentDelta(drafts, component) =
                          Adds(a, component) + Adds(b, component) + Adds(c, component)
  <2>1. Moving(drafts, D, a, b, c)
    BY <1>6, Zenon DEF Moving
  <2> HIDE DEF D
  <2> QED BY <1>7, <2>1, ThreeDrafts
<1>9. /\ ComponentDelta(drafts, "TREASURY") = TargetTreasury(m) - p.treasury
      /\ ComponentDelta(drafts, "LOCAL") = TargetLocal(m) - p.local
      /\ ComponentDelta(drafts, "LIMIT") = m.limit - p.limit
  BY <1>4, <1>7, <1>8 DEF Adds
<1>10. \A d \in D : d.delta \in Int /\ d.component \in Components
  BY <1>4, <1>7 DEF Components
<1>11. /\ row.local = Advanced(w, drafts).local
       /\ row.treasury = Advanced(w, drafts).treasury
       /\ row.limit = Advanced(w, drafts).limit
  <2>1. Advanced(w, drafts) \in ProgramRow
    <3>1. AdvanceAllowed(w, drafts, TRUE)
      BY Zenon DEF SnapshotCommits, drafts
    <3> HIDE DEF D
    <3> QED BY <1>1, <1>8, <3>1, AdvancedRow
  <2>2. \E version, flag :
          row = [Advanced(w, drafts) EXCEPT !.treasuryVersion = version,
                                            !.investigationRequired = flag,
                                            !.positionVerified = TRUE]
    BY Zenon DEF row, Reconciled, drafts
  <2> QED BY <2>1, <2>2 DEF ProgramRow
<1>12. Advances(P, drafts)
  <2> HIDE DEF D
  <2> QED BY <1>1, <1>8, <1>10, <1>11, AdvanceMoves
<1>13. \A k \in DOMAIN drafts : drafts[k] \in D
  <2> HIDE DEF D
  <2> QED BY <1>8, ElementOfSeq
<1>14. /\ program'[P].local = TargetLocal(m)
       /\ program'[P].treasury = TargetTreasury(m)
       /\ program'[P].limit = m.limit
  BY <1>2, <1>3, <1>5, <1>9, <1>12 DEF Advances
<1>15. \A d \in D : d.component = "LOCAL" => d.delta = TargetLocal(m) - p.local
  BY <1>4
<1>16. TargetLocal(m) = p.local => Len(drafts) <= 2
  BY <1>3, <1>4, <1>5, <1>8
<1> HIDE DEF D
<1> QED BY <1>4, <1>12, <1>13, <1>14, <1>15, <1>16 DEF drafts

-------------------------------------------------------------------------------
(* What a commit does to the sums over the ledger.                         *)

(* The entries of P that are in E.                                         *)
Selected(P, E) == {n \in DOMAIN ledger[P] : ledger[P][n] \in E}

(* What the k-th draft adds to them.                                       *)
Picked(P, drafts, E, k) ==
  IF k \in DOMAIN drafts /\ ledger'[P][Len(ledger[P]) + k] \in E THEN drafts[k].delta ELSE 0

LEMMA SelectedMoves ==
  ASSUME IInv', NEW P \in Programs, NEW drafts, Grows(P, drafts), Len(drafts) <= 3, NEW E
  PROVE  LedgerTotal(P, Selected(P, E))' =
           LedgerTotal(P, Selected(P, E)) +
             (Picked(P, drafts, E, 1) + Picked(P, drafts, E, 2) + Picked(P, drafts, E, 3))
<1> DEFINE L     == Len(ledger[P])
           N     == Len(drafts)
           M     == Len(MarkEntries(program[P], drafts))
           old   == Selected(P, E)
           K     == {k \in 1..N : ledger'[P][L + k] \in E}
           marks == {n \in (L + N + 1)..(L + N + M) : ledger'[P][n] \in E}
<1>1. PICK S : S = Selected(P, E)'
  OBVIOUS
<1>2. /\ L \in Nat /\ N \in Nat /\ M \in Nat /\ DOMAIN ledger[P] = 1..L /\ DOMAIN drafts = 1..N
      /\ DOMAIN ledger'[P] = 1..(L + N + M)
      /\ \A n \in 1..L : ledger'[P][n] = ledger[P][n]
  BY Zenon DEF Grows
<1> HIDE DEF L, N, M
<1>3. S = {n \in 1..(L + N + M) : ledger'[P][n] \in E} /\ old = {n \in 1..L : ledger[P][n] \in E}
  BY <1>1, <1>2 DEF Selected
<1>4. S = (old \cup {L + k : k \in K}) \cup marks
  <2>1. ASSUME NEW n \in S PROVE n \in (old \cup {L + k : k \in K}) \cup marks
    <3>1. n \in 1..(L + N + M) /\ ledger'[P][n] \in E
      BY <1>3
    <3>2. CASE n <= L
      BY <1>2, <1>3, <3>1, <3>2
    <3>3. CASE n > L /\ n <= L + N
      <4>1. n - L \in 1..N /\ L + (n - L) = n
        BY <1>2, <3>1, <3>3
      <4>2. n - L \in K
        BY <3>1, <4>1
      <4> QED BY <4>1, <4>2
    <3>4. CASE n > L + N
      BY <1>2, <3>1, <3>4
    <3> QED BY <1>2, <3>1, <3>2, <3>3, <3>4
  <2>2. ASSUME NEW n \in old PROVE n \in S
    BY <1>2, <1>3
  <2>3. ASSUME NEW k \in K PROVE L + k \in S
    BY <1>2, <1>3
  <2>4. ASSUME NEW n \in marks PROVE n \in S
    BY <1>2, <1>3
  <2> HIDE DEF K, marks, old
  <2> QED BY <2>1, <2>2, <2>3, <2>4
<1>5. Among(P, drafts, S, old, K, marks)
  BY <1>2, <1>3, <1>4 DEF Among, Chosen, L, N, M
<1>6. /\ Taken(drafts, K, 1) = Picked(P, drafts, E, 1)
      /\ Taken(drafts, K, 2) = Picked(P, drafts, E, 2)
      /\ Taken(drafts, K, 3) = Picked(P, drafts, E, 3)
  BY <1>2 DEF Taken, Picked, L
<1> HIDE DEF K, marks, old
<1>7. LedgerTotal(P, S)' =
        LedgerTotal(P, old) + (Taken(drafts, K, 1) + Taken(drafts, K, 2) + Taken(drafts, K, 3))
  BY <1>5, TotalMoves
<1>8. LedgerTotal(P, S)' = LedgerTotal(P, Selected(P, E))'
  BY <1>1, Zenon DEF LedgerTotal
<1> QED BY <1>6, <1>7, <1>8 DEF old

(* The entries of a component.                                             *)
LEMMA ComponentSelected ==
  ASSUME IInv, NEW p \in Programs, NEW c
  PROVE  EntriesOf(p, c) = Selected(p, {e \in EntryRow : e.component = c})
<1>1. \A n \in DOMAIN ledger[p] : ledger[p][n] \in EntryRow
  BY EntriesTyped DEF IInv, TypeOK, TablesOK
<1> QED BY <1>1 DEF EntriesOf, Selected

LEMMA ComponentMoves ==
  ASSUME IInv, IInv', NEW P, NEW drafts, Advances(P, drafts), NEW c
  PROVE  LedgerTotal(P, EntriesOf(P, c))' =
           LedgerTotal(P, EntriesOf(P, c)) + ComponentDelta(drafts, c)
<1> DEFINE E == {e \in EntryRow : e.component = c}
           L == Len(ledger[P])
           N == Len(drafts)
           M == Len(MarkEntries(program[P], drafts))
<1>1. P \in Programs /\ Grows(P, drafts) /\ Len(drafts) <= 3
  BY DEF Advances
<1>2. EntriesOf(P, c) = Selected(P, E) /\ EntriesOf(P, c)' = Selected(P, E)'
  <2>1. \A p \in Programs : EntriesOf(p, c) = Selected(p, E)
    BY ComponentSelected
  <2>2. ledger'[P] \in Seq(EntryRow)
    BY <1>1 DEF IInv, TypeOK, TablesOK
  <2>3. \A n \in DOMAIN ledger'[P] : ledger'[P][n] \in EntryRow
    BY <2>2, EntriesTyped
  <2>4. EntriesOf(P, c)' = Selected(P, E)'
    BY <2>3 DEF EntriesOf, Selected
  <2> QED BY <1>1, <2>1, <2>4
<1>3. \A k \in DOMAIN drafts :
        ledger'[P][L + k] \in EntryRow /\ ledger'[P][L + k].component = drafts[k].component
  <2>1. /\ L \in Nat /\ N \in Nat /\ M \in Nat /\ DOMAIN drafts = 1..N
        /\ DOMAIN ledger'[P] = 1..(L + N + M)
        /\ \A k \in 1..N : Books(ledger'[P][L + k], drafts[k])
    BY <1>1, Zenon DEF Grows
  <2>2. ledger'[P] \in Seq(EntryRow)
    BY <1>1 DEF IInv, TypeOK, TablesOK
  <2> HIDE DEF L, N, M
  <2>3. \A n \in 1..(L + N + M) : ledger'[P][n] \in EntryRow
    BY <2>1, <2>2, EntriesTyped
  <2>4. \A k \in 1..N : L + k \in 1..(L + N + M)
    BY <2>1
  <2> QED BY <2>1, <2>3, <2>4 DEF Books
<1>4. /\ Picked(P, drafts, E, 1) = DraftDelta(drafts, 1, c)
      /\ Picked(P, drafts, E, 2) = DraftDelta(drafts, 2, c)
      /\ Picked(P, drafts, E, 3) = DraftDelta(drafts, 3, c)
  BY <1>3 DEF Picked, DraftDelta
<1> HIDE DEF E
<1>5. LedgerTotal(P, Selected(P, E))' =
        LedgerTotal(P, Selected(P, E)) +
          (Picked(P, drafts, E, 1) + Picked(P, drafts, E, 2) + Picked(P, drafts, E, 3))
  BY <1>1, SelectedMoves
<1>6. LedgerTotal(P, EntriesOf(P, c))' = LedgerTotal(P, Selected(P, E))'
  BY <1>2, Zenon DEF LedgerTotal
<1> QED BY <1>2, <1>4, <1>5, <1>6, Zenon DEF ComponentDelta

LEMMA LedgerKept ==
  ASSUME NEW p, ledger'[p] = ledger[p]
  PROVE  /\ \A c : LedgerTotal(p, EntriesOf(p, c))' = LedgerTotal(p, EntriesOf(p, c))
         /\ \A E : LedgerTotal(p, Selected(p, E))' = LedgerTotal(p, Selected(p, E))
BY Zenon DEF LedgerTotal, EntriesOf, Selected

(* The row goes on telling what its ledger adds up to.                     *)
LEMMA ExplainsKept ==
  ASSUME IInv, IInv', NEW P, NEW drafts, Advances(P, drafts), LedgerExplainsPosition
  PROVE  LedgerExplainsPosition'
<1> SUFFICES ASSUME NEW p \in Programs
             PROVE  /\ program'[p].limit    = LedgerTotal(p, EntriesOf(p, "LIMIT"))'
                    /\ program'[p].local    = LedgerTotal(p, EntriesOf(p, "LOCAL"))'
                    /\ program'[p].treasury = LedgerTotal(p, EntriesOf(p, "TREASURY"))'
  BY DEF LedgerExplainsPosition
<1>1. /\ program[p].limit    = LedgerTotal(p, EntriesOf(p, "LIMIT"))
      /\ program[p].local    = LedgerTotal(p, EntriesOf(p, "LOCAL"))
      /\ program[p].treasury = LedgerTotal(p, EntriesOf(p, "TREASURY"))
  BY DEF LedgerExplainsPosition
<1>2. CASE p = P
  BY <1>1, <1>2, ComponentMoves DEF Advances
<1>3. CASE p # P
  <2>1. program'[p] = program[p] /\ ledger'[p] = ledger[p]
    BY <1>3 DEF Advances, Grows
  <2> QED BY <1>1, <2>1, LedgerKept
<1> QED BY <1>2, <1>3

-------------------------------------------------------------------------------
(* What a step does to the reservations.                                   *)

(* What was closed holds nothing any more.                                 *)
ClosedHoldNothing ==
  \A p \in Programs, i \in Invoices :
    reservation[p][i] # None /\ reservation[p][i].status \in TerminalStatuses =>
      reservation[p][i].outstandingReserved = 0

(* LOCAL is what all reservations still hold, closed ones included.        *)
LocalIsOutstanding == \A p \in Programs : program[p].local = Outstanding(p, Booked(p))

Holding == BookedFinite /\ ClosedHoldNothing

(* Nothing is taken and nothing given back.                                *)
LEMMA SameHoldings ==
  ASSUME IInv, Holding,
         \A p \in Programs, i \in Invoices : SameHolding(reservation[p][i], reservation'[p][i])
  PROVE  /\ Holding'
         /\ \A p \in Programs, i \in Invoices : HeldBy(reservation'[p][i]) = HeldBy(reservation[p][i])
         /\ \A p \in Programs : /\ Booked(p)' = Booked(p)
                                /\ Outstanding(p, Booked(p))' = Outstanding(p, Booked(p))
<1>1. ASSUME NEW p \in Programs PROVE Booked(p)' = Booked(p)
  BY DEF Booked, SameHolding
<1>2. ASSUME NEW p \in Programs
      PROVE  Outstanding(p, Booked(p))' = Outstanding(p, Booked(p))
  <2>1. PICK S : S = Booked(p)
    OBVIOUS
  <2> DEFINE f == [i \in S |-> reservation[p][i].outstandingReserved]
             g == [i \in S |-> reservation'[p][i].outstandingReserved]
  <2>2. g = f
    BY <2>1 DEF Booked, SameHolding
  <2>3. Outstanding(p, Booked(p)) = SumFunctionOnSet(f, S)
    BY <2>1, Zenon DEF Outstanding
  <2>4. Outstanding(p, Booked(p))' = SumFunctionOnSet(g, S)
    BY <1>1, <2>1, Zenon DEF Outstanding
  <2> QED BY <2>2, <2>3, <2>4, Zenon
<1>3. \A p \in Programs, i \in Invoices : HeldBy(reservation'[p][i]) = HeldBy(reservation[p][i])
  BY DEF HeldBy, SameHolding
<1>4. BookedFinite'
  BY <1>1 DEF Holding, BookedFinite
<1>5. ClosedHoldNothing'
  BY DEF Holding, ClosedHoldNothing, SameHolding
<1> QED BY <1>1, <1>2, <1>3, <1>4, <1>5 DEF Holding

(* A command changes what one invoice holds, by what it books.             *)
LEMMA CommandHoldings ==
  ASSUME IInv, Holding, NEW w \in Workers, NEW delta, NEW cause, NEW row,
         CommandCommits(w, delta, cause, row),
         NEW P, P = job[w].program, NEW I, I = job[w].invoice
  PROVE  /\ Holding'
         /\ \A p \in Programs, i \in Invoices :
              HeldBy(reservation'[p][i]) =
                HeldBy(reservation[p][i]) + (IF p = P /\ i = I THEN delta ELSE 0)
         /\ Outstanding(P, Booked(P))' = Outstanding(P, Booked(P)) + delta
         /\ \A p \in Programs \ {P} :
              Outstanding(p, Booked(p))' = Outstanding(p, Booked(p))
<1>1. /\ P \in Programs /\ I \in Invoices /\ delta \in Int /\ row \in ReservationRow
      /\ row # None /\ row.outstandingReserved = HeldBy(reservation[P][I]) + delta
      /\ row.status \in TerminalStatuses => row.outstandingReserved = 0
  BY CommandsAssumption, NullAssumption DEF CommandCommits, Row
<1>2. /\ reservation'[P][I] = row
      /\ \A p \in Programs, i \in Invoices :
           ~(p = P /\ i = I) => reservation'[p][i] = reservation[p][i]
  BY <1>1 DEF CommandCommits, IInv, TypeOK, TablesOK
<1>3. \A p \in Programs, i \in Invoices :
        reservation[p][i] \in ReservationRow \cup {None}
  BY DEF IInv, TypeOK, TablesOK
<1>4. \A p \in Programs, i \in Invoices : HeldBy(reservation[p][i]) \in Int
  BY <1>3, StoreAssumption DEF HeldBy, ReservationRow, Minor
<1>5. \A p \in Programs, i \in Invoices :
        HeldBy(reservation'[p][i]) =
          HeldBy(reservation[p][i]) + (IF p = P /\ i = I THEN delta ELSE 0)
  <2>1. HeldBy(row) = row.outstandingReserved
    BY <1>1 DEF HeldBy
  <2> HIDE DEF HeldBy
  <2> QED BY <1>1, <1>2, <1>4, <2>1
<1>6. /\ Booked(P)' = Booked(P) \cup {I}
      /\ \A p \in Programs \ {P} : Booked(p)' = Booked(p)
  <2>1. \A i \in Invoices : reservation'[P][i] # None <=> reservation[P][i] # None \/ i = I
    BY <1>1, <1>2
  <2>2. Booked(P)' = Booked(P) \cup {I}
    <3>1. \A i : i \in Booked(P)' <=> i \in Booked(P) \/ i = I
      BY <1>1, <2>1 DEF Booked
    <3> QED BY <3>1
  <2>3. ASSUME NEW p \in Programs \ {P} PROVE Booked(p)' = Booked(p)
    <3>1. \A i \in Invoices : reservation'[p][i] = reservation[p][i]
      BY <1>2
    <3> QED BY <3>1 DEF Booked
  <2> QED BY <2>2, <2>3
<1>7. BookedFinite'
  <2>1. \A p \in Programs : IsFiniteSet(Booked(p))
    BY DEF Holding, BookedFinite
  <2>2. IsFiniteSet(Booked(P) \cup {I})
    BY <1>1, <2>1, FS_AddElement
  <2>3. ASSUME NEW p \in Programs PROVE IsFiniteSet(Booked(p)')
    <3>1. CASE p = P
      <4>1. IsFiniteSet(Booked(P)')
        BY <1>6, <2>2, Zenon
      <4> QED BY <3>1, <4>1, Zenon
    <3>2. CASE p # P
      <4>1. Booked(p)' = Booked(p)
        BY <1>6, <3>2
      <4> QED BY <2>1, <4>1, Zenon
    <3> QED BY <3>1, <3>2
  <2> QED BY <2>3 DEF BookedFinite
<1>8. ClosedHoldNothing'
  <2>1. ASSUME NEW p \in Programs, NEW i \in Invoices,
               reservation'[p][i] # None, reservation'[p][i].status \in TerminalStatuses
        PROVE  reservation'[p][i].outstandingReserved = 0
    BY <1>1, <1>2, <2>1 DEF Holding, ClosedHoldNothing
  <2> QED BY <2>1 DEF ClosedHoldNothing
<1>9. ASSUME NEW p \in Programs \ {P}
      PROVE  Outstanding(p, Booked(p))' = Outstanding(p, Booked(p))
  <2>1. reservation'[p] = reservation[p]
    BY <1>1, <1>9 DEF CommandCommits, IInv, TypeOK, TablesOK
  <2> QED BY <1>6, <1>9, <2>1, Zenon DEF Outstanding
<1>10. Outstanding(P, Booked(P))' = Outstanding(P, Booked(P)) + delta
  <2>1. PICK S : S = Booked(P)
    OBVIOUS
  <2> DEFINE T == S \cup {I}
             f == [i \in S |-> reservation[P][i].outstandingReserved]
             g == [i \in T |-> reservation'[P][i].outstandingReserved]
             h == [i \in T |-> HeldBy(reservation[P][i])]
  <2>2. /\ Outstanding(P, Booked(P)) = SumFunctionOnSet(f, S)
        /\ Outstanding(P, Booked(P))' = SumFunctionOnSet(g, T)
    <3>1. Booked(P)' = T
      BY <1>6, <2>1
    <3> HIDE DEF T
    <3>2. Outstanding(P, Booked(P)) = SumFunctionOnSet(f, S)
      BY <2>1, Zenon DEF Outstanding
    <3>3. Outstanding(P, Booked(P))' = SumFunctionOnSet(g, T)
      BY <3>1, Zenon DEF Outstanding
    <3> QED BY <3>2, <3>3
  <2>3. IsFiniteSet(S) /\ S \subseteq Invoices /\ IsFiniteSet(T) /\ T \subseteq Invoices
    BY <1>1, <2>1, FS_AddElement DEF Holding, BookedFinite, Booked
  <2>4. \A i \in T : h[i] \in Int /\ h[i] = HeldBy(reservation[P][i])
    BY <1>1, <1>4, <2>3
  <2>5. \A i \in S : f[i] = HeldBy(reservation[P][i]) /\ f[i] = h[i]
    BY <2>1, <2>4 DEF Booked, HeldBy
  <2>6. \A i \in T : /\ g[i] = HeldBy(reservation'[P][i])
                     /\ g[i] = h[i] + (IF i = I THEN delta ELSE 0) /\ g[i] \in Int
    <3>1. \A i \in T : reservation'[P][i] # None
      BY <1>1, <1>2, <2>1, <2>3 DEF Booked
    <3>2. \A i \in T : g[i] = HeldBy(reservation'[P][i])
      BY <3>1 DEF HeldBy
    <3> HIDE DEF HeldBy, T, g, h
    <3> QED BY <1>1, <1>5, <2>3, <2>4, <3>2
  <2>7. I \in T /\ S \in SUBSET T /\ \A i \in T \ S : h[i] = 0
    <3>1. ASSUME NEW i \in T \ S PROVE h[i] = 0
      BY <1>1, <2>1, <2>4 DEF Booked, HeldBy
    <3> QED BY <3>1
  <2> HIDE DEF f, g, h, T
  <2>8. SumFunctionOnSet(f, S) = SumFunctionOnSet(h, T)
    <3>1. SumFunctionOnSet(h, T) = SumFunctionOnSet(h, S)
      BY <2>3, <2>4, <2>7, SumWithoutZeros
    <3>2. \A i \in S : f[i] \in Int /\ h[i] = f[i]
      BY <2>4, <2>5, <2>7
    <3>3. SumFunctionOnSet(h, S) = SumFunctionOnSet(f, S)
      BY <2>3, <3>2, SumSame
    <3> QED BY <3>1, <3>3
  <2>9. SumFunctionOnSet(g, T) = SumFunctionOnSet(h, T) - h[I] + g[I]
    <3>1. \A i \in T : h[i] \in Int /\ g[i] \in Int
      BY <2>4, <2>6
    <3>2. \A i \in T \ {I} : g[i] = h[i]
      BY <2>4, <2>6
    <3> QED BY <2>3, <2>7, <3>1, <3>2, SumChange
  <2>10. SumFunctionOnSet(h, T) \in Int
    BY <2>3, <2>4, SumInt
  <2> QED BY <1>1, <2>2, <2>4, <2>6, <2>7, <2>8, <2>9, <2>10
<1> QED BY <1>5, <1>7, <1>8, <1>9, <1>10 DEF Holding

-------------------------------------------------------------------------------
(* The books balance.                                                      *)

(* What a draft adds to the entries of an invoice.                         *)
InvoiceDelta(drafts, k, i) ==
  IF k \in DOMAIN drafts /\ drafts[k].component = "LOCAL" /\ drafts[k].origin = i
  THEN drafts[k].delta ELSE 0

LEMMA InvoiceMoves ==
  ASSUME IInv, IInv', NEW P, NEW drafts, Advances(P, drafts), NEW i
  PROVE  LedgerTotal(P, InvoiceEntries(P, i))' =
           LedgerTotal(P, InvoiceEntries(P, i)) +
             (InvoiceDelta(drafts, 1, i) + InvoiceDelta(drafts, 2, i) + InvoiceDelta(drafts, 3, i))
<1> DEFINE E == {e \in EntryRow : e.component = "LOCAL" /\ e.origin = i}
           L == Len(ledger[P])
           N == Len(drafts)
           M == Len(MarkEntries(program[P], drafts))
<1>1. P \in Programs /\ Grows(P, drafts) /\ Len(drafts) <= 3
  BY DEF Advances
<1>2. ledger[P] \in Seq(EntryRow) /\ ledger'[P] \in Seq(EntryRow)
  BY <1>1 DEF IInv, TypeOK, TablesOK
<1>3. InvoiceEntries(P, i) = Selected(P, E) /\ InvoiceEntries(P, i)' = Selected(P, E)'
  <2>1. /\ \A n \in DOMAIN ledger[P] : ledger[P][n] \in EntryRow
        /\ \A n \in DOMAIN ledger'[P] : ledger'[P][n] \in EntryRow
    BY <1>2, EntriesTyped
  <2> QED BY <2>1 DEF InvoiceEntries, EntriesOf, Selected
<1>4. \A k \in DOMAIN drafts :
        /\ ledger'[P][L + k] \in EntryRow
        /\ ledger'[P][L + k].component = drafts[k].component
        /\ ledger'[P][L + k].origin = drafts[k].origin
  <2>1. /\ L \in Nat /\ N \in Nat /\ M \in Nat /\ DOMAIN drafts = 1..N
        /\ DOMAIN ledger'[P] = 1..(L + N + M)
        /\ \A k \in 1..N : Books(ledger'[P][L + k], drafts[k])
    BY <1>1, Zenon DEF Grows
  <2> HIDE DEF L, N, M
  <2>2. \A n \in 1..(L + N + M) : ledger'[P][n] \in EntryRow
    BY <1>2, <2>1, EntriesTyped
  <2>3. \A k \in 1..N : L + k \in 1..(L + N + M)
    BY <2>1
  <2> QED BY <2>1, <2>2, <2>3 DEF Books
<1>5. /\ Picked(P, drafts, E, 1) = InvoiceDelta(drafts, 1, i)
      /\ Picked(P, drafts, E, 2) = InvoiceDelta(drafts, 2, i)
      /\ Picked(P, drafts, E, 3) = InvoiceDelta(drafts, 3, i)
  BY <1>4 DEF Picked, InvoiceDelta
<1> HIDE DEF E
<1>6. LedgerTotal(P, Selected(P, E))' =
        LedgerTotal(P, Selected(P, E)) +
          (Picked(P, drafts, E, 1) + Picked(P, drafts, E, 2) + Picked(P, drafts, E, 3))
  BY <1>1, SelectedMoves
<1>7. LedgerTotal(P, InvoiceEntries(P, i))' = LedgerTotal(P, Selected(P, E))'
  BY <1>3, Zenon DEF LedgerTotal
<1> QED BY <1>3, <1>5, <1>6, <1>7, Zenon

(* What an invoice holds is what its entries net to, before and after.     *)
LEMMA NetsKept ==
  ASSUME IInv, IInv', InvoiceLedgerNets, NEW P, NEW drafts, Advances(P, drafts),
         \A p \in Programs, i \in Invoices :
           HeldBy(reservation'[p][i]) =
             HeldBy(reservation[p][i]) +
               (IF p = P THEN InvoiceDelta(drafts, 1, i) + InvoiceDelta(drafts, 2, i)
                                + InvoiceDelta(drafts, 3, i)
                ELSE 0)
  PROVE  InvoiceLedgerNets'
<1>1. \A p \in Programs, i \in Invoices :
        LedgerTotal(p, InvoiceEntries(p, i)) = HeldBy(reservation[p][i])
  BY Zenon DEF InvoiceLedgerNets, InvoiceEntries, HeldBy
<1>2. SUFFICES ASSUME NEW p \in Programs, NEW i \in Invoices
               PROVE  LedgerTotal(p, InvoiceEntries(p, i))' = HeldBy(reservation'[p][i])
  BY Zenon DEF InvoiceLedgerNets, InvoiceEntries, HeldBy
<1>3. CASE p = P
  BY <1>1, <1>3, InvoiceMoves
<1>4. CASE p # P
  <2>1. ledger'[p] = ledger[p]
    BY <1>4 DEF Advances, Grows
  <2>2. LedgerTotal(p, InvoiceEntries(p, i))' = LedgerTotal(p, InvoiceEntries(p, i))
    BY <2>1, Zenon DEF LedgerTotal, InvoiceEntries, EntriesOf
  <2>3. HeldBy(reservation[p][i]) \in Int
    BY StoreAssumption DEF HeldBy, IInv, TypeOK, TablesOK, ReservationRow, Minor
  <2> QED BY <1>1, <1>4, <2>2, <2>3
<1> QED BY <1>3, <1>4

(* The inductive invariant of the books: a row tells what its ledger adds  *)
(* up to, LOCAL is what its reservations hold, and the entries of each     *)
(* invoice net to what it holds. A snapshot relies on it: its target for   *)
(* LOCAL is the value LOCAL already has.                                   *)
Balanced ==
  /\ IInv /\ Holding /\ LocalIsOutstanding
  /\ LedgerExplainsPosition /\ InvoiceLedgerNets

LEMMA CommandBalances ==
  ASSUME Balanced, IInv', NEW w \in Workers, CommandStep(w)
  PROVE  Balanced'
<1>1. PICK delta \in Int, cause \in Causes, row \in ReservationRow :
        CommandCommits(w, delta, cause, row)
  BY DEF CommandStep
<1>2. PICK P, I : P = job[w].program /\ I = job[w].invoice
  OBVIOUS
<1> DEFINE drafts == LocalDraft(w, delta, cause)
           d      == CommandDraft(w, delta, cause)
<1>3. IInv /\ Holding /\ LocalIsOutstanding /\ LedgerExplainsPosition /\ InvoiceLedgerNets
  BY DEF Balanced
<1>4. drafts = <<d>> /\ Advances(P, drafts)
  BY <1>1, <1>2, <1>3, CommandAdvances
<1>5. /\ d.delta = delta /\ d.component = "LOCAL" /\ d.origin = I
      /\ DOMAIN drafts = {1} /\ drafts[1] = d
      /\ \A c : ComponentDelta(drafts, c) = IF d.component = c THEN d.delta ELSE 0
  <2>1. d.delta = delta /\ d.component = "LOCAL" /\ d.origin = I
    BY <1>2 DEF CommandDraft
  <2> HIDE DEF d
  <2>2. DOMAIN <<d>> = {1} /\ <<d>>[1] = d
    OBVIOUS
  <2>3. \A c : ComponentDelta(<<d>>, c) = IF d.component = c THEN d.delta ELSE 0
    BY <2>1, OneDraft
  <2> HIDE DEF drafts
  <2> QED BY <1>4, <2>1, <2>2, <2>3, Zenon
<1> HIDE DEF drafts, d
<1>6. /\ Holding'
      /\ \A p \in Programs, i \in Invoices :
           HeldBy(reservation'[p][i]) =
             HeldBy(reservation[p][i]) + (IF p = P /\ i = I THEN delta ELSE 0)
      /\ Outstanding(P, Booked(P))' = Outstanding(P, Booked(P)) + delta
      /\ \A p \in Programs \ {P} : Outstanding(p, Booked(p))' = Outstanding(p, Booked(p))
  BY <1>1, <1>2, <1>3, CommandHoldings
<1>7. LedgerExplainsPosition'
  BY <1>3, <1>4, ExplainsKept
<1>8. LocalIsOutstanding'
  <2> SUFFICES ASSUME NEW p \in Programs
               PROVE  program'[p].local = Outstanding(p, Booked(p))'
    BY DEF LocalIsOutstanding
  <2>1. CASE p = P
    BY <1>3, <1>4, <1>5, <1>6, <2>1 DEF Advances, LocalIsOutstanding
  <2>2. CASE p # P
    BY <1>3, <1>4, <1>6, <2>2 DEF Advances, LocalIsOutstanding
  <2> QED BY <2>1, <2>2
<1>9. InvoiceLedgerNets'
  <2>1. \A i : /\ InvoiceDelta(drafts, 1, i) = IF i = I THEN delta ELSE 0
               /\ InvoiceDelta(drafts, 2, i) = 0 /\ InvoiceDelta(drafts, 3, i) = 0
    BY <1>5 DEF InvoiceDelta
  <2>2. \A p \in Programs, i \in Invoices :
          HeldBy(reservation'[p][i]) =
            HeldBy(reservation[p][i]) +
              (IF p = P THEN InvoiceDelta(drafts, 1, i) + InvoiceDelta(drafts, 2, i)
                               + InvoiceDelta(drafts, 3, i)
               ELSE 0)
    BY <1>6, <2>1
  <2> QED BY <1>3, <1>4, <2>2, NetsKept
<1> QED BY <1>6, <1>7, <1>8, <1>9 DEF Balanced

(* An advance that changes no holding and moves no LOCAL.                  *)
LEMMA TreasuryBalances ==
  ASSUME Balanced, IInv', NEW P, NEW drafts, Advances(P, drafts),
         \A p \in Programs, i \in Invoices : SameHolding(reservation[p][i], reservation'[p][i]),
         program'[P].local = program[P].local,
         \A k \in DOMAIN drafts : drafts[k].component = "LOCAL" => drafts[k].delta = 0
  PROVE  Balanced'
<1>1. IInv /\ Holding /\ LocalIsOutstanding /\ LedgerExplainsPosition /\ InvoiceLedgerNets
  BY DEF Balanced
<1>2. /\ Holding'
      /\ \A p \in Programs, i \in Invoices : HeldBy(reservation'[p][i]) = HeldBy(reservation[p][i])
      /\ \A p \in Programs : Outstanding(p, Booked(p))' = Outstanding(p, Booked(p))
  BY <1>1, SameHoldings
<1>3. LocalIsOutstanding'
  BY <1>1, <1>2 DEF Advances, LocalIsOutstanding
<1>4. InvoiceLedgerNets'
  <2>1. \A i : /\ InvoiceDelta(drafts, 1, i) = 0 /\ InvoiceDelta(drafts, 2, i) = 0
               /\ InvoiceDelta(drafts, 3, i) = 0
    BY DEF InvoiceDelta
  <2>2. \A p \in Programs, i \in Invoices : HeldBy(reservation[p][i]) \in Int
    BY <1>1, StoreAssumption DEF HeldBy, IInv, TypeOK, TablesOK, ReservationRow, Minor
  <2>3. \A p \in Programs, i \in Invoices :
          HeldBy(reservation'[p][i]) =
            HeldBy(reservation[p][i]) +
              (IF p = P THEN InvoiceDelta(drafts, 1, i) + InvoiceDelta(drafts, 2, i)
                               + InvoiceDelta(drafts, 3, i)
               ELSE 0)
    <3> HIDE DEF HeldBy
    <3> QED BY <1>2, <2>1, <2>2
  <2> QED BY <1>1, <2>3, NetsKept
<1> QED BY <1>1, <1>2, <1>3, <1>4, ExplainsKept DEF Balanced

(* An event moves no LOCAL.                                                *)
LEMMA EventKeepsLocal ==
  ASSUME IInv, NEW w \in Workers, EventCommits(w)
  PROVE  \A p \in Programs : program'[p].local = program[p].local
<1> DEFINE d      == EventDraft(job[w], view[w])
           drafts == <<d>>
<1>1. PICK P : P = job[w].program
  OBVIOUS
<1>2. Advances(P, drafts)
  BY <1>1, EventAdvances
<1>3. d.component # "LOCAL" /\ d.delta \in Int
  <2>1. d.component # "LOCAL"
    BY DEF EventDraft
  <2>2. DOMAIN drafts = {1} /\ drafts[1] = d
    OBVIOUS
  <2> HIDE DEF d, drafts
  <2>3. drafts[1].delta \in Int
    BY <1>2, <2>2 DEF Advances
  <2> QED BY <2>1, <2>2, <2>3
<1> HIDE DEF d
<1>4. ComponentDelta(drafts, "LOCAL") = 0
  BY <1>3, OneDraft
<1> HIDE DEF drafts
<1>5. \A p \in Programs : program[p].local \in Int
  BY StoreAssumption DEF IInv, TypeOK, TablesOK, ProgramRow, Minor
<1>6. /\ program'[P].local = program[P].local + 0 /\ P \in Programs
      /\ \A p \in Programs \ {P} : program'[p] = program[p]
  BY <1>2, <1>4 DEF Advances
<1> QED BY <1>5, <1>6

LEMMA EventBalances ==
  ASSUME Balanced, IInv', NEW w \in Workers, EventCommits(w)
  PROVE  Balanced'
<1> DEFINE d      == EventDraft(job[w], view[w])
           drafts == <<d>>
<1>1. IInv /\ UNCHANGED reservation
  BY DEF Balanced, EventCommits
<1>2. PICK P : P = job[w].program
  OBVIOUS
<1>3. Advances(P, drafts)
  BY <1>1, <1>2, EventAdvances
<1>4. d.component # "LOCAL"
  BY DEF EventDraft
<1>5. DOMAIN drafts = {1} /\ drafts[1] = d
  OBVIOUS
<1> HIDE DEF d, drafts
<1>6. \A p \in Programs : program'[p].local = program[p].local
  BY <1>1, EventKeepsLocal
<1>7. \A p \in Programs, i \in Invoices : SameHolding(reservation[p][i], reservation'[p][i])
  <2>1. \A p \in Programs, i \in Invoices : reservation[p][i] \in ReservationRow \cup {None}
    BY <1>1 DEF IInv, TypeOK, TablesOK
  <2> QED BY <1>1, <2>1 DEF SameHolding, SameTerms, AcknowledgedFurther, ReservationRow
<1> QED BY <1>3, <1>4, <1>5, <1>6, <1>7, TreasuryBalances DEF Advances

(* What a snapshot acknowledges keeps holding what it holds.               *)
LEMMA SnapshotKeepsHoldings ==
  ASSUME IInv, NEW w \in Workers, SnapshotCommits(w)
  PROVE  \A p \in Programs, i \in Invoices : SameHolding(reservation[p][i], reservation'[p][i])
<1> DEFINE m == job[w]
           S == NewlyAcknowledged(m)
<1>1. m.version \in Nat /\ m.program \in Programs
  BY ParsedMessagesFit DEF SnapshotCommits, AppliesNew, InTransaction, IInv, TypeOK, SessionsOK
<1>2. \A i \in S : /\ reservation[m.program][i] # None
                   /\ \/ reservation[m.program][i].acknowledgedBy = None
                      \/ reservation[m.program][i].acknowledgedBy <= m.version
  <2>1. \A i \in S : /\ i \in Invoices /\ reservation[m.program][i] # None
                     /\ \/ reservation[m.program][i].acknowledgedBy = None
                        \/ reservation[m.program][i].acknowledgedBy < m.version
    BY DEF NewlyAcknowledged, Booked
  <2>2. \A i \in Invoices : reservation[m.program][i] # None =>
          reservation[m.program][i].acknowledgedBy \in Nat \cup {None}
    BY <1>1 DEF IInv, TypeOK, TablesOK, ReservationRow
  <2> HIDE DEF S
  <2> QED BY <1>1, <2>1, <2>2
<1>3. reservation' = [reservation EXCEPT ![m.program] =
        [i \in Invoices |-> IF i \in S THEN [@[i] EXCEPT !.acknowledgedBy = m.version] ELSE @[i]]]
  BY DEF SnapshotCommits
<1> HIDE DEF S
<1> QED BY <1>1, <1>2, <1>3, AcknowledgingKeeps

(* A snapshot finds LOCAL on target.                                       *)
LEMMA SnapshotKeepsLocal ==
  ASSUME Balanced, NEW w \in Workers, SnapshotCommits(w)
  PROVE  LET m      == job[w]
             drafts == SnapshotDrafts(m, view[w])
         IN  /\ Advances(m.program, drafts) /\ Len(drafts) <= 2
             /\ \A p \in Programs : program'[p].local = program[p].local
             /\ \A k \in DOMAIN drafts : drafts[k].component = "LOCAL" => drafts[k].delta = 0
<1> DEFINE m == job[w]
<1>1. PICK P, drafts : P = m.program /\ drafts = SnapshotDrafts(m, view[w])
  OBVIOUS
<1>2. IInv /\ BookedFinite /\ InTransaction(w) /\ P \in Programs
  BY <1>1 DEF Balanced, Holding, SnapshotCommits, AppliesNew, InTransaction, IInv, TypeOK, SessionsOK
<1>3. TargetLocal(m) = program[P].local /\ view[w].local = program[P].local
      /\ program[P].local \in Int
  BY <1>1, <1>2, StoreAssumption
     DEF Balanced, LocalIsOutstanding, TargetLocal, IInv, LockedViewIsCurrent, TypeOK, TablesOK,
         ProgramRow, Minor
<1>4. /\ Advances(P, drafts) /\ Len(drafts) <= 2
      /\ program'[P].local = program[P].local
      /\ \A k \in DOMAIN drafts : drafts[k].component = "LOCAL" => drafts[k].delta = 0
  <2>1. /\ Advances(P, drafts)
        /\ TargetLocal(m) = view[w].local => Len(drafts) <= 2
        /\ program'[P].local = TargetLocal(m)
        /\ \A k \in DOMAIN drafts :
             drafts[k].component = "LOCAL" => drafts[k].delta = TargetLocal(m) - view[w].local
    BY <1>1, <1>2, SnapshotAdvances
  <2> QED BY <1>3, <2>1
<1>5. \A p \in Programs : program'[p].local = program[p].local
  BY <1>4 DEF Advances
<1> QED BY <1>1, <1>4, <1>5

LEMMA SnapshotBalances ==
  ASSUME Balanced, IInv', NEW w \in Workers, SnapshotCommits(w)
  PROVE  Balanced'
<1>1. PICK P, drafts : P = job[w].program /\ drafts = SnapshotDrafts(job[w], view[w])
  OBVIOUS
<1>2. /\ Advances(P, drafts)
      /\ \A p \in Programs : program'[p].local = program[p].local
      /\ \A k \in DOMAIN drafts : drafts[k].component = "LOCAL" => drafts[k].delta = 0
  BY <1>1, SnapshotKeepsLocal
<1>3. \A p \in Programs, i \in Invoices : SameHolding(reservation[p][i], reservation'[p][i])
  BY SnapshotKeepsHoldings DEF Balanced
<1> QED BY <1>2, <1>3, TreasuryBalances DEF Advances

LEMMA QuietBalances ==
  ASSUME Balanced, IInv', Quiet
  PROVE  Balanced'
<1>1. IInv /\ Holding /\ LocalIsOutstanding /\ LedgerExplainsPosition /\ InvoiceLedgerNets
  BY DEF Balanced
<1>2. /\ Holding'
      /\ \A p \in Programs, i \in Invoices : HeldBy(reservation'[p][i]) = HeldBy(reservation[p][i])
      /\ \A p \in Programs : Outstanding(p, Booked(p))' = Outstanding(p, Booked(p))
  BY <1>1, SameHoldings DEF Quiet
<1>3. \A p \in Programs : /\ ledger'[p] = ledger[p]
                          /\ program'[p].local = program[p].local
                          /\ program'[p].treasury = program[p].treasury
                          /\ program'[p].limit = program[p].limit
  BY DEF Quiet, SamePosition
<1>4. LocalIsOutstanding'
  BY <1>1, <1>2, <1>3 DEF LocalIsOutstanding
<1>5. LedgerExplainsPosition'
  <2>1. \A p \in Programs, c \in Components :
          LedgerTotal(p, EntriesOf(p, c))' = LedgerTotal(p, EntriesOf(p, c))
    BY <1>3, LedgerKept
  <2> QED BY <1>1, <1>3, <2>1 DEF LedgerExplainsPosition, Components
<1>6. InvoiceLedgerNets'
  <2>1. \A p \in Programs, i \in Invoices :
          LedgerTotal(p, InvoiceEntries(p, i)) = HeldBy(reservation[p][i])
    BY <1>1, Zenon DEF InvoiceLedgerNets, InvoiceEntries, HeldBy
  <2>2. \A p \in Programs, i \in Invoices :
          LedgerTotal(p, InvoiceEntries(p, i))' = LedgerTotal(p, InvoiceEntries(p, i))
    BY <1>3, Zenon DEF LedgerTotal, InvoiceEntries, EntriesOf
  <2>3. \A p \in Programs, i \in Invoices :
          LedgerTotal(p, InvoiceEntries(p, i))' = HeldBy(reservation'[p][i])
    <3> HIDE DEF HeldBy
    <3> QED BY <1>2, <2>1, <2>2
  <2> QED BY <2>3, Zenon DEF InvoiceLedgerNets, InvoiceEntries, HeldBy
<1> QED BY <1>2, <1>4, <1>5, <1>6 DEF Balanced

(* The seed books the limit of a program, and nothing else.                *)
LEMMA SeedBalances == Init => Balanced
<1> SUFFICES ASSUME Init PROVE Balanced
  OBVIOUS
<1>1. IInv
  BY InitKeeps
<1>2. \A p \in Programs :
        /\ program[p] = SeededRow(p) /\ ledger[p] = SeededEntries(p)
        /\ \A i \in Invoices : reservation[p][i] = None
  BY DEF Init, StoreInit, SeededRow, SeededEntries
<1>3. \A p \in Programs : Booked(p) = {}
  BY <1>2 DEF Booked
<1>4. Holding
  BY <1>2, <1>3, FS_EmptySet DEF Holding, BookedFinite, ClosedHoldNothing
<1>5. \A p : /\ LedgerTotal(p, {}) = 0 /\ Outstanding(p, {}) = 0
  BY SumEmpty, Zenon DEF LedgerTotal, Outstanding
<1>6. ASSUME NEW p \in Programs
      PROVE  /\ program[p].limit = LedgerTotal(p, EntriesOf(p, "LIMIT"))
             /\ EntriesOf(p, "LOCAL") = {} /\ EntriesOf(p, "TREASURY") = {}
             /\ program[p].local = 0 /\ program[p].treasury = 0
  <2>1. /\ DOMAIN ledger[p] = {1} /\ ledger[p][1].component = "LIMIT"
        /\ ledger[p][1].delta = SeedLimit[p] /\ program[p].limit = SeedLimit[p]
        /\ program[p].local = 0 /\ program[p].treasury = 0
    BY <1>2, SeededProgram
  <2>2. /\ EntriesOf(p, "LIMIT") = {1}
        /\ EntriesOf(p, "LOCAL") = {} /\ EntriesOf(p, "TREASURY") = {}
    BY <2>1 DEF EntriesOf
  <2> DEFINE S == {1}
             f == [n \in S |-> ledger[p][n].delta]
  <2>3. SeedLimit[p] \in Int
    BY StoreAssumption
  <2>4. IsFiniteSet(S) /\ 1 \in S /\ f[1] = SeedLimit[p] /\ \A x \in S \ {1} : f[x] = 0
    BY <2>1, FS_Singleton
  <2>5. LedgerTotal(p, S) = SumFunctionOnSet(f, S)
    BY Zenon DEF LedgerTotal
  <2> HIDE DEF S, f
  <2>6. SumFunctionOnSet(f, S) = f[1]
    BY <2>3, <2>4, SumSingle
  <2>7. LedgerTotal(p, EntriesOf(p, "LIMIT")) = LedgerTotal(p, S)
    BY <2>2, Zenon DEF S
  <2> QED BY <2>1, <2>2, <2>4, <2>5, <2>6, <2>7
<1>7. LedgerExplainsPosition
  BY <1>5, <1>6 DEF LedgerExplainsPosition
<1>8. LocalIsOutstanding
  BY <1>3, <1>5, <1>6 DEF LocalIsOutstanding
<1>9. InvoiceLedgerNets
  <2>1. ASSUME NEW p \in Programs, NEW i \in Invoices
        PROVE  LedgerTotal(p, InvoiceEntries(p, i)) = HeldBy(reservation[p][i])
    <3>1. InvoiceEntries(p, i) = {}
      BY <1>6 DEF InvoiceEntries
    <3>2. HeldBy(reservation[p][i]) = 0
      BY <1>2 DEF HeldBy
    <3> QED BY <1>5, <3>1, <3>2
  <2> QED BY <2>1, Zenon DEF InvoiceLedgerNets, InvoiceEntries, HeldBy
<1> QED BY <1>1, <1>4, <1>7, <1>8, <1>9 DEF Balanced

LEMMA NextBalances == Balanced /\ [Next]_system => Balanced'
<1> SUFFICES ASSUME Balanced, [Next]_system PROVE Balanced'
  OBVIOUS
<1>1. IInv /\ IInv'
  BY NextKeeps DEF Balanced
<1>2. CASE \E w \in Workers : CommandStep(w) \/ EventCommits(w) \/ SnapshotCommits(w)
  BY <1>1, <1>2, CommandBalances, EventBalances, SnapshotBalances
<1>3. CASE Quiet
  BY <1>1, <1>3, QuietBalances
<1> QED BY <1>1, <1>2, <1>3, NextCases

(* The books of the service balance at every moment.                       *)
THEOREM BooksBalance == Spec => []Balanced
<1>1. Init => Balanced
  BY SeedBalances
<1>2. Balanced /\ [Next]_system => Balanced'
  BY NextBalances
<1> QED BY <1>1, <1>2, PTL DEF Spec

(* FR-019a: replaying the ledger of a program gives the limit, the LOCAL   *)
(* and the TREASURY amount of its row, whoever has booked what.            *)
THEOREM LedgerExplains == Spec => []LedgerExplainsPosition
<1>1. Balanced => LedgerExplainsPosition
  BY DEF Balanced
<1> QED BY <1>1, BooksBalance, PTL

(* Closed reservations hold nothing, so those that are live hold it all.   *)
LEMMA LiveHoldAll == Balanced => LocalIsLiveOutstanding
<1> SUFFICES ASSUME Balanced, NEW p \in Programs
             PROVE  program[p].local = Outstanding(p, Live(p))
  BY DEF LocalIsLiveOutstanding
<1> DEFINE S == Booked(p)
           T == Live(p)
           f == [i \in S |-> reservation[p][i].outstandingReserved]
           g == [i \in T |-> reservation[p][i].outstandingReserved]
<1>1. IInv /\ Holding /\ program[p].local = Outstanding(p, S)
  BY DEF Balanced, LocalIsOutstanding
<1>2. IsFiniteSet(S) /\ T \subseteq S /\ IsFiniteSet(T)
  BY <1>1, FS_Subset DEF Holding, BookedFinite, Live
<1>3. \A i \in S : reservation[p][i].outstandingReserved \in Int
  BY <1>1, OutstandingInt DEF Holding
<1>4. \A i \in S : f[i] \in Int /\ (i \notin T => f[i] = 0)
  <2>1. ASSUME NEW i \in S, i \notin T PROVE reservation[p][i].outstandingReserved = 0
    <3>1. i \in Invoices /\ reservation[p][i] # None /\ reservation[p][i] \in ReservationRow
      BY <1>1 DEF Booked, IInv, TypeOK, TablesOK
    <3>2. reservation[p][i].status \in TerminalStatuses
      BY <2>1, <3>1 DEF Live, ReservationRow
    <3> QED BY <1>1, <3>1, <3>2 DEF Holding, ClosedHoldNothing
  <2> QED BY <1>3, <2>1
<1>5. \A i \in T : f[i] \in Int /\ g[i] = f[i]
  BY <1>2, <1>4
<1>6. Outstanding(p, S) = SumFunctionOnSet(f, S) /\ Outstanding(p, T) = SumFunctionOnSet(g, T)
  BY Zenon DEF Outstanding
<1> HIDE DEF S, T, f, g
<1>7. SumFunctionOnSet(f, S) = SumFunctionOnSet(f, T)
  BY <1>2, <1>4, SumWithoutZeros
<1>8. SumFunctionOnSet(g, T) = SumFunctionOnSet(f, T)
  BY <1>2, <1>5, SumSame
<1> QED BY <1>1, <1>6, <1>7, <1>8 DEF T

(* FR-019b: the reconciliation check has nothing to find: LOCAL is what    *)
(* the live reservations still hold.                                       *)
THEOREM LocalIsLive == Spec => []LocalIsLiveOutstanding
BY LiveHoldAll, BooksBalance, PTL

(* The LOCAL entries of an invoice net to what it still holds: once repaid *)
(* or cancelled it has given back exactly what it took.                    *)
THEOREM InvoiceNets == Spec => []InvoiceLedgerNets
<1>1. Balanced => InvoiceLedgerNets
  BY DEF Balanced
<1> QED BY <1>1, BooksBalance, PTL

-------------------------------------------------------------------------------
(* What a step never does.                                                 *)

(* An acknowledgement stays, or is renewed by a newer marker (FR-011e):    *)
(* whoever reserves, releases or cancels, and whatever treasury sends.     *)
THEOREM AcknowledgementsAdvance == Spec => AcknowledgementOnlyAdvances
<1>1. IInv /\ [Next]_system =>
        \A p \in Programs, i \in Invoices :
          reservation[p][i] # None /\ reservation[p][i].acknowledgedBy # None =>
            /\ reservation'[p][i].acknowledgedBy # None
            /\ reservation[p][i].acknowledgedBy <= reservation'[p][i].acknowledgedBy
  <2> SUFFICES ASSUME IInv, [Next]_system, NEW p \in Programs, NEW i \in Invoices,
                      reservation[p][i] # None, reservation[p][i].acknowledgedBy # None
               PROVE  /\ reservation'[p][i].acknowledgedBy # None
                      /\ reservation[p][i].acknowledgedBy <= reservation'[p][i].acknowledgedBy
    OBVIOUS
  <2>1. reservation[p][i].acknowledgedBy \in Nat
    BY DEF IInv, TypeOK, TablesOK, ReservationRow
  <2>2. CASE \E w \in Workers : CommandStep(w)
    <3>1. PICK w \in Workers, delta \in Int, cause \in Causes, row \in ReservationRow :
            CommandCommits(w, delta, cause, row)
      BY <2>2 DEF CommandStep
    <3>2. /\ job[w].program \in Programs /\ job[w].invoice \in Invoices
          /\ reservation' = [reservation EXCEPT ![job[w].program][job[w].invoice] = row]
          /\ reservation[job[w].program][job[w].invoice] # None =>
               row.acknowledgedBy = reservation[job[w].program][job[w].invoice].acknowledgedBy
      BY <3>1, CommandsAssumption DEF CommandCommits, Row
    <3>3. \/ reservation'[p][i] = reservation[p][i]
          \/ reservation'[p][i].acknowledgedBy = reservation[p][i].acknowledgedBy
      BY <3>2 DEF IInv, TypeOK, TablesOK
    <3> QED BY <2>1, <3>3
  <2>3. CASE \E w \in Workers : EventCommits(w)
    BY <2>1, <2>3 DEF EventCommits
  <2>4. CASE (\E w \in Workers : SnapshotCommits(w)) \/ Quiet
    <3>1. SameHolding(reservation[p][i], reservation'[p][i])
      BY <2>4, SnapshotKeepsHoldings DEF Quiet
    <3> QED BY <3>1 DEF SameHolding, AcknowledgedFurther
  <2> QED BY <2>2, <2>3, <2>4, NextCases
<1> QED BY <1>1, Invariance, PTL DEF Spec, AcknowledgementOnlyAdvances

(* FR-019e: a program that is not verified neither takes nor returns       *)
(* capacity. Of a command this is its guard; a snapshot, which may come at *)
(* any moment, moves LOCAL to the value the books say it already has.      *)
THEOREM UnverifiedStaysFrozen == Spec => UnverifiedIsFrozen
<1>1. Balanced /\ [Next]_system =>
        \A p \in Programs : ~program[p].positionVerified => program'[p].local = program[p].local
  <2> SUFFICES ASSUME Balanced, [Next]_system, NEW p \in Programs, ~program[p].positionVerified
               PROVE  program'[p].local = program[p].local
    OBVIOUS
  <2>1. IInv /\ BookedFinite
    BY DEF Balanced, Holding
  <2>2. CASE \E w \in Workers : CommandStep(w)
    <3>1. PICK w \in Workers, delta \in Int, cause \in Causes, row \in ReservationRow :
            CommandCommits(w, delta, cause, row)
      BY <2>2 DEF CommandStep
    <3>2. PICK P, drafts : P = job[w].program /\ drafts = LocalDraft(w, delta, cause)
      OBVIOUS
    <3>3. Advances(P, drafts)
      BY <2>1, <3>1, <3>2, CommandAdvances
    <3>4. program[P].positionVerified
      BY <2>1, <3>1, <3>2 DEF CommandCommits, IInv, LockedViewIsCurrent, InTransaction
    <3> QED BY <3>3, <3>4 DEF Advances
  <2>3. CASE \E w \in Workers : EventCommits(w)
    BY <2>1, <2>3, EventKeepsLocal
  <2>4. CASE \E w \in Workers : SnapshotCommits(w)
    BY <2>4, SnapshotKeepsLocal
  <2>5. CASE Quiet
    BY <2>5 DEF Quiet, SamePosition
  <2> QED BY <2>1, <2>2, <2>3, <2>4, <2>5, NextCases
<1> QED BY <1>1, BooksBalance, PTL DEF Spec, UnverifiedIsFrozen

-------------------------------------------------------------------------------
(* Messages.                                                               *)

(* A message enters the record of the processed ones as a new one.         *)
LEMMA NewMessage ==
  ASSUME IInv, [Next]_system
  PROVE  UNCHANGED processed \/ \E w \in Workers : AppliesNew(w)
<1>1. CASE \E w \in Workers : CommandStep(w)
  BY <1>1 DEF CommandStep, CommandCommits
<1>2. CASE \E w \in Workers : EventCommits(w) \/ SnapshotCommits(w)
  BY <1>2, Zenon DEF EventCommits, SnapshotCommits
<1>3. CASE Quiet
  BY <1>3 DEF Quiet
<1> QED BY <1>1, <1>2, <1>3, NextCases

LEMMA MessageRecorded ==
  ASSUME IInv, NEW w \in Workers, AppliesNew(w)
  PROVE  LET m == job[w]
         IN  /\ m \in Messages /\ m.id \in MessageIds /\ m.program \in Programs
             /\ processed[m.id] = None
             /\ processed'[m.id] = ProcessedRow(m) /\ processed'[m.id] # None
             /\ \A id \in MessageIds \ {m.id} : processed'[id] = processed[id]
<1>1. /\ job[w] \in Messages /\ job[w].id \in MessageIds /\ job[w].program \in Programs
      /\ processed[job[w].id] = None
  BY ParsedMessagesFit DEF AppliesNew, AlreadyProcessed, IInv, TypeOK, SessionsOK
<1>2. ProcessedRow(job[w]) # None
  BY <1>1, NullAssumption
<1>3. processed' = [processed EXCEPT ![job[w].id] = ProcessedRow(job[w])]
  BY DEF AppliesNew, MarkProcessed
<1> QED BY <1>1, <1>2, <1>3 DEF IInv, TypeOK, TablesOK

(* No two messages of one program and kind are ever processed with the     *)
(* same version. No index of the schema says so: it holds because the      *)
(* version is looked up again under the lock of the program.               *)
THEOREM VersionsAreUnique == Spec => []OneMessagePerVersion
<1>1. Init => OneMessagePerVersion
  BY DEF Init, StoreInit, OneMessagePerVersion
<1>2. IInv /\ OneMessagePerVersion /\ [Next]_system => OneMessagePerVersion'
  <2> SUFFICES ASSUME IInv, OneMessagePerVersion, NEW w \in Workers, AppliesNew(w)
               PROVE  OneMessagePerVersion'
    BY NewMessage DEF OneMessagePerVersion
  <2> DEFINE Key(row) == <<row.program, row.kind, row.version>>
  <2>1. PICK m : m = job[w]
    OBVIOUS
  <2>2. /\ m.id \in MessageIds /\ processed'[m.id] = ProcessedRow(m)
        /\ \A id \in MessageIds \ {m.id} : processed'[id] = processed[id]
    BY <2>1, MessageRecorded
  <2>3. \A id \in MessageIds : processed[id] # None => Key(processed[id]) # Key(ProcessedRow(m))
    BY <2>1 DEF AppliesNew, SameVersion, ProcessedRow
  <2>4. \A id \in MessageIds, other \in MessageIds :
          id # other /\ processed[id] # None /\ processed[other] # None =>
            Key(processed[id]) # Key(processed[other])
    BY DEF OneMessagePerVersion
  <2> HIDE DEF Key
  <2>5. \A id \in MessageIds, other \in MessageIds :
          id # other /\ processed'[id] # None /\ processed'[other] # None =>
            Key(processed'[id]) # Key(processed'[other])
    BY <2>2, <2>3, <2>4
  <2> QED BY <2>5 DEF OneMessagePerVersion, Key
<1> QED BY <1>1, <1>2, Invariance, PTL DEF Spec

-------------------------------------------------------------------------------
(* Who booked what.                                                        *)

(* The entries of P that someone has booked for a request or a message.    *)
BookedBy(p, actor, id) ==
  {n \in DOMAIN ledger[p] : ledger[p][n].actor = actor /\ ledger[p][n].correlationId = id}

DraftsBy(drafts, actor, id) ==
  {k \in DOMAIN drafts : drafts[k].actor = actor /\ drafts[k].correlationId = id}

NewEntriesBy(P, drafts, actor, id) ==
  {Len(ledger[P]) + k : k \in DraftsBy(drafts, actor, id)}

(* An advance adds the entries of its drafts; the mark is the system's.    *)
LEMMA BookedByGrows ==
  ASSUME NEW P, NEW drafts, Advances(P, drafts), NEW actor, actor # "system", NEW id
  PROVE  /\ \A p \in Programs \ {P} : BookedBy(p, actor, id)' = BookedBy(p, actor, id)
         /\ BookedBy(P, actor, id)' =
              BookedBy(P, actor, id) \cup NewEntriesBy(P, drafts, actor, id)
<1> DEFINE L == Len(ledger[P])
           N == Len(drafts)
           M == Len(MarkEntries(program[P], drafts))
<1>1. /\ \A p \in Programs \ {P} : ledger'[p] = ledger[p]
      /\ L \in Nat /\ N \in Nat /\ M \in Nat
      /\ DOMAIN ledger[P] = 1..L /\ DOMAIN drafts = 1..N
      /\ DOMAIN ledger'[P] = 1..(L + N + M)
      /\ \A n \in 1..L : ledger'[P][n] = ledger[P][n]
      /\ \A k \in 1..N : /\ ledger'[P][L + k].actor = drafts[k].actor
                         /\ ledger'[P][L + k].correlationId = drafts[k].correlationId
      /\ \A k \in 1..M : ledger'[P][L + N + k].actor = "system"
  BY DEF Advances, Grows, Books, BooksMark
<1>2. \A p \in Programs \ {P} : BookedBy(p, actor, id)' = BookedBy(p, actor, id)
  BY <1>1 DEF BookedBy
<1> HIDE DEF L, N, M
<1>3. ASSUME NEW n
      PROVE  n \in BookedBy(P, actor, id)' <=>
               \/ n \in BookedBy(P, actor, id)
               \/ \E k \in DraftsBy(drafts, actor, id) : n = L + k
  <2>1. CASE n \in 1..L
    <3>1. n \in BookedBy(P, actor, id)' <=> n \in BookedBy(P, actor, id)
      BY <1>1, <2>1 DEF BookedBy
    <3>2. \A k \in 1..N : n # L + k
      BY <1>1, <2>1
    <3> QED BY <1>1, <3>1, <3>2 DEF DraftsBy
  <2>2. CASE n \in (L + 1)..(L + N)
    <3>1. PICK k \in 1..N : n = L + k
      <4>1. n - L \in 1..N /\ n = L + (n - L)
        BY <1>1, <2>2
      <4> QED BY <4>1
    <3>2. n \in DOMAIN ledger'[P] /\ n \notin DOMAIN ledger[P]
      BY <1>1, <2>2
    <3>3. \A j \in 1..N : n = L + j => j = k
      BY <1>1, <3>1
    <3> QED BY <1>1, <3>1, <3>2, <3>3 DEF BookedBy, DraftsBy
  <2>3. CASE n \in (L + N + 1)..(L + N + M)
    <3>1. ledger'[P][n].actor = "system"
      <4>1. n - (L + N) \in 1..M /\ n = L + N + (n - (L + N))
        BY <1>1, <2>3
      <4> QED BY <1>1, <4>1
    <3>2. n \notin DOMAIN ledger[P] /\ \A k \in 1..N : n # L + k
      BY <1>1, <2>3
    <3> QED BY <1>1, <3>1, <3>2 DEF BookedBy, DraftsBy
  <2>4. CASE n \notin 1..(L + N + M)
    <3>1. n \notin DOMAIN ledger[P] /\ n \notin DOMAIN ledger'[P] /\ \A k \in 1..N : n # L + k
      BY <1>1, <2>4
    <3> QED BY <1>1, <3>1 DEF BookedBy, DraftsBy
  <2> QED BY <1>1, <2>1, <2>2, <2>3, <2>4
<1>4. BookedBy(P, actor, id)' = BookedBy(P, actor, id) \cup NewEntriesBy(P, drafts, actor, id)
  <2>1. \A n : n \in NewEntriesBy(P, drafts, actor, id) <=>
                 \E k \in DraftsBy(drafts, actor, id) : n = L + k
    BY Zenon DEF NewEntriesBy, L
  <2> QED BY <1>3, <2>1
<1> QED BY <1>2, <1>4

(* Who has no draft among them has no new entry.                           *)
LEMMA BookedByOthers ==
  ASSUME NEW P, NEW drafts, Advances(P, drafts), NEW actor, actor # "system", NEW id,
         DraftsBy(drafts, actor, id) = {}
  PROVE  \A p \in Programs : BookedBy(p, actor, id)' = BookedBy(p, actor, id)
<1>1. NewEntriesBy(P, drafts, actor, id) = {}
  <2>1. ASSUME NEW n \in NewEntriesBy(P, drafts, actor, id) PROVE FALSE
    <3>1. \E k \in DraftsBy(drafts, actor, id) : n = Len(ledger[P]) + k
      BY <2>1, Zenon DEF NewEntriesBy
    <3> QED BY <3>1
  <2> QED BY <2>1
<1>2. BookedBy(P, actor, id)' = BookedBy(P, actor, id)
  <2>1. BookedBy(P, actor, id)' =
          BookedBy(P, actor, id) \cup NewEntriesBy(P, drafts, actor, id)
    BY BookedByGrows
  <2> QED BY ONLY <1>1, <2>1
<1> QED BY <1>2, BookedByGrows

(* A step without a commit books nothing.                                  *)
LEMMA BookedByKept ==
  ASSUME Quiet, NEW actor, NEW id
  PROVE  \A p \in Programs : BookedBy(p, actor, id)' = BookedBy(p, actor, id)
BY DEF Quiet, BookedBy

-------------------------------------------------------------------------------
(* Requests.                                                               *)

(* A command that commits is the first with its identifier, and leaves its *)
(* record behind.                                                          *)
LEMMA RequestRecorded ==
  ASSUME FInv, NEW w \in Workers, NEW delta, NEW cause, NEW row,
         CommandCommits(w, delta, cause, row)
  PROVE  LET c == job[w]
             record == RequestRecord(c, "COMPLETE", Body(Advanced(w, LocalDraft(w, delta, cause)), row))
         IN  /\ c.id \in RequestIds /\ request[c.id] = None
             /\ record # None /\ request'[c.id] = record
             /\ \A k \in RequestIds \ {c.id} : request'[k] = request[k]
<1> DEFINE c       == job[w]
           drafts  == LocalDraft(w, delta, cause)
           outcome == Body(Advanced(w, drafts), row)
           record  == RequestRecord(c, "COMPLETE", outcome)
<1>1. /\ InTransaction(w) /\ c \in Commands /\ c.id \in RequestIds /\ c.program \in Programs
      /\ c.operation \in Operations /\ row \in ReservationRow
      /\ AdvanceAllowed(w, drafts, FALSE) /\ pc[w] = "begun"
      /\ request' = [request EXCEPT ![c.id] = record]
  BY CommandsAssumption, Zenon DEF CommandCommits, InTransaction
<1>2. request[c.id] = None
  BY <1>1 DEF FInv, KeyIsOwn
<1>3. record # None
  <2>1. drafts \in Seq({drafts[1]})
    BY DEF LocalDraft
  <2> HIDE DEF drafts
  <2>2. Advanced(w, drafts) \in ProgramRow
    BY <1>1, <2>1, AdvancedRow DEF FInv
  <2>3. outcome \in Outcome
    BY <1>1, <2>2, StoreAssumption DEF Body, Outcome, ProgramRow, Minor, Available, TotalReserved
  <2> HIDE DEF outcome
  <2>4. record \in RequestRow
    BY <1>1, <2>3 DEF RequestRecord, RequestRow
  <2> HIDE DEF record
  <2> QED BY <2>4, NullAssumption
<1> HIDE DEF outcome, record
<1>4. /\ request'[c.id] = record
      /\ \A k \in RequestIds \ {c.id} : request'[k] = request[k]
  BY <1>1 DEF FInv, IInv, TypeOK, TablesOK
<1> QED BY <1>1, <1>2, <1>3, <1>4 DEF record, outcome

(* Whose draft is the first of them only has one new entry.                *)
LEMMA BookedByFirst ==
  ASSUME NEW P, NEW drafts, Advances(P, drafts), NEW actor, actor # "system", NEW id,
         DraftsBy(drafts, actor, id) = {1}
  PROVE  /\ \A p \in Programs \ {P} : BookedBy(p, actor, id)' = BookedBy(p, actor, id)
         /\ BookedBy(P, actor, id)' = BookedBy(P, actor, id) \cup {Len(ledger[P]) + 1}
<1>1. NewEntriesBy(P, drafts, actor, id) = {Len(ledger[P]) + 1}
  <2>1. ASSUME NEW n \in NewEntriesBy(P, drafts, actor, id) PROVE n = Len(ledger[P]) + 1
    <3>1. PICK k \in DraftsBy(drafts, actor, id) : n = Len(ledger[P]) + k
      BY <2>1, Zenon DEF NewEntriesBy
    <3>2. k = 1
      BY <3>1
    <3> QED BY <3>1, <3>2, Zenon
  <2>2. Len(ledger[P]) + 1 \in NewEntriesBy(P, drafts, actor, id)
    <3>1. 1 \in DraftsBy(drafts, actor, id)
      OBVIOUS
    <3> QED BY <3>1, Zenon DEF NewEntriesBy
  <2> QED BY <2>1, <2>2
<1> QED BY <1>1, BookedByGrows

(* A command books one entry, in its own name and for its identifier.      *)
LEMMA CommandBooks ==
  ASSUME IInv, NEW w \in Workers, NEW delta, NEW cause, NEW row,
         CommandCommits(w, delta, cause, row), NEW P, P = job[w].program, NEW K, K = job[w].id
  PROVE  /\ \A p \in Programs \ {P} : BookedBy(p, "caller", K)' = BookedBy(p, "caller", K)
         /\ BookedBy(P, "caller", K)' = BookedBy(P, "caller", K) \cup {Len(ledger[P]) + 1}
         /\ \A p \in Programs : \A id :
              id # K => BookedBy(p, "caller", id)' = BookedBy(p, "caller", id)
         /\ \A p \in Programs : \A id : BookedBy(p, "treasury", id)' = BookedBy(p, "treasury", id)
<1> DEFINE d == CommandDraft(w, delta, cause)
           drafts == <<d>>
<1>1. Advances(P, drafts)
  BY CommandAdvances
<1>2. d.actor = "caller" /\ d.correlationId = K
  BY DEF CommandDraft
<1>3. DOMAIN drafts = {1} /\ drafts[1] = d
  OBVIOUS
<1> HIDE DEF d, drafts
<1>4. /\ DraftsBy(drafts, "caller", K) = {1}
      /\ \A id : id # K => DraftsBy(drafts, "caller", id) = {}
      /\ \A id : DraftsBy(drafts, "treasury", id) = {}
  BY <1>2, <1>3 DEF DraftsBy
<1>5. /\ \A p \in Programs \ {P} : BookedBy(p, "caller", K)' = BookedBy(p, "caller", K)
      /\ BookedBy(P, "caller", K)' = BookedBy(P, "caller", K) \cup {Len(ledger[P]) + 1}
  <2>1. PICK actor : actor = "caller"
    OBVIOUS
  <2>2. DraftsBy(drafts, actor, K) = {1} /\ actor # "system"
    BY <1>4, <2>1
  <2>3. /\ \A p \in Programs \ {P} : BookedBy(p, actor, K)' = BookedBy(p, actor, K)
        /\ BookedBy(P, actor, K)' = BookedBy(P, actor, K) \cup {Len(ledger[P]) + 1}
    BY ONLY <1>1, <2>2, BookedByFirst
  <2> QED BY <2>1, <2>3, Zenon
<1>6. \A p \in Programs : \A id :
        id # K => BookedBy(p, "caller", id)' = BookedBy(p, "caller", id)
  BY <1>1, <1>4, BookedByOthers
<1>7. \A p \in Programs : \A id : BookedBy(p, "treasury", id)' = BookedBy(p, "treasury", id)
  BY <1>1, <1>4, BookedByOthers
<1> QED BY <1>5, <1>6, <1>7

(* A message books in the name of treasury, under its own identity.        *)
TreasuryBooked(m, drafts) ==
  /\ Advances(m.program, drafts)
  /\ Len(drafts) \in 0..2 /\ DOMAIN drafts = 1..Len(drafts)
  /\ m.kind = "EVENT" => Len(drafts) = 1
  /\ \A k \in DOMAIN drafts : /\ drafts[k].actor = "treasury" /\ drafts[k].correlationId = m.id
                              /\ drafts[k].cause \in TreasuryCauses

LEMMA TreasuryBooks ==
  ASSUME Balanced, NEW w \in Workers, EventCommits(w) \/ SnapshotCommits(w)
  PROVE  /\ AppliesNew(w) /\ UNCHANGED request /\ job[w].kind \in {"EVENT", "SNAPSHOT"}
         /\ \E drafts : TreasuryBooked(job[w], drafts)
<1>1. CASE EventCommits(w)
  <2> DEFINE d      == EventDraft(job[w], view[w])
             drafts == <<d>>
  <2>1. Advances(job[w].program, drafts)
    BY <1>1, EventAdvances DEF Balanced
  <2>2. d.actor = "treasury" /\ d.correlationId = job[w].id /\ d.cause \in TreasuryCauses
    BY DEF EventDraft, TreasuryCauses
  <2>3. Len(drafts) = 1 /\ DOMAIN drafts = 1..1 /\ drafts[1] = d
    OBVIOUS
  <2> HIDE DEF d, drafts
  <2>4. TreasuryBooked(job[w], drafts)
    BY <2>1, <2>2, <2>3 DEF TreasuryBooked
  <2> QED BY <1>1, <2>4 DEF EventCommits
<1>2. CASE SnapshotCommits(w)
  <2>1. PICK drafts : drafts = SnapshotDrafts(job[w], view[w])
    OBVIOUS
  <2>2. Advances(job[w].program, drafts) /\ Len(drafts) <= 2
    BY <1>2, <2>1, SnapshotKeepsLocal
  <2>3. \A k \in DOMAIN drafts : /\ drafts[k].actor = "treasury"
                                 /\ drafts[k].correlationId = job[w].id
                                 /\ drafts[k].cause \in TreasuryCauses
    BY <1>2, <2>1, SnapshotAdvances DEF Balanced, Holding, TreasuryCauses
  <2>4. Len(drafts) \in 0..2 /\ DOMAIN drafts = 1..Len(drafts)
    BY <2>2 DEF Advances, Grows
  <2>5. job[w].kind = "SNAPSHOT"
    BY <1>2 DEF SnapshotCommits
  <2>6. TreasuryBooked(job[w], drafts)
    BY <2>2, <2>3, <2>4, <2>5 DEF TreasuryBooked
  <2>7. AppliesNew(w) /\ UNCHANGED request
    BY <1>2, Zenon DEF SnapshotCommits
  <2> QED BY <2>5, <2>6, <2>7
<1> QED BY <1>1, <1>2

(* Every identifier on record has booked one entry on one program, and the *)
(* others have booked none.                                                *)
EffectRecorded(k) ==
  \/ request[k] = None /\ \A p \in Programs : BookedBy(p, "caller", k) = {}
  \/ /\ request[k] # None
     /\ \E p \in Programs, n \in Nat :
          /\ BookedBy(p, "caller", k) = {n}
          /\ \A q \in Programs \ {p} : BookedBy(q, "caller", k) = {}

EffectsRecorded == \A k \in RequestIds : EffectRecorded(k)

LEMMA EffectKept ==
  ASSUME NEW k, EffectRecorded(k), request'[k] = None <=> request[k] = None,
         \A p \in Programs : BookedBy(p, "caller", k)' = BookedBy(p, "caller", k)
  PROVE  EffectRecorded(k)'
BY DEF EffectRecorded

LEMMA CommandEffect ==
  ASSUME FInv, EffectsRecorded, NEW w \in Workers, CommandStep(w)
  PROVE  EffectsRecorded'
<1>1. PICK delta \in Int, cause \in Causes, row \in ReservationRow :
        CommandCommits(w, delta, cause, row)
  BY DEF CommandStep
<1>2. PICK P, K : P = job[w].program /\ K = job[w].id
  OBVIOUS
<1>3. /\ \A p \in Programs \ {P} : BookedBy(p, "caller", K)' = BookedBy(p, "caller", K)
      /\ BookedBy(P, "caller", K)' = BookedBy(P, "caller", K) \cup {Len(ledger[P]) + 1}
      /\ \A p \in Programs : \A id :
           id # K => BookedBy(p, "caller", id)' = BookedBy(p, "caller", id)
  BY <1>1, <1>2, CommandBooks DEF FInv
<1>4. /\ K \in RequestIds /\ request[K] = None /\ request'[K] # None
      /\ \A k \in RequestIds \ {K} : request'[k] = request[k]
  BY <1>1, <1>2, RequestRecorded
<1>5. P \in Programs /\ Len(ledger[P]) + 1 \in Nat
  BY <1>1, <1>2, CommandsAssumption, EntriesTyped DEF CommandCommits, FInv, IInv, TypeOK, TablesOK
<1>6. ASSUME NEW k \in RequestIds PROVE EffectRecorded(k)'
  <2>1. CASE k = K
    <3>1. \A p \in Programs : BookedBy(p, "caller", K) = {}
      BY <1>4 DEF EffectsRecorded, EffectRecorded
    <3>2. /\ BookedBy(P, "caller", K)' = {Len(ledger[P]) + 1}
          /\ \A p \in Programs \ {P} : BookedBy(p, "caller", K)' = {}
      BY <1>3, <1>5, <3>1
    <3>3. \E p \in Programs, n \in Nat :
            /\ BookedBy(p, "caller", K)' = {n}
            /\ \A q \in Programs \ {p} : BookedBy(q, "caller", K)' = {}
      BY <1>5, <3>2
    <3> QED BY <1>4, <2>1, <3>3 DEF EffectRecorded
  <2>2. CASE k # K
    BY <1>3, <1>4, <2>2, EffectKept DEF EffectsRecorded
  <2> QED BY <2>1, <2>2
<1> QED BY <1>6 DEF EffectsRecorded

LEMMA TreasuryEffect ==
  ASSUME Balanced, EffectsRecorded, NEW w \in Workers,
         EventCommits(w) \/ SnapshotCommits(w)
  PROVE  EffectsRecorded'
<1>1. UNCHANGED request
  BY TreasuryBooks
<1>2. PICK drafts : TreasuryBooked(job[w], drafts)
  BY TreasuryBooks
<1>3. \A k : DraftsBy(drafts, "caller", k) = {}
  BY <1>2 DEF TreasuryBooked, DraftsBy
<1>4. \A p \in Programs : \A k : BookedBy(p, "caller", k)' = BookedBy(p, "caller", k)
  BY <1>2, <1>3, BookedByOthers DEF TreasuryBooked
<1> QED BY <1>1, <1>4, EffectKept DEF EffectsRecorded

LEMMA SeedRecorded == Init => EffectsRecorded
<1> SUFFICES ASSUME Init PROVE EffectsRecorded
  OBVIOUS
<1>1. \A p \in Programs : \A k : BookedBy(p, "caller", k) = {}
  BY SeededProgram DEF Init, StoreInit, SeededEntries, BookedBy
<1>2. \A k \in RequestIds : request[k] = None
  BY DEF Init, StoreInit
<1> QED BY <1>1, <1>2 DEF EffectsRecorded, EffectRecorded

LEMMA EffectsAreRecorded == Spec => []EffectsRecorded
<1>1. FInv /\ Balanced /\ EffectsRecorded /\ [Next]_system => EffectsRecorded'
  <2> SUFFICES ASSUME FInv, Balanced, EffectsRecorded, [Next]_system PROVE EffectsRecorded'
    OBVIOUS
  <2>1. CASE \E w \in Workers : CommandStep(w) \/ EventCommits(w) \/ SnapshotCommits(w)
    BY <2>1, CommandEffect, TreasuryEffect
  <2>2. CASE Quiet
    <3>1. \A k \in RequestIds : request'[k] = None <=> request[k] = None
      BY <2>2 DEF Quiet, SameRequest
    <3>2. \A p \in Programs : \A k : BookedBy(p, "caller", k)' = BookedBy(p, "caller", k)
      BY <2>2, BookedByKept
    <3> QED BY <3>1, <3>2, EffectKept DEF EffectsRecorded
  <2> QED BY <2>1, <2>2, NextCases DEF FInv
<1> QED BY <1>1, SeedRecorded, KeysAreOwn, BooksBalance, PTL DEF Spec

(* FR-006, SC-005: a request takes effect once, however often it is sent,  *)
(* to however many handlers, and whatever crashes or expires between.      *)
THEOREM RequestsTakeEffectOnce == Spec => []RequestTakesEffectOnce
<1>1. EffectsRecorded => RequestTakesEffectOnce
  <2> SUFFICES ASSUME EffectsRecorded, NEW k \in RequestIds
               PROVE  Cardinality(EffectsOf(k)) = IF request[k] = None THEN 0 ELSE 1
    BY DEF RequestTakesEffectOnce
  <2>1. \A x : x \in EffectsOf(k) <=>
                 \E p \in Programs : \E n \in BookedBy(p, "caller", k) : x = <<p, n>>
    BY DEF EffectsOf, BookedBy
  <2>2. CASE request[k] = None
    <3>1. EffectsOf(k) = {}
      BY <2>1, <2>2 DEF EffectsRecorded, EffectRecorded
    <3> QED BY <2>2, <3>1, FS_EmptySet
  <2>3. CASE request[k] # None
    <3>1. PICK p \in Programs, n \in Nat :
            /\ BookedBy(p, "caller", k) = {n}
            /\ \A q \in Programs \ {p} : BookedBy(q, "caller", k) = {}
      BY <2>3 DEF EffectsRecorded, EffectRecorded
    <3>2. EffectsOf(k) = {<<p, n>>}
      BY <2>1, <3>1
    <3> QED BY <2>3, <3>2, FS_Singleton
  <2> QED BY <2>2, <2>3
<1> QED BY <1>1, EffectsAreRecorded, PTL

-------------------------------------------------------------------------------
(* Messages take effect once.                                              *)

LEMMA PairsAreSmall ==
  ASSUME NEW a, NEW b, NEW S, S \subseteq {a, b}
  PROVE  Cardinality(S) \in Nat /\ Cardinality(S) <= IF a = b THEN 1 ELSE 2
<1>1. CASE S = {}
  BY <1>1, FS_EmptySet
<1>2. CASE \E x : S = {x}
  <2>1. PICK x : S = {x}
    BY <1>2
  <2>2. Cardinality({x}) = 1
    BY FS_Singleton
  <2> QED BY <2>1, <2>2
<1>3. CASE S = {a, b} /\ a # b
  <2>1. IsFiniteSet({a}) /\ Cardinality({a}) = 1
    BY FS_Singleton
  <2>2. S = {a} \cup {b} /\ b \notin {a}
    BY <1>3
  <2>3. Cardinality(S) = 2
    BY <2>1, <2>2, FS_AddElement
  <2> QED BY <1>3, <2>3
<1> QED BY <1>1, <1>2, <1>3

(* What a message has booked, it has booked as a processed one, on the     *)
(* program it is for: two entries at most, and an event one.               *)
MessageRecordedOnce(p, id) ==
  \/ BookedBy(p, "treasury", id) = {}
  \/ /\ processed[id] # None /\ processed[id].program = p
     /\ \E a, b : /\ BookedBy(p, "treasury", id) \subseteq {a, b}
                  /\ processed[id].kind = "SNAPSHOT" \/ a = b

MessagesRecorded == \A p \in Programs, id \in MessageIds : MessageRecordedOnce(p, id)

LEMMA MessageKept ==
  ASSUME NEW p, NEW id, MessageRecordedOnce(p, id),
         processed[id] # None => processed'[id] = processed[id],
         BookedBy(p, "treasury", id)' = BookedBy(p, "treasury", id)
  PROVE  MessageRecordedOnce(p, id)'
BY DEF MessageRecordedOnce

(* The entries a message books are the first one or two that follow.       *)
LEMMA TreasuryEntries ==
  ASSUME NEW m, NEW drafts, TreasuryBooked(m, drafts),
         NEW p \in Programs, NEW actor, actor = "treasury", NEW id
  PROVE  /\ id # m.id \/ p # m.program =>
              BookedBy(p, actor, id)' = BookedBy(p, actor, id)
         /\ \A n \in BookedBy(p, actor, id)' :
              \/ n \in BookedBy(p, actor, id)
              \/ n = Len(ledger[p]) + 1
              \/ m.kind # "EVENT" /\ n = Len(ledger[p]) + 2
<1> DEFINE S == DraftsBy(drafts, actor, id)
<1>1. PICK P, N : P = m.program /\ N = Len(drafts)
  OBVIOUS
<1>2. /\ Advances(P, drafts) /\ N \in 0..2 /\ DOMAIN drafts = 1..N
      /\ m.kind = "EVENT" => N = 1
      /\ \A k \in DOMAIN drafts : drafts[k].correlationId = m.id
  BY <1>1 DEF TreasuryBooked
<1>3. actor # "system"
  OBVIOUS
<1>4. /\ \A q \in Programs \ {P} : BookedBy(q, actor, id)' = BookedBy(q, actor, id)
      /\ BookedBy(P, actor, id)' = BookedBy(P, actor, id) \cup NewEntriesBy(P, drafts, actor, id)
  BY <1>2, <1>3, BookedByGrows
<1>5. id # m.id => S = {}
  BY <1>2 DEF DraftsBy
<1>6. S \subseteq 1..N
  BY <1>2 DEF DraftsBy
<1> HIDE DEF S
<1>7. \A k \in S : k = 1 \/ (m.kind # "EVENT" /\ k = 2)
  BY <1>2, <1>6
<1>8. CASE p = P
  <2>1. \A n \in BookedBy(p, actor, id)' :
          \/ n \in BookedBy(p, actor, id)
          \/ n = Len(ledger[p]) + 1
          \/ m.kind # "EVENT" /\ n = Len(ledger[p]) + 2
    <3>1. \A n \in NewEntriesBy(P, drafts, actor, id) :
            n = Len(ledger[P]) + 1 \/ (m.kind # "EVENT" /\ n = Len(ledger[P]) + 2)
      BY <1>7, Zenon DEF NewEntriesBy, S
    <3> QED BY <1>4, <1>8, <3>1
  <2>2. id # m.id => BookedBy(p, actor, id)' = BookedBy(p, actor, id)
    BY <1>2, <1>3, <1>5, <1>8, BookedByOthers DEF S
  <2> QED BY <1>1, <1>8, <2>1, <2>2
<1>9. CASE p # P
  BY <1>1, <1>4, <1>9
<1> QED BY <1>8, <1>9

(* A message that is new has booked nothing before.                        *)
LEMMA MessageEffect ==
  ASSUME Balanced, MessagesRecorded, NEW w \in Workers,
         EventCommits(w) \/ SnapshotCommits(w)
  PROVE  MessagesRecorded'
<1>1. PICK m, drafts : m = job[w] /\ TreasuryBooked(m, drafts)
  BY TreasuryBooks
<1>2. AppliesNew(w) /\ m.kind \in {"EVENT", "SNAPSHOT"}
  BY <1>1, TreasuryBooks
<1>3. /\ m.id \in MessageIds /\ m.program \in Programs
      /\ processed[m.id] = None
      /\ processed'[m.id] = ProcessedRow(m) /\ processed'[m.id] # None
      /\ \A id \in MessageIds \ {m.id} : processed'[id] = processed[id]
  BY <1>1, <1>2, MessageRecorded DEF Balanced
<1>4. ASSUME NEW p \in Programs, NEW id \in MessageIds
      PROVE  MessageRecordedOnce(p, id)'
  <2> DEFINE old == BookedBy(p, "treasury", id)
             new == BookedBy(p, "treasury", id)'
             L   == Len(ledger[p])
  <2>1. /\ id # m.id \/ p # m.program => new = old
        /\ \A n \in new : n \in old \/ n = L + 1 \/ (m.kind # "EVENT" /\ n = L + 2)
    BY <1>1, TreasuryEntries
  <2>2. CASE id # m.id
    BY <1>3, <2>1, <2>2, MessageKept DEF MessagesRecorded
  <2>3. CASE id = m.id
    <3>1. old = {}
      BY <1>3, <2>3 DEF MessagesRecorded, MessageRecordedOnce
    <3>2. processed'[id] # None /\ processed'[id] = ProcessedRow(m)
      BY <1>3, <2>3
    <3> HIDE DEF old, new, L
    <3>3. CASE p # m.program
      BY <2>1, <3>1, <3>3 DEF MessageRecordedOnce, new
    <3>4. CASE p = m.program
      <4>1. \E a, b : new \subseteq {a, b} /\ (m.kind = "SNAPSHOT" \/ a = b)
        <5>1. CASE m.kind = "EVENT"
          <6>1. new \subseteq {L + 1, L + 1}
            BY <2>1, <3>1, <5>1
          <6> QED BY <6>1
        <5>2. CASE m.kind = "SNAPSHOT"
          <6>1. new \subseteq {L + 1, L + 2}
            BY <2>1, <3>1, <5>2
          <6> QED BY <5>2, <6>1
        <5> QED BY <1>2, <5>1, <5>2
      <4>2. processed'[id].program = p /\ processed'[id].kind = m.kind
        BY <3>2, <3>4 DEF ProcessedRow
      <4> QED BY <3>2, <4>1, <4>2 DEF MessageRecordedOnce, new
    <3> QED BY <3>3, <3>4
  <2> QED BY <2>2, <2>3
<1> QED BY <1>4 DEF MessagesRecorded

LEMMA MessagesAreRecorded == Spec => []MessagesRecorded
<1>1. Init => MessagesRecorded
  <2> SUFFICES ASSUME Init PROVE MessagesRecorded
    OBVIOUS
  <2>1. \A p \in Programs : \A id : BookedBy(p, "treasury", id) = {}
    BY SeededProgram DEF Init, StoreInit, SeededEntries, BookedBy
  <2> QED BY <2>1 DEF MessagesRecorded, MessageRecordedOnce
<1>2. Balanced /\ MessagesRecorded /\ [Next]_system => MessagesRecorded'
  <2> SUFFICES ASSUME Balanced, MessagesRecorded, [Next]_system PROVE MessagesRecorded'
    OBVIOUS
  <2>1. IInv
    BY DEF Balanced
  <2>2. \A id \in MessageIds : processed[id] # None => processed'[id] = processed[id]
    BY <2>1, NewMessage, MessageRecorded
  <2>3. CASE \E w \in Workers : CommandStep(w)
    <3>1. PICK w \in Workers, delta \in Int, cause \in Causes, row \in ReservationRow :
            CommandCommits(w, delta, cause, row)
      BY <2>3 DEF CommandStep
    <3>2. \A p \in Programs : \A id : BookedBy(p, "treasury", id)' = BookedBy(p, "treasury", id)
      BY <2>1, <3>1, CommandBooks
    <3> QED BY <2>2, <3>2, MessageKept DEF MessagesRecorded
  <2>4. CASE \E w \in Workers : EventCommits(w) \/ SnapshotCommits(w)
    BY <2>4, MessageEffect
  <2>5. CASE Quiet
    <3>1. \A p \in Programs : \A id : BookedBy(p, "treasury", id)' = BookedBy(p, "treasury", id)
      BY <2>5, BookedByKept
    <3> QED BY <2>2, <3>1, MessageKept DEF MessagesRecorded
  <2> QED BY <2>1, <2>3, <2>4, <2>5, NextCases
<1> QED BY <1>1, <1>2, BooksBalance, PTL DEF Spec

(* FR-013: however often treasury delivers a message, to however many      *)
(* consumers, it moves the position once. That a snapshot books two        *)
(* entries at most, TREASURY and LIMIT, is the balance of the books: it    *)
(* finds LOCAL on target.                                                  *)
THEOREM MessagesTakeEffectOnce == Spec => []MessageTakesEffectOnce
<1>1. MessagesRecorded => MessageTakesEffectOnce
  <2> SUFFICES ASSUME MessagesRecorded, NEW p \in Programs, NEW id \in MessageIds
               PROVE  LET effects == BookedBy(p, "treasury", id)
                      IN  /\ effects # {} => processed[id] # None /\ processed[id].program = p
                          /\ Cardinality(effects) <=
                               IF processed[id] # None /\ processed[id].kind = "SNAPSHOT"
                               THEN 2 ELSE 1
    BY Zenon DEF MessageTakesEffectOnce, BookedBy
  <2>1. MessageRecordedOnce(p, id)
    BY DEF MessagesRecorded
  <2>2. CASE BookedBy(p, "treasury", id) = {}
    BY <2>2, FS_EmptySet
  <2>3. CASE BookedBy(p, "treasury", id) # {}
    <3>1. processed[id] # None /\ processed[id].program = p
      BY <2>1, <2>3 DEF MessageRecordedOnce
    <3>2. PICK a, b : /\ BookedBy(p, "treasury", id) \subseteq {a, b}
                      /\ processed[id].kind = "SNAPSHOT" \/ a = b
      BY <2>1, <2>3 DEF MessageRecordedOnce
    <3>3. /\ Cardinality(BookedBy(p, "treasury", id)) \in Nat
          /\ Cardinality(BookedBy(p, "treasury", id)) <= IF a = b THEN 1 ELSE 2
      BY <3>2, PairsAreSmall
    <3> QED BY <3>1, <3>2, <3>3
  <2> QED BY <2>2, <2>3
<1> QED BY <1>1, MessagesAreRecorded, PTL

-------------------------------------------------------------------------------
(* Answers.                                                                *)

(* The reply tells what stands in the table for what its caller sent.       *)
OnRecord(reply) ==
  LET record == request[reply.to.id]
  IN  /\ record.state = "COMPLETE" /\ record.outcome = reply.outcome
      /\ record.operation = reply.to.operation
      /\ record.fingerprint = Fingerprint(reply.to)

LEMMA CommitAnswers ==
  ASSUME IInv, NEW w \in Workers, pc[w] = "begun", NEW delta, NEW cause, NEW row,
         CommitCommand(w, delta, cause, row)
  PROVE  OnRecord(answer)' \/ answer'.kind = "failed"
<1> DEFINE drafts  == LocalDraft(w, delta, cause)
           outcome == Body(Advanced(w, drafts), row)
           allowed == AdvanceAllowed(w, drafts, FALSE) /\ ReservationRowAllowed(job[w].program, row)
<1>1. CASE allowed
  <2>1. PICK c : c = job[w]
    OBVIOUS
  <2>2. c.id \in RequestIds
    BY <2>1, CommandsAssumption DEF IInv, TypeOK, SessionsOK
  <2>3. /\ request' = [request EXCEPT ![c.id] = RequestRecord(c, "COMPLETE", outcome)]
        /\ answer' = Reply(w, "created", Accepted, outcome)
    BY <1>1, <2>1, Zenon DEF CommitCommand, Finish
  <2> HIDE DEF outcome
  <2>4. answer'.to = c /\ answer'.outcome = outcome
    BY <2>1, <2>3 DEF Reply
  <2>5. request'[c.id] = RequestRecord(c, "COMPLETE", outcome)
    BY <2>2, <2>3 DEF IInv, TypeOK, TablesOK
  <2> QED BY <2>4, <2>5 DEF OnRecord, RequestRecord
<1>2. CASE ~allowed
  <2>1. FinishUnchanged(w, Reply(w, "failed", "CONSTRAINT_VIOLATION", None))
    BY <1>2, Zenon DEF CommitCommand
  <2> QED BY <2>1 DEF FinishUnchanged, Finish, Reply
<1> QED BY <1>1, <1>2

(* The verdict that a key may be replayed.                                 *)
LEMMA ReplayAccepted ==
  ASSUME NEW c \in Commands, NEW record \in RequestRow, KeyVerdict(record, c) = Accepted
  PROVE  /\ record.state = "COMPLETE"
         /\ record.operation = c.operation /\ record.fingerprint = Fingerprint(c)
<1> DEFINE differs == record.operation # c.operation \/ record.fingerprint # Fingerprint(c)
           expired == record.state = "EXPIRED"
           checks  == <<Check(record.operation # c.operation \/ record.fingerprint # Fingerprint(c),
                              "IDEMPOTENCY_CONFLICT"),
                        Check(record.state = "PENDING", "REQUEST_IN_FLIGHT"),
                        Check(record.state = "EXPIRED", "IDEMPOTENCY_EXPIRED")>>
<1>1. KeyVerdict(record, c) = Verdict(checks)
  BY Zenon DEF KeyVerdict
<1>2. /\ DOMAIN checks = 1..3 /\ checks[1] = Check(differs, "IDEMPOTENCY_CONFLICT")
      /\ checks[3] = Check(expired, "IDEMPOTENCY_EXPIRED")
  OBVIOUS
<1> HIDE DEF checks, differs, expired
<1>3. /\ Check(differs, "IDEMPOTENCY_CONFLICT") = Accepted
      /\ Check(expired, "IDEMPOTENCY_EXPIRED") = Accepted
  BY <1>1, <1>2, VerdictAccepted
<1>4. ~differs /\ ~expired
  BY <1>3 DEF Check, Accepted
<1> QED BY <1>4 DEF differs, expired, RequestRow

(* A step that neither settles a command nor replays one answers no        *)
(* caller: it is silent, or it disposes of a message.                      *)
Silent(reply) ==
  reply # None => /\ reply.kind \notin {"created", "replayed"}
                  /\ reply.kind = "failed" => reply.to \in Messages

LEMMA DispositionSilent ==
  ASSUME NEW m, NEW code, m \in Messages \/ code = "SCHEMA_INVALID"
  PROVE  Silent(Disposition(m, code))
<1>1. CASE m \in Messages
  <2>1. /\ Disposition(m, code).to = m
        /\ Disposition(m, code).kind \in {"skipped", "failed", "quarantined"}
    BY DEF Disposition
  <2> QED BY <1>1, <2>1 DEF Silent
<1>2. CASE code = "SCHEMA_INVALID"
  <2>1. Disposition(m, code).kind = "quarantined"
    BY <1>2 DEF Disposition
  <2> QED BY <2>1 DEF Silent
<1> QED BY <1>1, <1>2

LEMMA ReplySilent ==
  ASSUME NEW w, job[w] \in Messages, NEW kind, kind \notin {"created", "replayed"},
         NEW code, NEW outcome
  PROVE  Silent(Reply(w, kind, code, outcome))
BY DEF Silent, Reply

LEMMA MessageSilent ==
  ASSUME NEW w \in Workers, HandleMessage(w)
  PROVE  Silent(answer)'
<1>1. CASE \E r \in Records : ~Parsable(r) /\ RejectRecord(w)
  <2>1. answer' = Disposition(None, "SCHEMA_INVALID")
    BY <1>1 DEF RejectRecord
  <2> QED BY <2>1, DispositionSilent
<1>2. ASSUME NEW m \in Messages, Inspect(w, m)
      PROVE  Silent(answer)'
  <2>1. answer' = None \/ \E code : answer' = Disposition(m, code)
    BY <1>2, Zenon DEF Inspect
  <2> QED BY <2>1, DispositionSilent DEF Silent
<1>3. CASE StartApply(w)
  BY <1>3 DEF StartApply, TakeLock, Silent
<1>4. CASE ApplyEvent(w) \/ ApplySnapshot(w)
  <2>1. /\ job[w] \in Messages
        /\ \/ \E code : answer' = Disposition(job[w], code)
           \/ \E kind \in {"skipped", "failed", "applied"} : \E code :
                answer' = Reply(w, kind, code, None)
    <3>1. CASE ApplyEvent(w)
      <4>1. /\ Applying(w, "EVENT")
            /\ \/ Skip(w, EventVerdict(job[w])) \/ Fail(w) \/ SuppressEcho(w) \/ Applied(w)
        BY <3>1, Zenon DEF ApplyEvent
      <4> QED BY <4>1 DEF Applying, Skip, Fail, SuppressEcho, Applied, FinishUnchanged, Finish
    <3>2. CASE ApplySnapshot(w)
      <4>1. /\ Applying(w, "SNAPSHOT")
            /\ \/ Skip(w, SnapshotVerdict(job[w], view[w])) \/ Fail(w) \/ Applied(w)
        BY <3>2, Zenon DEF ApplySnapshot
      <4> QED BY <4>1 DEF Applying, Skip, Fail, Applied, FinishUnchanged, Finish
    <3> QED BY <1>4, <3>1, <3>2
  <2> QED BY <2>1, DispositionSilent, ReplySilent
<1> QED BY <1>1, <1>2, <1>3, <1>4 DEF HandleMessage

Settles(w) == Replay(w) \/ Reserve(w) \/ Release(w) \/ Cancel(w)

LEMMA OthersSilent ==
  ASSUME Next, \A w \in Workers : ~Settles(w)
  PROVE  Silent(answer)'
<1>1. CASE \E w \in Workers : HandleCommand(w)
  <2>1. answer' = None
    BY <1>1 DEF HandleCommand, Settles, StartCommand, TakeLock, BeginRequest
  <2> QED BY <2>1 DEF Silent
<1>2. CASE \E w \in Workers : HandleMessage(w)
  BY <1>2, MessageSilent
<1>3. CASE Recover
  <2>1. answer' = None
    BY <1>3 DEF Recover, DetectBehind, FlagUnverified, RestoreOlderPosition
  <2> QED BY <2>1 DEF Silent
<1>4. CASE \/ \E w \in Workers : Crash(w)
           \/ RetentionSweep
           \/ \E p \in Programs, i \in Invoices, reference \in TreasuryReferences :
                LinkReference(p, i, reference)
  <2>1. answer' = None
    BY <1>4 DEF Crash, FinishUnchanged, Finish, RetentionSweep, LinkReference
  <2> QED BY <2>1 DEF Silent
<1> QED BY <1>1, <1>2, <1>3, <1>4 DEF Next, Serve

(* A refusal answers its caller, and promises nothing.                     *)
LEMMA SettleAnswers ==
  ASSUME IInv, NEW w \in Workers, Settles(w)
  PROVE  answer'.kind \in {"created", "replayed"} => OnRecord(answer)'
<1>1. CASE Replay(w)
  <2>1. PICK c, record : c = job[w] /\ record = request[c.id]
    OBVIOUS
  <2>2. c \in Commands /\ c.id \in RequestIds /\ record \in RequestRow
    BY <1>1, <2>1, CommandsAssumption DEF Replay, IInv, TypeOK, TablesOK
  <2>3. /\ UNCHANGED request
        /\ \/ KeyVerdict(record, c) = Accepted
              /\ answer' = Reply(w, "replayed", Accepted, record.outcome)
           \/ \E code : answer' = Reply(w, "refused", code, None)
    BY <1>1, <2>1, Zenon DEF Replay, FinishUnchanged, Finish, tables
  <2>4. CASE KeyVerdict(record, c) = Accepted
             /\ answer' = Reply(w, "replayed", Accepted, record.outcome)
    <3>1. /\ record.state = "COMPLETE"
          /\ record.operation = c.operation /\ record.fingerprint = Fingerprint(c)
      BY <2>2, <2>4, ReplayAccepted
    <3>2. answer'.to = c /\ answer'.outcome = record.outcome
      BY <2>1, <2>4 DEF Reply
    <3> QED BY <2>1, <2>3, <3>1, <3>2 DEF OnRecord
  <2> QED BY <2>3, <2>4 DEF Reply
<1>2. ASSUME NEW code, Refuse(w, code) PROVE answer'.kind = "refused"
  BY <1>2 DEF Refuse, FinishUnchanged, Finish, Reply
<1>3. CASE Reserve(w) \/ Release(w) \/ Cancel(w)
  <2>1. /\ pc[w] = "begun"
        /\ \/ \E code : Refuse(w, code)
           \/ \E delta, cause, row : CommitCommand(w, delta, cause, row)
    <3>1. CASE Reserve(w)
      BY <3>1, Zenon DEF Reserve, Working
    <3>2. CASE Release(w)
      BY <3>2, Zenon DEF Release, Working
    <3>3. CASE Cancel(w)
      BY <3>3, Zenon DEF Cancel, Working
    <3> QED BY <1>3, <3>1, <3>2, <3>3
  <2>2. CASE \E code : Refuse(w, code)
    BY <1>2, <2>2
  <2>3. CASE \E delta, cause, row : CommitCommand(w, delta, cause, row)
    <3>1. OnRecord(answer)' \/ answer'.kind = "failed"
      BY <2>1, <2>3, CommitAnswers
    <3> QED BY <3>1
  <2> QED BY <2>1, <2>2, <2>3
<1> QED BY <1>1, <1>3 DEF Settles

(* A caller is told "created", or is replayed an outcome, only with what   *)
(* stands in the table for the operation and the content it sent, at that  *)
(* moment.                                                                 *)
THEOREM AnswersAreOnRecord == Spec => []AnswerIsOnRecord
<1>1. Init => AnswerIsOnRecord
  BY DEF Init, StoreInit, AnswerIsOnRecord
<1>2. IInv /\ AnswerIsOnRecord /\ [Next]_system => AnswerIsOnRecord'
  <2> SUFFICES ASSUME IInv, AnswerIsOnRecord, [Next]_system PROVE AnswerIsOnRecord'
    OBVIOUS
  <2>1. CASE UNCHANGED system
    BY <2>1 DEF system, vars, AnswerIsOnRecord
  <2>2. CASE \E w \in Workers : Settles(w)
    BY <2>2, SettleAnswers DEF AnswerIsOnRecord, OnRecord
  <2>3. CASE Next /\ \A w \in Workers : ~Settles(w)
    BY <2>3, OthersSilent DEF Silent, AnswerIsOnRecord
  <2> QED BY <2>1, <2>2, <2>3
<1> QED BY <1>1, <1>2, Invariance, PTL DEF Spec

-------------------------------------------------------------------------------
(* The history of the over-limit mark.                                     *)

MarkCauses == {"OVER_LIMIT_ONSET", "OVER_LIMIT_CLEARED"}

OnsetsOf(p) == {n \in MarksOf(p) : ledger[p][n].cause = "OVER_LIMIT_ONSET"}

(* The last of the marks up to n is one of the onsets.                     *)
LastIsOnset(marks, onsets, n) ==
  \E k \in marks : k <= n /\ (\A j \in marks : j <= n => j <= k) /\ k \in onsets

LEMMA ThroughIsLast ==
  \A p, n : OverLimitThrough(p, n) <=> LastIsOnset(MarksOf(p), OnsetsOf(p), n)
BY DEF OverLimitThrough, OnsetsOf, LastIsOnset

(* Nothing follows the last entry, and a mark that does is the last.       *)
LEMMA LastStays ==
  ASSUME NEW L \in Nat, NEW marks, marks \subseteq 1..L, NEW onsets, NEW n \in Nat, L <= n
  PROVE  LastIsOnset(marks, onsets, n) <=> LastIsOnset(marks, onsets, L)
<1>1. \A k \in marks : k \in Nat /\ k <= L /\ k <= n
  OBVIOUS
<1> QED BY <1>1 DEF LastIsOnset

MarkedAt(L, marks, onsets, x, more, further) ==
  /\ L \in Nat /\ x \in Nat /\ L < x
  /\ marks \subseteq 1..L /\ onsets \subseteq marks
  /\ more = marks \cup {x} /\ further \subseteq more
  /\ \A k \in marks : k \in further <=> k \in onsets

LEMMA LastMoves ==
  ASSUME NEW L, NEW marks, NEW onsets, NEW x, NEW more, NEW further,
         MarkedAt(L, marks, onsets, x, more, further)
  PROVE  /\ LastIsOnset(more, further, x) <=> x \in further
         /\ \A n \in Nat : n < x =>
              (LastIsOnset(more, further, n) <=> LastIsOnset(marks, onsets, n))
<1> USE DEF MarkedAt
<1>1. \A k \in marks : k \in Nat /\ k <= L /\ k < x
  OBVIOUS
<1>2. LastIsOnset(more, further, x) <=> x \in further
  BY <1>1 DEF LastIsOnset
<1>3. ASSUME NEW n \in Nat, n < x
      PROVE  LastIsOnset(more, further, n) <=> LastIsOnset(marks, onsets, n)
  <2>1. \A k \in more : k <= n <=> k \in marks /\ k <= n
    BY <1>1, <1>3
  <2> QED BY <1>1, <2>1 DEF LastIsOnset
<1> QED BY <1>2, <1>3

(* The ledger gets a mark exactly when the row changes its own.            *)
LEMMA MarkMoves ==
  ASSUME IInv, IInv', NEW P, NEW drafts, Advances(P, drafts),
         \A k \in DOMAIN drafts : drafts[k].cause \notin MarkCauses
  PROVE  LET x == Len(ledger[P]) + Len(drafts) + 1
         IN  /\ MarksOf(P) \subseteq 1..Len(ledger[P]) /\ Len(ledger[P]) \in Nat
             /\ x \in Nat /\ Len(ledger[P]) < x
             /\ \/ /\ program'[P].overLimit = program[P].overLimit
                   /\ MarksOf(P)' = MarksOf(P) /\ OnsetsOf(P)' = OnsetsOf(P)
                   /\ Len(ledger'[P]) = x - 1
                \/ /\ program'[P].overLimit = ~program[P].overLimit
                   /\ MarksOf(P)' = MarksOf(P) \cup {x}
                   /\ \A k \in MarksOf(P) : k \in OnsetsOf(P)' <=> k \in OnsetsOf(P)
                   /\ x \in OnsetsOf(P)' <=> program'[P].overLimit
                   /\ Len(ledger'[P]) = x
<1> DEFINE L     == Len(ledger[P])
           N     == Len(drafts)
           marks == MarkEntries(program[P], drafts)
           M     == Len(marks)
           x     == L + N + 1
           old   == program[P].overLimit
           new   == program'[P].overLimit
<1>1. /\ L \in Nat /\ N \in Nat /\ M \in Nat
      /\ DOMAIN ledger[P] = 1..L /\ DOMAIN drafts = 1..N
      /\ DOMAIN ledger'[P] = 1..(L + N + M) /\ Len(ledger'[P]) = L + N + M
      /\ \A n \in 1..L : ledger'[P][n] = ledger[P][n]
      /\ \A k \in 1..N : ledger'[P][L + k].cause = drafts[k].cause
      /\ \A k \in 1..M : ledger'[P][L + N + k].cause = marks[k].cause
  BY DEF Advances, Grows, Books
<1>2. P \in Programs /\ program[P] \in ProgramRow /\ program'[P] \in ProgramRow
  BY DEF Advances, IInv, TypeOK, TablesOK
<1>3. new = IsOverLimit(MovedPosition(program[P], drafts))
  <2>1. /\ program'[P].local = MovedPosition(program[P], drafts).local
        /\ program'[P].treasury = MovedPosition(program[P], drafts).treasury
        /\ program'[P].limit = MovedPosition(program[P], drafts).limit
    BY <1>2 DEF Advances, MovedPosition, ProgramRow
  <2>2. new = IsOverLimit(program'[P])
    BY <1>2 DEF IInv, OverLimitMarkExact
  <2> QED BY <2>1, <2>2 DEF IsOverLimit, TotalReserved
<1>4. old \in BOOLEAN /\ new \in BOOLEAN
  BY <1>2 DEF ProgramRow
<1>5. \/ marks = <<MarkEntry("OVER_LIMIT_ONSET", drafts)>> /\ ~old /\ new
      \/ marks = <<MarkEntry("OVER_LIMIT_CLEARED", drafts)>> /\ old /\ ~new
      \/ marks = <<>> /\ (old <=> new)
  BY <1>3, <1>4, Zenon DEF MarkEntries
<1>6. \/ M = 1 /\ marks[1].cause = "OVER_LIMIT_ONSET" /\ ~old /\ new
      \/ M = 1 /\ marks[1].cause = "OVER_LIMIT_CLEARED" /\ old /\ ~new
      \/ M = 0 /\ old = new
  BY <1>4, <1>5 DEF MarkEntry
<1> HIDE DEF L, N, M, marks, old, new
<1>7. \A k \in 1..N : ledger'[P][L + k].cause \notin MarkCauses
  BY <1>1
<1>8. MarksOf(P) = {n \in 1..L : ledger[P][n].cause \in MarkCauses}
  BY <1>1 DEF MarksOf, MarkCauses
<1>9. MarksOf(P)' = {n \in 1..(L + N + M) : ledger'[P][n].cause \in MarkCauses}
  BY <1>1 DEF MarksOf, MarkCauses
<1>10. ASSUME NEW n \in 1..(L + N)
       PROVE  /\ n \in MarksOf(P)' <=> n \in MarksOf(P)
              /\ n \in OnsetsOf(P)' <=> n \in OnsetsOf(P)
  <2>1. CASE n \in 1..L
    BY <1>1, <1>8, <1>9, <2>1 DEF OnsetsOf
  <2>2. CASE n \notin 1..L
    <3>1. n - L \in 1..N /\ n = L + (n - L)
      BY <1>1, <2>2
    <3>2. ledger'[P][n].cause \notin MarkCauses
      BY <1>7, <3>1
    <3> QED BY <1>1, <1>8, <1>9, <2>2, <3>2 DEF OnsetsOf
  <2> QED BY <2>1, <2>2
<1>11. OnsetsOf(P) \subseteq MarksOf(P) /\ OnsetsOf(P)' \subseteq MarksOf(P)'
  BY DEF OnsetsOf
<1>12. MarksOf(P) \subseteq 1..(L + N) /\ x \in Nat /\ L < x
  BY <1>1, <1>8
<1>13. CASE M = 0
  <2>1. MarksOf(P)' \subseteq 1..(L + N)
    BY <1>1, <1>9, <1>13
  <2>2. MarksOf(P)' = MarksOf(P) /\ OnsetsOf(P)' = OnsetsOf(P)
    BY <1>10, <1>11, <1>12, <2>1
  <2> QED BY <1>1, <1>6, <1>8, <1>12, <1>13, <2>2 DEF L, N, old, new
<1>14. CASE M = 1
  <2>1. ledger'[P][x].cause = marks[1].cause
    BY <1>1, <1>14
  <2>2. marks[1].cause \in MarkCauses
    BY <1>6, <1>14 DEF MarkCauses
  <2>3. MarksOf(P)' \subseteq 1..(L + N) \cup {x} /\ x \in MarksOf(P)' /\ x \notin 1..(L + N)
    BY <1>1, <1>9, <1>14, <2>1, <2>2
  <2>4. MarksOf(P)' = MarksOf(P) \cup {x}
    BY <1>10, <1>12, <2>3
  <2>5. \A k \in MarksOf(P) : k \in OnsetsOf(P)' <=> k \in OnsetsOf(P)
    BY <1>10, <1>12
  <2>6. x \in OnsetsOf(P)' <=> new
    BY <1>6, <1>14, <2>1, <2>3 DEF OnsetsOf
  <2>7. new = ~old
    BY <1>4, <1>6, <1>14
  <2> QED BY <1>1, <1>8, <1>12, <1>14, <2>4, <2>5, <2>6, <2>7 DEF L, N, old, new
<1> QED BY <1>6, <1>13, <1>14

(* The mark and its history agree, said with the selected sets.            *)
Alternates(p) ==
  /\ \A n \in MarksOf(p) :
       n \in OnsetsOf(p) <=> ~LastIsOnset(MarksOf(p), OnsetsOf(p), n - 1)
  /\ program[p].overLimit <=> LastIsOnset(MarksOf(p), OnsetsOf(p), Len(ledger[p]))

LEMMA HistoryAlternates ==
  ASSUME IInv
  PROVE  MarkHistoryAlternates <=> \A p \in Programs : Alternates(p)
<1>1. ASSUME NEW p \in Programs
      PROVE  Alternates(p) <=>
               /\ \A n \in MarksOf(p) :
                    (ledger[p][n].cause = "OVER_LIMIT_ONSET") = ~OverLimitThrough(p, n - 1)
               /\ program[p].overLimit = OverLimitThrough(p, Len(ledger[p]))
  <2>1. program[p].overLimit \in BOOLEAN
    BY DEF IInv, TypeOK, TablesOK, ProgramRow
  <2>2. \A n : OverLimitThrough(p, n) \in BOOLEAN
    BY DEF OverLimitThrough
  <2>3. \A n \in MarksOf(p) : n \in OnsetsOf(p) <=> ledger[p][n].cause = "OVER_LIMIT_ONSET"
    BY DEF OnsetsOf
  <2>4. \A n : OverLimitThrough(p, n) <=> LastIsOnset(MarksOf(p), OnsetsOf(p), n)
    BY ThroughIsLast
  <2> QED BY <2>1, <2>2, <2>3, <2>4, Zenon DEF Alternates
<1> QED BY <1>1, Zenon DEF MarkHistoryAlternates

LEMMA AdvanceAlternates ==
  ASSUME IInv, IInv', NEW P, NEW drafts, Advances(P, drafts),
         \A k \in DOMAIN drafts : drafts[k].cause \notin MarkCauses, Alternates(P)
  PROVE  Alternates(P)'
<1>1. PICK L, x, marks, onsets :
        /\ L = Len(ledger[P]) /\ x = Len(ledger[P]) + Len(drafts) + 1
        /\ marks = MarksOf(P) /\ onsets = OnsetsOf(P)
  OBVIOUS
<1>2. PICK more, further, old, new, length :
        /\ more = MarksOf(P)' /\ further = OnsetsOf(P)'
        /\ old = program[P].overLimit /\ new = program'[P].overLimit /\ length = Len(ledger'[P])
  OBVIOUS
<1>3. /\ marks \subseteq 1..L /\ L \in Nat /\ x \in Nat /\ L < x
      /\ onsets \subseteq marks /\ further \subseteq more
      /\ \/ new = old /\ more = marks /\ further = onsets /\ length = x - 1
         \/ /\ new = ~old /\ more = marks \cup {x} /\ length = x
            /\ \A k \in marks : k \in further <=> k \in onsets
            /\ x \in further <=> new
  <2>1. onsets \subseteq marks /\ further \subseteq more
    BY <1>1, <1>2 DEF OnsetsOf
  <2> QED BY <1>1, <1>2, <2>1, MarkMoves
<1>4. old \in BOOLEAN /\ new \in BOOLEAN
  BY <1>2 DEF Advances, IInv, TypeOK, TablesOK, ProgramRow
<1>5. /\ \A n \in marks : n \in onsets <=> ~LastIsOnset(marks, onsets, n - 1)
      /\ old <=> LastIsOnset(marks, onsets, L)
  BY <1>1, <1>2, Zenon DEF Alternates
<1>6. /\ \A n \in more : n \in further <=> ~LastIsOnset(more, further, n - 1)
      /\ new <=> LastIsOnset(more, further, length)
  <2>1. CASE new = old /\ more = marks /\ further = onsets /\ length = x - 1
    <3>1. length \in Nat /\ L <= length
      BY <1>3, <2>1
    <3>2. LastIsOnset(marks, onsets, length) <=> LastIsOnset(marks, onsets, L)
      BY <1>3, <3>1, LastStays
    <3> QED BY <1>5, <2>1, <3>2
  <2>2. CASE /\ new = ~old /\ more = marks \cup {x} /\ length = x
             /\ \A k \in marks : k \in further <=> k \in onsets
             /\ x \in further <=> new
    <3>1. /\ LastIsOnset(more, further, x) <=> x \in further
          /\ \A n \in Nat : n < x =>
               (LastIsOnset(more, further, n) <=> LastIsOnset(marks, onsets, n))
      <4>1. MarkedAt(L, marks, onsets, x, more, further)
        BY <1>3, <2>2 DEF MarkedAt
      <4> QED BY <4>1, LastMoves
    <3>2. LastIsOnset(marks, onsets, x - 1) <=> LastIsOnset(marks, onsets, L)
      <4>1. x - 1 \in Nat /\ L <= x - 1
        BY <1>3
      <4> QED BY <1>3, <4>1, LastStays
    <3>3. ASSUME NEW n \in marks
          PROVE  n \in further <=> ~LastIsOnset(more, further, n - 1)
      <4>1. n - 1 \in Nat /\ n - 1 < x
        BY <1>3
      <4> QED BY <1>5, <2>2, <3>1, <4>1
    <3>4. x \in further <=> ~LastIsOnset(more, further, x - 1)
      <4>1. x - 1 \in Nat /\ x - 1 < x
        BY <1>3
      <4> QED BY <1>4, <1>5, <2>2, <3>1, <3>2, <4>1
    <3> QED BY <2>2, <3>1, <3>3, <3>4
  <2> QED BY <1>3, <2>1, <2>2
<1>7. /\ \A n \in MarksOf(P)' :
           n \in OnsetsOf(P)' <=> ~LastIsOnset(MarksOf(P)', OnsetsOf(P)', n - 1)
      /\ program'[P].overLimit <=> LastIsOnset(MarksOf(P)', OnsetsOf(P)', Len(ledger'[P]))
  BY <1>2, <1>6, Zenon
<1> QED BY <1>7, Zenon DEF Alternates

LEMMA AlternatesKept ==
  ASSUME NEW p, ledger'[p] = ledger[p], program'[p].overLimit = program[p].overLimit, Alternates(p)
  PROVE  Alternates(p)'
<1>1. MarksOf(p)' = MarksOf(p) /\ OnsetsOf(p)' = OnsetsOf(p)
  BY Zenon DEF MarksOf, OnsetsOf
<1> QED BY <1>1, Zenon DEF Alternates

(* The ledger tells when a program went over its limit and when it came    *)
(* back: onsets and clearances alternate, and the last agrees with the row *)
(* of the program. It rests on the mark being exact at every commit.       *)
THEOREM MarkHistoryIsExact == Spec => []MarkHistoryAlternates
<1>1. Init => \A p \in Programs : Alternates(p)
  <2> SUFFICES ASSUME Init, NEW p \in Programs PROVE Alternates(p)
    OBVIOUS
  <2>1. /\ ledger[p] = SeededEntries(p) /\ program[p] = SeededRow(p)
    BY DEF Init, StoreInit, SeededEntries, SeededRow
  <2>2. MarksOf(p) = {}
    BY <2>1, SeededProgram DEF MarksOf
  <2>3. ~program[p].overLimit
    <3>1. SeededRow(p).overLimit = IsOverLimit(SeededRow(p))
      BY SeededProgram
    <3>2. ~IsOverLimit(SeededRow(p))
      BY SeededProgram, StoreAssumption DEF IsOverLimit, TotalReserved
    <3> QED BY <2>1, <3>1, <3>2
  <2> QED BY <2>2, <2>3 DEF Alternates, LastIsOnset
<1>2. Balanced /\ Balanced' /\ (\A p \in Programs : Alternates(p)) /\ [Next]_system =>
        (\A p \in Programs : Alternates(p))'
  <2> SUFFICES ASSUME Balanced, IInv, IInv', \A p \in Programs : Alternates(p), [Next]_system
               PROVE  \A p \in Programs : Alternates(p)'
    BY DEF Balanced
  <2>1. ASSUME NEW P, NEW drafts, Advances(P, drafts),
               \A k \in DOMAIN drafts : drafts[k].cause \notin MarkCauses
        PROVE  \A p \in Programs : Alternates(p)'
    <3>1. P \in Programs /\ \A p \in Programs \ {P} : ledger'[p] = ledger[p] /\ program'[p] = program[p]
      BY <2>1 DEF Advances, Grows
    <3>2. Alternates(P)'
      BY <2>1, <3>1, AdvanceAlternates
    <3>3. ASSUME NEW p \in Programs \ {P} PROVE Alternates(p)'
      BY <3>1, AlternatesKept
    <3>4. ASSUME NEW p \in Programs, p = P PROVE Alternates(p)'
      BY <3>2, <3>4, Zenon
    <3> QED BY <3>3, <3>4
  <2>2. CASE \E w \in Workers : CommandStep(w)
    <3>1. PICK w \in Workers, delta \in Int, cause \in Causes, row \in ReservationRow :
            CommandCommits(w, delta, cause, row)
      BY <2>2 DEF CommandStep
    <3>2. PICK P, d, drafts : /\ P = job[w].program /\ drafts = <<d>>
                              /\ d.cause = cause /\ Advances(P, drafts)
      <4>1. CommandDraft(w, delta, cause).cause = cause
        BY DEF CommandDraft
      <4> QED BY <3>1, <4>1, CommandAdvances
    <3>3. cause \notin MarkCauses
      BY <3>1 DEF CommandCommits, MarkCauses
    <3>4. \A k \in DOMAIN drafts : drafts[k].cause \notin MarkCauses
      BY <3>2, <3>3
    <3> QED BY <2>1, <3>2, <3>4
  <2>3. CASE \E w \in Workers : EventCommits(w) \/ SnapshotCommits(w)
    <3>1. PICK w \in Workers : \E drafts : TreasuryBooked(job[w], drafts)
      BY <2>3, TreasuryBooks
    <3>2. PICK drafts : TreasuryBooked(job[w], drafts)
      BY <3>1
    <3>3. PICK P : P = job[w].program
      OBVIOUS
    <3>4. Advances(P, drafts) /\ \A k \in DOMAIN drafts : drafts[k].cause \notin MarkCauses
      BY <3>2, <3>3 DEF TreasuryBooked, TreasuryCauses, MarkCauses
    <3> QED BY <2>1, <3>4
  <2>4. CASE Quiet
    <3>1. \A p \in Programs : ledger'[p] = ledger[p] /\ program'[p].overLimit = program[p].overLimit
      BY <2>4 DEF Quiet, SamePosition
    <3> QED BY <3>1, AlternatesKept
  <2> QED BY <2>2, <2>3, <2>4, NextCases
<1>3. Balanced => (MarkHistoryAlternates <=> \A p \in Programs : Alternates(p))
  BY HistoryAlternates DEF Balanced
<1> QED BY <1>1, <1>2, <1>3, BooksBalance, PTL DEF Spec

-------------------------------------------------------------------------------
(* The position an outcome was computed from.                              *)

(* The figures of the outcome of request k are those of entry n of p.      *)
OutcomeTells(k, p, n) ==
  /\ request[k].outcome.reserved =
       PositionThrough(p, n, "LOCAL") + PositionThrough(p, n, "TREASURY")
  /\ request[k].outcome.available =
       PositionThrough(p, n, "LIMIT")
         - (PositionThrough(p, n, "LOCAL") + PositionThrough(p, n, "TREASURY"))

OutcomeTold(k) ==
  request[k] # None /\ request[k].state = "COMPLETE" =>
    \A p \in Programs : \A n \in BookedBy(p, "caller", k) : OutcomeTells(k, p, n)

OutcomesTold == \A k \in RequestIds : OutcomeTold(k)

(* What the ledger said at an entry it goes on saying.                     *)
LEMMA ThroughKept ==
  ASSUME NEW p, NEW L \in Nat, DOMAIN ledger[p] = 1..L,
         NEW K \in Nat, L <= K, DOMAIN ledger'[p] = 1..K,
         \A j \in 1..L : ledger'[p][j] = ledger[p][j],
         NEW n \in 1..L, NEW c
  PROVE  PositionThrough(p, n, c)' = PositionThrough(p, n, c)
<1> DEFINE S == {k \in EntriesOf(p, c) : k <= n}
<1>1. PICK T : T = S'
  OBVIOUS
<1>2. T = S /\ S \subseteq 1..L
  <2>1. \A k : k \in S <=> k \in 1..L /\ ledger[p][k].component = c /\ k <= n
    BY DEF EntriesOf
  <2>2. \A k : k \in T <=> k \in DOMAIN ledger'[p] /\ ledger'[p][k].component = c /\ k <= n
    BY <1>1, Zenon DEF EntriesOf
  <2>3. \A k \in DOMAIN ledger'[p] : k <= n => k \in 1..L
    OBVIOUS
  <2>4. \A k \in 1..L : /\ k \in DOMAIN ledger'[p]
                         /\ ledger'[p][k].component = c <=> ledger[p][k].component = c
    OBVIOUS
  <2> HIDE DEF S
  <2>5. \A k : k \in T <=> k \in S
    BY <2>1, <2>2, <2>3, <2>4, Zenon
  <2>6. S \subseteq 1..L
    BY <2>1, Zenon
  <2> QED BY <2>5, <2>6
<1> HIDE DEF S
<1>3. [j \in S |-> ledger'[p][j].delta] = [j \in S |-> ledger[p][j].delta]
  BY <1>2
<1>4. LedgerTotal(p, T)' = LedgerTotal(p, S)
  BY <1>2, <1>3, Zenon DEF LedgerTotal
<1>5. PositionThrough(p, n, c)' = LedgerTotal(p, T)'
  BY <1>1, Zenon DEF PositionThrough, S, LedgerTotal
<1> QED BY <1>4, <1>5, Zenon DEF PositionThrough, S

(* A transaction with one draft: at the entry of the draft the ledger says *)
(* what the row says afterwards, mark or no mark.                          *)
LEMMA ThroughDraft ==
  ASSUME IInv, IInv', NEW P, NEW drafts, Advances(P, drafts), Len(drafts) = 1, NEW c,
         NEW n, n = Len(ledger[P]) + 1
  PROVE  PositionThrough(P, n, c)' = LedgerTotal(P, EntriesOf(P, c))'
<1> DEFINE E == {e \in EntryRow : e.component = c /\ e.sequence <= n}
           L == Len(ledger[P])
           M == Len(MarkEntries(program[P], drafts))
<1>1. P \in Programs /\ Grows(P, drafts) /\ Len(drafts) <= 3
  BY DEF Advances
<1>2. /\ L \in Nat /\ M \in Nat /\ DOMAIN drafts = 1..1
      /\ DOMAIN ledger[P] = 1..L /\ DOMAIN ledger'[P] = 1..(L + 1 + M)
      /\ Books(ledger'[P][L + 1], drafts[1])
  BY <1>1 DEF Grows
<1> HIDE DEF L, M
<1>3. /\ \A j \in 1..L : ledger[P][j] \in EntryRow /\ ledger[P][j].sequence = j
      /\ \A j \in 1..(L + 1 + M) : ledger'[P][j] \in EntryRow /\ ledger'[P][j].sequence = j
  <2>1. ledger[P] \in Seq(EntryRow) /\ ledger'[P] \in Seq(EntryRow)
    BY <1>1 DEF IInv, TypeOK, TablesOK
  <2>2. /\ \A j \in DOMAIN ledger[P] : ledger[P][j] \in EntryRow
        /\ \A j \in DOMAIN ledger'[P] : ledger'[P][j] \in EntryRow
    BY <2>1, EntriesTyped
  <2> QED BY <1>1, <1>2, <2>2 DEF IInv, LedgerGapless
<1>4. n = L + 1
  BY DEF L
<1>5. /\ \A j \in 1..L : ledger[P][j] \in E <=> ledger[P][j].component = c
      /\ \A j \in 1..(L + 1 + M) :
           ledger'[P][j] \in E <=> ledger'[P][j].component = c /\ j <= n
  <2>1. \A e : e \in E <=> e \in EntryRow /\ e.component = c /\ e.sequence <= n
    OBVIOUS
  <2>2. \A j \in 1..L : j <= n
    BY <1>2, <1>4
  <2> HIDE DEF E
  <2> QED BY <1>3, <2>1, <2>2, Zenon
<1>6. 1 \in 1..1 /\ L + 1 \in 1..(L + 1 + M) /\ L + 1 <= n
  BY <1>2, <1>4
<1> HIDE DEF E
<1>7. Selected(P, E) = EntriesOf(P, c)
  BY <1>2, <1>5 DEF Selected, EntriesOf
<1>8. PICK T : T = {k \in EntriesOf(P, c) : k <= n}'
  OBVIOUS
<1>9. T = Selected(P, E)'
  <2>1. \A k : k \in T <=> k \in DOMAIN ledger'[P] /\ ledger'[P][k].component = c /\ k <= n
    BY <1>8, Zenon DEF EntriesOf
  <2>2. \A k : k \in Selected(P, E)' <=> k \in DOMAIN ledger'[P] /\ ledger'[P][k] \in E
    BY Zenon DEF Selected
  <2> QED BY <1>2, <1>5, <2>1, <2>2
<1>10. /\ Picked(P, drafts, E, 1) = DraftDelta(drafts, 1, c)
      /\ Picked(P, drafts, E, 2) = DraftDelta(drafts, 2, c)
      /\ Picked(P, drafts, E, 3) = DraftDelta(drafts, 3, c)
  <2>1. ledger'[P][L + 1].component = drafts[1].component
    BY <1>2, Zenon DEF Books
  <2>2. ledger'[P][L + 1] \in E <=> drafts[1].component = c
    BY <1>5, <1>6, <2>1
  <2>3. 1 \in DOMAIN drafts /\ 2 \notin DOMAIN drafts /\ 3 \notin DOMAIN drafts
    BY <1>2
  <2> QED BY <2>2, <2>3 DEF Picked, DraftDelta, L
<1>11. LedgerTotal(P, Selected(P, E))' =
        LedgerTotal(P, Selected(P, E)) +
          (Picked(P, drafts, E, 1) + Picked(P, drafts, E, 2) + Picked(P, drafts, E, 3))
  BY <1>1, SelectedMoves
<1>12. LedgerTotal(P, EntriesOf(P, c))' =
         LedgerTotal(P, EntriesOf(P, c)) + ComponentDelta(drafts, c)
  BY ComponentMoves
<1>13. PositionThrough(P, n, c)' = LedgerTotal(P, Selected(P, E))'
  BY <1>8, <1>9, Zenon DEF PositionThrough, LedgerTotal
<1> QED BY <1>7, <1>10, <1>11, <1>12, <1>13, Zenon DEF ComponentDelta

LEMMA OutcomeKept ==
  ASSUME IInv, NEW P, NEW drafts, Advances(P, drafts), NEW k, request'[k] = request[k],
         \A p \in Programs : BookedBy(p, "caller", k)' = BookedBy(p, "caller", k),
         OutcomeTold(k)
  PROVE  OutcomeTold(k)'
<1>1. ASSUME NEW p \in Programs, NEW n \in BookedBy(p, "caller", k), NEW c
      PROVE  PositionThrough(p, n, c)' = PositionThrough(p, n, c)
  <2>1. n \in DOMAIN ledger[p]
    BY DEF BookedBy
  <2>2. CASE p = P
    <3> DEFINE L == Len(ledger[p])
               N == Len(drafts)
               M == Len(MarkEntries(program[P], drafts))
               K == L + N + M
    <3>1. /\ L \in Nat /\ N \in Nat /\ M \in Nat
          /\ DOMAIN ledger[p] = 1..L /\ DOMAIN ledger'[p] = 1..K
          /\ \A j \in 1..L : ledger'[p][j] = ledger[p][j]
      BY <2>2, Zenon DEF Advances, Grows
    <3> HIDE DEF L, N, M
    <3>2. K \in Nat /\ L <= K
      BY <3>1
    <3> HIDE DEF K
    <3> QED BY <2>1, <3>1, <3>2, ThroughKept
  <2>3. CASE p # P
    <3>1. ledger'[p] = ledger[p]
      BY <2>3 DEF Advances, Grows
    <3> QED BY <3>1, Zenon DEF PositionThrough, LedgerTotal, EntriesOf
  <2> QED BY <2>2, <2>3
<1>2. ASSUME NEW p \in Programs, NEW n \in BookedBy(p, "caller", k), OutcomeTells(k, p, n)
      PROVE  OutcomeTells(k, p, n)'
  <2>1. /\ PositionThrough(p, n, "LOCAL")' = PositionThrough(p, n, "LOCAL")
        /\ PositionThrough(p, n, "TREASURY")' = PositionThrough(p, n, "TREASURY")
        /\ PositionThrough(p, n, "LIMIT")' = PositionThrough(p, n, "LIMIT")
    BY <1>1
  <2> QED BY <1>2, <2>1, Zenon DEF OutcomeTells
<1> QED BY <1>2 DEF OutcomeTold

(* A command answers with the figures of the entry it books.               *)
LEMMA CommandTells ==
  ASSUME IInv, IInv', LedgerExplainsPosition', NEW w \in Workers, NEW delta, NEW cause, NEW row,
         CommandCommits(w, delta, cause, row), NEW P, P = job[w].program, NEW K,
         request'[K] = RequestRecord(job[w], "COMPLETE",
                                     Body(Advanced(w, LocalDraft(w, delta, cause)), row)),
         NEW n, n = Len(ledger[P]) + 1
  PROVE  OutcomeTells(K, P, n)'
<1> DEFINE drafts == LocalDraft(w, delta, cause)
<1>1. Advances(P, drafts) /\ drafts = <<CommandDraft(w, delta, cause)>>
  BY CommandAdvances
<1>2. Len(drafts) = 1 /\ P \in Programs
  BY <1>1 DEF Advances
<1>3. program'[P] = Advanced(w, drafts)
  BY <1>2 DEF CommandCommits, PersistAdvance, PersistRow, IInv, TypeOK, TablesOK
<1> HIDE DEF drafts
<1>4. \A c : PositionThrough(P, n, c)' = LedgerTotal(P, EntriesOf(P, c))'
  BY <1>1, <1>2, ThroughDraft
<1>5. /\ program'[P].limit    = LedgerTotal(P, EntriesOf(P, "LIMIT"))'
      /\ program'[P].local    = LedgerTotal(P, EntriesOf(P, "LOCAL"))'
      /\ program'[P].treasury = LedgerTotal(P, EntriesOf(P, "TREASURY"))'
  BY <1>2 DEF LedgerExplainsPosition
<1>6. /\ request'[K].outcome.reserved = TotalReserved(program'[P])
      /\ request'[K].outcome.available = Available(program'[P])
  BY <1>3 DEF RequestRecord, Body, drafts
<1> QED BY <1>4, <1>5, <1>6 DEF OutcomeTells, TotalReserved, Available

LEMMA CommandOutcome ==
  ASSUME FInv, IInv', EffectsRecorded, LedgerExplainsPosition', OutcomesTold,
         NEW w \in Workers, CommandStep(w)
  PROVE  OutcomesTold'
<1>1. PICK delta \in Int, cause \in Causes, row \in ReservationRow :
        CommandCommits(w, delta, cause, row)
  BY DEF CommandStep
<1>2. PICK P, K : P = job[w].program /\ K = job[w].id
  OBVIOUS
<1>3. /\ \A p \in Programs \ {P} : BookedBy(p, "caller", K)' = BookedBy(p, "caller", K)
      /\ BookedBy(P, "caller", K)' = BookedBy(P, "caller", K) \cup {Len(ledger[P]) + 1}
      /\ \A p \in Programs : \A id :
           id # K => BookedBy(p, "caller", id)' = BookedBy(p, "caller", id)
  BY <1>1, <1>2, CommandBooks DEF FInv
<1>4. /\ K \in RequestIds /\ request[K] = None
      /\ request'[K] = RequestRecord(job[w], "COMPLETE",
                                     Body(Advanced(w, LocalDraft(w, delta, cause)), row))
      /\ \A k \in RequestIds \ {K} : request'[k] = request[k]
  BY <1>1, <1>2, RequestRecorded, Zenon
<1>5. Advances(P, LocalDraft(w, delta, cause))
  BY <1>1, <1>2, CommandAdvances DEF FInv
<1>6. ASSUME NEW k \in RequestIds PROVE OutcomeTold(k)'
  <2>1. CASE k = K
    <3>1. \A p \in Programs : BookedBy(p, "caller", K) = {}
      BY <1>4 DEF EffectsRecorded, EffectRecorded
    <3>2. /\ BookedBy(P, "caller", K)' = {Len(ledger[P]) + 1}
          /\ \A p \in Programs \ {P} : BookedBy(p, "caller", K)' = {}
      BY <1>3, <1>5, <3>1 DEF Advances
    <3>3. PICK n : n = Len(ledger[P]) + 1
      OBVIOUS
    <3>4. OutcomeTells(K, P, n)'
      BY <1>1, <1>2, <1>4, <3>3, CommandTells DEF FInv
    <3>5. \A p \in Programs : \A j \in BookedBy(p, "caller", K)' : p = P /\ j = n
      BY <3>2, <3>3
    <3> QED BY <2>1, <3>4, <3>5, Zenon DEF OutcomeTold
  <2>2. CASE k # K
    <3>1. OutcomeTold(k) /\ request'[k] = request[k]
      BY <1>4, <2>2 DEF OutcomesTold
    <3> QED BY <1>3, <1>5, <2>2, <3>1, OutcomeKept DEF FInv
  <2> QED BY <2>1, <2>2
<1> QED BY <1>6, Zenon DEF OutcomesTold

LEMMA TreasuryOutcome ==
  ASSUME Balanced, OutcomesTold, NEW w \in Workers, EventCommits(w) \/ SnapshotCommits(w)
  PROVE  OutcomesTold'
<1>1. UNCHANGED request
  BY TreasuryBooks
<1>2. PICK drafts : TreasuryBooked(job[w], drafts)
  BY TreasuryBooks
<1>3. \A k : DraftsBy(drafts, "caller", k) = {}
  BY <1>2 DEF TreasuryBooked, DraftsBy
<1>4. \A p \in Programs : \A k : BookedBy(p, "caller", k)' = BookedBy(p, "caller", k)
  BY <1>2, <1>3, BookedByOthers DEF TreasuryBooked
<1>5. ASSUME NEW k \in RequestIds PROVE OutcomeTold(k)'
  <2>1. OutcomeTold(k) /\ IInv /\ Advances(job[w].program, drafts)
    BY <1>2 DEF OutcomesTold, TreasuryBooked, Balanced
  <2> QED BY <1>1, <1>4, <2>1, OutcomeKept
<1> QED BY <1>5, Zenon DEF OutcomesTold

LEMMA QuietOutcome ==
  ASSUME OutcomesTold, Quiet
  PROVE  OutcomesTold'
<1>1. /\ UNCHANGED ledger
      /\ \A k \in RequestIds : SameRequest(request[k], request'[k])
      /\ \A p \in Programs : \A k : BookedBy(p, "caller", k)' = BookedBy(p, "caller", k)
  BY BookedByKept DEF Quiet
<1>2. \A p, n, c : PositionThrough(p, n, c)' = PositionThrough(p, n, c)
  BY <1>1, Zenon DEF PositionThrough, LedgerTotal, EntriesOf
<1>3. ASSUME NEW k \in RequestIds, request'[k] # None, request'[k].state = "COMPLETE"
      PROVE  request'[k] = request[k] /\ request[k] # None /\ request[k].state = "COMPLETE"
  BY <1>1, <1>3 DEF SameRequest
<1>4. ASSUME NEW k \in RequestIds, request'[k] = request[k], NEW p, NEW n, OutcomeTells(k, p, n)
      PROVE  OutcomeTells(k, p, n)'
  BY <1>2, <1>4, Zenon DEF OutcomeTells
<1> QED BY <1>1, <1>3, <1>4, Zenon DEF OutcomesTold, OutcomeTold

LEMMA OutcomesAreTold == Spec => []OutcomesTold
<1>1. Init => OutcomesTold
  BY DEF Init, StoreInit, OutcomesTold, OutcomeTold
<1>2. FInv /\ Balanced /\ Balanced' /\ EffectsRecorded /\ OutcomesTold /\ [Next]_system
        => OutcomesTold'
  <2> SUFFICES ASSUME FInv, Balanced, Balanced', EffectsRecorded, OutcomesTold, [Next]_system
               PROVE  OutcomesTold'
    OBVIOUS
  <2>1. IInv /\ IInv' /\ LedgerExplainsPosition'
    BY DEF Balanced
  <2>2. CASE \E w \in Workers : CommandStep(w) \/ EventCommits(w) \/ SnapshotCommits(w)
    BY <2>1, <2>2, CommandOutcome, TreasuryOutcome
  <2>3. CASE Quiet
    BY <2>3, QuietOutcome
  <2> QED BY <2>1, <2>2, <2>3, NextCases
<1> QED BY <1>1, <1>2, KeysAreOwn, BooksBalance, EffectsAreRecorded, PTL DEF Spec

(* The outcome a retry is answered with is the position of the ledger      *)
(* right after the request had its effect, whatever was booked since.      *)
THEOREM OutcomesMatchTheLedger == Spec => []OutcomeMatchesLedger
<1>1. OutcomesTold => OutcomeMatchesLedger
  <2> SUFFICES ASSUME OutcomesTold, NEW k \in RequestIds,
                      request[k] # None, request[k].state = "COMPLETE",
                      NEW effect \in EffectsOf(k)
               PROVE  OutcomeTells(k, effect[1], effect[2])
    BY Zenon DEF OutcomeMatchesLedger, OutcomeTells
  <2>1. PICK p \in Programs : \E n \in BookedBy(p, "caller", k) : effect = <<p, n>>
    BY DEF EffectsOf, BookedBy
  <2> QED BY <2>1 DEF OutcomesTold, OutcomeTold
<1> QED BY <1>1, OutcomesAreTold, PTL

-------------------------------------------------------------------------------
(* What an applied snapshot leaves behind.                                 *)

(* What reservations hold splits into what parts of them hold.             *)
LEMMA OutstandingParts ==
  ASSUME IInv, BookedFinite, NEW p \in Programs, NEW S, S \subseteq Booked(p), NEW T, T \subseteq S
  PROVE  Outstanding(p, S) = Outstanding(p, T) + Outstanding(p, S \ T)
<1> DEFINE f == [i \in S |-> reservation[p][i].outstandingReserved]
           g == [i \in T |-> reservation[p][i].outstandingReserved]
           h == [i \in S \ T |-> reservation[p][i].outstandingReserved]
<1>1. PICK U : U = S \ T
  OBVIOUS
<1>2. /\ IsFiniteSet(T) /\ IsFiniteSet(U) /\ \A i \in S : f[i] \in Int
      /\ T \cap U = {} /\ T \cup U = S
  <2>1. T \subseteq Booked(p) /\ U \subseteq Booked(p) /\ T \cap U = {} /\ T \cup U = S
    BY <1>1
  <2>2. IsFiniteSet(T) /\ IsFiniteSet(U)
    BY <2>1, OutstandingInt
  <2>3. \A i \in S : f[i] \in Int
    BY OutstandingInt
  <2> QED BY <2>1, <2>2, <2>3
<1>3. (\A i \in T : g[i] = f[i]) /\ \A i \in U : h[i] = f[i]
  BY <1>1
<1>4. /\ Outstanding(p, S) = SumFunctionOnSet(f, S)
      /\ Outstanding(p, T) = SumFunctionOnSet(g, T)
      /\ Outstanding(p, U) = SumFunctionOnSet(h, U)
  BY <1>1, Zenon DEF Outstanding
<1> HIDE DEF f, g, h
<1>5. SumFunctionOnSet(f, T \cup U) = SumFunctionOnSet(f, T) + SumFunctionOnSet(f, U)
  BY <1>2, SumParts
<1>6. SumFunctionOnSet(g, T) = SumFunctionOnSet(f, T)
  BY <1>2, <1>3, SumSame
<1>7. SumFunctionOnSet(h, U) = SumFunctionOnSet(f, U)
  BY <1>2, <1>3, SumSame
<1> QED BY <1>1, <1>2, <1>4, <1>5, <1>6, <1>7

(* The verdict that a snapshot is no older than the last one applied.      *)
LEMMA SnapshotIsNewer ==
  ASSUME NEW m, NEW p, SnapshotVerdict(m, p) = Accepted
  PROVE  ~(m.version < p.treasuryVersion)
<1> DEFINE older  == m.version < p.treasuryVersion
           checks == <<Check(~CurrencyMatches(m), "CURRENCY_MISMATCH"),
                       Check(AlreadyProcessed(m), "IGNORED"),
                       Check(SameVersion(m) # {} /\ ContentDiffers(m), "VERSION_CONFLICT"),
                       Check(SameVersion(m) # {}, "IGNORED"),
                       Check(m.version < p.treasuryVersion, "IGNORED"),
                       Check(TargetTreasury(m) < 0, "SNAPSHOT_INCONSISTENT"),
                       Check(ExceedsGuard(TargetTreasury(m) - p.treasury, p.limit),
                             "IMPLAUSIBLE_DELTA")>>
<1>1. SnapshotVerdict(m, p) = Verdict(checks)
  BY Zenon DEF SnapshotVerdict
<1>2. DOMAIN checks = 1..7 /\ checks[5] = Check(older, "IGNORED")
  OBVIOUS
<1> HIDE DEF checks, older
<1>3. Check(older, "IGNORED") = Accepted
  BY <1>1, <1>2, VerdictAccepted
<1>4. ~older
  BY <1>3 DEF Check, Accepted
<1> QED BY <1>4 DEF older

(* Only the commit of a snapshot is answered as a snapshot applied.        *)
LEMMA AppliedSnapshot ==
  ASSUME IInv, Next, NEW m \in Messages, m.kind = "SNAPSHOT",
         answer' # None, answer'.to = m, answer'.kind = "applied"
  PROVE  \E w \in Workers : SnapshotCommits(w) /\ job[w] = m
<1>1. PICK w \in Workers : HandleCommand(w) \/ HandleMessage(w)
  <2>1. CASE Recover
    BY <2>1 DEF Recover, DetectBehind, FlagUnverified, RestoreOlderPosition
  <2>2. CASE \/ \E w \in Workers : Crash(w)
             \/ RetentionSweep
             \/ \E p \in Programs, i \in Invoices, reference \in TreasuryReferences :
                  LinkReference(p, i, reference)
    BY <2>2 DEF Crash, FinishUnchanged, Finish, RetentionSweep, LinkReference
  <2> QED BY <2>1, <2>2 DEF Next, Serve
<1>2. ~HandleCommand(w)
  <2>1. ASSUME NEW code, Refuse(w, code) PROVE FALSE
    BY <2>1 DEF Refuse, FinishUnchanged, Finish, Reply
  <2>2. ASSUME NEW delta, NEW cause, NEW row, CommitCommand(w, delta, cause, row) PROVE FALSE
    <3>1. \E kind \in {"created", "failed"} : \E code, outcome :
            answer' = Reply(w, kind, code, outcome)
      BY <2>2, Zenon DEF CommitCommand, FinishUnchanged, Finish
    <3> QED BY <3>1 DEF Reply
  <2>3. ASSUME Replay(w) PROVE FALSE
    <3>1. \E kind \in {"replayed", "refused"} : \E code, outcome :
            answer' = Reply(w, kind, code, outcome)
      BY <2>3, Zenon DEF Replay, FinishUnchanged, Finish
    <3> QED BY <3>1 DEF Reply
  <2>4. ASSUME Reserve(w) PROVE FALSE
    BY <2>1, <2>2, <2>4, Zenon DEF Reserve
  <2>5. ASSUME Release(w) PROVE FALSE
    BY <2>1, <2>2, <2>5, Zenon DEF Release
  <2>6. ASSUME Cancel(w) PROVE FALSE
    BY <2>1, <2>2, <2>6, Zenon DEF Cancel
  <2>7. ASSUME (\E c \in Commands : StartCommand(w, c)) \/ BeginRequest(w) PROVE FALSE
    BY <2>7 DEF StartCommand, TakeLock, BeginRequest
  <2> QED BY <2>3, <2>4, <2>5, <2>6, <2>7 DEF HandleCommand
<1>3. ASSUME NEW j, NEW code, answer' = Disposition(j, code) PROVE FALSE
  <2>1. Disposition(j, code).kind \in {"skipped", "failed", "quarantined"}
    BY DEF Disposition
  <2> QED BY <1>3, <2>1
<1>4. ASSUME NEW kind, kind # "applied", NEW code, answer' = Reply(w, kind, code, None)
      PROVE  FALSE
  BY <1>4 DEF Reply
<1>5. ASSUME NEW j \in Messages, Inspect(w, j) PROVE FALSE
  <2>1. answer' = None \/ \E code : answer' = Disposition(j, code)
    BY <1>5, Zenon DEF Inspect
  <2> QED BY <1>3, <2>1
<1>6. ASSUME StartApply(w) \/ RejectRecord(w) PROVE FALSE
  BY <1>3, <1>6 DEF StartApply, TakeLock, RejectRecord
<1>7. ASSUME ApplyEvent(w) PROVE FALSE
  <2>1. /\ Applying(w, "EVENT")
        /\ \/ Skip(w, EventVerdict(job[w])) \/ Fail(w) \/ SuppressEcho(w) \/ Applied(w)
    BY <1>7, Zenon DEF ApplyEvent
  <2>2. CASE Skip(w, EventVerdict(job[w]))
    BY <1>3, <2>2 DEF Skip, FinishUnchanged, Finish
  <2>3. CASE Fail(w) \/ SuppressEcho(w)
    BY <1>4, <2>3 DEF Fail, SuppressEcho, FinishUnchanged, Finish
  <2>4. CASE Applied(w)
    <3>1. answer'.to = job[w] /\ job[w].kind = "EVENT"
      BY <2>1, <2>4 DEF Applied, Finish, Reply, Applying
    <3> QED BY <3>1
  <2> QED BY <2>1, <2>2, <2>3, <2>4
<1>8. ApplySnapshot(w)
  BY <1>1, <1>2, <1>5, <1>6, <1>7 DEF HandleMessage
<1>9. SnapshotCommits(w) /\ Applied(w)
  <2>1. ~Skip(w, SnapshotVerdict(job[w], view[w])) /\ ~Fail(w)
    BY <1>3, <1>4 DEF Skip, Fail, FinishUnchanged, Finish
  <2>2. /\ Applying(w, "SNAPSHOT") /\ SnapshotVerdict(job[w], view[w]) = Accepted
        /\ MarkProcessed(w) /\ Applied(w)
    BY <1>8, <2>1, Zenon DEF ApplySnapshot
  <2>3. AppliesNew(w) /\ job[w].kind = "SNAPSHOT"
    BY <2>2, VerdictOnNew DEF AppliesNew, Applying
  <2> QED BY <1>8, <2>1, <2>2, <2>3, Zenon DEF ApplySnapshot, SnapshotCommits
<1>10. job[w] = m
  BY <1>9 DEF Applied, Finish, Reply
<1> QED BY <1>9, <1>10

(* What a snapshot has not acknowledged, it leaves as it was.              *)
LEMMA SnapshotAcknowledges ==
  ASSUME IInv, NEW w \in Workers, SnapshotCommits(w), NEW m, m = job[w],
         NEW P, P = m.program, NEW U, U = Booked(P) \ Acknowledged(m)
  PROVE  Unacknowledged(P)' = U /\ Outstanding(P, U)' = Outstanding(P, U)
<1> DEFINE S == NewlyAcknowledged(m)
<1>1. m.version \in Nat /\ P \in Programs
  BY ParsedMessagesFit DEF SnapshotCommits, AppliesNew, InTransaction, IInv, TypeOK, SessionsOK
<1>2. /\ \A i \in Invoices : reservation[P][i] \in ReservationRow \cup {None}
      /\ reservation \in [Programs -> [Invoices -> ReservationRow \cup {None}]]
  BY <1>1 DEF IInv, TypeOK, TablesOK
<1>3. S \subseteq Invoices /\ \A i \in S : reservation[P][i] # None
  BY DEF NewlyAcknowledged, Booked
<1>4. Acknowledged(m) = S \cup {i \in Booked(P) : reservation[P][i].acknowledgedBy # None}
  BY Zenon DEF Acknowledged
<1>5. reservation' = [reservation EXCEPT ![P] =
        [i \in Invoices |-> IF i \in S THEN [@[i] EXCEPT !.acknowledgedBy = m.version] ELSE @[i]]]
  BY DEF SnapshotCommits
<1> HIDE DEF S
<1>6. ASSUME NEW i \in Invoices
      PROVE  /\ i \notin S => reservation'[P][i] = reservation[P][i]
             /\ i \in S => /\ reservation'[P][i] # None
                           /\ reservation'[P][i].acknowledgedBy = m.version
  <2>1. reservation'[P][i] = IF i \in S THEN [reservation[P][i] EXCEPT !.acknowledgedBy = m.version]
                             ELSE reservation[P][i]
    BY <1>1, <1>2, <1>5
  <2>2. CASE i \in S
    <3>1. reservation[P][i] \in ReservationRow
      BY <1>2, <1>3, <2>2
    <3>2. /\ [reservation[P][i] EXCEPT !.acknowledgedBy = m.version].acknowledgedBy = m.version
          /\ [reservation[P][i] EXCEPT !.acknowledgedBy = m.version] \in ReservationRow
      BY <1>1, <3>1 DEF ReservationRow
    <3> QED BY <2>1, <2>2, <3>2, NullAssumption
  <2>3. CASE i \notin S
    BY <2>1, <2>3
  <2> QED BY <2>2, <2>3
<1>7. m.version # None
  BY <1>1, NullAssumption
<1>8. Unacknowledged(P)' = U
  <2>1. \A i : i \in Unacknowledged(P)' <=>
          i \in Invoices /\ reservation'[P][i] # None /\ reservation'[P][i].acknowledgedBy = None
    BY Zenon DEF Unacknowledged, Booked
  <2>2. \A i : i \in U <=>
          /\ i \in Invoices /\ reservation[P][i] # None
          /\ i \notin S /\ reservation[P][i].acknowledgedBy = None
    BY <1>4 DEF Booked
  <2>3. \A i : i \in Unacknowledged(P)' <=> i \in U
    <3> TAKE i
    <3>1. CASE i \in Invoices /\ i \in S
      BY <1>6, <1>7, <2>1, <2>2, <3>1
    <3>2. CASE i \in Invoices /\ i \notin S
      <4>1. reservation'[P][i] = reservation[P][i]
        BY <1>6, <3>2
      <4> QED BY <2>1, <2>2, <3>2, <4>1
    <3>3. CASE i \notin Invoices
      BY <2>1, <2>2, <3>3
    <3> QED BY <3>1, <3>2, <3>3
  <2> QED BY <2>3
<1>9. [i \in U |-> reservation'[P][i].outstandingReserved] =
        [i \in U |-> reservation[P][i].outstandingReserved]
  <2>1. \A i \in U : i \in Invoices /\ i \notin S
    BY <1>4 DEF Booked
  <2>2. \A i \in U : reservation'[P][i] = reservation[P][i]
    BY <1>6, <2>1
  <2> QED BY <2>2
<1> QED BY <1>8, <1>9, Zenon DEF Outstanding

LEMMA SnapshotLeaves ==
  ASSUME Balanced, NEW w \in Workers, SnapshotCommits(w), NEW m, m = job[w],
         NEW P, P = m.program
  PROVE  /\ program'[P].treasuryVersion = m.version
         /\ program[P].treasuryVersion <= m.version
         /\ program'[P].positionVerified
         /\ program'[P].limit = m.limit
         /\ TotalReserved(program'[P]) = m.reserved + Outstanding(P, Unacknowledged(P))'
<1> DEFINE drafts == SnapshotDrafts(m, view[w])
           row    == Reconciled(w, m)
<1>1. /\ IInv /\ BookedFinite /\ InTransaction(w) /\ P \in Programs
      /\ m \in Messages /\ m.version \in Nat /\ m.reserved \in Minor
      /\ SnapshotVerdict(m, view[w]) = Accepted
      /\ AdvanceAllowed(w, drafts, TRUE) /\ PersistRow(w, row)
  <2>1. /\ IInv /\ BookedFinite /\ AppliesNew(w) /\ m.kind = "SNAPSHOT"
        /\ SnapshotVerdict(m, view[w]) = Accepted
        /\ AdvanceAllowed(w, drafts, TRUE) /\ PersistRow(w, row)
    BY Zenon DEF Balanced, Holding, SnapshotCommits
  <2>2. InTransaction(w) /\ P \in Programs /\ m \in Messages
    BY <2>1 DEF AppliesNew, InTransaction, IInv, TypeOK, SessionsOK
  <2> HIDE DEF drafts, row
  <2> QED BY <2>1, <2>2, ParsedMessagesFit DEF Minor
<1>2. view[w] = program[P] /\ program[P] \in ProgramRow
  BY <1>1 DEF IInv, TypeOK, TablesOK, LockedViewIsCurrent
<1>3. program[P].treasuryVersion <= m.version
  <2>1. ~(m.version < program[P].treasuryVersion)
    BY <1>1, <1>2, SnapshotIsNewer
  <2> QED BY <1>1, <1>2, <2>1 DEF ProgramRow
<1>4. /\ program'[P].limit = m.limit /\ program'[P].local = TargetLocal(m)
      /\ program'[P].treasury = TargetTreasury(m)
  BY <1>1, SnapshotAdvances
<1>5. program'[P] = row
  BY <1>1 DEF PersistRow, IInv, TypeOK, TablesOK
<1>6. row.treasuryVersion = m.version /\ row.positionVerified
  <2>1. Advanced(w, drafts) \in ProgramRow
    <3>1. \E D : drafts \in Seq(D)
      BY <1>1, SnapshotDraftsTyped
    <3> HIDE DEF drafts
    <3> QED BY <1>1, <3>1, AdvancedRow
  <2>2. \E flag : row = [Advanced(w, drafts) EXCEPT !.treasuryVersion = m.version,
                                                    !.investigationRequired = flag,
                                                    !.positionVerified = TRUE]
    BY Zenon DEF Reconciled
  <2> HIDE DEF row, drafts
  <2> QED BY <2>1, <2>2 DEF ProgramRow
<1>7. Acknowledged(m) \subseteq Booked(P)
  BY DEF Acknowledged, NewlyAcknowledged
<1>8. PICK U : U = Booked(P) \ Acknowledged(m)
  OBVIOUS
<1>9. Outstanding(P, Booked(P)) = Outstanding(P, Acknowledged(m)) + Outstanding(P, U)
  BY <1>1, <1>7, <1>8, OutstandingParts
<1>10. /\ Outstanding(P, Booked(P)) \in Nat /\ Outstanding(P, Acknowledged(m)) \in Nat
       /\ Outstanding(P, U) \in Nat
  BY <1>1, <1>7, <1>8, OutstandingInt
<1>11. Unacknowledged(P)' = U /\ Outstanding(P, U)' = Outstanding(P, U)
  BY <1>1, <1>8, SnapshotAcknowledges
<1>12. Outstanding(P, Unacknowledged(P))' = Outstanding(P, U)
  BY <1>11, Zenon DEF Outstanding
<1>13. m.reserved \in Int
  BY <1>1, StoreAssumption DEF Minor
<1>14. TotalReserved(program'[P]) = m.reserved + Outstanding(P, U)
  BY <1>4, <1>9, <1>10, <1>13 DEF TotalReserved, TargetLocal, TargetTreasury
<1> QED BY <1>3, <1>4, <1>5, <1>6, <1>12, <1>14

(* FR-011a, SC-006: whatever the position had drifted to, an applied       *)
(* snapshot, newer than the last, leaves the program verified, at the      *)
(* limit treasury asserts, and holding treasury's total plus what treasury *)
(* has not acknowledged yet.                                               *)
THEOREM SnapshotsConverge == Spec => SnapshotConverges
<1>1. Balanced /\ [Next]_system =>
        [\A m \in Messages :
           (answer' # None /\ answer'.to = m /\ answer'.kind = "applied" /\ m.kind = "SNAPSHOT") =>
             LET row == program'[m.program]
             IN  /\ row.treasuryVersion = m.version
                 /\ program[m.program].treasuryVersion <= m.version
                 /\ row.positionVerified
                 /\ row.limit = m.limit
                 /\ TotalReserved(row) = m.reserved +
                      Outstanding(m.program, Unacknowledged(m.program))']_system
  <2> SUFFICES ASSUME Balanced, Next, NEW m \in Messages,
                      answer' # None, answer'.to = m, answer'.kind = "applied",
                      m.kind = "SNAPSHOT"
               PROVE  LET row == program'[m.program]
                      IN  /\ row.treasuryVersion = m.version
                          /\ program[m.program].treasuryVersion <= m.version
                          /\ row.positionVerified
                          /\ row.limit = m.limit
                          /\ TotalReserved(row) = m.reserved +
                               Outstanding(m.program, Unacknowledged(m.program))'
    BY Zenon
  <2>1. PICK w \in Workers : SnapshotCommits(w) /\ job[w] = m
    BY AppliedSnapshot DEF Balanced
  <2> QED BY <2>1, SnapshotLeaves
<1> QED BY <1>1, BooksBalance, PTL DEF Spec, SnapshotConverges

-------------------------------------------------------------------------------
(* The schema never refuses what a policy accepts.                         *)

(* Every row of invoice_reservation satisfies the CHECKs of its table.     *)
RowsFit ==
  \A p \in Programs, i \in Invoices :
    reservation[p][i] # None => ReservationRowAllowed(p, reservation[p][i])

LEMMA SameHoldingFits ==
  ASSUME NEW p, NEW old, NEW new, SameHolding(old, new), new # None,
         old # None => ReservationRowAllowed(p, old)
  PROVE  ReservationRowAllowed(p, new)
BY DEF SameHolding, SameTerms, ReservationRowAllowed

LEMMA RowsAlwaysFit == Spec => []RowsFit
<1>1. Init => RowsFit
  BY DEF Init, StoreInit, RowsFit
<1>2. IInv /\ RowsFit /\ [Next]_system => RowsFit'
  <2> SUFFICES ASSUME IInv, RowsFit, [Next]_system PROVE RowsFit'
    OBVIOUS
  <2>1. ASSUME NEW w \in Workers, CommandStep(w) PROVE RowsFit'
    <3>1. PICK delta \in Int, cause \in Causes, row \in ReservationRow :
            CommandCommits(w, delta, cause, row)
      BY <2>1 DEF CommandStep
    <3>2. /\ ReservationRowAllowed(job[w].program, row)
          /\ reservation' = [reservation EXCEPT ![job[w].program][job[w].invoice] = row]
      BY <3>1, Zenon DEF CommandCommits
    <3> QED BY <3>2, Zenon DEF RowsFit, IInv, TypeOK, TablesOK
  <2>2. ASSUME \A p \in Programs, i \in Invoices : SameHolding(reservation[p][i], reservation'[p][i])
        PROVE  RowsFit'
    BY <2>2, SameHoldingFits DEF RowsFit
  <2>3. CASE \E w \in Workers : EventCommits(w)
    BY <2>3 DEF EventCommits, RowsFit
  <2>4. CASE \E w \in Workers : SnapshotCommits(w)
    BY <2>2, <2>4, SnapshotKeepsHoldings
  <2>5. CASE Quiet
    BY <2>2, <2>5 DEF Quiet
  <2> QED BY <2>1, <2>3, <2>4, <2>5, NextCases
<1> QED BY <1>1, <1>2, Invariance, PTL DEF Spec

(* The statements a command runs on the program and its ledger, when it    *)
(* keeps LOCAL in range and raises it only within the limit.               *)
LEMMA LocalDraftAllowed ==
  ASSUME IInv, NEW w \in Workers, InTransaction(w), NEW delta \in Bigint, NEW cause,
         NEW P, P = job[w].program,
         program[P].local + delta \in Minor,
         delta <= 0 \/ program[P].local + delta <= program[P].limit
  PROVE  AdvanceAllowed(w, LocalDraft(w, delta, cause), FALSE)
<1> DEFINE d       == CommandDraft(w, delta, cause)
           drafts  == LocalDraft(w, delta, cause)
           p       == program[P]
           entries == AdvanceEntries(p, drafts)
<1>1. /\ P \in Programs /\ view[w] = p /\ p \in ProgramRow /\ p.nextSequence = Len(ledger[P]) + 1
      /\ ledger[P] \in Seq(EntryRow)
      /\ \A n \in DOMAIN ledger[P] : ledger[P][n].sequence = n
  BY DEF IInv, TypeOK, TablesOK, SessionsOK, LockedViewIsCurrent, LedgerGapless, InTransaction
<1>2. drafts = <<d>> /\ d.delta = delta /\ d.component = "LOCAL"
  BY DEF LocalDraft, CommandDraft
<1>3. delta \in Int /\ 0 \in Bigint
  BY StoreAssumption DEF Bigint
<1> HIDE DEF d, drafts, p
<1>4. /\ drafts \in Seq({d})
      /\ ComponentDelta(drafts, "LOCAL") = delta
      /\ ComponentDelta(drafts, "TREASURY") = 0 /\ ComponentDelta(drafts, "LIMIT") = 0
  BY <1>2, <1>3, OneDraft
<1>5. /\ Advanced(w, drafts).local = p.local + delta
      /\ Advanced(w, drafts).treasury = p.treasury /\ Advanced(w, drafts).limit = p.limit
  <2>1. p.treasury \in Int /\ p.limit \in Int
    BY <1>1, StoreAssumption DEF ProgramRow, Minor
  <2> QED BY <1>1, <1>4, <2>1, RowMoves DEF Advanced
<1>6. ProgramRowAllowed(p, Advanced(w, drafts), FALSE)
  <2>1. /\ p.local \in Minor /\ p.treasury \in Minor /\ p.limit \in Minor /\ Minor \subseteq Int
    BY <1>1, StoreAssumption DEF ProgramRow, Minor
  <2> QED BY <1>3, <1>5, <2>1 DEF ProgramRowAllowed, Minor, p
<1>7. ASSUME NEW k \in DOMAIN entries
      PROVE  entries[k].delta \in Bigint
  <2> DEFINE marks  == MarkEntries(p, drafts)
             booked == drafts \o marks
             kinds  == {MarkEntry("OVER_LIMIT_ONSET", drafts),
                        MarkEntry("OVER_LIMIT_CLEARED", drafts)}
             all    == {d} \cup kinds
  <2>1. \A e \in all : e.delta \in Bigint
    BY <1>2, <1>3 DEF MarkEntry
  <2>2. entries = [j \in 1..Len(booked) |->
                     SequencedEntry(p.nextSequence + j - 1, p.nextSequence, booked[j])]
    BY Zenon DEF AdvanceEntries
  <2>3. marks \in Seq(kinds)
    BY MarkEntriesLength
  <2>4. drafts \in Seq(all) /\ marks \in Seq(all)
    <3> HIDE DEF marks, kinds
    <3> QED BY <1>4, <2>3
  <2> HIDE DEF marks, all, entries
  <2>5. booked \in Seq(all)
    BY <2>4, ConcatProperties
  <2> HIDE DEF booked
  <2>6. k \in 1..Len(booked)
    BY <2>2 DEF entries
  <2>7. booked[k] \in all
    BY <2>5, <2>6, ElementOfSeq
  <2> QED BY <2>1, <2>2, <2>6, <2>7 DEF SequencedEntry
<1>8. ASSUME NEW k \in DOMAIN entries, NEW n \in DOMAIN ledger[P]
      PROVE  entries[k].sequence # ledger[P][n].sequence
  <2>1. p.nextSequence \in Nat
    BY <1>1 DEF ProgramRow
  <2>2. k \in Nat /\ k >= 1 /\ entries[k].sequence = p.nextSequence + k - 1
    <3>1. /\ Len(drafts) \in Nat /\ Len(MarkEntries(p, drafts)) \in Nat
          /\ DOMAIN entries = 1..(Len(drafts) + Len(MarkEntries(p, drafts)))
          /\ entries[k].sequence = p.nextSequence + k - 1
      BY <1>4, <2>1, AdvanceEntriesLength
    <3> HIDE DEF entries
    <3> QED BY <3>1
  <2>3. n \in 1..Len(ledger[P]) /\ Len(ledger[P]) \in Nat
    BY <1>1, LenProperties
  <2> HIDE DEF entries
  <2> QED BY <1>1, <2>1, <2>2, <2>3
<1>9. LedgerRowsAllowed(P, entries)
  BY <1>7, <1>8, Zenon DEF LedgerRowsAllowed
<1> QED BY <1>1, <1>6, <1>9, Zenon DEF AdvanceAllowed, drafts, p

(* A reservation holds no more than LOCAL has.                             *)
LEMMA HoldsAtMostLocal ==
  ASSUME Balanced, NEW p \in Programs, NEW i \in Booked(p)
  PROVE  /\ reservation[p][i].outstandingReserved \in Nat
         /\ reservation[p][i].outstandingReserved <= program[p].local
<1> DEFINE S == Booked(p)
           f == [j \in S |-> reservation[p][j].outstandingReserved]
<1>1. IsFiniteSet(S) /\ \A j \in S : f[j] \in Nat
  BY OutstandingInt DEF Balanced, Holding
<1>2. program[p].local = SumFunctionOnSet(f, S)
  BY Zenon DEF Balanced, LocalIsOutstanding, Outstanding
<1>3. f[i] = reservation[p][i].outstandingReserved /\ i \in S
  OBVIOUS
<1> HIDE DEF f, S
<1> QED BY <1>1, <1>2, <1>3, SumNat

(* What a reserve holds is something, and no more than is available.       *)
LEMMA ReserveFits ==
  ASSUME IInv, NEW w \in Workers, Working(w, "RESERVE"), NEW fx \in FxResolutions(w),
         ReserveRefusal(w, fx) = Accepted,
         NEW n, n = ReservedAmount(job[w].amount, fx), NEW P, P = job[w].program,
         NEW row,
         row = NewReservation(job[w].currency, job[w].amount, fx, view[w].nextSequence)
  PROVE  AdvanceAllowed(w, LocalDraft(w, n, "RESERVATION"), FALSE) /\ ReservationRowAllowed(P, row)
<1>1. PICK amount : amount = job[w].amount
  OBVIOUS
<1>2. /\ pc[w] = "begun" /\ InTransaction(w) /\ job[w] \in Commands /\ P \in Programs
      /\ amount \in 1..MaxMinor
  BY <1>1, CommandsAssumption DEF Working, InTransaction, IInv, TypeOK, SessionsOK
<1>3. view[w] = program[P] /\ program[P] \in ProgramRow
  BY <1>2 DEF IInv, TypeOK, TablesOK, LockedViewIsCurrent
<1>4. /\ fx.kind # "unavailable"
      /\ ~(fx.kind = "rate" /\ RoundsToZero(amount, fx.rate))
      /\ ~(n > Available(program[P]))
  BY <1>1, <1>3, ReserveAccepted
<1>5. /\ fx.rate \in Nat \ {0}
      /\ \/ fx.kind = "sameCurrency" /\ fx.rate = RateScale
         \/ fx.kind = "rate" /\ job[w].currency # ProgramCurrency[P]
  <2>1. fx.rate \in Nat \ {0}
    BY <1>4, FxResolutionRate
  <2> QED BY <1>4, <2>1 DEF FxResolutions, SameCurrency, FxRate, FxUnavailable
<1>6. amount \in Nat /\ amount # 0
  BY <1>2, StoreAssumption
<1>7. n \in Nat /\ n # 0
  <2>1. CASE fx.kind = "sameCurrency"
    BY <1>1, <1>6, <2>1 DEF ReservedAmount
  <2>2. CASE fx.kind = "rate"
    <3>1. n = Convert(amount, fx.rate)
      BY <1>1, <2>2 DEF ReservedAmount
    <3>2. Convert(amount, fx.rate) \in Nat
      BY <1>5, <1>6, ConvertNat
    <3> QED BY <1>4, <1>6, <2>2, <3>1, <3>2 DEF RoundsToZero
  <2> QED BY <1>5, <2>1, <2>2
<1>8. /\ program[P].local \in 0..MaxMinor /\ program[P].treasury \in 0..MaxMinor
      /\ program[P].limit \in 0..MaxMinor /\ MaxMinor \in Nat
  BY <1>3, StoreAssumption DEF ProgramRow, Minor
<1>9. n \in 1..MaxMinor /\ program[P].local + n \in 0..MaxMinor
      /\ program[P].local + n <= program[P].limit
  BY <1>4, <1>7, <1>8 DEF Available, TotalReserved
<1>10. AdvanceAllowed(w, LocalDraft(w, n, "RESERVATION"), FALSE)
  <2>1. n \in Bigint /\ program[P].local + n \in Minor
    BY <1>8, <1>9 DEF Bigint, Minor
  <2> QED BY <1>2, <1>9, <2>1, LocalDraftAllowed
<1>11. /\ row.amount = amount /\ row.reserved = n /\ row.outstandingInvoice = amount
       /\ row.outstandingReserved = n /\ row.currency = job[w].currency /\ row.rate = fx.rate
  BY <1>1 DEF NewReservation
<1>12. row.currency = ProgramCurrency[P] => row.rate = RateScale
  BY <1>5, <1>11
<1>13. {row.amount, row.reserved} \subseteq 1..MaxMinor
  BY <1>2, <1>9, <1>11
<1>14. row.outstandingInvoice \in 0..row.amount /\ row.outstandingReserved \in 0..row.reserved
  BY <1>6, <1>7, <1>11
<1> QED BY <1>10, <1>12, <1>13, <1>14 DEF ReservationRowAllowed

(* A row a settlement finds fits, and holds what LOCAL has.                *)
LEMMA SettledRow ==
  ASSUME Balanced, RowsFit, NEW w \in Workers, pc[w] = "begun", NEW verdict,
         SettlementRefusal(w, verdict) = Accepted, NEW P, P = job[w].program
  PROVE  /\ InTransaction(w) /\ job[w] \in Commands /\ P \in Programs /\ verdict = Accepted
         /\ Row(w) \in ReservationRow /\ ReservationRowAllowed(P, Row(w))
         /\ Row(w).outstandingReserved <= program[P].local
         /\ program[P].local \in Minor
<1>1. IInv
  BY DEF Balanced
<1>2. InTransaction(w) /\ job[w] \in Commands /\ P \in Programs /\ job[w].invoice \in Invoices
  BY <1>1, CommandsAssumption DEF InTransaction, IInv, TypeOK, SessionsOK
<1>3. Row(w) \in ReservationRow /\ verdict = Accepted
  BY <1>1, SettlementRow
<1>4. Row(w) # None
  BY <1>3, NullAssumption
<1>5. job[w].invoice \in Booked(P) /\ Row(w) = reservation[P][job[w].invoice]
  BY <1>2, <1>4 DEF Row, Booked
<1>6. Row(w).outstandingReserved <= program[P].local
  BY <1>2, <1>5, HoldsAtMostLocal
<1>7. ReservationRowAllowed(P, Row(w))
  BY <1>2, <1>4, <1>5 DEF RowsFit
<1>8. program[P].local \in Minor
  BY <1>1, <1>2 DEF IInv, TypeOK, TablesOK, ProgramRow
<1> QED BY <1>2, <1>3, <1>6, <1>7, <1>8

LEMMA ReleaseFits ==
  ASSUME Balanced, RowsFit, NEW w \in Workers, Working(w, "RELEASE"), NEW old, old = Row(w),
         SettlementRefusal(w, ReleaseVerdict(old, job[w].currency, job[w].amount)) = Accepted,
         NEW n, n = ReleaseDelta(old, job[w].amount), NEW P, P = job[w].program,
         NEW row, row = Released(old, job[w].amount)
  PROVE  AdvanceAllowed(w, LocalDraft(w, -n, "RELEASE"), FALSE) /\ ReservationRowAllowed(P, row)
<1>1. PICK amount : amount = job[w].amount
  OBVIOUS
<1>2. /\ IInv /\ InTransaction(w) /\ P \in Programs /\ old \in ReservationRow
      /\ ReservationRowAllowed(P, old) /\ old.outstandingReserved <= program[P].local
      /\ program[P].local \in Minor /\ job[w] \in Commands
      /\ ReleaseVerdict(old, job[w].currency, amount) = Accepted
  BY <1>1, SettledRow DEF Working, Balanced
<1>3. /\ ~(amount <= 0) /\ ~(amount > old.outstandingInvoice)
      /\ ~(n < 0)
  BY <1>1, <1>2, ReleaseAccepted
<1>4. amount \in Nat /\ MaxMinor \in Nat
  BY <1>1, <1>2, CommandsAssumption, StoreAssumption DEF Working
<1>5. /\ old.outstandingInvoice \in Nat /\ old.outstandingInvoice <= old.amount
      /\ old.outstandingReserved \in Nat /\ old.outstandingReserved <= old.reserved
      /\ old.amount \in 1..MaxMinor /\ old.reserved \in 1..MaxMinor /\ old.rate \in Nat
  BY <1>2, <1>4 DEF ReservationRowAllowed, ReservationRow, Minor
<1>6. PICK rest : rest = Remainder(old, amount)
  OBVIOUS
<1>7. rest \in Nat /\ n = old.outstandingReserved - rest
  <2>1. old.outstandingInvoice - amount \in Nat
    BY <1>3, <1>4, <1>5
  <2>2. Convert(old.outstandingInvoice - amount, old.rate) \in Nat
    BY <1>5, <2>1, ConvertNat
  <2> QED BY <1>1, <1>6, <2>2 DEF Remainder, ReleaseDelta
<1>8. rest <= old.outstandingReserved /\ n \in Nat /\ n <= old.outstandingReserved
  BY <1>3, <1>5, <1>7
<1>9. AdvanceAllowed(w, LocalDraft(w, -n, "RELEASE"), FALSE)
  <2>1. program[P].local \in 0..MaxMinor /\ n <= program[P].local
    BY <1>2, <1>5, <1>8 DEF Minor
  <2>2. -n \in Bigint /\ -n <= 0 /\ program[P].local + (-n) \in Minor
    BY <1>4, <1>8, <2>1 DEF Bigint, Minor
  <2> QED BY <1>2, <2>2, LocalDraftAllowed
<1>10. /\ row.amount = old.amount /\ row.reserved = old.reserved
       /\ row.currency = old.currency /\ row.rate = old.rate
       /\ row.outstandingReserved = rest
       /\ row.outstandingInvoice = 0 \/ row.outstandingInvoice = old.outstandingInvoice - amount
  BY <1>1, <1>2, <1>6 DEF Released, ReservationRow
<1>11. row.outstandingInvoice \in 0..row.amount
  BY <1>3, <1>4, <1>5, <1>10
<1>12. row.outstandingReserved \in 0..row.reserved
  BY <1>5, <1>7, <1>8, <1>10
<1> QED BY <1>2, <1>9, <1>10, <1>11, <1>12 DEF ReservationRowAllowed

LEMMA CancelFits ==
  ASSUME Balanced, RowsFit, NEW w \in Workers, pc[w] = "begun", NEW old, old = Row(w),
         SettlementRefusal(w, CancelVerdict(old)) = Accepted,
         NEW n, n = old.outstandingReserved, NEW cause, NEW P, P = job[w].program,
         NEW row, row = Cancelled(old)
  PROVE  AdvanceAllowed(w, LocalDraft(w, -n, cause), FALSE) /\ ReservationRowAllowed(P, row)
<1>1. /\ IInv /\ InTransaction(w) /\ P \in Programs /\ old \in ReservationRow
      /\ ReservationRowAllowed(P, old) /\ n <= program[P].local
      /\ program[P].local \in Minor
  BY SettledRow DEF Balanced
<1>2. MaxMinor \in Nat /\ n \in Nat /\ old.reserved \in 1..MaxMinor
  BY <1>1, StoreAssumption DEF ReservationRowAllowed, ReservationRow, Minor
<1>3. -n \in Bigint /\ -n <= 0 /\ program[P].local + (-n) \in Minor
  BY <1>1, <1>2 DEF Bigint, Minor
<1>4. AdvanceAllowed(w, LocalDraft(w, -n, cause), FALSE)
  BY <1>1, <1>3, LocalDraftAllowed
<1>5. /\ row.amount = old.amount /\ row.reserved = old.reserved
      /\ row.currency = old.currency /\ row.rate = old.rate
      /\ row.outstandingReserved = 0 /\ row.outstandingInvoice = old.outstandingInvoice
  BY <1>1 DEF Cancelled, ReservationRow
<1>6. row.outstandingReserved \in 0..row.reserved
  BY <1>2, <1>5
<1> QED BY <1>1, <1>4, <1>5, <1>6 DEF ReservationRowAllowed

(* The tail of a command whose statements pass does not fail.              *)
LEMMA FittingCommits ==
  ASSUME NEW w, NEW delta, NEW cause, NEW row, CommitCommand(w, delta, cause, row),
         AdvanceAllowed(w, LocalDraft(w, delta, cause), FALSE),
         ReservationRowAllowed(job[w].program, row)
  PROVE  answer'.kind # "failed"
<1>1. \E outcome : answer' = Reply(w, "created", Accepted, outcome)
  BY Zenon DEF CommitCommand, Finish
<1> QED BY <1>1 DEF Reply

LEMMA SettlesWithoutFailure ==
  ASSUME Balanced, RowsFit, NEW w \in Workers, Settles(w)
  PROVE  answer'.kind # "failed"
<1>1. ASSUME NEW code, Refuse(w, code) PROVE answer'.kind # "failed"
  BY <1>1 DEF Refuse, FinishUnchanged, Finish, Reply
<1>2. CASE Replay(w)
  <2>1. \E kind \in {"replayed", "refused"} : \E code, outcome : answer' = Reply(w, kind, code, outcome)
    BY <1>2, Zenon DEF Replay, FinishUnchanged, Finish
  <2> QED BY <2>1 DEF Reply
<1>3. CASE Reserve(w)
  <2>1. PICK fx \in FxResolutions(w) :
          IF ReserveRefusal(w, fx) # Accepted
          THEN Refuse(w, ReserveRefusal(w, fx))
          ELSE CommitCommand(w, ReservedAmount(job[w].amount, fx), "RESERVATION",
                 NewReservation(job[w].currency, job[w].amount, fx, view[w].nextSequence))
    BY <1>3 DEF Reserve
  <2>2. Working(w, "RESERVE") /\ IInv
    BY <1>3 DEF Reserve, Balanced
  <2>3. CASE ReserveRefusal(w, fx) = Accepted
    BY <2>1, <2>2, <2>3, ReserveFits, FittingCommits
  <2> QED BY <1>1, <2>1, <2>3
<1>4. CASE Release(w)
  <2>1. PICK old, refusal : /\ old = Row(w)
                            /\ refusal = SettlementRefusal(w, ReleaseVerdict(old, job[w].currency,
                                                                             job[w].amount))
    OBVIOUS
  <2>2. /\ Working(w, "RELEASE")
        /\ IF refusal # Accepted THEN Refuse(w, refusal)
           ELSE CommitCommand(w, -ReleaseDelta(old, job[w].amount), "RELEASE",
                              Released(old, job[w].amount))
    BY <1>4, <2>1, Zenon DEF Release
  <2>3. CASE refusal = Accepted
    BY <2>1, <2>2, <2>3, ReleaseFits, FittingCommits
  <2> QED BY <1>1, <2>2, <2>3
<1>5. CASE Cancel(w)
  <2>1. PICK old, refusal : old = Row(w) /\ refusal = SettlementRefusal(w, CancelVerdict(old))
    OBVIOUS
  <2>2. /\ pc[w] = "begun"
        /\ IF refusal # Accepted THEN Refuse(w, refusal)
           ELSE CommitCommand(w, -old.outstandingReserved, CancelCause(old), Cancelled(old))
    BY <1>5, <2>1, Zenon DEF Cancel, Working
  <2>3. CASE refusal = Accepted
    <3>1. PICK n, cause, row : n = old.outstandingReserved /\ cause = CancelCause(old)
                               /\ row = Cancelled(old)
      OBVIOUS
    <3>2. /\ AdvanceAllowed(w, LocalDraft(w, -n, cause), FALSE)
          /\ ReservationRowAllowed(job[w].program, row)
      BY <2>1, <2>2, <2>3, <3>1, CancelFits
    <3> QED BY <2>2, <2>3, <3>1, <3>2, FittingCommits
  <2> QED BY <1>1, <2>2, <2>3
<1> QED BY <1>2, <1>3, <1>4, <1>5 DEF Settles

(* The policies and the lock refuse whatever a CHECK, a trigger, a UNIQUE  *)
(* index or the width of a column would: no command is ever failed by the  *)
(* schema.                                                                 *)
THEOREM BackstopIsNeverNeeded == Spec => []BackstopNeverTrips
<1>1. Init => BackstopNeverTrips
  BY DEF Init, StoreInit, BackstopNeverTrips
<1>2. Balanced /\ RowsFit /\ BackstopNeverTrips /\ [Next]_system => BackstopNeverTrips'
  <2> SUFFICES ASSUME Balanced, RowsFit, BackstopNeverTrips, [Next]_system
               PROVE  BackstopNeverTrips'
    OBVIOUS
  <2>1. CASE UNCHANGED system
    BY <2>1 DEF system, vars, BackstopNeverTrips
  <2>2. CASE \E w \in Workers : Settles(w)
    BY <2>2, SettlesWithoutFailure DEF BackstopNeverTrips
  <2>3. CASE Next /\ \A w \in Workers : ~Settles(w)
    BY <2>3, OthersSilent, JobsAssumption DEF Silent, BackstopNeverTrips
  <2> QED BY <2>1, <2>2, <2>3
<1> QED BY <1>1, <1>2, BooksBalance, RowsAlwaysFit, PTL DEF Spec

-------------------------------------------------------------------------------
(* Those who read without a lock (AuditReads).                             *)

(* A step that leaves the row of a program where it was in its ledger      *)
(* leaves its amounts alone: nothing moves a position without an entry.    *)
AtLeast(old, new) ==
  /\ old.nextSequence \in Nat /\ new.nextSequence \in Nat
  /\ old.nextSequence <= new.nextSequence
  /\ old.nextSequence = new.nextSequence =>
       /\ new.local = old.local /\ new.treasury = old.treasury /\ new.limit = old.limit

(* A transaction that books nothing moves nothing.                         *)
LEMMA AdvancesLeaveATrace ==
  ASSUME IInv, IInv', NEW P, NEW drafts, Advances(P, drafts), NEW p \in Programs
  PROVE  AtLeast(program[p], program'[p])
<1>1. /\ program[p] \in ProgramRow /\ program'[p] \in ProgramRow
      /\ program[p].nextSequence = Len(ledger[p]) + 1
      /\ program'[p].nextSequence = Len(ledger'[p]) + 1
  BY DEF IInv, TypeOK, TablesOK, LedgerGapless
<1>2. CASE p # P
  <2>1. program'[p] = program[p]
    BY <1>2 DEF Advances
  <2> QED BY <1>1, <2>1 DEF AtLeast, ProgramRow
<1>3. CASE p = P
  <2> DEFINE M == Len(MarkEntries(program[P], drafts))
  <2>1. /\ Len(ledger[P]) \in Nat /\ Len(drafts) \in Nat /\ M \in Nat
        /\ DOMAIN drafts = 1..Len(drafts)
        /\ Len(ledger'[P]) = Len(ledger[P]) + Len(drafts) + M
    BY Zenon DEF Advances, Grows
  <2> HIDE DEF M
  <2>2. /\ program[p].nextSequence \in Nat /\ program'[p].nextSequence \in Nat
        /\ program'[p].nextSequence = program[p].nextSequence + Len(drafts) + M
    BY <1>1, <1>3, <2>1
  <2>3. ASSUME Len(drafts) = 0
        PROVE  /\ program'[p].local = program[p].local
               /\ program'[p].treasury = program[p].treasury
               /\ program'[p].limit = program[p].limit
    <3>1. DOMAIN drafts = {}
      BY <2>1, <2>3
    <3>2. \A component : ComponentDelta(drafts, component) = 0
      BY <3>1 DEF ComponentDelta, DraftDelta
    <3>3. program[p].local \in Int /\ program[p].treasury \in Int /\ program[p].limit \in Int
      BY <1>1, StoreAssumption DEF ProgramRow, Minor
    <3>4. /\ program'[p].local = program[p].local + ComponentDelta(drafts, "LOCAL")
          /\ program'[p].treasury = program[p].treasury + ComponentDelta(drafts, "TREASURY")
          /\ program'[p].limit = program[p].limit + ComponentDelta(drafts, "LIMIT")
      BY <1>3, Zenon DEF Advances
    <3> QED BY <3>2, <3>3, <3>4
  <2> QED BY <2>1, <2>2, <2>3 DEF AtLeast
<1> QED BY <1>2, <1>3

(* And so does every step of the system.                                   *)
LEMMA PositionsLeaveATrace ==
  ASSUME Balanced, [Next]_system, NEW p \in Programs
  PROVE  AtLeast(program[p], program'[p])
<1>1. IInv /\ IInv' /\ BookedFinite
  BY NextKeeps DEF Balanced, Holding
<1>2. CASE Quiet
  <2>1. SamePosition(program[p], program'[p])
    BY <1>2 DEF Quiet
  <2>2. program[p] \in ProgramRow
    BY <1>1 DEF IInv, TypeOK, TablesOK
  <2> QED BY <2>1, <2>2 DEF SamePosition, AtLeast, ProgramRow
<1>3. ASSUME NEW w \in Workers, CommandStep(w) PROVE AtLeast(program[p], program'[p])
  <2>1. PICK delta \in Int, cause \in Causes, row \in ReservationRow :
          CommandCommits(w, delta, cause, row)
    BY <1>3 DEF CommandStep
  <2>2. Advances(job[w].program, LocalDraft(w, delta, cause))
    BY <1>1, <2>1, CommandAdvances
  <2> QED BY <1>1, <2>2, AdvancesLeaveATrace
<1>4. ASSUME NEW w \in Workers, EventCommits(w) PROVE AtLeast(program[p], program'[p])
  BY <1>1, <1>4, EventAdvances, AdvancesLeaveATrace
<1>5. ASSUME NEW w \in Workers, SnapshotCommits(w) PROVE AtLeast(program[p], program'[p])
  <2>1. Advances(job[w].program, SnapshotDrafts(job[w], view[w]))
    BY <1>1, <1>5, SnapshotAdvances
  <2> QED BY <1>1, <2>1, AdvancesLeaveATrace
<1> QED BY <1>1, <1>2, <1>3, <1>4, <1>5, NextCases

(* What the check counts as active are the live reservations.              *)
LEMMA NothingIsMismatched == Balanced => Mismatched = {}
<1> SUFFICES ASSUME Balanced, NEW p \in Programs
             PROVE  program[p].local = Outstanding(p, Active(p))
  BY DEF Mismatched
<1>1. program[p].local = Outstanding(p, Live(p))
  BY LiveHoldAll DEF LocalIsLiveOutstanding
<1>2. Active(p) = Live(p)
  BY DEF Active, Live
<1> QED BY <1>1, <1>2, Zenon

(* A reader changes nothing; neither does the check, which finds nothing.  *)
LEMMA ReadsAreSteps ==
  ASSUME Balanced, mismatched = {}, [ReadsNext]_observed
  PROVE  [Next]_system /\ mismatched' = {}
<1>1. CASE UNCHANGED observed
  BY <1>1 DEF observed, reads
<1>2. CASE Read /\ UNCHANGED <<system, mismatched, createdAt>>
  BY <1>2
<1>3. CASE Write /\ UNCHANGED <<flagging, reads>>
  <2>1. Serve
    BY <1>3, Zenon DEF Write, Serve
  <2> QED BY <1>3, <2>1 DEF Next, reads
<1>4. CASE /\ ReconciliationCheck
           /\ UNCHANGED <<reservation, ledger, request, processed, streamPosition, sessions,
                          flagging>>
  <2>1. mismatched' = Mismatched /\ UNCHANGED program
    BY <1>4, Zenon DEF ReconciliationCheck
  <2>2. UNCHANGED system
    BY <1>4, <2>1 DEF system, vars, tables, sessions
  <2> QED BY <2>1, <2>2, NothingIsMismatched
<1> QED BY <1>1, <1>2, <1>3, <1>4, Zenon DEF ReadsNext

(* The inductive invariant of the readers: what an audit has read of a     *)
(* program it holds until the program books again.                         *)
AuditIsFair ==
  reader # None =>
    /\ "kind" \in DOMAIN reader
    /\ reader.kind = "audit" =>
         /\ reader = [kind |-> "audit", rows |-> reader.rows, pending |-> reader.pending,
                      blamed |-> reader.blamed]
         /\ reader.pending \subseteq Programs
         /\ \A p \in Programs : AtLeast(reader.rows[p], program[p])
         /\ reader.blamed # None =>
              /\ reader.blamed \in Programs
              /\ reader.rows[reader.blamed].nextSequence < program[reader.blamed].nextSequence

(* While an audit rests, programs only move on.                            *)
LEMMA AuditStaysFair ==
  ASSUME AuditIsFair, UNCHANGED reader, \A p \in Programs : AtLeast(program[p], program'[p])
  PROVE  AuditIsFair'
<1> SUFFICES ASSUME reader # None, reader.kind = "audit"
             PROVE  /\ \A p \in Programs : AtLeast(reader.rows[p], program'[p])
                    /\ reader.blamed # None =>
                         reader.rows[reader.blamed].nextSequence < program'[reader.blamed].nextSequence
  BY DEF AuditIsFair
<1>1. \A p \in Programs : AtLeast(reader.rows[p], program[p])
  BY DEF AuditIsFair
<1>2. \A p \in Programs : AtLeast(reader.rows[p], program'[p])
  BY <1>1 DEF AtLeast
<1>3. ASSUME reader.blamed # None
      PROVE  reader.rows[reader.blamed].nextSequence < program'[reader.blamed].nextSequence
  <2>1. /\ reader.blamed \in Programs
        /\ reader.rows[reader.blamed].nextSequence < program[reader.blamed].nextSequence
    BY <1>3 DEF AuditIsFair
  <2>2. /\ AtLeast(reader.rows[reader.blamed], program[reader.blamed])
        /\ AtLeast(program[reader.blamed], program'[reader.blamed])
    BY <1>1, <2>1
  <2> QED BY <2>1, <2>2 DEF AtLeast
<1> QED BY <1>2, <1>3

(* An audit finds what the ledger explains, unless the program has booked  *)
(* since its rows were read.                                               *)
LEMMA AuditProgramFair ==
  ASSUME Balanced, AuditIsFair, NEW p \in Programs, AuditProgram(p), UNCHANGED program
  PROVE  AuditIsFair'
<1> DEFINE row == reader.rows[p]
           matches == /\ ComponentSum(p, "LOCAL") = row.local
                      /\ ComponentSum(p, "TREASURY") = row.treasury
                      /\ ComponentSum(p, "LIMIT") = row.limit
<1>1. /\ reader # None /\ reader.kind = "audit" /\ p \in reader.pending
      /\ reader' = IF matches THEN [reader EXCEPT !.pending = @ \ {p}]
                   ELSE [reader EXCEPT !.pending = {}, !.blamed = p]
  BY Zenon DEF AuditProgram, IsList
<1>2. /\ reader = [kind |-> "audit", rows |-> reader.rows, pending |-> reader.pending,
                   blamed |-> reader.blamed]
      /\ reader.pending \subseteq Programs
      /\ \A q \in Programs : AtLeast(reader.rows[q], program[q])
      /\ reader.blamed # None =>
           /\ reader.blamed \in Programs
           /\ reader.rows[reader.blamed].nextSequence < program[reader.blamed].nextSequence
  BY <1>1, Zenon DEF AuditIsFair
<1>3. /\ ComponentSum(p, "LOCAL") = program[p].local
      /\ ComponentSum(p, "TREASURY") = program[p].treasury
      /\ ComponentSum(p, "LIMIT") = program[p].limit
  BY DEF Balanced, LedgerExplainsPosition, ComponentSum
<1> HIDE DEF matches
<1>4. CASE matches
  <2>1. reader' = [reader EXCEPT !.pending = reader.pending \ {p}]
    BY <1>1, <1>4
  <2>2. reader' = [kind |-> "audit", rows |-> reader.rows, pending |-> reader.pending \ {p},
                   blamed |-> reader.blamed]
    BY <1>2, <2>1
  <2> QED BY <1>2, <2>2 DEF AuditIsFair
<1>5. CASE ~matches
  <2>1. reader' = [reader EXCEPT !.pending = {}, !.blamed = p]
    BY <1>1, <1>5
  <2>2. reader' = [kind |-> "audit", rows |-> reader.rows, pending |-> {}, blamed |-> p]
    <3>1. PICK rows, pending, blamed :
            /\ rows = reader.rows
            /\ reader = [kind |-> "audit", rows |-> rows, pending |-> pending, blamed |-> blamed]
      BY <1>2
    <3>2. reader' = [[kind |-> "audit", rows |-> rows, pending |-> pending, blamed |-> blamed]
                       EXCEPT !.pending = {}, !.blamed = p]
      BY <2>1, <3>1
    <3> QED BY <3>1, <3>2
  <2>3. row.nextSequence < program[p].nextSequence
    BY <1>2, <1>3, <1>5 DEF AtLeast, matches
  <2> QED BY <1>2, <2>2, <2>3 DEF AuditIsFair
<1> QED BY <1>4, <1>5

(* A list is no audit.                                                     *)
LEMMA TurnsAreFair ==
  ASSUME NEW list, NEW page, "kind" \in DOMAIN list, list.kind # "audit",
         reader' = Turn(list, page)
  PROVE  AuditIsFair'
<1>1. "kind" \in DOMAIN reader' /\ reader'.kind = list.kind
  BY DEF Turn
<1> QED BY <1>1 DEF AuditIsFair

(* Whoever reads, the audit stays fair.                                    *)
LEMMA ReadIsFair ==
  ASSUME Balanced, AuditIsFair, Read, UNCHANGED program
  PROVE  AuditIsFair'
<1>1. ASSUME NEW p, NEW status, NEW limit, ListReservations(p, status, limit)
      PROVE  AuditIsFair'
  <2> DEFINE list == [kind |-> "reservations", program |-> p, filter |-> status,
                      cursor |-> None, shown |-> <<>>, newest |-> Len(ledger[p])]
  <2>1. reader' = Turn(list, ReservationPage(list, limit))
    BY <1>1, Zenon DEF ListReservations
  <2>2. "kind" \in DOMAIN list /\ list.kind # "audit"
    OBVIOUS
  <2> HIDE DEF list
  <2> QED BY <2>1, <2>2, TurnsAreFair
<1>2. ASSUME NEW p, NEW query, NEW limit, ListLedger(p, query, limit)
      PROVE  AuditIsFair'
  <2> DEFINE list == [kind |-> "ledger", program |-> p, filter |-> query,
                      cursor |-> None, shown |-> <<>>, newest |-> Len(ledger[p])]
  <2>1. reader' = Turn(list, LedgerPage(list, limit))
    BY <1>2, Zenon DEF ListLedger
  <2>2. "kind" \in DOMAIN list /\ list.kind # "audit"
    OBVIOUS
  <2> HIDE DEF list
  <2> QED BY <2>1, <2>2, TurnsAreFair
<1>3. ASSUME NEW limit, NextReservations(limit) \/ NextLedger(limit)
      PROVE  AuditIsFair'
  <2>1. "kind" \in DOMAIN reader /\ reader.kind # "audit"
    BY <1>3 DEF NextReservations, NextLedger, IsList, AuditIsFair
  <2>2. CASE NextReservations(limit)
    BY <2>1, <2>2, TurnsAreFair DEF NextReservations
  <2>3. CASE NextLedger(limit)
    BY <2>1, <2>3, TurnsAreFair DEF NextLedger
  <2> QED BY <1>3, <2>2, <2>3
<1>4. CASE AuditRows
  <2>1. reader' = [kind |-> "audit", rows |-> program, pending |-> Programs, blamed |-> None]
    BY <1>4 DEF AuditRows
  <2>2. ASSUME NEW p \in Programs PROVE AtLeast(program[p], program'[p])
    BY DEF AtLeast, Balanced, IInv, TypeOK, TablesOK, ProgramRow
  <2> QED BY <2>1, <2>2 DEF AuditIsFair
<1>5. ASSUME NEW p \in Programs, AuditProgram(p)
      PROVE  AuditIsFair'
  BY <1>5, AuditProgramFair
<1> QED BY <1>1, <1>2, <1>3, <1>4, <1>5, Zenon DEF Read

ReadsIInv == Balanced /\ mismatched = {} /\ AuditIsFair

(* Writers keep the books, readers and the check change nothing.           *)
LEMMA ReadsNextKeeps == ReadsIInv /\ [ReadsNext]_observed => ReadsIInv'
<1> SUFFICES ASSUME ReadsIInv, [ReadsNext]_observed PROVE ReadsIInv'
  OBVIOUS
<1>1. Balanced /\ mismatched = {} /\ AuditIsFair
  BY DEF ReadsIInv
<1>2. [Next]_system /\ mismatched' = {}
  BY <1>1, ReadsAreSteps
<1>3. Balanced'
  BY <1>1, <1>2, NextBalances
<1>4. \A p \in Programs : AtLeast(program[p], program'[p])
  BY <1>1, <1>2, PositionsLeaveATrace
<1>5. ASSUME UNCHANGED reader PROVE AuditIsFair'
  BY <1>1, <1>4, <1>5, AuditStaysFair
<1>6. ASSUME Read, UNCHANGED system PROVE AuditIsFair'
  <2>1. UNCHANGED program
    BY <1>6 DEF system, vars, tables
  <2> QED BY <1>1, <1>6, <2>1, ReadIsFair
<1>7. UNCHANGED reader \/ (Read /\ UNCHANGED system)
  BY Zenon DEF ReadsNext, observed, reads
<1> QED BY <1>2, <1>3, <1>5, <1>6, <1>7 DEF ReadsIInv

(* Nobody reads yet.                                                       *)
LEMMA ReadsInitKeeps == ReadsInit => ReadsIInv
BY SeedBalances DEF ReadsInit, ReadsIInv, AuditIsFair

(* Beside lists, audits and checks of any number the books balance.        *)
THEOREM ReadsInvariance == ReadsSpec => []ReadsIInv
BY ReadsInitKeeps, ReadsNextKeeps, PTL DEF ReadsSpec

(* Lists, audits and the reconciliation check disturb nothing: with them,  *)
(* the service does what it does without.                                  *)
THEOREM ReadersDisturbNothing == ReadsSpec => Spec
<1>1. ReadsInit => Init
  BY DEF ReadsInit
<1>2. ReadsIInv /\ [ReadsNext]_observed => [Next]_system
  BY ReadsAreSteps DEF ReadsIInv
<1> QED BY <1>1, <1>2, ReadsInvariance, PTL DEF ReadsSpec, Spec

(* FR-019b: whatever is reserved, released and cancelled beside it, the    *)
(* reconciliation check never finds a difference.                          *)
THEOREM CheckFindsNothing == ReadsSpec => []ReconciliationFindsNothing
<1>1. ReadsIInv => ReconciliationFindsNothing
  BY DEF ReadsIInv, ReconciliationFindsNothing
<1> QED BY <1>1, ReadsInvariance, PTL

(* FR-019a: an audit that reads rows and ledgers at different moments only *)
(* ever blames a program that has booked in between.                       *)
THEOREM AuditIsJust == ReadsSpec => []AuditBlamesOnlyTheMoving
<1>1. ReadsIInv => AuditBlamesOnlyTheMoving
  BY DEF ReadsIInv, AuditIsFair, AuditBlamesOnlyTheMoving, IsList
<1> QED BY <1>1, ReadsInvariance, PTL

-------------------------------------------------------------------------------
(* Pages are in order (InOrder).                                           *)

(* before is a strict total order of S.                                    *)
IsOrder(S, before) ==
  /\ \A x \in S : before[x] \subseteq S /\ x \notin before[x]
  /\ \A x, y \in S : x \in before[y] => before[x] \subseteq before[y]
  /\ \A x, y \in S : x = y \/ x \in before[y] \/ y \in before[x]

(* rows has the members of S in that order.                                *)
Lists(rows, S, before) ==
  /\ rows \in Seq(S)
  /\ \A x \in S : \E k \in 1..Len(rows) : rows[k] = x
  /\ \A j, k \in 1..Len(rows) : rows[j] \in before[rows[k]] <=> j < k

(* As many members come before one as its place says.                      *)
LEMMA PlaceIsRank ==
  ASSUME NEW S, NEW before, IsOrder(S, before), NEW rows, Lists(rows, S, before),
         NEW k \in 1..Len(rows)
  PROVE  Cardinality(before[rows[k]]) = k - 1
<1>1. /\ rows \in [1..Len(rows) -> S] /\ Len(rows) \in Nat
      /\ \A x \in S : \E j \in 1..Len(rows) : rows[j] = x
      /\ \A i, j \in 1..Len(rows) : rows[i] \in before[rows[j]] <=> i < j
  BY LenProperties DEF Lists
<1>2. PICK n \in Nat : n = Len(rows)
  BY <1>1
<1>3. \A x \in S : before[x] \subseteq S /\ x \notin before[x]
  BY DEF IsOrder
<1> DEFINE first == [j \in 1..(k - 1) |-> rows[j]]
<1>4. \A i, j \in 1..n : rows[i] = rows[j] => i = j
  BY <1>1, <1>2, <1>3
<1>5. first \in Bijection(1..(k - 1), before[rows[k]])
  <2>1. first \in [1..(k - 1) -> before[rows[k]]]
    BY <1>1, <1>2
  <2>2. \A i, j \in 1..(k - 1) : first[i] = first[j] => i = j
    BY <1>2, <1>4
  <2>3. ASSUME NEW x \in before[rows[k]] PROVE \E j \in 1..(k - 1) : first[j] = x
    <3>1. PICK j \in 1..n : rows[j] = x
      BY <1>1, <1>2, <1>3
    <3>2. j < k
      BY <1>1, <1>2, <2>3, <3>1
    <3> QED BY <1>2, <3>1, <3>2
  <2> HIDE DEF first
  <2>4. first \in Injection(1..(k - 1), before[rows[k]])
    BY <2>1, <2>2 DEF Injection, IsInjective
  <2>5. first \in Surjection(1..(k - 1), before[rows[k]])
    BY <2>1, <2>3 DEF Surjection
  <2> QED BY <2>4, <2>5 DEF Bijection
<1>6. IsFiniteSet(1..(k - 1)) /\ Cardinality(1..(k - 1)) = k - 1
  <2>1. k - 1 \in Int /\ 1 \in Int /\ k >= 1
    BY <1>2
  <2>2. Cardinality(1..(k - 1)) = IF 1 > k - 1 THEN 0 ELSE (k - 1) - 1 + 1
    BY <2>1, FS_Interval
  <2> QED BY <2>1, <2>2, FS_Interval
<1>7. ExistsBijection(1..(k - 1), before[rows[k]])
  BY <1>5 DEF ExistsBijection
<1> QED BY <1>6, <1>7, FS_Bijection

(* So there is one list of a set in an order, and it is InOrder.           *)
LEMMA ListIsInOrder ==
  ASSUME NEW S, NEW before, IsOrder(S, before), NEW rows, Lists(rows, S, before)
  PROVE  InOrder(S, before) = rows
<1>1. /\ rows \in [1..Len(rows) -> S] /\ Len(rows) \in Nat
      /\ \A x \in S : \E j \in 1..Len(rows) : rows[j] = x
      /\ \A i, j \in 1..Len(rows) : rows[i] \in before[rows[j]] <=> i < j
  BY LenProperties DEF Lists
<1>2. PICK n \in Nat : n = Len(rows)
  BY <1>1
<1>3. \A k \in 1..n : Cardinality(before[rows[k]]) = k - 1
  BY <1>2, PlaceIsRank
<1>4. Cardinality(S) = n
  <2>1. \A x \in S : x \notin before[x]
    BY DEF IsOrder
  <2>2. \A i, j \in 1..n : rows[i] = rows[j] => i = j
    BY <1>1, <1>2, <2>1
  <2>3. rows \in Bijection(1..n, S)
    BY <1>1, <1>2, <2>2 DEF Bijection, Injection, Surjection, IsInjective
  <2>4. ExistsBijection(1..n, S)
    BY <2>3 DEF ExistsBijection
  <2>5. IsFiniteSet(1..n) /\ Cardinality(1..n) = n
    BY FS_Interval
  <2> QED BY <2>4, <2>5, FS_Bijection
<1>5. ASSUME NEW k \in 1..n
      PROVE  (CHOOSE x \in S : Cardinality(before[x]) = k - 1) = rows[k]
  <2>1. rows[k] \in S /\ Cardinality(before[rows[k]]) = k - 1
    BY <1>1, <1>2, <1>3
  <2>2. ASSUME NEW x \in S, Cardinality(before[x]) = k - 1 PROVE x = rows[k]
    <3>1. PICK j \in 1..n : rows[j] = x
      BY <1>1, <1>2
    <3>2. j - 1 = k - 1
      BY <1>3, <2>2, <3>1
    <3> QED BY <3>1, <3>2
  <2> QED BY <2>1, <2>2
<1>6. InOrder(S, before) = [k \in 1..n |-> rows[k]]
  BY <1>4, <1>5 DEF InOrder
<1> QED BY <1>1, <1>2, <1>6

(* Every finite set has such a list.                                       *)
LEMMA InOrderLists ==
  ASSUME NEW S, IsFiniteSet(S), NEW before, IsOrder(S, before)
  PROVE  Lists(InOrder(S, before), S, before)
<1> DEFINE rank == [x \in S |-> Cardinality(before[x]) + 1]
<1>1. PICK n \in Nat : n = Cardinality(S)
  BY FS_CardinalityType
<1>2. /\ \A x \in S : before[x] \subseteq S /\ x \notin before[x]
      /\ \A x, y \in S : x \in before[y] => before[x] \subseteq before[y]
      /\ \A x, y \in S : x = y \/ x \in before[y] \/ y \in before[x]
  BY DEF IsOrder
<1>3. ASSUME NEW x \in S
      PROVE  /\ IsFiniteSet(before[x]) /\ Cardinality(before[x]) \in Nat
             /\ Cardinality(before[x]) < n
  <2>1. before[x] \in SUBSET S /\ before[x] # S
    BY <1>2
  <2>2. IsFiniteSet(before[x]) /\ Cardinality(before[x]) <= n /\ Cardinality(before[x]) # n
    BY <1>1, <2>1, FS_Subset
  <2>3. Cardinality(before[x]) \in Nat
    BY <2>2, FS_CardinalityType
  <2> QED BY <2>2, <2>3
<1>4. ASSUME NEW x \in S, NEW y \in S, x \in before[y]
      PROVE  Cardinality(before[x]) < Cardinality(before[y])
  <2>1. before[x] \in SUBSET before[y] /\ before[x] # before[y]
    BY <1>2, <1>4
  <2>2. PICK Y : Y = before[y]
    OBVIOUS
  <2>3. PICK X : X = before[x]
    OBVIOUS
  <2>4. IsFiniteSet(Y) /\ X \in SUBSET Y /\ X # Y
    BY <1>3, <2>1, <2>2, <2>3
  <2>5. Cardinality(X) <= Cardinality(Y) /\ Cardinality(Y) # Cardinality(X)
    BY <2>4, FS_Subset
  <2> QED BY <1>3, <2>2, <2>3, <2>5
<1>5. \A x, y \in S : x \in before[y] <=> Cardinality(before[x]) < Cardinality(before[y])
  <2> SUFFICES ASSUME NEW x \in S, NEW y \in S,
                      Cardinality(before[x]) < Cardinality(before[y])
               PROVE  x \in before[y]
    BY <1>4
  <2>1. y \notin before[x]
    BY <1>3, <1>4
  <2>2. x # y
    BY <1>3
  <2> QED BY <1>2, <2>1, <2>2
<1>6. \A x, y \in S : rank[x] = rank[y] => x = y
  <2> SUFFICES ASSUME NEW x \in S, NEW y \in S, rank[x] = rank[y] PROVE x = y
    OBVIOUS
  <2>1. Cardinality(before[x]) = Cardinality(before[y])
    BY <1>3
  <2> QED BY <1>2, <1>3, <1>5, <2>1
<1>7. rank \in [S -> 1..n]
  BY <1>3
<1>8. rank \in Surjection(S, 1..n)
  <2> HIDE DEF rank
  <2>1. rank \in Injection(S, 1..n)
    BY <1>6, <1>7 DEF Injection, IsInjective
  <2>2. IsFiniteSet(1..n) /\ Cardinality(1..n) = n
    BY FS_Interval
  <2> QED BY <1>1, <2>1, <2>2, FS_Injection
<1> DEFINE rows == InOrder(S, before)
<1>9. ASSUME NEW k \in 1..n
      PROVE  rows[k] \in S /\ Cardinality(before[rows[k]]) = k - 1
  <2>1. PICK x \in S : rank[x] = k
    BY <1>8 DEF Surjection
  <2>2. Cardinality(before[x]) = k - 1
    BY <1>3, <2>1
  <2>3. rows[k] = CHOOSE y \in S : Cardinality(before[y]) = k - 1
    BY <1>1 DEF InOrder
  <2> QED BY <2>2, <2>3
<1>10. rows \in [1..n -> S]
  <2>1. rows = [k \in 1..n |-> rows[k]]
    BY <1>1 DEF InOrder
  <2> HIDE DEF rows
  <2> QED BY <1>9, <2>1
<1> HIDE DEF rows
<1>11. rows \in Seq(S) /\ Len(rows) = n
  BY <1>10
<1>12. ASSUME NEW x \in S PROVE \E k \in 1..n : rows[k] = x
  <2>1. rank[x] \in 1..n /\ Cardinality(before[x]) = rank[x] - 1
    BY <1>3, <1>7
  <2>2. PICK k \in 1..n : k = rank[x]
    BY <2>1
  <2>3. rows[k] \in S /\ Cardinality(before[rows[k]]) = k - 1
    BY <1>9
  <2>4. rank[rows[k]] = rank[x]
    BY <2>2, <2>3
  <2> QED BY <1>6, <2>3, <2>4
<1>13. \A j, k \in 1..n : rows[j] \in before[rows[k]] <=> j < k
  BY <1>5, <1>9
<1> QED BY <1>11, <1>12, <1>13 DEF Lists, rows

(* What comes after one of a list is the rest of the list.                 *)
LEMMA RestIsListed ==
  ASSUME NEW S, NEW before, IsOrder(S, before), NEW rows, Lists(rows, S, before),
         NEW m \in 0..Len(rows), NEW T,
         T = {y \in S : m = 0 \/ rows[m] \in before[y]},
         NEW after, \A y \in T : after[y] = {x \in T : x \in before[y]}
  PROVE  IsOrder(T, after) /\ Lists(SubSeq(rows, m + 1, Len(rows)), T, after)
<1>1. /\ rows \in Seq(S) /\ rows \in [1..Len(rows) -> S] /\ Len(rows) \in Nat
      /\ \A x \in S : \E j \in 1..Len(rows) : rows[j] = x
      /\ \A i, j \in 1..Len(rows) : rows[i] \in before[rows[j]] <=> i < j
  BY LenProperties DEF Lists
<1>2. /\ \A x \in S : before[x] \subseteq S /\ x \notin before[x]
      /\ \A x, y \in S : x \in before[y] => before[x] \subseteq before[y]
      /\ \A x, y \in S : x = y \/ x \in before[y] \/ y \in before[x]
  BY DEF IsOrder
<1>3. IsOrder(T, after)
  BY <1>2 DEF IsOrder
<1>4. PICK n \in Nat : n = Len(rows)
  BY <1>1
<1>5. \A k \in 1..n : rows[k] \in T <=> k > m
  BY <1>1, <1>4
<1> DEFINE rest == SubSeq(rows, m + 1, Len(rows))
<1>6. /\ rest \in Seq(T) /\ Len(rest) = n - m
      /\ \A k \in 1..(n - m) : rest[k] = rows[m + k]
  <2>1. m + 1 \in Int /\ n \in Int /\ m <= n /\ m \in Nat
    BY <1>4
  <2>2. \A k \in (m + 1)..n : rows[k] \in T
    BY <1>5, <2>1
  <2>3. /\ SubSeq(rows, m + 1, n) \in Seq(T)
        /\ Len(SubSeq(rows, m + 1, n)) = IF m + 1 <= n THEN n - (m + 1) + 1 ELSE 0
        /\ \A k \in 1..(n - (m + 1) + 1) : SubSeq(rows, m + 1, n)[k] = rows[(m + 1) + k - 1]
    BY <2>1, <2>2, SubSeqProperties
  <2>4. Len(SubSeq(rows, m + 1, n)) = n - m
    BY <2>1, <2>3
  <2>5. \A k \in 1..(n - m) : SubSeq(rows, m + 1, n)[k] = rows[m + k]
    <3> SUFFICES ASSUME NEW k \in 1..(n - m) PROVE SubSeq(rows, m + 1, n)[k] = rows[m + k]
      OBVIOUS
    <3>1. k \in 1..(n - (m + 1) + 1) /\ (m + 1) + k - 1 = m + k
      BY <2>1
    <3> QED BY <2>3, <3>1
  <2> QED BY <1>4, <2>3, <2>4, <2>5
<1> HIDE DEF rest
<1>7. ASSUME NEW x \in T PROVE \E k \in 1..(n - m) : rest[k] = x
  <2>1. PICK j \in 1..n : rows[j] = x
    BY <1>1, <1>4
  <2>2. j > m
    BY <1>5, <2>1
  <2>3. j - m \in 1..(n - m) /\ m + (j - m) = j
    BY <1>4, <2>2
  <2> QED BY <1>6, <2>1, <2>3
<1>8. ASSUME NEW j \in 1..(n - m), NEW k \in 1..(n - m)
      PROVE  rest[j] \in after[rest[k]] <=> j < k
  <2>1. m + j \in 1..n /\ m + k \in 1..n /\ m + j > m /\ m + k > m
    BY <1>4
  <2>2. rest[j] = rows[m + j] /\ rest[k] = rows[m + k]
    BY <1>6
  <2>3. rows[m + j] \in T /\ rows[m + k] \in T
    BY <1>5, <2>1
  <2>4. rows[m + j] \in after[rows[m + k]] <=> rows[m + j] \in before[rows[m + k]]
    BY <2>3
  <2>5. rows[m + j] \in before[rows[m + k]] <=> m + j < m + k
    BY <1>1, <1>4, <2>1
  <2> QED BY <1>4, <2>2, <2>4, <2>5
<1> QED BY <1>3, <1>6, <1>7, <1>8 DEF Lists, rest

-------------------------------------------------------------------------------
(* Pages of the ledger.                                                    *)

(* A page is the front of the rows; its cursor the key of its last row.    *)
LEMMA PageIsFront ==
  ASSUME NEW S, NEW rows \in Seq(S), NEW limit \in Nat \ {0}, NEW key
  PROVE  LET page == PageFrom(rows, limit, key)
         IN  \E c \in 0..Len(rows) :
               /\ page.items = SubSeq(rows, 1, c)
               /\ \/ c = Len(rows) /\ page.nextCursor = None
                  \/ c > 0 /\ page.nextCursor = key[rows[c]]
<1>1. PICK n \in Nat : n = Len(rows)
  BY LenProperties
<1>2. PICK c \in 0..n : c = IF n > limit THEN limit ELSE n
  BY <1>1
<1> DEFINE items == SubSeq(rows, 1, c)
<1>3. PageFrom(rows, limit, key) =
        [items |-> items, nextCursor |-> IF n > limit THEN key[Last(items)] ELSE None]
  BY <1>1, <1>2, Zenon DEF PageFrom
<1>4. \A k \in 1..c : rows[k] \in S
  BY <1>1, <1>2
<1>5. /\ Len(items) = IF 1 <= c THEN c - 1 + 1 ELSE 0
      /\ \A k \in 1..(c - 1 + 1) : items[k] = rows[1 + k - 1]
  BY <1>2, <1>4, SubSeqProperties
<1> HIDE DEF items
<1>6. CASE n > limit
  <2>1. c = limit /\ c > 0 /\ Len(items) = c
    BY <1>2, <1>5, <1>6
  <2>2. items[c] = rows[c]
    <3>1. c \in 1..(c - 1 + 1) /\ 1 + c - 1 = c
      BY <2>1
    <3> QED BY <1>5, <3>1
  <2>3. key[Last(items)] = key[rows[c]]
    BY <2>1, <2>2 DEF Last
  <2> QED BY <1>1, <1>3, <1>6, <2>1, <2>3 DEF items
<1>7. CASE ~(n > limit)
  BY <1>1, <1>2, <1>3, <1>7 DEF items
<1> QED BY <1>6, <1>7

(* The front of a list, and the front of what is left of it.               *)
LEMMA FrontGrows ==
  ASSUME NEW S, NEW rows \in Seq(S), NEW m \in 0..Len(rows), NEW c \in 0..(Len(rows) - m)
  PROVE  SubSeq(rows, 1, m) \o SubSeq(SubSeq(rows, m + 1, Len(rows)), 1, c) =
           SubSeq(rows, 1, m + c)
<1>1. PICK n \in Nat : n = Len(rows)
  BY LenProperties
<1>2. \A k \in 1..n : rows[k] \in S
  BY <1>1
<1>3. /\ m \in Nat /\ m <= n /\ c \in Nat /\ m + c \in Nat /\ m + c <= n
  BY <1>1
<1> DEFINE front == SubSeq(rows, 1, m)
           rest  == SubSeq(rows, m + 1, n)
           page  == SubSeq(rest, 1, c)
           all   == SubSeq(rows, 1, m + c)
<1>4. /\ front \in Seq(S) /\ Len(front) = m
      /\ \A k \in 1..m : front[k] = rows[k]
  <2>1. \A k \in 1..m : rows[k] \in S
    BY <1>2, <1>3
  <2>2. /\ front \in Seq(S) /\ Len(front) = IF 1 <= m THEN m - 1 + 1 ELSE 0
        /\ \A k \in 1..(m - 1 + 1) : front[k] = rows[1 + k - 1]
    BY <1>3, <2>1, SubSeqProperties
  <2> HIDE DEF front
  <2> QED BY <1>3, <2>2
<1>5. /\ rest \in Seq(S) /\ Len(rest) = n - m
      /\ \A k \in 1..(n - m) : rest[k] = rows[m + k]
  <2>1. \A k \in (m + 1)..n : rows[k] \in S
    BY <1>2, <1>3
  <2>2. /\ rest \in Seq(S) /\ Len(rest) = IF m + 1 <= n THEN n - (m + 1) + 1 ELSE 0
        /\ \A k \in 1..(n - (m + 1) + 1) : rest[k] = rows[(m + 1) + k - 1]
    <3>1. m + 1 \in Int /\ n \in Int
      BY <1>3
    <3> QED BY ONLY <2>1, <3>1, SubSeqProperties
  <2> HIDE DEF rest
  <2>3. Len(rest) = n - m
    BY <1>3, <2>2
  <2>4. ASSUME NEW k \in 1..(n - m) PROVE rest[k] = rows[m + k]
    <3>1. k \in 1..(n - (m + 1) + 1) /\ (m + 1) + k - 1 = m + k
      BY <1>3
    <3> QED BY <2>2, <3>1
  <2> QED BY <2>2, <2>3, <2>4
<1>6. /\ page \in Seq(S) /\ Len(page) = c
      /\ \A k \in 1..c : page[k] = rows[m + k]
  <2> HIDE DEF rest
  <2>1. c <= n - m
    BY <1>1
  <2>2. \A k \in 1..c : rest[k] \in S
    BY <1>5, <2>1
  <2>3. /\ page \in Seq(S) /\ Len(page) = IF 1 <= c THEN c - 1 + 1 ELSE 0
        /\ \A k \in 1..(c - 1 + 1) : page[k] = rest[1 + k - 1]
    BY <1>3, <2>2, SubSeqProperties
  <2> HIDE DEF page
  <2> QED BY <1>3, <1>5, <2>1, <2>3
<1>7. /\ all \in Seq(S) /\ Len(all) = m + c
      /\ \A k \in 1..(m + c) : all[k] = rows[k]
  <2>1. \A k \in 1..(m + c) : rows[k] \in S
    BY <1>2, <1>3
  <2>2. /\ all \in Seq(S) /\ Len(all) = IF 1 <= m + c THEN (m + c) - 1 + 1 ELSE 0
        /\ \A k \in 1..((m + c) - 1 + 1) : all[k] = rows[1 + k - 1]
    BY <1>3, <2>1, SubSeqProperties
  <2> HIDE DEF all
  <2> QED BY <1>3, <2>2
<1> HIDE DEF front, rest, page, all
<1>8. /\ front \o page \in Seq(S) /\ Len(front \o page) = m + c
      /\ \A k \in 1..(m + c) : (front \o page)[k] = IF k <= m THEN front[k] ELSE page[k - m]
  BY <1>4, <1>6, ConcatProperties
<1>9. ASSUME NEW k \in 1..(m + c) PROVE (front \o page)[k] = all[k]
  <2>1. CASE k <= m
    <3>1. k \in 1..m
      BY <2>1
    <3> QED BY <1>4, <1>7, <1>8, <2>1, <3>1
  <2>2. CASE ~(k <= m)
    <3>1. k - m \in 1..c /\ m + (k - m) = k
      BY <1>3, <2>2
    <3> QED BY <1>6, <1>7, <1>8, <2>2, <3>1
  <2> QED BY <2>1, <2>2
<1>10. front \o page = all
  BY <1>7, <1>8, <1>9, SeqEqual
<1> QED BY <1>1, <1>10 DEF front, rest, page, all

(* Entries are listed by their sequence, which is their place.             *)
Later(S) == [n \in S |-> {k \in S : k > n}]

LEMMA NewestFirstLists ==
  ASSUME IInv, NEW p \in Programs, NEW S, S \subseteq DOMAIN ledger[p]
  PROVE  /\ S \subseteq Nat /\ IsFiniteSet(S) /\ IsOrder(S, Later(S))
         /\ NewestFirst(p, S) = InOrder(S, Later(S))
         /\ Lists(InOrder(S, Later(S)), S, Later(S))
<1>1. PICK L \in Nat : DOMAIN ledger[p] = 1..L
  BY DEF IInv, TypeOK, TablesOK
<1>2. \A n \in S : n \in Nat /\ ledger[p][n].sequence = n
  BY <1>1 DEF IInv, LedgerGapless
<1>3. IsFiniteSet(S)
  BY <1>1, FS_Interval, FS_Subset
<1>4. IsOrder(S, Later(S))
  BY <1>2 DEF IsOrder, Later
<1>5. [n \in S |-> {k \in S : ledger[p][k].sequence > ledger[p][n].sequence}] = Later(S)
  BY <1>2 DEF Later
<1>6. NewestFirst(p, S) = InOrder(S, Later(S))
  BY <1>5, Zenon DEF NewestFirst
<1> QED BY <1>2, <1>3, <1>4, <1>6, InOrderLists

(* What a list of the ledger owes its reader, and how far it is: at its    *)
(* end, or at the cursor.                                                  *)
DueEntries(p, query, newest) == {n \in MatchingEntries(p, query) : n <= newest}

DueList(p, query, newest) == InOrder(DueEntries(p, query, newest), Later(DueEntries(p, query, newest)))

ShownOf(due, shown, cursor) ==
  \E m \in 0..Len(due) : /\ shown = SubSeq(due, 1, m)
                         /\ \/ m = Len(due) /\ cursor = None
                            \/ m > 0 /\ cursor = due[m]

(* The next page of a list of the ledger, the first included, goes on      *)
(* where the list is: what is booked meanwhile comes before its cursor.    *)
LEMMA LedgerPageGoesOn ==
  ASSUME IInv, NEW p \in Programs, NEW query, NEW newest \in 0..Len(ledger[p]),
         NEW due, due = DueList(p, query, newest),
         NEW m \in 0..Len(due), m = 0 => newest = Len(ledger[p]),
         NEW cursor, cursor = IF m = 0 THEN None ELSE due[m],
         NEW limit \in Nat \ {0}, NEW page,
         page = PageFrom(NewestEntries(p, query, cursor), limit,
                         [n \in DOMAIN ledger[p] |-> ledger[p][n].sequence])
  PROVE  ShownOf(due, SubSeq(due, 1, m) \o page.items, page.nextCursor)
<1> DEFINE S    == DueEntries(p, query, newest)
           T    == {n \in MatchingEntries(p, query) : Below(ledger[p][n], cursor)}
           rest == SubSeq(due, m + 1, Len(due))
           key  == [n \in DOMAIN ledger[p] |-> ledger[p][n].sequence]
<1>1. PICK L \in Nat : L = Len(ledger[p]) /\ DOMAIN ledger[p] = 1..L
  BY DEF IInv, TypeOK, TablesOK
<1>2. \A n \in 1..L : ledger[p][n].sequence = n
  BY <1>1 DEF IInv, LedgerGapless
<1>3. S \subseteq DOMAIN ledger[p] /\ T \subseteq DOMAIN ledger[p]
  BY DEF DueEntries, MatchingEntries
<1>4. /\ S \subseteq 1..L /\ IsOrder(S, Later(S)) /\ Lists(due, S, Later(S))
      /\ NewestFirst(p, T) = InOrder(T, Later(T))
  BY <1>1, <1>3, NewestFirstLists DEF DueList
<1>5. due \in Seq(S) /\ \A k \in 1..Len(due) : due[k] \in S
  BY <1>4 DEF Lists
<1>6. T = {y \in S : m = 0 \/ due[m] \in Later(S)[y]}
  <2>1. CASE m = 0
    <3>1. cursor = None /\ newest = L
      BY <1>1, <2>1
    <3>2. T = MatchingEntries(p, query)
      BY <3>1 DEF Below
    <3>3. S = MatchingEntries(p, query)
      BY <1>1, <3>1 DEF DueEntries, MatchingEntries
    <3> QED BY <2>1, <3>2, <3>3
  <2>2. CASE m # 0
    <3>1. m \in 1..Len(due)
      BY <1>5, <2>2, LenProperties
    <3>2. PICK x \in S : x = due[m] /\ x = cursor
      BY <1>5, <2>2, <3>1
    <3>3. x \in Nat /\ x <= newest /\ x # None
      BY <1>1, <1>4, <3>2, NullAssumption DEF DueEntries
    <3>4. \A n \in MatchingEntries(p, query) : Below(ledger[p][n], cursor) <=> n < x
      BY <1>1, <1>2, <3>2, <3>3 DEF Below, MatchingEntries
    <3>5. \A n \in MatchingEntries(p, query) : n \in Nat
      BY <1>1 DEF MatchingEntries
    <3>6. T = {y \in S : y < x}
      <4>1. newest \in Nat
        BY <1>1
      <4>2. \A n : n \in T <=> n \in MatchingEntries(p, query) /\ n < x
        BY <3>4
      <4>3. \A n : n \in S <=> n \in MatchingEntries(p, query) /\ n <= newest
        BY DEF DueEntries
      <4> HIDE DEF S, T
      <4>4. \A n : n \in T <=> n \in S /\ n < x
        BY <3>3, <3>5, <4>1, <4>2, <4>3
      <4> QED BY <4>4
    <3>7. \A y \in S : x \in Later(S)[y] <=> y < x
      BY <1>4, <3>2 DEF Later
    <3> QED BY <2>2, <3>2, <3>6, <3>7
  <2> QED BY <2>1, <2>2
<1>7. \A y \in T : Later(T)[y] = {x \in T : x \in Later(S)[y]}
  BY <1>6 DEF Later
<1> HIDE DEF S, T, key
<1>8. NewestEntries(p, query, cursor) = rest
  <2>1. PICK before, after : before = Later(S) /\ after = Later(T)
    OBVIOUS
  <2>2. IsOrder(S, before) /\ Lists(due, S, before)
    BY <1>4, <2>1
  <2>3. \A y \in T : after[y] = {x \in T : x \in before[y]}
    BY <1>7, <2>1
  <2>4. T = {y \in S : m = 0 \/ due[m] \in before[y]}
    BY <1>6, <2>1
  <2>5. IsOrder(T, after) /\ Lists(SubSeq(due, m + 1, Len(due)), T, after)
    BY <2>2, <2>3, <2>4, RestIsListed
  <2>6. InOrder(T, after) = SubSeq(due, m + 1, Len(due))
    BY <2>5, ListIsInOrder
  <2> QED BY <1>4, <2>1, <2>6 DEF NewestEntries, T
<1>9. /\ rest \in Seq(S) /\ Len(rest) = Len(due) - m
      /\ \A k \in 1..(Len(due) - m) : rest[k] = due[m + k]
  <2>1. PICK N \in Nat : N = Len(due)
    BY <1>5, LenProperties
  <2>2. m \in Nat /\ m <= N /\ m + 1 \in Int /\ N \in Int
    BY <2>1
  <2>3. \A k \in (m + 1)..N : due[k] \in S
    BY <1>5, <2>1, <2>2
  <2>4. /\ SubSeq(due, m + 1, N) \in Seq(S)
        /\ Len(SubSeq(due, m + 1, N)) = IF m + 1 <= N THEN N - (m + 1) + 1 ELSE 0
        /\ \A k \in 1..(N - (m + 1) + 1) : SubSeq(due, m + 1, N)[k] = due[(m + 1) + k - 1]
    BY ONLY <2>2, <2>3, SubSeqProperties
  <2>5. Len(SubSeq(due, m + 1, N)) = N - m
    BY <2>2, <2>4
  <2>6. ASSUME NEW k \in 1..(N - m) PROVE SubSeq(due, m + 1, N)[k] = due[m + k]
    <3>1. k \in 1..(N - (m + 1) + 1) /\ (m + 1) + k - 1 = m + k
      BY <2>2
    <3> QED BY <2>4, <3>1
  <2> QED BY <2>1, <2>4, <2>5, <2>6
<1>10. page = PageFrom(rest, limit, key)
  BY <1>8 DEF key
<1>11. PICK c \in 0..Len(rest) :
         /\ page.items = SubSeq(rest, 1, c)
         /\ \/ c = Len(rest) /\ page.nextCursor = None
            \/ c > 0 /\ page.nextCursor = key[rest[c]]
  <2> HIDE DEF rest
  <2>1. LET front == PageFrom(rest, limit, key)
        IN  \E c \in 0..Len(rest) :
              /\ front.items = SubSeq(rest, 1, c)
              /\ \/ c = Len(rest) /\ front.nextCursor = None
                 \/ c > 0 /\ front.nextCursor = key[rest[c]]
    BY <1>9, PageIsFront
  <2> QED BY <1>10, <2>1, Zenon
<1>12. PICK N \in Nat : N = Len(due)
  BY <1>5, LenProperties
<1>13. SubSeq(due, 1, m) \o page.items = SubSeq(due, 1, m + c)
  <2>1. c \in 0..(Len(due) - m)
    BY <1>9, <1>11
  <2> QED BY <1>5, <1>11, <2>1, FrontGrows
<1>14. m + c \in 0..N
  BY <1>9, <1>11, <1>12
<1>15. \/ m + c = N /\ page.nextCursor = None
       \/ m + c > 0 /\ page.nextCursor = due[m + c]
  <2>1. CASE c = Len(rest) /\ page.nextCursor = None
    BY <1>9, <1>12, <2>1
  <2>2. CASE c > 0 /\ page.nextCursor = key[rest[c]]
    <3>1. c \in 1..(N - m) /\ m + c \in 1..N
      BY <1>9, <1>11, <1>12, <2>2
    <3>2. rest[c] = due[m + c] /\ due[m + c] \in 1..L
      BY <1>4, <1>5, <1>9, <1>12, <3>1
    <3>3. key[due[m + c]] = due[m + c]
      BY <1>1, <1>2, <3>2 DEF key
    <3> HIDE DEF rest
    <3>4. page.nextCursor = due[m + c] /\ m + c > 0
      BY <2>2, <3>1, <3>2, <3>3
    <3> QED BY <3>4
  <2> QED BY <1>11, <2>1, <2>2
<1> QED BY <1>12, <1>13, <1>14, <1>15, Zenon DEF ShownOf

(* Entries stay.                                                           *)
LEMMA LedgerStays ==
  ASSUME Balanced, [Next]_system, NEW p \in Programs
  PROVE  /\ Len(ledger[p]) \in Nat /\ DOMAIN ledger[p] = 1..Len(ledger[p])
         /\ Len(ledger'[p]) \in Nat /\ DOMAIN ledger'[p] = 1..Len(ledger'[p])
         /\ Len(ledger[p]) <= Len(ledger'[p])
         /\ \A n \in 1..Len(ledger[p]) : ledger'[p][n] = ledger[p][n]
<1>1. IInv /\ IInv' /\ BookedFinite
  BY NextKeeps DEF Balanced, Holding
<1>2. /\ Len(ledger[p]) \in Nat /\ DOMAIN ledger[p] = 1..Len(ledger[p])
      /\ Len(ledger'[p]) \in Nat /\ DOMAIN ledger'[p] = 1..Len(ledger'[p])
  BY <1>1 DEF IInv, TypeOK, TablesOK
<1>3. ASSUME NEW P, NEW drafts, Advances(P, drafts)
      PROVE  /\ Len(ledger[p]) <= Len(ledger'[p])
             /\ \A n \in 1..Len(ledger[p]) : ledger'[p][n] = ledger[p][n]
  <2>1. CASE p # P
    BY <1>2, <1>3, <2>1 DEF Advances, Grows
  <2>2. CASE p = P
    <3>1. /\ Len(MarkEntries(program[P], drafts)) \in Nat /\ Len(drafts) \in Nat
          /\ Len(ledger'[p]) = Len(ledger[p]) + Len(drafts) + Len(MarkEntries(program[P], drafts))
          /\ \A n \in 1..Len(ledger[p]) : ledger'[p][n] = ledger[p][n]
      BY <1>3, <2>2, Zenon DEF Advances, Grows
    <3>2. PICK L \in Nat, K \in Nat : L = Len(ledger[p]) /\ K = Len(ledger'[p])
      BY <1>2
    <3>3. PICK N \in Nat, M \in Nat : Len(ledger'[p]) = Len(ledger[p]) + N + M
      BY <3>1
    <3>4. K = L + N + M
      BY <3>2, <3>3
    <3>5. L <= K
      BY ONLY <3>4, L \in Nat, K \in Nat, N \in Nat, M \in Nat
    <3> QED BY <3>1, <3>2, <3>5
  <2> QED BY <2>1, <2>2
<1>4. CASE Quiet
  BY <1>2, <1>4 DEF Quiet
<1>5. ASSUME NEW w \in Workers, CommandStep(w)
      PROVE  \E P, drafts : Advances(P, drafts)
  BY <1>1, <1>5, CommandAdvances DEF CommandStep
<1>6. ASSUME NEW w \in Workers, EventCommits(w) \/ SnapshotCommits(w)
      PROVE  \E P, drafts : Advances(P, drafts)
  BY <1>6, TreasuryBooks DEF TreasuryBooked
<1> QED BY <1>1, <1>2, <1>3, <1>4, <1>5, <1>6, NextCases

LEMMA DueStays ==
  ASSUME Balanced, [Next]_system, NEW p \in Programs, NEW query,
         NEW newest \in 0..Len(ledger[p])
  PROVE  DueList(p, query, newest)' = DueList(p, query, newest)
<1>1. /\ Len(ledger[p]) \in Nat /\ DOMAIN ledger[p] = 1..Len(ledger[p])
      /\ Len(ledger'[p]) \in Nat /\ DOMAIN ledger'[p] = 1..Len(ledger'[p])
      /\ Len(ledger[p]) <= Len(ledger'[p])
      /\ \A n \in 1..Len(ledger[p]) : ledger'[p][n] = ledger[p][n]
  BY LedgerStays
<1>2. PICK L \in Nat, K \in Nat : L = Len(ledger[p]) /\ K = Len(ledger'[p])
  BY <1>1
<1>3. \A n : n \in DueEntries(p, query, newest)' <=> n \in DueEntries(p, query, newest)
  <2>1. \A n : n \in DueEntries(p, query, newest)' <=>
                 n \in 1..K /\ EntryMatches(ledger'[p][n], query) /\ n <= newest
    BY <1>1, <1>2 DEF DueEntries, MatchingEntries, EntryMatches
  <2>2. \A n : n \in DueEntries(p, query, newest) <=>
                 n \in 1..L /\ EntryMatches(ledger[p][n], query) /\ n <= newest
    BY <1>1, <1>2 DEF DueEntries, MatchingEntries
  <2>3. \A n : n \in 1..K /\ n <= newest <=> n \in 1..L /\ n <= newest
    BY <1>1, <1>2
  <2>4. \A n \in 1..L : ledger'[p][n] = ledger[p][n]
    BY <1>1, <1>2
  <2> QED BY <2>1, <2>2, <2>3, <2>4
<1>4. DueEntries(p, query, newest)' = DueEntries(p, query, newest)
  BY <1>3
<1> QED BY <1>4 DEF DueList

(* The inductive invariant of a list of the ledger.                        *)
LedgerListOK ==
  IsList("ledger") =>
    /\ reader = [kind |-> "ledger", program |-> reader.program, filter |-> reader.filter,
                 cursor |-> reader.cursor, shown |-> reader.shown, newest |-> reader.newest]
    /\ reader.program \in Programs /\ reader.newest \in 0..Len(ledger[reader.program])
    /\ ShownOf(DueList(reader.program, reader.filter, reader.newest), reader.shown, reader.cursor)

LEMMA LedgerListTurns ==
  ASSUME NEW p, NEW query, NEW cursor, NEW shown, NEW newest, NEW page,
         reader' = Turn([kind |-> "ledger", program |-> p, filter |-> query, cursor |-> cursor,
                         shown |-> shown, newest |-> newest], page),
         p \in Programs, newest \in 0..Len(ledger[p]), UNCHANGED system,
         ShownOf(DueList(p, query, newest), shown \o page.items, page.nextCursor)
  PROVE  LedgerListOK'
<1>1. reader' = [kind |-> "ledger", program |-> p, filter |-> query, cursor |-> page.nextCursor,
                 shown |-> shown \o page.items, newest |-> newest]
  BY DEF Turn
<1>2. UNCHANGED ledger
  BY DEF system, vars, tables
<1>3. DueList(p, query, newest)' = DueList(p, query, newest)
  <2>1. DueEntries(p, query, newest)' = DueEntries(p, query, newest)
    BY <1>2 DEF DueEntries, MatchingEntries, EntryMatches
  <2> QED BY <2>1 DEF DueList
<1>4. /\ reader'.program = p /\ reader'.filter = query /\ reader'.cursor = page.nextCursor
      /\ reader'.shown = shown \o page.items /\ reader'.newest = newest
  BY <1>1
<1>5. ShownOf(DueList(p, query, newest)', reader'.shown, reader'.cursor)
  BY <1>3, <1>4
<1>6. reader' = [kind |-> "ledger", program |-> reader'.program, filter |-> reader'.filter,
                 cursor |-> reader'.cursor, shown |-> reader'.shown, newest |-> reader'.newest]
  BY <1>1
<1>7. DueList(reader.program, reader.filter, reader.newest)' = DueList(p, query, newest)'
  BY <1>4, Zenon
<1>8. ShownOf(DueList(reader.program, reader.filter, reader.newest), reader.shown, reader.cursor)'
  BY <1>5, <1>7, Zenon DEF ShownOf
<1> QED BY <1>2, <1>4, <1>6, <1>8 DEF LedgerListOK

(* What a read leaves: a list one page further, or an audit.               *)
LEMMA ReadCases ==
  ASSUME AuditIsFair, Read
  PROVE  \/ /\ reader = None
            /\ \/ \E p \in Programs, query \in LedgerQueries, limit \in PageLimits :
                    ListLedger(p, query, limit)
               \/ \E p \in Programs, status \in Statuses, limit \in PageLimits :
                    ListReservations(p, status, limit)
         \/ IsList("ledger") /\ \E limit \in PageLimits : NextLedger(limit)
         \/ IsList("reservations") /\ \E limit \in PageLimits : NextReservations(limit)
         \/ reader'.kind = "audit"
<1>1. ASSUME NEW p \in Programs, AuditProgram(p) PROVE reader'.kind = "audit"
  <2>1. reader # None /\ reader.kind = "audit"
    BY <1>1 DEF AuditProgram, IsList
  <2>2. PICK rows, pending, blamed :
          reader = [kind |-> "audit", rows |-> rows, pending |-> pending, blamed |-> blamed]
    BY <2>1 DEF AuditIsFair
  <2>3. \E was, found : reader' = [kind |-> "audit", rows |-> rows, pending |-> was, blamed |-> found]
    <3>1. \/ reader' = [reader EXCEPT !.pending = @ \ {p}]
          \/ reader' = [reader EXCEPT !.pending = {}, !.blamed = p]
      BY <1>1, Zenon DEF AuditProgram
    <3>2. \/ reader' = [kind |-> "audit", rows |-> rows, pending |-> pending \ {p}, blamed |-> blamed]
          \/ reader' = [kind |-> "audit", rows |-> rows, pending |-> {}, blamed |-> p]
      BY <2>2, <3>1
    <3> QED BY <3>2
  <2>4. reader'.kind = "audit"
    BY <2>3
  <2> QED BY <2>4
<1>2. CASE AuditRows
  BY <1>2 DEF AuditRows
<1>3. ASSUME NEW p \in Programs, NEW limit \in PageLimits,
             \/ \E status \in Statuses : ListReservations(p, status, limit)
             \/ \E query \in LedgerQueries : ListLedger(p, query, limit)
      PROVE  reader = None
  BY <1>3 DEF ListReservations, ListLedger
<1>4. ASSUME NEW limit, NextReservations(limit) PROVE IsList("reservations")
  BY <1>4 DEF NextReservations
<1>5. ASSUME NEW limit, NextLedger(limit) PROVE IsList("ledger")
  BY <1>5 DEF NextLedger
<1> QED BY <1>1, <1>2, <1>3, <1>4, <1>5, Zenon DEF Read

(* Lists stay lists of their kind.                                         *)
LEMMA KindsStay ==
  ASSUME AuditIsFair,
         \/ \E p, status, limit : ListReservations(p, status, limit)
         \/ \E limit : NextReservations(limit)
  PROVE  reader'.kind = "reservations"
<1>1. ASSUME NEW p, NEW status, NEW limit, ListReservations(p, status, limit)
      PROVE  reader'.kind = "reservations"
  <2>1. PICK page : reader' = Turn([kind |-> "reservations", program |-> p, filter |-> status,
                                    cursor |-> None, shown |-> <<>>, newest |-> Len(ledger[p])], page)
    BY <1>1, Zenon DEF ListReservations
  <2> QED BY <2>1 DEF Turn
<1>2. ASSUME NEW limit, NextReservations(limit) PROVE reader'.kind = "reservations"
  <2>1. "kind" \in DOMAIN reader /\ reader.kind = "reservations"
    BY <1>2 DEF NextReservations, IsList, AuditIsFair
  <2>2. PICK page : reader' = Turn(reader, page)
    BY <1>2, Zenon DEF NextReservations
  <2> QED BY <2>1, <2>2 DEF Turn
<1> QED BY <1>1, <1>2

(* Pages of the ledger, and all that happens between them.                 *)
LEMMA LedgerListNextKeeps ==
  ASSUME ReadsIInv, LedgerListOK, [ReadsNext]_observed
  PROVE  LedgerListOK'
<1>1. Balanced /\ AuditIsFair /\ IInv
  BY DEF ReadsIInv, Balanced
<1>2. [Next]_system
  BY <1>1, ReadsAreSteps DEF ReadsIInv
<1>3. CASE UNCHANGED reader
  <2> SUFFICES ASSUME IsList("ledger") PROVE LedgerListOK'
    BY <1>3, Zenon DEF LedgerListOK, IsList
  <2>1. /\ reader = [kind |-> "ledger", program |-> reader.program, filter |-> reader.filter,
                     cursor |-> reader.cursor, shown |-> reader.shown, newest |-> reader.newest]
        /\ reader.program \in Programs /\ reader.newest \in 0..Len(ledger[reader.program])
        /\ ShownOf(DueList(reader.program, reader.filter, reader.newest), reader.shown, reader.cursor)
    BY DEF LedgerListOK
  <2>2. PICK p, query, newest :
          /\ p = reader.program /\ query = reader.filter /\ newest = reader.newest
          /\ p \in Programs /\ newest \in 0..Len(ledger[p])
    BY <2>1
  <2>3. DueList(p, query, newest)' = DueList(p, query, newest)
    BY <1>1, <1>2, <2>2, DueStays
  <2>4. newest \in 0..Len(ledger'[p])
    <3>1. Len(ledger[p]) \in Nat /\ Len(ledger'[p]) \in Nat /\ Len(ledger[p]) <= Len(ledger'[p])
      BY <1>1, <1>2, <2>2, LedgerStays
    <3> QED BY <2>2, <3>1
  <2>5. DueList(reader.program, reader.filter, reader.newest)' = DueList(p, query, newest)'
    BY <1>3, <2>2, Zenon
  <2>6. ShownOf(DueList(p, query, newest), reader.shown, reader.cursor)
    BY <2>1, <2>2, Zenon
  <2>7. ShownOf(DueList(reader.program, reader.filter, reader.newest), reader.shown, reader.cursor)'
    BY <1>3, <2>3, <2>5, <2>6, Zenon DEF ShownOf
  <2> QED BY <1>3, <2>1, <2>2, <2>4, <2>7, Zenon DEF LedgerListOK
<1>4. ASSUME Read, UNCHANGED system PROVE LedgerListOK'
  <2>1. ASSUME NEW p \in Programs, NEW query, NEW limit \in PageLimits, ListLedger(p, query, limit)
        PROVE  LedgerListOK'
    <3> DEFINE list == [kind |-> "ledger", program |-> p, filter |-> query, cursor |-> None,
                        shown |-> <<>>, newest |-> Len(ledger[p])]
    <3>1. PICK page : page = LedgerPage(list, limit)
      OBVIOUS
    <3>2. reader' = Turn(list, page)
      BY <2>1, <3>1, Zenon DEF ListLedger
    <3>3. page = PageFrom(NewestEntries(p, query, None), limit,
                          [n \in DOMAIN ledger[p] |-> ledger[p][n].sequence])
      BY <3>1 DEF LedgerPage
    <3>4. PICK newest, due : newest = Len(ledger[p]) /\ due = DueList(p, query, newest)
      OBVIOUS
    <3>5. newest \in Nat /\ newest \in 0..Len(ledger[p]) /\ Len(due) \in Nat
      <4>1. newest \in Nat
        BY <1>1, <3>4 DEF IInv, TypeOK, TablesOK
      <4>2. DueEntries(p, query, newest) \subseteq DOMAIN ledger[p]
        BY DEF DueEntries, MatchingEntries
      <4>3. Lists(due, DueEntries(p, query, newest), Later(DueEntries(p, query, newest)))
        BY <1>1, <3>4, <4>2, NewestFirstLists DEF DueList
      <4>4. Len(due) \in Nat
        BY <4>3, LenProperties DEF Lists
      <4> QED BY <3>4, <4>1, <4>4
    <3>6. limit \in Nat \ {0}
      BY ReadsAssumption
    <3>7. ShownOf(due, SubSeq(due, 1, 0) \o page.items, page.nextCursor)
      <4>1. PICK m, cursor : m = 0 /\ cursor = None
        OBVIOUS
      <4>2. /\ m \in 0..Len(due) /\ (m = 0 => newest = Len(ledger[p]))
            /\ cursor = IF m = 0 THEN None ELSE due[m]
            /\ page = PageFrom(NewestEntries(p, query, cursor), limit,
                               [n \in DOMAIN ledger[p] |-> ledger[p][n].sequence])
        BY <3>3, <3>4, <3>5, <4>1
      <4>3. ShownOf(due, SubSeq(due, 1, m) \o page.items, page.nextCursor)
        BY <1>1, <3>4, <3>5, <3>6, <4>2, LedgerPageGoesOn
      <4> QED BY <4>1, <4>3
    <3>8. SubSeq(due, 1, 0) = <<>>
      BY SubSeqEmpty
    <3>9. reader' = Turn([kind |-> "ledger", program |-> p, filter |-> query, cursor |-> None,
                          shown |-> <<>>, newest |-> newest], page)
      BY <3>2, <3>4
    <3> QED BY <1>4, <3>4, <3>5, <3>7, <3>8, <3>9, LedgerListTurns
  <2>2. ASSUME IsList("ledger"), NEW limit \in PageLimits, NextLedger(limit)
        PROVE  LedgerListOK'
    <3>1. PICK page : page = LedgerPage(reader, limit)
      OBVIOUS
    <3>2. reader' = Turn(reader, page) /\ reader.cursor # None
      BY <2>2, <3>1 DEF NextLedger
    <3>3. /\ reader = [kind |-> "ledger", program |-> reader.program, filter |-> reader.filter,
                       cursor |-> reader.cursor, shown |-> reader.shown, newest |-> reader.newest]
          /\ reader.program \in Programs /\ reader.newest \in 0..Len(ledger[reader.program])
          /\ ShownOf(DueList(reader.program, reader.filter, reader.newest), reader.shown, reader.cursor)
      BY <2>2 DEF LedgerListOK
    <3>4. PICK p, query, newest, cursor, shown :
            /\ p \in Programs /\ newest \in 0..Len(ledger[p])
            /\ p = reader.program /\ query = reader.filter /\ newest = reader.newest
            /\ cursor = reader.cursor /\ shown = reader.shown
      BY <3>3
    <3>5. PICK due : due = DueList(p, query, newest)
      OBVIOUS
    <3>6. PICK m \in 0..Len(due) : m > 0 /\ shown = SubSeq(due, 1, m) /\ cursor = due[m]
      BY <3>2, <3>3, <3>4, <3>5, Zenon DEF ShownOf
    <3>7. page = PageFrom(NewestEntries(p, query, cursor), limit,
                          [n \in DOMAIN ledger[p] |-> ledger[p][n].sequence])
      BY <3>1, <3>4 DEF LedgerPage
    <3>8. (m = 0 => newest = Len(ledger[p])) /\ cursor = IF m = 0 THEN None ELSE due[m]
      BY <3>6
    <3>9. limit \in Nat \ {0}
      BY ReadsAssumption
    <3>10. IInv /\ p \in Programs /\ newest \in 0..Len(ledger[p])
      BY <1>1, <3>4
    <3>11. ShownOf(due, shown \o page.items, page.nextCursor)
      BY ONLY <3>5, <3>6, <3>7, <3>8, <3>9, <3>10, m \in 0..Len(due), LedgerPageGoesOn
    <3>12. reader' = Turn([kind |-> "ledger", program |-> p, filter |-> query, cursor |-> cursor,
                           shown |-> shown, newest |-> newest], page)
      BY <3>2, <3>3, <3>4
    <3> QED BY <1>4, <3>5, <3>10, <3>11, <3>12, LedgerListTurns
  <2>3. ASSUME reader'.kind \in {"audit", "reservations"} PROVE LedgerListOK'
    BY <2>3 DEF LedgerListOK, IsList
  <2> QED BY <1>1, <1>4, <2>1, <2>2, <2>3, ReadCases, KindsStay
<1>5. UNCHANGED reader \/ (Read /\ UNCHANGED system)
  BY Zenon DEF ReadsNext, observed, reads
<1> QED BY <1>3, <1>4, <1>5

LEMMA LedgerListsAreOK == ReadsSpec => []LedgerListOK
<1>1. ReadsInit => LedgerListOK
  BY DEF ReadsInit, LedgerListOK, IsList
<1>2. ReadsIInv /\ LedgerListOK /\ [ReadsNext]_observed => LedgerListOK'
  BY LedgerListNextKeeps
<1> QED BY <1>1, <1>2, ReadsInvariance, PTL DEF ReadsSpec

(* SC-004b: the pages of the ledger, put together, are the entries that    *)
(* matched when the first of them was read, in order and without a gap,    *)
(* whatever is booked while they are read.                                 *)
THEOREM LedgerPagesAreExact == ReadsSpec => []LedgerListIsExact
<1>1. ReadsIInv /\ LedgerListOK => LedgerListIsExact
  <2> SUFFICES ASSUME ReadsIInv, LedgerListOK, IsList("ledger")
               PROVE  LET due == NewestFirst(reader.program,
                                   {n \in MatchingEntries(reader.program, reader.filter) :
                                      n <= reader.newest})
                      IN  /\ IsPrefix(reader.shown, due)
                          /\ reader.cursor = None => reader.shown = due
    BY Zenon DEF LedgerListIsExact
  <2>1. /\ reader.program \in Programs
        /\ ShownOf(DueList(reader.program, reader.filter, reader.newest), reader.shown, reader.cursor)
    BY DEF LedgerListOK
  <2>2. PICK S : S = DueEntries(reader.program, reader.filter, reader.newest)
    OBVIOUS
  <2>3. S \subseteq DOMAIN ledger[reader.program] /\ IInv
    BY <2>2 DEF DueEntries, MatchingEntries, ReadsIInv, Balanced
  <2>4. PICK due : due = InOrder(S, Later(S))
    OBVIOUS
  <2>5. /\ S \subseteq Nat /\ due \in Seq(S)
        /\ NewestFirst(reader.program, S) = due
    BY <2>1, <2>3, <2>4, NewestFirstLists DEF Lists
  <2>6. PICK m \in 0..Len(due) :
          /\ reader.shown = SubSeq(due, 1, m)
          /\ \/ m = Len(due) /\ reader.cursor = None
             \/ m > 0 /\ reader.cursor = due[m]
    BY <2>1, <2>2, <2>4, Zenon DEF ShownOf, DueList
  <2>7. /\ Len(due) \in Nat /\ m \in Nat /\ m <= Len(due)
        /\ \A k \in 1..Len(due) : due[k] \in S
    BY <2>5
  <2>8. SubSeq(due, 1, m) \in Seq(S) /\ Len(SubSeq(due, 1, m)) = m
    <3>1. \A k \in 1..m : due[k] \in S
      BY <2>7
    <3>2. /\ SubSeq(due, 1, m) \in Seq(S)
          /\ Len(SubSeq(due, 1, m)) = IF 1 <= m THEN m - 1 + 1 ELSE 0
      BY <2>7, <3>1, SubSeqProperties
    <3> QED BY <2>7, <3>2
  <2>9. IsPrefix(reader.shown, due)
    <3>1. SubSeq(reader.shown, 1, m) = reader.shown
      BY <2>6, <2>8, SubSeqFull
    <3>2. Len(reader.shown) = m
      BY <2>6, <2>8
    <3> QED BY <2>6, <2>7, <3>1, <3>2 DEF IsPrefix
  <2>10. ASSUME reader.cursor = None PROVE reader.shown = due
    <3>1. ASSUME m > 0, reader.cursor = due[m] PROVE FALSE
      <4>1. due[m] \in Nat
        <5>1. m \in 1..Len(due)
          BY <2>7, <3>1
        <5>2. due[m] \in S
          BY <2>7, <5>1
        <5> QED BY <2>5, <5>2
      <4> QED BY <2>10, <3>1, <4>1, NullAssumption
    <3>2. m = Len(due)
      BY <2>6, <3>1
    <3> QED BY <2>5, <2>6, <3>2, SubSeqFull
  <2>11. NewestFirst(reader.program, {n \in MatchingEntries(reader.program, reader.filter) :
                                        n <= reader.newest}) = due
    BY <2>2, <2>5 DEF DueEntries
  <2> QED BY <2>9, <2>10, <2>11, Zenon
<1> QED BY <1>1, LedgerListsAreOK, ReadsInvariance, PTL

-------------------------------------------------------------------------------
(* Pages of the reservations.                                              *)

(* Every row has a stamp, and keeps it.                                    *)
StampsOK ==
  /\ createdAt \in [Programs -> [Invoices -> Instants \cup {None}]]
  /\ \A p \in Programs : \A i \in Booked(p) : createdAt[p][i] # None

(* i comes after j in a list, newest first.                                *)
Under(p, i, j) == KeyBelow(ReservationKey(p, i), ReservationKey(p, j))

LEMMA UnderByKeys ==
  ASSUME NEW p, NEW i, NEW j
  PROVE  Under(p, i, j) <=> \/ createdAt[p][i] < createdAt[p][j]
                            \/ createdAt[p][i] = createdAt[p][j] /\ UuidRank[i] < UuidRank[j]
BY DEF Under, KeyBelow, ReservationKey

(* The keys order the reservations of a program totally: instants may      *)
(* collide, ids do not.                                                    *)
LEMMA KeysAreInOrder ==
  ASSUME StampsOK, NEW p \in Programs, NEW S, S \subseteq Booked(p)
  PROVE  /\ \A i, j, k \in S : Under(p, i, j) /\ Under(p, j, k) => Under(p, i, k)
         /\ \A i \in S : ~Under(p, i, i)
         /\ \A i, j \in S : i = j \/ Under(p, i, j) \/ Under(p, j, i)
         /\ \A i \in S : ReservationKey(p, i) # None
<1>1. \A i \in S : /\ createdAt[p][i] \in Int /\ createdAt[p][i] \in Instants
                   /\ UuidRank[i] \in Nat /\ i \in Invoices
  <2> SUFFICES ASSUME NEW i \in S
               PROVE  /\ createdAt[p][i] \in Int /\ createdAt[p][i] \in Instants
                      /\ UuidRank[i] \in Nat /\ i \in Invoices
    OBVIOUS
  <2>1. i \in Invoices /\ i \in Booked(p)
    BY DEF Booked
  <2>2. createdAt[p][i] \in Instants \cup {None} /\ createdAt[p][i] # None
    BY <2>1 DEF StampsOK
  <2>3. Instants \subseteq Int /\ UuidRank[i] \in Nat
    BY <2>1, ReadsAssumption
  <2> QED BY <2>1, <2>2, <2>3
<1>2. \A i, j \in S : UuidRank[i] = UuidRank[j] => i = j
  BY <1>1, ReadsAssumption
<1>3. \A i, j, k \in S : Under(p, i, j) /\ Under(p, j, k) => Under(p, i, k)
  BY <1>1, UnderByKeys
<1>4. \A i \in S : ~Under(p, i, i)
  BY <1>1, UnderByKeys
<1>5. \A i, j \in S : i = j \/ Under(p, i, j) \/ Under(p, j, i)
  BY <1>1, <1>2, UnderByKeys
<1>6. \A i \in S : ReservationKey(p, i) # None
  <2>1. \A i \in S : ReservationKey(p, i) \in Instants \X Nat
    BY <1>1 DEF ReservationKey
  <2> QED BY <2>1, ReadsAssumption
<1> QED BY <1>3, <1>4, <1>5, <1>6

(* What a list may show next.                                              *)
Candidates(p, status, cursor) ==
  {i \in Invoices : HasStatus(p, i, status) /\ Precedes(ReservationKey(p, i), cursor)}

Above(p, S) == [i \in S |-> {j \in S : Under(p, i, j)}]

LEMMA NewestReservationsLists ==
  ASSUME StampsOK, NEW p \in Programs, IsFiniteSet(Booked(p)), NEW status, NEW cursor
  PROVE  LET S == Candidates(p, status, cursor)
         IN  /\ S \subseteq Booked(p)
             /\ Lists(NewestReservations(p, status, cursor), S, Above(p, S))
<1> DEFINE S == Candidates(p, status, cursor)
<1>1. S \subseteq Booked(p)
  BY DEF Candidates, HasStatus, Booked
<1>2. IsFiniteSet(S)
  BY <1>1, FS_Subset
<1>3. NewestReservations(p, status, cursor) = InOrder(S, Above(p, S))
  BY Zenon DEF NewestReservations, Above, Under, Candidates
<1> HIDE DEF S
<1>4. IsOrder(S, Above(p, S))
  <2>1. /\ \A i, j, k \in S : Under(p, i, j) /\ Under(p, j, k) => Under(p, i, k)
        /\ \A i \in S : ~Under(p, i, i)
        /\ \A i, j \in S : i = j \/ Under(p, i, j) \/ Under(p, j, i)
    BY <1>1, KeysAreInOrder
  <2> QED BY <2>1 DEF IsOrder, Above
<1>5. Lists(InOrder(S, Above(p, S)), S, Above(p, S))
  BY <1>2, <1>4, InOrderLists
<1> QED BY <1>1, <1>3, <1>5, Zenon DEF S

(* The cursor is where the list goes on: nothing shown is under it.        *)
AtCursor(p, shown, cursor) ==
  \E i \in Booked(p) : /\ cursor = ReservationKey(p, i)
                       /\ \A k \in 1..Len(shown) : ~Under(p, shown[k], i)

(* What a list of reservations owes its reader.                            *)
OwedOf(p, status, newest) ==
  {i \in Invoices :
     /\ HasStatus(p, i, status)
     /\ \E n \in InvoiceEntries(p, i) : n <= newest
     /\ status = None \/ \A n \in InvoiceEntries(p, i) : n <= newest}

(* What it has shown, and that the rest of it is under its cursor.         *)
ListedOf(p, status, newest, shown, cursor) ==
  /\ shown \in Seq(Booked(p)) /\ IsInjective(shown)
  /\ cursor = None \/ AtCursor(p, shown, cursor)
  /\ \A i \in OwedOf(p, status, newest) :
       i \in ToSet(shown) \/ (cursor # None /\ KeyBelow(ReservationKey(p, i), cursor))

(* The next page of a list of reservations, the first included: nothing is *)
(* shown again, and what is owed and not shown yet is under the cursor.    *)
LEMMA ReservationPageGoesOn ==
  ASSUME StampsOK, NEW p \in Programs, IsFiniteSet(Booked(p)), NEW status, NEW newest,
         NEW shown, NEW cursor,
         \/ cursor = None /\ shown = <<>>
         \/ cursor # None /\ ListedOf(p, status, newest, shown, cursor),
         NEW limit \in Nat \ {0}, NEW page,
         page = PageFrom(NewestReservations(p, status, cursor), limit,
                         [i \in Invoices |-> ReservationKey(p, i)])
  PROVE  ListedOf(p, status, newest, shown \o page.items, page.nextCursor)
<1> DEFINE S == Candidates(p, status, cursor)
           rows == NewestReservations(p, status, cursor)
           B == Booked(p)
           key == [i \in Invoices |-> ReservationKey(p, i)]
<1>17. PICK all, next : all = shown \o page.items /\ next = page.nextCursor
  OBVIOUS
<1>18. /\ shown \in Seq(Booked(p)) /\ IsInjective(shown)
       /\ (cursor = None /\ shown = <<>>) \/ AtCursor(p, shown, cursor)
  <2>1. CASE cursor = None /\ shown = <<>>
    BY <2>1 DEF IsInjective
  <2>2. CASE cursor # None /\ ListedOf(p, status, newest, shown, cursor)
    BY <2>2 DEF ListedOf
  <2> QED BY <2>1, <2>2
<1>1. /\ S \subseteq B /\ B \subseteq Invoices
      /\ Lists(rows, S, Above(p, S))
  BY NewestReservationsLists DEF Booked
<1> HIDE DEF S, rows, B
<1>2. /\ \A i, j, k \in B : Under(p, i, j) /\ Under(p, j, k) => Under(p, i, k)
      /\ \A i \in B : ~Under(p, i, i)
      /\ \A i \in B : ReservationKey(p, i) # None
  BY KeysAreInOrder DEF B
<1>3. PICK n \in Nat, m \in Nat : n = Len(rows) /\ m = Len(shown)
  BY <1>1, LenProperties DEF Lists
<1>4. /\ rows \in Seq(S) /\ \A k \in 1..n : rows[k] \in S /\ rows[k] \in B /\ rows[k] \in Invoices
      /\ \A x \in S : \E k \in 1..n : rows[k] = x
      /\ \A j, k \in 1..n : Under(p, rows[k], rows[j]) <=> j < k
  <2>1. rows \in Seq(S) /\ \A k \in 1..n : rows[k] \in S /\ rows[k] \in B /\ rows[k] \in Invoices
    BY <1>1, <1>3 DEF Lists
  <2>2. \A x \in S : \E k \in 1..n : rows[k] = x
    BY <1>1, <1>3 DEF Lists
  <2>3. ASSUME NEW j \in 1..n, NEW k \in 1..n PROVE Under(p, rows[k], rows[j]) <=> j < k
    <3>1. rows[j] \in Above(p, S)[rows[k]] <=> j < k
      BY <1>1, <1>3 DEF Lists
    <3>2. rows[j] \in Above(p, S)[rows[k]] <=> Under(p, rows[k], rows[j])
      BY <2>1 DEF Above
    <3> QED BY <3>1, <3>2
  <2> QED BY <2>1, <2>2, <2>3
<1>5. PICK c \in 0..n :
        /\ page.items = SubSeq(rows, 1, c)
        /\ (c = n /\ next = None) \/ (c > 0 /\ next = ReservationKey(p, rows[c]))
  <2>1. LET front == PageFrom(rows, limit, key)
        IN  \E c \in 0..Len(rows) :
              /\ front.items = SubSeq(rows, 1, c)
              /\ \/ c = Len(rows) /\ front.nextCursor = None
                 \/ c > 0 /\ front.nextCursor = key[rows[c]]
    <3> HIDE DEF key
    <3>1. rows \in Seq(S) /\ limit \in Nat \ {0}
      BY <1>4
    <3> QED BY <3>1, PageIsFront
  <2>2. PICK c \in 0..n :
          /\ page.items = SubSeq(rows, 1, c)
          /\ (c = n /\ next = None) \/ (c > 0 /\ next = key[rows[c]])
    BY <1>3, <1>17, <2>1, Zenon DEF rows
  <2>3. c > 0 => key[rows[c]] = ReservationKey(p, rows[c])
    BY <1>4
  <2> QED BY <2>2, <2>3
<1>6. /\ page.items \in Seq(B) /\ Len(page.items) = c
      /\ \A k \in 1..c : page.items[k] = rows[k]
  <2>1. \A k \in 1..c : rows[k] \in B
    BY <1>4
  <2>2. /\ SubSeq(rows, 1, c) \in Seq(B)
        /\ Len(SubSeq(rows, 1, c)) = IF 1 <= c THEN c - 1 + 1 ELSE 0
        /\ \A k \in 1..(c - 1 + 1) : SubSeq(rows, 1, c)[k] = rows[1 + k - 1]
    <3>1. 1 \in Int /\ c \in Int
      OBVIOUS
    <3> QED BY ONLY <2>1, <3>1, SubSeqProperties
  <2>3. c \in Nat /\ c - 1 + 1 = c /\ \A k \in 1..c : 1 + k - 1 = k
    BY <1>3
  <2>4. Len(SubSeq(rows, 1, c)) = c
    BY <2>2, <2>3
  <2>5. \A k \in 1..c : SubSeq(rows, 1, c)[k] = rows[k]
    BY <2>2, <2>3
  <2> QED BY <1>5, <2>2, <2>4, <2>5
<1>16. c \in Nat /\ c <= n /\ n \in Nat /\ m \in Nat
  BY <1>3
<1>7. /\ all \in Seq(B) /\ Len(all) = m + c
      /\ \A k \in 1..m : all[k] = shown[k] /\ shown[k] \in B
      /\ \A k \in 1..c : all[m + k] = rows[k]
  <2>1. /\ all \in Seq(B) /\ Len(all) = m + c
        /\ \A k \in 1..(m + c) : all[k] = IF k <= m THEN shown[k] ELSE page.items[k - m]
    <3>1. PICK items : items = page.items /\ items \in Seq(B) /\ Len(items) = c
      BY <1>6
    <3>2. shown \in Seq(B) /\ Len(shown) = m /\ all = shown \o items
      BY <1>3, <1>17, <1>18, <3>1 DEF B
    <3> QED BY ONLY <3>1, <3>2, ConcatProperties
  <2>2. ASSUME NEW k \in 1..c PROVE all[m + k] = rows[k]
    <3>1. m + k \in 1..(m + c) /\ ~(m + k <= m) /\ (m + k) - m = k
      BY <1>3
    <3>2. all[m + k] = page.items[k]
      BY <2>1, <3>1
    <3> QED BY <1>6, <3>2
  <2>3. \A k \in 1..m : all[k] = shown[k] /\ shown[k] \in B
    <3>1. \A k \in 1..m : shown[k] \in B
      BY <1>3, <1>18 DEF B
    <3>2. \A k \in 1..m : k \in 1..(m + c) /\ k <= m
      BY <1>16
    <3> QED BY <2>1, <3>1, <3>2
  <2> QED BY <2>1, <2>2, <2>3
<1>8. ASSUME NEW j \in 1..m, NEW k \in 1..n
      PROVE  shown[j] # rows[k] /\ ~Under(p, shown[j], rows[k])
  <2>1. PICK i \in B : cursor = ReservationKey(p, i) /\ ~Under(p, shown[j], i)
    BY <1>3, <1>8, <1>18 DEF AtCursor, B
  <2>2. Under(p, rows[k], i)
    BY <1>2, <1>4, <2>1 DEF S, Candidates, Precedes, Under
  <2> QED BY <1>2, <1>4, <1>7, <2>1, <2>2
<1>9. IsInjective(all)
  <2>1. ASSUME NEW j \in 1..(m + c), NEW k \in 1..(m + c), all[j] = all[k], j < k PROVE FALSE
    <3>1. CASE k <= m
      <4>1. j \in 1..m /\ k \in 1..m /\ j # k
        BY <1>16, <2>1, <3>1
      <4>3. shown[j] = shown[k]
        BY <1>7, <2>1, <4>1
      <4>2. DOMAIN shown = 1..m
        BY <1>3
      <4> QED BY <1>18, <4>1, <4>2, <4>3 DEF IsInjective
    <3>2. CASE j <= m /\ k > m
      <4>1. j \in 1..m /\ k - m \in 1..c /\ k - m \in 1..n /\ m + (k - m) = k
        BY <1>16, <3>2
      <4>2. all[j] = shown[j]
        BY <1>7, <4>1
      <4>3. all[k] = rows[k - m]
        BY <1>7, <4>1
      <4> QED BY <1>8, <2>1, <4>1, <4>2, <4>3
    <3>3. CASE j > m
      <4>1. /\ j - m \in 1..c /\ k - m \in 1..c /\ m + (j - m) = j /\ m + (k - m) = k
            /\ j - m \in 1..n /\ k - m \in 1..n /\ j - m < k - m
        BY <1>16, <2>1, <3>3
      <4>2. rows[j - m] = rows[k - m]
        BY <1>7, <2>1, <4>1
      <4>3. Under(p, rows[k - m], rows[j - m]) /\ rows[j - m] \in B
        BY <1>4, <4>1
      <4> QED BY <1>2, <4>2, <4>3
    <3> QED BY <3>1, <3>2, <3>3
  <2>2. DOMAIN all = 1..(m + c)
    BY <1>7
  <2>3. ASSUME NEW j \in 1..(m + c), NEW k \in 1..(m + c), all[j] = all[k] PROVE j = k
    <3>1. j < k \/ k < j \/ j = k
      BY <1>16
    <3> QED BY <2>1, <2>3, <3>1
  <2> QED BY <2>2, <2>3 DEF IsInjective
<1>10. ASSUME next # None PROVE AtCursor(p, all, next)
  <2>1. c > 0 /\ c \in 1..n /\ next = ReservationKey(p, rows[c]) /\ rows[c] \in B
    BY <1>4, <1>5, <1>10
  <2>2. ASSUME NEW k \in 1..(m + c) PROVE ~Under(p, all[k], rows[c])
    <3>1. CASE k <= m
      <4>1. k \in 1..m
        BY <1>16, <3>1
      <4>2. all[k] = shown[k]
        BY <1>7, <4>1
      <4> QED BY <1>8, <2>1, <4>1, <4>2
    <3>2. CASE k > m
      <4>1. k - m \in 1..c /\ m + (k - m) = k /\ k - m \in 1..n /\ ~(c < k - m)
        BY <1>16, <3>2
      <4>2. all[k] = rows[k - m]
        BY <1>7, <4>1
      <4> QED BY <1>4, <2>1, <4>1, <4>2
    <3>3. k <= m \/ k > m
      BY <1>16
    <3> QED BY <3>1, <3>2, <3>3
  <2> QED BY <1>7, <2>1, <2>2 DEF AtCursor, B
<1>11. ToSet(shown) \subseteq ToSet(all)
  <2>1. DOMAIN shown = 1..m /\ DOMAIN all = 1..(m + c) /\ 1..m \subseteq 1..(m + c)
    BY <1>3, <1>5, <1>7
  <2> QED BY <1>7, <2>1 DEF ToSet
<1>12. ASSUME NEW i \in S
       PROVE  i \in ToSet(all) \/ (next # None /\ KeyBelow(ReservationKey(p, i), next))
  <2>1. PICK k \in 1..n : rows[k] = i
    BY <1>4
  <2>2. CASE k <= c
    <3>1. k \in 1..c /\ m + k \in DOMAIN all
      BY <1>5, <1>7, <2>2
    <3>2. all[m + k] = i
      BY <1>7, <2>1, <3>1
    <3> QED BY <3>1, <3>2 DEF ToSet
  <2>3. CASE ~(k <= c)
    <3>1. c < k /\ c # n
      BY <1>5, <2>3
    <3>2. c \in 1..n /\ next = ReservationKey(p, rows[c]) /\ rows[c] \in B
      BY <1>4, <1>5, <3>1
    <3>3. Under(p, rows[k], rows[c])
      BY <1>4, <3>1, <3>2
    <3> QED BY <1>2, <2>1, <3>2, <3>3 DEF Under
  <2> QED BY <2>2, <2>3
<1>13. ASSUME NEW i \in OwedOf(p, status, newest)
      PROVE  i \in ToSet(all) \/ (next # None /\ KeyBelow(ReservationKey(p, i), next))
  <2>1. i \in Invoices /\ HasStatus(p, i, status)
    BY DEF OwedOf
  <2>2. CASE i \in ToSet(shown)
    BY <1>11, <2>2
  <2>3. CASE i \notin ToSet(shown)
    <3>1. Precedes(ReservationKey(p, i), cursor)
      BY <2>3 DEF ListedOf, Precedes
    <3>2. i \in S
      BY <2>1, <3>1 DEF Candidates, S
    <3> QED BY <1>12, <3>2
  <2> QED BY <2>2, <2>3
<1> QED BY <1>7, <1>9, <1>10, <1>13, <1>17 DEF ListedOf, B

-------------------------------------------------------------------------------
(* The entries of an invoice.                                              *)

LEMMA InvoiceEntryCases ==
  ASSUME NEW P, NEW drafts, Advances(P, drafts), NEW p \in Programs, NEW i,
         Len(ledger[p]) \in Nat, DOMAIN ledger[p] = 1..Len(ledger[p])
  PROVE  /\ \A n \in InvoiceEntries(p, i)' :
              \/ n \in InvoiceEntries(p, i)
              \/ /\ p = P
                 /\ \E k \in DOMAIN drafts : /\ n = Len(ledger[p]) + k
                                             /\ drafts[k].component = "LOCAL"
                                             /\ drafts[k].origin = i
         /\ p = P => \A k \in DOMAIN drafts :
              drafts[k].component = "LOCAL" /\ drafts[k].origin = i =>
                Len(ledger[p]) + k \in InvoiceEntries(p, i)'
<1>1. CASE p # P
  <2>1. ledger'[p] = ledger[p]
    BY <1>1, Zenon DEF Advances, Grows
  <2>2. InvoiceEntries(p, i)' = InvoiceEntries(p, i)
    BY <2>1, Zenon DEF InvoiceEntries, EntriesOf
  <2> QED BY <1>1, <2>2
<1>2. CASE p = P
  <2> DEFINE L == Len(ledger[p])
             N == Len(drafts)
             M == Len(MarkEntries(program[p], drafts))
  <2>1. /\ L \in Nat /\ N \in Nat /\ M \in Nat
        /\ DOMAIN ledger[p] = 1..L /\ DOMAIN drafts = 1..N
        /\ DOMAIN ledger'[p] = 1..(L + N + M)
        /\ \A n \in 1..L : ledger'[p][n] = ledger[p][n]
        /\ \A k \in 1..N : Books(ledger'[p][L + k], drafts[k])
        /\ \A k \in 1..M : BooksMark(ledger'[p][L + N + k])
    <3>1. Grows(p, drafts)
      BY <1>2 DEF Advances
    <3> QED BY <3>1, Zenon DEF Grows
  <2>2. \A n : n \in InvoiceEntries(p, i)' <=>
                 /\ n \in DOMAIN ledger'[p]
                 /\ ledger'[p][n].component = "LOCAL" /\ ledger'[p][n].origin = i
    BY DEF InvoiceEntries, EntriesOf
  <2>3. \A n : n \in InvoiceEntries(p, i) <=>
                 /\ n \in DOMAIN ledger[p]
                 /\ ledger[p][n].component = "LOCAL" /\ ledger[p][n].origin = i
    BY DEF InvoiceEntries, EntriesOf
  <2> HIDE DEF L, N, M
  <2>4. ASSUME NEW n \in 1..(L + N + M),
               ledger'[p][n].component = "LOCAL", ledger'[p][n].origin = i
        PROVE  \/ n \in InvoiceEntries(p, i)
               \/ \E k \in DOMAIN drafts : /\ n = L + k
                                           /\ drafts[k].component = "LOCAL"
                                           /\ drafts[k].origin = i
    <3>1. CASE n <= L
      <4>1. n \in 1..L
        BY <2>1, <3>1
      <4> QED BY <2>1, <2>3, <2>4, <4>1
    <3>2. CASE n > L /\ n <= L + N
      <4>1. PICK k \in 1..N : n = L + k
        <5>1. n - L \in 1..N /\ n = L + (n - L)
          BY <2>1, <3>2
        <5> QED BY <5>1
      <4>2. Books(ledger'[p][n], drafts[k])
        BY <2>1, <4>1
      <4>3. drafts[k].component = "LOCAL" /\ drafts[k].origin = i /\ k \in DOMAIN drafts
        BY <2>1, <2>4, <4>2 DEF Books
      <4> QED BY <4>1, <4>3
    <3>3. CASE n > L + N
      <4>1. n - (L + N) \in 1..M /\ L + N + (n - (L + N)) = n
        BY <2>1, <3>3
      <4>2. BooksMark(ledger'[p][n])
        BY <2>1, <4>1
      <4> QED BY <2>4, <4>2 DEF BooksMark
    <3>4. n <= L \/ (n > L /\ n <= L + N) \/ n > L + N
      BY <2>1
    <3> QED BY <3>1, <3>2, <3>3, <3>4
  <2>5. ASSUME NEW k \in DOMAIN drafts, drafts[k].component = "LOCAL", drafts[k].origin = i
        PROVE  L + k \in InvoiceEntries(p, i)'
    <3>1. k \in 1..N /\ L + k \in 1..(L + N + M)
      BY <2>1
    <3> QED BY <2>1, <2>2, <2>5, <3>1 DEF Books
  <2> QED BY <1>2, <2>1, <2>2, <2>4, <2>5 DEF L
<1> QED BY <1>1, <1>2

(* Treasury books no LOCAL for an invoice.                                 *)
LEMMA TreasuryBooksNoLocal ==
  ASSUME Balanced, NEW w \in Workers, EventCommits(w) \/ SnapshotCommits(w)
  PROVE  /\ \E P, drafts : /\ Advances(P, drafts)
                           /\ \A k \in DOMAIN drafts : drafts[k].component # "LOCAL"
         /\ \A p \in Programs, i \in Invoices : SameHolding(reservation[p][i], reservation'[p][i])
<1>1. IInv
  BY DEF Balanced
<1>2. CASE EventCommits(w)
  <2> DEFINE d      == EventDraft(job[w], view[w])
             drafts == <<d>>
  <2>1. PICK P : P = job[w].program /\ Advances(P, drafts)
    BY <1>1, <1>2, EventAdvances
  <2>2. d.component # "LOCAL"
    BY DEF EventDraft
  <2>3. DOMAIN drafts = {1} /\ drafts[1] = d
    OBVIOUS
  <2> HIDE DEF d, drafts
  <2>4. \A p \in Programs, i \in Invoices : SameHolding(reservation[p][i], reservation'[p][i])
    <3>1. \A p \in Programs, i \in Invoices : reservation[p][i] \in ReservationRow \cup {None}
      BY <1>1 DEF IInv, TypeOK, TablesOK
    <3>2. UNCHANGED reservation
      BY <1>2 DEF EventCommits
    <3> QED BY <3>1, <3>2 DEF SameHolding, SameTerms, AcknowledgedFurther, ReservationRow
  <2>5. \A k \in DOMAIN drafts : drafts[k].component # "LOCAL"
    BY <2>2, <2>3
  <2> QED BY <2>1, <2>4, <2>5
<1>3. CASE SnapshotCommits(w)
  <2>1. PICK m, drafts : m = job[w] /\ drafts = SnapshotDrafts(m, view[w])
    OBVIOUS
  <2>2. /\ Advances(m.program, drafts)
        /\ \A k \in DOMAIN drafts : drafts[k].component = "LOCAL" => drafts[k].delta = 0
    BY <1>3, <2>1, SnapshotKeepsLocal
  <2>3. PICK a, b, c : drafts = NonZero(a) \o NonZero(b) \o NonZero(c)
    BY <2>1, Zenon DEF SnapshotDrafts
  <2> DEFINE D == {d \in {a, b, c} : d.delta # 0}
  <2>4. NonZero(a) \in Seq(D) /\ NonZero(b) \in Seq(D) /\ NonZero(c) \in Seq(D)
    <3>1. ASSUME NEW d \in {a, b, c} PROVE NonZero(d) \in Seq(D)
      <4>1. CASE d.delta = 0
        BY <4>1 DEF NonZero
      <4>2. CASE d.delta # 0
        <5>1. d \in D
          BY <4>2
        <5> HIDE DEF D
        <5>2. NonZero(d) = <<d>>
          BY <4>2 DEF NonZero
        <5> QED BY <5>1, <5>2
      <4> QED BY <4>1, <4>2
    <3> QED BY <3>1
  <2>5. \A d \in D : d.delta # 0
    OBVIOUS
  <2> HIDE DEF D
  <2>6. drafts \in Seq(D)
    BY <2>3, <2>4
  <2>7. \A k \in DOMAIN drafts : drafts[k] \in D
    BY <2>6, ElementOfSeq
  <2>8. \A k \in DOMAIN drafts : drafts[k].component # "LOCAL"
    <3>1. ASSUME NEW k \in DOMAIN drafts, drafts[k].component = "LOCAL" PROVE FALSE
      BY <2>2, <2>5, <2>7, <3>1
    <3> QED BY <3>1
  <2>9. \A p \in Programs, i \in Invoices : SameHolding(reservation[p][i], reservation'[p][i])
    BY <1>1, <1>3, SnapshotKeepsHoldings
  <2> QED BY <2>2, <2>8, <2>9
<1> QED BY <1>2, <1>3

(* A step books an entry for an invoice, the next one of its program, or   *)
(* leaves its row there or not, its status, and its entries.               *)
Touched(p, i) ==
  /\ reservation'[p][i] # None
  /\ Len(ledger[p]) + 1 \in InvoiceEntries(p, i)'

Untouched(p, i) ==
  /\ reservation'[p][i] = None <=> reservation[p][i] = None
  /\ reservation[p][i] # None => reservation'[p][i].status = reservation[p][i].status
  /\ InvoiceEntries(p, i)' \subseteq InvoiceEntries(p, i)

LEMMA CommandTouches ==
  ASSUME Balanced, NEW w \in Workers, CommandStep(w), NEW p \in Programs, NEW i \in Invoices
  PROVE  Touched(p, i) \/ Untouched(p, i)
<1>1. IInv /\ Len(ledger[p]) \in Nat /\ DOMAIN ledger[p] = 1..Len(ledger[p])
  BY DEF Balanced, IInv, TypeOK, TablesOK
<1>2. PICK delta \in Int, cause \in Causes, row \in ReservationRow :
        CommandCommits(w, delta, cause, row)
  BY DEF CommandStep
<1>3. PICK P, I : P = job[w].program /\ I = job[w].invoice
  OBVIOUS
<1>4. row # None
  BY NullAssumption
<1>5. reservation' = [reservation EXCEPT ![P][I] = row] /\ P \in Programs /\ I \in Invoices
  BY <1>2, <1>3, CommandsAssumption DEF CommandCommits
<1>6. reservation \in [Programs -> [Invoices -> ReservationRow \cup {None}]]
  BY <1>1 DEF IInv, TypeOK, TablesOK
<1>7. PICK d, drafts :
        /\ drafts = <<d>> /\ d.component = "LOCAL" /\ d.origin = I
        /\ Advances(P, drafts)
  <2>1. /\ LocalDraft(w, delta, cause) = <<CommandDraft(w, delta, cause)>>
        /\ Advances(P, LocalDraft(w, delta, cause))
    BY <1>1, <1>2, <1>3, CommandAdvances
  <2>2. CommandDraft(w, delta, cause).component = "LOCAL" /\ CommandDraft(w, delta, cause).origin = I
    BY <1>3 DEF CommandDraft
  <2> QED BY <2>1, <2>2, Zenon
<1>8. DOMAIN drafts = {1} /\ drafts[1] = d
  BY <1>7
<1>9. CASE p = P /\ i = I
  <2>1. reservation'[p][i] = row
    BY <1>5, <1>6, <1>9
  <2>2. Len(ledger[p]) + 1 \in InvoiceEntries(p, i)'
    BY <1>1, <1>7, <1>8, <1>9, InvoiceEntryCases
  <2> QED BY <1>4, <2>1, <2>2 DEF Touched
<1>10. CASE p # P \/ i # I
  <2>1. reservation'[p][i] = reservation[p][i]
    BY <1>5, <1>6, <1>10
  <2>2. \A n \in InvoiceEntries(p, i)' :
          \/ n \in InvoiceEntries(p, i)
          \/ p = P /\ \E k \in DOMAIN drafts : drafts[k].origin = i
    BY <1>1, <1>7, InvoiceEntryCases
  <2>3. ~(p = P /\ \E k \in DOMAIN drafts : drafts[k].origin = i)
    BY <1>7, <1>8, <1>10
  <2> QED BY <2>1, <2>2, <2>3 DEF Untouched
<1> QED BY <1>9, <1>10

LEMMA InvoicesTouched ==
  ASSUME Balanced, [Next]_system, NEW p \in Programs, NEW i \in Invoices
  PROVE  Touched(p, i) \/ Untouched(p, i)
<1>1. IInv /\ Len(ledger[p]) \in Nat /\ DOMAIN ledger[p] = 1..Len(ledger[p])
  BY DEF Balanced, IInv, TypeOK, TablesOK
<1>2. CASE Quiet
  <2>1. InvoiceEntries(p, i)' = InvoiceEntries(p, i)
    BY <1>2, Zenon DEF Quiet, InvoiceEntries, EntriesOf
  <2>2. SameHolding(reservation[p][i], reservation'[p][i])
    BY <1>2 DEF Quiet
  <2> QED BY <2>1, <2>2 DEF SameHolding, Untouched
<1>3. ASSUME NEW w \in Workers, EventCommits(w) \/ SnapshotCommits(w) PROVE Untouched(p, i)
  <2>1. PICK P, drafts : /\ Advances(P, drafts)
                         /\ \A k \in DOMAIN drafts : drafts[k].component # "LOCAL"
    BY <1>3, TreasuryBooksNoLocal
  <2>2. SameHolding(reservation[p][i], reservation'[p][i])
    BY <1>3, TreasuryBooksNoLocal
  <2>3. \A n \in InvoiceEntries(p, i)' :
          \/ n \in InvoiceEntries(p, i)
          \/ \E k \in DOMAIN drafts : drafts[k].component = "LOCAL"
    BY <1>1, <2>1, InvoiceEntryCases
  <2> QED BY <2>1, <2>2, <2>3 DEF SameHolding, Untouched
<1> QED BY <1>1, <1>2, <1>3, CommandTouches, NextCases

(* Only what has a row has entries.                                        *)
EntriesHaveRows ==
  \A p \in Programs, i \in Invoices : reservation[p][i] = None => InvoiceEntries(p, i) = {}

LEMMA RowsBehindEntries == Spec => []EntriesHaveRows
<1>1. Init => EntriesHaveRows
  <2> SUFFICES ASSUME Init, NEW p \in Programs, NEW i \in Invoices
               PROVE  InvoiceEntries(p, i) = {}
    BY DEF EntriesHaveRows
  <2>1. \A n \in DOMAIN ledger[p] : ledger[p][n].component # "LOCAL"
    <3>1. ledger[p] = SeededEntries(p)
      BY DEF Init, StoreInit, SeededEntries
    <3>2. DOMAIN ledger[p] = {1} /\ ledger[p][1].component = "LIMIT"
      BY <3>1, SeededProgram
    <3> QED BY <3>2
  <2> QED BY <2>1 DEF InvoiceEntries, EntriesOf
<1>2. Balanced /\ EntriesHaveRows /\ [Next]_system => EntriesHaveRows'
  <2> SUFFICES ASSUME Balanced, EntriesHaveRows, [Next]_system,
                      NEW p \in Programs, NEW i \in Invoices, reservation'[p][i] = None
               PROVE  InvoiceEntries(p, i)' = {}
    BY Zenon DEF EntriesHaveRows, InvoiceEntries, EntriesOf
  <2>1. Untouched(p, i)
    BY InvoicesTouched DEF Touched
  <2> QED BY <2>1 DEF Untouched, EntriesHaveRows
<1> QED BY <1>1, <1>2, BooksBalance, PTL DEF Spec

-------------------------------------------------------------------------------
(* Lists of reservations, and all that happens between their pages.        *)

(* Reservations keep their stamps, and new ones get one.                   *)
LEMMA StampsStay ==
  ASSUME ReadsIInv, StampsOK, [ReadsNext]_observed
  PROVE  /\ StampsOK'
         /\ \A p \in Programs : \A i \in Booked(p) : createdAt'[p][i] = createdAt[p][i]
<1>1. createdAt \in [Programs -> [Invoices -> Instants \cup {None}]]
  BY DEF StampsOK
<1>2. CASE UNCHANGED <<reservation, createdAt>>
  BY <1>2 DEF StampsOK, Booked
<1>3. ASSUME NEW now \in Instants, Stamp(now)
      PROVE  /\ StampsOK'
             /\ \A p \in Programs : \A i \in Booked(p) : createdAt'[p][i] = createdAt[p][i]
  <2>1. now # None
    BY ReadsAssumption
  <2>2. createdAt' = [p \in Programs |-> [i \in Invoices |->
                        IF createdAt[p][i] = None /\ reservation'[p][i] # None
                        THEN now ELSE createdAt[p][i]]]
    BY <1>3 DEF Stamp
  <2>3. \A p \in Programs, i \in Invoices :
          createdAt'[p][i] = IF createdAt[p][i] = None /\ reservation'[p][i] # None
                             THEN now ELSE createdAt[p][i]
    BY <2>2
  <2>4. createdAt' \in [Programs -> [Invoices -> Instants \cup {None}]]
    BY <1>1, <2>2
  <2>5. ASSUME NEW p \in Programs, NEW i \in Booked(p) PROVE createdAt'[p][i] = createdAt[p][i]
    <3>1. i \in Invoices /\ createdAt[p][i] # None
      BY DEF StampsOK, Booked
    <3> QED BY <2>3, <3>1
  <2>6. ASSUME NEW p \in Programs, NEW i \in Invoices, reservation'[p][i] # None
        PROVE  createdAt'[p][i] # None
    BY <2>1, <2>3, <2>6
  <2> QED BY <2>4, <2>5, <2>6 DEF StampsOK, Booked
<1>4. UNCHANGED <<reservation, createdAt>> \/ \E now \in Instants : Stamp(now)
  BY Zenon DEF ReadsNext, observed, system, vars, tables
<1> QED BY <1>2, <1>3, <1>4

LEMMA RowsAreStamped == ReadsSpec => []StampsOK
<1>1. ReadsInit => StampsOK
  <2> SUFFICES ASSUME ReadsInit PROVE StampsOK
    OBVIOUS
  <2>1. \A p \in Programs : Booked(p) = {}
    BY DEF ReadsInit, Init, StoreInit, Booked
  <2> QED BY <2>1 DEF ReadsInit, StampsOK
<1>2. ReadsIInv /\ StampsOK /\ [ReadsNext]_observed => StampsOK'
  BY StampsStay
<1> QED BY <1>1, <1>2, ReadsInvariance, PTL DEF ReadsSpec

(* What happens between two pages: nothing more is owed, and keys stay.    *)
LEMMA ReservationListStays ==
  ASSUME ReadsIInv, EntriesHaveRows, StampsOK, [ReadsNext]_observed, NEW p \in Programs,
         NEW newest \in 0..Len(ledger[p]), NEW status, NEW shown, NEW cursor,
         ListedOf(p, status, newest, shown, cursor)
  PROVE  ListedOf(p, status, newest, shown, cursor)'
<1>1. Balanced /\ [Next]_system
  BY ReadsAreSteps DEF ReadsIInv
<1>2. \A i \in Booked(p) : createdAt'[p][i] = createdAt[p][i]
  BY StampsStay
<1>3. /\ Len(ledger[p]) \in Nat /\ Len(ledger'[p]) \in Nat
      /\ DOMAIN ledger[p] = 1..Len(ledger[p]) /\ DOMAIN ledger'[p] = 1..Len(ledger'[p])
      /\ \A n \in 1..Len(ledger[p]) : ledger'[p][n] = ledger[p][n]
  BY <1>1, LedgerStays
<1>4. Booked(p) \subseteq Booked(p)'
  <2>1. \A i \in Invoices : Touched(p, i) \/ Untouched(p, i)
    BY <1>1, InvoicesTouched
  <2> QED BY <2>1 DEF Touched, Untouched, Booked
<1>5. \A i \in Booked(p) : ReservationKey(p, i)' = ReservationKey(p, i)
  BY <1>2 DEF ReservationKey
<1>6. OwedOf(p, status, newest)' \subseteq OwedOf(p, status, newest)
  <2> SUFFICES ASSUME NEW i \in OwedOf(p, status, newest)' PROVE i \in OwedOf(p, status, newest)
    OBVIOUS
  <2>1. PICK L \in Nat : L = Len(ledger[p])
    BY <1>3
  <2>2. newest \in Nat /\ newest <= L
    BY <2>1
  <2>3. i \in Invoices /\ HasStatus(p, i, status)'
    BY DEF OwedOf
  <2>4. PICK n \in InvoiceEntries(p, i)' : n <= newest
    BY DEF OwedOf
  <2>5. status = None \/ \A k \in InvoiceEntries(p, i)' : k <= newest
    BY DEF OwedOf
  <2>6. ASSUME NEW k, k <= L
        PROVE  k \in InvoiceEntries(p, i)' <=> k \in InvoiceEntries(p, i)
    <3>1. k \in DOMAIN ledger'[p] <=> k \in DOMAIN ledger[p]
      BY <1>1, <1>3, <2>1, <2>6, LedgerStays
    <3>2. k \in DOMAIN ledger[p] => ledger'[p][k] = ledger[p][k]
      BY <1>3
    <3> QED BY <3>1, <3>2 DEF InvoiceEntries, EntriesOf
  <2>7. n \in Nat /\ n <= L
    BY <1>3, <2>2, <2>4 DEF InvoiceEntries, EntriesOf
  <2>8. n \in InvoiceEntries(p, i)
    BY <2>4, <2>6, <2>7
  <2>9. reservation[p][i] # None
    BY <2>3, <2>8 DEF EntriesHaveRows
  <2>10. ASSUME status # None
         PROVE  /\ reservation[p][i].status = status
                /\ \A k \in InvoiceEntries(p, i) : k <= newest
    <3>1. Untouched(p, i)
      <4>1. ~(L + 1 <= newest)
        BY <2>2
      <4>2. Len(ledger[p]) + 1 \notin InvoiceEntries(p, i)'
        BY <2>1, <2>5, <2>10, <4>1
      <4> QED BY <1>1, <2>3, <4>2, InvoicesTouched DEF Touched
    <3>2. reservation[p][i].status = status
      BY <2>3, <2>9, <2>10, <3>1 DEF Untouched, HasStatus
    <3>3. ASSUME NEW k \in InvoiceEntries(p, i) PROVE k <= newest
      <4>1. k <= L
        BY <1>3, <2>1 DEF InvoiceEntries, EntriesOf
      <4> QED BY <2>5, <2>6, <2>10, <4>1
    <3> QED BY <3>2, <3>3
  <2>11. HasStatus(p, i, status)
    BY <2>9, <2>10 DEF HasStatus
  <2> QED BY <2>3, <2>4, <2>8, <2>10, <2>11 DEF OwedOf
<1>7. shown \in Seq(Booked(p)') /\ IsInjective(shown)
  BY <1>4 DEF ListedOf
<1>8. cursor = None \/ AtCursor(p, shown, cursor)'
  <2> SUFFICES ASSUME cursor # None PROVE AtCursor(p, shown, cursor)'
    OBVIOUS
  <2>1. PICK i \in Booked(p) : /\ cursor = ReservationKey(p, i)
                               /\ \A k \in 1..Len(shown) : ~Under(p, shown[k], i)
    BY DEF ListedOf, AtCursor
  <2>2. \A k \in 1..Len(shown) : shown[k] \in Booked(p)
    BY DEF ListedOf
  <2>3. \A k \in 1..Len(shown) : ~Under(p, shown[k], i)'
    BY <1>5, <2>1, <2>2 DEF Under
  <2>4. cursor = ReservationKey(p, i)' /\ i \in Booked(p)'
    BY <1>4, <1>5, <2>1
  <2> QED BY <2>3, <2>4 DEF AtCursor
<1>9. ASSUME NEW i \in OwedOf(p, status, newest)'
      PROVE  i \in ToSet(shown) \/ (cursor # None /\ KeyBelow(ReservationKey(p, i)', cursor))
  <2>1. i \in OwedOf(p, status, newest) /\ i \in Booked(p)
    BY <1>6 DEF OwedOf, HasStatus, Booked
  <2> QED BY <1>5, <2>1 DEF ListedOf
<1> QED BY <1>7, <1>8, <1>9, Zenon DEF ListedOf, KeyBelow

(* The inductive invariant of a list of reservations.                      *)
ReservationListOK ==
  IsList("reservations") =>
    /\ reader = [kind |-> "reservations", program |-> reader.program, filter |-> reader.filter,
                 cursor |-> reader.cursor, shown |-> reader.shown, newest |-> reader.newest]
    /\ reader.program \in Programs /\ reader.newest \in 0..Len(ledger[reader.program])
    /\ ListedOf(reader.program, reader.filter, reader.newest, reader.shown, reader.cursor)

LEMMA ReservationListTurns ==
  ASSUME NEW p, NEW status, NEW cursor, NEW shown, NEW newest, NEW page,
         reader' = Turn([kind |-> "reservations", program |-> p, filter |-> status,
                         cursor |-> cursor, shown |-> shown, newest |-> newest], page),
         p \in Programs, newest \in 0..Len(ledger[p]), UNCHANGED <<system, createdAt>>,
         ListedOf(p, status, newest, shown \o page.items, page.nextCursor)
  PROVE  ReservationListOK'
<1>1. reader' = [kind |-> "reservations", program |-> p, filter |-> status,
                 cursor |-> page.nextCursor, shown |-> shown \o page.items, newest |-> newest]
  BY DEF Turn
<1>2. UNCHANGED <<ledger, reservation, createdAt>>
  BY DEF system, vars, tables
<1>3. /\ reader'.program = p /\ reader'.filter = status /\ reader'.cursor = page.nextCursor
      /\ reader'.shown = shown \o page.items /\ reader'.newest = newest
  BY <1>1
<1>4. reader' = [kind |-> "reservations", program |-> reader'.program, filter |-> reader'.filter,
                 cursor |-> reader'.cursor, shown |-> reader'.shown, newest |-> reader'.newest]
  BY <1>1
<1>5. ListedOf(reader.program, reader.filter, reader.newest, reader.shown, reader.cursor)'
  <2>1. PICK all, next : all = shown \o page.items /\ next = page.nextCursor
    OBVIOUS
  <2>2. ListedOf(p, status, newest, all, next)
    BY <2>1
  <2>3. ListedOf(p, status, newest, all, next)'
    <3>1. Booked(p)' = Booked(p) /\ \A i : ReservationKey(p, i)' = ReservationKey(p, i)
      BY <1>2 DEF Booked, ReservationKey
    <3>2. OwedOf(p, status, newest)' = OwedOf(p, status, newest)
      BY <1>2 DEF OwedOf, HasStatus, InvoiceEntries, EntriesOf
    <3>3. AtCursor(p, all, next)' <=> AtCursor(p, all, next)
      BY <3>1 DEF AtCursor, Under, KeyBelow
    <3> QED BY <2>2, <3>1, <3>2, <3>3, Zenon DEF ListedOf, KeyBelow
  <2>4. /\ reader'.program = p /\ reader'.filter = status /\ reader'.cursor = next
        /\ reader'.shown = all /\ reader'.newest = newest
    BY <1>3, <2>1
  <2> QED BY ONLY <2>3, <2>4, ZenonT(30)
     DEF ListedOf, AtCursor, Under, KeyBelow, ReservationKey, Booked, OwedOf, HasStatus,
         InvoiceEntries, EntriesOf
<1> QED BY <1>2, <1>3, <1>4, <1>5 DEF ReservationListOK

LEMMA LedgerKindsStay ==
  ASSUME AuditIsFair,
         \/ \E p, query, limit : ListLedger(p, query, limit)
         \/ \E limit : NextLedger(limit)
  PROVE  reader'.kind = "ledger"
<1>1. ASSUME NEW p, NEW query, NEW limit, ListLedger(p, query, limit)
      PROVE  reader'.kind = "ledger"
  <2>1. PICK page : reader' = Turn([kind |-> "ledger", program |-> p, filter |-> query,
                                    cursor |-> None, shown |-> <<>>, newest |-> Len(ledger[p])], page)
    BY <1>1, Zenon DEF ListLedger
  <2> QED BY <2>1 DEF Turn
<1>2. ASSUME NEW limit, NextLedger(limit) PROVE reader'.kind = "ledger"
  <2>1. "kind" \in DOMAIN reader /\ reader.kind = "ledger"
    BY <1>2 DEF NextLedger, IsList, AuditIsFair
  <2>2. PICK page : reader' = Turn(reader, page)
    BY <1>2, Zenon DEF NextLedger
  <2> QED BY <2>1, <2>2 DEF Turn
<1> QED BY <1>1, <1>2

LEMMA ReservationListNextKeeps ==
  ASSUME ReadsIInv, EntriesHaveRows, StampsOK, ReservationListOK, [ReadsNext]_observed
  PROVE  ReservationListOK'
<1>1. Balanced /\ AuditIsFair /\ IInv /\ BookedFinite
  BY DEF ReadsIInv, Balanced, Holding
<1>2. [Next]_system
  BY <1>1, ReadsAreSteps DEF ReadsIInv
<1>3. CASE UNCHANGED reader
  <2> SUFFICES ASSUME IsList("reservations") PROVE ReservationListOK'
    BY <1>3, Zenon DEF ReservationListOK, IsList
  <2>1. /\ reader = [kind |-> "reservations", program |-> reader.program, filter |-> reader.filter,
                     cursor |-> reader.cursor, shown |-> reader.shown, newest |-> reader.newest]
        /\ reader.program \in Programs /\ reader.newest \in 0..Len(ledger[reader.program])
        /\ ListedOf(reader.program, reader.filter, reader.newest, reader.shown, reader.cursor)
    BY DEF ReservationListOK
  <2>2. PICK p, status, newest, shown, cursor :
          /\ p = reader.program /\ status = reader.filter /\ newest = reader.newest
          /\ shown = reader.shown /\ cursor = reader.cursor
          /\ p \in Programs /\ newest \in 0..Len(ledger[p])
    BY <2>1
  <2>3. ListedOf(p, status, newest, shown, cursor)
    BY <2>1, <2>2, Zenon
  <2>4. ListedOf(p, status, newest, shown, cursor)'
    BY <2>2, <2>3, ReservationListStays
  <2>5. newest \in 0..Len(ledger'[p])
    <3>1. Len(ledger[p]) \in Nat /\ Len(ledger'[p]) \in Nat /\ Len(ledger[p]) <= Len(ledger'[p])
      BY <1>1, <1>2, <2>2, LedgerStays
    <3> QED BY <2>2, <3>1
  <2>6. ListedOf(reader.program, reader.filter, reader.newest, reader.shown, reader.cursor)'
    <3>1. /\ reader'.program = p /\ reader'.filter = status /\ reader'.cursor = cursor
          /\ reader'.shown = shown /\ reader'.newest = newest
      BY <1>3, <2>2, Zenon
    <3> QED BY <2>4, <3>1, Zenon
       DEF ListedOf, AtCursor, Under, KeyBelow, ReservationKey, Booked, OwedOf, HasStatus,
           InvoiceEntries, EntriesOf
  <2> QED BY <1>3, <2>1, <2>2, <2>5, <2>6, Zenon DEF ReservationListOK
<1>4. ASSUME Read, UNCHANGED <<system, createdAt>> PROVE ReservationListOK'
  <2>1. ASSUME NEW p \in Programs, NEW status, NEW limit \in PageLimits,
               ListReservations(p, status, limit)
        PROVE  ReservationListOK'
    <3> DEFINE list == [kind |-> "reservations", program |-> p, filter |-> status,
                        cursor |-> None, shown |-> <<>>, newest |-> Len(ledger[p])]
    <3>1. PICK page : page = ReservationPage(list, limit)
      OBVIOUS
    <3>2. reader' = Turn(list, page)
      BY <2>1, <3>1, Zenon DEF ListReservations
    <3>3. page = PageFrom(NewestReservations(p, status, None), limit,
                          [i \in Invoices |-> ReservationKey(p, i)])
      BY <3>1 DEF ReservationPage
    <3>4. PICK newest, shown, cursor : newest = Len(ledger[p]) /\ shown = <<>> /\ cursor = None
      OBVIOUS
    <3>5. newest \in 0..Len(ledger[p]) /\ IsFiniteSet(Booked(p)) /\ limit \in Nat \ {0}
      BY <1>1, <3>4, ReadsAssumption DEF BookedFinite, IInv, TypeOK, TablesOK
    <3>6. page = PageFrom(NewestReservations(p, status, cursor), limit,
                          [i \in Invoices |-> ReservationKey(p, i)])
      BY <3>3, <3>4
    <3>7. ListedOf(p, status, newest, shown \o page.items, page.nextCursor)
      BY ONLY <3>4, <3>5, <3>6, StampsOK, p \in Programs, ReservationPageGoesOn
    <3>8. reader' = Turn([kind |-> "reservations", program |-> p, filter |-> status,
                          cursor |-> cursor, shown |-> shown, newest |-> newest], page)
      BY <3>2, <3>4
    <3> QED BY <1>4, <3>5, <3>7, <3>8, ReservationListTurns
  <2>2. ASSUME IsList("reservations"), NEW limit \in PageLimits, NextReservations(limit)
        PROVE  ReservationListOK'
    <3>1. PICK page : page = ReservationPage(reader, limit)
      OBVIOUS
    <3>2. reader' = Turn(reader, page) /\ reader.cursor # None
      BY <2>2, <3>1 DEF NextReservations
    <3>3. /\ reader = [kind |-> "reservations", program |-> reader.program, filter |-> reader.filter,
                       cursor |-> reader.cursor, shown |-> reader.shown, newest |-> reader.newest]
          /\ reader.program \in Programs /\ reader.newest \in 0..Len(ledger[reader.program])
          /\ ListedOf(reader.program, reader.filter, reader.newest, reader.shown, reader.cursor)
      BY <2>2 DEF ReservationListOK
    <3>4. PICK p, status, newest, cursor, shown :
            /\ p \in Programs /\ newest \in 0..Len(ledger[p])
            /\ p = reader.program /\ status = reader.filter /\ newest = reader.newest
            /\ cursor = reader.cursor /\ shown = reader.shown
      BY <3>3
    <3>5. cursor # None /\ ListedOf(p, status, newest, shown, cursor)
      BY <3>2, <3>3, <3>4, Zenon
    <3>6. page = PageFrom(NewestReservations(p, status, cursor), limit,
                          [i \in Invoices |-> ReservationKey(p, i)])
      BY <3>1, <3>4 DEF ReservationPage
    <3>7. IsFiniteSet(Booked(p)) /\ limit \in Nat \ {0} /\ p \in Programs /\ StampsOK
      BY <1>1, <3>4, ReadsAssumption DEF BookedFinite
    <3>8. ListedOf(p, status, newest, shown \o page.items, page.nextCursor)
      BY ONLY <3>5, <3>6, <3>7, ReservationPageGoesOn
    <3>9. reader' = Turn([kind |-> "reservations", program |-> p, filter |-> status,
                          cursor |-> cursor, shown |-> shown, newest |-> newest], page)
      BY <3>2, <3>3, <3>4
    <3> QED BY <1>4, <3>4, <3>8, <3>9, ReservationListTurns
  <2>3. ASSUME reader'.kind = "audit" PROVE ReservationListOK'
    BY <2>3 DEF ReservationListOK, IsList
  <2>4. ASSUME reader'.kind = "ledger" PROVE ReservationListOK'
    BY <2>4 DEF ReservationListOK, IsList
  <2>5. ASSUME \/ \E p, query, limit : ListLedger(p, query, limit)
               \/ \E limit : NextLedger(limit)
        PROVE  reader'.kind = "ledger"
    BY <1>1, <2>5, LedgerKindsStay
  <2> QED BY <1>1, <1>4, <2>1, <2>2, <2>3, <2>4, <2>5, ReadCases
<1>5. UNCHANGED reader \/ (Read /\ UNCHANGED <<system, createdAt>>)
  BY Zenon DEF ReadsNext, observed, reads
<1> QED BY <1>3, <1>4, <1>5

LEMMA ReservationListsAreOK == ReadsSpec => []ReservationListOK
<1>1. ReadsInit => ReservationListOK
  BY DEF ReadsInit, ReservationListOK, IsList
<1>2. ReadsIInv /\ EntriesHaveRows /\ StampsOK /\ ReservationListOK /\ [ReadsNext]_observed
        => ReservationListOK'
  BY ReservationListNextKeeps
<1> QED BY <1>1, <1>2, ReadsInvariance, ReadersDisturbNothing, RowsBehindEntries,
           RowsAreStamped, PTL DEF ReadsSpec

(* A list of reservations shows none twice and, by its end, every one it   *)
(* owes its reader: those that were there at its first page and, if it     *)
(* asks for a status, have it and have not moved since. Instants may       *)
(* collide, and the clocks of the instances disagree.                      *)
THEOREM ReservationPagesMissNothing == ReadsSpec => []ReservationListIsComplete
<1>1. ReservationListOK => ReservationListIsComplete
  <2> SUFFICES ASSUME ReservationListOK, IsList("reservations")
               PROVE  /\ IsInjective(reader.shown)
                      /\ reader.cursor = None => Owed \subseteq ToSet(reader.shown)
    BY Zenon DEF ReservationListIsComplete
  <2>1. ListedOf(reader.program, reader.filter, reader.newest, reader.shown, reader.cursor)
    BY DEF ReservationListOK
  <2>2. Owed = OwedOf(reader.program, reader.filter, reader.newest)
    BY Zenon DEF Owed, OwedOf
  <2> QED BY <2>1, <2>2, Zenon DEF ListedOf
<1> QED BY <1>1, ReservationListsAreOK, PTL
==============================================================================
