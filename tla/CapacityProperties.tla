--------------------------- MODULE CapacityProperties ---------------------------
(***************************************************************************)
(* What the capacity service promises, over CapacitySystem.                *)
(***************************************************************************)
EXTENDS CapacitySystem

Minor == 0..MaxMinor

ProgramRow ==
  [limit : Minor, local : Minor, treasury : Minor, nextSequence : Nat,
   overLimit : BOOLEAN, treasuryVersion : Nat, investigationRequired : BOOLEAN,
   positionVerified : BOOLEAN]

ReservationRow ==
  [status : {"ACTIVE", "PARTIALLY_RELEASED"} \cup TerminalStatuses,
   currency : {c.currency : c \in Commands}, rate : Nat \ {0},
   amount : Minor, reserved : Minor, outstandingInvoice : Minor,
   outstandingReserved : Minor, treasuryReference : TreasuryReferences \cup {None},
   acknowledgedBy : Nat \cup {None}, confirmedAt : Nat]

Causes ==
  {"RESERVATION", "RELEASE", "CANCELLATION", "WRITE_OFF", "TREASURY_EVENT", "LIMIT_CHANGE",
   "RECONCILIATION_ADJUSTMENT", "OVER_LIMIT_ONSET", "OVER_LIMIT_CLEARED"}

EntryRow ==
  [sequence : Nat, delta : Bigint, component : Components, cause : Causes,
   origin : Invoices \cup MessageIds \cup TreasuryReferences \cup {None},
   actor : {"seed", "caller", "treasury", "system"},
   correlationId : RequestIds \cup MessageIds \cup {None}, occurredAt : Nat]

Outcome ==
  [reservation : ReservationRow, available : Int, reserved : Int, overLimit : BOOLEAN]

RequestRow ==
  [operation : Operations, fingerprint : {Fingerprint(c) : c \in Commands},
   state : {"COMPLETE", "EXPIRED"}, outcome : Outcome \cup {None}]

(* NULL is no number and no row.                                           *)
ASSUME NullAssumption ==
  /\ None \notin Nat \cup ReservationRow \cup RequestRow
  /\ None \notin {ProcessedRow(m) : m \in Messages}

TablesOK ==
  /\ program \in [Programs -> ProgramRow]
  /\ reservation \in [Programs -> [Invoices -> ReservationRow \cup {None}]]
  /\ ledger \in [Programs -> Seq(EntryRow)]
  /\ request \in [RequestIds -> RequestRow \cup {None}]
  /\ processed \in [MessageIds -> {ProcessedRow(m) : m \in Messages} \cup {None}]
  /\ streamPosition \in [Programs -> [Topics -> [offset : Int, updatedAt : Nat]]]

SessionsOK ==
  /\ pc \in [Workers -> {"idle", "waiting", "locked", "begun"}]
  /\ job \in [Workers -> Commands \cup Messages \cup {None}]
  /\ view \in [Workers -> ProgramRow \cup {None}]
  /\ \A w \in Workers :
       /\ pc[w] # "idle" => job[w] \in Commands \cup Messages /\ job[w].program \in Programs
       /\ pc[w] = "waiting" => job[w] \in Messages
       /\ pc[w] = "begun" => job[w] \in Commands

(* Every row is one the columns and CHECKs of the schema admit, no one     *)
(* ever sees a PENDING request, and a session in a transaction works on a  *)
(* program that exists.                                                    *)
TypeOK == TablesOK /\ SessionsOK /\ flagging \subseteq Programs

-------------------------------------------------------------------------------
(* The lock.                                                               *)

(* One transaction at a time works on a program, and the row it read when  *)
(* it took the lock is still the row in the table when it acts on it.      *)
LockedViewIsCurrent ==
  \A w \in Workers : InTransaction(w) =>
    /\ view[w] = program[job[w].program]
    /\ \A v \in Workers \ {w} : InTransaction(v) => job[v].program # job[w].program

-------------------------------------------------------------------------------
(* The ledger and the position cached from it.                             *)

(* Sequences of a program count from 1 with no gap, and the program row    *)
(* names the next one: the paging cursor of the audit relies on it.        *)
LedgerGapless ==
  \A p \in Programs :
    /\ \A n \in DOMAIN ledger[p] : ledger[p][n].sequence = n
    /\ program[p].nextSequence = Len(ledger[p]) + 1

EntriesOf(p, component) == {n \in DOMAIN ledger[p] : ledger[p][n].component = component}

LedgerTotal(p, entries) == SumFunctionOnSet([n \in entries |-> ledger[p][n].delta], entries)

(* FR-019a: replaying the ledger gives the figures of the program row.     *)
LedgerExplainsPosition ==
  \A p \in Programs :
    /\ program[p].limit    = LedgerTotal(p, EntriesOf(p, "LIMIT"))
    /\ program[p].local    = LedgerTotal(p, EntriesOf(p, "LOCAL"))
    /\ program[p].treasury = LedgerTotal(p, EntriesOf(p, "TREASURY"))

(* The over-limit mark is set exactly while the position is over the limit *)
OverLimitMarkExact ==
  \A p \in Programs : program[p].overLimit = IsOverLimit(program[p])

MarksOf(p) ==
  {n \in DOMAIN ledger[p] : ledger[p][n].cause \in {"OVER_LIMIT_ONSET", "OVER_LIMIT_CLEARED"}}

(* The last mark among the first n entries is an onset.                    *)
OverLimitThrough(p, n) ==
  \E k \in MarksOf(p) : /\ k <= n /\ \A j \in MarksOf(p) : j <= n => j <= k
                        /\ ledger[p][k].cause = "OVER_LIMIT_ONSET"

(* and the ledger tells its history: onsets and clearances alternate, and  *)
(* the last of them agrees with the mark.                                  *)
MarkHistoryAlternates ==
  \A p \in Programs :
    /\ \A n \in MarksOf(p) :
         (ledger[p][n].cause = "OVER_LIMIT_ONSET") = ~OverLimitThrough(p, n - 1)
    /\ program[p].overLimit = OverLimitThrough(p, Len(ledger[p]))

-------------------------------------------------------------------------------
(* Reservations.                                                           *)

Live(p) ==
  {i \in Booked(p) : reservation[p][i].status \in {"ACTIVE", "PARTIALLY_RELEASED"}}

(* What ReconciliationCheckService.check looks for and never finds: the    *)
(* LOCAL component is what the live reservations still hold (FR-019b).     *)
LocalIsLiveOutstanding ==
  \A p \in Programs : program[p].local = Outstanding(p, Live(p))

(* The entries booked for an invoice.                                      *)
InvoiceEntries(p, i) == {n \in EntriesOf(p, "LOCAL") : ledger[p][n].origin = i}

(* The LOCAL entries booked for an invoice net to what it still holds: an  *)
(* invoice repaid or cancelled has given back exactly what it took.        *)
InvoiceLedgerNets ==
  \A p \in Programs, i \in Invoices :
    LedgerTotal(p, InvoiceEntries(p, i)) =
      IF reservation[p][i] = None THEN 0 ELSE reservation[p][i].outstandingReserved

(* FR-004, SC-001, SC-001a: a reservation is only ever booked on a         *)
(* verified program that was not over its limit, and it leaves the total   *)
(* reserved, by us and by treasury, within the limit.                      *)
ReserveNeverOversells ==
  [][\A p \in Programs :
       (\E i \in Invoices : reservation[p][i] = None /\ reservation'[p][i] # None) =>
         /\ program[p].positionVerified /\ ~IsOverLimit(program[p])
         /\ TotalReserved(program'[p]) <= program'[p].limit]_system

(* FR-019e: nothing is taken from or returned to an unverified program.    *)
UnverifiedIsFrozen ==
  [][\A p \in Programs : ~program[p].positionVerified =>
       program'[p].local = program[p].local]_system

-------------------------------------------------------------------------------
(* The abstract promise.                                                   *)

Held(p, i) ==
  IF reservation[p][i] = None THEN None ELSE reservation[p][i].outstandingReserved

(* What the committed rows tell of a program, of its invoices, of a        *)
(* request and of a message.                                               *)
Facilities ==
  [p \in Programs |->
     [limit |-> program[p].limit, local |-> program[p].local,
      treasury |-> program[p].treasury, verified |-> program[p].positionVerified]]

Holdings == [p \in Programs |-> [i \in Invoices |-> Held(p, i)]]

AcceptedOperations ==
  [k \in RequestIds |-> IF request[k] = None THEN None ELSE request[k].operation]

CountedKinds ==
  [m \in MessageIds |-> IF processed[m] = None THEN None ELSE processed[m].kind]

Facility == INSTANCE CreditFacility WITH
  facility <- Facilities, held <- Holdings,
  accepted <- AcceptedOperations, counted <- CountedKinds

(* The tables, their locks and all sessions implement the credit facility: *)
(* seen through the committed rows, every step of the service is one       *)
(* request or one message acting once, on one program, or nothing.         *)
ImplementsCreditFacility == Facility!FacilitySpec

-------------------------------------------------------------------------------
(* Idempotency.                                                            *)

(* The ledger entries a request identifier has booked, over all programs.  *)
EffectsOf(k) ==
  UNION {{p} \X {n \in DOMAIN ledger[p] : /\ ledger[p][n].actor = "caller"
                                         /\ ledger[p][n].correlationId = k} :
           p \in Programs}

(* FR-006, SC-005: a request identifier is recorded exactly when it has    *)
(* had its effect, and it has it once, whatever is resent, crashes, races  *)
(* or expires.                                                             *)
RequestTakesEffectOnce ==
  \A k \in RequestIds :
    Cardinality(EffectsOf(k)) = IF request[k] = None THEN 0 ELSE 1

(* A positive answer, the first or a replay, goes to a caller that asked   *)
(* for the operation on record with the content on record, and carries the *)
(* outcome on record: a reserve and a release hash the same fields, so one *)
(* identifier sent for both is told apart by the operation alone.          *)
AnswerIsOnRecord ==
  answer # None /\ answer.kind \in {"created", "replayed"} =>
    LET record == request[answer.to.id]
    IN  /\ record.state = "COMPLETE" /\ record.outcome = answer.outcome
        /\ record.operation = answer.to.operation
        /\ record.fingerprint = Fingerprint(answer.to)

PositionThrough(p, n, component) ==
  LedgerTotal(p, {k \in EntriesOf(p, component) : k <= n})

(* The outcome replayed to a retry is what the ledger said right after the *)
(* request had its effect: the availability of that instant, not a later.  *)
OutcomeMatchesLedger ==
  \A k \in RequestIds : request[k] # None /\ request[k].state = "COMPLETE" =>
    \A effect \in EffectsOf(k) :
      LET p == effect[1]
          n == effect[2]
          reserved == PositionThrough(p, n, "LOCAL") + PositionThrough(p, n, "TREASURY")
      IN  /\ request[k].outcome.reserved = reserved
          /\ request[k].outcome.available = PositionThrough(p, n, "LIMIT") - reserved

(* No command is ever failed by the schema: the policies and the lock      *)
(* refuse everything the constraints would.                                *)
BackstopNeverTrips ==
  answer # None /\ answer.to \in Commands => answer.kind # "failed"

-------------------------------------------------------------------------------
(* Treasury.                                                               *)

(* Two messages processed for one program and kind have different          *)
(* versions: no index says so, only the check repeated under the lock.     *)
OneMessagePerVersion ==
  \A id \in MessageIds : processed[id] # None =>
    \A other \in MessageIds \ {id} : processed[other] # None =>
      <<processed[id].program, processed[id].kind, processed[id].version>> #
        <<processed[other].program, processed[other].kind, processed[other].version>>

(* FR-013: what treasury moved was moved by a message recorded as          *)
(* processed, and an event moved it at most once however often delivered.  *)
MessageTakesEffectOnce ==
  \A p \in Programs, id \in MessageIds :
    LET effects == {n \in DOMAIN ledger[p] : /\ ledger[p][n].actor = "treasury"
                                             /\ ledger[p][n].correlationId = id}
    IN  /\ effects # {} => processed[id] # None /\ processed[id].program = p
        /\ Cardinality(effects) <=
             IF processed[id] # None /\ processed[id].kind = "SNAPSHOT" THEN 2 ELSE 1

Unacknowledged(p) == {i \in Booked(p) : reservation[p][i].acknowledgedBy = None}

(* FR-011a, SC-006: an applied snapshot is no older than the last one, and *)
(* leaves the program verified, at treasury's limit, holding treasury's    *)
(* total plus the reservations of ours that it has not acknowledged yet. A *)
(* snapshot as old as the row is the first of its version, such as the 0 a *)
(* program starts with; that there is one of each is OneMessagePerVersion. *)
SnapshotConverges ==
  [][\A m \in Messages :
       (answer' # None /\ answer'.to = m /\ answer'.kind = "applied" /\ m.kind = "SNAPSHOT") =>
         LET row == program'[m.program]
         IN  /\ row.treasuryVersion = m.version
             /\ program[m.program].treasuryVersion <= m.version
             /\ row.positionVerified
             /\ row.limit = m.limit
             /\ TotalReserved(row) = m.reserved +
                  Outstanding(m.program, Unacknowledged(m.program))']_system

(* The acknowledgement of a reservation is never taken back, and never     *)
(* overwritten by an older marker (FR-011e).                               *)
AcknowledgementOnlyAdvances ==
  [][\A p \in Programs, i \in Invoices :
       reservation[p][i] # None /\ reservation[p][i].acknowledgedBy # None =>
         /\ reservation'[p][i].acknowledgedBy # None
         /\ reservation[p][i].acknowledgedBy <= reservation'[p][i].acknowledgedBy]_system

-------------------------------------------------------------------------------
(* A statement of the documents that the code does not keep.               *)

ProcessedLimits(p) ==
  {m \in Messages : /\ m.kind = "EVENT" /\ m.program = p /\ m.type = "LIMIT_CHANGED"
                    /\ processed[m.id] = ProcessedRow(m)}

(* research.md: "out-of-order delivery is safe either way": with no        *)
(* snapshot applied, the limit is the one the newest processed             *)
(* LIMIT_CHANGED event asserts.                                            *)
LimitIsNewestAsserted ==
  \A p \in Programs : \A m \in ProcessedLimits(p) :
    (\A other \in ProcessedLimits(p) : other.version <= m.version) =>
      program[p].limit = m.amount
=============================================================================
