# Verification of the invoice-reservation capacity service

TLA+ modules of the service in `../src`, the TLC runs that check them on small
instances, and theorems that the TLA+ proof system checks for every instance.
`PROJECT.json` lists the components, runs, mutants, findings, hazards and
theorems, and maps every definition to the lines it models.

## 1. The system

The service keeps, for every financing *program*, a credit limit and two
reserved amounts: LOCAL (booked here, invoice by invoice) and TREASURY (booked by
the treasury system). Callers reserve, release and cancel over HTTP; treasury
reports bookings and limit changes as *events*, and now and then a *snapshot* of
what it believes, over two Kafka topics. All state is in PostgreSQL.

| Component | State | Operations | Correct when |
| --- | --- | --- | --- |
| Money (`shared/money`) | none | `convert`, `roundHalfUp` | one rounding per conversion, something never becomes nothing unnoticed |
| Position (`capacity/domain`) | the program row's components, sequence, mark | `advancePosition` | row = replay of the ledger; mark set exactly while over the limit |
| Policies (`capacity/domain/policies`) | none | reserve, release, cancel, snapshot | never oversell; rounding neither leaks nor strands capacity |
| Unit of work, schema | all tables, row locks | `withProgramLock`, `persistAdvance`, CHECKs, trigger | one transaction at a time per program; the schema is a backstop only |
| Idempotency, retention | `request_record` | `begin`, `complete`, `sweep` | one effect per identifier; the answer is the one on record |
| Commands | `invoice_reservation`, ledger, program | reserve, release, cancel | LOCAL = what the live reservations hold |
| Treasury events | `processed_message`, ledger, program, stream position | `inspect`, `apply`, echo suppression | each message counts once |
| Treasury snapshots | the same, acknowledgements | `inspect`, marker, targets, guard, `apply` | afterwards the position is treasury's total plus what it has not acknowledged |
| Recovery detection | `position_verified` | `detect` at boot | nothing moves on an unverified program |
| Message schemas | none | `parseCapacityEvent`, `parseReconciliationSnapshot` | an amount that gets in fits its column |
| Stream consumer | offsets, dead-letter topic, status | `processMessage`, retry, `quarantine`, `start`, `rebuild` | nothing lost: applied, skipped or quarantined; it comes back after every crash |
| Lag probe, readiness | the newest effective time seen; the status | `observe`, `lagSecondsFor`, `/health/ready` | a lag is neither made up nor concealed; readiness tells whether the broker answers |
| FX rates | a cache | `rateFor` | no rate older than its time to live |
| Reconciliation check | `investigation_required` | `check` | no healthy program is flagged |
| Audit reads, ledger audit | none | `listReservations`, `listLedger`, `auditLedger` | pages neither repeat nor skip; no healthy program is blamed |
| Metrics, auth, config, scripts | counters | | |

Components meet in the database (the program row is the only lock), in direct
calls (handlers to policies to repositories) and in the stream. What is hard:
handlers interleave between any two awaits; callers resend and race themselves;
messages are duplicated, reordered and replayed; a process dies between two
commits; a booting instance writes to programs that others are serving.

## 2. Modules

| Module | Models | Notes |
| --- | --- | --- |
| `Money` | `convert.ts` | exact integers; `RateScale` is a constant |
| `Position` | `program.ts`, `position.ts` | drafts are ledger entries without a sequence, at most three per advance |
| `ReservationPolicies` | `policies/{reserve,release,cancel}.policy.ts` | a policy is the list of its checks in order; the first failure is the refusal code |
| `ReservationLifecycle` | one reservation under the policies | alone, so that every amount and rate is covered |
| `CapacityStore` | tables, `UnitOfWork`, `persistAdvance`, constraints | a worker is one handler; see below |
| `CapacityCommands` | the three command services, `IdempotencyService`, `RequestRetentionJob.sweep` | extends the store |
| `MessageSchemas` | the two parsers in front of the handlers | a JSON value is its type and what it denotes; extends the store |
| `TreasuryIngest` | the handlers and services of both message kinds, snapshot policy | extends `MessageSchemas` |
| `Recovery` | `RecoveryDetectionService` | extends the store; adds `flagging`, the programs a running `detect` has still to update |
| `CapacitySystem` | all of them over one database | `Spec`, and `ServingSpec` without boots and restores |
| `CreditFacility` | what the service promises: limits, what is reserved of them, requests and messages that act once | abstract: no tables, locks, sessions or ledger |
| `AuditReads` | `audit-read.service.ts`, `audit-ledger.ts`, `ReconciliationCheckService` | readers and the check beside the handlers of `CapacitySystem` |
| `StreamConsumer` | `TreasuryConsumer`, `withRetry`, the failure classifier, the dead-letter topic | one partition; a message is its offset and what its handler can do with it |
| `StreamClients` | `start` and `rebuild` of `TreasuryConsumer`, its status, `StreamLagProbe`, `lagSecondsFor` | all instances, one partition; what a client is told by KafkaJS are its actions |
| `RateLookup` | `CachedRateProvider`, the pool's two connections of a foreign-currency reserve | one process, one currency pair; a rate is the instant it takes effect at |
| `CapacityProperties` | what the system promises | row types, invariants, action properties, and the refinement mapping to `CreditFacility` |
| `OperatorProofs` | lemmas on sums, rounding and the policies | no state; used by all of the capacity proofs |
| `CapacityProofs`, `FacilityProofs`, `LedgerProofs`, `ReservationProofs`, `StreamProofs`, `ClientProofs`, `RateProofs` | theorems | section 5 |
| `MC*` | instances for TLC | `MCBase` has the constructors they share |

**State.** One variable per table, a missing row being `None`; and per worker a
stage `pc`, the command or message it works on (`job`) and the program row it
read under the lock (`view`). `answer` is what the last step told its caller.
Effects are computed from `view`, as the code does, and not from the table:
that the two agree is the invariant `LockedViewIsCurrent`.

**The abstract promise.** `CreditFacility` is what a caller and treasury may rely
on. `CapacityProperties` maps the tables to it (`Facilities`, `Holdings`,
`AcceptedOperations`, `CountedKinds`: the committed program, reservation, request
and processed rows), and `ImplementsCreditFacility` says that every step of the
service is then one atomic reserve, release, cancel, report, reconciliation or
freeze, or none: locking, inserting an identifier, inspecting, crashing,
sweeping and replaying are all stutters. A request is accepted, and a message
counted, only if it was not before.

**Grain.** A step ends where another session can get in between. A command is:
open the transaction and lock the program row (`StartCommand`); insert its
request identifier (`BeginRequest`), which waits for another uncommitted insert
of the same key, or find it recorded (`Replay`); the policy, the writes and the
commit (`Reserve`, `Release`, `Cancel`). Between the lock and the commit all a
handler reads of its program is protected by the lock, and nothing it writes is visible
before the commit, so the last part is one step. A message is: `Inspect` without
a lock, `StartApply`, then `ApplyEvent` or `ApplySnapshot`, whose checks are
repeated. `detect` is one SELECT and one UPDATE per program, the UPDATE waiting
for the row lock; `check` of the reconciliation likewise. A page, and a query of the
ledger audit, is one statement and one step. `Crash` ends a handler at any of its stages: PostgreSQL rolls
it back. A crash after the commit is a caller that resends or a message that is
delivered again, and both may happen at any time.

`StreamConsumer`, `StreamClients` and `RateLookup` stand beside the capacity
modules, each with the detail that those leave to choice: `TreasuryIngest` lets any message be
delivered to anyone at any time, which covers all `StreamConsumer` can do, and a
reserve of `CapacityCommands` may be quoted any rate, which covers all
`RateLookup` can answer. In `StreamConsumer` each instance has a stage, the
offset at hand and the attempt of the running `withRetry`; a step is one attempt
at the handler, at the dead-letter topic or at the commit, and the other side may
have done what was asked and its answer be lost. In `StreamClients` a client has a
stage, from connecting to a crash and its rebuild, and the probes of all
instances share the assignment of one partition. In `RateLookup` a lookup is the
reading of the cache, the query and the writing of the cache: what lies between
them is awaited.

**Abstractions.**
- Instants are logical: the next sequence a transaction started from. It orders
  the transactions of a program as the clock does; the clocks of two instances
  that disagree are not modelled. `over_limit_since` is a Boolean.
- A correlation id is the request or message id; a fingerprint or content hash is
  the record of the hashed fields, so there are no collisions. A cancellation's
  `reason` stands for its reason and note.
- BIGINT columns hold `-(MaxMinor+1)..MaxMinor`; a statement that would store
  more fails, as in PostgreSQL, and the handler's arithmetic is unbounded, as
  BigInt is.
- The same-currency rate is `RateScale`, which is what a release makes of NULL.
- The FX provider may quote any rate of `FxRates`, or none, at any time.
- Callers are one organisation; authorisation, the validation of commands and
  wording are in front of the model.
- What lies on the topics is a set of records (`Records`), and the messages are
  those that parse. Which of its checks a parser names is left out: all of them
  quarantine the record as SCHEMA_INVALID. Strings are what they denote.
- Kafka delivers every message to anyone at any time and any number of times:
  the most general stream. A failed delivery answers `failed`; what becomes of
  its offset is in `StreamConsumer`.
- In `StreamConsumer` Kafka keeps its own promises: a commit of a member that has
  lost the partition is refused, and what is written to a topic stays. A group
  that has no committed offset (`InitialOffset = None`) starts after the newest
  message, as `fromBeginning: false` says; the run, and `NoMessageIsLost`, are about a
  group that has one.
- In `StreamClients` a consumer is one that runs or not: which instance owns the
  treasury partition, and how a message is retried, is `StreamConsumer`'s. A
  record without a readable head, which the probe passes over, is left out.
- In `AuditReads` `created_at` is any of `Instants`, so rows collide and clocks
  disagree; one list or audit at a time stands for all, since they write nothing.
- In `RateLookup` the table's rates are distinct instants (its primary key), a
  row may be published at any time for any of them, and the process has one clock.
- `LinkReference` is external: nothing in `src/src` writes `treasury_reference`,
  although echo suppression and explicit markers read it (the tests set it by
  hand, `test/support/treasury.ts`). `RestoreOlderPosition` is the operator's
  restore that `detect` exists for.

## 3. Properties

Beside one type invariant (`TypeOK`, the schema's CHECKs included):

- *Lock*: `LockedViewIsCurrent`. *Oversell*: `ReserveNeverOversells`,
  `BackstopNeverTrips` (the constraints never fail a command, so the policies
  and the lock refuse all that the schema would).
- *Ledger*: `LedgerGapless`, `LedgerExplainsPosition`, `OverLimitMarkExact`,
  `MarkHistoryAlternates`.
- *Reservations*: `LocalIsLiveOutstanding`, `InvoiceLedgerNets`; for one
  reservation `ReservedTracksInvoice`, `ReturnsWhatItTook`, `AlwaysSettleable`,
  `ClosingTellsHistory`.
- *Idempotency*: `RequestTakesEffectOnce`, `AnswerIsOnRecord`,
  `OutcomeMatchesLedger`.
- *Treasury*: `OneMessagePerVersion`, `MessageTakesEffectOnce`,
  `SnapshotConverges`, `AcknowledgementOnlyAdvances`.
- *Recovery*: `UnverifiedIsFrozen`.
- *Refinement*: `ImplementsCreditFacility`.
- *Reads*: `LedgerListIsExact`, `ReservationListIsComplete`,
  `AuditBlamesOnlyTheMoving`, `ReconciliationFindsNothing`.
- *Stream*: `CommittedIsHandled`, `QuarantinedForCause`,
  `EveryMessageIsHandled` (liveness), and `StreamTypeOK`.
- *Clients*: `LagIsNeverMadeUp`, and the liveness `EventuallyIngesting` and
  `ReadinessSettles`.
- *Rates*: `NoRateFromTheFuture`, `NoRateIsStale`, `EveryReserveEnds` (liveness).

Every property of a passing run has a mutant: a definition changed the way a bug
would, under which TLC finds the property violated. The mutated operators stand
before the definitions they replace, marked `mutant:`, and nothing uses them.

## 4. Runs

| Run | Instance | Shows |
| --- | --- | --- |
| `commands` | 2 programs of limit 10, 2 handlers, 9 commands over 4 identifiers, rates 1/2 and 3/2 | idempotency, the schema never trips; the facility is implemented |
| `events` | 1 program, 2 handlers, 2 commands, 5 events, one of them in a foreign currency, a record that does not parse and one whose version no BIGINT holds | no oversell beside treasury's bookings; the ledger and its mark; each message counts once; the facility is implemented |
| `snapshots` | 1 program, 2 reservations, 4 snapshots of 3 versions, 1 echo, 2 records that do not parse | convergence, acknowledgement |
| `recovery` | 1 reservation, cancelled, 1 event, 1 snapshot, an event for an unknown program, boots and restores | the flag against running transactions; the facility is implemented |
| `reservation` | amounts 1..12, rates 1/8..3 | partial releases, rounding, closing |
| `stream` | 2 instances, 5 messages of all fates, 2 attempts, 3 faults | nothing committed is lost, recognised failures alone quarantine nothing, every message is handled |
| `rates` | 3 reserves, 2 of them foreign, 2 programs, 4 connections, a rate published meanwhile | no rate from the future or too old; all reserves end |
| `reads` | 2 programs, 3 reservations at colliding instants, 1 release or cancellation, 1 booking of treasury's, pages of 1 and 2 rows | lists are exact, the audit and the check accuse nobody at rest |
| `clients` | 2 instances, 3 messages, one of them out of order and one refused, 2 faults | no lag is made up; consumers come back; readiness follows the broker |
| `disorder_limit` | 2 limit changes, in any order | section 6 |
| `rates_pool` | as `rates`, with 3 connections | section 6 |
| `lag_concealed` | as `clients`, without faults | section 6 |

**Bounds.** Two handlers are enough for the races here, which are all between a
transaction and one other (two inserts of a key, two inspections of a version,
one flag); handlers are symmetric. The commands are chosen to collide: two
reservations that fit alone but not together; identifiers reused for another
program, another currency, another operation (the release of what was reserved, which
hashes the same fields) and another reason; a full release
that only fits before the partial one. The messages
collide by version, content, reference and order. `MaxMinor = 20` makes sums
that a BIGINT refuses reachable. Nothing caps time or retries: the state is finite because
identifiers, messages and rows are. In `reservation`, `RateScale = 8` has exact
rates, halves and both roundings, and amounts up to 12 leave dust at each.

In `stream`, a fault is a crash, an outage, a lost answer or a passing error that
nobody recognises, and three of
them (`MaxFaults`) are enough to lose an answer, crash the instance that waits for it
and take the database away from its successor, or to let an outage end in an unrecognised
error with a crash to follow; two attempts (`MaxAttempts`) tell
a retry from the last one; `LogLength` is five messages, bad ones between good
ones. In `rates`, time runs to `Horizon` with a time to live of 2, so that an
entry is filled, expires and is looked up afterwards, and a reserve waits at most
`MaxDelay` between dating itself and its lookup (its request identifier may be
waiting for another transaction in between). In `reads`, one handler is enough, as
readers take no lock and see only commits; pages of one row and of two make
every list longer than that turn a page, at every commit in between. In
`clients`, two faults (`MaxFaults`: outages, reboots, and crashes while the broker is
reachable) are one to bring a client down and one to hit it while it rebuilds; an
outage is not bounded in time, and what clients do about it is not counted.

**Fairness and deadlock.** The capacity modules assume no fairness: what they
promise is safety. `FairStreamSpec` lets every instance go on with what it is
doing and join again after a crash (`TreasuryConsumer` rebuilds its client, the
platform restarts the process), and lets outages end; faults are bounded, as
liveness needs a time after the last one. Nothing forces treasury to publish, or
a fault to happen. `ClientsSpec` lets clients go on connecting, joining, sending
heartbeats and noticing that requests time out, which are KafkaJS's timers
and the `setTimeout` of `rebuild`; it does not oblige an outage to end, and lets the
consumer stall with a message at hand, since a handler may wait for the database.
So the two liveness properties are conditional on what the broker ends up
doing, and `lag_concealed` needs no fault. `FairRateSpec` lets every handler go on that may; time and the
rate source are under no obligation. Deadlock is checked in all runs but those
where the system really comes to rest: a closed reservation, a stream whose
messages are all handled and committed, instances that ingest and have seen all
there is, a set of reserves that have all ended.

## 5. Proofs

The theorems hold for all programs, invoices, handlers, commands, records, rates,
limits, logs and instances that meet the assumptions of the modules: what the DTOs
let through, a positive rate scale, limits that fit their column, amounts and rates
of at least one (`LifecycleAssumption`); of the records nothing but that they lie on a topic at an offset.
Two assumptions only keep the model's own values apart: `None` is neither a number
nor a row (`NullAssumption`) nor an instant or a key of a list (`ReadsAssumption`), and a command is no
message (`JobsAssumption`). `ReadsAssumption` also says that the ids of rows are distinct and that a page
has a row at least (`boundLimit`).

| Theorem | Statement |
| --- | --- |
| *`CapacityProofs`* | |
| `TypeCorrect` | `Spec => []TypeOK` |
| `LockIsolates` | `Spec => []LockedViewIsCurrent` |
| `LedgerIsGapless` | `Spec => []LedgerGapless` |
| `OverLimitMarkIsExact` | `Spec => []OverLimitMarkExact` |
| `Invariance` | `Spec => []IInv`, their conjunction |
| `ParsedMessagesFit` | a message that the parsers accept has an id, a version, and amounts that a BIGINT holds |
| *`FacilityProofs`* | |
| `FacilityImplemented` | `Spec => ImplementsCreditFacility` |
| `NothingIsOversold` | `Spec => ReserveNeverOversells` |
| *`LedgerProofs`* | |
| `BooksBalance` | `Spec => []Balanced` |
| `LedgerExplains`, `LocalIsLive`, `InvoiceNets` | `Spec => []` of `LedgerExplainsPosition`, `LocalIsLiveOutstanding`, `InvoiceLedgerNets` |
| `SnapshotsConverge` | `Spec => SnapshotConverges` |
| `AcknowledgementsAdvance`, `UnverifiedStaysFrozen` | `Spec => AcknowledgementOnlyAdvances`, `Spec => UnverifiedIsFrozen` |
| `VersionsAreUnique` | `Spec => []OneMessagePerVersion` |
| `RequestsTakeEffectOnce`, `MessagesTakeEffectOnce` | `Spec => []RequestTakesEffectOnce`, `Spec => []MessageTakesEffectOnce` |
| `AnswersAreOnRecord`, `OutcomesMatchTheLedger` | `Spec => []AnswerIsOnRecord`, `Spec => []OutcomeMatchesLedger` |
| `MarkHistoryIsExact` | `Spec => []MarkHistoryAlternates` |
| `BackstopIsNeverNeeded` | `Spec => []BackstopNeverTrips` |
| `ReadsInvariance`, `ReadersDisturbNothing` | `ReadsSpec => []ReadsIInv`, `ReadsSpec => Spec` |
| `CheckFindsNothing`, `AuditIsJust` | `ReadsSpec => []ReconciliationFindsNothing`, `ReadsSpec => []AuditBlamesOnlyTheMoving` |
| `LedgerPagesAreExact`, `ReservationPagesMissNothing` | `ReadsSpec => []LedgerListIsExact`, `ReadsSpec => []ReservationListIsComplete` |
| *`ReservationProofs`* | |
| `LifecycleInvariance` | `LifecycleSpec => []LifecycleIInv` |
| `RoundingNeverPilesUp`, `WhatWasTakenReturns`, `RestCanBeRepaid` | `LifecycleSpec => []` of `ReservedTracksInvoice`, `ReturnsWhatItTook`, `AlwaysSettleable` |
| `ClosingIsTold` | `LifecycleSpec => ClosingTellsHistory` |
| *`StreamProofs`* | |
| `NoMessageIsLost` | `StreamSpec => []CommittedIsHandled`, if the group has an offset |
| `RecognisedFailuresQuarantineNothing`, `StreamTypeCorrect` | `StreamSpec => []QuarantinedForCause`, `StreamSpec => []StreamTypeOK` |
| `StreamInvariance` | `StreamSpec => []StreamIInv` |
| *`ClientProofs`* | |
| `NoLagIsMadeUp` | `ClientsSpec => []LagIsNeverMadeUp` |
| `ClientsInvariance` | `ClientsSpec => []LInv` |
| *`RateProofs`* | |
| `RatesAreInForce`, `StalenessIsBounded` | `RateSpec => []NoRateFromTheFuture`, `RateSpec => []NoRateIsStale` |
| `RateInvariance` | `RateSpec => []RateIInv` |

None of `LockedViewIsCurrent`, `LedgerGapless` and `OverLimitMarkExact` is inductive alone. The ledger gets the sequences of
the row a worker *read*, so it stays gapless only because that row is the one in
the table (`LockedViewIsCurrent`) and because the row names the next sequence;
the mark is exact because it is derived from the row read; and the isolation of
the lock needs to know which program a session works on (`SessionsOK`, in
`TypeOK`). The type of a reservation row comes from the schema for what the
CHECKs cover, and from the policies for the rest: `ReserveAccepted` shows what
an accepted reserve implies, through `VerdictAccepted` (a policy that accepts
has no failing check). There is one lemma per action (`...Keeps`), and
`AdvanceKeepsLedger` holds the argument they share about booking drafts. What the
lemmas of the messages need of their fields is no assumption: it is
`ParsedMessagesFit`, proved of the parsers.

`FacilityProofs` maps each action to the step of the facility it is, or to a
stutter. Nearly all of it follows from the invariant above, because the row read is the row
in the table. One thing does not: that an accepted command is the *first* with
its identifier. When it commits, its transaction has inserted the identifier, and
so the proof adds to the invariant that an identifier inserted and not committed
is nobody else's, neither in the table nor in another transaction (`KeyIsOwn`;
`FInv` is the conjunction). `NothingIsOversold` is then derived from the facility
alone: a step in which an invoice begins to hold something can only be its
`Reserve` (`OnlyReserveBooks`), which takes no more than there is.

`LedgerProofs` is about money. `Balanced` adds to `IInv` that the row of a program is the
sum of its ledger, that LOCAL is the sum of what its reservations hold, that the
entries of each invoice net to what it holds, and that a closed reservation holds
nothing. None of the four is inductive alone: a snapshot *sets* LOCAL to what the live
reservations hold, and books the difference without naming an invoice. That this leaves
`InvoiceLedgerNets` true is because there is no difference, which is `LocalIsLiveOutstanding`; and
that in turn survives the snapshot by its target. The same fact freezes an unverified program
(`UnverifiedIsFrozen`) and keeps a message to two entries. On `Balanced` rest, each with
a strengthening of its own:

- effects that happen once: `EffectsRecorded` says that an identifier has either no row and
  no entry, or a row and exactly one entry in exactly one program; `MessagesRecorded`
  likewise of messages. The unique insert (`KeyIsOwn`) and the second lookup under the lock
  are what keep them;
- `OutcomesTold`: the outcome on record is what the ledger says at the request's own
  entry, and entries are never changed, so it goes on saying it;
- the history of the mark: the entries that record onsets and clearances, read in order,
  describe a mark that is the row's in the end. It rests on the
  mark being exact at every commit;
- `BackstopIsNeverNeeded`: `RowsFit`, every row satisfies the CHECKs of its table, and each
  accepted command moves the row within them; that LOCAL covers what a release
  returns is again `LocalIsLiveOutstanding`;
- the readers: the check compares LOCAL with the live reservations at one instant and
  finds them equal, so it never writes (`mismatched` stays empty), and `ReadsSpec` implements
  `Spec`; what an audit has read of a row is an earlier position of the same ledger
  (`AuditIsFair`), so a difference means that the program has moved since;
- pages: a statement that orders rows lists them by rank (`InOrder`), for which
  `InOrderLists` and `ListIsInOrder` show that a finite set under a total order has
  exactly one list, and `RestIsListed` that what is left of it after a cursor is the list
  of the rest. Sequences order the ledger, and its entries are never changed, so what is due
  is fixed by the newest entry of the first page (`DueStays`) and a page is the front of what is left
  of it (`LedgerPageGoesOn`). Reservations are ordered by instant and id, and one that is
  new may sort below the cursor, as another instance's clock set it; the invariant
  `ReservationListOK` says that everything shown is at or above the cursor, and everything owed
  is shown or below it. It stays so between pages because a key is never changed
  (`StampsStay`) and what a list owes only shrinks: a row that changes its status has a new
  entry in the ledger (`InvoicesTouched`), and one that is new has none from before the
  first page (`EntriesHaveRows`).

Sums are folds over sets (`SumFunctionOnSet`). What the proofs need of them (an element more, an element
changed, zeros left out) is in `OperatorProofs`: the induction over finite sets, which no installed prover
can instantiate for an operator, is done for the *set* of finite sets that have the
property, by well-foundedness.

`ReservationProofs` is for all amounts, all rates and any sequence of partial releases. What a reservation
holds is always its open invoice amount converted once (`ReservedTracksInvoice`),
never the difference of rounded parts, and the policy refuses to leave a rest that converts to
nothing; the invariant `LifecycleIInv` adds that the status tells whether anything was returned, on which
rests that a write-off is told from a cancellation.

`StreamProofs` is for any log, any number of instances, attempts and faults. That
what is committed is handled is not inductive: an instance commits what it
*believes* is handled, perhaps long after it has lost the partition. `StreamIInv`
adds what every instance knows (`ProgressIsHandled`): all before the offset at hand is
handled, a message being quarantined has given cause (`Condemned`), and one being
committed is handled. `outlived` is a history variable: it records which messages an
unrecognised error has hit at the last of the attempts, whatever the consumer then does. It survives a takeover because the successor starts at the committed offset.

`RateProofs` is for any number of reserves, any time to live and any delay. Its
invariant says of every entry that it is as new as its own expiry requires
(`EntryIsNewest`), and of every running query that it sees what was published
before its call (`FindsNewest`). A late answer to an earlier lookup may replace a newer entry
(section 6); the theorem shows that this costs
no freshness beyond the time to live. `NewestExists`, that a set of instants has
a greatest one, comes from the well-foundedness of the naturals.

`ClientProofs` is for any log, any number of instances and faults. `LInv` says that
what is applied covers every message that was handled and not refused
(`AppliedCovers`), and that an observation, however old, is of a message that was
published (`ObservedIsPublished`). A lag is then a published message above all that is
applied. It holds of the newest *observed* message, and says nothing
of how old the observation is: that is the finding `lag_concealed`.

Only model-checked: liveness (`EveryMessageIsHandled`, `EventuallyIngesting`,
`ReadinessSettles`, `EveryReserveEnds`), which is beyond the prover. Every safety property
and every action property of a passing run is proved.

## 6. Findings

Statements of the documents that the code does not keep, each with a run:

- `disorder_limit`: out-of-order delivery is *not* safe for LIMIT_CHANGED
  (`research.md:123-124`): the last delivered wins.
- `rates_pool`: as many concurrent reserves as the pool has connections wait for
  each other for good, as soon as one of them needs a rate that is not cached:
  it holds the program lock and a connection, and needs another (`spec.md:514-515`
  promises that none fails for contention alone; the pool has its default size
  and no connection timeout, `app.module.ts:18-26`).
- `lag_concealed`: the probes of all instances join one consumer group, so a
  partition is observed by one of them only, and the registry of the others
  stands still. An instance that has lost the partition reports no lag for good while the consumer
  has stalled; `docs/ASSUMPTIONS.md:32-34` and SC-002a (`spec.md:508-512`)
  say that staleness is not concealed.

Also met, while modelling:

- FR-035 (`spec.md:442-445`) says that "only a message that can never apply may be
  quarantined". The consumer cannot tell: it quarantines every message whose last
  attempt ends in an error that `isTransientFailure` does not recognise, and commits its
  offset (`treasury.consumer.ts:137-153`, `failure-classifier.ts:144-153`, and the test at
  `treasury-consumer.spec.ts:455-472`), one that would apply a little later included: a
  statement refused by a standby that only reads during a failover (SQLSTATE 25006), or the
  release of a booking that is delivered after it. TLC finds such a message in
  `StreamConsumer` within a few steps: two unrecognised errors and nothing else. What
  the code does keep is `QuarantinedForCause`.
- Events are suppressed by version and content too
  (`apply-treasury-event.service.ts:79-117`); `spec.md:354` says by identity alone.
- `detect` can flag a program that a snapshot has just caught up, between its SELECT
  and its UPDATE (`recovery-detection.service.ts:61`); a later snapshot clears it.
- The late answer to an earlier lookup replaces a newer cache entry
  (`cached-rate.provider.ts:70`; the comment at lines 67-68 says that it never does).
- The ledger audit reads the rows and the sums in separate statements, so a
  program written meanwhile is blamed (`audit-ledger.ts`): SC-004 holds "on every
  audit run" only at rest, which is what `AuditBlamesOnlyTheMoving` says.
- The lag stays above zero after the newest message was quarantined or
  ignored, since only applied ones count (`availability.projection.ts:82` speaks of
  zero for a caught-up program).
- The status is set to `up` before the consumer has joined its group
  (`treasury.consumer.ts:226`; the comment at lines 190-197 names a join or a heartbeat).
- The version of an event has no upper bound (`capacity-event.schema.ts:199`), though
  the comment at `reconciliation-snapshot.schema.ts:263-266` says what an unbounded
  one does to the same column: the query that looks it up fails on every attempt
  (`InspectEvent`, and the last record of `events`).
- `cancelFingerprint` hashes reason and note, so a cancellation resent with
  another note is a conflict although program, invoice, amount and currency agree
  (`spec.md:277-278`).
- The comment at `program.repository.ts:38` says that `persistAdvance`
  is the only writer of the program row; the snapshot service, the event service,
  the recovery detection and the reconciliation check write it too.
- The retention sweep warns of requests left PENDING by a crashed writer: the row is
  inserted in the transaction that completes it, so no such row is ever committed.

## 7. Not modelled, and the plan

Left out, and why:

- *Auth, DTOs and configuration*: stateless guards in front of the handlers; the
  commands of the model are those that pass them.
- *Metrics, the ping of the database, OpenAPI, framework wiring*: no decision reads them.
- *`getReservation` and `reconciliationPending`*: single queries that nothing else
  depends on.
- *The connection of the dead-letter producer*: `StreamConsumer` has a failing
  dead-letter topic, whatever makes it fail. *Shutdown* is a crash that commits nothing.
- *`reconcile.ts`* calls the check of `AuditReads` from the command line.
- *The liveness of the snapshot path*: the magnitude guard may refuse every snapshot, and
  the decision is then an operator's (FR-032), for which the code has no operation.
- *Instants*: clocks that disagree are in `AuditReads` only (section 2).

The rows of `CapacitySystem` are not shown to refine `ReservationLifecycle`: the two
share the policies themselves, so it would compare them with themselves.

Of the plan, nothing that the prover reaches is left open: what remains with TLC is liveness.
