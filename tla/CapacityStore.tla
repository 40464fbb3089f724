----------------------------- MODULE CapacityStore -----------------------------
(***************************************************************************)
(* The database of the capacity service and the sessions that use it.      *)
(*                                                                         *)
(* Tables (src/src/migrations): program, invoice_reservation,              *)
(* capacity_ledger_entry, request_record, processed_message and            *)
(* program_stream_position. A row that does not exist is None.             *)
(*                                                                         *)
(* A worker is one request handler or one consumer callback. The only      *)
(* transaction the service runs is UnitOfWork.withProgramLock: READ        *)
(* COMMITTED, and it starts by locking the program row. A worker is        *)
(*    "idle"    - doing nothing,                                           *)
(*    "waiting" - a consumer that has inspected a message and has not      *)
(*                opened its transaction yet,                              *)
(*    "locked"  - holding the lock on the program row it has read,         *)
(*    "begun"   - and the uncommitted row of its request identifier.       *)
(* What a transaction reads after that is protected by the lock, so the    *)
(* rest of it, its commit included, is one step; a step that does not      *)
(* commit leaves every table alone. Instants are logical: see Position.    *)
(***************************************************************************)
EXTENDS ReservationPolicies, FiniteSets

CONSTANTS
  Programs,         \* program ids
  Invoices,         \* invoice ids
  RequestIds,       \* idempotency keys of the one organisation modelled
  MessageIds,       \* treasury message ids
  Topics,           \* the treasury topics: one partition each
  Workers,          \* concurrent handlers
  ProgramCurrency,  \* [Programs -> currency], immutable
  SeedLimit,        \* [Programs -> 0..MaxMinor], the limit a program is seeded with
  MaxMinor          \* the largest BIGINT, 2^63 - 1 in the code

ASSUME StoreAssumption ==
  /\ MaxMinor \in Nat
  /\ SeedLimit \in [Programs -> 0..MaxMinor]

VARIABLES
  program,          \* [Programs -> program row]
  reservation,      \* [Programs -> [Invoices -> invoice_reservation row or None]]
  ledger,           \* [Programs -> Seq(ledger entry)]
  request,          \* [RequestIds -> request_record row or None]
  processed,        \* [MessageIds -> the message processed under that id or None]
  streamPosition,   \* [Programs -> [Topics -> [offset, updatedAt]]]
  pc,               \* [Workers -> stage]
  job,              \* [Workers -> the command or message at work on, or None]
  view,             \* [Workers -> the program row read under the lock, or None]
  answer            \* what the last step answered its caller, or None

tables   == <<program, reservation, ledger, request, processed, streamPosition>>
sessions == <<pc, job, view, answer>>
vars     == <<program, reservation, ledger, request, processed, streamPosition,
              pc, job, view, answer>>

-------------------------------------------------------------------------------
(* What the seed script leaves behind.                                     *)

EmptyProgram ==
  [limit |-> 0, local |-> 0, treasury |-> 0, nextSequence |-> 1,
   overLimit |-> FALSE, treasuryVersion |-> 0,
   investigationRequired |-> FALSE, positionVerified |-> TRUE]

SeedDraft(limit) ==
  [delta |-> limit, component |-> "LIMIT", cause |-> "LIMIT_CHANGE",
   origin |-> None, actor |-> "seed", correlationId |-> None]

NoStreamPosition == [offset |-> -1, updatedAt |-> 0]

StoreInit ==
  /\ program = [p \in Programs |->
                  AdvancePosition(EmptyProgram, <<SeedDraft(SeedLimit[p])>>)]
  /\ ledger = [p \in Programs |->
                  AdvanceEntries(EmptyProgram, <<SeedDraft(SeedLimit[p])>>)]
  /\ reservation = [p \in Programs |-> [i \in Invoices |-> None]]
  /\ request = [k \in RequestIds |-> None]
  /\ processed = [m \in MessageIds |-> None]
  /\ streamPosition = [p \in Programs |-> [t \in Topics |-> NoStreamPosition]]
  /\ pc = [w \in Workers |-> "idle"]
  /\ job = [w \in Workers |-> None]
  /\ view = [w \in Workers |-> None]
  /\ answer = None

-------------------------------------------------------------------------------
(* Sessions.                                                               *)

InTransaction(w) == pc[w] \in {"locked", "begun"}

(* mutant: a plain SELECT, which never waits                               *)
RowReadable(p) == p \in Programs

(* SELECT ... FOR UPDATE returns only when no other transaction holds the row. *)
LockAvailable(p) == \A w \in Workers : InTransaction(w) => job[w].program # p

(* Opening the transaction: the row is read as the last commit left it.    *)
TakeLock(w, j) ==
  /\ LockAvailable(j.program)
  /\ pc'   = [pc EXCEPT ![w] = "locked"]
  /\ job'  = [job EXCEPT ![w] = j]
  /\ view' = [view EXCEPT ![w] = program[j.program]]
  /\ answer' = None

(* The end of the handler, by commit or by rollback.                       *)
Finish(w, reply) ==
  /\ pc'   = [pc EXCEPT ![w] = "idle"]
  /\ job'  = [job EXCEPT ![w] = None]
  /\ view' = [view EXCEPT ![w] = None]
  /\ answer' = reply

Reply(w, kind, code, outcome) ==
  [to |-> job[w], kind |-> kind, code |-> code, outcome |-> outcome]

(* Ending with nothing written: a refusal, a replay, a failed statement.   *)
FinishUnchanged(w, reply) == Finish(w, reply) /\ UNCHANGED tables

(***************************************************************************)
(* The handler dies or loses its connection: Postgres rolls back whatever  *)
(* it had written. A crash after the commit is a client that resends.      *)
(***************************************************************************)
Crash(w) == pc[w] # "idle" /\ FinishUnchanged(w, None)

-------------------------------------------------------------------------------
(* What the schema refuses.                                                *)

(* What a BIGINT column holds; the arithmetic of the service is unbounded, *)
(* so a value out of range fails the statement that stores it.             *)
Bigint == -(MaxMinor + 1)..MaxMinor

(* mutant: a program table without its CHECKs                              *)
ProgramRowUnchecked(old, new, reconciling) ==
  reconciling \/ new.local <= old.local \/ new.local <= new.limit

(* CHECKs of the program table and the program_local_within_limit trigger, *)
(* which a reconciliation stands down.                                     *)
ProgramRowAllowed(old, new, reconciling) ==
  /\ {new.local, new.treasury, new.limit} \subseteq 0..MaxMinor
  /\ reconciling \/ new.local <= old.local \/ new.local <= new.limit

(* CHECKs of the invoice_reservation table.                                *)
ReservationRowAllowed(p, row) ==
  /\ {row.amount, row.reserved} \subseteq 1..MaxMinor
  /\ row.outstandingInvoice \in 0..row.amount
  /\ row.outstandingReserved \in 0..row.reserved
  /\ row.currency = ProgramCurrency[p] => row.rate = RateScale

(* The ledger's BIGINT delta and its UNIQUE (program_id, sequence).        *)
LedgerRowsAllowed(p, entries) ==
  \A k \in DOMAIN entries :
    /\ entries[k].delta \in Bigint
    /\ \A n \in DOMAIN ledger[p] : entries[k].sequence # ledger[p][n].sequence

(***************************************************************************)
(* advancePosition on the row read under the lock, then persistAdvance.    *)
(***************************************************************************)
Advanced(w, drafts) == AdvancePosition(view[w], drafts)

AdvanceAllowed(w, drafts, reconciling) ==
  /\ LedgerRowsAllowed(job[w].program, AdvanceEntries(view[w], drafts))
  /\ ProgramRowAllowed(program[job[w].program], Advanced(w, drafts), reconciling)

PersistLedger(w, drafts) ==
  ledger' = [ledger EXCEPT ![job[w].program] = @ \o AdvanceEntries(view[w], drafts)]

PersistRow(w, row) == program' = [program EXCEPT ![job[w].program] = row]

PersistAdvance(w, drafts) == PersistRow(w, Advanced(w, drafts)) /\ PersistLedger(w, drafts)
=============================================================================
