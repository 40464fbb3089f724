------------------------------- MODULE AuditReads -------------------------------
(***************************************************************************)
(* Those who read what the handlers write, without a lock: the paged lists *)
(* of reservations and ledger entries (audit-read.service.ts), the ledger  *)
(* audit (scripts/audit-ledger.ts) and the reconciliation check, which     *)
(* also raises a flag (reconciliation-check.service.ts).                   *)
(*                                                                         *)
(* Every query is one statement and sees the rows committed before it, so  *)
(* each is one step, and what a reader does takes several of them. Lists   *)
(* and audits change nothing, so one reader at a time stands for all. Of   *)
(* the writers only those count whose tables are read: no crash, retention *)
(* sweep or recovery.                                                      *)
(***************************************************************************)
EXTENDS CapacityProperties, SequencesExt

CONSTANTS
  PageLimits,     \* the limits boundLimit lets through
  Statuses,       \* the status filters clients use, None among them
  LedgerQueries,  \* their filters on the ledger: [from, to, cause]
  Instants,       \* clock readings, too coarse to tell all reservations apart
  UuidRank        \* [Invoices -> Nat], the order of the random ids of their rows

ASSUME ReadsAssumption ==
  /\ PageLimits \subseteq Nat \ {0}
  /\ Instants \subseteq Int
  /\ None \notin Instants \cup (Instants \X Nat)
  /\ UuidRank \in [Invoices -> Nat]
  /\ \A i, j \in Invoices : UuidRank[i] = UuidRank[j] => i = j

VARIABLES
  createdAt,   \* [Programs -> [Invoices -> created_at of its row, or None]]
  reader,      \* the list or the audit under way or done, or None
  mismatched   \* programs the reconciliation check has found and not flagged yet

reads == <<reader, mismatched>>
observed == <<system, createdAt, reads>>

-------------------------------------------------------------------------------
(* Pages.                                                                  *)

(* ORDER BY: before[x] are the members of S that come before x.            *)
InOrder(S, before) ==
  [k \in 1..Cardinality(S) |-> CHOOSE x \in S : Cardinality(before[x]) = k - 1]

(* One row more than a page holds is fetched, to know whether to go on;    *)
(* the key of the last row shown is where.                                 *)
PageFrom(rows, limit, key) ==
  LET page == SubSeq(rows, 1, IF Len(rows) > limit THEN limit ELSE Len(rows))
  IN  [items |-> page,
       nextCursor |-> IF Len(rows) > limit THEN key[Last(page)] ELSE None]

(* The list goes on: what it has shown, and where its next page starts.    *)
Turn(list, page) ==
  [list EXCEPT !.shown = @ \o page.items, !.cursor = page.nextCursor]

IsList(kind) == reader # None /\ reader.kind = kind

-------------------------------------------------------------------------------
(* listReservations: newest first.                                         *)

(* (created_at, id) < (other.created_at, other.id), the order of the list. *)
KeyBelow(key, other) ==
  key[1] < other[1] \/ (key[1] = other[1] /\ key[2] < other[2])

(* mutant: a cursor on the timestamp alone                                 *)
PrecedesByTimestamp(key, cursor) == cursor = None \/ key[1] < cursor[1]

Precedes(key, cursor) == cursor = None \/ KeyBelow(key, cursor)

ReservationKey(p, i) == <<createdAt[p][i], UuidRank[i]>>

HasStatus(p, i, status) ==
  reservation[p][i] # None /\ (status = None \/ reservation[p][i].status = status)

NewestReservations(p, status, cursor) ==
  LET S == {i \in Invoices : /\ HasStatus(p, i, status)
                             /\ Precedes(ReservationKey(p, i), cursor)}
  IN  InOrder(S, [i \in S |-> {j \in S : KeyBelow(ReservationKey(p, i), ReservationKey(p, j))}])

ReservationPage(list, limit) ==
  PageFrom(NewestReservations(list.program, list.filter, list.cursor), limit,
           [i \in Invoices |-> ReservationKey(list.program, i)])

ListReservations(p, status, limit) ==
  LET list == [kind |-> "reservations", program |-> p, filter |-> status, cursor |-> None,
               shown |-> <<>>, newest |-> Len(ledger[p])]
  IN  /\ reader = None
      /\ reader' = Turn(list, ReservationPage(list, limit))

NextReservations(limit) ==
  /\ IsList("reservations") /\ reader.cursor # None
  /\ reader' = Turn(reader, ReservationPage(reader, limit))

-------------------------------------------------------------------------------
(* listLedger: highest sequence first.                                     *)

(* mutant: the entry the cursor names is on the next page again            *)
BelowInclusive(entry, cursor) == cursor = None \/ entry.sequence <= cursor

Below(entry, cursor) == cursor = None \/ entry.sequence < cursor

EntryMatches(entry, query) ==
  /\ query.from = None \/ entry.occurredAt >= query.from
  /\ query.to = None \/ entry.occurredAt <= query.to
  /\ query.cause = None \/ entry.cause = query.cause

MatchingEntries(p, query) == {n \in DOMAIN ledger[p] : EntryMatches(ledger[p][n], query)}

NewestFirst(p, S) ==
  InOrder(S, [n \in S |-> {k \in S : ledger[p][k].sequence > ledger[p][n].sequence}])

NewestEntries(p, query, cursor) ==
  NewestFirst(p, {n \in MatchingEntries(p, query) : Below(ledger[p][n], cursor)})

LedgerPage(list, limit) ==
  PageFrom(NewestEntries(list.program, list.filter, list.cursor), limit,
           [n \in DOMAIN ledger[list.program] |-> ledger[list.program][n].sequence])

ListLedger(p, query, limit) ==
  LET list == [kind |-> "ledger", program |-> p, filter |-> query, cursor |-> None,
               shown |-> <<>>, newest |-> Len(ledger[p])]
  IN  /\ reader = None
      /\ reader' = Turn(list, LedgerPage(list, limit))

NextLedger(limit) ==
  /\ IsList("ledger") /\ reader.cursor # None
  /\ reader' = Turn(reader, LedgerPage(reader, limit))

-------------------------------------------------------------------------------
(* auditLedger: all program rows in one query, then the sums of one        *)
(* program after the other, until one of them disagrees.                   *)

(* mutant: a component without an entry adds up to NULL                    *)
ComponentSumOrNull(p, component) ==
  IF EntriesOf(p, component) = {} THEN None ELSE LedgerTotal(p, EntriesOf(p, component))

ComponentSum(p, component) == LedgerTotal(p, EntriesOf(p, component))

AuditRows ==
  /\ reader = None
  /\ reader' = [kind |-> "audit", rows |-> program, pending |-> Programs, blamed |-> None]

AuditProgram(p) ==
  LET row     == reader.rows[p]
      matches == /\ ComponentSum(p, "LOCAL") = row.local
                 /\ ComponentSum(p, "TREASURY") = row.treasury
                 /\ ComponentSum(p, "LIMIT") = row.limit
  IN  /\ IsList("audit") /\ p \in reader.pending
      /\ reader' = IF matches THEN [reader EXCEPT !.pending = @ \ {p}]
                   ELSE [reader EXCEPT !.pending = {}, !.blamed = p]

-------------------------------------------------------------------------------
(* ReconciliationCheckService.check: one SELECT, then one UPDATE for each  *)
(* program it has found, which waits for the lock of its row.              *)

(* mutant: only untouched reservations count as active                     *)
ActiveUntouched(p) == {i \in Booked(p) : reservation[p][i].status = "ACTIVE"}

Active(p) ==
  {i \in Booked(p) : reservation[p][i].status \in {"ACTIVE", "PARTIALLY_RELEASED"}}

Mismatched == {p \in Programs : program[p].local # Outstanding(p, Active(p))}

ReconciliationCheck ==
  IF mismatched = {}
  THEN mismatched' = Mismatched /\ UNCHANGED program
  ELSE \E p \in mismatched :
         /\ LockAvailable(p)
         /\ program' = [program EXCEPT ![p].investigationRequired = TRUE]
         /\ mismatched' = mismatched \ {p}

-------------------------------------------------------------------------------
ReadsInit ==
  /\ Init
  /\ createdAt = [p \in Programs |-> [i \in Invoices |-> None]]
  /\ reader = None /\ mismatched = {}

Read ==
  \/ \E p \in Programs, limit \in PageLimits :
       \/ \E status \in Statuses : ListReservations(p, status, limit)
       \/ \E query \in LedgerQueries : ListLedger(p, query, limit)
  \/ \E limit \in PageLimits : NextReservations(limit) \/ NextLedger(limit)
  \/ AuditRows
  \/ \E p \in Programs : AuditProgram(p)

Write == \E w \in Workers : HandleCommand(w) \/ HandleMessage(w)

(* A new row carries the clock of the instance that inserted it.           *)
Stamp(now) ==
  createdAt' = [p \in Programs |-> [i \in Invoices |->
                  IF createdAt[p][i] = None /\ reservation'[p][i] # None
                  THEN now ELSE createdAt[p][i]]]

ReadsNext ==
  \/ Read /\ UNCHANGED <<system, mismatched, createdAt>>
  \/ ReconciliationCheck /\ UNCHANGED <<reservation, ledger, request, processed,
                                        streamPosition, sessions, flagging, reader, createdAt>>
  \/ /\ Write
     /\ \E now \in Instants : Stamp(now)
     /\ UNCHANGED <<flagging, reads>>

ReadsSpec == ReadsInit /\ [][ReadsNext]_observed

-------------------------------------------------------------------------------
(* SC-004b: whatever is booked between two pages, a list of the ledger is   *)
(* what matched when its first page was read, newest first, without a gap, *)
(* and complete when no cursor is left.                                    *)
LedgerListIsExact ==
  IsList("ledger") =>
    LET due == NewestFirst(reader.program, {n \in MatchingEntries(reader.program, reader.filter) :
                                              n <= reader.newest})
    IN  IsPrefix(reader.shown, due) /\ (reader.cursor = None => reader.shown = due)

(* Reservations a list owes its reader: those that were there at its first *)
(* page and, if it asks for a status, have it and have not moved since.    *)
Owed ==
  {i \in Invoices :
     /\ HasStatus(reader.program, i, reader.filter)
     /\ \E n \in InvoiceEntries(reader.program, i) : n <= reader.newest
     /\ reader.filter = None \/ \A n \in InvoiceEntries(reader.program, i) : n <= reader.newest}

(* A list of reservations shows none twice, and by its end every one it    *)
(* owes, though instants collide and clocks of different instances         *)
(* disagree.                                                               *)
ReservationListIsComplete ==
  IsList("reservations") =>
    /\ IsInjective(reader.shown)
    /\ reader.cursor = None => Owed \subseteq ToSet(reader.shown)

(* FR-019a: the audit blames a program only if it was written while the    *)
(* audit ran: the ledger of a program at rest always explains its row.     *)
AuditBlamesOnlyTheMoving ==
  IsList("audit") /\ reader.blamed # None =>
    reader.rows[reader.blamed].nextSequence < program[reader.blamed].nextSequence

(* FR-019b: the check runs beside handlers and never finds a difference,   *)
(* whatever was reserved, partly released and cancelled in between.        *)
ReconciliationFindsNothing == mismatched = {}
=============================================================================
