----------------------------- MODULE FacilityProofs -----------------------------
(***************************************************************************)
(* The capacity service implements the credit facility, for every set of   *)
(* programs, invoices, workers, commands and messages: seen through the    *)
(* committed rows, every step is one step of the facility or none.         *)
(***************************************************************************)
EXTENDS CapacityProofs

(* The row of a request identifier that a transaction has inserted and not *)
(* committed is its own: no other transaction has inserted it, and none    *)
(* has committed it. An accepted command is the first with its identifier  *)
(* for this reason only.                                                   *)
KeyIsOwn ==
  \A w \in Workers : pc[w] = "begun" =>
    /\ request[job[w].id] = None
    /\ \A v \in Workers \ {w} : pc[v] = "begun" => job[v].id # job[w].id

FInv == IInv /\ KeyIsOwn

FacilityStep == [Facility!FacilityNext]_(Facility!promised)

-------------------------------------------------------------------------------
(* Request identifiers.                                                    *)

(* No transaction inserts an identifier, and none commits one that another *)
(* has inserted.                                                           *)
LEMMA NoNewKey ==
  ASSUME KeyIsOwn,
         \A w \in Workers : pc'[w] = "begun" =>
           /\ pc[w] = "begun" /\ job'[w] = job[w]
           /\ request[job[w].id] = None => request'[job[w].id] = None
  PROVE  KeyIsOwn'
<1> QED BY DEF KeyIsOwn

LEMMA FinishKeepsKeys ==
  ASSUME FInv, NEW w \in Workers, NEW reply, Finish(w, reply),
         \A k \in RequestIds : request'[k] = request[k] \/ (pc[w] = "begun" /\ k = job[w].id)
  PROVE  KeyIsOwn'
<1>1. ASSUME NEW v \in Workers, pc'[v] = "begun"
      PROVE  /\ v # w /\ pc[v] = "begun" /\ job'[v] = job[v] /\ job[v].id \in RequestIds
  BY <1>1, CommandsAssumption DEF Finish, FInv, IInv, TypeOK, SessionsOK
<1>2. ASSUME NEW v \in Workers, pc'[v] = "begun"
      PROVE  request'[job[v].id] = request[job[v].id]
  BY <1>1, <1>2 DEF FInv, KeyIsOwn
<1> QED BY <1>1, <1>2, NoNewKey DEF FInv

-------------------------------------------------------------------------------
(* What the facility sees of a step.                                       *)

LEMMA NothingSeen ==
  ASSUME UNCHANGED <<program, reservation, request, processed>>
  PROVE  UNCHANGED Facility!promised
<1> QED BY DEF Facility!promised, Facilities, Holdings, AcceptedOperations, CountedKinds, Held

(* An advance by one draft moves one component by its delta.               *)
LEMMA OneDraftMoves ==
  ASSUME NEW p \in ProgramRow, NEW d, d.delta \in Int
  PROVE  LET row == AdvancePosition(p, <<d>>)
         IN  /\ d.component = "LOCAL" => row.local = p.local + d.delta
             /\ d.component # "LOCAL" => row.local = p.local
             /\ d.component # "TREASURY" => row.treasury = p.treasury
             /\ d.component # "LIMIT" => row.limit = p.limit
<1> DEFINE drafts == <<d>>
           moved  == MovedPosition(p, drafts)
           row    == AdvancePosition(p, drafts)
<1>1. ASSUME NEW component
      PROVE  ComponentDelta(drafts, component) =
               IF d.component = component THEN d.delta ELSE 0
  <2>1. DOMAIN drafts = {1} /\ drafts[1] = d
    OBVIOUS
  <2> HIDE DEF drafts
  <2> QED BY <2>1 DEF ComponentDelta, DraftDelta
<1>2. /\ p.local \in Int /\ p.treasury \in Int /\ p.limit \in Int
      /\ moved.local = p.local + ComponentDelta(drafts, "LOCAL")
      /\ moved.treasury = p.treasury + ComponentDelta(drafts, "TREASURY")
      /\ moved.limit = p.limit + ComponentDelta(drafts, "LIMIT")
      /\ DOMAIN moved = DOMAIN p
  <2> HIDE DEF drafts
  <2> QED BY StoreAssumption DEF MovedPosition, ProgramRow, Minor
<1>3. row.local = moved.local /\ row.treasury = moved.treasury /\ row.limit = moved.limit
  <2>1. row = [moved EXCEPT !.nextSequence = @ + Len(drafts) + Len(MarkEntries(p, drafts)),
                            !.overLimit = IsOverLimit(moved)]
    BY Zenon DEF AdvancePosition
  <2> HIDE DEF moved, row, drafts
  <2> QED BY <1>2, <2>1 DEF ProgramRow
<1> HIDE DEF moved
<1> QED BY <1>1, <1>2, <1>3

(* An accepted command is recorded under its identifier, which was unused, *)
(* and moves the LOCAL component and what its invoice holds.               *)
CommandSeen(w, delta, row) ==
  /\ ReservationRowAllowed(job[w].program, row)
  /\ Facilities' = [Facilities EXCEPT ![job[w].program].local = @ + delta]
  /\ Holdings' = [Holdings EXCEPT ![job[w].program][job[w].invoice] = row.outstandingReserved]
  /\ AcceptedOperations[job[w].id] = None
  /\ AcceptedOperations' = [AcceptedOperations EXCEPT ![job[w].id] = job[w].operation]
  /\ UNCHANGED CountedKinds

LEMMA CommitCommandSeen ==
  ASSUME FInv, NEW w \in Workers, pc[w] = "begun", NEW delta, NEW cause, NEW row,
         ReservationRowAllowed(job[w].program, row) =>
           delta \in Int /\ row \in ReservationRow,
         CommitCommand(w, delta, cause, row)
  PROVE  /\ KeyIsOwn'
         /\ CommandSeen(w, delta, row) \/ UNCHANGED Facility!promised
<1> DEFINE P == job[w].program
           I == job[w].invoice
           K == job[w].id
           drafts  == LocalDraft(w, delta, cause)
           outcome == Body(Advanced(w, drafts), row)
<1>1. /\ InTransaction(w) /\ job[w] \in Commands /\ K \in RequestIds
      /\ P \in Programs /\ I \in Invoices /\ job[w].operation \in Operations
  BY CommandsAssumption DEF FInv, IInv, TypeOK, SessionsOK, InTransaction
<1>2. CASE AdvanceAllowed(w, drafts, FALSE) /\ ReservationRowAllowed(P, row)
  <2>1. /\ PersistAdvance(w, drafts)
        /\ reservation' = [reservation EXCEPT ![P][I] = row]
        /\ request' = [request EXCEPT ![K] = RequestRecord(job[w], "COMPLETE", outcome)]
        /\ Finish(w, Reply(w, "created", Accepted, outcome))
        /\ UNCHANGED processed
    BY <1>2, Zenon DEF CommitCommand
  <2>2. delta \in Int /\ row \in ReservationRow /\ row # None
    BY <1>2, NullAssumption
  <2>3. view[w] \in ProgramRow /\ view[w] = program[P]
    BY <1>1 DEF FInv, IInv, TypeOK, TablesOK, LockedViewIsCurrent
  <2>4. /\ program' = [program EXCEPT ![P] = Advanced(w, drafts)]
        /\ Advanced(w, drafts).local = program[P].local + delta
        /\ Advanced(w, drafts).treasury = program[P].treasury
        /\ Advanced(w, drafts).limit = program[P].limit
        /\ Advanced(w, drafts).positionVerified = program[P].positionVerified
    <3> DEFINE d == drafts[1]
    <3>1. drafts = <<d>> /\ d.delta = delta /\ d.component = "LOCAL"
      BY DEF LocalDraft
    <3> HIDE DEF d, drafts
    <3>2. drafts \in Seq({d})
      BY <3>1
    <3>3. Advanced(w, drafts).positionVerified = view[w].positionVerified
      BY <1>1, <1>2, <3>2, AdvancedRow DEF FInv
    <3>4. /\ Advanced(w, drafts).local = view[w].local + delta
          /\ Advanced(w, drafts).treasury = view[w].treasury
          /\ Advanced(w, drafts).limit = view[w].limit
      BY <2>2, <2>3, <3>1, OneDraftMoves DEF Advanced
    <3> QED BY <2>1, <2>3, <3>3, <3>4 DEF PersistAdvance, PersistRow
  <2> HIDE DEF drafts
  <2>5. Facilities' = [Facilities EXCEPT ![P].local = @ + delta]
    <3>1. \A p \in Programs \ {P} : program'[p] = program[p]
      BY <2>4 DEF FInv, IInv, TypeOK, TablesOK
    <3>2. program'[P] = Advanced(w, drafts)
      BY <1>1, <2>4 DEF FInv, IInv, TypeOK, TablesOK
    <3> QED BY <1>1, <2>4, <3>1, <3>2 DEF Facilities
  <2>6. Holdings' = [Holdings EXCEPT ![P][I] = row.outstandingReserved]
    <3>1. ASSUME NEW p \in Programs, NEW i \in Invoices
          PROVE  reservation'[p][i] = IF p = P /\ i = I THEN row ELSE reservation[p][i]
      BY <1>1, <2>1 DEF FInv, IInv, TypeOK, TablesOK
    <3>2. ASSUME NEW p \in Programs, NEW i \in Invoices
          PROVE  Held(p, i)' = IF p = P /\ i = I THEN row.outstandingReserved ELSE Held(p, i)
      BY <2>2, <3>1, Zenon DEF Held
    <3> HIDE DEF P, I
    <3> QED BY <1>1, <3>2 DEF Holdings
  <2>7. AcceptedOperations[K] = None
    BY <1>1 DEF FInv, KeyIsOwn, AcceptedOperations
  <2>8. AcceptedOperations' = [AcceptedOperations EXCEPT ![K] = job[w].operation]
    <3> DEFINE record == RequestRecord(job[w], "COMPLETE", outcome)
    <3>1. record # None /\ record.operation = job[w].operation
      <4>1. Advanced(w, drafts) \in ProgramRow
        <5>1. drafts \in Seq({drafts[1]})
          BY DEF drafts, LocalDraft
        <5> QED BY <1>1, <1>2, <5>1, AdvancedRow DEF FInv
      <4>2. outcome \in Outcome
        BY <2>2, <4>1 DEF Body, Outcome, ProgramRow, Minor, Available, TotalReserved
      <4> HIDE DEF outcome
      <4>3. record \in RequestRow
        BY <1>1, <4>2 DEF RequestRecord, RequestRow
      <4>4. record.operation = job[w].operation
        BY DEF RequestRecord
      <4> HIDE DEF record
      <4> QED BY <4>3, <4>4, NullAssumption
    <3>2. ASSUME NEW k \in RequestIds
          PROVE  request'[k] = IF k = K THEN record ELSE request[k]
      BY <1>1, <2>1 DEF FInv, IInv, TypeOK, TablesOK
    <3> HIDE DEF record, K
    <3> QED BY <1>1, <3>1, <3>2 DEF AcceptedOperations
  <2>9. UNCHANGED CountedKinds
    BY <2>1 DEF CountedKinds
  <2>10. KeyIsOwn'
    <3>1. \A k \in RequestIds : request'[k] = request[k] \/ k = K
      BY <2>1 DEF FInv, IInv, TypeOK, TablesOK
    <3> QED BY <2>1, <3>1, FinishKeepsKeys
  <2> QED BY <1>2, <2>5, <2>6, <2>7, <2>8, <2>9, <2>10 DEF CommandSeen
<1>3. CASE ~(AdvanceAllowed(w, drafts, FALSE) /\ ReservationRowAllowed(P, row))
  <2>1. FinishUnchanged(w, Reply(w, "failed", "CONSTRAINT_VIOLATION", None))
    BY <1>3, Zenon DEF CommitCommand
  <2>2. KeyIsOwn'
    BY <2>1, FinishKeepsKeys DEF FinishUnchanged, tables
  <2> QED BY <2>1, <2>2, NothingSeen DEF FinishUnchanged, tables
<1> QED BY <1>2, <1>3

-------------------------------------------------------------------------------
(* The commands.                                                           *)

(* A reserve takes for a new invoice what the program has left, at most.   *)
LEMMA ReserveSeen ==
  ASSUME FInv, NEW w \in Workers, Reserve(w)
  PROVE  KeyIsOwn' /\ FacilityStep
<1> DEFINE P == job[w].program
           I == job[w].invoice
<1>1. PICK fx \in FxResolutions(w) :
        IF ReserveRefusal(w, fx) # Accepted
        THEN Refuse(w, ReserveRefusal(w, fx))
        ELSE CommitCommand(w, ReservedAmount(job[w].amount, fx), "RESERVATION",
               NewReservation(job[w].currency, job[w].amount, fx, view[w].nextSequence))
  BY DEF Reserve
<1>2. /\ pc[w] = "begun" /\ job[w].operation = "RESERVE" /\ job[w] \in Commands
      /\ P \in Programs /\ I \in Invoices /\ job[w].id \in RequestIds
      /\ view[w] \in ProgramRow /\ view[w] = program[P]
  BY CommandsAssumption DEF Reserve, Working, FInv, IInv, TypeOK, TablesOK, SessionsOK,
                            LockedViewIsCurrent, InTransaction
<1>3. CASE ReserveRefusal(w, fx) # Accepted
  <2>1. FinishUnchanged(w, Reply(w, "refused", ReserveRefusal(w, fx), None))
    BY <1>1, <1>3 DEF Refuse
  <2> QED BY <2>1, FinishKeepsKeys, NothingSeen DEF FinishUnchanged, tables, FacilityStep
<1>4. CASE ReserveRefusal(w, fx) = Accepted
  <2> DEFINE n   == ReservedAmount(job[w].amount, fx)
             row == NewReservation(job[w].currency, job[w].amount, fx, view[w].nextSequence)
  <2>1. /\ Row(w) = None /\ view[w].positionVerified /\ fx.kind # "unavailable"
        /\ ~(n > Available(view[w]))
    BY <1>4, ReserveAccepted
  <2>2. row.reserved = n /\ row.outstandingReserved = n
    BY DEF NewReservation
  <2>3. ReservationRowAllowed(P, row) => n \in 1..MaxMinor
    BY <2>2 DEF ReservationRowAllowed
  <2>4. ReservationRowAllowed(P, row) => row \in ReservationRow
    <3>1. fx.rate \in Nat \ {0}
      BY <2>1, FxResolutionRate
    <3>2. job[w].currency \in {c.currency : c \in Commands} /\ view[w].nextSequence \in Nat
      BY <1>2 DEF ProgramRow
    <3> QED BY <3>1, <3>2, StoreAssumption
            DEF NewReservation, ReservationRowAllowed, ReservationRow, Minor
  <2>5. CommitCommand(w, n, "RESERVATION", row)
    BY <1>1, <1>4
  <2> HIDE DEF n, row
  <2>6. KeyIsOwn' /\ (CommandSeen(w, n, row) \/ UNCHANGED Facility!promised)
    <3>1. ReservationRowAllowed(P, row) => n \in Int /\ row \in ReservationRow
      BY <2>3, <2>4, StoreAssumption
    <3> QED BY <1>2, <2>5, <3>1, CommitCommandSeen
  <2>7. ASSUME CommandSeen(w, n, row)
        PROVE  Facility!Reserve(job[w].id, P, I)
    <3>1. Facilities[P] = [limit |-> program[P].limit, local |-> program[P].local,
                           treasury |-> program[P].treasury,
                           verified |-> program[P].positionVerified]
      BY <1>2 DEF Facilities
    <3>2. n \in 1..(Facilities[P].limit - Facilities[P].local - Facilities[P].treasury)
      <4>1. n \in Int /\ n >= 1
        BY <2>3, <2>7, StoreAssumption DEF CommandSeen
      <4>2. n <= program[P].limit - (program[P].local + program[P].treasury)
        BY <1>2, <2>1, <4>1, StoreAssumption DEF Available, TotalReserved, ProgramRow, Minor
      <4> QED BY <1>2, <3>1, <4>1, <4>2, StoreAssumption DEF ProgramRow, Minor
    <3>3. Facilities[P].verified /\ Holdings[P][I] = None
      BY <1>2, <2>1, <3>1 DEF Holdings, Held, Row
    <3>4. Facility!Accept(job[w].id, P, "RESERVE")
      BY <1>2, <2>7, <3>3 DEF CommandSeen, Facility!Accept
    <3>5. /\ Holdings' = [Holdings EXCEPT ![P][I] = n]
          /\ Facilities' = [Facilities EXCEPT ![P].local = @ + n]
      BY <2>2, <2>7 DEF CommandSeen
    <3> QED BY <3>2, <3>3, <3>4, <3>5 DEF Facility!Reserve
  <2> QED BY <1>2, <2>6, <2>7 DEF FacilityStep, Facility!FacilityNext
<1> QED BY <1>3, <1>4

(* What is held is an amount: of a booked invoice, its outstanding part.   *)
LEMMA HeldAmount ==
  ASSUME FInv, NEW p \in Programs, NEW i \in Invoices, reservation[p][i] \in ReservationRow
  PROVE  /\ Holdings[p][i] = reservation[p][i].outstandingReserved
         /\ Holdings[p][i] \in Minor /\ Holdings[p][i] # None
<1>1. None \notin Minor /\ None \notin ReservationRow
  BY NullAssumption, StoreAssumption DEF Minor
<1> QED BY <1>1 DEF Holdings, Held, ReservationRow

(* An accepted settlement gives back n of what its invoice holds.          *)
LEMMA SettlementSeen ==
  ASSUME FInv, NEW w \in Workers, pc[w] = "begun", Row(w) \in ReservationRow,
         view[w].positionVerified, NEW n \in Int, NEW row,
         row.outstandingReserved = Row(w).outstandingReserved - n,
         CommandSeen(w, -n, row)
  PROVE  /\ Facility!Accept(job[w].id, job[w].program, job[w].operation)
         /\ Holdings[job[w].program][job[w].invoice] = Row(w).outstandingReserved
         /\ Holdings[job[w].program][job[w].invoice] # None
         /\ Facility!GiveBack(job[w].program, job[w].invoice, n)
<1> DEFINE P == job[w].program
           I == job[w].invoice
<1>1. /\ P \in Programs /\ I \in Invoices /\ view[w] = program[P] /\ program[P] \in ProgramRow
  BY CommandsAssumption DEF FInv, IInv, TypeOK, TablesOK, SessionsOK, LockedViewIsCurrent,
                            InTransaction
<1>2. Holdings[P][I] = Row(w).outstandingReserved /\ Holdings[P][I] # None
  BY <1>1, HeldAmount DEF Row
<1>3. Facilities[P].verified /\ Facilities[P].local \in Int
  BY <1>1, StoreAssumption DEF Facilities, ProgramRow, Minor
<1>4. Facility!Accept(job[w].id, P, job[w].operation)
  BY <1>3 DEF CommandSeen, Facility!Accept
<1>5. Facility!GiveBack(P, I, n)
  <2>1. Facilities' = [Facilities EXCEPT ![P].local = @ - n]
    <3>1. Facilities[P].local + (-n) = Facilities[P].local - n
      BY <1>3
    <3>2. Facilities' = [Facilities EXCEPT ![P].local = Facilities[P].local + (-n)]
      BY <1>1 DEF CommandSeen, Facilities
    <3>3. [Facilities EXCEPT ![P].local = @ - n] =
            [Facilities EXCEPT ![P].local = Facilities[P].local - n]
      BY <1>1 DEF Facilities
    <3> QED BY <3>1, <3>2, <3>3
  <2>2. Holdings' = [Holdings EXCEPT ![P][I] = @ - n]
    BY <1>1, <1>2 DEF CommandSeen, Holdings
  <2> QED BY <2>1, <2>2 DEF Facility!GiveBack
<1> QED BY <1>2, <1>4, <1>5

(* A release gives back a part of what its invoice holds, or all of it.    *)
LEMMA ReleaseSeen ==
  ASSUME FInv, NEW w \in Workers, Release(w)
  PROVE  KeyIsOwn' /\ FacilityStep
<1> DEFINE P == job[w].program
           I == job[w].invoice
           n == ReleaseDelta(Row(w), job[w].amount)
           verdict == ReleaseVerdict(Row(w), job[w].currency, job[w].amount)
           refusal == SettlementRefusal(w, verdict)
           row     == Released(Row(w), job[w].amount)
<1>1. /\ pc[w] = "begun" /\ job[w].operation = "RELEASE"
      /\ IF refusal # Accepted THEN Refuse(w, refusal)
         ELSE CommitCommand(w, -n, "RELEASE", row)
  BY Zenon DEF Release, Working
<1>2. P \in Programs /\ I \in Invoices /\ job[w].id \in RequestIds
  BY <1>1, CommandsAssumption DEF FInv, IInv, TypeOK, SessionsOK
<1> HIDE DEF verdict, row, n
<1>3. CASE refusal # Accepted
  <2> HIDE DEF refusal
  <2>1. FinishUnchanged(w, Reply(w, "refused", refusal, None))
    BY <1>1, <1>3 DEF Refuse
  <2> QED BY <2>1, FinishKeepsKeys, NothingSeen DEF FinishUnchanged, tables, FacilityStep
<1>4. CASE refusal = Accepted
  <2>1. Row(w) \in ReservationRow /\ verdict = Accepted /\ view[w].positionVerified
    BY <1>1, <1>4, SettlementRow DEF FInv
  <2>2. ~(n < 0) /\ n # 0
    BY <2>1, ReleaseAccepted DEF verdict, n
  <2>3. n = Row(w).outstandingReserved - row.outstandingReserved
    <3>1. row.outstandingReserved = Remainder(Row(w), job[w].amount)
      BY <2>1 DEF row, Released, ReservationRow
    <3> QED BY <3>1 DEF n, ReleaseDelta
  <2>4. ReservationRowAllowed(P, row) =>
          /\ row \in ReservationRow
          /\ n \in 1..Row(w).outstandingReserved
    <3>1. row.outstandingInvoice \in Minor /\ row.outstandingReserved \in Minor
          => row \in ReservationRow
      BY <2>1 DEF row, Released, ReservationRow, TerminalStatuses
    <3>2. row.amount = Row(w).amount /\ row.reserved = Row(w).reserved
      BY <2>1 DEF row, Released, ReservationRow
    <3>3. {Row(w).amount, Row(w).reserved, Row(w).outstandingReserved} \subseteq Minor
      BY <2>1 DEF ReservationRow
    <3> QED BY <2>2, <2>3, <3>1, <3>2, <3>3, StoreAssumption DEF ReservationRowAllowed, Minor
  <2>5. KeyIsOwn' /\ (CommandSeen(w, -n, row) \/ UNCHANGED Facility!promised)
    <3>1. CommitCommand(w, -n, "RELEASE", row)
      BY <1>1, <1>4
    <3>2. ReservationRowAllowed(P, row) => -n \in Int /\ row \in ReservationRow
      BY <2>4
    <3> QED BY <1>1, <3>1, <3>2, CommitCommandSeen
  <2>6. ASSUME CommandSeen(w, -n, row)
        PROVE  Facility!Release(job[w].id, P, I)
    <3>1. n \in 1..Row(w).outstandingReserved
      BY <2>4, <2>6 DEF CommandSeen
    <3>2. Row(w).outstandingReserved \in Int /\ row.outstandingReserved \in Int
      BY <2>1, <2>6, StoreAssumption DEF CommandSeen, ReservationRowAllowed, ReservationRow, Minor
    <3>3. row.outstandingReserved = Row(w).outstandingReserved - n
      BY <2>3, <3>1, <3>2
    <3>4. /\ Facility!Accept(job[w].id, P, "RELEASE")
          /\ Holdings[P][I] = Row(w).outstandingReserved /\ Holdings[P][I] # None
          /\ Facility!GiveBack(P, I, n)
      BY <1>1, <2>1, <2>6, <3>1, <3>3, SettlementSeen
    <3> QED BY <3>1, <3>4 DEF Facility!Release
  <2> QED BY <1>2, <2>5, <2>6 DEF FacilityStep, Facility!FacilityNext
<1> QED BY <1>3, <1>4

(* A cancellation gives back all of it.                                    *)
LEMMA CancelSeen ==
  ASSUME FInv, NEW w \in Workers, Cancel(w)
  PROVE  KeyIsOwn' /\ FacilityStep
<1> DEFINE P == job[w].program
           I == job[w].invoice
           n == Row(w).outstandingReserved
           refusal == SettlementRefusal(w, CancelVerdict(Row(w)))
           row     == Cancelled(Row(w))
<1>1. /\ pc[w] = "begun" /\ job[w].operation = "CANCEL"
      /\ IF refusal # Accepted THEN Refuse(w, refusal)
         ELSE CommitCommand(w, -n, CancelCause(Row(w)), row)
  BY Zenon DEF Cancel, Working
<1>2. P \in Programs /\ I \in Invoices /\ job[w].id \in RequestIds
  BY <1>1, CommandsAssumption DEF FInv, IInv, TypeOK, SessionsOK
<1> HIDE DEF row
<1>3. CASE refusal # Accepted
  <2> HIDE DEF refusal
  <2>1. FinishUnchanged(w, Reply(w, "refused", refusal, None))
    BY <1>1, <1>3 DEF Refuse
  <2> QED BY <2>1, FinishKeepsKeys, NothingSeen DEF FinishUnchanged, tables, FacilityStep
<1>4. CASE refusal = Accepted
  <2>1. Row(w) \in ReservationRow /\ view[w].positionVerified
    BY <1>1, <1>4, SettlementRow DEF FInv
  <2>2. n \in Minor /\ n \in Int
    BY <2>1, StoreAssumption DEF ReservationRow, Minor
  <2>3. row \in ReservationRow /\ row.outstandingReserved = 0
    <3>1. PICK status \in TerminalStatuses :
            row = [Row(w) EXCEPT !.outstandingReserved = 0, !.status = status]
      BY Zenon DEF row, Cancelled, TerminalStatuses
    <3>2. 0 \in Minor
      BY StoreAssumption DEF Minor
    <3> QED BY <2>1, <3>1, <3>2 DEF ReservationRow
  <2>4. KeyIsOwn' /\ (CommandSeen(w, -n, row) \/ UNCHANGED Facility!promised)
    <3>1. CommitCommand(w, -n, CancelCause(Row(w)), row)
      BY <1>1, <1>4
    <3>2. -n \in Int
      BY <2>2
    <3> QED BY <1>1, <2>3, <3>1, <3>2, CommitCommandSeen
  <2>5. ASSUME CommandSeen(w, -n, row)
        PROVE  Facility!Cancel(job[w].id, P, I)
    <3>1. row.outstandingReserved = n - n
      BY <2>2, <2>3
    <3>2. /\ Facility!Accept(job[w].id, P, "CANCEL")
          /\ Holdings[P][I] = n /\ Holdings[P][I] # None
          /\ Facility!GiveBack(P, I, n)
      BY <1>1, <2>1, <2>2, <2>5, <3>1, SettlementSeen
    <3> QED BY <3>2 DEF Facility!Cancel
  <2> QED BY <1>2, <2>4, <2>5 DEF FacilityStep, Facility!FacilityNext
<1> QED BY <1>3, <1>4

(* Every step of a command.                                                *)
LEMMA HandleCommandSeen ==
  ASSUME FInv, NEW w \in Workers, HandleCommand(w)
  PROVE  KeyIsOwn' /\ FacilityStep
<1>1. CASE \E c \in Commands : StartCommand(w, c)
  <2>1. UNCHANGED tables
    BY <1>1 DEF StartCommand
  <2>2. \A v \in Workers : pc'[v] = "begun" => pc[v] = "begun" /\ job'[v] = job[v]
    BY <1>1 DEF StartCommand, TakeLock, FInv, IInv, TypeOK, SessionsOK
  <2>3. KeyIsOwn'
    BY <2>1, <2>2, NoNewKey DEF FInv, tables
  <2> QED BY <2>1, <2>3, NothingSeen DEF tables, FacilityStep
<1>2. CASE BeginRequest(w)
  <2>1. KeyIsOwn'
    <3>1. /\ request' = request /\ job' = job /\ request[job[w].id] = None
          /\ \A v \in Workers \ {w} : (pc'[v] = "begun" <=> pc[v] = "begun")
          /\ \A v \in Workers \ {w} : pc[v] = "begun" => job[v].id # job[w].id
      BY <1>2 DEF BeginRequest, KeyInFlight, tables, FInv, IInv, TypeOK, SessionsOK
    <3> QED BY <3>1 DEF KeyIsOwn, FInv
  <2> QED BY <1>2, <2>1, NothingSeen DEF BeginRequest, tables, FacilityStep
<1>3. CASE Replay(w)
  BY <1>3, FinishKeepsKeys, NothingSeen DEF Replay, FinishUnchanged, tables, FacilityStep
<1> QED BY <1>1, <1>2, <1>3, ReserveSeen, ReleaseSeen, CancelSeen DEF HandleCommand

(* The sweep takes outcomes, and no operation.                             *)
LEMMA RetentionSweepSeen ==
  ASSUME FInv, RetentionSweep
  PROVE  KeyIsOwn' /\ FacilityStep
<1>1. PICK old \in SUBSET {k \in RequestIds : request[k] # None /\ request[k].state = "COMPLETE"} :
        request' = [k \in RequestIds |->
                      IF k \in old THEN [request[k] EXCEPT !.state = "EXPIRED", !.outcome = None]
                      ELSE request[k]]
  BY DEF RetentionSweep
<1>2. UNCHANGED <<program, reservation, processed, pc, job>>
  BY DEF RetentionSweep
<1>3. ASSUME NEW k \in RequestIds
      PROVE  /\ request'[k] = None <=> request[k] = None
             /\ request[k] # None => request'[k].operation = request[k].operation
  <2>1. CASE k \in old
    <3>1. request[k] \in RequestRow /\ request[k] # None
      BY <2>1 DEF FInv, IInv, TypeOK, TablesOK
    <3>2. request'[k] = [request[k] EXCEPT !.state = "EXPIRED", !.outcome = None]
      BY <1>1, <2>1
    <3>3. request'[k] \in RequestRow /\ request'[k].operation = request[k].operation
      BY <3>1, <3>2 DEF RequestRow
    <3> QED BY <3>1, <3>3, NullAssumption
  <2>2. CASE k \notin old
    BY <1>1, <2>2
  <2> QED BY <2>1, <2>2
<1>4. AcceptedOperations' = AcceptedOperations
  BY <1>3 DEF AcceptedOperations
<1>5. UNCHANGED Facility!promised
  BY <1>2, <1>4 DEF Facility!promised, Facilities, Holdings, CountedKinds, Held
<1>6. KeyIsOwn'
  <2>1. \A w \in Workers : pc[w] = "begun" => job[w].id \in RequestIds
    BY CommandsAssumption DEF FInv, IInv, TypeOK, SessionsOK
  <2> QED BY <1>2, <1>3, <2>1, NoNewKey DEF FInv
<1> QED BY <1>5, <1>6 DEF FacilityStep

-------------------------------------------------------------------------------
(* The messages.                                                           *)

(* What is applied is new: by its identity, and by its version.            *)
LEMMA VerdictOnNew ==
  ASSUME NEW m, NEW p,
         EventVerdict(m) = Accepted \/ SnapshotVerdict(m, p) = Accepted
  PROVE  ~AlreadyProcessed(m) /\ SameVersion(m) = {}
<1> DEFINE known  == AlreadyProcessed(m)
           same   == SameVersion(m) # {}
           event  == <<Check(~CurrencyMatches(m), "CURRENCY_MISMATCH"),
                       Check(m.id \in SameVersion(m), "ALREADY_APPLIED"),
                       Check(SameVersion(m) # {} /\ ContentDiffers(m), "VERSION_CONFLICT"),
                       Check(SameVersion(m) # {}, "ALREADY_APPLIED"),
                       Check(AlreadyProcessed(m), "ALREADY_APPLIED")>>
           snapshot == <<Check(~CurrencyMatches(m), "CURRENCY_MISMATCH"),
                         Check(AlreadyProcessed(m), "IGNORED"),
                         Check(SameVersion(m) # {} /\ ContentDiffers(m), "VERSION_CONFLICT"),
                         Check(SameVersion(m) # {}, "IGNORED"),
                         Check(m.version < p.treasuryVersion, "IGNORED"),
                         Check(TargetTreasury(m) < 0, "SNAPSHOT_INCONSISTENT"),
                         Check(ExceedsGuard(TargetTreasury(m) - p.treasury, p.limit),
                               "IMPLAUSIBLE_DELTA")>>
<1>1. EventVerdict(m) = Verdict(event) /\ SnapshotVerdict(m, p) = Verdict(snapshot)
  BY Zenon DEF EventVerdict, SnapshotVerdict
<1>2. /\ DOMAIN event = 1..5 /\ event[4] = Check(same, "ALREADY_APPLIED")
      /\ event[5] = Check(known, "ALREADY_APPLIED")
      /\ DOMAIN snapshot = 1..7 /\ snapshot[2] = Check(known, "IGNORED")
      /\ snapshot[4] = Check(same, "IGNORED")
  OBVIOUS
<1> HIDE DEF event, snapshot, known, same
<1>3. \/ Check(same, "ALREADY_APPLIED") = Accepted /\ Check(known, "ALREADY_APPLIED") = Accepted
      \/ Check(same, "IGNORED") = Accepted /\ Check(known, "IGNORED") = Accepted
  BY <1>1, <1>2, VerdictAccepted
<1>4. ~known /\ ~same
  BY <1>3 DEF Check, Accepted
<1> QED BY <1>4 DEF known, same

(* Whoever handles a message begins no request.                            *)
LEMMA MessageKeepsKeys ==
  ASSUME FInv, NEW w \in Workers, NEW reply, Finish(w, reply), UNCHANGED request
  PROVE  KeyIsOwn'
<1> QED BY FinishKeepsKeys

(* A message recorded as processed is counted, once.                       *)
LEMMA MessageCounted ==
  ASSUME FInv, IInv', NEW w \in Workers, NEW kind, Applying(w, kind),
         ~AlreadyProcessed(job[w]), MarkProcessed(w),
         \A p \in Programs \ {job[w].program} : program'[p] = program[p],
         UNCHANGED <<Holdings, request>>
  PROVE  Facility!Count(job[w].id, job[w].program, kind)
<1> DEFINE m == job[w]
<1>1. m \in Messages /\ m.id \in MessageIds /\ m.kind = kind
  BY ParsedMessagesFit DEF Applying
<1>2. CountedKinds[m.id] = None
  BY <1>1 DEF CountedKinds, AlreadyProcessed
<1>3. CountedKinds' = [CountedKinds EXCEPT ![m.id] = kind]
  <2>1. ProcessedRow(m) # None /\ ProcessedRow(m).kind = kind
    BY <1>1, NullAssumption DEF ProcessedRow
  <2>2. ASSUME NEW id \in MessageIds
        PROVE  processed'[id] = IF id = m.id THEN ProcessedRow(m) ELSE processed[id]
    BY <1>1 DEF MarkProcessed, FInv, IInv, TypeOK, TablesOK
  <2> HIDE DEF m
  <2> QED BY <1>1, <2>1, <2>2 DEF CountedKinds
<1>4. Facilities' \in [Programs -> Facility!Facility]
  BY DEF Facilities, Facility!Facility, Facility!Amount, IInv, TypeOK, TablesOK, ProgramRow, Minor
<1>5. \A q \in Programs \ {m.program} : Facilities'[q] = Facilities[q]
  BY DEF Facilities
<1>6. UNCHANGED AcceptedOperations
  BY DEF AcceptedOperations
<1> QED BY <1>2, <1>3, <1>4, <1>5, <1>6 DEF Facility!Count

(* To acknowledge a reservation leaves what it holds.                      *)
LEMMA AcknowledgingHolds ==
  ASSUME FInv, NEW P \in Programs, NEW version \in Nat,
         NEW S, \A i \in S : reservation[P][i] # None,
         reservation' = [reservation EXCEPT ![P] =
           [i \in Invoices |-> IF i \in S THEN [@[i] EXCEPT !.acknowledgedBy = version]
                               ELSE @[i]]]
  PROVE  UNCHANGED Holdings
<1>1. ASSUME NEW p \in Programs, NEW i \in Invoices
      PROVE  Held(p, i)' = Held(p, i)
  <2>1. CASE p = P /\ i \in S
    <3>1. reservation[p][i] \in ReservationRow /\ reservation[p][i] # None
      BY <2>1 DEF FInv, IInv, TypeOK, TablesOK
    <3>2. reservation'[p][i] = [reservation[p][i] EXCEPT !.acknowledgedBy = version]
      BY <2>1 DEF FInv, IInv, TypeOK, TablesOK
    <3>3. /\ reservation'[p][i] \in ReservationRow
          /\ reservation'[p][i].outstandingReserved = reservation[p][i].outstandingReserved
      BY <3>1, <3>2 DEF ReservationRow
    <3> QED BY <3>1, <3>3, NullAssumption DEF Held
  <2>2. CASE ~(p = P /\ i \in S)
    <3>1. reservation'[p][i] = reservation[p][i]
      BY <2>2 DEF FInv, IInv, TypeOK, TablesOK
    <3> QED BY <3>1 DEF Held
  <2> QED BY <2>1, <2>2
<1> QED BY <1>1 DEF Holdings

(* An event is reported to the facility, once, or is not seen.             *)
LEMMA ApplyEventSeen ==
  ASSUME FInv, IInv', NEW w \in Workers, ApplyEvent(w)
  PROVE  KeyIsOwn' /\ FacilityStep
<1> DEFINE m      == job[w]
           P      == m.program
           drafts == <<EventDraft(m, view[w])>>
<1>1. /\ Applying(w, "EVENT")
      /\ \/ Skip(w, EventVerdict(m))
         \/ Fail(w)
         \/ EventVerdict(m) = Accepted /\ SuppressEcho(w)
         \/ /\ EventVerdict(m) = Accepted
            /\ AdvanceAllowed(w, drafts, FALSE)
            /\ PersistAdvance(w, drafts)
            /\ MarkProcessed(w) /\ Applied(w)
            /\ UNCHANGED <<reservation, request>>
  BY Zenon DEF ApplyEvent
<1>2. /\ InTransaction(w) /\ m \in Messages /\ m.kind = "EVENT" /\ m.id \in MessageIds
      /\ m.version \in Nat /\ m.amount \in Bigint /\ P \in Programs
      /\ m.type \in {"RESERVATION_BOOKED", "RESERVATION_RELEASED", "LIMIT_CHANGED"}
      /\ view[w] \in ProgramRow /\ view[w] = program[P]
  BY <1>1, ParsedMessagesFit DEF Applying, InTransaction, FInv, IInv, TypeOK, TablesOK,
                                 SessionsOK, LockedViewIsCurrent
<1>3. CASE Skip(w, EventVerdict(m)) \/ Fail(w)
  BY <1>3, MessageKeepsKeys, NothingSeen
  DEF Skip, Fail, FinishUnchanged, tables, FacilityStep
<1>4. CASE EventVerdict(m) = Accepted /\ SuppressEcho(w)
  <2> DEFINE S == {i \in Echoed(m) : reservation[P][i].acknowledgedBy = None}
  <2>1. UNCHANGED Holdings
    <3>1. \A i \in S : reservation[P][i] # None
      BY DEF Echoed
    <3>2. reservation' = [reservation EXCEPT ![P] =
             [i \in Invoices |-> IF i \in S THEN [@[i] EXCEPT !.acknowledgedBy = m.version]
                                 ELSE @[i]]]
      BY <1>2, <1>4 DEF SuppressEcho, FInv, IInv, TypeOK, TablesOK
    <3> HIDE DEF P, S
    <3> QED BY <1>2, <3>1, <3>2, AcknowledgingHolds
  <2>2. ~AlreadyProcessed(m)
    BY <1>4, VerdictOnNew
  <2>3. Facility!Count(m.id, P, "EVENT")
    BY <1>1, <1>4, <2>1, <2>2, MessageCounted DEF SuppressEcho
  <2>4. UNCHANGED Facilities
    BY <1>4 DEF SuppressEcho, Facilities
  <2>5. Facility!Report(m.id, P)
    BY <2>3, <2>4 DEF Facility!Report
  <2>6. KeyIsOwn'
    BY <1>4, MessageKeepsKeys DEF SuppressEcho
  <2> QED BY <1>2, <2>5, <2>6 DEF FacilityStep, Facility!FacilityNext
<1>5. CASE /\ EventVerdict(m) = Accepted
           /\ AdvanceAllowed(w, drafts, FALSE)
           /\ PersistAdvance(w, drafts)
           /\ MarkProcessed(w) /\ Applied(w)
           /\ UNCHANGED <<reservation, request>>
  <2> DEFINE d   == EventDraft(m, view[w])
             row == Advanced(w, drafts)
  <2>1. program' = [program EXCEPT ![P] = row]
    BY <1>5 DEF PersistAdvance, PersistRow
  <2>2. /\ d.component \in {"LIMIT", "TREASURY"} /\ d.delta \in Int
    BY <1>2, StoreAssumption DEF EventDraft, Bigint, ProgramRow, Minor
  <2> HIDE DEF d
  <2>3. /\ row.local = program[P].local
        /\ \/ row.treasury = program[P].treasury
           \/ row.limit = program[P].limit
    BY <1>2, <2>2, OneDraftMoves DEF Advanced, d
  <2>4. row.positionVerified = program[P].positionVerified
    <3>1. drafts \in Seq({d})
      BY DEF d
    <3> HIDE DEF drafts
    <3> QED BY <1>2, <1>5, <3>1, AdvancedRow DEF FInv
  <2> HIDE DEF row
  <2>5. /\ \A p \in Programs \ {P} : program'[p] = program[p]
        /\ program'[P] = row
    BY <1>2, <2>1 DEF FInv, IInv, TypeOK, TablesOK
  <2>6. UNCHANGED Holdings
    BY <1>5 DEF Holdings, Held
  <2>7. Facility!Count(m.id, P, "EVENT")
    BY <1>1, <1>5, <2>5, <2>6, VerdictOnNew, MessageCounted
  <2>8. /\ Facilities'[P].local = Facilities[P].local
        /\ Facilities'[P].verified = Facilities[P].verified
        /\ \/ Facilities'[P].limit = Facilities[P].limit
           \/ Facilities'[P].treasury = Facilities[P].treasury
    BY <1>2, <2>3, <2>4, <2>5 DEF Facilities
  <2>9. Facility!Report(m.id, P)
    BY <2>7, <2>8 DEF Facility!Report
  <2>10. KeyIsOwn'
    BY <1>5, MessageKeepsKeys DEF Applied
  <2> QED BY <1>2, <2>9, <2>10 DEF FacilityStep, Facility!FacilityNext
<1> QED BY <1>1, <1>3, <1>4, <1>5

(* A snapshot reconciles the facility, once, or is not seen.               *)
LEMMA ApplySnapshotSeen ==
  ASSUME FInv, IInv', NEW w \in Workers, ApplySnapshot(w)
  PROVE  KeyIsOwn' /\ FacilityStep
<1> DEFINE m   == job[w]
           P   == m.program
           row == Reconciled(w, m)
           acknowledging ==
             reservation' = [reservation EXCEPT ![P] =
               [i \in Invoices |-> IF i \in NewlyAcknowledged(m)
                                   THEN [@[i] EXCEPT !.acknowledgedBy = m.version] ELSE @[i]]]
<1>1. /\ Applying(w, "SNAPSHOT")
      /\ \/ Skip(w, SnapshotVerdict(m, view[w]))
         \/ Fail(w)
         \/ /\ SnapshotVerdict(m, view[w]) = Accepted
            /\ PersistRow(w, row) /\ acknowledging
            /\ MarkProcessed(w) /\ Applied(w)
            /\ UNCHANGED request
  BY Zenon DEF ApplySnapshot
<1>2. /\ m \in Messages /\ m.id \in MessageIds /\ m.version \in Nat /\ P \in Programs
  BY <1>1, ParsedMessagesFit DEF Applying, InTransaction, FInv, IInv, TypeOK, SessionsOK
<1>3. CASE Skip(w, SnapshotVerdict(m, view[w])) \/ Fail(w)
  <2>1. \E reply : FinishUnchanged(w, reply)
    BY <1>3, Zenon DEF Skip, Fail
  <2> QED BY <2>1, MessageKeepsKeys, NothingSeen DEF FinishUnchanged, tables, FacilityStep
<1>4. CASE /\ SnapshotVerdict(m, view[w]) = Accepted
           /\ PersistRow(w, row) /\ acknowledging
           /\ MarkProcessed(w) /\ Applied(w)
           /\ UNCHANGED request
  <2> HIDE DEF row
  <2>1. UNCHANGED Holdings
    <3>1. \A i \in NewlyAcknowledged(m) : reservation[P][i] # None
      BY DEF NewlyAcknowledged, Booked
    <3> HIDE DEF P
    <3> QED BY <1>2, <1>4, <3>1, AcknowledgingHolds
  <2>2. /\ \A p \in Programs \ {P} : program'[p] = program[p]
        /\ program'[P] = row
    BY <1>2, <1>4 DEF PersistRow, FInv, IInv, TypeOK, TablesOK
  <2>3. row.positionVerified
    <3>1. row \in ProgramRow
      BY <1>2, <2>2 DEF IInv, TypeOK, TablesOK
    <3>2. row = [row EXCEPT !.positionVerified = TRUE]
      BY Zenon DEF row, Reconciled
    <3> QED BY <3>1, <3>2 DEF ProgramRow
  <2>4. Facility!Count(m.id, P, "SNAPSHOT")
    BY <1>1, <1>4, <2>1, <2>2, VerdictOnNew, MessageCounted
  <2>5. Facilities'[P].verified
    BY <1>2, <2>2, <2>3 DEF Facilities
  <2>6. Facility!Reconcile(m.id, P)
    BY <2>4, <2>5 DEF Facility!Reconcile
  <2>7. KeyIsOwn'
    BY <1>4, MessageKeepsKeys DEF Applied
  <2> QED BY <1>2, <2>6, <2>7 DEF FacilityStep, Facility!FacilityNext
<1> QED BY <1>1, <1>3, <1>4

(* Every step of a treasury message.                                       *)
LEMMA HandleMessageSeen ==
  ASSUME FInv, IInv', NEW w \in Workers, HandleMessage(w)
  PROVE  KeyIsOwn' /\ FacilityStep
<1>1. CASE RejectRecord(w)
  BY <1>1, NoNewKey, NothingSeen DEF RejectRecord, tables, FInv, FacilityStep
<1>2. CASE \E m \in Messages : Inspect(w, m)
  <2>1. PICK m \in Messages : Inspect(w, m)
    BY <1>2
  <2> DEFINE verdict == IF m.kind = "EVENT" THEN InspectEvent(m) ELSE InspectSnapshot(m)
  <2>2. /\ pc[w] = "idle" /\ UNCHANGED tables
        /\ \/ pc' = [pc EXCEPT ![w] = "waiting"] /\ job' = [job EXCEPT ![w] = m]
           \/ UNCHANGED <<pc, job>>
    BY <2>1, Zenon DEF Inspect
  <2>3. \A v \in Workers : pc'[v] = "begun" => pc[v] = "begun" /\ job'[v] = job[v]
    BY <2>2 DEF FInv, IInv, TypeOK, SessionsOK
  <2> QED BY <2>2, <2>3, NoNewKey, NothingSeen DEF tables, FInv, FacilityStep
<1>3. CASE StartApply(w)
  <2>1. \A v \in Workers : pc'[v] = "begun" => pc[v] = "begun" /\ job'[v] = job[v]
    BY <1>3 DEF StartApply, TakeLock, FInv, IInv, TypeOK, SessionsOK
  <2> QED BY <1>3, <2>1, NoNewKey, NothingSeen DEF StartApply, tables, FInv, FacilityStep
<1> QED BY <1>1, <1>2, <1>3, ApplyEventSeen, ApplySnapshotSeen DEF HandleMessage

-------------------------------------------------------------------------------
(* Everything else.                                                        *)

(* The reference treasury files a reservation under is not seen.           *)
LEMMA LinkReferenceSeen ==
  ASSUME FInv, NEW p \in Programs, NEW i \in Invoices, NEW reference \in TreasuryReferences,
         LinkReference(p, i, reference)
  PROVE  KeyIsOwn' /\ FacilityStep
<1>1. UNCHANGED <<program, request, processed, pc, job>>
  BY DEF LinkReference
<1>2. ASSUME NEW q \in Programs, NEW j \in Invoices
      PROVE  Held(q, j)' = Held(q, j)
  <2>1. CASE q = p /\ j = i
    <3>1. reservation[p][i] \in ReservationRow /\ reservation[p][i] # None
      BY DEF LinkReference, FInv, IInv, TypeOK, TablesOK
    <3>2. reservation'[p][i] = [reservation[p][i] EXCEPT !.treasuryReference = reference]
      BY DEF LinkReference, FInv, IInv, TypeOK, TablesOK
    <3>3. /\ reservation'[p][i] \in ReservationRow
          /\ reservation'[p][i].outstandingReserved = reservation[p][i].outstandingReserved
      BY <3>1, <3>2 DEF ReservationRow
    <3> QED BY <2>1, <3>1, <3>3, NullAssumption DEF Held
  <2>2. CASE ~(q = p /\ j = i)
    <3>1. reservation'[q][j] = reservation[q][j]
      BY <2>2 DEF LinkReference, FInv, IInv, TypeOK, TablesOK
    <3> QED BY <3>1 DEF Held
  <2> QED BY <2>1, <2>2
<1>3. UNCHANGED Facility!promised
  BY <1>1, <1>2 DEF Facility!promised, Facilities, Holdings, AcceptedOperations, CountedKinds
<1> QED BY <1>1, <1>3, NoNewKey DEF FInv, FacilityStep

(* A booting instance freezes a program; what else recovery does is not    *)
(* seen.                                                                   *)
LEMMA RecoverSeen ==
  ASSUME FInv, Recover
  PROVE  KeyIsOwn' /\ FacilityStep
<1>1. UNCHANGED <<reservation, request, processed, pc, job>>
  BY DEF Recover, DetectBehind, FlagUnverified, RestoreOlderPosition, tables
<1>2. KeyIsOwn'
  BY <1>1, NoNewKey DEF FInv
<1>3. CASE UNCHANGED program
  BY <1>1, <1>2, <1>3, NothingSeen DEF FacilityStep
<1>4. CASE \E p \in Programs : FlagUnverified(p)
  <2>1. PICK p \in Programs : program' = [program EXCEPT ![p].positionVerified = FALSE]
    BY <1>4 DEF FlagUnverified
  <2> DEFINE row == [program[p] EXCEPT !.positionVerified = FALSE]
  <2>2. /\ \A q \in Programs \ {p} : program'[q] = program[q]
        /\ program'[p] = row
    BY <2>1 DEF FInv, IInv, TypeOK, TablesOK
  <2>3. /\ row.limit = program[p].limit /\ row.local = program[p].local
        /\ row.treasury = program[p].treasury /\ row.positionVerified = FALSE
    <3>1. program[p] \in ProgramRow
      BY DEF FInv, IInv, TypeOK, TablesOK
    <3> QED BY <3>1 DEF ProgramRow
  <2> HIDE DEF row
  <2>4. Facilities' = [Facilities EXCEPT ![p].verified = FALSE]
    BY <2>2, <2>3 DEF Facilities
  <2>5. UNCHANGED <<Holdings, AcceptedOperations, CountedKinds>>
    BY <1>1 DEF Holdings, Held, AcceptedOperations, CountedKinds
  <2>6. Facility!Freeze(p)
    BY <2>4, <2>5 DEF Facility!Freeze
  <2> QED BY <1>2, <2>6 DEF FacilityStep, Facility!FacilityNext
<1> QED BY <1>3, <1>4 DEF Recover, DetectBehind, RestoreOlderPosition, tables

(* Every step of the system.                                               *)
LEMMA NextSeen == FInv /\ IInv' /\ [Next]_system => KeyIsOwn' /\ FacilityStep
<1> SUFFICES ASSUME FInv, IInv', [Next]_system
             PROVE  KeyIsOwn' /\ FacilityStep
  OBVIOUS
<1>1. CASE Serve
  <2>1. CASE \E w \in Workers : Crash(w)
    BY <2>1, FinishKeepsKeys, NothingSeen DEF Crash, FinishUnchanged, tables, FacilityStep
  <2> QED BY <1>1, <2>1, HandleCommandSeen, HandleMessageSeen, RetentionSweepSeen,
             LinkReferenceSeen DEF Serve
<1>2. CASE Recover
  BY <1>2, RecoverSeen
<1>3. CASE UNCHANGED system
  BY <1>3, NoNewKey, NothingSeen DEF system, vars, FInv, FacilityStep
<1> QED BY <1>1, <1>2, <1>3 DEF Next

(* The seed script leaves a facility behind of which nothing is taken.     *)
LEMMA InitSeen == Init => KeyIsOwn /\ Facility!FacilityInit
<1> SUFFICES ASSUME Init PROVE KeyIsOwn /\ Facility!FacilityInit
  OBVIOUS
<1>1. KeyIsOwn
  BY DEF Init, StoreInit, KeyIsOwn
<1>2. Facilities \in [Programs -> [limit : Facility!Amount, local : {0}, treasury : {0},
                                   verified : {TRUE}]]
  <2>1. ASSUME NEW p \in Programs
        PROVE  /\ program[p].limit \in Minor /\ program[p].local = 0
               /\ program[p].treasury = 0 /\ program[p].positionVerified = TRUE
    <3>1. program[p] = SeededRow(p)
      BY DEF Init, StoreInit, SeededRow
    <3>2. /\ SeededRow(p) \in ProgramRow /\ SeededRow(p).local = 0
          /\ SeededRow(p).treasury = 0 /\ SeededRow(p).positionVerified
      BY SeededProgram
    <3> QED BY <3>1, <3>2 DEF ProgramRow
  <2> QED BY <2>1 DEF Facilities, Facility!Amount, Minor
<1>3. /\ Holdings = [p \in Programs |-> [i \in Invoices |-> None]]
      /\ AcceptedOperations = [k \in RequestIds |-> None]
      /\ CountedKinds = [m \in MessageIds |-> None]
  BY DEF Init, StoreInit, Holdings, Held, AcceptedOperations, CountedKinds
<1> QED BY <1>1, <1>2, <1>3 DEF Facility!FacilityInit

(* No two transactions ever hold one request identifier.                   *)
LEMMA KeysAreOwn == Spec => []FInv
<1>1. Init => FInv
  BY InitKeeps, InitSeen DEF FInv
<1>2. FInv /\ [Next]_system => FInv'
  BY NextKeeps, NextSeen DEF FInv
<1> QED BY <1>1, <1>2, PTL DEF Spec

(* The tables, their locks, retries, crashes, redeliveries and boots       *)
(* implement the facility: every request and every message acts at most    *)
(* once and in one step, and nothing else moves what a program has         *)
(* reserved, what an invoice holds, or a limit.                            *)
THEOREM FacilityImplemented == Spec => ImplementsCreditFacility
<1>1. Init => Facility!FacilityInit
  BY InitSeen
<1>2. FInv /\ FInv' /\ [Next]_system => [Facility!FacilityNext]_(Facility!promised)
  BY NextSeen DEF FInv, FacilityStep
<1> QED BY <1>1, <1>2, KeysAreOwn, PTL DEF Spec, ImplementsCreditFacility, Facility!FacilitySpec

-------------------------------------------------------------------------------
(* What follows for the tables from the facility alone.                    *)

(* An invoice begins to hold something in a reserve, and in no other step. *)
LEMMA OnlyReserveBooks ==
  ASSUME NEW p \in Programs, NEW i \in Invoices, FacilityStep,
         Holdings[p][i] = None, Holdings'[p][i] # None
  PROVE  \E k \in RequestIds : Facility!Reserve(k, p, i)
<1>1. DOMAIN Holdings = Programs /\ \A q \in Programs : DOMAIN Holdings[q] = Invoices
  BY DEF Holdings
<1>2. Facility!FacilityNext
  BY DEF FacilityStep, Facility!promised
<1>3. ASSUME NEW q \in Programs, NEW j \in Invoices, NEW n, Facility!GiveBack(q, j, n),
             Holdings[q][j] # None
      PROVE  FALSE
  BY <1>1, <1>3 DEF Facility!GiveBack
<1>4. ASSUME NEW k \in RequestIds, NEW q \in Programs, NEW j \in Invoices,
             Facility!Release(k, q, j) \/ Facility!Cancel(k, q, j)
      PROVE  FALSE
  BY <1>3, <1>4 DEF Facility!Release, Facility!Cancel
<1>5. ASSUME NEW k \in RequestIds, NEW q \in Programs, NEW j \in Invoices,
             Facility!Reserve(k, q, j)
      PROVE  q = p /\ j = i
  BY <1>1, <1>5 DEF Facility!Reserve
<1>6. ASSUME NEW m \in MessageIds, NEW q \in Programs,
             Facility!Report(m, q) \/ Facility!Reconcile(m, q)
      PROVE  FALSE
  BY <1>6 DEF Facility!Report, Facility!Reconcile, Facility!Count
<1>7. ASSUME NEW q \in Programs, Facility!Freeze(q)
      PROVE  FALSE
  BY <1>7 DEF Facility!Freeze
<1> QED BY <1>2, <1>4, <1>5, <1>6, <1>7 DEF Facility!FacilityNext

(* Whatever treasury books meanwhile and whoever else reserves, a          *)
(* reservation is only booked on a verified program that is not over its   *)
(* limit, and leaves the total reserved within the limit.                  *)
THEOREM NothingIsOversold == Spec => ReserveNeverOversells
<1>1. FInv /\ FInv' /\ [Next]_system =>
        [\A p \in Programs :
           (\E i \in Invoices : reservation[p][i] = None /\ reservation'[p][i] # None) =>
             /\ program[p].positionVerified /\ ~IsOverLimit(program[p])
             /\ TotalReserved(program'[p]) <= program'[p].limit]_system
  <2> SUFFICES ASSUME FInv, FInv', [Next]_system,
                      NEW p \in Programs, NEW i \in Invoices,
                      reservation[p][i] = None, reservation'[p][i] # None
               PROVE  /\ program[p].positionVerified /\ ~IsOverLimit(program[p])
                      /\ TotalReserved(program'[p]) <= program'[p].limit
    OBVIOUS
  <2>1. Holdings[p][i] = None /\ Holdings'[p][i] # None
    <3>1. Holdings[p][i] = None
      BY DEF Holdings, Held
    <3>2. reservation'[p][i] \in ReservationRow
      BY DEF FInv, IInv, TypeOK, TablesOK
    <3>3. Holdings'[p][i] = reservation'[p][i].outstandingReserved
      BY DEF Holdings, Held
    <3> QED BY <3>1, <3>2, <3>3, NullAssumption, StoreAssumption DEF ReservationRow, Minor
  <2>2. PICK k \in RequestIds : Facility!Reserve(k, p, i)
    BY <2>1, NextSeen, OnlyReserveBooks DEF FInv
  <2>3. /\ program[p] \in ProgramRow
        /\ Facilities[p] = [limit |-> program[p].limit, local |-> program[p].local,
                            treasury |-> program[p].treasury,
                            verified |-> program[p].positionVerified]
        /\ Facilities'[p] = [limit |-> program'[p].limit, local |-> program'[p].local,
                             treasury |-> program'[p].treasury,
                             verified |-> program'[p].positionVerified]
    BY DEF Facilities, FInv, IInv, TypeOK, TablesOK
  <2>4. program[p].limit \in Int /\ program[p].local \in Int /\ program[p].treasury \in Int
    BY <2>3, StoreAssumption DEF ProgramRow, Minor
  <2>5. program[p].positionVerified
    BY <2>2, <2>3 DEF Facility!Reserve, Facility!Accept
  <2>6. PICK n \in 1..(program[p].limit - program[p].local - program[p].treasury) :
          /\ program'[p].local = program[p].local + n
          /\ program'[p].limit = program[p].limit
          /\ program'[p].treasury = program[p].treasury
    <3>1. PICK n \in 1..(Facilities[p].limit - Facilities[p].local - Facilities[p].treasury) :
            Facilities' = [Facilities EXCEPT ![p].local = @ + n]
      BY <2>2 DEF Facility!Reserve
    <3>2. Facilities'[p] = [Facilities[p] EXCEPT !.local = @ + n]
      BY <3>1 DEF Facilities
    <3> QED BY <2>3, <3>1, <3>2
  <2> QED BY <2>4, <2>5, <2>6 DEF IsOverLimit, TotalReserved
<1> QED BY <1>1, KeysAreOwn, PTL DEF Spec, ReserveNeverOversells
=============================================================================
