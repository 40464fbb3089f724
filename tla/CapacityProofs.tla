----------------------------- MODULE CapacityProofs -----------------------------
(***************************************************************************)
(* Theorems about the capacity service, for every set of programs,         *)
(* invoices, workers, commands and messages.                               *)
(***************************************************************************)
EXTENDS CapacityProperties, OperatorProofs, SequenceTheorems

-------------------------------------------------------------------------------
(* Advancing a position.                                                   *)

(* What every handler puts in a draft; its delta is left to the schema.    *)
IsDraft(d) ==
  /\ d.component \in Components /\ d.cause \in Causes
  /\ d.origin \in Invoices \cup MessageIds \cup TreasuryReferences \cup {None}
  /\ d.actor \in {"seed", "caller", "treasury", "system"}
  /\ d.correlationId \in RequestIds \cup MessageIds \cup {None}

(* The mark adds one entry or none.                                        *)
LEMMA MarkEntriesLength ==
  ASSUME NEW p, NEW drafts
  PROVE  MarkEntries(p, drafts) \in Seq({MarkEntry("OVER_LIMIT_ONSET", drafts),
                                        MarkEntry("OVER_LIMIT_CLEARED", drafts)})
<1> DEFINE onset   == MarkEntry("OVER_LIMIT_ONSET", drafts)
           cleared == MarkEntry("OVER_LIMIT_CLEARED", drafts)
<1>1. MarkEntries(p, drafts) \in {<<onset>>, <<cleared>>, <<>>}
  BY Zenon DEF MarkEntries
<1> HIDE DEF onset, cleared
<1>2. {<<onset>>, <<cleared>>, <<>>} \subseteq Seq({onset, cleared})
  OBVIOUS
<1>3. MarkEntries(p, drafts) \in Seq({onset, cleared})
  BY <1>1, <1>2
<1> QED BY <1>3 DEF onset, cleared

(* The entry of the mark, when there is one, is a draft like any other.    *)
LEMMA MarkEntryIsDraft ==
  ASSUME NEW D, NEW drafts \in Seq(D), \A d \in D : IsDraft(d),
         NEW cause \in {"OVER_LIMIT_ONSET", "OVER_LIMIT_CLEARED"}
  PROVE  IsDraft(MarkEntry(cause, drafts))
<1>1. MarkCorrelation(drafts) \in RequestIds \cup MessageIds \cup {None}
  <2>1. CASE drafts = <<>>
    BY <2>1 DEF MarkCorrelation
  <2>2. CASE drafts # <<>>
    <3>1. drafts[Len(drafts)] \in D
      BY <2>2, EmptySeq, LenProperties, ElementOfSeq
    <3> QED BY <2>2, <3>1 DEF MarkCorrelation, IsDraft
  <2> QED BY <2>1, <2>2
<1> QED BY <1>1 DEF MarkEntry, IsDraft, Components, Causes

(* The entries inserted carry consecutive sequences from the next one of   *)
(* the row on, and are as well typed as their drafts and their deltas.     *)
LEMMA AdvanceEntriesLength ==
  ASSUME NEW D, NEW drafts \in Seq(D), NEW p, p.nextSequence \in Nat
  PROVE  /\ MarkEntries(p, drafts) \in Seq({MarkEntry("OVER_LIMIT_ONSET", drafts),
                                             MarkEntry("OVER_LIMIT_CLEARED", drafts)})
         /\ Len(drafts) \in Nat /\ Len(MarkEntries(p, drafts)) \in Nat
         /\ DOMAIN AdvanceEntries(p, drafts) = 1..(Len(drafts) + Len(MarkEntries(p, drafts)))
         /\ \A k \in DOMAIN AdvanceEntries(p, drafts) :
              AdvanceEntries(p, drafts)[k].sequence = p.nextSequence + k - 1
<1> DEFINE marks == MarkEntries(p, drafts)
           all   == D \cup {MarkEntry("OVER_LIMIT_ONSET", drafts),
                            MarkEntry("OVER_LIMIT_CLEARED", drafts)}
<1>1. marks \in Seq({MarkEntry("OVER_LIMIT_ONSET", drafts),
                     MarkEntry("OVER_LIMIT_CLEARED", drafts)})
  BY MarkEntriesLength
<1>2. drafts \in Seq(all) /\ marks \in Seq(all)
  <2> HIDE DEF marks
  <2> QED BY <1>1
<1>3. Len(drafts) \in Nat /\ Len(marks) \in Nat
  <2> HIDE DEF marks, all
  <2> QED BY <1>2, LenProperties
<1>4. Len(drafts \o marks) = Len(drafts) + Len(marks)
  <2> HIDE DEF marks, all
  <2> QED BY <1>2, ConcatProperties
<1>5. AdvanceEntries(p, drafts) =
        [k \in 1..(Len(drafts) + Len(marks)) |->
           SequencedEntry(p.nextSequence + k - 1, p.nextSequence, (drafts \o marks)[k])]
  BY <1>4, Zenon DEF AdvanceEntries
<1>6. \A k \in DOMAIN AdvanceEntries(p, drafts) :
        AdvanceEntries(p, drafts)[k].sequence = p.nextSequence + k - 1
  <2> HIDE DEF marks
  <2> QED BY <1>5 DEF SequencedEntry
<1> QED BY <1>1, <1>3, <1>5, <1>6, Zenon

(* The entries number on from the row: the first takes its next sequence.  *)
LEMMA AdvanceEntriesSequence ==
  ASSUME NEW p, p.nextSequence \in Nat, NEW D, NEW drafts \in Seq(D),
         NEW k \in DOMAIN AdvanceEntries(p, drafts)
  PROVE  AdvanceEntries(p, drafts)[k].sequence = p.nextSequence + k - 1
<1> QED BY AdvanceEntriesLength

(* Advancing by well-typed drafts books well-typed entries.                *)
LEMMA AdvanceEntriesType ==
  ASSUME NEW D, NEW drafts \in Seq(D), \A d \in D : IsDraft(d),
         NEW p, p.nextSequence \in Nat,
         \A k \in DOMAIN AdvanceEntries(p, drafts) :
           AdvanceEntries(p, drafts)[k].delta \in Bigint
  PROVE  AdvanceEntries(p, drafts) \in Seq(EntryRow)
<1> DEFINE marks == MarkEntries(p, drafts)
           kinds == {MarkEntry("OVER_LIMIT_ONSET", drafts),
                     MarkEntry("OVER_LIMIT_CLEARED", drafts)}
           all   == D \cup kinds
           size  == Len(drafts) + Len(marks)
           booked == drafts \o marks
<1>1. \A d \in all : IsDraft(d)
  BY MarkEntryIsDraft
<1>2. /\ marks \in Seq(kinds) /\ size \in Nat
      /\ DOMAIN AdvanceEntries(p, drafts) = 1..size
  BY AdvanceEntriesLength
<1>3. booked \in Seq(all) /\ Len(booked) = size
  <2>1. drafts \in Seq(all) /\ marks \in Seq(all)
    <3> HIDE DEF marks, kinds
    <3> QED BY <1>2
  <2> HIDE DEF marks, all
  <2> QED BY <2>1, ConcatProperties
<1>4. ASSUME NEW k \in 1..size
      PROVE  AdvanceEntries(p, drafts)[k] \in EntryRow
  <2>1. booked[k] \in all
    <3> HIDE DEF booked, all, size
    <3> QED BY <1>3, ElementOfSeq
  <2>2. IsDraft(booked[k])
    BY <1>1, <2>1
  <2>3. AdvanceEntries(p, drafts)[k] =
          SequencedEntry(p.nextSequence + k - 1, p.nextSequence, booked[k])
    BY <1>3, Zenon DEF AdvanceEntries
  <2>4. AdvanceEntries(p, drafts)[k].delta \in Bigint
    BY <1>2
  <2>5. booked[k].delta \in Bigint
    <3> HIDE DEF booked
    <3> QED BY <2>3, <2>4 DEF SequencedEntry
  <2>6. p.nextSequence + k - 1 \in Nat
    <3> HIDE DEF size
    <3> QED BY <1>2
  <2> HIDE DEF booked
  <2> QED BY <2>2, <2>3, <2>5, <2>6 DEF SequencedEntry, EntryRow, IsDraft
<1>5. AdvanceEntries(p, drafts) = [k \in 1..size |-> AdvanceEntries(p, drafts)[k]]
  BY <1>3, Zenon DEF AdvanceEntries
<1> HIDE DEF size
<1>6. AdvanceEntries(p, drafts) \in [1..size -> EntryRow]
  BY <1>4, <1>5
<1> QED BY <1>2, <1>6, SeqDef

(* The fields of the advanced row.                                         *)
LEMMA AdvancePositionFields ==
  ASSUME NEW p \in ProgramRow, NEW D, NEW drafts \in Seq(D),
         {AdvancePosition(p, drafts).local, AdvancePosition(p, drafts).treasury,
          AdvancePosition(p, drafts).limit} \subseteq Minor
  PROVE  /\ AdvancePosition(p, drafts) \in ProgramRow
         /\ AdvancePosition(p, drafts).nextSequence =
              p.nextSequence + Len(drafts) + Len(MarkEntries(p, drafts))
         /\ AdvancePosition(p, drafts).overLimit = IsOverLimit(AdvancePosition(p, drafts))
         /\ AdvancePosition(p, drafts).positionVerified = p.positionVerified
<1> DEFINE moved == MovedPosition(p, drafts)
           row   == AdvancePosition(p, drafts)
<1>1. /\ moved = [p EXCEPT !.local = moved.local, !.treasury = moved.treasury,
                           !.limit = moved.limit]
  BY DEF MovedPosition, ProgramRow
<1>2. row = [moved EXCEPT !.nextSequence = moved.nextSequence + Len(drafts)
                                             + Len(MarkEntries(p, drafts)),
                          !.overLimit = IsOverLimit(moved)]
  BY DEF AdvancePosition
<1>3. /\ row.local = moved.local /\ row.treasury = moved.treasury /\ row.limit = moved.limit
      /\ moved.nextSequence = p.nextSequence
      /\ row.nextSequence = p.nextSequence + Len(drafts) + Len(MarkEntries(p, drafts))
      /\ row.overLimit = IsOverLimit(moved)
      /\ row.positionVerified = p.positionVerified
  <2> HIDE DEF moved, row
  <2> QED BY <1>1, <1>2 DEF ProgramRow
<1>4. row.overLimit = IsOverLimit(row)
  <2> HIDE DEF moved, row
  <2> QED BY <1>3 DEF IsOverLimit, TotalReserved
<1>5. IsOverLimit(moved) \in BOOLEAN
  BY DEF IsOverLimit
<1>6. Len(drafts) + Len(MarkEntries(p, drafts)) \in Nat /\ p.nextSequence \in Nat
  <2>1. p.nextSequence \in Nat
    BY DEF ProgramRow
  <2> QED BY <2>1, AdvanceEntriesLength
<1>7. row \in ProgramRow
  <2> HIDE DEF moved
  <2>1. row = [p EXCEPT !.local = row.local, !.treasury = row.treasury, !.limit = row.limit,
                        !.nextSequence = row.nextSequence, !.overLimit = row.overLimit]
    <3> HIDE DEF row
    <3> QED BY <1>1, <1>2, <1>3 DEF ProgramRow
  <2>2. row.nextSequence \in Nat /\ row.overLimit \in BOOLEAN
    <3> HIDE DEF row
    <3> QED BY <1>3, <1>5, <1>6
  <2> HIDE DEF row
  <2> QED BY <2>1, <2>2 DEF row, ProgramRow
<1> QED BY <1>3, <1>4, <1>7

-------------------------------------------------------------------------------
(* The inductive invariant. LedgerGapless needs the row a transaction has  *)
(* read to be the current one, LockedViewIsCurrent; that needs the session *)
(* part of TypeOK, and the mark needs the row to be typed.                 *)
IInv == TypeOK /\ LockedViewIsCurrent /\ LedgerGapless /\ OverLimitMarkExact

(* The end of a session frees the row it locked, the only one it may have  *)
(* changed, and disturbs no other session.                                 *)
LEMMA FinishKeepsSessions ==
  ASSUME SessionsOK, LockedViewIsCurrent, NEW w \in Workers, NEW reply, Finish(w, reply),
         \A p \in Programs : \/ program'[p] = program[p]
                             \/ InTransaction(w) /\ p = job[w].program
  PROVE  SessionsOK' /\ LockedViewIsCurrent'
<1>1. SessionsOK'
  BY DEF SessionsOK, Finish
<1>2. ASSUME NEW v \in Workers, InTransaction(v)'
      PROVE  v # w /\ InTransaction(v) /\ job'[v] = job[v] /\ view'[v] = view[v]
  BY <1>2 DEF SessionsOK, Finish, InTransaction
<1>3. ASSUME NEW v \in Workers, InTransaction(v)'
      PROVE  /\ view'[v] = program'[job'[v].program]
             /\ \A u \in Workers \ {v} :
                  InTransaction(u)' => job'[u].program # job'[v].program
  <2>1. job[v].program \in Programs
    BY <1>2, <1>3 DEF SessionsOK, InTransaction
  <2>2. program'[job[v].program] = program[job[v].program]
    BY <1>2, <1>3, <2>1 DEF LockedViewIsCurrent
  <2> QED BY <1>2, <1>3, <2>2 DEF LockedViewIsCurrent
<1> QED BY <1>1, <1>3 DEF LockedViewIsCurrent

(* Taking the lock: no one else has the row, so it can be read and kept.   *)
LEMMA TakeLockKeepsSessions ==
  ASSUME TablesOK, SessionsOK, LockedViewIsCurrent, NEW w \in Workers, ~InTransaction(w),
         NEW j \in Commands \cup Messages, j.program \in Programs,
         TakeLock(w, j), UNCHANGED program
  PROVE  SessionsOK' /\ LockedViewIsCurrent'
<1>1. SessionsOK'
  BY DEF SessionsOK, TablesOK, TakeLock
<1>2. /\ InTransaction(w)' /\ job'[w] = j /\ view'[w] = program'[j.program]
      /\ \A v \in Workers \ {w} :
           /\ InTransaction(v)' <=> InTransaction(v)
           /\ job'[v] = job[v] /\ view'[v] = view[v]
           /\ InTransaction(v) => job[v].program # j.program
  BY DEF SessionsOK, TakeLock, InTransaction, LockAvailable
<1>3. ASSUME NEW v \in Workers, InTransaction(v)'
      PROVE  /\ view'[v] = program'[job'[v].program]
             /\ \A u \in Workers \ {v} :
                  InTransaction(u)' => job'[u].program # job'[v].program
  BY <1>2, <1>3 DEF LockedViewIsCurrent
<1> QED BY <1>1, <1>3 DEF LockedViewIsCurrent

(* A step that leaves the sessions alone and writes no locked row.         *)
LEMMA IdleKeepsSessions ==
  ASSUME SessionsOK, LockedViewIsCurrent, UNCHANGED <<pc, job, view>>,
         \A p \in Programs : program'[p] = program[p] \/ LockAvailable(p)
  PROVE  SessionsOK' /\ LockedViewIsCurrent'
<1>1. SessionsOK' /\ \A v \in Workers : InTransaction(v)' <=> InTransaction(v)
  BY DEF SessionsOK, InTransaction
<1>2. ASSUME NEW v \in Workers, InTransaction(v)
      PROVE  program'[job[v].program] = program[job[v].program]
  BY <1>2 DEF SessionsOK, InTransaction, LockAvailable
<1> QED BY <1>1, <1>2 DEF LockedViewIsCurrent

(* Nothing written.                                                        *)
LEMMA UnchangedKeepsTables ==
  ASSUME TablesOK, LedgerGapless, OverLimitMarkExact, UNCHANGED tables
  PROVE  TablesOK' /\ LedgerGapless' /\ OverLimitMarkExact'
<1> QED BY DEF TablesOK, LedgerGapless, OverLimitMarkExact, tables, IsOverLimit, TotalReserved

(* Ending with nothing written.                                            *)
LEMMA FinishUnchangedKeeps ==
  ASSUME IInv, NEW w \in Workers, NEW reply, FinishUnchanged(w, reply), UNCHANGED flagging
  PROVE  IInv'
<1>1. TablesOK' /\ LedgerGapless' /\ OverLimitMarkExact'
  BY UnchangedKeepsTables DEF IInv, TypeOK, FinishUnchanged
<1>2. SessionsOK' /\ LockedViewIsCurrent'
  BY FinishKeepsSessions DEF IInv, TypeOK, FinishUnchanged, tables
<1> QED BY <1>1, <1>2 DEF IInv, TypeOK

(* What a transaction may persist: a row of the program table that is      *)
(* typed, and the entries with it.                                         *)
LEMMA AdvancedRow ==
  ASSUME IInv, NEW w \in Workers, InTransaction(w), NEW D, NEW drafts \in Seq(D),
         NEW reconciling, AdvanceAllowed(w, drafts, reconciling)
  PROVE  /\ view[w] \in ProgramRow /\ view[w] = program[job[w].program]
         /\ job[w].program \in Programs
         /\ Advanced(w, drafts) \in ProgramRow
         /\ Advanced(w, drafts).nextSequence =
              view[w].nextSequence + Len(drafts) + Len(MarkEntries(view[w], drafts))
         /\ Advanced(w, drafts).overLimit = IsOverLimit(Advanced(w, drafts))
         /\ Advanced(w, drafts).positionVerified = view[w].positionVerified
<1>1. job[w].program \in Programs
  BY DEF IInv, TypeOK, SessionsOK, InTransaction
<1>2. view[w] \in ProgramRow /\ view[w] = program[job[w].program]
  BY <1>1 DEF IInv, TypeOK, TablesOK, LockedViewIsCurrent
<1>3. {Advanced(w, drafts).local, Advanced(w, drafts).treasury,
       Advanced(w, drafts).limit} \subseteq Minor
  BY DEF AdvanceAllowed, ProgramRowAllowed, Minor
<1> QED BY <1>1, <1>2, <1>3, AdvancePositionFields DEF Advanced

(* Persisting an advance keeps the ledger typed and gapless and the mark   *)
(* exact.                                                                  *)
LEMMA AdvanceKeepsLedger ==
  ASSUME IInv, NEW w \in Workers, InTransaction(w), NEW D, NEW drafts \in Seq(D),
         \A d \in D : IsDraft(d),
         NEW reconciling, AdvanceAllowed(w, drafts, reconciling),
         PersistLedger(w, drafts),
         NEW row \in ProgramRow, PersistRow(w, row),
         row.nextSequence = Advanced(w, drafts).nextSequence,
         row.overLimit = IsOverLimit(row)
  PROVE  /\ program' \in [Programs -> ProgramRow]
         /\ ledger' \in [Programs -> Seq(EntryRow)]
         /\ LedgerGapless' /\ OverLimitMarkExact'
         /\ \A p \in Programs : program'[p] = program[p] \/ p = job[w].program
<1> DEFINE P       == job[w].program
           entries == AdvanceEntries(view[w], drafts)
           size    == Len(drafts) + Len(MarkEntries(view[w], drafts))
<1>1. /\ P \in Programs /\ view[w] \in ProgramRow /\ view[w] = program[P]
      /\ row.nextSequence = view[w].nextSequence + Len(drafts)
                              + Len(MarkEntries(view[w], drafts))
  BY AdvancedRow
<1>2. view[w].nextSequence \in Nat
  BY <1>1 DEF ProgramRow
<1>3. entries \in Seq(EntryRow)
  BY <1>2, AdvanceEntriesType DEF AdvanceAllowed, LedgerRowsAllowed
<1>4. /\ size \in Nat /\ DOMAIN entries = 1..size
      /\ \A k \in 1..size : entries[k].sequence = view[w].nextSequence + k - 1
      /\ row.nextSequence = view[w].nextSequence + size
  <2>1. /\ Len(drafts) \in Nat /\ Len(MarkEntries(view[w], drafts)) \in Nat
        /\ DOMAIN entries = 1..size
        /\ \A k \in DOMAIN entries : entries[k].sequence = view[w].nextSequence + k - 1
    <3>1. Len(drafts) \in Nat /\ Len(MarkEntries(view[w], drafts)) \in Nat
      BY <1>2, AdvanceEntriesLength
    <3>2. DOMAIN entries = 1..size
      BY <1>2, AdvanceEntriesLength
    <3>3. ASSUME NEW k \in DOMAIN entries
          PROVE  entries[k].sequence = view[w].nextSequence + k - 1
      BY <1>2, AdvanceEntriesSequence, Zenon
    <3> QED BY <3>1, <3>2, <3>3
  <2> HIDE DEF entries
  <2>2. size \in Nat /\ row.nextSequence = view[w].nextSequence + size
    BY <1>1, <1>2, <2>1
  <2> HIDE DEF size
  <2> QED BY <2>1, <2>2
<1>5. program' = [program EXCEPT ![P] = row] /\ ledger' = [ledger EXCEPT ![P] = @ \o entries]
  BY DEF PersistRow, PersistLedger
<1>6. /\ program \in [Programs -> ProgramRow] /\ ledger \in [Programs -> Seq(EntryRow)]
      /\ LedgerGapless /\ OverLimitMarkExact
  BY DEF IInv, TypeOK, TablesOK
<1> HIDE DEF P, entries, size
<1>7. /\ program' \in [Programs -> ProgramRow]
      /\ ledger' \in [Programs -> Seq(EntryRow)]
      /\ \A p \in Programs : program'[p] = program[p] \/ p = P
  <2>1. ledger[P] \o entries \in Seq(EntryRow)
    BY <1>1, <1>3, <1>6, ConcatProperties
  <2> QED BY <1>1, <1>5, <1>6, <2>1
<1>8. OverLimitMarkExact'
  BY <1>1, <1>5, <1>6 DEF OverLimitMarkExact, IsOverLimit, TotalReserved
<1>9. ASSUME NEW p \in Programs
      PROVE  /\ \A n \in DOMAIN ledger'[p] : ledger'[p][n].sequence = n
             /\ program'[p].nextSequence = Len(ledger'[p]) + 1
  <2>1. CASE p # P
    BY <1>1, <1>5, <1>6, <2>1 DEF LedgerGapless
  <2>2. CASE p = P
    <3> DEFINE old == ledger[P]
    <3>1. /\ old \in Seq(EntryRow) /\ Len(old) \in Nat /\ DOMAIN old = 1..Len(old)
          /\ Len(entries) = size
      BY <1>1, <1>3, <1>4, <1>6, LenProperties
    <3>2. /\ \A n \in 1..Len(old) : old[n].sequence = n
          /\ view[w].nextSequence = Len(old) + 1
      BY <1>1, <1>6, <3>1 DEF LedgerGapless
    <3>3. ledger'[p] = old \o entries /\ program'[p] = row
      BY <1>1, <1>5, <1>6, <2>2
    <3> HIDE DEF old
    <3>4. /\ Len(old \o entries) = Len(old) + size
          /\ DOMAIN (old \o entries) = 1..(Len(old) + size)
          /\ \A n \in 1..(Len(old) + size) :
               (old \o entries)[n] = IF n <= Len(old) THEN old[n] ELSE entries[n - Len(old)]
      <4>1. /\ old \o entries \in Seq(EntryRow)
            /\ Len(old \o entries) = Len(old) + Len(entries)
            /\ \A n \in 1..Len(old) + Len(entries) :
                 (old \o entries)[n] = IF n <= Len(old) THEN old[n] ELSE entries[n - Len(old)]
        BY <1>3, <3>1, ConcatProperties
      <4>2. DOMAIN (old \o entries) = 1..Len(old \o entries)
        BY <4>1, LenProperties
      <4> QED BY <3>1, <4>1, <4>2
    <3>5. \A n \in 1..(Len(old) + size) : (old \o entries)[n].sequence = n
      <4>1. SUFFICES ASSUME NEW n \in 1..(Len(old) + size)
                     PROVE  (old \o entries)[n].sequence = n
        OBVIOUS
      <4>2. CASE n <= Len(old)
        BY <3>1, <3>2, <3>4, <4>2
      <4>3. CASE n > Len(old)
        <5>1. n - Len(old) \in 1..size
          BY <1>4, <3>1, <4>3
        <5>2. (old \o entries)[n] = entries[n - Len(old)]
          BY <1>4, <3>1, <3>4, <4>3
        <5>3. entries[n - Len(old)].sequence = (Len(old) + 1) + (n - Len(old)) - 1
          BY <1>4, <3>2, <5>1
        <5> QED BY <1>4, <3>1, <5>2, <5>3
      <4> QED BY <1>4, <3>1, <4>2, <4>3
    <3>6. row.nextSequence = Len(old \o entries) + 1
      BY <1>4, <3>1, <3>2, <3>4
    <3> QED BY <3>3, <3>4, <3>5, <3>6
  <2> QED BY <2>1, <2>2
<1> QED BY <1>7, <1>8, <1>9 DEF LedgerGapless, P

-------------------------------------------------------------------------------
(* The commands.                                                           *)

(* A command opens its transaction.                                        *)
LEMMA StartCommandKeeps ==
  ASSUME IInv, NEW w \in Workers, NEW c \in Commands, StartCommand(w, c), UNCHANGED flagging
  PROVE  IInv'
<1>1. TablesOK' /\ LedgerGapless' /\ OverLimitMarkExact'
  BY UnchangedKeepsTables DEF IInv, TypeOK, StartCommand
<1>2. SessionsOK' /\ LockedViewIsCurrent'
  <2>1. ~InTransaction(w) /\ c.program \in Programs
    BY CommandsAssumption DEF StartCommand, InTransaction
  <2> QED BY <2>1, TakeLockKeepsSessions DEF IInv, TypeOK, StartCommand, tables
<1> QED BY <1>1, <1>2 DEF IInv, TypeOK

(* A command inserts the row of its request identifier.                    *)
LEMMA BeginRequestKeeps ==
  ASSUME IInv, NEW w \in Workers, BeginRequest(w), UNCHANGED flagging
  PROVE  IInv'
<1>1. TablesOK' /\ LedgerGapless' /\ OverLimitMarkExact'
  BY UnchangedKeepsTables DEF IInv, TypeOK, BeginRequest
<1>2. SessionsOK'
  BY DEF IInv, TypeOK, SessionsOK, BeginRequest
<1>3. LockedViewIsCurrent'
  <2>1. /\ UNCHANGED <<program, job, view>>
        /\ \A v \in Workers : InTransaction(v)' <=> InTransaction(v)
    BY DEF IInv, TypeOK, SessionsOK, BeginRequest, InTransaction, tables
  <2> QED BY <2>1 DEF IInv, LockedViewIsCurrent
<1> QED BY <1>1, <1>2, <1>3 DEF IInv, TypeOK

(* The sweep expires some completed requests.                              *)
LEMMA RetentionSweepKeeps ==
  ASSUME IInv, RetentionSweep, UNCHANGED flagging
  PROVE  IInv'
<1>1. PICK old \in SUBSET {k \in RequestIds : request[k] # None /\ request[k].state = "COMPLETE"} :
        request' = [k \in RequestIds |->
                      IF k \in old THEN [request[k] EXCEPT !.state = "EXPIRED", !.outcome = None]
                      ELSE request[k]]
  BY DEF RetentionSweep
<1>2. request' \in [RequestIds -> RequestRow \cup {None}]
  <2>1. \A k \in old : request[k] \in RequestRow
    BY DEF IInv, TypeOK, TablesOK
  <2>2. \A r \in RequestRow : [r EXCEPT !.state = "EXPIRED", !.outcome = None] \in RequestRow
    BY DEF RequestRow
  <2>3. \A k \in RequestIds : request[k] \in RequestRow \cup {None}
    BY DEF IInv, TypeOK, TablesOK
  <2> HIDE DEF RequestRow
  <2> QED BY <1>1, <2>1, <2>2, <2>3
<1>3. UNCHANGED <<program, reservation, ledger, processed, streamPosition, pc, job, view>>
  BY DEF RetentionSweep
<1>4. TablesOK' /\ LedgerGapless' /\ OverLimitMarkExact'
  BY <1>2, <1>3 DEF IInv, TypeOK, TablesOK, LedgerGapless, OverLimitMarkExact,
                    IsOverLimit, TotalReserved
<1>5. SessionsOK' /\ LockedViewIsCurrent'
  BY <1>3, IdleKeepsSessions DEF IInv, TypeOK
<1> QED BY <1>4, <1>5 DEF IInv, TypeOK

(* The tail of a command keeps the invariant if the row it would write is  *)
(* a reservation row whenever the schema lets it in.                       *)
LEMMA CommitCommandKeeps ==
  ASSUME IInv, NEW w \in Workers, pc[w] = "begun", NEW delta,
         NEW cause \in {"RESERVATION", "RELEASE", "CANCELLATION", "WRITE_OFF"},
         NEW row, ReservationRowAllowed(job[w].program, row) => row \in ReservationRow,
         CommitCommand(w, delta, cause, row), UNCHANGED flagging
  PROVE  IInv'
<1> DEFINE drafts  == LocalDraft(w, delta, cause)
           D       == {drafts[1]}
           outcome == Body(Advanced(w, drafts), row)
<1>1. /\ InTransaction(w) /\ job[w] \in Commands /\ job[w].id \in RequestIds
      /\ job[w].program \in Programs /\ job[w].invoice \in Invoices
      /\ job[w].operation \in Operations
  BY CommandsAssumption DEF IInv, TypeOK, SessionsOK, InTransaction
<1>2. drafts \in Seq(D) /\ \A d \in D : IsDraft(d)
  BY <1>1 DEF LocalDraft, IsDraft, Components, Causes
<1>3. CASE /\ AdvanceAllowed(w, drafts, FALSE)
           /\ ReservationRowAllowed(job[w].program, row)
  <2>1. /\ PersistAdvance(w, drafts)
        /\ reservation' = [reservation EXCEPT ![job[w].program][job[w].invoice] = row]
        /\ request' = [request EXCEPT ![job[w].id] = RequestRecord(job[w], "COMPLETE", outcome)]
        /\ Finish(w, Reply(w, "created", Accepted, outcome))
        /\ UNCHANGED <<processed, streamPosition>>
    BY <1>3, Zenon DEF CommitCommand
  <2>2. row \in ReservationRow
    BY <1>3
  <2> HIDE DEF drafts, D
  <2>3. /\ Advanced(w, drafts) \in ProgramRow
        /\ Advanced(w, drafts).overLimit = IsOverLimit(Advanced(w, drafts))
    BY <1>1, <1>2, <1>3, AdvancedRow
  <2>4. /\ program' \in [Programs -> ProgramRow]
        /\ ledger' \in [Programs -> Seq(EntryRow)]
        /\ LedgerGapless' /\ OverLimitMarkExact'
        /\ \A p \in Programs : program'[p] = program[p] \/ p = job[w].program
    BY <1>1, <1>2, <1>3, <2>1, <2>3, AdvanceKeepsLedger DEF PersistAdvance
  <2>5. outcome \in Outcome
    BY <2>2, <2>3 DEF Body, Outcome, ProgramRow, Minor, Available, TotalReserved
  <2>6. request' \in [RequestIds -> RequestRow \cup {None}]
    <3> HIDE DEF outcome
    <3>1. RequestRecord(job[w], "COMPLETE", outcome) \in RequestRow
      BY <1>1, <2>5 DEF RequestRecord, RequestRow
    <3> QED BY <2>1, <3>1 DEF IInv, TypeOK, TablesOK
  <2>7. reservation' \in [Programs -> [Invoices -> ReservationRow \cup {None}]]
    BY <1>1, <2>1, <2>2 DEF IInv, TypeOK, TablesOK
  <2>8. TablesOK'
    BY <2>1, <2>4, <2>6, <2>7 DEF IInv, TypeOK, TablesOK
  <2>9. SessionsOK' /\ LockedViewIsCurrent'
    BY <1>1, <2>1, <2>4, FinishKeepsSessions DEF IInv, TypeOK
  <2> QED BY <2>4, <2>8, <2>9 DEF IInv, TypeOK
<1>4. CASE ~ /\ AdvanceAllowed(w, drafts, FALSE)
             /\ ReservationRowAllowed(job[w].program, row)
  <2>1. FinishUnchanged(w, Reply(w, "failed", "CONSTRAINT_VIOLATION", None))
    BY <1>4, Zenon DEF CommitCommand
  <2> QED BY <2>1, FinishUnchangedKeeps
<1> QED BY <1>3, <1>4

(* What a reserve has checked before it writes: the fields of the row it   *)
(* inserts follow, and so does everything its policy promises.             *)
LEMMA ReserveAccepted ==
  ASSUME NEW w, NEW fx, ReserveRefusal(w, fx) = Accepted
  PROVE  /\ Row(w) = None
         /\ view[w].positionVerified /\ ~IsOverLimit(view[w])
         /\ fx.kind # "unavailable"
         /\ ~(fx.kind = "rate" /\ RoundsToZero(job[w].amount, fx.rate))
         /\ ~(ReservedAmount(job[w].amount, fx) > Available(view[w]))
<1> DEFINE p       == view[w]
           policy  == ReserveVerdict(p, job[w].amount, fx)
           refusal == <<Check(Row(w) # None, "DUPLICATE_INVOICE"), policy>>
           checks  == <<Check(~p.positionVerified, "POSITION_UNVERIFIED"),
                        Check(IsOverLimit(p), "PROGRAM_OVER_LIMIT"),
                        Check(fx.kind = "unavailable", "FX_RATE_UNAVAILABLE"),
                        Check(fx.kind = "rate" /\ RoundsToZero(job[w].amount, fx.rate),
                              "AMOUNT_ROUNDS_TO_ZERO"),
                        Check(ReservedAmount(job[w].amount, fx) > Available(p),
                              "INSUFFICIENT_CAPACITY")>>
<1>1. Check(Row(w) # None, "DUPLICATE_INVOICE") = Accepted /\ policy = Accepted
  <2> HIDE DEF policy
  <2>1. Verdict(refusal) = Accepted
    BY DEF ReserveRefusal, policy
  <2>2. /\ DOMAIN refusal = 1..2 /\ refusal[2] = policy
        /\ refusal[1] = Check(Row(w) # None, "DUPLICATE_INVOICE")
    OBVIOUS
  <2> HIDE DEF refusal
  <2> QED BY <2>1, <2>2, VerdictAccepted
<1>2. /\ Check(~p.positionVerified, "POSITION_UNVERIFIED") = Accepted
      /\ Check(IsOverLimit(p), "PROGRAM_OVER_LIMIT") = Accepted
      /\ Check(fx.kind = "unavailable", "FX_RATE_UNAVAILABLE") = Accepted
      /\ Check(fx.kind = "rate" /\ RoundsToZero(job[w].amount, fx.rate),
               "AMOUNT_ROUNDS_TO_ZERO") = Accepted
      /\ Check(ReservedAmount(job[w].amount, fx) > Available(p),
               "INSUFFICIENT_CAPACITY") = Accepted
  <2>1. Verdict(checks) = Accepted
    BY <1>1 DEF ReserveVerdict
  <2>2. /\ DOMAIN checks = 1..5
        /\ checks[1] = Check(~p.positionVerified, "POSITION_UNVERIFIED")
        /\ checks[2] = Check(IsOverLimit(p), "PROGRAM_OVER_LIMIT")
        /\ checks[3] = Check(fx.kind = "unavailable", "FX_RATE_UNAVAILABLE")
        /\ checks[4] = Check(fx.kind = "rate" /\ RoundsToZero(job[w].amount, fx.rate),
                             "AMOUNT_ROUNDS_TO_ZERO")
        /\ checks[5] = Check(ReservedAmount(job[w].amount, fx) > Available(p),
                             "INSUFFICIENT_CAPACITY")
    OBVIOUS
  <2> HIDE DEF checks
  <2> QED BY <2>1, <2>2, VerdictAccepted
<1> QED BY <1>1, <1>2 DEF Check, Accepted

(* The rate a reserve records is a positive one.                           *)
LEMMA FxResolutionRate ==
  ASSUME NEW w, NEW fx \in FxResolutions(w), fx.kind # "unavailable"
  PROVE  fx.rate \in Nat \ {0}
<1> QED BY CommandsAssumption, RateScaleAssumption
        DEF FxResolutions, SameCurrency, FxRate, FxUnavailable

(* A reserve is refused, or books a reservation.                           *)
LEMMA ReserveKeeps ==
  ASSUME IInv, NEW w \in Workers, Reserve(w), UNCHANGED flagging
  PROVE  IInv'
<1>1. PICK fx \in FxResolutions(w) :
        IF ReserveRefusal(w, fx) # Accepted
        THEN Refuse(w, ReserveRefusal(w, fx))
        ELSE CommitCommand(w, ReservedAmount(job[w].amount, fx), "RESERVATION",
               NewReservation(job[w].currency, job[w].amount, fx, view[w].nextSequence))
  BY DEF Reserve
<1>2. /\ pc[w] = "begun" /\ job[w] \in Commands /\ job[w].program \in Programs
  BY DEF Reserve, Working, IInv, TypeOK, SessionsOK
<1>3. CASE ReserveRefusal(w, fx) # Accepted
  BY <1>1, <1>3, FinishUnchangedKeeps DEF Refuse
<1>4. CASE ReserveRefusal(w, fx) = Accepted
  <2> DEFINE row == NewReservation(job[w].currency, job[w].amount, fx, view[w].nextSequence)
  <2>1. fx.rate \in Nat \ {0}
    BY <1>4, ReserveAccepted, FxResolutionRate
  <2>2. view[w].nextSequence \in Nat
    BY <1>2 DEF IInv, TypeOK, TablesOK, LockedViewIsCurrent, InTransaction, ProgramRow
  <2>3. ReservationRowAllowed(job[w].program, row) => row \in ReservationRow
    <3>1. job[w].currency \in {c.currency : c \in Commands}
      BY <1>2
    <3> QED BY <2>1, <2>2, <3>1, StoreAssumption
            DEF NewReservation, ReservationRowAllowed, ReservationRow, Minor
  <2> HIDE DEF row
  <2>4. CommitCommand(w, ReservedAmount(job[w].amount, fx), "RESERVATION", row)
    BY <1>1, <1>4 DEF row
  <2> QED BY <1>2, <2>3, <2>4, CommitCommandKeeps
<1> QED BY <1>3, <1>4

(* A row a settlement finds exists, and it is typed.                       *)
LEMMA SettlementRow ==
  ASSUME IInv, NEW w \in Workers, pc[w] = "begun", NEW verdict,
         SettlementRefusal(w, verdict) = Accepted
  PROVE  /\ Row(w) \in ReservationRow /\ verdict = Accepted
         /\ view[w].positionVerified
<1>1. job[w] \in Commands /\ job[w].program \in Programs /\ job[w].invoice \in Invoices
  BY CommandsAssumption DEF IInv, TypeOK, SessionsOK
<1>2. Row(w) # None /\ verdict = Accepted /\ view[w].positionVerified
  BY DEF SettlementRefusal, Accepted
<1> QED BY <1>1, <1>2 DEF Row, IInv, TypeOK, TablesOK

(* A release is refused, or gives part of a reservation back.              *)
LEMMA ReleaseKeeps ==
  ASSUME IInv, NEW w \in Workers, Release(w), UNCHANGED flagging
  PROVE  IInv'
<1> DEFINE verdict == ReleaseVerdict(Row(w), job[w].currency, job[w].amount)
           refusal == SettlementRefusal(w, verdict)
           row     == Released(Row(w), job[w].amount)
<1>1. /\ pc[w] = "begun"
      /\ IF refusal # Accepted THEN Refuse(w, refusal)
         ELSE CommitCommand(w, -ReleaseDelta(Row(w), job[w].amount), "RELEASE", row)
  BY Zenon DEF Release, Working
<1> HIDE DEF verdict, row
<1>2. CASE refusal # Accepted
  <2> HIDE DEF refusal
  <2> QED BY <1>1, <1>2, FinishUnchangedKeeps DEF Refuse
<1>3. CASE refusal = Accepted
  <2>1. Row(w) \in ReservationRow
    BY <1>1, <1>3, SettlementRow
  <2>2. ReservationRowAllowed(job[w].program, row) => row \in ReservationRow
    <3>1. row.outstandingInvoice \in Minor /\ row.outstandingReserved \in Minor
          => row \in ReservationRow
      BY <2>1 DEF row, Released, ReservationRow, TerminalStatuses
    <3>2. row.amount = Row(w).amount /\ row.reserved = Row(w).reserved
      BY <2>1 DEF row, Released, ReservationRow
    <3>3. Row(w).amount \in Minor /\ Row(w).reserved \in Minor
      BY <2>1 DEF ReservationRow
    <3> QED BY <3>1, <3>2, <3>3, StoreAssumption DEF ReservationRowAllowed, Minor
  <2>3. CommitCommand(w, -ReleaseDelta(Row(w), job[w].amount), "RELEASE", row)
    BY <1>1, <1>3
  <2> QED BY <1>1, <2>2, <2>3, CommitCommandKeeps
<1> QED BY <1>2, <1>3

(* A cancellation is refused, or closes a reservation.                     *)
LEMMA CancelKeeps ==
  ASSUME IInv, NEW w \in Workers, Cancel(w), UNCHANGED flagging
  PROVE  IInv'
<1> DEFINE refusal == SettlementRefusal(w, CancelVerdict(Row(w)))
           row     == Cancelled(Row(w))
<1>1. /\ pc[w] = "begun"
      /\ IF refusal # Accepted THEN Refuse(w, refusal)
         ELSE CommitCommand(w, -Row(w).outstandingReserved, CancelCause(Row(w)), row)
  BY Zenon DEF Cancel, Working
<1> HIDE DEF row
<1>2. CASE refusal # Accepted
  <2> HIDE DEF refusal
  <2> QED BY <1>1, <1>2, FinishUnchangedKeeps DEF Refuse
<1>3. CASE refusal = Accepted
  <2>1. Row(w) \in ReservationRow
    BY <1>1, <1>3, SettlementRow
  <2>2. row \in ReservationRow
    <3>1. PICK status \in TerminalStatuses :
            row = [Row(w) EXCEPT !.outstandingReserved = 0, !.status = status]
      BY Zenon DEF row, Cancelled, TerminalStatuses
    <3>2. 0 \in Minor
      BY StoreAssumption DEF Minor
    <3> QED BY <2>1, <3>1, <3>2 DEF ReservationRow
  <2>3. CancelCause(Row(w)) \in {"RESERVATION", "RELEASE", "CANCELLATION", "WRITE_OFF"}
    BY DEF CancelCause
  <2>4. CommitCommand(w, -Row(w).outstandingReserved, CancelCause(Row(w)), row)
    BY <1>1, <1>3
  <2> QED BY <1>1, <2>2, <2>3, <2>4, CommitCommandKeeps
<1> QED BY <1>2, <1>3

(* Every step of a command.                                                *)
LEMMA HandleCommandKeeps ==
  ASSUME IInv, NEW w \in Workers, HandleCommand(w), UNCHANGED flagging
  PROVE  IInv'
<1>1. CASE \E c \in Commands : StartCommand(w, c)
  BY <1>1, StartCommandKeeps
<1>2. CASE BeginRequest(w)
  BY <1>2, BeginRequestKeeps
<1>3. CASE Replay(w)
  BY <1>3, FinishUnchangedKeeps DEF Replay
<1>4. CASE Reserve(w)
  BY <1>4, ReserveKeeps
<1>5. CASE Release(w)
  BY <1>5, ReleaseKeeps
<1>6. CASE Cancel(w)
  BY <1>6, CancelKeeps
<1> QED BY <1>1, <1>2, <1>3, <1>4, <1>5, <1>6 DEF HandleCommand

-------------------------------------------------------------------------------
(* The messages.                                                           *)

(* Whatever is on the topics, a message the parsers let through has what   *)
(* the rest relies on: an id, an offset, amounts a BIGINT column can hold, *)
(* and a version, which a BIGINT column may be too narrow for.             *)
THEOREM ParsedMessagesFit ==
  \A m \in Messages :
    /\ m.kind \in {"EVENT", "SNAPSHOT"}
    /\ m.id \in MessageIds /\ m.topic \in Topics
    /\ m.version \in Nat /\ m.offset \in Nat
    /\ m.kind = "EVENT" =>
         /\ m.type \in {"RESERVATION_BOOKED", "RESERVATION_RELEASED", "LIMIT_CHANGED"}
         /\ m.amount \in Bigint
         /\ m.reference \in TreasuryReferences \cup {None}
    /\ m.kind = "SNAPSHOT" => m.reserved \in 0..MaxMinor /\ m.limit \in 0..MaxMinor
<1> SUFFICES ASSUME NEW r \in Records, Parsable(r)
             PROVE  LET m == Parsed(r) IN
                    /\ m.kind \in {"EVENT", "SNAPSHOT"}
                    /\ m.id \in MessageIds /\ m.topic \in Topics
                    /\ m.version \in Nat /\ m.offset \in Nat
                    /\ m.kind = "EVENT" =>
                         /\ m.type \in {"RESERVATION_BOOKED", "RESERVATION_RELEASED",
                                        "LIMIT_CHANGED"}
                         /\ m.amount \in Bigint
                         /\ m.reference \in TreasuryReferences \cup {None}
                    /\ m.kind = "SNAPSHOT" =>
                         m.reserved \in 0..MaxMinor /\ m.limit \in 0..MaxMinor
  BY DEF Messages
<1>1. r.topic \in Topics /\ r.offset \in Nat
  BY RecordsAssumption
<1>2. CASE r.topic = "snapshots"
  <2>1. Parsed(r) = ParsedSnapshot(r) /\ IsSnapshot(r.value)
    BY <1>2 DEF Parsed, Parsable
  <2> QED BY <1>1, <2>1 DEF ParsedSnapshot, IsSnapshot, IsEnvelope, IsMinor, IsText
<1>3. CASE r.topic # "snapshots"
  <2>1. Parsed(r) = ParsedEvent(r) /\ IsEvent(r.value)
    BY <1>3 DEF Parsed, Parsable
  <2> DEFINE payload == r.value.is["payload"]
  <2>2. IsEnvelope(r.value.is) /\ IsText(r.value.is["type"], EventTypes) /\ IsPayload(payload)
    BY <2>1 DEF IsEvent
  <2>3. /\ payload.is["amountMinor"].is \in Bigint
        /\ \/ Lacks(payload.is, "reservationReference")
           \/ payload.is["reservationReference"].is \in TreasuryReferences
    BY <2>2 DEF IsPayload, IsText
  <2> QED BY <1>1, <2>1, <2>2, <2>3 DEF ParsedEvent, IsEnvelope, IsText, EventTypes
<1> QED BY <1>2, <1>3

(* A record that does not parse changes nothing but the answer.            *)
LEMMA RejectRecordKeeps ==
  ASSUME IInv, NEW w \in Workers, RejectRecord(w), UNCHANGED flagging
  PROVE  IInv'
<1>1. UNCHANGED <<tables, pc, job, view>>
  BY DEF RejectRecord
<1>2. TablesOK' /\ LedgerGapless' /\ OverLimitMarkExact'
  BY <1>1, UnchangedKeepsTables DEF IInv, TypeOK
<1>3. SessionsOK' /\ LockedViewIsCurrent'
  BY <1>1 DEF IInv, TypeOK, SessionsOK, LockedViewIsCurrent, InTransaction, tables
<1> QED BY <1>2, <1>3 DEF IInv, TypeOK

(* A consumer inspects a message and touches no table.                     *)
LEMMA InspectKeeps ==
  ASSUME IInv, NEW w \in Workers, NEW m \in Messages, Inspect(w, m), UNCHANGED flagging
  PROVE  IInv'
<1> DEFINE verdict == IF m.kind = "EVENT" THEN InspectEvent(m) ELSE InspectSnapshot(m)
<1>1. /\ pc[w] = "idle" /\ UNCHANGED <<tables, view>>
      /\ \/ verdict = Accepted /\ pc' = [pc EXCEPT ![w] = "waiting"]
                             /\ job' = [job EXCEPT ![w] = m]
         \/ UNCHANGED <<pc, job>>
  BY Zenon DEF Inspect
<1>2. TablesOK' /\ LedgerGapless' /\ OverLimitMarkExact'
  BY <1>1, UnchangedKeepsTables DEF IInv, TypeOK
<1>3. verdict = Accepted => m.program \in Programs
  <2> DEFINE event == <<Check(AlreadyProcessed(m), "ALREADY_APPLIED"),
                        Check(m.program \notin Programs, "UNKNOWN_PROGRAM"),
                        Check(~CurrencyMatches(m), "CURRENCY_MISMATCH"),
                        Check(m.version > MaxMinor, "HANDLER_FAILURE"),
                        Check(SameVersion(m) # {} /\ ContentDiffers(m), "VERSION_CONFLICT"),
                        Check(SameVersion(m) # {}, "ALREADY_APPLIED")>>
             snapshot == <<Check(AlreadyProcessed(m), "IGNORED"),
                        Check(m.program \notin Programs, "UNKNOWN_PROGRAM"),
                        Check(~CurrencyMatches(m), "CURRENCY_MISMATCH"),
                        Check(Stale(m), "IGNORED"),
                        Check(Current(m) /\ SameVersion(m) # {} /\ ContentDiffers(m),
                              "VERSION_CONFLICT"),
                        Check(Current(m) /\ SameVersion(m) # {}, "IGNORED"),
                        Check(m.marker = None, "MISSING_ACK_MARKER")>>
             known == Check(m.program \notin Programs, "UNKNOWN_PROGRAM")
  <2>1. InspectEvent(m) = Verdict(event) /\ InspectSnapshot(m) = Verdict(snapshot)
    BY Zenon DEF InspectEvent, InspectSnapshot
  <2>2. /\ DOMAIN event = 1..6 /\ event[2] = known
        /\ DOMAIN snapshot = 1..7 /\ snapshot[2] = known
    OBVIOUS
  <2>3. known = Accepted => m.program \in Programs
    BY DEF Check, Accepted
  <2> HIDE DEF event, snapshot, known
  <2> QED BY <2>1, <2>2, <2>3, VerdictAccepted
<1> HIDE DEF verdict
<1>4. SessionsOK'
  BY <1>1, <1>3 DEF IInv, TypeOK, SessionsOK, tables
<1>5. /\ UNCHANGED program
      /\ \A v \in Workers : InTransaction(v)' =>
           InTransaction(v) /\ job'[v] = job[v] /\ view'[v] = view[v]
  BY <1>1 DEF IInv, TypeOK, SessionsOK, InTransaction, tables
<1>6. LockedViewIsCurrent'
  BY <1>5 DEF IInv, LockedViewIsCurrent
<1> QED BY <1>2, <1>4, <1>6 DEF IInv, TypeOK, Inspect

(* A consumer opens the transaction that applies its message.              *)
LEMMA StartApplyKeeps ==
  ASSUME IInv, NEW w \in Workers, StartApply(w), UNCHANGED flagging
  PROVE  IInv'
<1>1. TablesOK' /\ LedgerGapless' /\ OverLimitMarkExact'
  BY UnchangedKeepsTables DEF IInv, TypeOK, StartApply
<1>2. SessionsOK' /\ LockedViewIsCurrent'
  <2>1. ~InTransaction(w) /\ job[w] \in Messages /\ job[w].program \in Programs
    BY DEF IInv, TypeOK, SessionsOK, StartApply, InTransaction
  <2> QED BY <2>1, TakeLockKeepsSessions DEF IInv, TypeOK, StartApply, tables
<1> QED BY <1>1, <1>2 DEF IInv, TypeOK

(* What every applied message writes besides its effect.                   *)
LEMMA MessageRecordsTyped ==
  ASSUME IInv, NEW w \in Workers, NEW kind, Applying(w, kind), MarkProcessed(w),
         RecordPosition(w)
  PROVE  /\ processed' \in [MessageIds -> {ProcessedRow(m) : m \in Messages} \cup {None}]
         /\ streamPosition' \in [Programs -> [Topics -> [offset : Int, updatedAt : Nat]]]
<1>1. /\ job[w] \in Messages /\ job[w].id \in MessageIds /\ job[w].topic \in Topics
      /\ job[w].offset \in Nat /\ job[w].program \in Programs
  BY ParsedMessagesFit DEF IInv, TypeOK, SessionsOK, Applying
<1>2. view[w].nextSequence \in Nat
  BY <1>1 DEF IInv, TypeOK, TablesOK, LockedViewIsCurrent, InTransaction, Applying, ProgramRow
<1>3. processed' \in [MessageIds -> {ProcessedRow(m) : m \in Messages} \cup {None}]
  BY <1>1 DEF MarkProcessed, IInv, TypeOK, TablesOK
<1>4. PICK position \in [offset : Int, updatedAt : Nat] :
        streamPosition' = [streamPosition EXCEPT ![job[w].program][job[w].topic] = position]
  <2> DEFINE old == streamPosition[job[w].program][job[w].topic]
             new == [offset |-> job[w].offset, updatedAt |-> view[w].nextSequence]
  <2>1. old \in [offset : Int, updatedAt : Nat]
    BY <1>1 DEF IInv, TypeOK, TablesOK
  <2>2. new \in [offset : Int, updatedAt : Nat]
    BY <1>1, <1>2
  <2>3. streamPosition' = [streamPosition EXCEPT ![job[w].program][job[w].topic] =
                             IF old.offset < job[w].offset THEN new ELSE old]
    BY <1>1 DEF RecordPosition, IInv, TypeOK, TablesOK
  <2> HIDE DEF old, new
  <2> QED BY <2>1, <2>2, <2>3
<1>5. streamPosition' \in [Programs -> [Topics -> [offset : Int, updatedAt : Nat]]]
  BY <1>1, <1>4 DEF IInv, TypeOK, TablesOK
<1> QED BY <1>3, <1>5

(* Acknowledging some booked reservations.                                 *)
LEMMA AcknowledgeTyped ==
  ASSUME TablesOK, NEW P \in Programs, NEW version \in Nat,
         NEW S, \A i \in S : reservation[P][i] # None,
         reservation' = [reservation EXCEPT ![P] =
           [i \in Invoices |-> IF i \in S THEN [@[i] EXCEPT !.acknowledgedBy = version]
                               ELSE @[i]]]
  PROVE  reservation' \in [Programs -> [Invoices -> ReservationRow \cup {None}]]
<1>1. \A r \in ReservationRow : [r EXCEPT !.acknowledgedBy = version] \in ReservationRow
  BY DEF ReservationRow
<1>2. reservation \in [Programs -> [Invoices -> ReservationRow \cup {None}]]
  BY DEF TablesOK
<1>3. [i \in Invoices |-> IF i \in S THEN [reservation[P][i] EXCEPT !.acknowledgedBy = version]
                          ELSE reservation[P][i]]
        \in [Invoices -> ReservationRow \cup {None}]
  BY <1>1, <1>2
<1>4. reservation' = [reservation EXCEPT ![P] =
        [i \in Invoices |-> IF i \in S THEN [reservation[P][i] EXCEPT !.acknowledgedBy = version]
                            ELSE reservation[P][i]]]
  BY <1>2
<1> QED BY <1>2, <1>3, <1>4

(* An event that echoes our own booking acknowledges it.                   *)
LEMMA SuppressEchoKeeps ==
  ASSUME IInv, NEW w \in Workers, Applying(w, "EVENT"), SuppressEcho(w), UNCHANGED flagging
  PROVE  IInv'
<1> DEFINE P == job[w].program
           S == {i \in Echoed(job[w]) : reservation[P][i].acknowledgedBy = None}
<1>1. P \in Programs /\ job[w].version \in Nat
  BY ParsedMessagesFit DEF IInv, TypeOK, SessionsOK, Applying
<1>2. reservation' \in [Programs -> [Invoices -> ReservationRow \cup {None}]]
  <2>1. \A i \in S : reservation[P][i] # None
    BY DEF Echoed
  <2>2. reservation' = [reservation EXCEPT ![P] =
           [i \in Invoices |-> IF i \in S THEN [@[i] EXCEPT !.acknowledgedBy = job[w].version]
                               ELSE @[i]]]
    BY <1>1 DEF SuppressEcho, IInv, TypeOK, TablesOK
  <2> HIDE DEF P, S
  <2> QED BY <1>1, <2>1, <2>2, AcknowledgeTyped DEF IInv, TypeOK
<1>3. UNCHANGED <<program, ledger, request>> /\ Finish(w, Reply(w, "skipped", "ECHO_SUPPRESSED", None))
  BY DEF SuppressEcho
<1>4. TablesOK' /\ LedgerGapless' /\ OverLimitMarkExact'
  <2>1. TablesOK'
    BY <1>2, <1>3, MessageRecordsTyped DEF IInv, TypeOK, TablesOK, SuppressEcho
  <2> QED BY <1>3, <2>1 DEF IInv, LedgerGapless, OverLimitMarkExact, IsOverLimit, TotalReserved
<1>5. SessionsOK' /\ LockedViewIsCurrent'
  BY <1>3, FinishKeepsSessions DEF IInv, TypeOK
<1> QED BY <1>4, <1>5 DEF IInv, TypeOK

(* An event is skipped, fails, is an echo, or moves the position.          *)
LEMMA ApplyEventKeeps ==
  ASSUME IInv, NEW w \in Workers, ApplyEvent(w), UNCHANGED flagging
  PROVE  IInv'
<1> DEFINE m      == job[w]
           drafts == <<EventDraft(m, view[w])>>
           D      == {EventDraft(m, view[w])}
<1>1. /\ Applying(w, "EVENT")
      /\ \/ Skip(w, EventVerdict(m))
         \/ SuppressEcho(w)
         \/ Fail(w)
         \/ /\ AdvanceAllowed(w, drafts, FALSE)
            /\ PersistAdvance(w, drafts)
            /\ MarkProcessed(w) /\ RecordPosition(w) /\ Applied(w)
            /\ UNCHANGED <<reservation, request>>
  BY Zenon DEF ApplyEvent
<1>2. /\ InTransaction(w) /\ m \in Messages /\ m.kind = "EVENT" /\ m.id \in MessageIds
      /\ m.reference \in TreasuryReferences \cup {None}
  BY <1>1, ParsedMessagesFit DEF Applying, InTransaction
<1>3. CASE Skip(w, EventVerdict(m))
  BY <1>3, FinishUnchangedKeeps DEF Skip
<1>4. CASE SuppressEcho(w)
  BY <1>1, <1>4, SuppressEchoKeeps
<1>5. CASE Fail(w)
  BY <1>5, FinishUnchangedKeeps DEF Fail
<1>6. CASE /\ AdvanceAllowed(w, drafts, FALSE)
           /\ PersistAdvance(w, drafts)
           /\ MarkProcessed(w) /\ RecordPosition(w) /\ Applied(w)
           /\ UNCHANGED <<reservation, request>>
  <2>1. drafts \in Seq(D) /\ \A d \in D : IsDraft(d)
    BY <1>2 DEF EventDraft, IsDraft, Components, Causes
  <2> HIDE DEF drafts, D
  <2>2. /\ Advanced(w, drafts) \in ProgramRow
        /\ Advanced(w, drafts).overLimit = IsOverLimit(Advanced(w, drafts))
    BY <1>2, <1>6, <2>1, AdvancedRow
  <2>3. /\ program' \in [Programs -> ProgramRow]
        /\ ledger' \in [Programs -> Seq(EntryRow)]
        /\ LedgerGapless' /\ OverLimitMarkExact'
        /\ \A p \in Programs : program'[p] = program[p] \/ p = job[w].program
    BY <1>2, <1>6, <2>1, <2>2, AdvanceKeepsLedger DEF PersistAdvance
  <2>4. TablesOK'
    BY <1>1, <1>6, <2>3, MessageRecordsTyped DEF IInv, TypeOK, TablesOK
  <2>5. SessionsOK' /\ LockedViewIsCurrent'
    BY <1>2, <1>6, <2>3, FinishKeepsSessions DEF IInv, TypeOK, Applied
  <2> QED BY <2>3, <2>4, <2>5 DEF IInv, TypeOK
<1> QED BY <1>1, <1>3, <1>4, <1>5, <1>6

(* The drafts of a snapshot are at most three adjustments.                 *)
LEMMA SnapshotDraftsTyped ==
  ASSUME NEW m \in Messages, NEW p
  PROVE  \E D : SnapshotDrafts(m, p) \in Seq(D) /\ \A d \in D : IsDraft(d)
<1> DEFINE treasury == Adjustment(m, "TREASURY", TargetTreasury(m) - p.treasury)
           local    == Adjustment(m, "LOCAL", TargetLocal(m) - p.local)
           limit    == Adjustment(m, "LIMIT", m.limit - p.limit)
           D        == {treasury, local, limit}
<1>1. \A d \in D : IsDraft(d)
  BY ParsedMessagesFit DEF Adjustment, IsDraft, Components, Causes
<1>2. SnapshotDrafts(m, p) = NonZero(treasury) \o NonZero(local) \o NonZero(limit)
  BY Zenon DEF SnapshotDrafts
<1> HIDE DEF treasury, local, limit
<1>3. treasury \in D /\ local \in D /\ limit \in D
  OBVIOUS
<1> HIDE DEF D
<1>4. ASSUME NEW d \in D PROVE NonZero(d) \in Seq(D)
  <2>1. <<d>> \in Seq(D) /\ <<>> \in Seq(D)
    OBVIOUS
  <2> QED BY <2>1, Zenon DEF NonZero
<1>5. SnapshotDrafts(m, p) \in Seq(D)
  BY <1>2, <1>3, <1>4, ConcatProperties
<1> QED BY <1>1, <1>5

(* The second update of the program row leaves the position alone.         *)
LEMMA ReconciledRow ==
  ASSUME NEW w, NEW m, m.version \in Nat,
         Advanced(w, SnapshotDrafts(m, view[w])) \in ProgramRow,
         Advanced(w, SnapshotDrafts(m, view[w])).overLimit =
           IsOverLimit(Advanced(w, SnapshotDrafts(m, view[w])))
  PROVE  /\ Reconciled(w, m) \in ProgramRow
         /\ Reconciled(w, m).overLimit = IsOverLimit(Reconciled(w, m))
         /\ Reconciled(w, m).nextSequence =
              Advanced(w, SnapshotDrafts(m, view[w])).nextSequence
<1> DEFINE row == Advanced(w, SnapshotDrafts(m, view[w]))
           flag == row.investigationRequired \/ TargetLocal(m) # view[w].local
<1>1. Reconciled(w, m) = [row EXCEPT !.treasuryVersion = m.version,
                                     !.investigationRequired = flag,
                                     !.positionVerified = TRUE]
  BY Zenon DEF Reconciled
<1>2. flag \in BOOLEAN
  BY Zenon
<1> HIDE DEF row, flag
<1>3. row \in ProgramRow /\ row.overLimit = IsOverLimit(row)
  BY DEF row
<1>4. Reconciled(w, m) \in ProgramRow
  BY <1>1, <1>2, <1>3 DEF ProgramRow
<1>5. /\ Reconciled(w, m).overLimit = row.overLimit
      /\ Reconciled(w, m).local = row.local /\ Reconciled(w, m).treasury = row.treasury
      /\ Reconciled(w, m).limit = row.limit
      /\ Reconciled(w, m).nextSequence = row.nextSequence
  BY <1>1, <1>3 DEF ProgramRow
<1>6. IsOverLimit(Reconciled(w, m)) = IsOverLimit(row)
  BY <1>5 DEF IsOverLimit, TotalReserved
<1> QED BY <1>3, <1>4, <1>5, <1>6 DEF row

(* A snapshot is skipped, fails, or corrects the position.                 *)
LEMMA ApplySnapshotKeeps ==
  ASSUME IInv, NEW w \in Workers, ApplySnapshot(w), UNCHANGED flagging
  PROVE  IInv'
<1> DEFINE m      == job[w]
           drafts == SnapshotDrafts(m, view[w])
           row    == Reconciled(w, m)
           acknowledging ==
             reservation' = [reservation EXCEPT ![m.program] =
               [i \in Invoices |-> IF i \in NewlyAcknowledged(m)
                                   THEN [@[i] EXCEPT !.acknowledgedBy = m.version] ELSE @[i]]]
<1>1. /\ Applying(w, "SNAPSHOT")
      /\ \/ Skip(w, SnapshotVerdict(m, view[w]))
         \/ Fail(w)
         \/ /\ AdvanceAllowed(w, drafts, TRUE)
            /\ PersistRow(w, row) /\ PersistLedger(w, drafts)
            /\ acknowledging
            /\ MarkProcessed(w) /\ RecordPosition(w) /\ Applied(w)
            /\ UNCHANGED request
  BY Zenon DEF ApplySnapshot
<1>2. /\ InTransaction(w) /\ m \in Messages /\ m.version \in Nat /\ m.program \in Programs
  BY <1>1, ParsedMessagesFit DEF Applying, InTransaction, IInv, TypeOK, SessionsOK
<1>3. CASE Skip(w, SnapshotVerdict(m, view[w]))
  BY <1>3, FinishUnchangedKeeps DEF Skip
<1>4. CASE Fail(w)
  BY <1>4, FinishUnchangedKeeps DEF Fail
<1>5. CASE /\ AdvanceAllowed(w, drafts, TRUE)
           /\ PersistRow(w, row) /\ PersistLedger(w, drafts)
           /\ acknowledging
           /\ MarkProcessed(w) /\ RecordPosition(w) /\ Applied(w)
           /\ UNCHANGED request
  <2>1. PICK D : drafts \in Seq(D) /\ \A d \in D : IsDraft(d)
    BY <1>2, SnapshotDraftsTyped
  <2>2. reservation' \in [Programs -> [Invoices -> ReservationRow \cup {None}]]
    <3>1. \A i \in NewlyAcknowledged(m) : reservation[m.program][i] # None
      BY DEF NewlyAcknowledged, Booked
    <3> QED BY <1>2, <1>5, <3>1, AcknowledgeTyped DEF IInv, TypeOK
  <2>3. /\ Advanced(w, drafts) \in ProgramRow
        /\ Advanced(w, drafts).overLimit = IsOverLimit(Advanced(w, drafts))
    <3> HIDE DEF drafts
    <3> QED BY <1>2, <1>5, <2>1, AdvancedRow
  <2>4. /\ row \in ProgramRow /\ row.overLimit = IsOverLimit(row)
        /\ row.nextSequence = Advanced(w, drafts).nextSequence
    BY <1>2, <2>3, ReconciledRow
  <2> HIDE DEF drafts, row, acknowledging
  <2>5. /\ program' \in [Programs -> ProgramRow]
        /\ ledger' \in [Programs -> Seq(EntryRow)]
        /\ LedgerGapless' /\ OverLimitMarkExact'
        /\ \A p \in Programs : program'[p] = program[p] \/ p = job[w].program
    BY <1>2, <1>5, <2>1, <2>4, AdvanceKeepsLedger
  <2>6. TablesOK'
    BY <1>1, <1>5, <2>2, <2>5, MessageRecordsTyped DEF IInv, TypeOK, TablesOK
  <2>7. SessionsOK' /\ LockedViewIsCurrent'
    BY <1>2, <1>5, <2>5, FinishKeepsSessions DEF IInv, TypeOK, Applied
  <2> QED BY <2>5, <2>6, <2>7 DEF IInv, TypeOK
<1> QED BY <1>1, <1>3, <1>4, <1>5

(* Every step of a treasury message.                                       *)
LEMMA HandleMessageKeeps ==
  ASSUME IInv, NEW w \in Workers, HandleMessage(w), UNCHANGED flagging
  PROVE  IInv'
<1> QED BY RejectRecordKeeps, InspectKeeps, StartApplyKeeps, ApplyEventKeeps, ApplySnapshotKeeps
        DEF HandleMessage

-------------------------------------------------------------------------------
(* Recovery, and the agreement with treasury.                              *)

(* Treasury files a reservation under a reference.                         *)
LEMMA LinkReferenceKeeps ==
  ASSUME IInv, NEW p \in Programs, NEW i \in Invoices, NEW reference \in TreasuryReferences,
         LinkReference(p, i, reference), UNCHANGED flagging
  PROVE  IInv'
<1>1. UNCHANGED <<program, ledger, request, processed, streamPosition, pc, job, view>>
  BY DEF LinkReference
<1>2. reservation' \in [Programs -> [Invoices -> ReservationRow \cup {None}]]
  <2>1. reservation \in [Programs -> [Invoices -> ReservationRow \cup {None}]]
    BY DEF IInv, TypeOK, TablesOK
  <2>2. reservation[p][i] \in ReservationRow
    BY <2>1 DEF LinkReference
  <2>3. [reservation[p][i] EXCEPT !.treasuryReference = reference] \in ReservationRow
    BY <2>2 DEF ReservationRow
  <2>4. reservation' = [reservation EXCEPT ![p][i] =
          [reservation[p][i] EXCEPT !.treasuryReference = reference]]
    BY <2>1 DEF LinkReference
  <2> QED BY <2>1, <2>3, <2>4
<1>3. TablesOK' /\ LedgerGapless' /\ OverLimitMarkExact'
  BY <1>1, <1>2 DEF IInv, TypeOK, TablesOK, LedgerGapless, OverLimitMarkExact,
                    IsOverLimit, TotalReserved
<1>4. SessionsOK' /\ LockedViewIsCurrent'
  BY <1>1, IdleKeepsSessions DEF IInv, TypeOK
<1> QED BY <1>3, <1>4 DEF IInv, TypeOK

(* A booting instance lists the programs that are behind.                  *)
LEMMA DetectBehindKeeps ==
  ASSUME IInv, DetectBehind
  PROVE  IInv'
<1>1. TablesOK' /\ LedgerGapless' /\ OverLimitMarkExact'
  BY UnchangedKeepsTables DEF IInv, TypeOK, DetectBehind
<1>2. SessionsOK' /\ LockedViewIsCurrent'
  BY IdleKeepsSessions DEF IInv, TypeOK, DetectBehind, tables
<1> QED BY <1>1, <1>2 DEF IInv, TypeOK, DetectBehind

(* It flags one of them: not while a transaction holds the row.            *)
LEMMA FlagUnverifiedKeeps ==
  ASSUME IInv, NEW p \in Programs, FlagUnverified(p)
  PROVE  IInv'
<1>1. /\ program' = [program EXCEPT ![p].positionVerified = FALSE] /\ LockAvailable(p)
      /\ UNCHANGED <<reservation, ledger, request, processed, streamPosition, pc, job, view>>
      /\ flagging' \subseteq Programs
  BY DEF FlagUnverified, IInv, TypeOK
<1> DEFINE row == [program[p] EXCEPT !.positionVerified = FALSE]
<1>2. /\ row \in ProgramRow /\ row.overLimit = IsOverLimit(row)
      /\ row.nextSequence = program[p].nextSequence
  <2>1. program[p] \in ProgramRow /\ program[p].overLimit = IsOverLimit(program[p])
    BY DEF IInv, TypeOK, TablesOK, OverLimitMarkExact
  <2> QED BY <2>1 DEF ProgramRow, IsOverLimit, TotalReserved
<1>3. program' = [program EXCEPT ![p] = row]
  BY <1>1 DEF IInv, TypeOK, TablesOK
<1> HIDE DEF row
<1>4. TablesOK'
  BY <1>1, <1>2, <1>3 DEF IInv, TypeOK, TablesOK
<1>5. LedgerGapless' /\ OverLimitMarkExact'
  BY <1>1, <1>2, <1>3 DEF IInv, TypeOK, TablesOK, LedgerGapless, OverLimitMarkExact,
                          IsOverLimit, TotalReserved
<1>6. SessionsOK' /\ LockedViewIsCurrent'
  BY <1>1, <1>3, IdleKeepsSessions DEF IInv, TypeOK, TablesOK
<1> QED BY <1>1, <1>4, <1>5, <1>6 DEF IInv, TypeOK

(* An operator restores an older stream position.                          *)
LEMMA RestoreOlderPositionKeeps ==
  ASSUME IInv, NEW p \in Programs, RestoreOlderPosition(p)
  PROVE  IInv'
<1>1. UNCHANGED <<program, reservation, ledger, request, processed, pc, job, view, flagging>>
  BY DEF RestoreOlderPosition
<1>2. streamPosition' \in [Programs -> [Topics -> [offset : Int, updatedAt : Nat]]]
  BY DEF RestoreOlderPosition, NoStreamPosition, IInv, TypeOK, TablesOK
<1>3. TablesOK' /\ LedgerGapless' /\ OverLimitMarkExact'
  BY <1>1, <1>2 DEF IInv, TypeOK, TablesOK, LedgerGapless, OverLimitMarkExact,
                    IsOverLimit, TotalReserved
<1>4. SessionsOK' /\ LockedViewIsCurrent'
  BY <1>1, IdleKeepsSessions DEF IInv, TypeOK
<1> QED BY <1>1, <1>3, <1>4 DEF IInv, TypeOK

-------------------------------------------------------------------------------
(* The theorems.                                                           *)

SeededRow(p) == AdvancePosition(EmptyProgram, <<SeedDraft(SeedLimit[p])>>)

SeededEntries(p) == AdvanceEntries(EmptyProgram, <<SeedDraft(SeedLimit[p])>>)

(* The program the seed script leaves behind.                              *)
LEMMA SeededProgram ==
  ASSUME NEW p \in Programs
  PROVE  /\ SeededRow(p) \in ProgramRow
         /\ SeededRow(p).overLimit = IsOverLimit(SeededRow(p))
         /\ SeededRow(p).local = 0 /\ SeededRow(p).treasury = 0 /\ SeededRow(p).positionVerified
         /\ SeededEntries(p) \in Seq(EntryRow)
         /\ \A n \in DOMAIN SeededEntries(p) : SeededEntries(p)[n].sequence = n
         /\ SeededRow(p).nextSequence = Len(SeededEntries(p)) + 1
         /\ SeededRow(p).limit = SeedLimit[p]
         /\ DOMAIN SeededEntries(p) = {1} /\ Len(SeededEntries(p)) = 1
         /\ LET e == SeededEntries(p)[1]
            IN  /\ e.delta = SeedLimit[p] /\ e.component = "LIMIT" /\ e.cause = "LIMIT_CHANGE"
                /\ e.actor = "seed" /\ e.origin = None /\ e.correlationId = None
<1> DEFINE limit == SeedLimit[p]
           draft == <<SeedDraft(limit)>>
           D     == {SeedDraft(limit)}
           moved == [EmptyProgram EXCEPT !.local = 0, !.treasury = 0, !.limit = limit]
           row   == SeededRow(p)
           entries == SeededEntries(p)
<1>1. limit \in Minor /\ 0 \in Minor /\ limit \in Bigint
  BY StoreAssumption DEF Minor, Bigint
<1>2. draft \in Seq(D) /\ Len(draft) = 1 /\ \A d \in D : IsDraft(d)
  BY DEF SeedDraft, IsDraft, Components, Causes
<1>3. EmptyProgram \in ProgramRow
  BY <1>1 DEF EmptyProgram, ProgramRow
<1>4. MovedPosition(EmptyProgram, draft) = moved
  <2>1. /\ ComponentDelta(draft, "LOCAL") = 0 /\ ComponentDelta(draft, "TREASURY") = 0
        /\ ComponentDelta(draft, "LIMIT") = limit
    <3>1. /\ DOMAIN draft = {1} /\ draft[1].component = "LIMIT" /\ draft[1].delta = limit
      BY DEF SeedDraft
    <3> HIDE DEF draft, limit
    <3> QED BY <1>1, <3>1 DEF ComponentDelta, DraftDelta, Minor
  <2>2. limit \in Int
    BY <1>1, StoreAssumption DEF Minor
  <2> HIDE DEF draft, limit
  <2>3. /\ EmptyProgram.local + ComponentDelta(draft, "LOCAL") = 0
        /\ EmptyProgram.treasury + ComponentDelta(draft, "TREASURY") = 0
        /\ EmptyProgram.limit + ComponentDelta(draft, "LIMIT") = limit
    BY <2>1, <2>2 DEF EmptyProgram
  <2>4. MovedPosition(EmptyProgram, draft) =
          [EmptyProgram EXCEPT
             !.local = EmptyProgram.local + ComponentDelta(draft, "LOCAL"),
             !.treasury = EmptyProgram.treasury + ComponentDelta(draft, "TREASURY"),
             !.limit = EmptyProgram.limit + ComponentDelta(draft, "LIMIT")]
    BY DEF MovedPosition, EmptyProgram
  <2> QED BY <2>3, <2>4, Zenon
<1>5. ~IsOverLimit(moved) /\ moved.local = 0 /\ moved.treasury = 0 /\ moved.limit = limit
  BY <1>1, StoreAssumption DEF IsOverLimit, TotalReserved, EmptyProgram, Minor
<1>6. MarkEntries(EmptyProgram, draft) = <<>>
  BY <1>4, <1>5, Zenon DEF MarkEntries, EmptyProgram
<1>7. /\ row.local = 0 /\ row.treasury = 0 /\ row.limit = limit
  <2>1. row = [moved EXCEPT !.nextSequence = @ + Len(draft) + Len(MarkEntries(EmptyProgram, draft)),
                            !.overLimit = IsOverLimit(moved)]
    BY <1>4, Zenon DEF SeededRow, AdvancePosition
  <2> HIDE DEF draft, limit, row
  <2> QED BY <2>1 DEF EmptyProgram
<1>8. /\ row \in ProgramRow /\ row.overLimit = IsOverLimit(row) /\ row.nextSequence = 2
      /\ row.positionVerified
  <2>1. Len(MarkEntries(EmptyProgram, draft)) = 0 /\ EmptyProgram.nextSequence = 1
    BY <1>6 DEF EmptyProgram
  <2>2. {row.local, row.treasury, row.limit} \subseteq Minor
    BY <1>1, <1>7
  <2>3. row = AdvancePosition(EmptyProgram, draft)
    BY DEF SeededRow
  <2> HIDE DEF draft, row, D, limit
  <2>4. /\ row \in ProgramRow /\ row.overLimit = IsOverLimit(row)
        /\ row.nextSequence = EmptyProgram.nextSequence + Len(draft)
                                + Len(MarkEntries(EmptyProgram, draft))
        /\ row.positionVerified = EmptyProgram.positionVerified
    BY <1>2, <1>3, <2>2, <2>3, AdvancePositionFields
  <2>5. EmptyProgram.positionVerified
    BY DEF EmptyProgram
  <2> QED BY <1>2, <2>1, <2>4, <2>5
<1>9. /\ DOMAIN entries = 1..1 /\ entries[1].sequence = 1 /\ entries[1].delta = limit
      /\ Len(entries) = 1
      /\ entries[1].component = "LIMIT" /\ entries[1].cause = "LIMIT_CHANGE"
      /\ entries[1].actor = "seed" /\ entries[1].origin = None /\ entries[1].correlationId = None
  <2>1. draft \o MarkEntries(EmptyProgram, draft) = draft
    BY <1>6
  <2>2. entries = [k \in 1..1 |-> SequencedEntry(1 + k - 1, 1, draft[k])]
    BY <2>1, <1>2 DEF SeededEntries, AdvanceEntries, EmptyProgram
  <2> HIDE DEF entries
  <2> QED BY <2>2 DEF SequencedEntry, SeedDraft
<1>10. entries \in Seq(EntryRow)
  <2>1. EmptyProgram.nextSequence \in Nat
    BY DEF EmptyProgram
  <2>2. \A k \in DOMAIN entries : entries[k].delta \in Bigint
    <3> HIDE DEF entries
    <3> QED BY <1>1, <1>9
  <2>3. entries = AdvanceEntries(EmptyProgram, draft)
    BY DEF SeededEntries
  <2> HIDE DEF draft, D, entries
  <2> QED BY <1>2, <2>1, <2>2, <2>3, AdvanceEntriesType
<1> QED BY <1>7, <1>8, <1>9, <1>10

(* The seeded database satisfies the invariant.                            *)
LEMMA InitKeeps == Init => IInv
<1> SUFFICES ASSUME Init PROVE IInv
  OBVIOUS
<1>1. TablesOK
  <2>1. /\ program \in [Programs -> ProgramRow] /\ ledger \in [Programs -> Seq(EntryRow)]
    BY SeededProgram DEF Init, StoreInit, SeededRow, SeededEntries
  <2> QED BY <2>1 DEF Init, StoreInit, TablesOK, NoStreamPosition
<1>2. SessionsOK /\ LockedViewIsCurrent /\ flagging \subseteq Programs
  BY DEF Init, StoreInit, SessionsOK, LockedViewIsCurrent, InTransaction
<1>3. LedgerGapless /\ OverLimitMarkExact
  BY SeededProgram DEF Init, StoreInit, SeededRow, SeededEntries, LedgerGapless, OverLimitMarkExact
<1> QED BY <1>1, <1>2, <1>3 DEF IInv, TypeOK

(* Every step of the system keeps the invariant.                           *)
LEMMA NextKeeps == IInv /\ [Next]_system => IInv'
<1> SUFFICES ASSUME IInv, [Next]_system PROVE IInv'
  OBVIOUS
<1>1. CASE Serve /\ UNCHANGED flagging
  <2>1. CASE \E w \in Workers : HandleCommand(w)
    BY <1>1, <2>1, HandleCommandKeeps
  <2>2. CASE \E w \in Workers : HandleMessage(w)
    BY <1>1, <2>2, HandleMessageKeeps
  <2>3. CASE \E w \in Workers : Crash(w)
    BY <1>1, <2>3, FinishUnchangedKeeps DEF Crash
  <2>4. CASE RetentionSweep
    BY <1>1, <2>4, RetentionSweepKeeps
  <2>5. CASE \E p \in Programs, i \in Invoices, reference \in TreasuryReferences :
               LinkReference(p, i, reference)
    BY <1>1, <2>5, LinkReferenceKeeps
  <2> QED BY <1>1, <2>1, <2>2, <2>3, <2>4, <2>5 DEF Serve
<1>2. CASE Recover
  BY <1>2, DetectBehindKeeps, FlagUnverifiedKeeps, RestoreOlderPositionKeeps DEF Recover
<1>3. CASE UNCHANGED system
  <2>1. UNCHANGED <<tables, pc, job, view, flagging>>
    BY <1>3 DEF system, vars, tables
  <2>2. TablesOK' /\ LedgerGapless' /\ OverLimitMarkExact'
    BY <2>1, UnchangedKeepsTables DEF IInv, TypeOK
  <2>3. SessionsOK' /\ LockedViewIsCurrent'
    BY <2>1, IdleKeepsSessions DEF IInv, TypeOK, tables
  <2> QED BY <2>1, <2>2, <2>3 DEF IInv, TypeOK
<1> QED BY <1>1, <1>2, <1>3 DEF Next

(* Everything the service ever does keeps the invariant.                   *)
THEOREM Invariance == Spec => []IInv
<1> QED BY InitKeeps, NextKeeps, PTL DEF Spec

(* Every row of the database is one its columns and CHECKs admit, whatever *)
(* commands and messages arrive, and sessions work on existing programs.   *)
THEOREM TypeCorrect == Spec => []TypeOK
<1>1. IInv => TypeOK
  BY DEF IInv
<1> QED BY <1>1, Invariance, PTL

(* The row a transaction read when it locked the program is the row in the *)
(* table until it ends, and no other transaction works on the program.     *)
THEOREM LockIsolates == Spec => []LockedViewIsCurrent
<1>1. IInv => LockedViewIsCurrent
  BY DEF IInv
<1> QED BY <1>1, Invariance, PTL

(* The sequences of a program's ledger have no gap and no repetition, and  *)
(* the program row names the next one.                                     *)
THEOREM LedgerIsGapless == Spec => []LedgerGapless
<1>1. IInv => LedgerGapless
  BY DEF IInv
<1> QED BY <1>1, Invariance, PTL

(* The over-limit mark of a program is set exactly while its position is   *)
(* over its limit.                                                         *)
THEOREM OverLimitMarkIsExact == Spec => []OverLimitMarkExact
<1>1. IInv => OverLimitMarkExact
  BY DEF IInv
<1> QED BY <1>1, Invariance, PTL
=============================================================================
