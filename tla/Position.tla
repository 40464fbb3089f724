------------------------------- MODULE Position -------------------------------
(***************************************************************************)
(* The position arithmetic of a program: src/src/capacity/domain/program.ts*)
(* and position.ts. A position is what the program row caches of the       *)
(* ledger: three components, the next ledger sequence and the over-limit   *)
(* mark. Instants are abstracted: over_limit_since is the Boolean          *)
(* "overLimit" (set or NULL).                                              *)
(***************************************************************************)
EXTENDS Integers, Sequences

CONSTANT None   \* NULL

Components == {"LOCAL", "TREASURY", "LIMIT"}

TotalReserved(p) == p.local + p.treasury

(* mutant: what treasury booked is not taken off                           *)
AvailableToLocal(p) == p.limit - p.local

Available(p) == p.limit - TotalReserved(p)

IsOverLimit(p) == TotalReserved(p) > p.limit

(***************************************************************************)
(* A draft is a PendingLedgerEntry: an entry before it has a sequence. No  *)
(* handler books more than one draft per component, hence MaxDrafts.       *)
(***************************************************************************)
MaxDrafts == 3

DraftDelta(drafts, k, component) ==
  IF k \in DOMAIN drafts /\ drafts[k].component = component
  THEN drafts[k].delta ELSE 0

(* What the loop over the entries adds to one component.                   *)
ComponentDelta(drafts, component) ==
  DraftDelta(drafts, 1, component) + DraftDelta(drafts, 2, component)
    + DraftDelta(drafts, 3, component)

(* mutant: a release of treasury's that finds too little stops at zero     *)
MovedPositionClamped(p, drafts) ==
  LET treasury == p.treasury + ComponentDelta(drafts, "TREASURY")
  IN  [p EXCEPT !.local    = @ + ComponentDelta(drafts, "LOCAL"),
                !.treasury = IF treasury < 0 THEN 0 ELSE treasury,
                !.limit    = @ + ComponentDelta(drafts, "LIMIT")]

MovedPosition(p, drafts) ==
  [p EXCEPT !.local    = @ + ComponentDelta(drafts, "LOCAL"),
            !.treasury = @ + ComponentDelta(drafts, "TREASURY"),
            !.limit    = @ + ComponentDelta(drafts, "LIMIT")]

(* The correlation id of the last draft, or the literal 'system'.          *)
MarkCorrelation(drafts) ==
  IF drafts = <<>> THEN None ELSE drafts[Len(drafts)].correlationId

MarkEntry(cause, drafts) ==
  [delta |-> 0, component |-> "LIMIT", cause |-> cause, origin |-> None,
   actor |-> "system", correlationId |-> MarkCorrelation(drafts)]

(* mutant: every move of a program over its limit is recorded as an onset  *)
MarkEntriesRepeated(p, drafts) ==
  IF IsOverLimit(MovedPosition(p, drafts))
  THEN <<MarkEntry("OVER_LIMIT_ONSET", drafts)>>
  ELSE IF p.overLimit THEN <<MarkEntry("OVER_LIMIT_CLEARED", drafts)>> ELSE <<>>

(***************************************************************************)
(* The entry that records the over-limit mark going up or down, if it      *)
(* does. Whether the program WAS over its limit is read from the mark, not *)
(* recomputed from the components.                                         *)
(***************************************************************************)
MarkEntries(p, drafts) ==
  LET nowOverLimit == IsOverLimit(MovedPosition(p, drafts))
  IN  IF ~p.overLimit /\ nowOverLimit
      THEN <<MarkEntry("OVER_LIMIT_ONSET", drafts)>>
      ELSE IF p.overLimit /\ ~nowOverLimit
      THEN <<MarkEntry("OVER_LIMIT_CLEARED", drafts)>>
      ELSE <<>>

(***************************************************************************)
(* The rows persistAdvance inserts. All entries of one transaction carry   *)
(* the instant it ran at; instants are logical, and the next sequence it   *)
(* started from orders the transactions of a program.                      *)
(***************************************************************************)
SequencedEntry(sequence, now, draft) ==
  [sequence |-> sequence, delta |-> draft.delta, component |-> draft.component,
   cause |-> draft.cause, origin |-> draft.origin, actor |-> draft.actor,
   correlationId |-> draft.correlationId, occurredAt |-> now]

(* advancePosition(program, entries).entries                               *)
AdvanceEntries(p, drafts) ==
  LET booked == drafts \o MarkEntries(p, drafts)
  IN  [k \in 1..Len(booked) |->
         SequencedEntry(p.nextSequence + k - 1, p.nextSequence, booked[k])]

(* mutant: the sequence of the mark's own entry is not counted             *)
AdvancePositionUncounted(p, drafts) ==
  [MovedPosition(p, drafts) EXCEPT
     !.nextSequence = @ + Len(drafts), !.overLimit = IsOverLimit(MovedPosition(p, drafts))]

(* mutant: the mark is set and never cleared                               *)
AdvancePositionSticky(p, drafts) ==
  [MovedPosition(p, drafts) EXCEPT
     !.nextSequence = @ + Len(drafts) + Len(MarkEntries(p, drafts)),
     !.overLimit    = @ \/ IsOverLimit(MovedPosition(p, drafts))]

(* advancePosition(program, entries).program                               *)
AdvancePosition(p, drafts) ==
  [MovedPosition(p, drafts) EXCEPT
     !.nextSequence = @ + Len(drafts) + Len(MarkEntries(p, drafts)),
     !.overLimit    = IsOverLimit(MovedPosition(p, drafts))]
=============================================================================
