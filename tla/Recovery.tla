-------------------------------- MODULE Recovery --------------------------------
(***************************************************************************)
(* Recovery detection: RecoveryDetectionService.detect, which every        *)
(* instance runs when it boots, beside the instances already serving. One  *)
(* SELECT finds the verified programs whose recorded stream position is    *)
(* behind the newest entry treasury put in their ledger; one UPDATE per    *)
(* program then holds them unverified.                                     *)
(***************************************************************************)
EXTENDS CapacityStore, FiniteSetsExt

VARIABLE flagging   \* the programs a running detect() has still to flag

TreasuryCauses == {"TREASURY_EVENT", "LIMIT_CHANGE", "RECONCILIATION_ADJUSTMENT"}

TreasuryInstants(p) ==
  {ledger[p][n].occurredAt :
     n \in {k \in DOMAIN ledger[p] : /\ ledger[p][k].actor = "treasury"
                                     /\ ledger[p][k].cause \in TreasuryCauses}}

RecordedInstants(p) ==
  {streamPosition[p][t].updatedAt :
     t \in {s \in Topics : streamPosition[p][s] # NoStreamPosition}}

(* Some treasury entry is newer than everything recorded of the stream.    *)
LedgerAhead(p) ==
  \E at \in TreasuryInstants(p) : \A recorded \in RecordedInstants(p) : recorded < at

DetectBehind ==
  /\ flagging = {}
  /\ flagging' = {p \in Programs : program[p].positionVerified /\ LedgerAhead(p)}
  /\ flagging' # {}
  /\ answer' = None
  /\ UNCHANGED <<tables, pc, job, view>>

(* mutant: the flag is set in the middle of someone's transaction          *)
FlagWithoutWaiting(p) ==
  /\ p \in flagging
  /\ program' = [program EXCEPT ![p].positionVerified = FALSE]
  /\ flagging' = flagging \ {p}
  /\ answer' = None
  /\ UNCHANGED <<reservation, ledger, request, processed, streamPosition, pc, job, view>>

(* UPDATE ... SET position_verified = FALSE waits for the row lock.        *)
FlagUnverified(p) ==
  /\ p \in flagging /\ LockAvailable(p)
  /\ program' = [program EXCEPT ![p].positionVerified = FALSE]
  /\ flagging' = flagging \ {p}
  /\ answer' = None
  /\ UNCHANGED <<reservation, ledger, request, processed, streamPosition, pc, job, view>>

(***************************************************************************)
(* What detect() is for: an operator restores the stream position from a   *)
(* backup older than the ledger. The oldest backup has no row at all.      *)
(***************************************************************************)
RestoreOlderPosition(p) ==
  /\ \E t \in Topics : streamPosition[p][t] # NoStreamPosition
  /\ streamPosition' = [streamPosition EXCEPT ![p] = [t \in Topics |-> NoStreamPosition]]
  /\ answer' = None
  /\ UNCHANGED <<program, reservation, ledger, request, processed, pc, job, view, flagging>>
=============================================================================
