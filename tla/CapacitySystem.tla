----------------------------- MODULE CapacitySystem -----------------------------
(***************************************************************************)
(* The capacity service: callers, consumers, sweeps and operators over one *)
(* database, and the properties that make the service correct.             *)
(***************************************************************************)
EXTENDS CapacityCommands, TreasuryIngest, Recovery

system == <<vars, flagging>>

(* What a caller sends and what treasury publishes are never taken for     *)
(* each other.                                                             *)
ASSUME JobsAssumption == Commands \cap Messages = {}

(***************************************************************************)
(* Nothing in the service writes treasury_reference; the agreement with    *)
(* treasury does, out of band, and echoes and explicit markers rely on it. *)
(***************************************************************************)
LinkReference(p, i, reference) ==
  /\ reservation[p][i] # None
  /\ reservation[p][i].treasuryReference = None
  /\ reservation' = [reservation EXCEPT ![p][i].treasuryReference = reference]
  /\ answer' = None
  /\ UNCHANGED <<program, ledger, request, processed, streamPosition, pc, job, view>>

Init == StoreInit /\ flagging = {}

Serve ==
  \/ \E w \in Workers : HandleCommand(w) \/ HandleMessage(w) \/ Crash(w)
  \/ RetentionSweep
  \/ \E p \in Programs, i \in Invoices, reference \in TreasuryReferences :
       LinkReference(p, i, reference)

Recover ==
  \/ DetectBehind
  \/ \E p \in Programs : FlagUnverified(p) \/ RestoreOlderPosition(p)

Next == (Serve /\ UNCHANGED flagging) \/ Recover

Spec == Init /\ [][Next]_system

(* The service as long as no stream position is restored and no instance   *)
(* boots: detect() finds nothing behind then, and instances stay small.    *)
ServingSpec == Init /\ [][Serve /\ UNCHANGED flagging]_system
=============================================================================
