------------------------------ MODULE ClientProofs ------------------------------
(***************************************************************************)
(* That a lag is never made up, for any number of instances, messages and  *)
(* faults. LagIsNeverMadeUp says nothing of how observed and applied come  *)
(* about; the invariant adds that an observation is the instant of a       *)
(* published message, and that applied is past every message applied, in   *)
(* whatever order their instants are.                                      *)
(***************************************************************************)
EXTENDS StreamClients, TLAPS

(* The counts of the partition, and where the probe stands on it.          *)
PositionsOK ==
  /\ published \in 0..LogLength
  /\ handled \in 0..published
  /\ probePosition \in 0..published

InstantsOK ==
  /\ applied \in Nat \cup {None}
  /\ observed \in [Instances -> Nat \cup {None}]

(* Whoever is asked has seen what it reports on the stream.                *)
ObservedIsPublished ==
  \A x \in Instances :
    observed[x] # None => \E n \in 1..published : EffectiveAt[n] = observed[x]

(* The column has never fallen behind a message that was applied.          *)
AppliedCovers ==
  \A n \in 1..published : Applied(n) => applied # None /\ EffectiveAt[n] <= applied

LInv == PositionsOK /\ InstantsOK /\ ObservedIsPublished /\ AppliedCovers

-------------------------------------------------------------------------------
LEMMA ClientsStart == ClientsInit => LInv
<1>1. 0 \in 0..LogLength /\ 0 \in 0..0
  BY ClientsAssumption
<1> QED
  BY <1>1 DEF ClientsInit, LInv, PositionsOK, InstantsOK, ObservedIsPublished,
              AppliedCovers, Applied

(* Steps of the supervision and of the broker touch none of it.            *)
LEMMA UnrelatedKeeps ==
  ASSUME LInv, UNCHANGED <<published, handled, applied, probePosition, observed>>
  PROVE  LInv'
BY DEF LInv, PositionsOK, InstantsOK, ObservedIsPublished, AppliedCovers, Applied

(* A rebalance puts the probe at the end of the partition.                 *)
LEMMA RebalanceKeeps ==
  ASSUME LInv, probePosition' = published, UNCHANGED <<published, handled, applied, observed>>
  PROVE  LInv'
<1>1. published \in 0..published
  BY ClientsAssumption DEF LInv, PositionsOK
<1> QED
  BY <1>1 DEF LInv, PositionsOK, InstantsOK, ObservedIsPublished, AppliedCovers, Applied

(* A message is added at the end, where it is not applied yet.             *)
LEMMA PublishKeeps ==
  ASSUME LInv, Publish
  PROVE  LInv'
<1>1. /\ published' = published + 1 /\ published < LogLength
      /\ UNCHANGED <<handled, applied, probePosition, observed>>
  BY DEF Publish, probing
<1>2. /\ published \in Nat /\ LogLength \in Nat /\ handled \in Nat /\ handled <= published
      /\ probePosition \in Nat /\ probePosition <= published
  BY ClientsAssumption DEF LInv, PositionsOK
<1>3. PositionsOK'
  BY <1>1, <1>2 DEF PositionsOK
<1>4. ObservedIsPublished'
  BY <1>1, <1>2 DEF LInv, ObservedIsPublished
<1>5. AppliedCovers'
  <2> SUFFICES ASSUME NEW n \in 1..(published + 1), Applied(n)
               PROVE  applied # None /\ EffectiveAt[n] <= applied
    BY <1>1 DEF AppliedCovers, Applied
  <2>1. n \in 1..published
    BY <1>2 DEF Applied
  <2> QED BY <2>1 DEF LInv, AppliedCovers
<1> QED BY <1>1, <1>3, <1>4, <1>5 DEF LInv, InstantsOK

(* The message handled is covered by a column that only moves forward.     *)
LEMMA HandleKeeps ==
  ASSUME LInv, NEW x \in Instances, Handle(x)
  PROVE  LInv'
<1> DEFINE m == handled + 1
<1>1. /\ handled' = m /\ handled < published
      /\ applied' = IF m \in Refused THEN applied ELSE AppliedNewest(EffectiveAt[m])
      /\ UNCHANGED <<published, probePosition, observed>>
  BY DEF Handle, probing
<1>2. published \in Nat /\ handled \in Nat /\ m \in 1..published
  BY <1>1, ClientsAssumption DEF LInv, PositionsOK
<1>3. EffectiveAt[m] \in Nat
  BY <1>2, ClientsAssumption DEF LInv, PositionsOK
<1>4. /\ applied' \in Nat \cup {None}
      /\ applied # None => applied' # None /\ applied <= applied'
      /\ m \notin Refused => applied' # None /\ EffectiveAt[m] <= applied'
  BY <1>1, <1>3, ClientsAssumption DEF AppliedNewest, LInv, InstantsOK
<1>5. PositionsOK' /\ InstantsOK' /\ ObservedIsPublished'
  BY <1>1, <1>2, <1>4 DEF LInv, PositionsOK, InstantsOK, ObservedIsPublished
<1>6. AppliedCovers'
  <2> SUFFICES ASSUME NEW n \in 1..published, n <= m, n \notin Refused
               PROVE  applied' # None /\ EffectiveAt[n] <= applied'
    BY <1>1 DEF AppliedCovers, Applied
  <2>1. CASE n = m
    BY <2>1, <1>4
  <2>2. CASE n # m
    <3>1. applied # None /\ EffectiveAt[n] <= applied
      BY <2>2, <1>2 DEF LInv, AppliedCovers, Applied
    <3>2. applied \in Nat /\ applied' \in Nat /\ EffectiveAt[n] \in Nat
      BY <3>1, <1>4, ClientsAssumption DEF LInv, InstantsOK, PositionsOK
    <3> QED BY <3>1, <3>2, <1>4
  <2> QED BY <2>1, <2>2
<1> QED BY <1>5, <1>6 DEF LInv

(* The probe observes a message that is there.                             *)
LEMMA ProbeReadsKeeps ==
  ASSUME LInv, ProbeReads
  PROVE  LInv'
<1> DEFINE m == probePosition + 1
<1>1. /\ probePosition < published /\ probePosition' = m
      /\ Observe(probeOwner, EffectiveAt[m])
      /\ UNCHANGED <<published, handled, applied>>
  BY DEF ProbeReads, log
<1>2. published \in Nat /\ probePosition \in Nat /\ m \in 1..published
  BY <1>1, ClientsAssumption DEF LInv, PositionsOK
<1>3. EffectiveAt[m] \in Nat
  BY <1>2, ClientsAssumption DEF LInv, PositionsOK
<1>4. PositionsOK' /\ AppliedCovers'
  BY <1>1, <1>2 DEF LInv, PositionsOK, AppliedCovers, Applied
<1>5. \A x \in Instances : observed'[x] = observed[x] \/ observed'[x] = EffectiveAt[m]
  BY <1>1 DEF Observe, LInv, InstantsOK
<1>6. InstantsOK'
  BY <1>1, <1>3 DEF Observe, LInv, InstantsOK
<1>7. ObservedIsPublished'
  BY <1>1, <1>2, <1>5 DEF LInv, ObservedIsPublished
<1> QED BY <1>4, <1>6, <1>7 DEF LInv

(* A process that boots again has observed nothing.                        *)
LEMMA RebootKeeps ==
  ASSUME LInv, NEW x \in Instances, Reboot(x)
  PROVE  LInv'
<1>1. /\ observed' = [observed EXCEPT ![x] = None] /\ probePosition' = published
      /\ UNCHANGED <<published, handled, applied>>
  BY DEF Reboot, Rebalance, log
<1>2. published \in 0..published
  BY ClientsAssumption DEF LInv, PositionsOK
<1>3. PositionsOK' /\ AppliedCovers'
  BY <1>1, <1>2 DEF LInv, PositionsOK, AppliedCovers, Applied
<1>4. InstantsOK' /\ ObservedIsPublished'
  BY <1>1 DEF LInv, InstantsOK, ObservedIsPublished
<1> QED BY <1>3, <1>4 DEF LInv

-------------------------------------------------------------------------------
LEMMA StepKeeps == LInv /\ [ClientsNext]_clients => LInv'
<1> SUFFICES ASSUME LInv, [ClientsNext]_clients PROVE LInv'
  OBVIOUS
<1>1. CASE UNCHANGED clients
  BY <1>1, UnrelatedKeeps DEF clients, log, probing
<1>2. CASE Publish
  BY <1>2, PublishKeeps
<1>3. CASE ProbeReads
  BY <1>3, ProbeReadsKeeps
<1>4. CASE Outage \/ BrokerRecovers
  BY <1>4, UnrelatedKeeps DEF Outage, BrokerRecovers, log, probing
<1>5. ASSUME NEW x \in Instances, Supervise(x) PROVE LInv'
  <2>1. UNCHANGED <<probing, log>>
    BY <1>5 DEF Supervise, Connected, StartFails, Restart, GroupJoin, Heartbeat,
                RequestTimeout, CrashRetriable, KafkaRestarts, CrashFatal
  <2> QED BY <2>1, UnrelatedKeeps DEF log, probing
<1>6. ASSUME NEW x \in Instances, Handle(x) PROVE LInv'
  BY <1>6, HandleKeeps
<1>7. ASSUME NEW x \in Instances, Reboot(x) PROVE LInv'
  BY <1>7, RebootKeeps
<1>8. ASSUME NEW x \in Instances, ProbeJoins(x) \/ ProbeCrashes(x) PROVE LInv'
  <2>1. probePosition' = published /\ UNCHANGED <<observed, log>>
    BY <1>8 DEF ProbeJoins, ProbeCrashes, Rebalance
  <2> QED BY <2>1, RebalanceKeeps DEF log
<1>9. ASSUME NEW x \in Instances, ProbeStartFails(x) PROVE LInv'
  BY <1>9, UnrelatedKeeps DEF ProbeStartFails, log
<1> QED BY <1>1, <1>2, <1>3, <1>4, <1>5, <1>6, <1>7, <1>8, <1>9 DEF ClientsNext

(* Every reachable state is covered and observes what was published.       *)
THEOREM ClientsInvariance == ClientsSpec => []LInv
<1> QED BY ClientsStart, StepKeeps, PTL DEF ClientsSpec

LEMMA LagNotMadeUp == LInv => LagIsNeverMadeUp
<1> SUFFICES ASSUME LInv, NEW x \in Instances, LagSeconds(x) \notin {None, 0}
             PROVE  \E n \in 1..published : EffectiveAt[n] = observed[x] /\ ~Applied(n)
  BY DEF LagIsNeverMadeUp
<1>1. applied # None /\ observed[x] # None /\ ~(observed[x] <= applied)
  BY DEF LagSeconds
<1>2. PICK n \in 1..published : EffectiveAt[n] = observed[x]
  BY <1>1 DEF LInv, ObservedIsPublished
<1>3. ~Applied(n)
  BY <1>1, <1>2 DEF LInv, AppliedCovers
<1> QED BY <1>2, <1>3

(* FR-007a: for any number of instances, whatever crashes, is quarantined  *)
(* or is applied out of order, an availability answer reports a lag only   *)
(* while a published message has not been applied.                         *)
THEOREM NoLagIsMadeUp == ClientsSpec => []LagIsNeverMadeUp
<1> QED BY ClientsInvariance, LagNotMadeUp, PTL
=============================================================================
