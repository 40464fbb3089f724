------------------------------ MODULE StreamClients ------------------------------
(***************************************************************************)
(* The Kafka clients of the instances of the service, and what clients of  *)
(* the service learn of them: the supervised treasury consumer             *)
(* (treasury.consumer.ts), its status behind /health/ready                 *)
(* (consumer-health.ts, health.controller.ts), the probe that watches the  *)
(* head of the stream in a group of its own (stream-lag.probe.ts), and the *)
(* lag an availability answer reports (availability.projection.ts).        *)
(*                                                                         *)
(* One program and one partition. Which instance owns the partition of the *)
(* treasury group, and how a message is retried, is StreamConsumer's; here *)
(* a message is handled, in its turn, by an instance whose client runs, or *)
(* the consumer stalls.                                                    *)
(***************************************************************************)
EXTENDS Integers, FiniteSets

CONSTANTS
  None,
  Instances,
  LogLength,
  EffectiveAt,   \* [1..LogLength -> Nat \ {0}], the payloads' effective times
  Refused,       \* messages that are quarantined or ignored when handled
  Second,        \* units of effective time in a second
  MaxFaults      \* bound: outages, crashes and restarts in all

ASSUME ClientsAssumption ==
  /\ LogLength \in Nat /\ MaxFaults \in Nat /\ Second \in Nat \ {0}
  /\ EffectiveAt \in [1..LogLength -> Nat \ {0}]
  /\ Refused \subseteq 1..LogLength
  /\ None \notin Int /\ None \notin Instances

VARIABLES
  broker,          \* reachable or not
  client,          \* [Instances -> stage of the treasury consumer]
  rebuildScheduled,\* [Instances -> BOOLEAN]
  status,          \* [Instances -> "up" or "down"], what /health/ready says
  probe,           \* [Instances -> stage of the probe]
  probeOwner,      \* the instance whose probe is assigned the partition, or None
  probePosition,   \* how many messages the assigned probe is past
  observed,        \* [Instances -> newest effective time in StreamLagRegistry, or None]
  published, handled,  \* messages on the partition, and those of them handled
  applied,         \* treasury_applied_effective_at, or None
  faults

supervision == <<client, rebuildScheduled, status>>
probing     == <<probe, probeOwner, probePosition, observed>>
log         == <<published, handled, applied>>
clients     == <<broker, supervision, probing, log, faults>>

ClientStages == {"connecting", "joining", "running", "restarting", "waiting", "abandoned"}
ProbeStages  == {"starting", "rejoining", "joined", "dead"}

ClientsInit ==
  /\ broker = TRUE
  /\ client = [x \in Instances |-> "connecting"]
  /\ rebuildScheduled = [x \in Instances |-> FALSE]
  /\ status = [x \in Instances |-> "up"]
  /\ probe = [x \in Instances |-> "starting"]
  /\ probeOwner = None /\ probePosition = 0
  /\ observed = [x \in Instances |-> None]
  /\ published = 0 /\ handled = 0 /\ applied = None
  /\ faults = 0

Fault == faults < MaxFaults /\ faults' = faults + 1

-------------------------------------------------------------------------------
(* TreasuryConsumer.start and rebuild.                                     *)

Enter(x, stage) == client' = [client EXCEPT ![x] = stage]

SetStatus(x, next) == status' = [status EXCEPT ![x] = next]

(* connect and subscribe succeed; run() begins to join the group.          *)
Connected(x) ==
  /\ client[x] = "connecting" /\ broker
  /\ Enter(x, "joining") /\ SetStatus(x, "up")
  /\ UNCHANGED <<broker, rebuildScheduled, probing, log, faults>>

(* The client is given up, and a new one follows after a while; a rebuild  *)
(* that is already scheduled is left to it.                                *)
Rebuild(x) ==
  IF rebuildScheduled[x]
  THEN Enter(x, "abandoned") /\ UNCHANGED rebuildScheduled
  ELSE Enter(x, "waiting") /\ rebuildScheduled' = [rebuildScheduled EXCEPT ![x] = TRUE]

StartFails(x) ==
  /\ client[x] = "connecting" /\ ~broker
  /\ Rebuild(x)
  /\ SetStatus(x, IF rebuildScheduled[x] THEN status[x] ELSE "down")
  /\ UNCHANGED <<broker, probing, log, faults>>

(* mutant: the mark is only taken away when the new client has started     *)
RestartMarked(x) ==
  /\ client[x] = "waiting"
  /\ Enter(x, "connecting")
  /\ UNCHANGED <<broker, rebuildScheduled, status, probing, log, faults>>

(* The delay is over: the mark is taken away before the new client starts. *)
Restart(x) ==
  /\ client[x] = "waiting"
  /\ Enter(x, "connecting")
  /\ rebuildScheduled' = [rebuildScheduled EXCEPT ![x] = FALSE]
  /\ UNCHANGED <<broker, status, probing, log, faults>>

-------------------------------------------------------------------------------
(* What KafkaJS tells the consumer.                                        *)

InGroup(x) == client[x] \in {"joining", "running"}

(* GROUP_JOIN *)
GroupJoin(x) ==
  /\ client[x] = "joining" /\ broker
  /\ Enter(x, "running") /\ SetStatus(x, "up")
  /\ UNCHANGED <<broker, rebuildScheduled, probing, log, faults>>

(* mutant: nobody listens for heartbeats                                   *)
HeartbeatUnheard(x) == FALSE

(* HEARTBEAT *)
Heartbeat(x) ==
  /\ client[x] = "running" /\ broker /\ status[x] = "down"
  /\ SetStatus(x, "up")
  /\ UNCHANGED <<broker, client, rebuildScheduled, probing, log, faults>>

(* REQUEST_TIMEOUT *)
RequestTimeout(x) ==
  /\ InGroup(x) /\ ~broker /\ status[x] = "up"
  /\ SetStatus(x, "down")
  /\ UNCHANGED <<broker, client, rebuildScheduled, probing, log, faults>>

(* CRASH with restart: the broker is gone, or a message has exhausted its  *)
(* retries. KafkaJS disconnects and starts the same client again.          *)
CrashRetriable(x) ==
  /\ InGroup(x)
  /\ \/ ~broker /\ UNCHANGED faults
     \/ broker /\ Fault
  /\ Enter(x, "restarting") /\ SetStatus(x, "down")
  /\ UNCHANGED <<broker, rebuildScheduled, probing, log>>

KafkaRestarts(x) ==
  /\ client[x] = "restarting"
  /\ Enter(x, "joining")
  /\ UNCHANGED <<broker, rebuildScheduled, status, probing, log, faults>>

(* CRASH without restart, such as a batch that cannot be decoded.          *)
CrashFatal(x) ==
  /\ InGroup(x) /\ broker /\ Fault
  /\ Rebuild(x) /\ SetStatus(x, "down")
  /\ UNCHANGED <<broker, probing, log>>

-------------------------------------------------------------------------------
(* The stream, and the treasury messages applied from it.                  *)

Publish ==
  /\ broker /\ published < LogLength
  /\ published' = published + 1
  /\ UNCHANGED <<broker, supervision, probing, handled, applied, faults>>

(* mutant: the column holds what was applied last                          *)
AppliedLast(at) == at

(* Both apply paths move the column forward only.                          *)
AppliedNewest(at) == IF applied = None \/ applied < at THEN at ELSE applied

Handle(x) ==
  /\ client[x] = "running" /\ broker /\ handled < published
  /\ handled' = handled + 1
  /\ applied' = IF handled + 1 \in Refused THEN applied
                ELSE AppliedNewest(EffectiveAt[handled + 1])
  /\ UNCHANGED <<broker, supervision, probing, published, faults>>

-------------------------------------------------------------------------------
(* StreamLagProbe: one more group, the same for all instances.             *)

Members(stages) == {x \in Instances : stages[x] = "joined"}

(* The group assigns the partition to one of its members. It never commits *)
(* an offset, so whoever gets it starts after the newest message.          *)
Rebalance ==
  /\ IF Members(probe') = {} THEN probeOwner' = None ELSE probeOwner' \in Members(probe')
  /\ probePosition' = published

ProbeJoins(x) ==
  /\ probe[x] \in {"starting", "rejoining"} /\ broker
  /\ probe' = [probe EXCEPT ![x] = "joined"]
  /\ Rebalance
  /\ UNCHANGED <<broker, supervision, observed, log, faults>>

(* A probe that fails to start is logged, and not started again.           *)
ProbeStartFails(x) ==
  /\ probe[x] = "starting" /\ ~broker
  /\ probe' = [probe EXCEPT ![x] = "dead"]
  /\ UNCHANGED <<broker, supervision, probeOwner, probePosition, observed, log, faults>>

(* KafkaJS restarts it when the broker was gone, and no one does otherwise. *)
ProbeCrashes(x) ==
  /\ probe[x] = "joined"
  /\ \/ ~broker /\ probe' = [probe EXCEPT ![x] = "rejoining"] /\ UNCHANGED faults
     \/ broker /\ Fault /\ probe' = [probe EXCEPT ![x] = "dead"]
  /\ Rebalance
  /\ UNCHANGED <<broker, supervision, observed, log>>

Observe(x, at) ==
  observed' = [observed EXCEPT ![x] = IF @ = None \/ at > @ THEN at ELSE @]

(* The head of a message is enough, whatever becomes of the message.       *)
ProbeReads ==
  /\ probeOwner # None /\ broker /\ probePosition < published
  /\ probePosition' = probePosition + 1
  /\ Observe(probeOwner, EffectiveAt[probePosition + 1])
  /\ UNCHANGED <<broker, supervision, probe, probeOwner, log, faults>>

-------------------------------------------------------------------------------
(* Faults.                                                                 *)

Outage ==
  /\ broker /\ Fault
  /\ broker' = FALSE
  /\ UNCHANGED <<supervision, probing, log>>

BrokerRecovers ==
  /\ ~broker
  /\ broker' = TRUE
  /\ UNCHANGED <<supervision, probing, log, faults>>

(* The process dies and boots again: its registry is empty, its status up. *)
Reboot(x) ==
  /\ Fault
  /\ Enter(x, "connecting") /\ SetStatus(x, "up")
  /\ rebuildScheduled' = [rebuildScheduled EXCEPT ![x] = FALSE]
  /\ probe' = [probe EXCEPT ![x] = "starting"]
  /\ observed' = [observed EXCEPT ![x] = None]
  /\ Rebalance
  /\ UNCHANGED <<broker, log>>

-------------------------------------------------------------------------------
Supervise(x) ==
  \/ Connected(x) \/ StartFails(x) \/ Restart(x)
  \/ GroupJoin(x) \/ Heartbeat(x) \/ RequestTimeout(x)
  \/ CrashRetriable(x) \/ KafkaRestarts(x) \/ CrashFatal(x)

ClientsNext ==
  \/ Publish \/ ProbeReads \/ Outage \/ BrokerRecovers
  \/ \E x \in Instances :
       \/ Supervise(x) \/ Handle(x) \/ Reboot(x)
       \/ ProbeJoins(x) \/ ProbeStartFails(x) \/ ProbeCrashes(x)

(***************************************************************************)
(* Clients go on connecting, joining, sending heartbeats and noticing that *)
(* nobody answers. An outage need not end, and a consumer may stall.       *)
(***************************************************************************)
ClientsFairness ==
  /\ WF_clients(ProbeReads)
  /\ \A x \in Instances :
       /\ WF_clients(Connected(x)) /\ WF_clients(StartFails(x)) /\ WF_clients(Restart(x))
       /\ WF_clients(GroupJoin(x)) /\ WF_clients(Heartbeat(x))
       /\ WF_clients(RequestTimeout(x)) /\ WF_clients(KafkaRestarts(x))
       /\ WF_clients(ProbeJoins(x)) /\ WF_clients(ProbeStartFails(x))

ClientsSpec == ClientsInit /\ [][ClientsNext]_clients /\ ClientsFairness

-------------------------------------------------------------------------------
(* What an availability answer of an instance says.                        *)

(* lagSecondsFor: whole seconds, and null for "not knowable".              *)
LagSeconds(x) ==
  IF applied = None \/ observed[x] = None THEN None
  ELSE IF observed[x] <= applied THEN 0
  ELSE (observed[x] - applied) \div Second

Applied(n) == n <= handled /\ n \notin Refused

(* FR-007a: whatever was missed, restarted or applied out of order, a lag  *)
(* is reported only while a message that was published has not been        *)
(* applied: none is made up.                                               *)
LagIsNeverMadeUp ==
  \A x \in Instances : LagSeconds(x) \notin {None, 0} =>
    \E n \in 1..published : EffectiveAt[n] = observed[x] /\ ~Applied(n)

(* Whatever crashes, and however it crashes, an instance comes back to     *)
(* ingesting once the broker stays reachable.                              *)
EventuallyIngesting ==
  \A x \in Instances : <>[]broker => <>[](client[x] = "running")

(* R10: /health/ready ends up telling whether the broker is reachable.     *)
ReadinessSettles ==
  \A x \in Instances :
    /\ <>[]broker => <>[](status[x] = "up")
    /\ <>[]~broker => <>[](status[x] = "down")

(* A message at least a second newer than what was applied is not handled. *)
Behind ==
  /\ applied # None
  /\ \E n \in (handled + 1)..published : EffectiveAt[n] - applied >= Second

(* SC-002a: staleness is reported rather than concealed: an instance does  *)
(* not go on reporting no lag while the consumer has stalled.              *)
StalenessIsNotConcealed ==
  \A x \in Instances : []<>~(Behind /\ LagSeconds(x) = 0)
=============================================================================
