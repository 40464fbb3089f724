----------------------------- MODULE StreamConsumer -----------------------------
(***************************************************************************)
(* The consumer group on one partition of the treasury stream              *)
(* (src/src/treasury/consumer, retry and dlq): manual offset commits after *)
(* the database commit, in-process retries, the dead-letter topic, crashes *)
(* and rebalances. A message is its offset, and all that matters of it     *)
(* here is what its handler can do with it; TreasuryIngest says what that  *)
(* does to the tables.                                                     *)
(***************************************************************************)
EXTENDS Integers, FiniteSets

CONSTANTS
  None,
  Consumers,      \* instances of the service, all of one consumer group
  Fate,           \* [0..LogLength-1 -> Fates], the messages to be published
  LogLength,
  InitialOffset,  \* the offset committed for the group so far, or None
  MaxAttempts,    \* RetryPolicy.maxAttempts
  MaxFaults       \* bound: crashes, outages, lost answers and passing errors in all

Offsets == 0..(LogLength - 1)

(***************************************************************************)
(* "appliable": the handler can resolve, applying the message or skipping  *)
(*              it, unless something makes it throw at the moment;         *)
(* "invalid": refused before the database is needed (SCHEMA_INVALID);      *)
(* "refused": refused by what the database says (an unknown program);      *)
(* "poison": the handler always throws an error nobody recognises as       *)
(*           transient, such as a CHECK violation.                         *)
(***************************************************************************)
Fates == {"appliable", "invalid", "refused", "poison"}

ASSUME StreamAssumption ==
  /\ LogLength \in Nat /\ MaxAttempts \in Nat \ {0} /\ MaxFaults \in Nat
  /\ Fate \in [Offsets -> Fates]
  /\ None \notin Int /\ None \notin Consumers
  /\ InitialOffset \in {0, None}

VARIABLES
  published,    \* how many messages the partition holds
  committed,    \* the offset committed for the group, or None
  owner,        \* the consumer the partition is assigned to, or None
  stage,        \* [Consumers -> Stages]
  position,     \* [Consumers -> the offset at hand, or to be fetched next]
  attempt,      \* [Consumers -> the attempt of the running withRetry]
  applied,      \* offsets the database has processed (processed_message)
  quarantined,  \* offsets on the dead-letter topic
  outlived,     \* history: offsets whose last attempt an unrecognised error ended
  database, broker,  \* reachable or not
  faults        \* faults so far

stream == <<published, committed, owner, stage, position, attempt, applied, quarantined,
            outlived, database, broker, faults>>

Stages == {"down", "idle", "handling", "quarantining", "committing"}

StreamInit ==
  /\ published = 0 /\ committed = InitialOffset /\ owner = None
  /\ stage = [c \in Consumers |-> "down"]
  /\ position = [c \in Consumers |-> 0]
  /\ attempt = [c \in Consumers |-> 1]
  /\ applied = {} /\ quarantined = {} /\ outlived = {}
  /\ database = TRUE /\ broker = TRUE
  /\ faults = 0

Fault == faults < MaxFaults /\ faults' = faults + 1

-------------------------------------------------------------------------------
(* Kafka and the clients.                                                  *)

Publish ==
  /\ broker /\ published < LogLength
  /\ published' = published + 1
  /\ UNCHANGED <<committed, owner, stage, position, attempt, applied, quarantined,
                 outlived, database, broker, faults>>

(***************************************************************************)
(* A joining member is given the partition, or a member in reach takes one *)
(* nobody has. The previous owner may be in the middle of a message and    *)
(* not know. With no offset committed, fromBeginning: false means that the *)
(* member starts after the newest message.                                 *)
(***************************************************************************)
Assign(c) ==
  /\ broker
  /\ stage[c] = "down" \/ (stage[c] = "idle" /\ owner = None)
  /\ owner' = c
  /\ stage' = [stage EXCEPT ![c] = "idle"]
  /\ position' = [position EXCEPT ![c] = IF committed = None THEN published ELSE committed]
  /\ UNCHANGED <<published, committed, attempt, applied, quarantined,
                 outlived, database, broker, faults>>

(* The instance dies, or its client stops for good and is rebuilt.         *)
Crash(c) ==
  /\ stage[c] # "down" /\ Fault
  /\ stage' = [stage EXCEPT ![c] = "down"]
  /\ owner' = IF owner = c THEN None ELSE owner
  /\ UNCHANGED <<published, committed, position, attempt, applied, quarantined,
                 outlived, database, broker>>

Outage ==
  /\ Fault
  /\ \/ database /\ database' = FALSE /\ UNCHANGED broker
     \/ broker /\ broker' = FALSE /\ UNCHANGED database
  /\ UNCHANGED <<published, committed, owner, stage, position, attempt, applied,
                 quarantined, outlived>>

DatabaseRecovers ==
  /\ ~database /\ database' = TRUE
  /\ UNCHANGED <<published, committed, owner, stage, position, attempt, applied,
                 quarantined, outlived, broker, faults>>

BrokerRecovers ==
  /\ ~broker /\ broker' = TRUE
  /\ UNCHANGED <<published, committed, owner, stage, position, attempt, applied,
                 quarantined, outlived, database, faults>>

-------------------------------------------------------------------------------
(* processMessage.                                                         *)

(* mutant: autoCommit, which may commit a message when it is handed over   *)
DeliverCommitting(c) ==
  /\ stage[c] = "idle" /\ owner = c /\ position[c] < published
  /\ stage' = [stage EXCEPT ![c] = "handling"]
  /\ attempt' = [attempt EXCEPT ![c] = 1]
  /\ committed' = position[c] + 1
  /\ UNCHANGED <<published, owner, position, applied, quarantined, outlived, database,
                 broker, faults>>

(* eachMessage is called with the message at the position of its owner.    *)
Deliver(c) ==
  /\ stage[c] = "idle" /\ owner = c /\ position[c] < published
  /\ stage' = [stage EXCEPT ![c] = "handling"]
  /\ attempt' = [attempt EXCEPT ![c] = 1]
  /\ UNCHANGED <<published, committed, owner, position, applied, quarantined, outlived,
                 database, broker, faults>>

(* The next stage, with a fresh retry budget.                              *)
Proceed(c, next) ==
  /\ stage' = [stage EXCEPT ![c] = next]
  /\ attempt' = [attempt EXCEPT ![c] = 1]

(* processMessage throws: nothing is committed, so KafkaJS fetches the     *)
(* same message again.                                                     *)
Reject(c) == Proceed(c, "idle")

Retry(c) == attempt' = [attempt EXCEPT ![c] = @ + 1] /\ UNCHANGED stage

(* mutant: whatever exhausts its retries is quarantined                    *)
FailTransientQuarantining(c) ==
  IF attempt[c] < MaxAttempts THEN Retry(c) ELSE Proceed(c, "quarantining")

(* A recognised infrastructure failure is retried and then rejected.       *)
FailTransient(c) == IF attempt[c] < MaxAttempts THEN Retry(c) ELSE Reject(c)

(* mutant: whatever exhausts its retries is rejected                       *)
FailUnrecognisedRejecting(c) ==
  IF attempt[c] < MaxAttempts THEN Retry(c) ELSE Reject(c)

(* mutant: one attempt too many                                            *)
FailUnrecognisedOnceMore(c) ==
  IF attempt[c] <= MaxAttempts THEN Retry(c) ELSE Proceed(c, "quarantining")

(* Any other failure is retried too, and then taken for permanent.         *)
FailUnrecognised(c) ==
  IF attempt[c] < MaxAttempts THEN Retry(c) ELSE Proceed(c, "quarantining")

ThrowRecognised(c) == FailTransient(c) /\ UNCHANGED outlived

(* The error may have nothing to do with the message: a statement refused  *)
(* by a standby that only reads (25006), or the release of what is booked  *)
(* later. The attempts before may have failed otherwise.                   *)
ThrowUnrecognised(c) ==
  /\ FailUnrecognised(c)
  /\ outlived' = IF attempt[c] = MaxAttempts THEN outlived \cup {position[c]} ELSE outlived

(* One attempt at dispatch. It throws for as long as the database is out   *)
(* of reach, and an error that passes may hit any message; the database    *)
(* may also commit and its answer be lost, in an error of either kind.     *)
Dispatch(c) ==
  LET fate == Fate[position[c]]
  IN  /\ stage[c] = "handling"
      /\ \/ /\ fate = "invalid" \/ (fate = "refused" /\ database)
            /\ Proceed(c, "quarantining")
            /\ UNCHANGED <<applied, outlived, faults>>
         \/ /\ fate = "appliable" /\ database
            /\ applied' = applied \cup {position[c]}
            /\ \/ Proceed(c, "committing") /\ UNCHANGED <<outlived, faults>>
               \/ (ThrowRecognised(c) \/ ThrowUnrecognised(c)) /\ Fault
         \/ /\ fate # "invalid" /\ UNCHANGED applied
            /\ \/ ~database /\ ThrowRecognised(c) /\ UNCHANGED faults
               \/ fate = "poison" /\ database /\ ThrowUnrecognised(c) /\ UNCHANGED faults
               \/ ThrowUnrecognised(c) /\ Fault
      /\ UNCHANGED <<published, committed, owner, position, quarantined,
                     database, broker>>

(* The record lands on the topic; a second copy of it adds nothing.        *)
DeadLetter(c) == quarantined' = quarantined \cup {position[c]}

(* One attempt at publishing to the dead-letter topic. Its failures, of    *)
(* whatever kind, are retried and then thrown.                             *)
Quarantine(c) ==
  /\ stage[c] = "quarantining"
  /\ \/ /\ broker
        /\ DeadLetter(c)
        /\ \/ Proceed(c, "committing") /\ UNCHANGED faults
           \/ FailTransient(c) /\ Fault
     \/ ~broker /\ FailTransient(c) /\ UNCHANGED <<quarantined, faults>>
  /\ UNCHANGED <<published, committed, owner, position, applied, outlived, database,
                 broker>>

(* commitOffsets: refused to a member that has lost the partition. The     *)
(* broker may commit and its answer be lost.                               *)
CommitOffset(c) ==
  /\ stage[c] = "committing"
  /\ \/ /\ broker /\ owner = c
        /\ committed' = position[c] + 1
        /\ \/ position' = [position EXCEPT ![c] = @ + 1] /\ UNCHANGED faults
           \/ UNCHANGED position /\ Fault
     \/ ~(broker /\ owner = c) /\ UNCHANGED <<committed, position, faults>>
  /\ Proceed(c, "idle")
  /\ UNCHANGED <<published, owner, applied, quarantined, outlived, database, broker>>

-------------------------------------------------------------------------------
StreamNext ==
  \/ Publish \/ Outage \/ DatabaseRecovers \/ BrokerRecovers
  \/ \E c \in Consumers :
       Assign(c) \/ Crash(c) \/ Deliver(c) \/ Dispatch(c) \/ Quarantine(c) \/ CommitOffset(c)

StreamSpec == StreamInit /\ [][StreamNext]_stream

(***************************************************************************)
(* A running instance keeps going, a stopped one is started again, and     *)
(* outages end. Faults are bounded, so in the end there are none.          *)
(***************************************************************************)
StreamFairness ==
  /\ WF_stream(DatabaseRecovers) /\ WF_stream(BrokerRecovers)
  /\ \A c \in Consumers :
       /\ WF_stream(Assign(c)) /\ WF_stream(Deliver(c)) /\ WF_stream(Dispatch(c))
       /\ WF_stream(Quarantine(c)) /\ WF_stream(CommitOffset(c))

FairStreamSpec == StreamSpec /\ StreamFairness

-------------------------------------------------------------------------------
Handled(o) == o \in applied \cup quarantined

StreamTypeOK ==
  /\ published \in 0..LogLength
  /\ committed \in 0..LogLength \cup {None}
  /\ owner \in Consumers \cup {None}
  /\ stage \in [Consumers -> Stages]
  /\ position \in [Consumers -> 0..LogLength]
  /\ attempt \in [Consumers -> 1..MaxAttempts]
  /\ applied \subseteq Offsets /\ quarantined \subseteq Offsets /\ outlived \subseteq Offsets
  /\ database \in BOOLEAN /\ broker \in BOOLEAN /\ faults \in 0..MaxFaults

(* FR-013, SC-009: what the group has committed since its first offset has *)
(* been applied or quarantined, every message of it: whatever crashes,     *)
(* fails or is taken over by another instance, none is lost.               *)
CommittedIsHandled == committed # None => \A o \in 0..(committed - 1) : Handled(o)

(* What gives the consumer cause to give a message up: its handler refuses *)
(* it, or the error that ended its last attempt is one nobody recognises.  *)
Condemned(o) == Fate[o] \in {"invalid", "refused"} \/ o \in outlived

(* FR-035, as far as the code keeps it: a failure that is recognised as    *)
(* transient never puts a message on the dead-letter topic, however long   *)
(* an outage lasts, how often an answer is lost, or what earlier attempts  *)
(* have met with. A message that might still apply is not safe from it: an *)
(* unrecognised error at the last attempt condemns any.                    *)
QuarantinedForCause == \A o \in quarantined : Condemned(o)

(* FR-014: every message is eventually applied or quarantined; one that    *)
(* cannot be applied does not stop those behind it.                        *)
EveryMessageIsHandled == \A o \in Offsets : (o < published) ~> Handled(o)

=============================================================================
