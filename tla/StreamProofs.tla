------------------------------ MODULE StreamProofs ------------------------------
(***************************************************************************)
(* Theorems about the consumer group, for every log, every number of       *)
(* instances, attempts and faults.                                         *)
(***************************************************************************)
EXTENDS StreamConsumer, TLAPS

(* A group without a committed offset joins after the newest message, and  *)
(* knows nothing of those before; any other has started at one.            *)
HasOffset == InitialOffset # None

(* What a consumer knows of the messages before the one at hand, and of    *)
(* the one at hand in each stage.                                          *)
ProgressIsHandled ==
  \A c \in Consumers :
    /\ HasOffset /\ stage[c] # "down" => \A o \in 0..(position[c] - 1) : Handled(o)
    /\ stage[c] \in {"handling", "quarantining", "committing"} => position[c] \in Offsets
    /\ stage[c] = "quarantining" => Condemned(position[c])
    /\ stage[c] = "committing" => Handled(position[c])

StreamIInv ==
  /\ StreamTypeOK
  /\ HasOffset => committed # None /\ CommittedIsHandled
  /\ QuarantinedForCause
  /\ ProgressIsHandled

(* Handled messages stay handled, and condemned ones condemned.            *)
LEMMA HandledGrows ==
  ASSUME applied \subseteq applied', quarantined \subseteq quarantined',
         outlived \subseteq outlived'
  PROVE  \A o : (Handled(o) => Handled(o)') /\ (Condemned(o) => Condemned(o)')
BY DEF Handled, Condemned

(* A step that commits and assigns nothing and moves no position keeps     *)
(* what has been handled before each position.                             *)
LEMMA ProgressKept ==
  ASSUME StreamIInv, NEW c \in Consumers, NEW next \in Stages,
         stage' = [stage EXCEPT ![c] = next], UNCHANGED position,
         stage[c] # "down",
         applied \subseteq applied', quarantined \subseteq quarantined',
         outlived \subseteq outlived',
         next \in {"handling", "quarantining", "committing"} => position[c] \in Offsets,
         next = "quarantining" => Condemned(position[c])',
         next = "committing" => Handled(position[c])'
  PROVE  ProgressIsHandled'
<1>1. \A o : (Handled(o) => Handled(o)') /\ (Condemned(o) => Condemned(o)')
  BY HandledGrows, Zenon
<1> HIDE DEF Handled, Condemned
<1> QED
  <2> SUFFICES ASSUME NEW d \in Consumers
               PROVE  /\ HasOffset /\ stage'[d] # "down" =>
                           \A o \in 0..(position[d] - 1) : Handled(o)'
                      /\ stage'[d] \in {"handling", "quarantining", "committing"} =>
                           position[d] \in Offsets
                      /\ stage'[d] = "quarantining" => Condemned(position[d])'
                      /\ stage'[d] = "committing" => Handled(position[d])'
    BY DEF ProgressIsHandled, Handled, Condemned
  <2>1. CASE d = c
    BY <1>1, <2>1 DEF StreamIInv, ProgressIsHandled, StreamTypeOK
  <2>2. CASE d # c
    BY <1>1, <2>2 DEF StreamIInv, ProgressIsHandled, StreamTypeOK
  <2> QED BY <2>1, <2>2

-------------------------------------------------------------------------------
(* A fresh partition, and nobody who consumes it.                          *)
LEMMA StreamInitKeeps == StreamInit => StreamIInv
BY StreamAssumption
   DEF StreamInit, StreamIInv, StreamTypeOK, CommittedIsHandled, ProgressIsHandled,
       QuarantinedForCause, Stages, Offsets, Handled, Condemned, HasOffset

(* Publishing, outages and their ends touch no consumer.                   *)
LEMMA EnvironmentKeeps ==
  ASSUME StreamIInv, Publish \/ Outage \/ DatabaseRecovers \/ BrokerRecovers
  PROVE  StreamIInv'
<1>1. UNCHANGED <<committed, owner, stage, position, attempt, applied, quarantined,
                outlived>>
  BY DEF Publish, Outage, DatabaseRecovers, BrokerRecovers
<1>2. published \in 0..LogLength /\ faults \in 0..MaxFaults /\ LogLength \in Nat /\ MaxFaults \in Nat
  BY StreamAssumption DEF StreamIInv, StreamTypeOK
<1>3. database \in BOOLEAN /\ broker \in BOOLEAN
  BY DEF StreamIInv, StreamTypeOK
<1>4. published' \in 0..LogLength
  <2>1. published' = published \/ (published < LogLength /\ published' = published + 1)
    BY Zenon DEF Publish, Outage, DatabaseRecovers, BrokerRecovers
  <2> QED BY <1>2, <2>1
<1>5. faults' \in 0..MaxFaults
  <2>1. faults' = faults \/ (faults < MaxFaults /\ faults' = faults + 1)
    BY Zenon DEF Publish, Outage, DatabaseRecovers, BrokerRecovers, Fault
  <2> QED BY <1>2, <2>1
<1>6. database' \in BOOLEAN /\ broker' \in BOOLEAN
  BY <1>3, Zenon DEF Publish, Outage, DatabaseRecovers, BrokerRecovers
<1> QED
  BY <1>1, <1>4, <1>5, <1>6
     DEF StreamIInv, StreamTypeOK, CommittedIsHandled, ProgressIsHandled,
         QuarantinedForCause, Handled, Condemned

(* A partition is taken over at the committed offset: all before it is     *)
(* handled.                                                                *)
LEMMA AssignKeeps ==
  ASSUME StreamIInv, NEW c \in Consumers, Assign(c)
  PROVE  StreamIInv'
<1>1. PICK start \in 0..LogLength :
        /\ position' = [position EXCEPT ![c] = start]
        /\ committed # None => start = committed
  BY DEF Assign, StreamIInv, StreamTypeOK
<1>2. StreamTypeOK'
  BY <1>1 DEF StreamIInv, StreamTypeOK, Assign, Stages
<1>3. ProgressIsHandled'
  BY <1>1
     DEF StreamIInv, StreamTypeOK, Assign, ProgressIsHandled, CommittedIsHandled, Handled, Condemned
<1> QED
  BY <1>2, <1>3
     DEF StreamIInv, Assign, CommittedIsHandled, QuarantinedForCause, Handled, Condemned

(* A crash leaves a consumer that claims nothing.                          *)
LEMMA CrashKeeps ==
  ASSUME StreamIInv, NEW c \in Consumers, Crash(c)
  PROVE  StreamIInv'
<1>1. StreamTypeOK'
  BY StreamAssumption DEF StreamIInv, StreamTypeOK, Crash, Fault, Stages
<1>2. ProgressIsHandled'
  BY DEF StreamIInv, StreamTypeOK, Crash, ProgressIsHandled, Handled, Condemned
<1> QED
  BY <1>1, <1>2
     DEF StreamIInv, Crash, CommittedIsHandled, QuarantinedForCause, Handled, Condemned

(* A message handed over is one that has been published.                   *)
LEMMA DeliverKeeps ==
  ASSUME StreamIInv, NEW c \in Consumers, Deliver(c)
  PROVE  StreamIInv'
<1>1. position[c] \in Offsets
  BY StreamAssumption DEF StreamIInv, StreamTypeOK, Deliver, Offsets
<1>2. StreamTypeOK'
  BY <1>1, StreamAssumption DEF StreamIInv, StreamTypeOK, Deliver, Stages
<1>3. ProgressIsHandled'
  BY <1>1, ProgressKept DEF Deliver, Stages
<1> QED
  BY <1>2, <1>3
     DEF StreamIInv, Deliver, CommittedIsHandled, QuarantinedForCause, Handled, Condemned

(* What an attempt at something leaves of stage and attempt.               *)
AttemptEnds(c, next) ==
  /\ stage' = [stage EXCEPT ![c] = next]
  /\ attempt' \in [Consumers -> 1..MaxAttempts]

(* A failed attempt is tried again or ends where its failure leads.        *)
LEMMA FailureEnds ==
  ASSUME StreamIInv, NEW c \in Consumers, stage[c] # "down"
  PROVE  /\ FailTransient(c) => AttemptEnds(c, stage[c]) \/ AttemptEnds(c, "idle")
         /\ FailUnrecognised(c) =>
              \/ AttemptEnds(c, stage[c])
              \/ AttemptEnds(c, "quarantining") /\ attempt[c] = MaxAttempts
         /\ \A next \in Stages : Proceed(c, next) => AttemptEnds(c, next)
<1>1. /\ attempt \in [Consumers -> 1..MaxAttempts] /\ stage \in [Consumers -> Stages]
      /\ MaxAttempts \in Nat \ {0}
  BY StreamAssumption DEF StreamIInv, StreamTypeOK
<1>2. \A next \in Stages : Proceed(c, next) => AttemptEnds(c, next)
  BY <1>1 DEF Proceed, AttemptEnds
<1>3. attempt[c] < MaxAttempts /\ Retry(c) => AttemptEnds(c, stage[c])
  BY <1>1 DEF Retry, AttemptEnds
<1> QED
  BY <1>1, <1>2, <1>3 DEF FailTransient, FailUnrecognised, Reject, Stages

(* An attempt at dispatch commits in the database before it proceeds, and  *)
(* gives up only on a message that it refuses or that an unrecognised      *)
(* error has outlived the attempts of.                                     *)
LEMMA DispatchKeeps ==
  ASSUME StreamIInv, NEW c \in Consumers, Dispatch(c)
  PROVE  StreamIInv'
<1>1. stage[c] = "handling" /\ position[c] \in Offsets
  BY DEF Dispatch, StreamIInv, ProgressIsHandled
<1>2. /\ applied' = applied \/ applied' = applied \cup {position[c]}
      /\ outlived \subseteq outlived' /\ outlived' \subseteq outlived \cup {position[c]}
      /\ faults' \in 0..MaxFaults
  BY StreamAssumption
     DEF Dispatch, ThrowRecognised, ThrowUnrecognised, Fault, StreamIInv, StreamTypeOK
<1>3. PICK next \in Stages :
        /\ AttemptEnds(c, next)
        /\ next = "quarantining" => Condemned(position[c])'
        /\ next = "committing" => position[c] \in applied'
  BY <1>1, FailureEnds DEF Dispatch, ThrowRecognised, ThrowUnrecognised, Condemned, Stages
<1>4. UNCHANGED <<published, committed, owner, position, quarantined, database, broker>>
  BY DEF Dispatch
<1>5. StreamTypeOK'
  BY <1>1, <1>2, <1>3, <1>4 DEF StreamIInv, StreamTypeOK, AttemptEnds
<1>6. ProgressIsHandled'
  BY <1>1, <1>2, <1>3, <1>4, ProgressKept DEF AttemptEnds, Handled, Condemned
<1> QED
  BY <1>2, <1>4, <1>5, <1>6
     DEF StreamIInv, CommittedIsHandled, QuarantinedForCause, Handled, Condemned

(* A message is on the dead-letter topic before its offset is committed.   *)
LEMMA QuarantineKeeps ==
  ASSUME StreamIInv, NEW c \in Consumers, Quarantine(c)
  PROVE  StreamIInv'
<1>1. stage[c] = "quarantining" /\ position[c] \in Offsets /\ Condemned(position[c])
  BY DEF Quarantine, StreamIInv, ProgressIsHandled
<1>2. /\ quarantined' = quarantined \/ quarantined' = quarantined \cup {position[c]}
      /\ faults' \in 0..MaxFaults
  BY StreamAssumption DEF Quarantine, DeadLetter, Fault, StreamIInv, StreamTypeOK
<1>3. PICK next \in Stages :
        AttemptEnds(c, next) /\ (next = "committing" => position[c] \in quarantined')
  BY <1>1, FailureEnds DEF Quarantine, DeadLetter, Stages
<1>4. UNCHANGED <<published, committed, owner, position, applied, outlived, database, broker>>
  BY DEF Quarantine
<1>5. StreamTypeOK'
  BY <1>1, <1>2, <1>3, <1>4 DEF StreamIInv, StreamTypeOK, AttemptEnds
<1>6. ProgressIsHandled'
  BY <1>1, <1>2, <1>3, <1>4, ProgressKept DEF AttemptEnds, Handled, Condemned
<1> QED
  BY <1>1, <1>2, <1>4, <1>5, <1>6
     DEF StreamIInv, CommittedIsHandled, QuarantinedForCause, Handled, Condemned

(* The offset that is committed is that of a handled message, and all      *)
(* before it are handled.                                                  *)
LEMMA CommitOffsetKeeps ==
  ASSUME StreamIInv, NEW c \in Consumers, CommitOffset(c)
  PROVE  StreamIInv'
<1>1. stage[c] = "committing" /\ position[c] \in Offsets
  BY DEF CommitOffset, StreamIInv, ProgressIsHandled
<1>2. HasOffset => \A o \in 0..position[c] : Handled(o)
  BY <1>1, StreamAssumption DEF StreamIInv, ProgressIsHandled, Offsets, Handled
<1>3. AttemptEnds(c, "idle")
  BY <1>1, FailureEnds DEF CommitOffset, Stages
<1>4. UNCHANGED <<published, owner, applied, quarantined, outlived, database, broker>>
  BY DEF CommitOffset
<1>5. /\ committed' = committed \/ committed' = position[c] + 1
      /\ position' = position \/ position' = [position EXCEPT ![c] = @ + 1]
      /\ faults' \in 0..MaxFaults
  BY StreamAssumption DEF CommitOffset, Fault, StreamIInv, StreamTypeOK
<1>6. StreamTypeOK'
  <2>1. position[c] + 1 \in 0..LogLength
    BY <1>1, StreamAssumption DEF Offsets
  <2>2. /\ committed' \in 0..LogLength \cup {None}
        /\ position' \in [Consumers -> 0..LogLength]
    BY <1>5, <2>1 DEF StreamIInv, StreamTypeOK
  <2>3. stage' \in [Consumers -> Stages] /\ attempt' \in [Consumers -> 1..MaxAttempts]
    BY <1>3 DEF StreamIInv, StreamTypeOK, AttemptEnds, Stages
  <2> QED
    BY <1>4, <1>5, <2>2, <2>3 DEF StreamIInv, StreamTypeOK
<1>7. HasOffset => committed' # None /\ CommittedIsHandled'
  BY <1>1, <1>2, <1>4, <1>5, StreamAssumption
     DEF StreamIInv, CommittedIsHandled, Handled, Offsets
<1>8. ProgressIsHandled'
  BY <1>1, <1>2, <1>3, <1>4, <1>5, StreamAssumption
     DEF StreamIInv, StreamTypeOK, ProgressIsHandled, AttemptEnds, Handled, Condemned, Offsets
<1> QED
  BY <1>4, <1>6, <1>7, <1>8 DEF StreamIInv, QuarantinedForCause, Condemned

(* Every step of the stream keeps the invariant.                           *)
LEMMA StreamNextKeeps == StreamIInv /\ [StreamNext]_stream => StreamIInv'
<1> SUFFICES ASSUME StreamIInv, [StreamNext]_stream PROVE StreamIInv'
  OBVIOUS
<1>1. CASE UNCHANGED stream
  BY <1>1
     DEF stream, StreamIInv, StreamTypeOK, CommittedIsHandled, ProgressIsHandled,
         QuarantinedForCause, Handled, Condemned
<1>2. CASE Publish \/ Outage \/ DatabaseRecovers \/ BrokerRecovers
  BY <1>2, EnvironmentKeeps
<1>3. ASSUME NEW c \in Consumers,
             Assign(c) \/ Crash(c) \/ Deliver(c) \/ Dispatch(c) \/ Quarantine(c) \/ CommitOffset(c)
      PROVE  StreamIInv'
  BY <1>3, AssignKeeps, CrashKeeps, DeliverKeeps, DispatchKeeps, QuarantineKeeps,
     CommitOffsetKeeps
<1> QED BY <1>1, <1>2, <1>3 DEF StreamNext

(* Everything a group ever does keeps the invariant.                       *)
THEOREM StreamInvariance == StreamSpec => []StreamIInv
BY StreamInitKeeps, StreamNextKeeps, PTL DEF StreamSpec

(* Every instance is at a message of the log, and no retry exceeds the     *)
(* attempts it is given, whatever fails in between.                        *)
THEOREM StreamTypeCorrect == StreamSpec => []StreamTypeOK
<1>1. StreamIInv => StreamTypeOK
  BY DEF StreamIInv
<1> QED BY <1>1, StreamInvariance, PTL

(* FR-013, SC-009: no committed message is lost, whatever crashes, however *)
(* many instances hand the partition over, and however long outages last.  *)
(* A group that joined after the newest message says nothing of those      *)
(* before it.                                                              *)
THEOREM NoMessageIsLost ==
  ASSUME InitialOffset # None
  PROVE  StreamSpec => []CommittedIsHandled
<1>1. StreamIInv => CommittedIsHandled
  BY DEF StreamIInv, HasOffset
<1> QED BY <1>1, StreamInvariance, PTL

(* FR-035, as far as the code keeps it: without an unrecognised error at   *)
(* the last attempt no message is given up that its handler does not       *)
(* refuse, however many instances try it, and however long outages last.   *)
THEOREM RecognisedFailuresQuarantineNothing == StreamSpec => []QuarantinedForCause
<1>1. StreamIInv => QuarantinedForCause
  BY DEF StreamIInv
<1> QED BY <1>1, StreamInvariance, PTL
=============================================================================
