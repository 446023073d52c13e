------------------------ MODULE QueueConsumerProofs ------------------------
(* Proofs about QueueConsumer, for every set of runners and every bound.   *)
EXTENDS QueueConsumer, FiniteSetTheorems, TLAPS

(* Sets of messages are finite.                                            *)
LEMMA MsgsFinite ==
    ASSUME NEW S \in SUBSET Msgs
    PROVE  IsFiniteSet(S) /\ Cardinality(S) \in Nat
<1>1. IsFiniteSet(Msgs)
  BY BoundsAssumption, FS_Interval DEF Msgs
<1>2. QED
  BY <1>1, FS_Subset, FS_CardinalityType

LEMMA InitQueueInv == Init => QueueInv
<1> SUFFICES ASSUME Init PROVE QueueInv
  OBVIOUS
<1>1. TypeOK
  <2>1. /\ published \in 0..MaxMsgs
        /\ trimmed \in 0..published
        /\ lastDelivered \in 0..published
        /\ lostReplies \in 0..MaxFaults
    BY BoundsAssumption DEF Init
  <2>2. /\ readCount \in [Runners -> 0..MaxParallelJobs]
        /\ activeJobs \in [Runners -> Nat]
        /\ starts \in [Msgs -> Nat]
    BY SlotsAssumption DEF Init
  <2>3. jobs \in [Runners -> [Msgs -> JobStates]]
    BY DEF Init, JobStates
  <2>4. todo \in [Runners -> SUBSET (Runners \X Nat)]
    BY DEF Init
  <2>5. /\ phase \in [Runners -> Phases]
        /\ payload \in [Msgs -> Payloads]
        /\ pel \in [Msgs -> Runners \cup {None}]
        /\ target \in [Runners -> Runners \cup {None}]
    BY DEF Init, Phases, Payloads
  <2>6. QED
    BY <2>1, <2>2, <2>3, <2>4, <2>5 DEF Init, TypeOK
<1>2. SlotInv
  <2> SUFFICES ASSUME NEW r \in Runners
               PROVE  /\ activeJobs[r] = Cardinality(InFlight(r))
                      /\ activeJobs[r] + readCount[r] <= MaxParallelJobs
                      /\ Cardinality(inbox[r]) <= readCount[r]
    BY DEF SlotInv
  <2>1. InFlight(r) = {} /\ inbox[r] = {} /\ activeJobs[r] = 0 /\ readCount[r] = 0
    BY DEF Init, InFlight
  <2>2. QED
    BY <2>1, FS_EmptySet, SlotsAssumption
<1>3. GroupInv /\ ReplyInv /\ DeliveryInv /\ AtMostOnce
  BY DEF Init, GroupInv, ReplyInv, DeliveryInv, AtMostOnce, Msgs
<1>4. QED
  BY <1>1, <1>2, <1>3 DEF QueueInv

-----------------------------------------------------------------------------
(* The typing of every step.                                               *)
LEMMA TypeStep == QueueInv /\ [Next]_vars => TypeOK'
<1> SUFFICES ASSUME QueueInv, [Next]_vars PROVE TypeOK'
  OBVIOUS
<1> USE BoundsAssumption, SlotsAssumption, RunnersAssumption
<1> USE DEF TypeOK, redisVars, runnerVars, cleanupVars, historyVars
<1>0. TypeOK
  BY DEF QueueInv
<1>1. ASSUME NEW p \in Payloads, QueueWorkflow(p) PROVE TypeOK'
  <2>1. PICK t \in trimmed..published :
              trimmed' = t /\ evicted' = evicted \cup ((lastDelivered + 1)..t)
    BY <1>1 DEF QueueWorkflow
  <2>2. published + 1 \in Msgs /\ published' = published + 1
    BY <1>0, <1>1 DEF QueueWorkflow, Msgs
  <2>3. (lastDelivered + 1)..t \subseteq Msgs
    BY <1>0 DEF Msgs
  <2>4. /\ published' \in 0..MaxMsgs
        /\ trimmed' \in 0..published'
        /\ lastDelivered' \in 0..published'
    BY <1>0, <1>1, <2>1, <2>2 DEF QueueWorkflow, Msgs
  <2>5. payload' \in [Msgs -> Payloads] /\ evicted' \subseteq Msgs
    BY <1>0, <1>1, <2>1, <2>2, <2>3 DEF QueueWorkflow
  <2>6. QED
    BY <1>0, <1>1, <2>4, <2>5 DEF QueueWorkflow
<1>2. ASSUME NEW r \in Runners, CreateConsumerGroup(r) PROVE TypeOK'
  BY <1>0, <1>2 DEF CreateConsumerGroup, Phases, CleanupPhases
<1>3. ASSUME NEW r \in Runners, ListInactiveConsumers(r) PROVE TypeOK'
  <2>1. \A c \in Runners : Cardinality(PendingOf(c)) \in Nat
    BY MsgsFinite DEF PendingOf
  <2>2. todo' \in [Runners -> SUBSET (Runners \X Nat)]
    BY <1>0, <1>3, <2>1 DEF ListInactiveConsumers
  <2>3. QED
    BY <1>0, <1>3, <2>2 DEF ListInactiveConsumers, Phases, CleanupPhases
<1>4. ASSUME NEW r \in Runners, InspectConsumer(r) PROVE TypeOK'
  <2> PICK entry \in todo[r] :
        LET found == IF entry[2] > 0 THEN OldestPending(entry[1], entry[2]) ELSE {}
        IN  /\ todo' = [todo EXCEPT ![r] = @ \ {entry}]
            /\ target' = [target EXCEPT ![r] = entry[1]]
            /\ ids' = [ids EXCEPT ![r] = found]
            /\ phase' = [phase EXCEPT
                           ![r] = IF found = {} THEN "delete" ELSE "claim"]
    BY <1>4 DEF InspectConsumer
  <2>1. OldestPending(entry[1], entry[2]) \subseteq Msgs
    BY DEF OldestPending, PendingOf
  <2>2. entry[1] \in Runners
    BY <1>0
  <2>3. QED
    BY <1>0, <1>4, <2>1, <2>2 DEF InspectConsumer, Phases, CleanupPhases
<1>5. ASSUME NEW r \in Runners, ClaimPending(r) PROVE TypeOK'
  BY <1>0, <1>5 DEF ClaimPending, Phases, CleanupPhases
<1>6. ASSUME NEW r \in Runners, AckClaimed(r) PROVE TypeOK'
  BY <1>0, <1>6 DEF AckClaimed, Phases, CleanupPhases
<1>7. ASSUME NEW r \in Runners, DeleteConsumer(r) PROVE TypeOK'
  BY <1>0, <1>7 DEF DeleteConsumer, PendingOf, Phases, CleanupPhases
<1>8. ASSUME NEW r \in Runners, CleanupDone(r) PROVE TypeOK'
  BY <1>0, <1>8 DEF CleanupDone, Phases, CleanupPhases
<1>9. ASSUME NEW r \in Runners, ReadMessages(r) PROVE TypeOK'
  <2>1. MaxParallelJobs - activeJobs[r] \in 0..MaxParallelJobs
    BY <1>0, <1>9 DEF ReadMessages
  <2>2. QED
    BY <1>0, <1>9, <2>1 DEF ReadMessages, Phases
<1>10. ASSUME NEW r \in Runners, ServeRead(r) PROVE TypeOK'
  <2>1. LastOf(readCount[r]) \in 0..published
    BY <1>0, <1>10 DEF ServeRead, LastOf, Gone
  <2>2. (Gone + 1)..LastOf(readCount[r]) \subseteq Msgs
    BY <1>0, <2>1 DEF Gone, Msgs
  <2>3. QED
    BY <1>0, <1>10, <2>1, <2>2 DEF ServeRead, Phases
<1>11. ASSUME NEW r \in Runners, ProcessMessages(r) PROVE TypeOK'
  <2>1. \A m \in Msgs : FirstAwait(m) \in JobStates
    BY <1>0 DEF FirstAwait, JobStates, Payloads
  <2>2. Cardinality(inbox[r]) \in Nat
    BY <1>0, MsgsFinite
  <2>3. jobs' \in [Runners -> [Msgs -> JobStates]]
    BY <1>0, <1>11, <2>1 DEF ProcessMessages
  <2>4. QED
    BY <1>0, <1>11, <2>2, <2>3 DEF ProcessMessages, Phases
<1>12. ASSUME NEW r \in Runners, NEW m \in Msgs, HandlerReturns(r, m) PROVE TypeOK'
  BY <1>0, <1>12 DEF HandlerReturns, JobStates
<1>13. ASSUME NEW r \in Runners, NEW m \in Msgs, AcknowledgeMessage(r, m)
       PROVE TypeOK'
  BY <1>0, <1>13 DEF AcknowledgeMessage, JobStates
<1>14. ASSUME NEW r \in Runners, NEW m \in Msgs, ReleaseSlot(r, m) PROVE TypeOK'
  <2>1. InFlight(r) # {} /\ InFlight(r) \in SUBSET Msgs
    BY <1>14 DEF ReleaseSlot, InFlight
  <2>2. activeJobs[r] - 1 \in Nat
    BY <1>0, <2>1, MsgsFinite, FS_EmptySet DEF QueueInv, SlotInv
  <2>3. QED
    BY <1>0, <1>14, <2>2 DEF ReleaseSlot, JobStates
<1>15. ASSUME NEW r \in Runners, ReplyLost(r) PROVE TypeOK'
  <2>1. Cardinality(Doomed) \in Nat
    BY RunnersAssumption, FS_Subset, FS_CardinalityType DEF Doomed
  <2>2. lostReplies' \in 0..MaxFaults
    BY <1>0, <1>15, <2>1 DEF ReplyLost, FaultsLeft
  <2>3. QED
    BY <1>0, <1>15, <2>2 DEF ReplyLost, Phases
<1>16. ASSUME NEW r \in Runners, Signal(r) PROVE TypeOK'
  BY <1>0, <1>16 DEF Signal
<1>17. ASSUME NEW r \in Runners, NEW how \in DeadPhases, Die(r, how) PROVE TypeOK'
  BY <1>0, <1>17 DEF Die, JobStates, Phases
<1>18. CASE UNCHANGED vars
  BY <1>0, <1>18 DEF vars
<1>19. QED
  BY <1>1, <1>2, <1>3, <1>4, <1>5, <1>6, <1>7, <1>8, <1>9, <1>10, <1>11, <1>12,
     <1>13, <1>14, <1>15, <1>16, <1>17, <1>18
     DEF Next, Initialize, Consume, Job, Crash, Exit, DeadPhases

-----------------------------------------------------------------------------
(* Where the slots and the deliveries come from.                           *)

\* Steps that touch no slot, no reply, no job and no delivery.
Quiet == UNCHANGED <<lastDelivered, readCount, inbox, activeJobs, jobs, starts>>

LEMMA QuietSteps ==
    ASSUME NEW r \in Runners, Initialize(r) \/ Signal(r), ~CreateConsumerGroup(r)
    PROVE  Quiet
BY DEF Initialize, ListInactiveConsumers, InspectConsumer, ClaimPending,
       AckClaimed, DeleteConsumer, CleanupDone, Signal, Quiet,
       redisVars, runnerVars, cleanupVars, historyVars

(* A second creation of the group does not move the last-delivered-id.     *)
LEMMA GroupStep == QueueInv /\ [Next]_vars => GroupInv'
<1> SUFFICES ASSUME QueueInv, [Next]_vars PROVE GroupInv'
  OBVIOUS
<1> USE DEF redisVars, runnerVars, cleanupVars, historyVars
<1>0. TypeOK /\ GroupInv
  BY DEF QueueInv
<1>1. ASSUME NEW p \in Payloads, QueueWorkflow(p) PROVE GroupInv'
  BY <1>0, <1>1 DEF QueueWorkflow, GroupInv
<1>2. ASSUME NEW r \in Runners, CreateConsumerGroup(r) PROVE GroupInv'
  BY <1>0, <1>2 DEF CreateConsumerGroup, GroupInv
<1>3. ASSUME NEW r \in Runners,
             \/ ListInactiveConsumers(r) \/ InspectConsumer(r) \/ ClaimPending(r)
             \/ AckClaimed(r) \/ DeleteConsumer(r) \/ CleanupDone(r)
             \/ ReadMessages(r) \/ ServeRead(r) \/ ProcessMessages(r)
             \/ ReplyLost(r) \/ Crash(r) \/ Exit(r)
      PROVE  GroupInv'
  <2>1. phase[r] # "off" /\ group' = group
    BY <1>3 DEF ListInactiveConsumers, InspectConsumer, ClaimPending, AckClaimed,
                DeleteConsumer, CleanupDone, ReadMessages, ServeRead,
                ProcessMessages, ReplyLost, Crash, Exit, Die, Alive, CleanupPhases
  <2>2. QED
    BY <1>0, <2>1 DEF GroupInv
<1>4. ASSUME NEW r \in Runners, Signal(r) \/ \E m \in Msgs : Job(r, m)
      PROVE  GroupInv'
  BY <1>0, <1>4 DEF Signal, Job, HandlerReturns, AcknowledgeMessage, ReleaseSlot,
                    GroupInv
<1>5. CASE UNCHANGED vars
  BY <1>0, <1>5 DEF vars, GroupInv
<1>6. QED
  BY <1>1, <1>2, <1>3, <1>4, <1>5 DEF Next, Initialize, Consume

(* A reply is the only thing that carries messages to a runner.            *)
LEMMA ReplyStep == QueueInv /\ [Next]_vars => ReplyInv'
<1> SUFFICES ASSUME QueueInv, [Next]_vars PROVE ReplyInv'
  OBVIOUS
<1> USE DEF redisVars, runnerVars, cleanupVars, historyVars
<1>0. TypeOK /\ ReplyInv
  BY DEF QueueInv
<1>1. ASSUME NEW r \in Runners,
             \/ CreateConsumerGroup(r) \/ ListInactiveConsumers(r)
             \/ InspectConsumer(r) \/ ClaimPending(r) \/ AckClaimed(r)
             \/ DeleteConsumer(r) \/ CleanupDone(r) \/ ReadMessages(r)
      PROVE  ReplyInv'
  <2>1. /\ phase[r] # "reply"
        /\ inbox' = inbox
        /\ \A q \in Runners \ {r} : phase'[q] = phase[q]
    BY <1>0, <1>1
       DEF CreateConsumerGroup, ListInactiveConsumers, InspectConsumer, ClaimPending,
           AckClaimed, DeleteConsumer, CleanupDone, ReadMessages, CleanupPhases, TypeOK
  <2>2. QED
    BY <1>0, <2>1 DEF ReplyInv
<1>2. ASSUME NEW r \in Runners,
             ServeRead(r) \/ ProcessMessages(r) \/ ReplyLost(r) \/ Crash(r) \/ Exit(r)
      PROVE  ReplyInv'
  <2>1. /\ phase'[r] = "reply" \/ inbox'[r] = {}
        /\ \A q \in Runners \ {r} : phase'[q] = phase[q] /\ inbox'[q] = inbox[q]
    BY <1>0, <1>2 DEF ServeRead, ProcessMessages, ReplyLost, Crash, Exit, Die, TypeOK
  <2>2. QED
    BY <1>0, <2>1 DEF ReplyInv
<1>3. ASSUME \/ \E p \in Payloads : QueueWorkflow(p)
             \/ \E r \in Runners : Signal(r) \/ \E m \in Msgs : Job(r, m)
             \/ UNCHANGED vars
      PROVE  ReplyInv'
  BY <1>0, <1>3 DEF QueueWorkflow, Signal, Job, HandlerReturns, AcknowledgeMessage,
                    ReleaseSlot, ReplyInv, vars
<1>4. QED
  BY <1>1, <1>2, <1>3 DEF Next, Initialize, Consume

-----------------------------------------------------------------------------
(* What a served read delivers: at most n entries, none delivered before.  *)
LEMMA BatchIsNew ==
    ASSUME TypeOK, NEW n \in Nat, Gone < published
    PROVE  /\ (Gone + 1)..LastOf(n) \subseteq Msgs
           /\ LastOf(n) \in lastDelivered..published
           /\ \A m \in (Gone + 1)..LastOf(n) : lastDelivered < m /\ m <= LastOf(n)
           /\ Cardinality((Gone + 1)..LastOf(n)) <= n
<1>1. /\ published \in 0..MaxMsgs
      /\ Gone \in lastDelivered..published
      /\ LastOf(n) \in Gone..published
      /\ LastOf(n) <= Gone + n
      /\ lastDelivered \in Nat
  BY BoundsAssumption DEF TypeOK, Gone, LastOf
<1>2. Gone \in Nat /\ LastOf(n) \in Nat /\ published \in Nat
  BY <1>1, BoundsAssumption
<1>3. Cardinality((Gone + 1)..LastOf(n)) <= n
  <2>1. Cardinality((Gone + 1)..LastOf(n))
          = IF Gone + 1 > LastOf(n) THEN 0 ELSE LastOf(n) - (Gone + 1) + 1
    <3>1. ASSUME NEW a \in Int, NEW b \in Int
          PROVE  Cardinality(a..b) = IF a > b THEN 0 ELSE b - a + 1
      BY FS_Interval
    <3>2. Gone + 1 \in Int /\ LastOf(n) \in Int
      BY <1>2
    <3>3. QED
      BY <3>1, <3>2
  <2>2. QED
    BY <1>1, <1>2, <2>1
<1>4. QED
  BY <1>1, <1>2, <1>3, BoundsAssumption DEF Msgs

(* COUNT and the jobs in flight share the slots: what a step does to one   *)
(* runner keeps its books, and it leaves the other runners' alone.         *)
LEMMA SlotStep == QueueInv /\ [Next]_vars => SlotInv'
<1> SUFFICES ASSUME QueueInv, [Next]_vars PROVE SlotInv'
  OBVIOUS
<1> USE SlotsAssumption
<1> USE DEF redisVars, runnerVars, cleanupVars, historyVars
<1> DEFINE Books(q) == /\ activeJobs[q] = Cardinality(InFlight(q))
                       /\ activeJobs[q] + readCount[q] <= MaxParallelJobs
                       /\ Cardinality(inbox[q]) <= readCount[q]
           Others(r) == \A q \in Runners \ {r} :
                           /\ activeJobs'[q] = activeJobs[q]
                           /\ jobs'[q] = jobs[q]
                           /\ readCount'[q] = readCount[q]
                           /\ inbox'[q] = inbox[q]
<1>0. TypeOK /\ ReplyInv /\ DeliveryInv /\ \A q \in Runners : Books(q)
  BY DEF QueueInv, SlotInv
<1>a. ASSUME NEW r \in Runners, Others(r), Books(r)' PROVE SlotInv'
  <2>1. ASSUME NEW q \in Runners \ {r} PROVE Books(q)'
    <3>1. InFlight(q)' = InFlight(q)
      BY <1>a DEF InFlight
    <3>2. QED
      BY <1>0, <1>a, <3>1
  <2>2. QED
    BY <1>a, <2>1 DEF SlotInv
<1>b. ASSUME UNCHANGED <<readCount, inbox, activeJobs, jobs>> PROVE SlotInv'
  BY <1>0, <1>b DEF SlotInv, InFlight
<1>1. ASSUME NEW r \in Runners, ReadMessages(r) PROVE SlotInv'
  <2>1. inbox[r] = {} /\ Cardinality({}) = 0
    BY <1>0, <1>1, FS_EmptySet DEF ReadMessages, ReplyInv
  <2>2. /\ readCount'[r] = MaxParallelJobs - activeJobs[r]
        /\ activeJobs' = activeJobs /\ jobs' = jobs /\ inbox' = inbox
        /\ activeJobs[r] \in Nat /\ activeJobs[r] < MaxParallelJobs
        /\ Others(r)
    BY <1>0, <1>1 DEF ReadMessages, TypeOK
  <2>3. InFlight(r)' = InFlight(r)
    BY <2>2 DEF InFlight
  <2>4. Books(r)'
    <3>1. Cardinality(inbox'[r]) = 0
      BY <2>1, <2>2
    <3>2. activeJobs'[r] + readCount'[r] <= MaxParallelJobs /\ 0 <= readCount'[r]
      BY <2>2
    <3>3. QED
      BY <1>0, <2>2, <2>3, <3>1, <3>2
  <2>5. QED
    BY <1>a, <2>2, <2>4
<1>2. ASSUME NEW r \in Runners, ServeRead(r) PROVE SlotInv'
  <2>1. readCount[r] \in Nat
    BY <1>0 DEF TypeOK
  <2>2. /\ inbox'[r] = (Gone + 1)..LastOf(readCount[r])
        /\ activeJobs' = activeJobs /\ jobs' = jobs /\ readCount' = readCount
        /\ Gone < published
        /\ Others(r)
    BY <1>0, <1>2 DEF ServeRead, TypeOK
  <2>3. Cardinality(inbox'[r]) <= readCount[r]
    BY <1>0, <2>1, <2>2, BatchIsNew
  <2>4. InFlight(r)' = InFlight(r)
    BY <2>2 DEF InFlight
  <2>5. QED
    BY <1>0, <1>a, <2>2, <2>3, <2>4
<1>3. ASSUME NEW r \in Runners, ProcessMessages(r) PROVE SlotInv'
  <2>1. /\ activeJobs'[r] = activeJobs[r] + Cardinality(inbox[r])
        /\ readCount'[r] = 0
        /\ inbox'[r] = {}
        /\ Others(r)
    BY <1>0, <1>3 DEF ProcessMessages, TypeOK
  <2>2. InFlight(r)' = InFlight(r) \cup inbox[r]
    <3>1. \A m \in Msgs : FirstAwait(m) # "none"
      BY <1>0 DEF FirstAwait, TypeOK, Payloads
    <3>2. \A m \in Msgs : jobs'[r][m] = IF m \in inbox[r] THEN FirstAwait(m)
                                        ELSE jobs[r][m]
      BY <1>0, <1>3 DEF ProcessMessages, TypeOK
    <3>3. inbox[r] \subseteq Msgs
      BY <1>0 DEF TypeOK
    <3>4. QED
      BY <3>1, <3>2, <3>3 DEF InFlight
  <2>3. InFlight(r) \cap inbox[r] = {}
    BY <1>0 DEF InFlight, DeliveryInv
  <2>4. InFlight(r) \in SUBSET Msgs /\ inbox[r] \in SUBSET Msgs
    BY <1>0 DEF InFlight, TypeOK
  <2>5. Cardinality(InFlight(r)') = Cardinality(InFlight(r)) + Cardinality(inbox[r])
    <3>1. /\ IsFiniteSet(InFlight(r)) /\ Cardinality(InFlight(r)) \in Nat
          /\ IsFiniteSet(inbox[r]) /\ Cardinality(inbox[r]) \in Nat
      BY <2>4, MsgsFinite
    <3>2. QED
      <4>1. Cardinality(InFlight(r) \cup inbox[r])
              = Cardinality(InFlight(r)) + Cardinality(inbox[r])
                  - Cardinality(InFlight(r) \cap inbox[r])
        BY <3>1, FS_Union
      <4>2. Cardinality(InFlight(r) \cap inbox[r]) = 0
        BY <2>3, FS_EmptySet
      <4>3. QED
        BY <2>2, <3>1, <4>1, <4>2
  <2>6. /\ activeJobs[r] \in Nat /\ readCount[r] \in Nat
        /\ Cardinality(inbox[r]) \in Nat
    BY <1>0, <2>4, MsgsFinite DEF TypeOK
  <2>7. Books(r)'
    BY <1>0, <2>1, <2>5, <2>6, FS_EmptySet
  <2>8. QED
    BY <1>a, <2>1, <2>7
<1>4. ASSUME NEW r \in Runners, NEW m \in Msgs,
             HandlerReturns(r, m) \/ AcknowledgeMessage(r, m)
      PROVE  SlotInv'
  <2>1. /\ activeJobs' = activeJobs /\ readCount' = readCount /\ inbox' = inbox
        /\ jobs[r][m] # "none" /\ jobs'[r][m] # "none"
        /\ \A k \in Msgs \ {m} : jobs'[r][k] = jobs[r][k]
        /\ Others(r)
    BY <1>0, <1>4 DEF HandlerReturns, AcknowledgeMessage, TypeOK
  <2>2. InFlight(r)' = InFlight(r)
    BY <2>1 DEF InFlight
  <2>3. QED
    BY <1>0, <1>a, <2>1, <2>2
<1>5. ASSUME NEW r \in Runners, NEW m \in Msgs, ReleaseSlot(r, m) PROVE SlotInv'
  <2>1. /\ activeJobs'[r] = activeJobs[r] - 1
        /\ readCount' = readCount /\ inbox' = inbox
        /\ jobs[r][m] # "none" /\ jobs'[r][m] = "none"
        /\ \A k \in Msgs \ {m} : jobs'[r][k] = jobs[r][k]
        /\ Others(r)
    BY <1>0, <1>5 DEF ReleaseSlot, TypeOK
  <2>2. InFlight(r)' = InFlight(r) \ {m} /\ m \in InFlight(r)
    BY <2>1 DEF InFlight
  <2>3. Cardinality(InFlight(r)') = Cardinality(InFlight(r)) - 1
    <3>1. IsFiniteSet(InFlight(r))
      BY MsgsFinite DEF InFlight
    <3>2. QED
      BY <2>2, <3>1, FS_RemoveElement
  <2>4. activeJobs[r] \in Nat /\ readCount[r] \in Nat
    BY <1>0 DEF TypeOK
  <2>5. QED
    BY <1>0, <1>a, <2>1, <2>3, <2>4
<1>6. ASSUME NEW r \in Runners, ReplyLost(r) PROVE SlotInv'
  <2>1. /\ inbox'[r] = {}
        /\ activeJobs' = activeJobs /\ jobs' = jobs /\ readCount' = readCount
        /\ readCount[r] \in Nat
        /\ Others(r)
    BY <1>0, <1>6 DEF ReplyLost, TypeOK
  <2>2. InFlight(r)' = InFlight(r)
    BY <2>1 DEF InFlight
  <2>3. Cardinality(inbox'[r]) = 0
    BY <2>1, FS_EmptySet
  <2>4. QED
    BY <1>0, <1>a, <2>1, <2>2, <2>3
<1>7. ASSUME NEW r \in Runners, NEW how \in DeadPhases, Die(r, how) PROVE SlotInv'
  <2>1. /\ inbox'[r] = {} /\ activeJobs'[r] = 0 /\ readCount'[r] = 0
        /\ \A m \in Msgs : jobs'[r][m] = "none"
        /\ Others(r)
    BY <1>0, <1>7 DEF Die, TypeOK
  <2>2. InFlight(r)' = {}
    BY <2>1 DEF InFlight
  <2>3. Cardinality(inbox'[r]) = 0 /\ Cardinality(InFlight(r)') = 0
    BY <2>1, <2>2, FS_EmptySet
  <2>4. Books(r)'
    BY <2>1, <2>3
  <2>5. QED
    BY <1>a, <2>1, <2>4
<1>8. ASSUME \/ \E p \in Payloads : QueueWorkflow(p)
             \/ \E r \in Runners : Initialize(r) \/ Signal(r)
             \/ UNCHANGED vars
      PROVE  SlotInv'
  BY <1>b, <1>8, QuietSteps DEF Quiet, QueueWorkflow, CreateConsumerGroup, vars
<1>9. QED
  BY <1>1, <1>2, <1>3, <1>4, <1>5, <1>6, <1>7, <1>8
     DEF Next, Consume, Job, Crash, Exit, DeadPhases

(* Steps that deliver nothing, start nothing and put nothing in flight     *)
(* keep DeliveryInv.                                                       *)
LEMMA DeliveryShrinks ==
    ASSUME TypeOK, DeliveryInv,
           lastDelivered' = lastDelivered, starts' = starts,
           \A r \in Runners : inbox'[r] \subseteq inbox[r],
           \A r \in Runners, m \in Msgs : jobs[r][m] = "none" => jobs'[r][m] = "none"
    PROVE  DeliveryInv'
<1>1. \A m \in Msgs : m > lastDelivered' => starts'[m] = 0
  BY DEF DeliveryInv
<1>2. \A r \in Runners, m \in Msgs : jobs'[r][m] # "none" => m <= lastDelivered'
  BY DEF DeliveryInv
<1>3. ASSUME NEW r \in Runners, NEW m \in inbox'[r]
      PROVE  /\ m <= lastDelivered'
             /\ starts'[m] = 0
             /\ \A q \in Runners : jobs'[q][m] = "none"
             /\ \A q \in Runners \ {r} : m \notin inbox'[q]
  <2>1. m \in inbox[r] /\ m \in Msgs
    BY <1>3 DEF TypeOK
  <2>2. QED
    BY <2>1 DEF DeliveryInv
<1>4. QED
  BY <1>1, <1>2, <1>3 DEF DeliveryInv

LEMMA DeliveryStep == QueueInv /\ [Next]_vars => DeliveryInv'
<1> SUFFICES ASSUME QueueInv, [Next]_vars PROVE DeliveryInv'
  OBVIOUS
<1> USE DEF redisVars, runnerVars, cleanupVars, historyVars
<1>0. TypeOK /\ GroupInv /\ ReplyInv /\ DeliveryInv
  BY DEF QueueInv
<1>1. ASSUME Quiet PROVE DeliveryInv'
  BY <1>0, <1>1, DeliveryShrinks DEF Quiet
<1>2. ASSUME NEW r \in Runners, CreateConsumerGroup(r) PROVE DeliveryInv'
  <2>1. Quiet
    BY <1>0, <1>2 DEF CreateConsumerGroup, GroupInv, Quiet
  <2>2. QED
    BY <1>1, <2>1
<1>3. ASSUME NEW r \in Runners, ReadMessages(r) PROVE DeliveryInv'
  BY <1>0, <1>3, DeliveryShrinks DEF ReadMessages
<1>4. ASSUME NEW r \in Runners, ServeRead(r) PROVE DeliveryInv'
  <2> DEFINE n == readCount[r]
             batch == (Gone + 1)..LastOf(n)
  <2>1. n \in Nat /\ Gone < published /\ lastDelivered \in Nat /\ published \in Nat
    BY <1>0, <1>4, BoundsAssumption DEF ServeRead, TypeOK
  <2>2. /\ batch \subseteq Msgs
        /\ LastOf(n) \in lastDelivered..published
        /\ \A m \in batch : lastDelivered < m /\ m <= LastOf(n)
    BY <1>0, <2>1, BatchIsNew
  <2>3. /\ lastDelivered' = LastOf(n) /\ starts' = starts /\ jobs' = jobs
        /\ inbox'[r] = batch
        /\ \A q \in Runners \ {r} : inbox'[q] = inbox[q]
    BY <1>0, <1>4 DEF ServeRead, TypeOK
  <2> HIDE DEF n, batch
  <2>4. LastOf(n) \in Int /\ lastDelivered <= LastOf(n)
    BY <2>1, <2>2
  <2>5. \A m \in Msgs : m \in Int
    BY DEF Msgs
  <2>6. \A m \in Msgs : m > lastDelivered' => starts'[m] = 0
    BY <1>0, <2>1, <2>3, <2>4, <2>5 DEF DeliveryInv
  <2>7. \A q \in Runners, m \in Msgs : jobs'[q][m] # "none" => m <= lastDelivered'
    BY <1>0, <2>1, <2>3, <2>4, <2>5 DEF DeliveryInv
  <2>8. \A m \in batch : /\ starts[m] = 0
                         /\ \A q \in Runners : jobs[q][m] = "none" /\ m \notin inbox[q]
    BY <1>0, <2>1, <2>2, <2>5 DEF DeliveryInv
  <2>9. \A q \in Runners : \A m \in inbox[q] : m \in Msgs /\ m <= lastDelivered
    BY <1>0 DEF DeliveryInv, TypeOK
  <2>10. ASSUME NEW q \in Runners, NEW m \in inbox'[q]
         PROVE  /\ m <= lastDelivered'
                /\ starts'[m] = 0
                /\ \A s \in Runners : jobs'[s][m] = "none"
                /\ \A s \in Runners \ {q} : m \notin inbox'[s]
    <3>1. CASE q = r
      BY <3>1, <2>2, <2>3, <2>8, <2>10
    <3>2. CASE q # r
      <4>1. m \in inbox[q] /\ m \in Msgs /\ m <= lastDelivered
        BY <3>2, <2>3, <2>9, <2>10
      <4>2. m \notin batch
        BY <4>1, <2>8
      <4>3. m <= lastDelivered'
        BY <4>1, <2>1, <2>3, <2>4, <2>5
      <4>4. QED
        BY <1>0, <4>1, <4>2, <4>3, <2>3 DEF DeliveryInv
    <3>3. QED
      BY <3>1, <3>2
  <2>11. QED
    BY <2>6, <2>7, <2>10 DEF DeliveryInv
<1>5. ASSUME NEW r \in Runners, ProcessMessages(r) PROVE DeliveryInv'
  <2>1. /\ lastDelivered' = lastDelivered
        /\ \A m \in Msgs : m \notin inbox[r] => starts'[m] = starts[m]
        /\ \A m \in Msgs : m \notin inbox[r] => jobs'[r][m] = jobs[r][m]
        /\ \A q \in Runners \ {r} : jobs'[q] = jobs[q] /\ inbox'[q] = inbox[q]
        /\ inbox'[r] = {}
    BY <1>0, <1>5 DEF ProcessMessages, TypeOK
  <2>2. \A m \in inbox[r] : m \in Msgs /\ m <= lastDelivered
    BY <1>0 DEF DeliveryInv, TypeOK
  <2>3. lastDelivered \in Int /\ \A m \in Msgs : m \in Int
    BY <1>0, BoundsAssumption DEF TypeOK, Msgs
  <2>4. \A m \in Msgs : m > lastDelivered' => starts'[m] = 0
    BY <1>0, <2>1, <2>2, <2>3 DEF DeliveryInv
  <2>5. \A q \in Runners, m \in Msgs : jobs'[q][m] # "none" => m <= lastDelivered'
    BY <1>0, <2>1, <2>2, <2>3 DEF DeliveryInv
  <2>6. ASSUME NEW q \in Runners, NEW m \in inbox'[q]
        PROVE  /\ m <= lastDelivered'
               /\ starts'[m] = 0
               /\ \A s \in Runners : jobs'[s][m] = "none"
               /\ \A s \in Runners \ {q} : m \notin inbox'[s]
    <3>1. q # r /\ m \in inbox[q] /\ m \in Msgs
      BY <1>0, <2>1, <2>6 DEF TypeOK
    <3>2. m \notin inbox[r]
      BY <1>0, <3>1 DEF DeliveryInv
    <3>3. QED
      BY <1>0, <2>1, <3>1, <3>2 DEF DeliveryInv
  <2>7. QED
    BY <2>4, <2>5, <2>6 DEF DeliveryInv
<1>6. ASSUME NEW r \in Runners, NEW m \in Msgs, Job(r, m) PROVE DeliveryInv'
  <2>1. /\ lastDelivered' = lastDelivered /\ starts' = starts /\ inbox' = inbox
        /\ jobs[r][m] # "none"
        /\ \A k \in Msgs \ {m} : jobs'[r][k] = jobs[r][k]
        /\ \A q \in Runners \ {r} : jobs'[q] = jobs[q]
    BY <1>0, <1>6
       DEF Job, HandlerReturns, AcknowledgeMessage, ReleaseSlot, TypeOK
  <2>2. QED
    BY <1>0, <2>1, DeliveryShrinks
<1>7. ASSUME NEW r \in Runners, ReplyLost(r) PROVE DeliveryInv'
  BY <1>0, <1>7, DeliveryShrinks DEF ReplyLost, TypeOK
<1>8. ASSUME NEW r \in Runners, NEW how \in DeadPhases, Die(r, how) PROVE DeliveryInv'
  BY <1>0, <1>8, DeliveryShrinks DEF Die, TypeOK
<1>9. ASSUME \/ \E p \in Payloads : QueueWorkflow(p)
             \/ \E r \in Runners : Initialize(r) \/ Signal(r)
             \/ UNCHANGED vars
      PROVE  DeliveryInv'
  BY <1>1, <1>2, <1>9, QuietSteps DEF Quiet, QueueWorkflow, vars
<1>10. QED
  BY <1>3, <1>4, <1>5, <1>6, <1>7, <1>8, <1>9
     DEF Next, Consume, Crash, Exit, DeadPhases

(* Only ProcessMessages starts handlers, and only for what was never       *)
(* started before.                                                         *)
LEMMA AtMostOnceStep == QueueInv /\ [Next]_vars => AtMostOnce'
<1> SUFFICES ASSUME QueueInv, [Next]_vars PROVE AtMostOnce'
  OBVIOUS
<1> USE DEF redisVars, runnerVars, cleanupVars, historyVars
<1>0. TypeOK /\ DeliveryInv /\ AtMostOnce
  BY DEF QueueInv
<1>1. ASSUME NEW r \in Runners, ProcessMessages(r) PROVE AtMostOnce'
  <2>1. \A m \in Msgs : \/ m \in inbox[r] /\ starts'[m] \in {starts[m], starts[m] + 1}
                        \/ starts'[m] = starts[m]
    BY <1>0, <1>1 DEF ProcessMessages
  <2>2. \A m \in inbox[r] : starts[m] = 0
    BY <1>0 DEF DeliveryInv
  <2>3. QED
    BY <1>0, <2>1, <2>2 DEF AtMostOnce
<1>2. ASSUME starts' = starts PROVE AtMostOnce'
  BY <1>0, <1>2 DEF AtMostOnce
<1>3. ASSUME \/ \E p \in Payloads : QueueWorkflow(p)
             \/ UNCHANGED vars
             \/ \E r \in Runners :
                   \/ CreateConsumerGroup(r) \/ Initialize(r) \/ ReadMessages(r)
                   \/ ServeRead(r) \/ ReplyLost(r) \/ Crash(r) \/ Signal(r) \/ Exit(r)
                   \/ \E m \in Msgs : Job(r, m)
      PROVE  starts' = starts
  BY <1>3, QuietSteps
     DEF Quiet, QueueWorkflow, vars, CreateConsumerGroup, ReadMessages, ServeRead,
         ReplyLost, Crash, Exit, Die, Job, HandlerReturns, AcknowledgeMessage,
         ReleaseSlot
<1>4. QED
  BY <1>1, <1>2, <1>3 DEF Next, Consume

-----------------------------------------------------------------------------
(* The conjunction is inductive.                                           *)
THEOREM Inductive == Spec => []QueueInv
<1>1. QueueInv /\ [Next]_vars => QueueInv'
  BY TypeStep, GroupStep, ReplyStep, SlotStep, DeliveryStep, AtMostOnceStep
     DEF QueueInv
<1>2. QED
  BY InitQueueInv, <1>1, PTL DEF Spec

(* Every variable keeps its type, whatever the runners, Redis and the      *)
(* backend do.                                                             *)
THEOREM TypeCorrect == Spec => []TypeOK
<1>1. QueueInv => TypeOK
  BY DEF QueueInv
<1>2. QED
  BY Inductive, <1>1, PTL

(* redis-queue-consumer.ts:130-183: for any number of runners, slots,      *)
(* messages, crashes and lost replies, activeJobs counts the               *)
(* processMessage calls in flight and stays within MAX_PARALLEL_JOBS.      *)
THEOREM SlotsRespected == Spec => []SlotAccounting
<1>1. QueueInv => SlotAccounting
  BY SlotsAssumption DEF QueueInv, TypeOK, SlotInv, SlotAccounting
<1>2. QED
  BY Inductive, <1>1, PTL

(* redis-queue-consumer.ts:141-205: no message is handed to a handler      *)
(* twice, for any number of runners, cleanups, crashes and lost replies.   *)
THEOREM NeverHandledTwice == Spec => []AtMostOnce
<1>1. QueueInv => AtMostOnce
  BY DEF QueueInv
<1>2. QED
  BY Inductive, <1>1, PTL

-----------------------------------------------------------------------------
(* What becomes of a delivered message.                                    *)
LEMMA InitMessagesInv == Init => MessagesInv
<1> SUFFICES ASSUME Init PROVE MessagesInv
  OBVIOUS
<1>1. EvictedInv
  BY DEF Init, EvictedInv, Msgs
<1>2. FinishInv
  BY DEF Init, FinishInv
<1>3. 1..lastDelivered = {}
  BY DEF Init
<1>4. QED
  BY <1>1, <1>2, <1>3 DEF MessagesInv, Accounted, PendingUntilHandled

(* A delivered message keeps its payload, and the marks left on it.        *)
LEMMA MarksStay ==
    ASSUME QueueInv, [Next]_vars, NEW m \in Msgs
    PROVE  /\ m <= lastDelivered /\ Unusable(m) => Unusable(m)'
           /\ m \in finished => m \in finished'
           /\ m \in evicted => m \in evicted'
           /\ m \in stolen => m \in stolen'
           /\ m \in abandoned => m \in abandoned'
<1> USE DEF redisVars, runnerVars, cleanupVars, historyVars
<1>0. TypeOK /\ lastDelivered \in Int /\ published \in Int /\ m \in Int
         /\ lastDelivered <= published
  BY BoundsAssumption DEF QueueInv, TypeOK, Msgs
<1>1. ASSUME NEW p \in Payloads, QueueWorkflow(p)
      PROVE  /\ m <= lastDelivered /\ Unusable(m) => Unusable(m)'
             /\ finished' = finished /\ stolen' = stolen /\ abandoned' = abandoned
             /\ evicted \subseteq evicted'
  BY <1>0, <1>1 DEF QueueWorkflow, Unusable, TypeOK
<1>2. ASSUME \/ \E r \in Runners :
                   \/ Initialize(r) \/ Consume(r) \/ ReplyLost(r) \/ Signal(r)
                   \/ \E how \in DeadPhases : Die(r, how)
                   \/ \E k \in Msgs : Job(r, k)
             \/ UNCHANGED vars
      PROVE  /\ payload' = payload /\ evicted' = evicted
             /\ finished \subseteq finished' /\ stolen \subseteq stolen'
             /\ abandoned \subseteq abandoned'
  BY <1>2
     DEF vars, Initialize, CreateConsumerGroup, ListInactiveConsumers, InspectConsumer,
         ClaimPending, AckClaimed, DeleteConsumer, CleanupDone, Consume, ReadMessages,
         ServeRead, ProcessMessages, ReplyLost, Die, Signal, Job, HandlerReturns,
         AcknowledgeMessage, ReleaseSlot
<1>3. \/ \E p \in Payloads : QueueWorkflow(p)
      \/ \E r \in Runners :
            \/ Initialize(r) \/ Consume(r) \/ ReplyLost(r) \/ Signal(r)
            \/ \E how \in DeadPhases : Die(r, how)
            \/ \E k \in Msgs : Job(r, k)
      \/ UNCHANGED vars
  BY DEF Next, Crash, Exit, DeadPhases
<1>4. QED
  BY <1>1, <1>2, <1>3 DEF Unusable

(* MAXLEN is the only way past the cursor without a delivery.              *)
LEMMA EvictedStep == QueueInv /\ MessagesInv /\ [Next]_vars => EvictedInv'
<1> SUFFICES ASSUME QueueInv, MessagesInv, [Next]_vars PROVE EvictedInv'
  OBVIOUS
<1> USE DEF redisVars, runnerVars, cleanupVars, historyVars
<1>0. /\ TypeOK /\ GroupInv /\ EvictedInv
      /\ lastDelivered \in Int /\ published \in Int /\ trimmed \in Int
      /\ 0 <= lastDelivered /\ \A m \in Msgs : m \in Int
  BY BoundsAssumption DEF QueueInv, MessagesInv, TypeOK, Msgs
<1>1. ASSUME NEW p \in Payloads, QueueWorkflow(p) PROVE EvictedInv'
  <2>1. /\ lastDelivered' = lastDelivered /\ trimmed' \in Int
        /\ evicted' = evicted \cup ((lastDelivered + 1)..trimmed')
    BY <1>0, <1>1 DEF QueueWorkflow
  <2>2. QED
    BY <1>0, <2>1 DEF EvictedInv
<1>2. ASSUME NEW r \in Runners, ServeRead(r) PROVE EvictedInv'
  <2>1. readCount[r] \in Int /\ 0 <= readCount[r]
    BY <1>0, SlotsAssumption DEF TypeOK
  <2>2. /\ trimmed' = trimmed /\ evicted' = evicted
        /\ lastDelivered' \in Int /\ lastDelivered <= lastDelivered'
    BY <1>0, <1>2, <2>1 DEF ServeRead, LastOf, Gone
  <2>3. QED
    BY <1>0, <2>2 DEF EvictedInv
<1>3. ASSUME NEW r \in Runners, CreateConsumerGroup(r) PROVE EvictedInv'
  <2>1. lastDelivered' = lastDelivered /\ trimmed' = trimmed /\ evicted' = evicted
    BY <1>0, <1>3 DEF CreateConsumerGroup, GroupInv
  <2>2. QED
    BY <1>0, <2>1 DEF EvictedInv
<1>4. ASSUME \/ \E r \in Runners :
                   \/ ListInactiveConsumers(r) \/ InspectConsumer(r) \/ ClaimPending(r)
                   \/ AckClaimed(r) \/ DeleteConsumer(r) \/ CleanupDone(r)
                   \/ ReadMessages(r) \/ ProcessMessages(r) \/ ReplyLost(r) \/ Signal(r)
                   \/ \E how \in DeadPhases : Die(r, how)
                   \/ \E k \in Msgs : Job(r, k)
             \/ UNCHANGED vars
      PROVE  lastDelivered' = lastDelivered /\ trimmed' = trimmed /\ evicted' = evicted
  BY <1>4
     DEF vars, ListInactiveConsumers, InspectConsumer, ClaimPending, AckClaimed,
         DeleteConsumer, CleanupDone, ReadMessages, ProcessMessages, ReplyLost, Die,
         Signal, Job, HandlerReturns, AcknowledgeMessage, ReleaseSlot
<1>5. lastDelivered' = lastDelivered /\ trimmed' = trimmed /\ evicted' = evicted
         => EvictedInv'
  BY <1>0 DEF EvictedInv
<1>6. QED
  BY <1>1, <1>2, <1>3, <1>4, <1>5 DEF Next, Initialize, Consume, Crash, Exit, DeadPhases

(* processMessage acknowledges what was handled or cannot be.              *)
LEMMA FinishStep == QueueInv /\ MessagesInv /\ [Next]_vars => FinishInv'
<1> SUFFICES ASSUME QueueInv, MessagesInv, [Next]_vars,
                    NEW q \in Runners, NEW k \in Msgs
             PROVE  /\ jobs'[q][k] = "dropping" => Unusable(k)'
                    /\ jobs'[q][k] \in {"acking", "acked"} =>
                          k \in finished' \/ Unusable(k)'
  BY DEF FinishInv
<1> USE DEF redisVars, runnerVars, cleanupVars, historyVars
<1> DEFINE Settled == /\ jobs'[q][k] = "dropping" => Unusable(k)'
                      /\ jobs'[q][k] \in {"acking", "acked"} =>
                            k \in finished' \/ Unusable(k)'
<1>0. TypeOK /\ TypeOK' /\ DeliveryInv /\ FinishInv
  BY TypeStep DEF QueueInv, MessagesInv
<1>1. /\ jobs[q][k] # "none" => k <= lastDelivered
      /\ k <= lastDelivered /\ Unusable(k) => Unusable(k)'
      /\ k \in finished => k \in finished'
  BY <1>0, MarksStay DEF DeliveryInv
<1>2. jobs'[q][k] \in {jobs[q][k], "none"} => Settled
  BY <1>0, <1>1 DEF FinishInv
<1>3. ASSUME NEW r \in Runners, ProcessMessages(r) PROVE Settled
  <2>1. \/ jobs'[q][k] = jobs[q][k]
        \/ jobs'[q][k] = FirstAwait(k)
    BY <1>0, <1>3 DEF ProcessMessages, TypeOK
  <2>2. /\ payload' = payload /\ payload[k] \in Payloads
    BY <1>0, <1>3 DEF ProcessMessages, TypeOK
  <2>3. CASE jobs'[q][k] = FirstAwait(k)
    BY <2>2, <2>3 DEF FirstAwait, Unusable, Payloads
  <2>4. QED
    BY <1>2, <2>1, <2>3
<1>4. ASSUME NEW r \in Runners, NEW m \in Msgs, Job(r, m) PROVE Settled
  <2>1. CASE q = r /\ k = m
    <3>1. CASE HandlerReturns(r, m)
      BY <1>0, <2>1, <3>1 DEF HandlerReturns, TypeOK
    <3>2. CASE AcknowledgeMessage(r, m)
      <4>1. /\ jobs[q][k] \in {"dropping", "acking"}
            /\ jobs'[q][k] = IF jobs[q][k] = "dropping" THEN "acking" ELSE "acked"
        BY <1>0, <2>1, <3>2 DEF AcknowledgeMessage, TypeOK
      <4>2. QED
        BY <1>0, <1>1, <4>1 DEF FinishInv
    <3>3. CASE ReleaseSlot(r, m)
      BY <1>0, <1>2, <2>1, <3>3 DEF ReleaseSlot, TypeOK
    <3>4. QED
      BY <1>4, <3>1, <3>2, <3>3 DEF Job
  <2>2. CASE ~(q = r /\ k = m)
    BY <1>0, <1>2, <1>4, <2>2
       DEF Job, HandlerReturns, AcknowledgeMessage, ReleaseSlot, TypeOK
  <2>3. QED
    BY <2>1, <2>2
<1>5. ASSUME NEW r \in Runners, NEW how \in DeadPhases, Die(r, how) PROVE Settled
  BY <1>0, <1>2, <1>5 DEF Die, TypeOK
<1>6. ASSUME \/ \E p \in Payloads : QueueWorkflow(p)
             \/ \E r \in Runners :
                   \/ Initialize(r) \/ ReadMessages(r) \/ ServeRead(r)
                   \/ ReplyLost(r) \/ Signal(r)
             \/ UNCHANGED vars
      PROVE  jobs' = jobs
  BY <1>6
     DEF vars, QueueWorkflow, Initialize, CreateConsumerGroup, ListInactiveConsumers,
         InspectConsumer, ClaimPending, AckClaimed, DeleteConsumer, CleanupDone,
         ReadMessages, ServeRead, ReplyLost, Signal
<1>7. QED
  BY <1>2, <1>3, <1>4, <1>5, <1>6 DEF Next, Consume, Crash, Exit, DeadPhases

(* What a read returns is new, or was evicted before it could be read.     *)
LEMMA Delivered ==
    ASSUME QueueInv, MessagesInv, NEW r \in Runners, ServeRead(r),
           NEW m \in 1..lastDelivered'
    PROVE  m \in Msgs /\ (m <= lastDelivered \/ m \in evicted \/ m \in inbox'[r])
<1> USE DEF redisVars, runnerVars, cleanupVars, historyVars
<1>0. /\ TypeOK /\ EvictedInv
      /\ lastDelivered \in Int /\ published \in Int /\ trimmed \in Int
      /\ 0 <= lastDelivered /\ lastDelivered <= published /\ published <= MaxMsgs
      /\ trimmed <= published /\ MaxMsgs \in Int
  BY BoundsAssumption DEF QueueInv, MessagesInv, TypeOK
<1>1. readCount[r] \in Int /\ 0 <= readCount[r]
  BY <1>0, SlotsAssumption DEF TypeOK
<1>2. /\ lastDelivered' = LastOf(readCount[r])
      /\ inbox'[r] = (Gone + 1)..LastOf(readCount[r])
  BY <1>0 DEF ServeRead, TypeOK
<1>3. /\ Gone \in Int /\ Gone \in {trimmed, lastDelivered}
      /\ LastOf(readCount[r]) \in Int /\ LastOf(readCount[r]) <= published
  BY <1>0, <1>1 DEF Gone, LastOf
<1>4. m \in Int /\ 1 <= m /\ m <= MaxMsgs
  BY <1>0, <1>2, <1>3
<1>5. m <= Gone \/ m \in inbox'[r]
  BY <1>2, <1>3, <1>4
<1>6. QED
  BY <1>0, <1>3, <1>4, <1>5 DEF EvictedInv, Msgs

(* The cursor stays within what may be published.                          *)
LEMMA CursorBounded ==
    ASSUME QueueInv, [Next]_vars
    PROVE  /\ TypeOK /\ TypeOK'
           /\ lastDelivered \in Int /\ 0 <= lastDelivered
           /\ \A m \in 1..lastDelivered' : m \in Int /\ m \in Msgs
<1>1. TypeOK /\ TypeOK'
  BY TypeStep DEF QueueInv
<1>2. lastDelivered \in Int /\ 0 <= lastDelivered
  BY <1>1, BoundsAssumption DEF TypeOK
<1>3. /\ lastDelivered' \in Int /\ published' \in Int /\ MaxMsgs \in Int
      /\ lastDelivered' <= published' /\ published' <= MaxMsgs
  BY <1>1, BoundsAssumption DEF TypeOK
<1>4. QED
  BY <1>1, <1>2, <1>3 DEF Msgs

(* Of a delivered message nothing is forgotten but with its process.       *)
LEMMA AccountedStep == QueueInv /\ MessagesInv /\ [Next]_vars => Accounted'
<1> SUFFICES ASSUME QueueInv, MessagesInv, [Next]_vars, NEW m \in 1..lastDelivered'
             PROVE  \/ m \in finished' \cup evicted' \cup abandoned'
                    \/ Unusable(m)'
                    \/ \E r \in Runners : m \in inbox'[r] \/ jobs'[r][m] = "handling"
  BY DEF Accounted
<1> USE DEF redisVars, runnerVars, cleanupVars, historyVars
<1> DEFINE Known == \/ m \in finished' \cup evicted' \cup abandoned'
                    \/ Unusable(m)'
                    \/ \E r \in Runners : m \in inbox'[r] \/ jobs'[r][m] = "handling"
           With(r) == m \in inbox[r] \/ jobs[r][m] = "handling"
<1>0. /\ TypeOK /\ TypeOK' /\ ReplyInv /\ GroupInv /\ Accounted
      /\ m \in Int /\ m \in Msgs /\ lastDelivered \in Int /\ 0 <= lastDelivered
  BY CursorBounded DEF QueueInv, MessagesInv
<1>1. m <= lastDelivered =>
         \/ m \in finished' \cup evicted' \cup abandoned' \/ Unusable(m)'
         \/ \E r \in Runners : With(r)
  <2>1. m <= lastDelivered => m \in 1..lastDelivered
    BY <1>0
  <2>2. QED
    BY <1>0, <2>1, MarksStay DEF Accounted
<1>2. ASSUME lastDelivered' = lastDelivered,
             \A r \in Runners : With(r) => Known
      PROVE  Known
  <2>1. m <= lastDelivered
    BY <1>0, <1>2
  <2>2. QED
    BY <1>1, <1>2, <2>1
<1>3. ASSUME NEW r \in Runners, ServeRead(r) PROVE Known
  <2>1. m <= lastDelivered \/ m \in evicted \/ m \in inbox'[r]
    BY <1>3, Delivered
  <2>2. \A q \in Runners : With(q) => m \in inbox'[q] \/ jobs'[q][m] = "handling"
    BY <1>0, <1>3 DEF ServeRead, ReplyInv, TypeOK
  <2>3. QED
    BY <1>0, <1>1, <2>1, <2>2, MarksStay
<1>4. ASSUME NEW r \in Runners, ProcessMessages(r) PROVE Known
  <2>1. lastDelivered' = lastDelivered /\ payload' = payload
    BY <1>4 DEF ProcessMessages
  <2>2. ASSUME NEW q \in Runners, With(q) PROVE Known
    <3>1. CASE q = r /\ m \in inbox[r]
      <4>1. jobs'[r][m] = FirstAwait(m)
        BY <1>0, <1>4, <3>1 DEF ProcessMessages, TypeOK
      <4>2. payload[m] \in Payloads
        BY <1>0 DEF TypeOK
      <4>3. QED
        BY <2>1, <4>1, <4>2 DEF FirstAwait, Unusable, Payloads
    <3>2. CASE ~(q = r /\ m \in inbox[r])
      BY <1>0, <1>4, <2>2, <3>2 DEF ProcessMessages, TypeOK
    <3>3. QED
      BY <3>1, <3>2
  <2>3. QED
    BY <1>2, <2>1, <2>2
<1>5. ASSUME NEW r \in Runners, NEW k \in Msgs, Job(r, k) PROVE Known
  <2>1. lastDelivered' = lastDelivered
    BY <1>5 DEF Job, HandlerReturns, AcknowledgeMessage, ReleaseSlot
  <2>2. ASSUME NEW q \in Runners, With(q) PROVE Known
    <3>1. inbox' = inbox
      BY <1>5 DEF Job, HandlerReturns, AcknowledgeMessage, ReleaseSlot
    <3>2. CASE q = r /\ k = m /\ HandlerReturns(r, m)
      BY <3>2 DEF HandlerReturns
    <3>3. CASE ~(q = r /\ k = m /\ HandlerReturns(r, m)) /\ jobs[q][m] = "handling"
      BY <1>0, <1>5, <3>3
         DEF Job, HandlerReturns, AcknowledgeMessage, ReleaseSlot, TypeOK
    <3>4. QED
      BY <2>2, <3>1, <3>2, <3>3
  <2>3. QED
    BY <1>2, <2>1, <2>2
<1>6. ASSUME NEW r \in Runners, NEW how \in DeadPhases, Die(r, how) PROVE Known
  <2>1. lastDelivered' = lastDelivered
    BY <1>6 DEF Die
  <2>2. ASSUME NEW q \in Runners, With(q) PROVE Known
    BY <1>0, <1>6, <2>2 DEF Die, TypeOK
  <2>3. QED
    BY <1>2, <2>1, <2>2
<1>7. ASSUME NEW r \in Runners, ReplyLost(r) PROVE Known
  <2>1. lastDelivered' = lastDelivered
    BY <1>7 DEF ReplyLost
  <2>2. ASSUME NEW q \in Runners, With(q) PROVE Known
    BY <1>0, <1>7, <2>2 DEF ReplyLost, TypeOK
  <2>3. QED
    BY <1>2, <2>1, <2>2
<1>8. ASSUME \/ \E p \in Payloads : QueueWorkflow(p)
             \/ \E r \in Runners : Initialize(r) \/ ReadMessages(r) \/ Signal(r)
             \/ UNCHANGED vars
      PROVE  lastDelivered' = lastDelivered /\ inbox' = inbox /\ jobs' = jobs
  BY <1>0, <1>8
     DEF GroupInv, vars, QueueWorkflow, Initialize, CreateConsumerGroup,
         ListInactiveConsumers, InspectConsumer, ClaimPending, AckClaimed,
         DeleteConsumer, CleanupDone, ReadMessages, Signal
<1>9. lastDelivered' = lastDelivered /\ inbox' = inbox /\ jobs' = jobs => Known
  BY <1>2
<1>10. QED
  BY <1>3, <1>4, <1>5, <1>6, <1>7, <1>8, <1>9 DEF Next, Consume, Crash, Exit, DeadPhases

(* Only an acknowledgement after the handler and the cleanup of another    *)
(* runner take a message out of the pending entries list.                  *)
LEMMA PendingStep == QueueInv /\ MessagesInv /\ [Next]_vars => PendingUntilHandled'
<1> SUFFICES ASSUME QueueInv, MessagesInv, [Next]_vars, NEW m \in 1..lastDelivered'
             PROVE  \/ pel'[m] # None
                    \/ m \in finished' \cup evicted' \cup stolen'
                    \/ Unusable(m)'
  BY DEF PendingUntilHandled
<1> USE DEF redisVars, runnerVars, cleanupVars, historyVars
<1> DEFINE Kept == \/ pel'[m] # None
                   \/ m \in finished' \cup evicted' \cup stolen'
                   \/ Unusable(m)'
<1>0. /\ TypeOK /\ TypeOK' /\ GroupInv /\ DeliveryInv /\ FinishInv /\ PendingUntilHandled
      /\ m \in Int /\ m \in Msgs /\ lastDelivered \in Int /\ 0 <= lastDelivered
      /\ None \notin Runners
  BY CursorBounded, RunnersAssumption DEF QueueInv, MessagesInv
<1>1. m <= lastDelivered => Kept \/ (pel[m] # None /\ pel'[m] = None)
  <2>1. m <= lastDelivered => m \in 1..lastDelivered
    BY <1>0
  <2>2. QED
    BY <1>0, <2>1, MarksStay DEF PendingUntilHandled
<1>2. ASSUME lastDelivered' = lastDelivered, pel[m] # None => Kept PROVE Kept
  BY <1>0, <1>1, <1>2
<1>3. ASSUME NEW r \in Runners, ServeRead(r) PROVE Kept
  <2>1. m <= lastDelivered \/ m \in evicted \/ m \in inbox'[r]
    BY <1>3, Delivered
  <2>2. /\ m \in inbox'[r] => pel'[m] = r
        /\ m \notin inbox'[r] => pel'[m] = pel[m]
        /\ evicted' = evicted
    BY <1>0, <1>3 DEF ServeRead, TypeOK
  <2>3. QED
    BY <1>0, <1>1, <2>1, <2>2
<1>4. ASSUME NEW r \in Runners, NEW k \in Msgs, Job(r, k) PROVE Kept
  <2>1. lastDelivered' = lastDelivered
    BY <1>4 DEF Job, HandlerReturns, AcknowledgeMessage, ReleaseSlot
  <2>2. CASE AcknowledgeMessage(r, k) /\ k = m
    <3>1. jobs[r][m] \in {"dropping", "acking"}
      BY <2>2 DEF AcknowledgeMessage
    <3>2. m <= lastDelivered /\ (m \in finished \/ Unusable(m))
      BY <1>0, <3>1 DEF FinishInv, DeliveryInv
    <3>3. QED
      BY <3>2, MarksStay, <1>0
  <2>3. CASE ~(AcknowledgeMessage(r, k) /\ k = m)
    <3>1. pel'[m] = pel[m]
      BY <1>0, <1>4, <2>3 DEF Job, HandlerReturns, AcknowledgeMessage, ReleaseSlot, TypeOK
    <3>2. QED
      BY <1>2, <2>1, <3>1
  <2>4. QED
    BY <2>2, <2>3
<1>5. ASSUME NEW r \in Runners, ClaimPending(r) PROVE Kept
  <2>1. lastDelivered' = lastDelivered /\ (pel[m] # None => pel'[m] # None)
    BY <1>0, <1>5 DEF ClaimPending
  <2>2. QED
    BY <1>2, <2>1
<1>6. ASSUME NEW r \in Runners, AckClaimed(r) \/ DeleteConsumer(r) PROVE Kept
  <2>1. lastDelivered' = lastDelivered
    BY <1>6 DEF AckClaimed, DeleteConsumer
  <2>2. pel'[m] = pel[m] \/ m \in stolen'
    BY <1>0, <1>6 DEF AckClaimed, DeleteConsumer, PendingOf, TypeOK
  <2>3. QED
    BY <1>2, <2>1, <2>2
<1>7. ASSUME \/ \E p \in Payloads : QueueWorkflow(p)
             \/ \E r \in Runners :
                   \/ CreateConsumerGroup(r) \/ ListInactiveConsumers(r)
                   \/ InspectConsumer(r) \/ CleanupDone(r) \/ ReadMessages(r)
                   \/ ProcessMessages(r) \/ ReplyLost(r) \/ Signal(r)
                   \/ \E how \in DeadPhases : Die(r, how)
             \/ UNCHANGED vars
      PROVE  lastDelivered' = lastDelivered /\ pel' = pel
  BY <1>0, <1>7
     DEF GroupInv, vars, QueueWorkflow, CreateConsumerGroup, ListInactiveConsumers,
         InspectConsumer, CleanupDone, ReadMessages, ProcessMessages, ReplyLost, Signal, Die
<1>8. lastDelivered' = lastDelivered /\ pel' = pel => Kept
  BY <1>2
<1>9. QED
  BY <1>3, <1>4, <1>5, <1>6, <1>7, <1>8
     DEF Next, Initialize, Consume, Crash, Exit, DeadPhases

(* Together with QueueInv the four are inductive.                          *)
THEOREM MessagesInductive == Spec => []MessagesInv
<1>1. QueueInv /\ MessagesInv /\ [Next]_vars => MessagesInv'
  BY EvictedStep, FinishStep, AccountedStep, PendingStep DEF MessagesInv
<1>2. QED
  BY InitMessagesInv, Inductive, <1>1, PTL DEF Spec

(* redis-queue-consumer.ts:141-205: a runner that stays up drops no        *)
(* message it was given, for any number of runners, messages and faults.   *)
THEOREM NothingDropped == Spec => []Accounted
<1>1. MessagesInv => Accounted
  BY DEF MessagesInv
<1>2. QED
  BY MessagesInductive, <1>1, PTL

(* redis-queue-consumer.ts:185-222: a message is pending until its handler *)
(* returned, unless a cleanup took it, whatever the runners do.            *)
THEOREM PendingTillDone == Spec => []PendingUntilHandled
<1>1. MessagesInv => PendingUntilHandled
  BY DEF MessagesInv
<1>2. QED
  BY MessagesInductive, <1>1, PTL
=============================================================================
