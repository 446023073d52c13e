--------------------------- MODULE QueueConsumer ---------------------------
(***************************************************************************)
(* The job queue between the backend and the runners: the Redis stream     *)
(* "workflows:downstream:run", its consumer group "runner-consumer-group", *)
(* and the runner processes that consume it                                *)
(* (runner/src/services/queue/redis-queue-consumer.ts, runner/src/server.ts*)
(* and runner/src/index.ts).                                               *)
(*                                                                         *)
(* A runner draws a random CONSUMER_NAME when it is constructed, so a      *)
(* restarted runner is a consumer the group has never seen.  An element of *)
(* Runners is therefore one life of one process: it starts once and, when  *)
(* it dies, never comes back.                                              *)
(*                                                                         *)
(* Every await on Redis is a point where other runners, the backend, a     *)
(* signal or a crash can act, so a command and the code after its reply    *)
(* are separate actions; the code between two awaits is one action.        *)
(* Elapsed time is not modelled: a consumer may look idle for longer than  *)
(* the threshold whenever another runner asks, because XACK and handler    *)
(* work do not reset a consumer's idle clock, only XREADGROUP and XCLAIM   *)
(* do.                                                                     *)
(***************************************************************************)
EXTENDS Integers, FiniteSets

CONSTANTS
    Runners,            \* runner processes; each is one CONSUMER_NAME
    None,               \* "no runner"
    MaxParallelJobs,    \* MAX_PARALLEL_JOBS
    MaxLen,             \* the publisher's DefaultMaxlen (400 in production)
    MaxMsgs,            \* bound: messages the backend publishes
    MaxFaults           \* bound: runners that crash or are asked to stop and
                        \* XREADGROUP replies lost with a connection, together

ASSUME RunnersAssumption == IsFiniteSet(Runners) /\ None \notin Runners
ASSUME SlotsAssumption == MaxParallelJobs \in Nat \ {0}
ASSUME BoundsAssumption ==
    /\ MaxLen \in Nat \ {0}
    /\ MaxMsgs \in Nat
    /\ MaxFaults \in Nat

Msgs == 1..MaxMsgs

\* What extractMessage finds: a JSON payload, no payload, or broken JSON.
Payloads == {"json", "missing", "malformed"}

\* Life of a runner. "poll" is waitForAvailableSlot, "reading" a blocked
\* XREADGROUP, "reply" its answer on the way back.
CleanupPhases == {"xinfo", "cleanup", "claim", "ack", "delete"}
DeadPhases == {"crashed", "exited"}
Phases == {"off", "poll", "reading", "reply"} \cup CleanupPhases \cup DeadPhases

\* Life of one processMessage call: "dropping" awaits the early
\* acknowledgement of a message without payload, "handling" awaits the
\* handler, "acking" the acknowledgement in the finally block, "acked" its
\* reply.
JobStates == {"none", "handling", "dropping", "acking", "acked"}

VARIABLES
    \* Redis
    published,      \* entries 1..published were added to the stream
    payload,        \* payload[m]: what entry m carries
    trimmed,        \* entries 1..trimmed were evicted by MAXLEN
    group,          \* the consumer group exists
    lastDelivered,  \* the group's last-delivered-id
    pel,            \* pel[m]: the consumer m is pending for, or None
    consumers,      \* consumers the group knows
    \* runners
    phase, readCount, inbox, activeJobs, jobs, stopping,
    todo, target, ids,   \* cleanupInactiveConsumers' local variables
    \* history
    starts,         \* starts[m]: how often a handler was started for m
    finished,       \* messages whose handler returned
    evicted,        \* messages MAXLEN evicted before they were delivered
    stolen,         \* messages a cleanup took out of the pending list
    abandoned,      \* messages that were with a process when it died, or
                    \* in a reply that was lost
    lostReplies

redisVars == <<published, payload, trimmed, group, lastDelivered, pel, consumers>>
cleanupVars == <<todo, target, ids>>
runnerVars == <<phase, readCount, inbox, activeJobs, jobs, stopping>>
historyVars == <<starts, finished, evicted, stolen, abandoned, lostReplies>>
vars == <<redisVars, runnerVars, cleanupVars, historyVars>>

InFlight(r) == {m \in Msgs : jobs[r][m] # "none"}
PendingOf(c) == {m \in Msgs : pel[m] = c}
Unusable(m) == payload[m] # "json"
Alive(r) == phase[r] \notin DeadPhases \cup {"off"}
Doomed == {r \in Runners : phase[r] \in DeadPhases \/ stopping[r]}
FaultsLeft == lostReplies + Cardinality(Doomed) < MaxFaults

-----------------------------------------------------------------------------
Init ==
    /\ published = 0
    /\ payload = [m \in Msgs |-> "json"]
    /\ trimmed = 0
    /\ group = FALSE
    /\ lastDelivered = 0
    /\ pel = [m \in Msgs |-> None]
    /\ consumers = {}
    /\ phase = [r \in Runners |-> "off"]
    /\ readCount = [r \in Runners |-> 0]
    /\ inbox = [r \in Runners |-> {}]
    /\ activeJobs = [r \in Runners |-> 0]
    /\ jobs = [r \in Runners |-> [m \in Msgs |-> "none"]]
    /\ stopping = [r \in Runners |-> FALSE]
    /\ todo = [r \in Runners |-> {}]
    /\ target = [r \in Runners |-> None]
    /\ ids = [r \in Runners |-> {}]
    /\ starts = [m \in Msgs |-> 0]
    /\ finished = {}
    /\ evicted = {}
    /\ stolen = {}
    /\ abandoned = {}
    /\ lostReplies = 0

-----------------------------------------------------------------------------
(* The backend.                                                            *)

\* QueueWorkflow: XADD with an approximate MAXLEN, which evicts the oldest
\* entries, delivered or not, but never leaves fewer than MaxLen.
QueueWorkflow(p) ==
    /\ published < MaxMsgs
    /\ published' = published + 1
    /\ payload' = [payload EXCEPT ![published + 1] = p]
    /\ \E t \in trimmed..published :
          /\ t > trimmed => published + 1 - t >= MaxLen
          /\ trimmed' = t
          /\ evicted' = evicted \cup ((lastDelivered + 1)..t)
    /\ UNCHANGED <<group, lastDelivered, pel, consumers, runnerVars,
                   cleanupVars, starts, finished, stolen, abandoned, lostReplies>>

-----------------------------------------------------------------------------
(* initialize(): the group, then the cleanup of other consumers.           *)

\* Mutant: the group starts at "$", after the entries already queued.
CreateConsumerGroupAtEnd(r) ==
    /\ phase[r] = "off"
    /\ phase' = [phase EXCEPT ![r] = "xinfo"]
    /\ group' = TRUE
    /\ lastDelivered' = IF group THEN lastDelivered ELSE published
    /\ UNCHANGED <<published, payload, trimmed, pel, consumers, readCount,
                   inbox, activeJobs, jobs, stopping, cleanupVars, historyVars>>

\* createConsumerGroup: CREATE ... "0" MKSTREAM; BUSYGROUP is ignored.
CreateConsumerGroup(r) ==
    /\ phase[r] = "off"
    /\ phase' = [phase EXCEPT ![r] = "xinfo"]
    /\ group' = TRUE
    /\ lastDelivered' = IF group THEN lastDelivered ELSE 0
    /\ UNCHANGED <<published, payload, trimmed, pel, consumers, readCount,
                   inbox, activeJobs, jobs, stopping, cleanupVars, historyVars>>

\* cleanupInactiveConsumers, XINFO CONSUMERS: a snapshot of the consumers
\* that look idle, with the number of messages pending for each.
ListInactiveConsumers(r) ==
    /\ phase[r] = "xinfo"
    /\ \E idle \in SUBSET (consumers \ {r}) :
          todo' = [todo EXCEPT
                     ![r] = {<<c, Cardinality(PendingOf(c))>> : c \in idle}]
    /\ phase' = [phase EXCEPT ![r] = "cleanup"]
    /\ UNCHANGED <<redisVars, readCount, inbox, activeJobs, jobs, stopping,
                   target, ids, historyVars>>

OldestPending(c, n) ==
    {m \in PendingOf(c) : Cardinality({k \in PendingOf(c) : k < m}) < n}

\* One turn of the loop over the snapshot, up to XPENDING's reply.
InspectConsumer(r) ==
    /\ phase[r] = "cleanup"
    /\ \E entry \in todo[r] :
          LET c == entry[1]
              n == entry[2]
              found == IF n > 0 THEN OldestPending(c, n) ELSE {}
          IN  /\ todo' = [todo EXCEPT ![r] = @ \ {entry}]
              /\ target' = [target EXCEPT ![r] = c]
              /\ ids' = [ids EXCEPT ![r] = found]
              /\ phase' = [phase EXCEPT
                             ![r] = IF found = {} THEN "delete" ELSE "claim"]
    /\ UNCHANGED <<redisVars, readCount, inbox, activeJobs, jobs, stopping,
                   historyVars>>

\* XCLAIM: entries that are still pending change owner, the others are
\* skipped; the claiming consumer is created if the group does not know it.
ClaimPending(r) ==
    /\ phase[r] = "claim"
    /\ pel' = [m \in Msgs |-> IF m \in ids[r] /\ pel[m] # None
                              THEN r ELSE pel[m]]
    /\ consumers' = consumers \cup {r}
    /\ phase' = [phase EXCEPT ![r] = "ack"]
    /\ UNCHANGED <<published, payload, trimmed, group, lastDelivered, readCount,
                   inbox, activeJobs, jobs, stopping, cleanupVars, historyVars>>

\* XACK of the claimed messages one by one, without having processed them.
AckClaimed(r) ==
    /\ phase[r] = "ack"
    /\ \E m \in ids[r] :
          /\ \A k \in ids[r] : m <= k
          /\ pel' = [pel EXCEPT ![m] = None]
          /\ ids' = [ids EXCEPT ![r] = @ \ {m}]
          /\ stolen' = stolen \cup {m}
          /\ phase' = [phase EXCEPT
                         ![r] = IF ids[r] = {m} THEN "delete" ELSE "ack"]
    /\ UNCHANGED <<published, payload, trimmed, group, lastDelivered, consumers,
                   readCount, inbox, activeJobs, jobs, stopping, todo, target,
                   starts, finished, evicted, abandoned, lostReplies>>

\* XGROUP DELCONSUMER: the consumer goes, with whatever is pending for it.
DeleteConsumer(r) ==
    /\ phase[r] = "delete"
    /\ consumers' = consumers \ {target[r]}
    /\ pel' = [m \in Msgs |-> IF pel[m] = target[r] THEN None ELSE pel[m]]
    /\ stolen' = stolen \cup PendingOf(target[r])
    /\ target' = [target EXCEPT ![r] = None]
    /\ phase' = [phase EXCEPT ![r] = "cleanup"]
    /\ UNCHANGED <<published, payload, trimmed, group, lastDelivered, readCount,
                   inbox, activeJobs, jobs, stopping, todo, ids,
                   starts, finished, evicted, abandoned, lostReplies>>

\* The end of the loop, or a Redis error anywhere in it: the error is logged
\* and swallowed, and the runner goes on to consume.
CleanupDone(r) ==
    /\ phase[r] \in CleanupPhases
    /\ phase' = [phase EXCEPT ![r] = "poll"]
    /\ todo' = [todo EXCEPT ![r] = {}]
    /\ target' = [target EXCEPT ![r] = None]
    /\ ids' = [ids EXCEPT ![r] = {}]
    /\ UNCHANGED <<redisVars, readCount, inbox, activeJobs, jobs, stopping,
                   historyVars>>

-----------------------------------------------------------------------------
(* consumeWorkflowQueue                                                    *)

\* Mutant: COUNT ignores the jobs in flight.
ReadMessagesFullCount(r) ==
    /\ phase[r] = "poll"
    /\ ~stopping[r]
    /\ activeJobs[r] < MaxParallelJobs
    /\ readCount' = [readCount EXCEPT ![r] = MaxParallelJobs]
    /\ phase' = [phase EXCEPT ![r] = "reading"]
    /\ consumers' = consumers \cup {r}
    /\ UNCHANGED <<published, payload, trimmed, group, lastDelivered, pel, inbox,
                   activeJobs, jobs, stopping, cleanupVars, historyVars>>

\* Mutant: the slot test is off by one.
ReadMessagesOffByOne(r) ==
    /\ phase[r] = "poll"
    /\ ~stopping[r]
    /\ activeJobs[r] < MaxParallelJobs - 1
    /\ readCount' = [readCount EXCEPT ![r] = MaxParallelJobs - activeJobs[r]]
    /\ phase' = [phase EXCEPT ![r] = "reading"]
    /\ consumers' = consumers \cup {r}
    /\ UNCHANGED <<published, payload, trimmed, group, lastDelivered, pel, inbox,
                   activeJobs, jobs, stopping, cleanupVars, historyVars>>

\* waitForAvailableSlot lets the loop through; readMessages computes COUNT
\* and sends XREADGROUP, which makes the consumer known to the group.  After
\* close() the connection takes no further command.
ReadMessages(r) ==
    /\ phase[r] = "poll"
    /\ ~stopping[r]
    /\ activeJobs[r] < MaxParallelJobs
    /\ readCount' = [readCount EXCEPT ![r] = MaxParallelJobs - activeJobs[r]]
    /\ phase' = [phase EXCEPT ![r] = "reading"]
    /\ consumers' = consumers \cup {r}
    /\ UNCHANGED <<published, payload, trimmed, group, lastDelivered, pel, inbox,
                   activeJobs, jobs, stopping, cleanupVars, historyVars>>

\* A read with ">" returns no entry up to this one.
Gone == IF trimmed > lastDelivered THEN trimmed ELSE lastDelivered

\* The last of the at most n entries such a read returns.
LastOf(n) == IF Gone + n < published THEN Gone + n ELSE published

\* Mutant: XREADGROUP with "0", which returns r's own pending entries first.
ServeReadPending(r) ==
    /\ phase[r] = "reading"
    /\ PendingOf(r) # {} \/ Gone < published
    /\ LET new == (Gone + 1)..LastOf(readCount[r])
           batch == IF PendingOf(r) # {} THEN PendingOf(r) ELSE new
       IN  /\ inbox' = [inbox EXCEPT ![r] = batch]
           /\ pel' = [m \in Msgs |-> IF m \in batch THEN r ELSE pel[m]]
           /\ lastDelivered' = IF PendingOf(r) # {} THEN lastDelivered
                               ELSE LastOf(readCount[r])
    /\ consumers' = consumers \cup {r}
    /\ phase' = [phase EXCEPT ![r] = "reply"]
    /\ UNCHANGED <<published, payload, trimmed, group, readCount, activeJobs,
                   jobs, stopping, cleanupVars, historyVars>>

\* Mutant: XREADGROUP with NOACK, nothing becomes pending.
ServeReadNoAck(r) ==
    /\ phase[r] = "reading"
    /\ Gone < published
    /\ inbox' = [inbox EXCEPT ![r] = (Gone + 1)..LastOf(readCount[r])]
    /\ lastDelivered' = LastOf(readCount[r])
    /\ consumers' = consumers \cup {r}
    /\ phase' = [phase EXCEPT ![r] = "reply"]
    /\ UNCHANGED <<published, payload, trimmed, group, pel, readCount, activeJobs,
                   jobs, stopping, cleanupVars, historyVars>>

\* Redis serves the blocked XREADGROUP: the entries become pending for r and
\* the last-delivered-id moves past them.
ServeRead(r) ==
    /\ phase[r] = "reading"
    /\ Gone < published
    /\ LET batch == (Gone + 1)..LastOf(readCount[r]) IN
          /\ inbox' = [inbox EXCEPT ![r] = batch]
          /\ pel' = [m \in Msgs |-> IF m \in batch THEN r ELSE pel[m]]
    /\ lastDelivered' = LastOf(readCount[r])
    /\ consumers' = consumers \cup {r}
    /\ phase' = [phase EXCEPT ![r] = "reply"]
    /\ UNCHANGED <<published, payload, trimmed, group, readCount, activeJobs,
                   jobs, stopping, cleanupVars, historyVars>>

\* The connection breaks after XREADGROUP was executed: the client reconnects
\* and sends the command again, with the same COUNT and ">".
ReplyLost(r) ==
    /\ phase[r] = "reply"
    /\ FaultsLeft
    /\ lostReplies' = lostReplies + 1
    /\ abandoned' = abandoned \cup inbox[r]
    /\ inbox' = [inbox EXCEPT ![r] = {}]
    /\ phase' = [phase EXCEPT ![r] = "reading"]
    /\ UNCHANGED <<redisVars, readCount, activeJobs, jobs, stopping, cleanupVars,
                   starts, finished, evicted, stolen>>

\* The first await a processMessage call reaches.
FirstAwait(m) ==
    CASE payload[m] = "json"      -> "handling"
      [] payload[m] = "missing"   -> "dropping"
      [] payload[m] = "malformed" -> "acking"

\* processMessages: a slot per message, and processMessage runs up to its
\* first await.
ProcessMessages(r) ==
    /\ phase[r] = "reply"
    /\ activeJobs' = [activeJobs EXCEPT ![r] = @ + Cardinality(inbox[r])]
    /\ jobs' = [jobs EXCEPT ![r] =
                  [m \in Msgs |-> IF m \in inbox[r] THEN FirstAwait(m) ELSE @[m]]]
    /\ starts' = [m \in Msgs |-> IF m \in inbox[r] /\ FirstAwait(m) = "handling"
                                 THEN starts[m] + 1 ELSE starts[m]]
    /\ inbox' = [inbox EXCEPT ![r] = {}]
    /\ readCount' = [readCount EXCEPT ![r] = 0]
    /\ phase' = [phase EXCEPT ![r] = "poll"]
    /\ UNCHANGED <<redisVars, stopping, cleanupVars,
                   finished, evicted, stolen, abandoned, lostReplies>>

\* The handler settles; handleWorkflowExecution turns every error into a log
\* line, and processMessage would catch one anyway.
HandlerReturns(r, m) ==
    /\ jobs[r][m] = "handling"
    /\ jobs' = [jobs EXCEPT ![r][m] = "acking"]
    /\ finished' = finished \cup {m}
    /\ UNCHANGED <<redisVars, phase, readCount, inbox, activeJobs, stopping,
                   cleanupVars, starts, evicted, stolen, abandoned, lostReplies>>

\* Mutant: the early return for a missing payload gives the slot back itself.
AcknowledgeAndRelease(r, m) ==
    /\ jobs[r][m] \in {"dropping", "acking"}
    /\ pel' = [pel EXCEPT ![m] = None]
    /\ jobs' = [jobs EXCEPT ![r][m] = IF @ = "dropping" THEN "acking" ELSE "acked"]
    /\ activeJobs' = [activeJobs EXCEPT
                         ![r] = IF jobs[r][m] = "dropping" THEN @ - 1 ELSE @]
    /\ UNCHANGED <<published, payload, trimmed, group, lastDelivered, consumers,
                   phase, readCount, inbox, stopping, cleanupVars, historyVars>>

\* acknowledgeMessage: XACK. A message without payload is acknowledged
\* before the early return and a second time in the finally block.
AcknowledgeMessage(r, m) ==
    /\ jobs[r][m] \in {"dropping", "acking"}
    /\ pel' = [pel EXCEPT ![m] = None]
    /\ jobs' = [jobs EXCEPT ![r][m] = IF @ = "dropping" THEN "acking" ELSE "acked"]
    /\ UNCHANGED <<published, payload, trimmed, group, lastDelivered, consumers,
                   phase, readCount, inbox, activeJobs, stopping, cleanupVars,
                   historyVars>>

\* Mutant: the slot of a finished job is not given back.
ReleaseNoSlot(r, m) ==
    /\ jobs[r][m] = "acked"
    /\ jobs' = [jobs EXCEPT ![r][m] = "none"]
    /\ UNCHANGED <<redisVars, phase, readCount, inbox, activeJobs, stopping,
                   cleanupVars, historyVars>>

\* The then() of processMessages gives the slot back.
ReleaseSlot(r, m) ==
    /\ jobs[r][m] = "acked"
    /\ jobs' = [jobs EXCEPT ![r][m] = "none"]
    /\ activeJobs' = [activeJobs EXCEPT ![r] = @ - 1]
    /\ UNCHANGED <<redisVars, phase, readCount, inbox, stopping, cleanupVars,
                   historyVars>>

-----------------------------------------------------------------------------
(* The end of a process.                                                   *)

\* Everything r held in memory is gone; what Redis holds stays.
Die(r, how) ==
    /\ phase' = [phase EXCEPT ![r] = how]
    /\ abandoned' = abandoned \cup inbox[r]
                              \cup {m \in Msgs : jobs[r][m] = "handling"}
    /\ inbox' = [inbox EXCEPT ![r] = {}]
    /\ jobs' = [jobs EXCEPT ![r] = [m \in Msgs |-> "none"]]
    /\ activeJobs' = [activeJobs EXCEPT ![r] = 0]
    /\ readCount' = [readCount EXCEPT ![r] = 0]
    /\ stopping' = [stopping EXCEPT ![r] = FALSE]
    /\ todo' = [todo EXCEPT ![r] = {}]
    /\ target' = [target EXCEPT ![r] = None]
    /\ ids' = [ids EXCEPT ![r] = {}]
    /\ UNCHANGED <<redisVars, starts, finished, evicted, stolen, lostReplies>>

\* SIGKILL, or a rejection nobody handles: a failed XREADGROUP rejects the
\* consume loop that start() does not await, a failed XACK rejects the
\* promise processMessages put no catch on; either ends the process.
Crash(r) ==
    /\ Alive(r)
    /\ stopping[r] \/ FaultsLeft
    /\ Die(r, "crashed")

\* SIGINT or SIGTERM: server.stop() sends QUIT on the blocking connection.
Signal(r) ==
    /\ Alive(r)
    /\ ~stopping[r]
    /\ FaultsLeft
    /\ stopping' = [stopping EXCEPT ![r] = TRUE]
    /\ UNCHANGED <<redisVars, phase, readCount, inbox, activeJobs, jobs,
                   cleanupVars, historyVars>>

\* QUIT is answered once no XREADGROUP is ahead of it on the connection;
\* then stop() returns and process.exit(0) ends the jobs in flight.
Exit(r) ==
    /\ Alive(r)
    /\ stopping[r]
    /\ phase[r] \notin {"reading", "reply"}
    /\ Die(r, "exited")

-----------------------------------------------------------------------------
Initialize(r) ==
    \/ CreateConsumerGroup(r)
    \/ ListInactiveConsumers(r)
    \/ InspectConsumer(r)
    \/ ClaimPending(r)
    \/ AckClaimed(r)
    \/ DeleteConsumer(r)
    \/ CleanupDone(r)

Consume(r) ==
    \/ ReadMessages(r)
    \/ ServeRead(r)
    \/ ProcessMessages(r)

Job(r, m) ==
    \/ HandlerReturns(r, m)
    \/ AcknowledgeMessage(r, m)
    \/ ReleaseSlot(r, m)

Next ==
    \/ \E p \in Payloads : QueueWorkflow(p)
    \/ \E r \in Runners :
          \/ Initialize(r)
          \/ Consume(r)
          \/ \E m \in Msgs : Job(r, m)
          \/ ReplyLost(r)
          \/ Crash(r)
          \/ Signal(r)
          \/ Exit(r)

Spec == Init /\ [][Next]_vars

\* Runners keep running: the event loop is fair to every continuation, Redis
\* answers, handlers settle. Publishing, signals, crashes and lost replies
\* need not happen.
Fairness ==
    \A r \in Runners :
        /\ WF_vars(Initialize(r))
        /\ WF_vars(Consume(r))
        /\ WF_vars(Exit(r))
        /\ \A m \in Msgs : WF_vars(Job(r, m))

FairSpec == Spec /\ Fairness

-----------------------------------------------------------------------------
TypeOK ==
    /\ published \in 0..MaxMsgs
    /\ payload \in [Msgs -> Payloads]
    /\ trimmed \in 0..published
    /\ group \in BOOLEAN
    /\ lastDelivered \in 0..published
    /\ pel \in [Msgs -> Runners \cup {None}]
    /\ consumers \subseteq Runners
    /\ phase \in [Runners -> Phases]
    /\ readCount \in [Runners -> 0..MaxParallelJobs]
    /\ inbox \in [Runners -> SUBSET Msgs]
    /\ activeJobs \in [Runners -> Nat]
    /\ jobs \in [Runners -> [Msgs -> JobStates]]
    /\ stopping \in [Runners -> BOOLEAN]
    /\ todo \in [Runners -> SUBSET (Runners \X Nat)]
    /\ target \in [Runners -> Runners \cup {None}]
    /\ ids \in [Runners -> SUBSET Msgs]
    /\ starts \in [Msgs -> Nat]
    /\ finished \subseteq Msgs
    /\ evicted \subseteq Msgs
    /\ stolen \subseteq Msgs
    /\ abandoned \subseteq Msgs
    /\ lostReplies \in 0..MaxFaults

(* activeJobs counts exactly the processMessage calls in flight and never  *)
(* exceeds MAX_PARALLEL_JOBS, although COUNT is computed before an         *)
(* XREADGROUP that may block for hours, be sent again after a lost reply,  *)
(* and be answered while earlier jobs finish.                              *)
SlotAccounting ==
    \A r \in Runners :
        /\ activeJobs[r] = Cardinality(InFlight(r))
        /\ activeJobs[r] <= MaxParallelJobs

(* No message is handed to a handler twice, whatever crashes, claims and   *)
(* consumer deletions happen: reads use ">" only and a claimed message is  *)
(* never processed.                                                        *)
AtMostOnce == \A m \in Msgs : starts[m] <= 1

(* A delivered message is never silently dropped by a runner that stays    *)
(* up: it is being worked on, finished, useless, or it was evicted from    *)
(* the stream, in a lost reply, or with a process that died.               *)
Accounted ==
    \A m \in 1..lastDelivered :
        \/ m \in finished \cup evicted \cup abandoned
        \/ Unusable(m)
        \/ \E r \in Runners : m \in inbox[r] \/ jobs[r][m] = "handling"

(* Unless another runner's cleanup took it, a delivered message stays in   *)
(* the pending entries list until its handler returned or its payload      *)
(* turned out to be useless.                                               *)
PendingUntilHandled ==
    \A m \in 1..lastDelivered :
        \/ pel[m] # None
        \/ m \in finished \cup evicted \cup stolen
        \/ Unusable(m)

(* Every published message is eventually executed, useless, evicted, or    *)
(* lost with a process or a connection, as long as some runner is neither  *)
(* killed nor stopped: none waits in the stream or in a runner forever.    *)
EveryMessageSettles ==
    \A m \in Msgs :
        (published >= m) ~> \/ m \in finished \cup evicted \cup abandoned
                            \/ lastDelivered >= m /\ Unusable(m)

(* A runner whose slots are all taken gets one back.                       *)
SlotsComeBack ==
    \A r \in Runners :
        (activeJobs[r] = MaxParallelJobs) ~> (activeJobs[r] < MaxParallelJobs)

(* runner/.cursor/rules/general-technical.mdc:68, "Properly acknowledges   *)
(* messages after successful processing": a delivered message leaves the   *)
(* pending entries list only after its handler returned (or when there is  *)
(* nothing to process).                                                    *)
AcknowledgedAfterProcessing ==
    \A m \in 1..lastDelivered :
        pel[m] # None \/ m \in finished \cup evicted \/ Unusable(m)

-----------------------------------------------------------------------------
(* The parts of the inductive invariant behind SlotAccounting and          *)
(* AtMostOnce (QueueConsumerProofs).                                       *)

\* The group exists once a runner has initialized, so a second creation does
\* not move the last-delivered-id back.
GroupInv ==
    /\ ~group => lastDelivered = 0
    /\ \A r \in Runners : phase[r] # "off" => group

\* Only a reply on its way carries messages.
ReplyInv == \A r \in Runners : phase[r] # "reply" => inbox[r] = {}

\* The COUNT of a read in progress and the jobs in flight share the slots.
SlotInv ==
    \A r \in Runners :
        /\ activeJobs[r] = Cardinality(InFlight(r))
        /\ activeJobs[r] + readCount[r] <= MaxParallelJobs
        /\ Cardinality(inbox[r]) <= readCount[r]

\* What is not delivered yet is nowhere; what is in a reply is in no other
\* reply, in no job, and was never started.
DeliveryInv ==
    /\ \A m \in Msgs : m > lastDelivered => starts[m] = 0
    /\ \A r \in Runners, m \in Msgs : jobs[r][m] # "none" => m <= lastDelivered
    /\ \A r \in Runners : \A m \in inbox[r] :
          /\ m <= lastDelivered
          /\ starts[m] = 0
          /\ \A q \in Runners : jobs[q][m] = "none"
          /\ \A q \in Runners \ {r} : m \notin inbox[q]

QueueInv ==
    /\ TypeOK
    /\ GroupInv
    /\ ReplyInv
    /\ SlotInv
    /\ DeliveryInv
    /\ AtMostOnce

(* The parts of the invariant behind Accounted and PendingUntilHandled.    *)

\* What MAXLEN trimmed before it was delivered is on record.
EvictedInv == \A m \in Msgs : lastDelivered < m /\ m <= trimmed => m \in evicted

\* A job past its handler has a finished message, or a useless one.
FinishInv ==
    \A r \in Runners, m \in Msgs :
        /\ jobs[r][m] = "dropping" => Unusable(m)
        /\ jobs[r][m] \in {"acking", "acked"} => m \in finished \/ Unusable(m)

MessagesInv == EvictedInv /\ FinishInv /\ Accounted /\ PendingUntilHandled
=============================================================================
