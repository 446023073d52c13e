-------------------------- MODULE WorkflowExecutor --------------------------
(***************************************************************************)
(* The execution of a workflow by a runner                                 *)
(* (runner/src/services/workflow/workflow.executor.ts) and the execution   *)
(* context it keeps in memory and in Redis                                 *)
(* (runner/src/services/context/).                                         *)
(*                                                                         *)
(* A job is one call of execute() for the same workflow and trigger id, on *)
(* any runner: the context key is "workflowId:triggerId", so all jobs share*)
(* one stored context.  A job that finds a context resumes from it.        *)
(*                                                                         *)
(* executeReadyNodes starts every ready node without awaiting and joins    *)
(* them with Promise.all; between awaits the promises of one wave, of other*)
(* jobs and of earlier failed waves interleave freely.  sync() is GET then *)
(* SET of the whole live context; nothing but the presence of the key is   *)
(* used of what GET returns, so the pair is one action.                    *)
(***************************************************************************)
EXTENDS Naturals, FiniteSets

CONSTANTS
    Jobs,       \* calls of execute() for one workflow and one trigger id
    Nodes,      \* node ids
    Ghosts,     \* ids that inputs may name but that are never node ids
    Entry,      \* "entrypoint-node"
    ResultId,   \* "result-node"
    Results,    \* nodes of type "result"
    Direct,     \* nodes with an input that has no source
    Code,       \* nodes of type "code-executor"
    Absent,     \* no context in Redis: never written, expired after 24h, or
                \* evicted (Redis is deployed with allkeys-lru)
    MaxFaults   \* bound: evictions, expiries, failed Redis commands, crashes

ASSUME NodesAssumption ==
    IsFiniteSet(Nodes) /\ Nodes \cap Ghosts = {}
ASSUME RolesAssumption ==
    /\ {Entry, ResultId} \subseteq Nodes \cup Ghosts
    /\ Results \subseteq Nodes
    /\ Direct \subseteq Nodes
    /\ Code \subseteq Nodes
ASSUME FaultsAssumption == MaxFaults \in Nat

\* NodeExecution.success, or no execution recorded.
Executions == {"none", "ok", "err"}

\* An ExecutionContext: allNodes, completedNodes, nodeExecutions.
Contexts == [all : SUBSET Nodes, completed : SUBSET Nodes,
             exec : [Nodes -> Executions]]

ASSUME AbsentAssumption == Absent \notin Contexts

NoContext == [all |-> {}, completed |-> {}, exec |-> [n \in Nodes |-> "none"]]

\* Where execute() is. "done" is after its last event.
Stages == {"queued", "creating", "looping", "wave", "marking", "done", "dead"}

\* A node promise of a wave. "savedOk"/"savedErr" have resolved, with success
\* true or false; "rejected" has thrown.
Promises == {"idle", "running", "savingOk", "savingErr",
             "savedOk", "savedErr", "rejected"}

\* The events a node emits through onEvent while it runs: NODE_LOG, and the
\* others (NODE_RESULT, TOOL_*, AGENT_NOTIFICATION) as one.
Interim == {"NODE_LOG", "NODE_RESULT"}

Causes == {"none", "node", "throw", "circular", "context", "output", "init"}

VARIABLES
    defined,    \* defined[j]: the node ids of the definition j was given
    sources,    \* sources[j][n]: the node ids named by n's inputs
    stored,     \* the context in Redis
    stage, ctx, \* ctx[j]: j's live ManagedExecutionContext.context
    promise, wave, toMark,
    started,    \* started[j][n]: NODE_STARTED events
    outcome,    \* outcome[j][n]: NODE_COMPLETED / NODE_FAILED, or "none"
    verdict,    \* verdict[j]: WORKFLOW_COMPLETED / WORKFLOW_FAILED, or "none"
    cause,      \* the error behind WORKFLOW_FAILED
    scripts,    \* scripts[j]: code nodes that returned while their script runs on
    trailing,   \* trailing[j]: the node events emitted after j's last event
    faults

definition == <<defined, sources>>
jobVars == <<stage, ctx, promise, wave, toMark>>
eventVars == <<started, outcome, verdict, cause>>
after == <<scripts, trailing>>
vars == <<definition, stored, jobVars, eventVars, after, faults>>

\* buildDependencyGraph; a node without definition has no entry there.
Dependencies(j, n) == IF n \in defined[j] THEN sources[j][n] ELSE {}

\* Mutant: completed nodes are not filtered out.
ReadyNodesAgain(j) ==
    {n \in ctx[j].all : Dependencies(j, n) \subseteq ctx[j].completed}

\* findReadyNodes
ReadyNodes(j) ==
    {n \in ctx[j].all \ ctx[j].completed :
        Dependencies(j, n) \subseteq ctx[j].completed}

HasExecution(j, n) == n \in Nodes /\ ctx[j].exec[n] # "none"

\* resolveInputs throws through node() or entrypoint().
ResolveThrows(j, n) ==
    /\ n # Entry
    /\ \/ \E d \in sources[j][n] : ~HasExecution(j, d)
       \/ n \in Direct /\ ~HasExecution(j, Entry)

\* extractFinalOutput throws through node() or result().
OutputThrows(j) ==
    LET resultNodes == Results \cap defined[j] IN
        \/ \E n \in resultNodes : ~HasExecution(j, n)
        \/ Cardinality(resultNodes) = 1 /\ ~HasExecution(j, ResultId)

Unsettled == {"running", "savingOk", "savingErr"}

-----------------------------------------------------------------------------
Init ==
    /\ defined \in [Jobs -> SUBSET Nodes]
    /\ sources \in [Jobs -> [Nodes -> SUBSET (Nodes \cup Ghosts)]]
    /\ stored = Absent
    /\ stage = [j \in Jobs |-> "queued"]
    /\ ctx = [j \in Jobs |-> NoContext]
    /\ promise = [j \in Jobs |-> [n \in Nodes |-> "idle"]]
    /\ wave = [j \in Jobs |-> {}]
    /\ toMark = [j \in Jobs |-> {}]
    /\ started = [j \in Jobs |-> [n \in Nodes |-> 0]]
    /\ outcome = [j \in Jobs |-> [n \in Nodes |-> "none"]]
    /\ verdict = [j \in Jobs |-> "none"]
    /\ cause = [j \in Jobs |-> "none"]
    /\ scripts = [j \in Jobs |-> {}]
    /\ trailing = [j \in Jobs |-> {}]
    /\ faults = 0

-----------------------------------------------------------------------------
(* execute(): initialize, then WORKFLOW_STARTED.                           *)

\* initialize: a context that is there is resumed.
LoadContext(j) ==
    /\ stage[j] = "queued"
    /\ IF stored # Absent
       THEN /\ ctx' = [ctx EXCEPT ![j] = stored]
            /\ stage' = [stage EXCEPT ![j] = "looping"]
       ELSE /\ stage' = [stage EXCEPT ![j] = "creating"]
            /\ UNCHANGED ctx
    /\ UNCHANGED <<definition, after, stored, promise, wave, toMark, eventVars, faults>>

\* initializeContext and saveContext.
CreateContext(j) ==
    /\ stage[j] = "creating"
    /\ LET fresh == [NoContext EXCEPT !.all = defined[j]]
       IN  /\ ctx' = [ctx EXCEPT ![j] = fresh]
           /\ stored' = fresh
    /\ stage' = [stage EXCEPT ![j] = "looping"]
    /\ UNCHANGED <<definition, after, promise, wave, toMark, eventVars, faults>>

\* A Redis command of initialize fails. The call is outside the try block, so
\* execute() rejects without an event and the server only logs it.
InitializeFails(j) ==
    /\ stage[j] \in {"queued", "creating"}
    /\ faults < MaxFaults
    /\ faults' = faults + 1
    /\ stage' = [stage EXCEPT ![j] = "done"]
    /\ cause' = [cause EXCEPT ![j] = "init"]
    /\ UNCHANGED <<definition, after, stored, ctx, promise, wave, toMark, started,
                   outcome, verdict>>

-----------------------------------------------------------------------------
(* executeWorkflow                                                         *)

\* The catch of execute(): WORKFLOW_FAILED.
Fail(j, why) ==
    /\ stage' = [stage EXCEPT ![j] = "done"]
    /\ verdict' = [verdict EXCEPT ![j] = "WORKFLOW_FAILED"]
    /\ cause' = [cause EXCEPT ![j] = why]

\* The synchronous part of executeReadyNodes' map, for one node.
Launch(j, n) ==
    CASE n \notin defined[j]                          -> "savedErr"
      [] n \in defined[j] /\ ResolveThrows(j, n)      -> "rejected"
      [] OTHER                                        -> "running"

\* Some node is ready: all ready nodes start, NODE_STARTED for each.
StartWave(j) ==
    /\ stage[j] = "looping"
    /\ ReadyNodes(j) # {}
    /\ stage' = [stage EXCEPT ![j] = "wave"]
    /\ wave' = [wave EXCEPT ![j] = ReadyNodes(j)]
    /\ promise' = [promise EXCEPT ![j] =
          [n \in Nodes |-> IF n \in ReadyNodes(j) THEN Launch(j, n) ELSE @[n]]]
    /\ started' = [started EXCEPT ![j] =
          [n \in Nodes |-> IF n \in ReadyNodes(j) /\ Launch(j, n) = "running"
                           THEN @[n] + 1 ELSE @[n]]]
    /\ UNCHANGED <<definition, after, stored, ctx, toMark, outcome, verdict, cause, faults>>

\* Mutant: the loop breaks without an error when nothing is ready.
NothingReadyBreaks(j) ==
    /\ stage[j] = "looping"
    /\ ReadyNodes(j) = {}
    /\ ~(ctx[j].all \subseteq ctx[j].completed)
    /\ IF OutputThrows(j)
       THEN Fail(j, "output")
       ELSE /\ stage' = [stage EXCEPT ![j] = "done"]
            /\ verdict' = [verdict EXCEPT ![j] = "WORKFLOW_COMPLETED"]
            /\ UNCHANGED cause
    /\ UNCHANGED <<definition, after, stored, ctx, promise, wave, toMark, started,
                   outcome, faults>>

\* Mutant: the loop goes round again when nothing is ready.
NothingReadySpins(j) ==
    /\ stage[j] = "looping"
    /\ ReadyNodes(j) = {}
    /\ ~(ctx[j].all \subseteq ctx[j].completed)
    /\ UNCHANGED vars

\* handleCircularDependency
NothingReady(j) ==
    /\ stage[j] = "looping"
    /\ ReadyNodes(j) = {}
    /\ ~(ctx[j].all \subseteq ctx[j].completed)
    /\ Fail(j, "circular")
    /\ UNCHANGED <<definition, after, stored, ctx, promise, wave, toMark, started,
                   outcome, faults>>

\* The loop is over: extractFinalOutput and WORKFLOW_COMPLETED.
Finish(j) ==
    /\ stage[j] = "looping"
    /\ ctx[j].all \subseteq ctx[j].completed
    /\ IF OutputThrows(j)
       THEN Fail(j, "output")
       ELSE /\ stage' = [stage EXCEPT ![j] = "done"]
            /\ verdict' = [verdict EXCEPT ![j] = "WORKFLOW_COMPLETED"]
            /\ UNCHANGED cause
    /\ UNCHANGED <<definition, after, stored, ctx, promise, wave, toMark, started,
                   outcome, faults>>

\* emitEvent for a node: it does not ask whether the job has had its last event.
Emit(j, event) ==
    trailing' = [trailing EXCEPT ![j] = IF verdict[j] = "none" THEN @ ELSE @ \cup {event}]

\* The node's execute() returns: NODE_COMPLETED or NODE_FAILED, and updateNode
\* records the execution in the live context before its first await. Nothing
\* here depends on the stage: a node outlives a wave that was rejected. A code
\* node returns at the result line, and its script may run on.
NodeReturns(j, n, success) ==
    /\ promise[j][n] = "running"
    /\ promise' = [promise EXCEPT ![j][n] = IF success THEN "savingOk" ELSE "savingErr"]
    /\ LET event == IF success THEN "NODE_COMPLETED" ELSE "NODE_FAILED" IN
          outcome' = [outcome EXCEPT ![j][n] = event] /\ Emit(j, event)
    /\ ctx' = [ctx EXCEPT ![j].exec[n] = IF success THEN "ok" ELSE "err"]
    /\ \/ n \in Code /\ scripts' = [scripts EXCEPT ![j] = @ \cup {n}]
       \/ UNCHANGED scripts
    /\ UNCHANGED <<definition, stored, stage, wave, toMark, started, verdict,
                   cause, faults>>

\* onEvent, of a node that runs or of a script that runs on: each line it
\* prints is a NODE_LOG.
NodeTells(j, n) ==
    /\ \/ promise[j][n] = "running" /\ \E event \in Interim : Emit(j, event)
       \/ n \in scripts[j] /\ Emit(j, "NODE_LOG")
    /\ UNCHANGED <<definition, stored, jobVars, eventVars, scripts, faults>>

\* A script that ran on ends.
ScriptEnds(j, n) ==
    /\ n \in scripts[j]
    /\ scripts' = [scripts EXCEPT ![j] = @ \ {n}]
    /\ UNCHANGED <<definition, stored, jobVars, eventVars, trailing, faults>>

\* The node's execute() throws (a stream that breaks in a for await, an
\* unknown node type): no event, no record.
NodeThrows(j, n) ==
    /\ promise[j][n] = "running"
    /\ promise' = [promise EXCEPT ![j][n] = "rejected"]
    /\ UNCHANGED <<definition, after, stored, stage, ctx, wave, toMark, eventVars, faults>>

\* Mutant: sync() writes a copy taken when the wave began, plus this node.
SaveNodeOverCopy(j, n) ==
    /\ promise[j][n] \in {"savingOk", "savingErr"}
    /\ IF stored = Absent
       THEN /\ promise' = [promise EXCEPT ![j][n] = "rejected"]
            /\ UNCHANGED stored
       ELSE /\ promise' = [promise EXCEPT
                             ![j][n] = IF @ = "savingOk" THEN "savedOk" ELSE "savedErr"]
            /\ stored' = [ctx[j] EXCEPT !.exec =
                  [m \in Nodes |-> IF m = n \/ m \in ctx[j].completed
                                   THEN ctx[j].exec[m] ELSE "none"]]
    /\ UNCHANGED <<definition, after, stage, ctx, wave, toMark, eventVars, faults>>

\* Mutant: serializeContext leaves allNodes out.
SaveNodeWithoutAll(j, n) ==
    /\ promise[j][n] \in {"savingOk", "savingErr"}
    /\ IF stored = Absent
       THEN /\ promise' = [promise EXCEPT ![j][n] = "rejected"]
            /\ UNCHANGED stored
       ELSE /\ promise' = [promise EXCEPT
                             ![j][n] = IF @ = "savingOk" THEN "savedOk" ELSE "savedErr"]
            /\ stored' = [completed |-> ctx[j].completed, exec |-> ctx[j].exec]
    /\ UNCHANGED <<definition, after, stage, ctx, wave, toMark, eventVars, faults>>

\* sync() of updateNode; updateContext throws when the key is gone.
SaveNode(j, n) ==
    /\ promise[j][n] \in {"savingOk", "savingErr"}
    /\ IF stored = Absent
       THEN /\ promise' = [promise EXCEPT ![j][n] = "rejected"]
            /\ UNCHANGED stored
       ELSE /\ promise' = [promise EXCEPT
                             ![j][n] = IF @ = "savingOk" THEN "savedOk" ELSE "savedErr"]
            /\ stored' = ctx[j]
    /\ UNCHANGED <<definition, after, stage, ctx, wave, toMark, eventVars, faults>>

\* A Redis command of that sync() fails.
SaveNodeFails(j, n) ==
    /\ promise[j][n] \in {"savingOk", "savingErr"}
    /\ faults < MaxFaults
    /\ faults' = faults + 1
    /\ promise' = [promise EXCEPT ![j][n] = "rejected"]
    /\ UNCHANGED <<definition, after, stored, stage, ctx, wave, toMark, eventVars>>

\* Promise.all rejects with the first rejection, whatever the others do.
WaveRejects(j) ==
    /\ stage[j] = "wave"
    /\ \E n \in wave[j] : promise[j][n] = "rejected"
    /\ Fail(j, "throw")
    /\ UNCHANGED <<definition, after, stored, ctx, promise, wave, toMark, started,
                   outcome, faults>>

\* Mutant: the first unsuccessful result fails the workflow at once.
WaveResolvesEarly(j) ==
    /\ stage[j] = "wave"
    /\ IF \E n \in wave[j] : promise[j][n] = "savedErr"
       THEN Fail(j, "node") /\ UNCHANGED toMark
       ELSE /\ \A n \in wave[j] : promise[j][n] = "savedOk"
            /\ stage' = [stage EXCEPT ![j] = "marking"]
            /\ toMark' = [toMark EXCEPT ![j] = wave[j]]
            /\ UNCHANGED <<verdict, cause>>
    /\ UNCHANGED <<definition, after, stored, ctx, promise, wave, started, outcome, faults>>

\* Promise.all resolves: an unsuccessful result fails the workflow, otherwise
\* the nodes of the wave are marked completed.
WaveResolves(j) ==
    /\ stage[j] = "wave"
    /\ \A n \in wave[j] : promise[j][n] \in {"savedOk", "savedErr"}
    /\ IF \E n \in wave[j] : promise[j][n] = "savedErr"
       THEN Fail(j, "node") /\ UNCHANGED toMark
       ELSE /\ stage' = [stage EXCEPT ![j] = "marking"]
            /\ toMark' = [toMark EXCEPT ![j] = wave[j]]
            /\ UNCHANGED <<verdict, cause>>
    /\ UNCHANGED <<definition, after, stored, ctx, promise, wave, started, outcome, faults>>

\* markNodeCompleted for the next result: the live set, then sync().
MarkNodeCompleted(j) ==
    /\ stage[j] = "marking"
    /\ \E n \in toMark[j] :
          LET marked == [ctx[j] EXCEPT !.completed = @ \cup {n}] IN
          /\ ctx' = [ctx EXCEPT ![j] = marked]
          /\ toMark' = [toMark EXCEPT ![j] = @ \ {n}]
          /\ IF stored = Absent
             THEN Fail(j, "context") /\ UNCHANGED stored
             ELSE /\ stored' = marked
                  /\ stage' = [stage EXCEPT
                                 ![j] = IF toMark[j] = {n} THEN "looping" ELSE @]
                  /\ UNCHANGED <<verdict, cause>>
    /\ UNCHANGED <<definition, after, promise, wave, started, outcome, faults>>

\* A Redis command of markNodeCompleted fails.
MarkFails(j) ==
    /\ stage[j] = "marking"
    /\ faults < MaxFaults
    /\ faults' = faults + 1
    /\ \E n \in toMark[j] : ctx' = [ctx EXCEPT ![j].completed = @ \cup {n}]
    /\ Fail(j, "context")
    /\ UNCHANGED <<definition, after, stored, promise, wave, toMark, started, outcome>>

-----------------------------------------------------------------------------
(* The environment.                                                        *)

\* The stored context expires or is evicted.
LoseContext ==
    /\ stored # Absent
    /\ faults < MaxFaults
    /\ faults' = faults + 1
    /\ stored' = Absent
    /\ UNCHANGED <<definition, after, jobVars, eventVars>>

\* The runner dies and takes every promise of the job with it.
RunnerDies(j) ==
    /\ stage[j] # "queued"
    /\ stage[j] # "dead"
    /\ faults < MaxFaults
    /\ faults' = faults + 1
    /\ stage' = [stage EXCEPT ![j] = "dead"]
    /\ promise' = [promise EXCEPT ![j] = [n \in Nodes |-> "idle"]]
    /\ wave' = [wave EXCEPT ![j] = {}]
    /\ toMark' = [toMark EXCEPT ![j] = {}]
    /\ scripts' = [scripts EXCEPT ![j] = {}]
    /\ UNCHANGED <<definition, stored, ctx, eventVars, trailing>>

-----------------------------------------------------------------------------
Control(j) ==
    \/ LoadContext(j)
    \/ CreateContext(j)
    \/ StartWave(j)
    \/ NothingReady(j)
    \/ Finish(j)
    \/ WaveRejects(j)
    \/ WaveResolves(j)
    \/ MarkNodeCompleted(j)

Node(j, n) ==
    \/ \E success \in BOOLEAN : NodeReturns(j, n, success)
    \/ NodeThrows(j, n)
    \/ SaveNode(j, n)

Next ==
    \/ \E j \in Jobs :
          \/ Control(j)
          \/ \E n \in Nodes : Node(j, n) \/ SaveNodeFails(j, n)
                              \/ NodeTells(j, n) \/ ScriptEnds(j, n)
          \/ InitializeFails(j)
          \/ MarkFails(j)
          \/ RunnerDies(j)
    \/ LoseContext

Spec == Init /\ [][Next]_vars

\* The event loop runs every continuation. That node implementations settle is
\* an assumption: a jailed script has nsjail's time limit, an unjailed one has
\* none, nor has a query of the PostgreSQL tool, and a wave waits for either.
Fairness ==
    \A j \in Jobs :
        /\ WF_vars(Control(j))
        /\ \A n \in Nodes : WF_vars(Node(j, n))

FairSpec == Spec /\ Fairness

-----------------------------------------------------------------------------
TypeOK ==
    /\ defined \in [Jobs -> SUBSET Nodes]
    /\ sources \in [Jobs -> [Nodes -> SUBSET (Nodes \cup Ghosts)]]
    /\ stored \in Contexts \cup {Absent}
    /\ stage \in [Jobs -> Stages]
    /\ ctx \in [Jobs -> Contexts]
    /\ promise \in [Jobs -> [Nodes -> Promises]]
    /\ wave \in [Jobs -> SUBSET Nodes]
    /\ toMark \in [Jobs -> SUBSET Nodes]
    /\ started \in [Jobs -> [Nodes -> Nat]]
    /\ outcome \in [Jobs -> [Nodes -> {"none", "NODE_COMPLETED", "NODE_FAILED"}]]
    /\ verdict \in [Jobs -> {"none", "WORKFLOW_COMPLETED", "WORKFLOW_FAILED"}]
    /\ cause \in [Jobs -> Causes]
    /\ scripts \in [Jobs -> SUBSET Nodes]
    /\ trailing \in [Jobs -> SUBSET (Interim \cup {"NODE_COMPLETED", "NODE_FAILED"})]
    /\ faults \in 0..MaxFaults

(* A node is started only when every node its inputs name has succeeded,   *)
(* in this job or in the one whose context was resumed, and that stays     *)
(* true of the live context: resolveInputs never meets a missing source.   *)
DependencyOrder ==
    \A j \in Jobs : \A n \in Nodes :
        started[j][n] > 0 =>
            \A d \in sources[j][n] : d \in Nodes /\ ctx[j].exec[d] = "ok"

(* A context that names a node as completed holds its successful output:   *)
(* in memory, and in Redis where another runner may resume from it,        *)
(* although node results and completion marks are written by separate,     *)
(* interleaved syncs.                                                      *)
CompletedHaveOutput ==
    /\ \A j \in Jobs : \A n \in ctx[j].completed : ctx[j].exec[n] = "ok"
    /\ stored # Absent => \A n \in stored.completed : stored.exec[n] = "ok"

(* One job runs no node twice.                                             *)
RunOnce == \A j \in Jobs : \A n \in Nodes : started[j][n] <= 1

(* A job runs its nodes once and in order, and passes on what they return, *)
(* although another job of the trigger, given another version of the       *)
(* workflow, writes the same stored context, which either may resume from. *)
NodesOnceInOrder == DependencyOrder /\ RunOnce /\ CompletedHaveOutput

(* After WORKFLOW_COMPLETED, or WORKFLOW_FAILED with a cause other than a  *)
(* rejected wave, no node of the job is still running or saving, and no    *)
(* event of a node follows the final event but a NODE_LOG, of a code node  *)
(* that has reported its outcome and whose script runs on.                 *)
QuietAfterVerdict ==
    \A j \in Jobs :
        verdict[j] # "none" /\ cause[j] # "throw" =>
            /\ \A n \in Nodes : promise[j][n] \notin Unsettled
            /\ trailing[j] \subseteq {"NODE_LOG"}
            /\ trailing[j] # {} => \E n \in Code : outcome[j][n] # "none"

(* Nodes that wait for one another, or for an id the workflow does not     *)
(* have: a reference definition of a workflow that cannot complete.        *)
Blocked(j) ==
    \E S \in SUBSET defined[j] :
        /\ S # {}
        /\ \A n \in S : \E d \in sources[j][n] : d \in S \/ d \notin defined[j]

\* No edit came between the triggers: all jobs are given the same workflow.
SameWorkflow == \A i, j \in Jobs : defined[i] = defined[j] /\ sources[i] = sources[j]

(* The wave scheduler agrees with that reference, unless the workflow was  *)
(* edited between its triggers: it reports a circular or unreachable       *)
(* dependency only for a blocked graph, and completes only a graph that is *)
(* not, with every node executed successfully, by the job or by one that   *)
(* left its context to it.                                                 *)
SchedulerSound ==
    SameWorkflow => \A j \in Jobs :
        /\ cause[j] = "circular" => Blocked(j)
        /\ verdict[j] = "WORKFLOW_COMPLETED" =>
              /\ ~Blocked(j)
              /\ \A n \in defined[j] : \E i \in Jobs : outcome[i][n] = "NODE_COMPLETED"

(* What job j looks like to a consumer of its events.                      *)
SeenOf(j) ==
    [n \in Nodes |-> CASE outcome[j][n] # "none" -> outcome[j][n]
                       [] outcome[j][n] = "none" /\ started[j][n] > 0 -> "NODE_STARTED"
                       [] OTHER -> "silent"]
RunOf(j) ==
    IF verdict[j] # "none" THEN verdict[j]
    ELSE IF stage[j] \in {"done", "dead"} THEN "lost"
    ELSE IF stage[j] \in {"queued", "creating"} THEN "unborn"
    ELSE "open"

Events(j) == INSTANCE RunEvents WITH
    sources   <- sources[j],
    members   <- ctx[j].all,
    inherited <- {n \in ctx[j].completed : started[j][n] = 0},
    seen      <- SeenOf(j),
    trailing  <- trailing[j],
    run       <- RunOf(j)

(* The executor implements the event protocol: what a consumer of a run's  *)
(* events may rely on holds of every job, fresh or resumed, next to        *)
(* whatever the other jobs of the same trigger do.                         *)
ImplementsRunEvents ==
    /\ \A j \in Jobs : Events(j)!Init
    /\ [][\A j \in Jobs : [Events(j)!Next]_(Events(j)!vars)]_vars

(* As long as one job works on a context, the stored context never loses   *)
(* a recorded execution or a completion mark, although the nodes of a wave *)
(* read and rewrite it concurrently.                                       *)
StoredNeverRegresses ==
    [][stored # Absent /\ stored' # Absent =>
          /\ stored.completed \subseteq stored'.completed
          /\ \A n \in Nodes : stored.exec[n] # "none" => stored'.exec[n] # "none"]_vars

(* Every job that starts comes to an end, and so does every node it        *)
(* started, the ones a rejected wave left behind included.                 *)
EveryJobSettles ==
    \A j \in Jobs :
        (stage[j] # "queued") ~> /\ stage[j] \in {"done", "dead"}
                                 /\ \A n \in Nodes : promise[j][n] \notin Unsettled

-----------------------------------------------------------------------------
(* What the properties above rest on, job by job.                          *)

\* A context: what is completed is a node of it, with a successful output.
SoundContext(c) ==
    c.completed \subseteq c.all /\ \A n \in c.completed : c.exec[n] = "ok"

ContextInv ==
    /\ \A j \in Jobs : SoundContext(ctx[j])
    /\ stored # Absent => SoundContext(stored)

\* A job has its last event, or a cause without one, only when it is over.
VerdictInv ==
    \A j \in Jobs :
        /\ stage[j] \notin {"done", "dead"} => verdict[j] = "none" /\ cause[j] = "none"
        /\ cause[j] = "throw" => verdict[j] = "WORKFLOW_FAILED"
        /\ stage[j] \in {"queued", "creating"} =>
              ctx[j] = NoContext /\ \A n \in Nodes : started[j][n] = 0

\* Promises are pending in a wave, for its nodes, and after a rejected one.
PendingInv ==
    \A j \in Jobs : \A n \in Nodes : promise[j][n] \in Unsettled =>
        \/ stage[j] = "wave" /\ n \in wave[j]
        \/ stage[j] = "done" /\ cause[j] = "throw"

\* What a promise has left behind.
PromiseLeft(j, n) ==
    /\ promise[j][n] = "running" =>
          started[j][n] > 0 /\ outcome[j][n] = "none" /\ n \notin ctx[j].completed
    /\ promise[j][n] \in {"savingOk", "savedOk"} =>
          /\ started[j][n] > 0 /\ outcome[j][n] = "NODE_COMPLETED"
          /\ ctx[j].exec[n] = "ok"
    /\ outcome[j][n] # "none" => started[j][n] > 0

PromiseInv == \A j \in Jobs : \A n \in Nodes : PromiseLeft(j, n)

\* A wave takes nodes that are not completed, and marks nodes that succeeded.
WaveTakes(j) ==
    /\ stage[j] = "wave" => wave[j] \subseteq ctx[j].all \ ctx[j].completed
    /\ stage[j] = "marking" =>
          toMark[j] \subseteq ctx[j].all /\ \A n \in toMark[j] : promise[j][n] = "savedOk"

WaveInv == \A j \in Jobs : WaveTakes(j)

\* A node is started once, after the nodes it needs are completed, and then is
\* completed itself unless the wave still has to do with it.
StartedOnce(j, n) ==
    /\ started[j][n] <= 1
    /\ started[j][n] > 0 =>
          /\ sources[j][n] \subseteq ctx[j].completed
          /\ stage[j] = "looping" => n \in ctx[j].completed
          /\ stage[j] = "wave" => n \in ctx[j].completed \cup wave[j]
          /\ stage[j] = "marking" => n \in ctx[j].completed \cup toMark[j]
          /\ n \in ctx[j].completed => outcome[j][n] = "NODE_COMPLETED"

StartedInv == \A j \in Jobs : \A n \in Nodes : StartedOnce(j, n)

\* Nodes that wait for one another, or for an id that is not there.
Waiting(j, S) ==
    S \subseteq defined[j] /\ \A n \in S : \E d \in sources[j][n] : d \in S \/ d \notin defined[j]

\* A context of the jobs' workflow: completed nodes have run, and none of them
\* waits for one another.
WorkflowContext(j, c) ==
    /\ c.all = defined[j]
    /\ \A n \in c.completed : \E i \in Jobs : outcome[i][n] = "NODE_COMPLETED"
    /\ \A S \in SUBSET defined[j] : Waiting(j, S) => S \cap c.completed = {}

\* A job that may still write its context.
Live(j) ==
    stage[j] \in {"looping", "wave", "marking"} \/ \E n \in Nodes : promise[j][n] \in Unsettled

SchedulerInv ==
    SameWorkflow => \A j \in Jobs :
        /\ Live(j) => WorkflowContext(j, ctx[j])
        /\ stored # Absent => WorkflowContext(j, stored)

\* What is stored of a job that is alone is what it had.
StoredBehind(j) ==
    stored # Absent =>
        /\ stage[j] \notin {"queued", "creating"}
        /\ stored.completed \subseteq ctx[j].completed
        /\ \A n \in Nodes : stored.exec[n] # "none" => ctx[j].exec[n] # "none"

\* Scripts that run on are of code nodes that reported, and nothing else is
\* heard after a last event that no rejected wave brought about.
TrailInv ==
    \A j \in Jobs :
        /\ \A n \in scripts[j] : n \in Code /\ outcome[j][n] # "none"
        /\ verdict[j] = "none" => trailing[j] = {}
        /\ verdict[j] # "none" /\ cause[j] # "throw" =>
              /\ trailing[j] \subseteq {"NODE_LOG"}
              /\ trailing[j] # {} => \E n \in Code : outcome[j][n] # "none"

ExecutorInv ==
    /\ TypeOK
    /\ ContextInv /\ VerdictInv /\ PendingInv /\ PromiseInv /\ WaveInv /\ StartedInv
    /\ TrailInv
=============================================================================
