# A TLA+ model of supallm

supallm runs user-built workflows (graphs of LLM, agent, code and tool nodes).
A Go **backend** stores projects and workflows, compiles the drawn graphs,
accepts triggers and streams run events to clients. TypeScript **runners** take
triggered workflows from a Redis queue and execute them. A Next.js **frontend**
draws the graphs, saves them and tries them out. This directory holds the
specification of the parts that have to agree with one another while processes
fail, retry and interleave: TLA+ modules, TLC configurations, and theorems proved
with TLAPS.

Paths below are relative to the repository root.

## 1. Inventory

### Components, their state and their operations

| component | source | state | operations |
|---|---|---|---|
| Job queue | `runner/src/services/queue`, `runner/src/server.ts`, `runner/src/index.ts`; publisher `backend/internal/adapters/runner` | Redis stream `workflows:downstream:run` (MAXLEN ~400), group `runner-consumer-group` with its last-delivered-id, pending entries and consumers; per runner `activeJobs` and the processMessage calls in flight | XADD by the backend; `initialize` (create group, clean up idle consumers), the consume loop, `processMessage`, acknowledgement, signal, exit |
| Executor and execution context | `runner/src/services/workflow`, `runner/src/services/context` | per run: the live context (all nodes, completed nodes, node executions), the wave of promises; in Redis one context per `workflowId:triggerId`, 24 h | `execute`: resume or create, waves of ready nodes, node promises, `sync`, completion marks, final output, last event |
| Event pipeline | `runner/src/services/notifier`, `backend/internal/application/event`, `backend/internal/adapters/events`, `backend/internal/infra/http/sse.go` | Redis stream `workflows:upstream:events:dispatch`, each backend's in-memory cursor, per run a sequence counter and a sorted set of events (5 min), the SSE connections | publish, number, store, retry after a nack, relay, subscribe, resume, deliver |
| Project store | `backend/internal/adapters/project`, `backend/internal/application/command`, `backend/internal/application/domain/model` | PostgreSQL rows of projects (with a version), credentials and workflows (with a cached compiled flow) | commands that retrieve a whole project, change it and write it back in one transaction; one-row inserts and deletes; the background update after a trigger |
| Flow compiler | `backend/internal/application/domain/model/workflow.go` | none (pure, but over Go maps) | builder flow (nodes, edges) to the runner's flow (inputs with sources, outputs, tools, memories) |
| Execution queries | `backend/internal/application/query`, `backend/internal/adapters/execution` | none of their own | read-only views of the stored context |
| Nodes | `runner/src/nodes` | a code node's sandbox directory, process and output buffer; a chat node's answer so far; an agent's tools and calls | `execute` of each node type |
| Conversation memory | `runner/src/memory` | one Redis key per session and node, for an hour | read, and read-extend-write, by concurrent runs |
| Tools | `runner/src/tools` | none | one remote call each, reported by events |
| HTTP, authentication, error mapping | `backend/internal/infra/http`, `backend/internal/pkg/auth`, `backend/internal/pkg/errs`, `backend/internal/pkg/server` | none | request mapping |
| Secrets, configuration, clients | `backend/internal/pkg`, `runner/src/services/secret`, `runner/src/utils` | Redis and PostgreSQL connections | encrypt, decrypt, connect |
| Frontend: flow builder | `frontend/src/app/builder`, `frontend/src/components/builder/nodes` | React Flow's nodes and edges; for each node with settings the node's data, its form, and its sheet's form | draw, connect, edit handles, configure; open, confirm, cancel a sheet |
| Frontend: pages | `frontend/src/app/dashboard/flows`, `frontend/src/core`, `frontend/src/hooks` | two stores (the list, the current flow), a debounce timer, requests under way | open, go back, create, delete, rename, save automatically |
| Frontend: test dialog | `frontend/src/components/builder/test-flow-dialog` | running flag, session, subscriptions, results, picture of the running flow | start, stop, close, reopen, reset the session, switch panes, hear events |

### Interactions

    builder --PATCH (debounced)--> backend --compile--> cached definition
    client --trigger--> backend --XADD--> stream "run" --XREADGROUP--> runner
                                                                        | execute()
                                            context key  <--GET/SET---- |--> nodes, tools
                                            memory key   <--GET/SET---- |
    client <--SSE-- every backend <--XREAD-- stream "dispatch" <--XADD- |
                        | INCR, ZADD
                        v
                  sequence key, event log

The backend and a runner never call one another: everything between them is one
of the two streams or the context key. The only synchronisation is what Redis
serialises. Every `await` on Redis, a node or a model provider is a point where
other promises of the process, other processes, a signal or a crash act.

### What is hard

* A runner reads with a COUNT that it computed before a read that may block for
  hours, and reads with `>` only: nothing redelivers what a dead runner held.
* A starting runner claims, acknowledges and deletes what other consumers have
  pending, judged by an idle time that a busy, healthy runner also shows.
* Sibling nodes run as unawaited promises that outlive a rejected `Promise.all`
  and rewrite one shared context.
* A trigger id used again resumes the stored context of an earlier run,
  possibly with another version of the workflow, possibly while it still runs.
* Event storage is two Redis commands, retried as a whole, by every backend.
* A client connects in the middle of storing and relaying an event.
* A project is written back as a whole by commands that read it earlier, table
  by table, under a version check that compares with a version read afterwards.
* Those transactions lock rows in the random order of Go maps.
* What Go's maps enumerate in the definition compiled from a flow has no order.
* An edge of the builder may outlive a handle it joins, which is drawn from data
  that a form, a script or a label being typed changes.
* The same settings of a node exist in its data, in its form, in the sheet's form
  and in the values that form is reset to; a Cancel may submit what it has reset.
* A save carries the flow's name and a rename its drawing, each as its maker saw
  them; neither requests nor answers are ordered or cancelled, and answers go
  into stores that other pages use by now.
* Runs of one session read, extend and write back one conversation.
* A sandboxed script's output is cut into chunks anywhere, also within a character,
  its result comes before its end, and it may write and run on, and be logged,
  after its node has returned, its directory is gone and the workflow has ended.
* Tools report per call, but their events name only the tool.
* The test dialog starts a run after an await during which it can be clicked, and
  its picture and its results have subscriptions of their own: a picture may still
  be told of a run that was stopped, and nothing clears what that leaves in it.

### What makes each component correct

* Queue: slots are counted exactly; no message is started twice; none is
  dropped by a runner that stays up; when handlers settle, every message settles
  and every slot returns.
* Executor: a node starts after the results it needs exist, once per run; a
  completed node has a successful output wherever the context is read from;
  only blocked graphs are reported as such; every run whose nodes settle ends, and
  after its end nothing more happens except what a rejected wave left behind, and
  the NODE_LOG of a code node whose script runs on.
* Events: numbers never collide, the log follows the emission order, no event
  of the stream is skipped, a client misses nothing its backend stored.
* Project store: an acknowledged update is stored, writing a project back
  disturbs nothing but what overlapping commands changed, a cached compiled flow
  belongs to its builder flow, every request is answered.
* Compiler: the definition is what was drawn (an input is bound to an output it is
  wired to, which exists), and it does not depend on map order.
* Builder: an edge joins handles that are there; what is stored for a node could
  have been confirmed in its sheet, and was, or is what the node was mounted with; a
  discarded draft is gone, but for the two kinds that the code keeps.
* Pages: what is stored of a flow was made for it, and when the user rests, what is
  shown is what is stored.
* Nodes: each settles unless it waits for something that has no time limit, and
  what it reports meanwhile agrees with what it returns; a script's first result is
  what its node returns; a sandbox is removed.
* Memory: a conversation is in order and loses no turn except to a run that was
  adding at the same time, or to a fault.
* Dialog: its results are of one run, the last; its picture shows what that run told
  last of each node it told of; it does not run for ever.

`PROJECT.json` lists every hazard with the line where it bites.

## 2. Modules

| module | what it is |
|---|---|
| `QueueConsumer` | stream, group and runner processes |
| `MCQueueConsumer` | its instances for TLC |
| `QueueConsumerProofs` | its inductive invariant and theorems, checked by TLAPS |
| `WorkflowExecutor` | `execute()` and the execution context, several jobs of one trigger |
| `RunEvents` | the event protocol of one run, the abstract specification `WorkflowExecutor` implements |
| `MCWorkflowExecutor` | all small dependency graphs, and edited versions of a workflow |
| `WorkflowExecutorProofs` | its inductive invariant and theorems, and the step simulation of `RunEvents` |
| `EventPipeline` | notifier, dispatch stream, backends, event log, SSE connections |
| `MCEventPipeline` | its instances |
| `EventPipelineProofs` | its inductive invariant and theorems |
| `ProjectStore` | PostgreSQL rows, row locks and version, and the commands that change a project |
| `MCProjectStore` | its instances |
| `ProjectStoreProofs` | its inductive invariant and theorems |
| `FlowCompiler` | the compilation of a drawn flow, as operators |
| `FlowNodes` | the nodes of the builder: the handles each draws, and what it asks for |
| `FlowBuilder` | drawing a flow, with the compiler applied to every flow that can be drawn |
| `NodeSettings` | the sheets in which the settings of a node are edited |
| `MCFlowBuilder` | instances of both: loaded flows, or a node with its sheet |
| `FlowBuilderProofs` | the theorems about what is drawn, what it compiles to, and the settings |
| `FlowPages` | the list and the builder as pages: stores, requests, automatic saves |
| `FlowPagesProofs` | its theorems |
| `CodeSandbox` | one execution of a code node |
| `ChatNodes` | one execution of a chat node of any provider |
| `AgentTools` | an agent's tools and their calls |
| `NodeKinds` | the three, as what `execute()` of a node may do |
| `NodeKindsProofs` | the theorems about sandbox, chats and tools |
| `AgentMemory` | an agent's runs and the conversations of their sessions |
| `TestRuns`, `TestDialog` | the names shared with the dialog; the dialog that tries a flow out |
| `TestSession`, `MCTestSession` | the dialog, the runs it starts and the memory they share, composed |
| `TestSessionProofs` | the inductive invariants and theorems about the conversations and the dialog |

In each module, definitions whose comment begins with "Mutant" are variants of
the definition that follows with one plausible mistake in it. They belong to no
specification; `PROJECT.json` says which property notices which mistake.

### QueueConsumer

A runner draws a random `CONSUMER_NAME` at construction, so an element of
`Runners` is one life of one process. `phase` is where its one sequential
thread of control waits: the group, the steps of `cleanupInactiveConsumers`
(`xinfo`, `cleanup`, `claim`, `ack`, `delete`), `waitForAvailableSlot`
(`poll`), a blocked XREADGROUP (`reading`), its answer (`reply`). `jobs[r][m]`
is where a `processMessage` call waits; those calls interleave freely with the
loop and with one another.

| code | action |
|---|---|
| `WorkflowsRedis.QueueWorkflow` | `QueueWorkflow` (with eviction by MAXLEN) |
| `createConsumerGroup` | `CreateConsumerGroup` |
| `cleanupInactiveConsumers` | `ListInactiveConsumers`, `InspectConsumer`, `ClaimPending`, `AckClaimed`, `DeleteConsumer`, `CleanupDone` |
| `waitForAvailableSlot`, `readMessages` | `ReadMessages`, `ServeRead`, `ReplyLost` |
| `processMessages`, `processMessage`, `acknowledgeMessage` | `ProcessMessages`, `HandlerReturns`, `AcknowledgeMessage`, `ReleaseSlot` |
| signal handlers, `stop`, `process.exit` | `Signal`, `Exit`, `Crash` |

Time is not modelled: whether a consumer looks idle to a starting runner is left
open. This is the code's situation, not a looser one: the threshold is 3 s, and only
XREADGROUP and XCLAIM reset a consumer's idle clock, so a runner whose slots are
taken or whose stream is empty is idle by that measure. An approximate MAXLEN may
evict less than it could; any permitted number is tried.

### WorkflowExecutor and RunEvents

A job is one call of `execute()`; all jobs of the module have one workflow id
and one trigger id, and therefore one stored context. `stage` is where
`execute()` waits, `promise[j][n]` where the promise of one node waits. The
code up to a node's first await runs inside `StartWave`, as the synchronous
`map` does; the record of a result in the live context and its event are one
action with the return of the node (`NodeReturns`), the `sync` after it another
(`SaveNode`). `sync` is GET and SET; what GET returned is used only to see that the
key is there, and the value written is the live context at the time of the SET,
so one action stands for both. `MarkNodeCompleted` likewise marks the live
context and syncs.

`RunEvents` knows neither waves, nor promises, nor a context: it says in five
actions what a consumer of a run's events may count on. `ImplementsRunEvents`
checks that every job implements it under the mapping `SeenOf`, `RunOf`.

A node is seen through its promise: it returns success or an error, or throws.
While it runs it may tell of itself (`NodeTells`: NODE_LOG, NODE_RESULT and the
like). A code node (`Code`) returns with the first result line of its script, which
may go on running and printing (`scripts`) until it ends (`ScriptEnds`): each line
is a NODE_LOG, also after the last event of the run. The data of inputs and outputs
is abstracted to which nodes they name.

### EventPipeline

A backend's router goroutine handles one event at a time: `ReadEvent`,
`TakeSequence` (INCR), `StoreEvent` (the ZADD pipeline), `Relay`; an error in
between (`StoreEventFails`) is a nack, after which the same event is handled
from the start, whether or not the failed command was executed. A connection is
`Subscribe`, `Resume` (ZRANGEBYSCORE), `Open`, `Deliver`. Entries carry the
storing backend (`by`) as history. The watermill router, its Redis stream
subscriber, Go channel and SSE router are modelled from the way the code
configures them: no consumer group, start at the end of the stream, in-memory
topic, subscription before the initial response. Their internal buffers are a
set of messages on the way to a connection, without an order between them.

### ProjectStore

A request is one command of one HTTP request on any backend; requests share
nothing but the database. `mem[r]` is the `*model.Project` of request `r`,
`want[r]` the row its current statement writes, `holder` the row locks, and
`phase[r]` where its handler waits. Kinds of request: "update" (UpdateProjectName,
UpdateAuthProvider, UpdateCredential, UpdateWorkflow), "add", "remove",
"trigger". The text a request writes is the request itself, so a value tells who
wrote it; a compiled flow is the pair of the builder flow and the keys it was
compiled from, and a flow uses every credential.

| code | action |
|---|---|
| `Repository.Retrieve` (one query per table) | `RetrieveProject`, `RetrieveCredentials`, `RetrieveWorkflows` (with the change of the model objects) |
| `AddWorkflow`, `AddCredential` | the same, then `Insert` |
| `DeleteWorkflow`, `DeleteCredential` | `Remove` |
| `TriggerWorkflow` | `QueueWorkflow`, then the goroutine's `Update` |
| `Repository.Update` | `BeginUpdate` (SELECT), `Statement` (each UPDATE or upsert), `Commit` |
| `withTx`, any error | `Deadlocked`, `Fail` |

PostgreSQL is modelled at READ COMMITTED: a statement waits for the lock of its
row and then sees what was committed; the transaction's writes become visible
with `Commit`; a circle of waits is broken by aborting any member of it.
`retryOnConflict` is one attempt: `errors.Is` compares with the zero
`InvalidError`, which nothing inside returns. `Repository.Create` is `Init`. The
handler of the DELETE route of a project calls no command, and API keys are written
once: neither is a step.

### FlowCompiler, FlowNodes and FlowBuilder

`FlowCompiler` is pure: a flow is a record of nodes by id and a sequence of
edges, and `RunnerNodes(id, flow)` the set of definitions a node may be compiled
to, one for each order in which Go may enumerate its maps. `FlowBuilder` draws:
its variable `flow` is what React Flow shows, and its invariants compile every
flow reached.

| code | definition |
|---|---|
| `buildNodeInputs`, `buildResultInputs`, `buildNodeOutputs` | `NodeInputs` (the later edge wins), `ResultInputs` (the first wins), `NodeOutputs` (a set) |
| `getConnectedMemory`, tools and model of an agent, credentials | `ConnectedMemory`, `Connected`, `AgentFails`, `Failures` |
| the React components of the nodes | `Component`, `SourceHandles`, `TargetHandles` |
| `isValidConnection`, `LabeledHandle`, `onConnect` | `ValidConnection`, `ConnectableEnd`, `Connect` |
| `BaseNode` (its effect on edges) | `HandleGone`, in every `SetData` |
| `addNode`, deletions, `onHandleChange`, `removeHandle`, code changes, credential forms | `AddNode`, `DeleteNode`, `DeleteEdge`, `EditHandles`, `EditCode`, `Configure` |

Labels are members of a small set; `EditCode` takes the arguments of a script to
differ also as handles. `Those` keeps the elements of a sequence that are in a set,
in their order: every loop over the edges with a condition is one. `Drawable` says
what a flow may be when the page is opened, and `WellDrawn` that it stays so.

### NodeSettings

One node and its sheet. The twelve sheets are one machine with a record per type
(`SheetOf`): what its inputs let a user enter (the `...Form` of the type), with what
response format it opens, what Cancel does, whether what is confirmed is
validated, whether the node has fields outside it. `Mount`,
`Open`, `Enter`, `TypeHeader`, `CloseSheet`, `Cancel`, `Submit` and `EditField` are the
component's life. Cancel differs most: in the four chat sheets the button is within
the form and has no type, and the sheet stays mounted while it slides out, so that the
click resets the form and then submits what it was reset to; in other sheets it
resets; in the editors it only closes. `typed` is the header of the HTTP tool's sheet
that is entered but not added, which is state beside the form and which no reset
clears. react-hook-form is external: `reset()` goes back to the values of the mount.
A sheet is modal and touches no edge, so `MCFlowBuilder` lets a
page either be drawn on or have its sheet opened.

### FlowPages

`list` and `current` are the two Zustand stores, `timer` what the debounce holds,
`requests` what is under way. A request is made, handled by the backend, and
answered, in any order with others; or it fails. A page that is left leaves its
requests (`live` becomes false) and its timer behind.

| code | action |
|---|---|
| `FlowCard`, `FlowOnly`, `GetFlowUsecase` | `OpenFlow`, `Visit`, `LoadAnswered` |
| the builder's effects and `useDebounce` | `Show`, `Draw`, `SendSave` |
| `PatchFlowUsecase`, `EditableName` | `SaveAnswered`, `Rename` |
| `handleBackClick`, `ListFlowsUsecase` | `GoBack`, `ListAnswered` |
| `CreateFlowUsecase`, `DeleteFlowUsecase` | `CreateFlow`, `CreateAnswered`, `DeleteFlow`, `DeleteAnswered` |
| `hookify`'s error path | `Failed` |

`orderly` and `mixed` are history: whether requests so far kept their order and
succeeded, and whether an answer about one flow was used on another's page. The
properties say what holds *whatever* happens and what holds *while* it is orderly.

### CodeSandbox, ChatNodes, AgentTools, NodeKinds

Nodes share nothing with one another, so `NodeKinds` executes one kind at a time.
`CodeSandbox`: the checks, one of which may throw (`Reject`), the directory
(`Prepare`), npm, tsc and the script one after the other (`ClosePreparation`), the
script's output to two pipes (`Write`; `Die` in the middle of a character), received
in chunks of any size (`DataOut`, `DataErr`), its exit at any time (`Exit`,
`CloseScript`), the removal of the directory (`Return`). A chunk may end within a
character of several bytes, whose halves `Decode` replaces, since `data.toString()`
decodes each chunk alone; the marker of a result is ASCII and is put together again
in the buffer. `Split` is how a buffer with its new chunk becomes lines, token by token
(`Reading`); `Before` is what is logged of the lines of stdout, all lines of stderr
are. `jailed` says whether nsjail runs the processes, which ends them after its default
time (`JailEnds`; `nsjail.nodejs.proto` sets no other). `ChatNodes`: validation,
the call, the chunks, and the end or the breaking of the stream; the seven
providers differ in a record each. `AgentTools`: a tool is the sequence of its
awaits and the position of TOOL_COMPLETED among them; calls of one message run at
the same time. An HTTP answer has a `body` or none; one that was read cannot be read
again (`Spent`). `Unlimited` are the tools whose clients have no time limit.
LangChain, LangGraph and the remote services are external: they
answer or fail.

### AgentMemory, TestDialog, TestSession

`AgentMemory` has the runs of one agent node: `Execute`, `GetMessages`, `Stream`,
`AnswerEnds`, `Fetch` and `Set` (the two commands of `addMessages`), with faults
of Redis and `Expire`. A turn is named by its run. `met` and `earlier` are
history: which runs were adding at once, and which were done when a run began.

`TestDialog` has the button (`TestFlow`, `StartRun`, `NoToken`, `Stop`, `Close`,
`Open`, `ResetSession`), the panes (`SwitchPane`) and the callbacks (`Hear`), its
own and those of the picture (`Attach`, `AttachRun`). The picture has a status for
each of three nodes: the agent, a node after it (which a run reaches only when its
agent returned; tools are like it, in that a run need not call them) and the result.
Nothing resets a status when another run's subscription replaces the one before.
`TestSession` composes the two: a start of the dialog is an `Execute` with the
session it was clicked with, the node after the agent returns or throws
(`AfterReturns`), and each run's events (`EventsOf`) reach the dialog in order. The
SDK that delivers them is
another package; it is assumed to deliver in order, and not before React has run
the effects of the start.

## 3. Runs

Deadlock is not checked in any run: in every bounded instance the bounds run
out, or all work is done, and the system rightly waits.

| run | instance | states | what it shows |
|---|---|---|---|
| `queue_safety` | 2 runners with 2 slots, 3 messages, MAXLEN 2, one fault (a death or a lost reply) | 1 861 129 | `SlotAccounting`, `AtMostOnce`, `Accounted`, `PendingUntilHandled`, `TypeOK` |
| `queue_liveness` | 2 runners with 1 slot, 2 messages, MAXLEN 2, one fault | 40 983 | `EveryMessageSettles`, `SlotsComeBack` under fairness |
| `queue_ack` | 2 runners, 2 messages, no fault | about 1 100, then the violation | counterexample to `AcknowledgedAfterProcessing` |
| `executor_graphs` | 1 job, every graph over 3 nodes and an unknown id (4096), 2 faults | 107 956 | `SchedulerSound`, `QuietAfterVerdict`, `ImplementsRunEvents`, `StoredNeverRegresses`, `EveryJobSettles`, `TypeOK` |
| `executor_retrigger` | 2 jobs, 4 versions of a 3-node workflow each, one fault | 1 139 026 | `NodesOnceInOrder` when two jobs share a context |
| `events_scaled` | 2 backends, 1 client, 2 events, stream of length 1, one fault | 773 511 | `SequencesUnique`, `LogFollowsStream`, `NothingSkipped`, `ClientMissesNothing`, `TypeOK` |
| `events_delivery` | 1 backend, 1 client, 2 runs, 2 events, stream of length 1, 2 faults | 128 945 | `BackendKeepsUp`, `ClientCatchesUp` under fairness |
| `store_commands` | 3 requests, 2 workflows, 1 credential, one failure | 125 176 | `CacheMatchesFlow`, `DisturbsOnlyWhatChanged`, `AcknowledgedUpdatesStored`, `EveryRequestAnswered`, `TypeOK` |
| `builder_drawing` | all flows of up to 2 edges (beside an agent's model edge) over three sets of nodes, 2 edits; a node of each type with its sheet | 86 467 | `WellDrawn`, `CompilesToDrawing`, `OrderIrrelevant`, `DraftsDiscarded`, `StoredSettingsSound` |
| `builder_pages` | 2 flows, 4 acts of the user | 177 434 | `FlowsKeptApart`, `SavesSettle` under fairness, `TypeOK` |
| `node_reports` | scripts of 3 characters to two pipes, answers of 3 chunks, 2 kinds of tools, 3 calls, 2 faults | 342 822 | `SandboxSound`, `ReportsAgree`, `NodesSettle` under fairness |
| `test_session` | 2 runs, 2 sessions, 1 chunk, one click or fault | 552 840 | `ConversationKept`, `DialogFaithful`, `RunEnds` under fairness |

`NodeKinds!TypeOK` and `TestSession!TypeOK` hold in their runs but are not listed
there: no property but those above says something of its own.

Why the bounds are enough to be interesting:

* Queue: two slots and three messages allow a batch larger than one, a read in
  progress next to a job in flight, and an eviction of an undelivered message;
  the second runner starts while the first is busy, so its cleanup meets live
  claims; the one fault, a death at any await of either runner or a lost reply,
  leaves the other runner (two would leave none, and nothing settles then).
* Executor: three nodes with arbitrary edges include chains, forks, joins, self
  loops, cycles of two and three, unreachable ids, and two siblings that write
  the context concurrently. Two faults allow a lost context followed by a failed
  command or a dead runner. The versions of `executor_retrigger` drop, add and
  rewire a node between two triggers. `ImplementsRunEvents` is checked with one job,
  whose run inherits nothing; runs that resume a context are covered by the theorem
  `ImplementsEvents` alone.
* Events: with a stream of length 1 the second event trims the first, read or not;
  two backends interleave INCR and ZADD; one fault is a half-executed command, a
  lost key or a crash. `connects` counts subscriptions, so the same client may
  reconnect where it is raised; one connection covers every moment it can begin
  relative to the two events. `ClientMissesNothing` is per connection, as the resume
  is.
* Project store: two requests that skip the project's row and two rows to upsert
  are the smallest deadlock, and a third request makes the version move on in
  the meantime. `MCProjectStore.BusyInit` keeps the starts in which the first
  two requests write whole projects; the third is any command. `Deadlocked`
  fires in this instance.

* Builder: two edges of every kind, in either order, are what it takes for two to
  share a source, a target, a handle or a name; the agent's flows have its model
  edge besides. `MaxEdits` = 2 allows an edit that removes a handle and one that
  re-enters it. About 2900 of the states are those of the sheets, where nothing is
  bounded.
* Pages: with two flows and four acts a user can edit A, go back, open B and edit
  it while any of A's requests is still unanswered.
* Nodes: three characters, a marker counting as one, are a result of each kind with
  its end, or a line before a result without one; a chunk may be any part of what is
  unread, cut anywhere. Three calls let two of one tool overlap with one of another.
  `MaxFaults` = 2 are the two attempts to remove the directory.
* Session: two runs are the smallest overlap; a third adds no new kind of pair, and
  the theorem of section 4 is for any number. `MaxBehind` = 1 lets the runner go on
  once all it has caused is heard; a step may cause several events (the return of
  the agent and the start of the node after it), so events are still under way while
  the user acts and while the other run goes on. `MaxChunks` = 1 is one text per
  answer. `MaxDisturbances` = 1 is one click (beside the starts and reopenings, which
  are free) or one fault: one Stop is what a picture needs to be left with a status of
  an older run, and this instance reaches such pictures.

### Fairness

`QueueConsumer.Fairness`: weak fairness of each runner's initialisation and
consume loop, of each job in flight and of the exit after a signal. The event
loop runs every continuation; Redis answers; the handler of a message settles.
Nothing forces a publication, a crash, a signal or a lost reply.
`WorkflowExecutor.Fairness`: the same for a job and each of its promises; a
node may return or throw.

That a handler, and a node, settles is an assumption of `EveryMessageSettles`,
`SlotsComeBack` and `EveryJobSettles`, not a consequence of the code. `NodesSettle`
says how far the code bears it out: for chat nodes, for scripts under nsjail, and for
agents but for two tools. Outside a jail (`DISABLE_NSJAIL`) a script may run for
ever; the PostgreSQL tool's client sets no connection or query timeout
(`postgres-query-tool.ts:123`), and Firecrawl's has one only if the settings say so.
A run with such a node never ends and its slot never comes back. `EveryMessageSettles`
counts a message as settled, too, that its dead runner has abandoned or that was
evicted: it says that nothing is in doubt for ever, not that everything is done.

`EventPipeline.Fairness`: each backend's router and each connection's goroutine. A
failing Redis command may repeat only up to `MaxFaults`: liveness is claimed for a
Redis that eventually answers. `ProjectStore.Fairness`: weak fairness of each
request's handler, which includes PostgreSQL granting a lock that is free and
aborting one member of a circle; that a lock becomes free is a consequence, since
its holder is a request as well. `FlowPages.FairSpec`: the timer fires and some
request makes progress; the user need not act. `NodeKinds.FairSpec`: the event loop
takes every chunk, exit and answer; calls of services end where their clients have
time limits, and need not for the tools in `Unlimited`; a process of a sandbox ends
in a jail and need not outside of one. `NodesSettle` says that these two are the
only ways a node does not settle. `TestSession.FairSpec`: model answers end
(LangGraph limits an agent's loop, a client its call), the node after the agent
returns, and events are delivered; the user need not click. So `RunEnds` is about
the dialog: that it notices every end, whatever was clicked meanwhile. It takes for
granted that runs end and are told of; of a run whose events stop the dialog says
"running" until it is stopped or closed. `NodeSettings` and `FlowBuilder` have no
fairness: nothing there must happen.

### Counterexample

`queue_ack` ends in a counterexample to a sentence of the repository:
`runner/.cursor/rules/general-technical.mdc:68`, "Properly acknowledges messages
after successful processing". A starting runner acknowledges, unprocessed, what
another one has in flight (`redis-queue-consumer.ts:293`). The comment at line 236
speaks of 5 minutes, line 238 has 3 seconds.

### Observed while modelling

What the models follow although a reader may not expect it. None of it is a claim
that the code should change.

Runner and backend:

* `stop()` does not wait for jobs in flight and `process.exit(0)` follows, beside
  "Implements graceful shutdown" (`general-technical.mdc:70`). A node that throws
  leaves no NODE_FAILED, beside "Ensure errors are properly published as events"
  (line 129). Two backends store every event twice, beside "stateless and
  horizontally scalable" (`README.md:184`). The goroutine that stores "the computed
  workflow" after a trigger (`trigger_workflow.go:71`) writes the whole project as
  it was before the trigger.
* `general-technical.mdc:25` speaks of "exactly-once processing". `AtMostOnce` is what
  holds: what a dead runner held, or a starting one claimed, is not processed.
* `command.go:69` compares with the zero `InvalidError`, which nothing inside
  returns: `retryOnConflict` is one attempt.
* A blank credential id panics in `uuid.MustParse` (the HTTP layer recovers). A tool
  node that was never edited makes the agent fail; an unconnected chat node other
  than OpenAI's has no output "response", and its run fails.
* Outside a jail a script has no time limit. `parseCodeForRequiredModules` throws on
  a variable without an initial value. A character of several bytes that a chunk
  cuts is replaced, in the logs and in the result, which then is another one without
  an error. A code node's script may still be logged after WORKFLOW_COMPLETED. A
  process killed by a signal counts as successful in the preparation; `main()`
  returning null is an error of its own kind; a good result whose directory cannot
  be removed at first is reported as one that does not parse.
* A broken stream of a model throws after results were published. Ollama and
  Mistral ignore the configured system prompt, all ignore the response format.
* `HttpTool` reads `response.text()` twice: a request that is answered with a body is
  reported as completed and then as failed, and the agent is told it failed; only an
  answer without a body (204, 205) succeeds.

Frontend:

* Cancel and close reset a sheet to the values of its mount: after a save,
  reopening, cancelling and confirming writes older values back. In the chat sheets
  Cancel alone does it: it submits what it resets to, over what was confirmed since
  the mount. OpenAI's sheets begin with the response format "text" whatever was
  stored, so that Cancel also stores that. The editors' Cancel keeps the text, and a
  header half typed survives in the HTTP tool's sheet; the agent's Confirm does not
  validate.
* A rename sends the drawing of the last answered save, and an automatic save the
  name of its render: crossing each other, one is lost. The late answer to a load
  sets the current flow under another flow's page (`page.tsx:65` relies on it being
  the page's), and the late answer to a save merges one flow's name into another.
  A failed load mounts the builder on what is there.
* Re-entering a label drops the handles behind it. An output wired to two fields of
  the result gets the first only.
* Two starts of the dialog that overlap leave callbacks behind and mix results;
  Stop only unsubscribes, and the run goes on: what it tells the next picture while the
  next start awaits its token stays in it, at nodes and tools that the new run does not
  reach; `events.reverse()` in the pane reverses the array in the
  state.

## 4. Proofs

Every safety property that a run checks, and the refinement of `RunEvents`, is
proved for all values of the constants; what is left to TLC is liveness. The
proofs are in eight modules, each with an inductive invariant, one lemma per part
of it or per action, and the theorems that follow. The parts of an invariant are
defined beside the component, or beside the proof where nothing else speaks of
them; TLC has checked each first. All constants are arbitrary but for the
assumptions named below, which the modules declare and TLC evaluates in the runs.

### Queue

`QueueConsumerProofs` proves, for any finite set of runners, any number of slots
and messages, any stream length and any number of deaths and lost replies:

| theorem | statement |
|---|---|
| `TypeCorrect` | `Spec => []TypeOK` |
| `SlotsRespected` | `Spec => []SlotAccounting` |
| `NeverHandledTwice` | `Spec => []AtMostOnce` |
| `NothingDropped` | `Spec => []Accounted` |
| `PendingTillDone` | `Spec => []PendingUntilHandled` |
| `Inductive` | `Spec => []QueueInv`, from which the first three follow |
| `MessagesInductive` | `Spec => []MessagesInv`, from which the other two follow |

Assumptions: `RunnersAssumption` (finitely many runners, `None` is not one),
`SlotsAssumption` (at least one slot) and `BoundsAssumption` (the bounds are
naturals); TLC evaluates them in every run of the module.

None of these properties is inductive. `SlotAccounting` needs to know that the COUNT of
a read in progress and the jobs in flight together fit the slots, and that a
reply holds at most COUNT messages (`SlotInv`); counting the jobs after a batch
arrives needs that none of the batch is in flight already. That, and
`AtMostOnce`, rest on `DeliveryInv`: what lies beyond the last-delivered-id was
never started and is in no reply and no job; what is in a reply is in no other
reply, in no job, and was never started. It is preserved because a read returns
only entries beyond the last-delivered-id, which never moves back: a second
creation of the group leaves it alone (`GroupInv`). `ReplyInv` says that a
runner holds messages outside a job only while a reply is on its way. The proof
has one lemma per part of the invariant (`TypeStep`, `GroupStep`, `ReplyStep`,
`SlotStep`, `DeliveryStep`, `AtMostOnceStep`) with a case per action that can
disturb it; `QuietSteps` disposes of the actions that touch none of it.

`Accounted` and `PendingUntilHandled` need two facts more (`MessagesInv`): what MAXLEN
trimmed beyond the last-delivered-id is on record as evicted (`EvictedInv`), so that
a read that jumps over it forgets nothing; and a job that has come to its
acknowledgement has a finished message or a useless one (`FinishInv`).

### Project store

`ProjectStoreProofs` proves, for any sets of requests, workflows and credentials
and any number of failures:

| theorem | statement |
|---|---|
| `StoreTypes` | `Spec => []TypeOK` |
| `CacheCorrect` | `Spec => []CacheMatchesFlow` |
| `DisturbanceBounded` | `Spec => DisturbsOnlyWhatChanged` |
| `AcknowledgedStored` | `Spec => AcknowledgedUpdatesStored` |
| `StoreInductive` | `Spec => []StoreInv`, from which the four follow |

Assumptions: `NamesAssumption` (rows, requests and markers are different things),
`AbsentAssumption` (the marker is no row) and `FaultsAssumption`.

`StoreInv` has five parts. `CacheInv` extends the cache property to every copy
in memory, since any of them may be written back. `CopyInv` says that what a
request has read agrees with what is stored, except for rows in `dirty` and the
one row it changed itself; `DisturbsOnlyWhatChanged` is this at the moment of
`Commit`. `PlanInv` ties phases to kinds of request and says that an update has
its text in memory before its transaction begins. `LockInv` says that only open
transactions hold locks, that past the first statement one holds the project's
row or has missed its version (which only grows, hence stays missed), and that
after the last one it holds every row of its copy. `Others` states once what a
step leaves alone in every other request, so that each part has cases only for
the request that acts.

### Event pipeline

`EventPipelineProofs` proves, for any backends, clients, runs, events, stream length
and faults:

| theorem | statement |
|---|---|
| `PipelineTypes` | `Spec => []TypeOK` |
| `NumbersUnique` | `Spec => []SequencesUnique` |
| `LogInOrder` | `Spec => []LogFollowsStream` |
| `NoneSkipped` | `Spec => []NothingSkipped` |
| `NothingMissed` | `Spec => []ClientMissesNothing` |
| `PipelineInductive` | `Spec => []PipelineInv`, from which the five follow |

Assumptions: `NoneAssumption`, `BoundsAssumption`. `PipelineInv` says that what a
backend handles lies behind its cursor and was published (`StreamInv`), that every
stored entry is of the stream and by a backend that has read it (`LogInv`), that a
backend in the middle of an event has not passed it and that what it has finished
it has stored (`StoredInv`), that a number in a backend's hands is at most the
counter and in nobody else's hands (`NumberInv`), and what a connection has
received, has on the way or will find by its resume (`ConnInv`). The number
invariant carries `SequencesUnique`: INCR gives each number once, and a number
stored twice was stored by the same handling.

### Executor

`WorkflowExecutorProofs` proves, for any set of nodes, any graph, any number of jobs
with one stored context and any number of faults:

| theorem | statement |
|---|---|
| `ExecutorTypes` | `Spec => []TypeOK` |
| `OnceInOrder` | `Spec => []NodesOnceInOrder` |
| `QuietAtTheEnd` | `Spec => []QuietAfterVerdict` |
| `ImplementsEvents` | `Spec => ImplementsRunEvents` (a refinement) |
| `SchedulerCorrect` | `Spec => []SchedulerSound` |
| `NeverRegresses` | `Spec => StoredNeverRegresses`, when there is one job |
| `ExecutorInductive` | `Spec => []ExecutorInv`, from which the first four follow |

`ExecutorInv`: a context, live or stored, has completed nodes only with successful
outputs (`ContextInv`); a job has its last event only when it is over
(`VerdictInv`); promises are pending in a wave and for its nodes, or after a
rejected one (`PendingInv`); what a promise has left in context and outcome
(`PromiseInv`); a wave takes nodes that are not completed and marks nodes that
succeeded (`WaveInv`); and a node is started once, after what it needs, and then
is completed or still the wave's (`StartedInv`). The last one is what lets a wave
never start a node again although the marks of a wave are written one by one and
may fail in between: a failed mark ends the job. `TrailInv` is about what comes after
the end: a script that runs on is of a code node that has reported, and only such a
node is heard after an end that was no rejected wave's. For the refinement `InitEvents`
maps the initial states and `StepEvents` each step to a step of `RunEvents` or a
stutter, with the values of the mapping (`RunOf`, `SeenOf`) before and after the
step worked out once, per phase.

Assumptions: `NodesAssumption` (finitely many nodes, other than the unknown ids),
`RolesAssumption`, `FaultsAssumption`, `AbsentAssumption` (the marker is no
context).

`SchedulerSound` compares the waves with a reference that knows none (`Blocked`: a set
of nodes that wait for one another or for nothing). `SchedulerInv` says of the
context of every job that may still write, and of the stored one, that completed
nodes have run and that no waiting set has a completed member. A wave takes
nodes whose sources are all completed, so it takes none of a waiting set; a job
that finds no ready node has, in its uncompleted nodes, a waiting set; and one
that completes has every node completed, so there is none. The invariant needs
all jobs of the trigger to have one graph, which is the hypothesis of the property:
after an edit a stored context may well hold nodes of another.

`StoredNeverRegresses` is false of two jobs, each of which writes its own context over
the other's; `NeverRegresses` has the hypothesis `Jobs = {j}`, and its invariant,
`StoredBehind`, is that what is stored is what the job had.

### Conversations and the dialog

`TestSessionProofs` proves, for any runs, sessions, chunks, clicks and faults
(`MemoryAssumption`, `SessionAssumption`):

| theorem | statement |
|---|---|
| `ConversationSafe` | `Spec => []ConversationKept` |
| `DialogTrue` | `Spec => []DialogFaithful` |
| `SessionInductive` | `Spec => []SessionInv`, from which the first follows |
| `DialogInductive` | `Spec => [](SessionInv /\ DialogInv)`, from which the second follows |

`MemoryInv` adds to the property: a run's past is of its session and done
(`EarlierInv`); what a run is about to write back is in order and without its turn
(`CopyInv`); two runs of a session that are adding at once have met (`MeetInv`:
whichever read last saw the other); and a copy has the turn of every run that is
done, unless that run was met (`WriteInv`). So a SET takes away only turns of runs
that were met, which is `TurnsKept`, and a later run recalls the others.

`DialogInv` says that the dialog has heard of no more than a run has caused
(`ToldInv`); that at most one start waits for its token, and none during a run
(`AwaitInv`); that the runs it listens to are over or the one that is running,
whose callbacks are the ones that Stop would remove (`ListenInv`); that the texts
shown are exactly those heard of that run, numbered without a gap (`TextsInv`); that
whatever a picture shows some run has told, and that it shows nothing while a start
awaits its token if the run before was neither stopped nor closed (`DrawnInv`); and
that a picture which was there from the beginning has drawn every event of its run
(`PictureInv`, with `PictureOfRun`). So a node the run told of shows what it told last,
and another node shows nothing, or what an older run told, after a run that was
stopped or closed or after starts that overlapped. The first part needs what
`MemoryInv` says of a run's progress; the others stop being true where the property
does: when starts overlap (`doubled`), the array was reversed (`shuffled`) or the
picture came late (`partial`). Most of the work is in the events themselves:
`EndingIs`, `EventsAre` and `EventFacts` say which event a run causes at which place,
and `RunGoesOn` that what is added when a run goes on comes after all it had caused.

### Builder

`FlowBuilderProofs` proves, for any palette, any finite set of labels, any number of
edits and any flow opened that was drawn here:

| theorem | statement |
|---|---|
| `DrawnSoundly` | `Spec => []WellDrawn` |
| `CompiledAsDrawn` | `Spec => []CompilesToDrawing` |
| `OneOrder` | `Spec => []OrderIrrelevant` |
| `StoredSound` | `SettingsSpec => []StoredSettingsSound` |
| `DraftsGone` | `SettingsSpec => []DraftsDiscarded` |

Assumptions: `EditsAssumption`, `LabelsAssumption` (finitely many labels),
`PaletteAssumption` (the nodes one can add have a type) and `LoadedAssumption` (the
flow the page is opened on is `Drawable`; the default flow is, and what is saved was
drawn on the page).

`WellDrawn` is inductive. The work is in what a change of a node's data does to the
edges: `Dropped` says that if the edges kept are connections of the new nodes, the
drawing stays sound, and `HandleGone` is what makes them so; `EnteredLabels` that
names entered stay distinct, which cutting off the labels behind a re-entered one
preserves. The two properties of the compiler follow from `WellDrawn` alone, at
every state. `HandleFacts` is what they rest on in the components: no node offers
two handles of one name, so handles do not overwrite one another in a Go map
(`OutputsAre`) and there is one definition per node (`OneDefinition`); what offers a
value belongs to a node that is compiled, so an input finds its output
(`OutputThere`); and a text handle joins with value handles only, so the result has
no other edges (`ValueEdges`). `NodeInputsDrawn`, `ResultInputsDrawn`, `ConnectedDrawn`
and `ResultKeyDrawn` say what each loop of the compiler computes. The proof does not
use that the compilation succeeds.

Of the settings, `SettingsInv` says that the form of the node and the data both hold
what was confirmed last, or the values of the mount, and nothing invalid: any field of
the form stores all of it, and a Cancel that submits stores what it resets to only if
that is valid. The sheet which does not validate never holds anything invalid, because
its inputs do not admit it (`SheetFacts`). `DraftsGone` names what the code keeps: the
text of an editor left by Cancel, and the header half typed in the HTTP tool's sheet.

### Pages

`FlowPagesProofs` proves, for any flows and any number of acts (`ActsAssumption`,
`NamesAssumption`: the markers are not flows):

| theorem | statement |
|---|---|
| `PagesTypes` | `Spec => []TypeOK` |
| `FlowsApart` | `Spec => []FlowsKeptApart` |
| `PagesInductive` | `Spec => []PagesInv`, from which both follow |

`PagesInv`: what requests carry (`RequestTypes`, `PageTypes`); a page waits for one
answer, its own (`WaitInv`); until an answer is used on another page, whatever is or
may be saved is of one flow (`KeptInv`); and while requests are answered in order, a
page meets no saves but its own (`OrderInv`), because those a builder leaves behind
are answered before the list that has to be passed on the way to the next. The
answer to a creation opens a builder without passing the list; that it comes before
any later save is a part of `OrderInv`.

### Nodes

`NodeKindsProofs` proves, for scripts that write any number of characters to both
pipes, read in chunks cut anywhere, for answers of any number of chunks and any
number of calls of any tools (`BoundsAssumption`, `ChunksAssumption`,
`ToolsAssumption`):

| theorem | statement |
|---|---|
| `SandboxCorrect` | `Spec => []SandboxSound` |
| `ReportsTrue` | `Spec => []ReportsAgree` |
| `SandboxInductive` | `Spec => []SandboxInv`, from which the first follows |

What the runner has heard of a pipe is not what it has read, since a chunk that cuts a
character replaces it. `SandboxInv` therefore says that there is *some* text for each
pipe that resembles what was read (`Heard`: the same, but that halves of characters
may be replaced), whose lines were logged and whose last line is what the buffer has;
beside it (`SandboxState`), that nothing is written before the script runs, that while
it runs no result was read, and that a node that settled without one has read
everything there will be. `DecodeResembles` and `ResemblesConcat` extend that text by a
chunk; `SplitParts` says that reading some output and then more is reading both at
once, `FirstConcat` and `BeforeConcat` what that means for the first result and the
log, and `ReadDecides` that a result found in a part is the result of the whole.
`SplitResembles`, `SameResult` and `ParseResembles` carry it from what was heard to
what was written: lines end at the same places, the same lines are results, and they
parse to the same outcome, or to "altered" when a character of theirs was cut.

The reports of chats and tools are counted. `ToolFacts` is where the HTTP tool differs
from the others: it reports completion at the first reading of an answer, and
succeeds only if the answer had no body (`Bodiless`).

### Inductions over data

The library's induction theorems cannot be used by the provers at hand. What is
proved here about sequences of any length (`ThoseBy`, `SplitBy`) goes by a least
counterexample instead: the lengths at which a statement fails are a set of natural
numbers, which has a least member if it has any (`LeastNat`, from the
well-foundedness of `<`), and the step rules that out.

### Only model-checked

The liveness properties: `EveryMessageSettles`, `SlotsComeBack`, `EveryJobSettles`,
`BackendKeepsUp`, `ClientCatchesUp`, `EveryRequestAnswered`, `SavesSettle`,
`NodesSettle`, `RunEnds`. Fairness and ENABLED are beyond the prover. And the
counterexample of `queue_ack`.

## 5. Not modelled, and why

* Elapsed time (idle threshold, poll and debounce intervals, TTLs): replaced by
  choice. Whatever a timer may do at some time it may do at any time.
* Contents of messages, prompts, JSON, correlation ids, logging: no property is
  about them. Names are taken to differ (sandbox directories have four random bytes;
  arguments of a script are taken to differ as handles).
* Code that nothing calls: the context methods `addNode`, `updateNodeInputs` and so
  on, `LocalMemory.clear`, the sheets of model-openai, `mapProviderError`.
* Execution queries: read-only, of a state `WorkflowExecutor` has.
* HTTP mapping, authentication, secrets, configuration: stateless, or cryptography;
  generated code.
* The agent notifications that the test dialog shows: they are appended and never reset,
  not even by closing, and nothing else depends on them. What a run whose events never
  end does to the dialog (see Fairness).
* In the frontend: the pages of projects, credentials, API keys and sign-in, the
  editors' text, rendering and layout; the SDK is another package.
* A cached compiled flow embeds the API keys it was compiled with
  (`update_credential.go:40`): `ProjectStore` has credentials as part of what a flow
  was compiled from, but that a changed credential does not drop the cache is as the
  code has it and no text says otherwise, so no property speaks of it.
* Separate expiry of the sequence key and the event log (`redis.go:51`): modelled as a
  lost key, which `SequencesUnique` excludes, since the code does nothing about it.

## 6. State of the project

Modelled, in the order of importance for the system: the queue, the executor, the
event pipeline, the project store, the compiler with the builder, the pages, the
nodes with their tools, the memory with the dialog. Proved: all of their safety
properties, and that the executor implements the event protocol.

What a continuation would take up: `Runner`, queue and executor composed, so that a
second delivery and a second trigger are the same system; `FlowPages` with
`ProjectStore` behind it instead of a backend that handles a request at once; and,
of liveness, the safety part of the arguments (what a waiting request or message
waits for, and that it decreases), which the prover could check.
