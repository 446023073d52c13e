----------------------------- MODULE AgentTools -----------------------------
(***************************************************************************)
(* The tools of an agent (runner/src/tools, and how                        *)
(* runner/src/nodes/agent/agent.ts makes and calls them): what a call      *)
(* reports to the user as events, and what it tells the agent.             *)
(*                                                                         *)
(* A call is a sequence of awaits.  TOOL_STARTED precedes the first and    *)
(* TOOL_COMPLETED follows one of them; an await that throws ends the call  *)
(* with TOOL_FAILED and an error.  Checks before the first await are       *)
(* counted with it, and so is what a tool still awaits after a failure to  *)
(* clean up.                                                               *)
(*                                                                         *)
(* External: LangGraph runs the calls of one message of the model at the   *)
(* same time, waits for all of them, and tells the model of errors.        *)
(***************************************************************************)
EXTENDS Naturals, Sequences, FiniteSets, FiniteSetsExt

CONSTANTS
    MaxTools,   \* bound: kinds of tools of an agent
    MaxCalls    \* bound: calls in an execution

ASSUME ToolsAssumption == MaxTools \in Nat /\ MaxCalls \in Nat

VARIABLES
    kit,        \* the agent's tools
    flawed,     \* those whose constructor throws
    agent,      \* "making" the tools, "thinking", "acting", or "settled"
    calls,      \* the calls of the execution: tool, awaits done, what was told,
                \* and that the answer has a body, unless it has none
    reported    \* how often each event was sent for each tool

toolVars == <<kit, flawed, agent, calls, reported>>

\* needs: the settings without which the constructor throws (a key that
\* cannot be decrypted is as good as none). awaits: what run waits for, in
\* order. completed: after how many of them TOOL_COMPLETED is sent.
BraveSearch   == [needs |-> {"key"}, awaits |-> <<"service", "body">>, completed |-> 2]
Discord       == [needs |-> {}, awaits |-> <<"service">>, completed |-> 1]
Firecrawl     == [needs |-> {"key"}, awaits |-> <<"service">>, completed |-> 1]
Http          == [needs |-> {"url"}, awaits |-> <<"service", "body", "body">>, completed |-> 2]
OpenAITool    == [needs |-> {"model", "key"}, awaits |-> <<"service">>, completed |-> 1]
SDKNotifier   == [needs |-> {}, awaits |-> <<"event">>, completed |-> 1]
SonarSearch   == [needs |-> {"key", "model"}, awaits |-> <<"service", "body">>, completed |-> 2]

\* Mutant: success is reported before the connection is closed.
PostgresQueryEager ==
    [needs |-> {"key"}, awaits |-> <<"service", "service", "service">>, completed |-> 2]

\* connect, query, end.
PostgresQuery ==
    [needs |-> {"key"}, awaits |-> <<"service", "service", "service">>, completed |-> 3]

\* ToolRegistry
Tool ==
    [brave |-> BraveSearch, discord |-> Discord, firecrawl |-> Firecrawl, http |-> Http,
     openai |-> OpenAITool, postgres |-> PostgresQuery, sdk |-> SDKNotifier,
     sonar |-> SonarSearch]

ToolEvents == {"TOOL_STARTED", "TOOL_COMPLETED", "TOOL_FAILED"}

\* An await that cannot throw: a notification is an event.
Certain(await) == await = "event"

\* An await that must throw: the body of a response can be read once, if it
\* has one (an answer with status 204 or 205 has none, and is read as "").
Spent(call, i) ==
    LET awaits == Tool[call.tool].awaits
    IN  awaits[i] = "body" /\ call.body /\ \E j \in 1..(i - 1) : awaits[j] = "body"

ToolInit ==
    /\ kit \in {k \in SUBSET DOMAIN Tool : Cardinality(k) \in 1..MaxTools}
    /\ flawed \in {{}} \cup {{t} : t \in {t \in kit : Tool[t].needs # {}}}
    /\ agent = "making"
    /\ calls = <<>>
    /\ reported = [t \in DOMAIN Tool |-> [e \in ToolEvents |-> 0]]

\* convertToolsToLangChainFormat: one tool that cannot be made fails the agent.
MakeTools ==
    /\ agent = "making"
    /\ agent' = IF flawed = {} THEN "thinking" ELSE "settled"
    /\ UNCHANGED <<kit, flawed, calls, reported>>

\* The model answers, or throws: no call is under way.
AgentEnds ==
    /\ agent = "thinking"
    /\ agent' = "settled"
    /\ UNCHANGED <<kit, flawed, calls, reported>>

\* The model asks for calls; nothing keeps it from calling one tool twice.
AskFor(tools) ==
    /\ agent = "thinking"
    /\ agent' = "acting"
    /\ calls' = calls \o [i \in DOMAIN tools |->
                [tool |-> tools[i], done |-> 0, told |-> "pending", body |-> TRUE]]
    /\ UNCHANGED <<kit, flawed, reported>>

\* What was asked for does not fit the tool's schema: run is not called.
Misfit(i) ==
    /\ calls[i].told = "pending"
    /\ calls' = [calls EXCEPT ![i].told = "misfit"]
    /\ UNCHANGED <<kit, flawed, agent, reported>>

\* run, up to its first await.
BeginCall(i) ==
    /\ calls[i].told = "pending"
    /\ calls' = [calls EXCEPT ![i].told = "running"]
    /\ reported' = [reported EXCEPT ![calls[i].tool]["TOOL_STARTED"] = @ + 1]
    /\ UNCHANGED <<kit, flawed, agent>>

\* An await returns; the last one ends the call.
Resume(i) ==
    LET tool == Tool[calls[i].tool]
        done == calls[i].done + 1
    IN
    /\ calls[i].told = "running"
    /\ ~Spent(calls[i], done)
    /\ \E body \in BOOLEAN :
          /\ body = calls[i].body \/ (calls[i].tool = "http" /\ done = 1)
          /\ calls' = [calls EXCEPT ![i] =
                [tool |-> calls[i].tool, done |-> done, body |-> body,
                 told |-> IF done = Len(tool.awaits) THEN "ok" ELSE "running"]]
    /\ reported' = [reported EXCEPT ![calls[i].tool]["TOOL_COMPLETED"] =
                        IF done = tool.completed THEN @ + 1 ELSE @]
    /\ UNCHANGED <<kit, flawed, agent>>

\* An await throws: TOOL_FAILED, and an error to the agent.
Break(i) ==
    /\ calls[i].told = "running"
    /\ ~Certain(Tool[calls[i].tool].awaits[calls[i].done + 1])
    /\ calls' = [calls EXCEPT ![i].told = "error"]
    /\ reported' = [reported EXCEPT ![calls[i].tool]["TOOL_FAILED"] = @ + 1]
    /\ UNCHANGED <<kit, flawed, agent>>

\* The model is told of the calls when all of them have ended.
TellModel ==
    /\ agent = "acting"
    /\ \A i \in DOMAIN calls : calls[i].told \notin {"pending", "running"}
    /\ agent' = "thinking"
    /\ UNCHANGED <<kit, flawed, calls, reported>>

\* Tools whose clients wait without a limit: of pg none is set, and of
\* Firecrawl only if the tool's settings have one.
Unlimited == {"postgres", "firecrawl"}

\* What goes on for certain: all but an answer that is awaited without limit.
ToolRunner ==
    \/ MakeTools \/ AgentEnds \/ TellModel
    \/ \E n \in 1..(MaxCalls - Len(calls)) : \E tools \in [1..n -> kit] : AskFor(tools)
    \/ \E i \in DOMAIN calls :
          \/ Misfit(i) \/ BeginCall(i)
          \/ calls[i].tool \notin Unlimited /\ (Resume(i) \/ Break(i))

ToolNext ==
    \/ ToolRunner
    \/ \E i \in DOMAIN calls : calls[i].tool \in Unlimited /\ (Resume(i) \/ Break(i))
-----------------------------------------------------------------------------
ToolTypeOK ==
    /\ flawed \subseteq kit /\ kit \subseteq DOMAIN Tool
    /\ agent \in {"making", "thinking", "acting", "settled"}
    /\ calls \in Seq([tool : kit, done : 0..3,
                      told : {"pending", "misfit", "running", "ok", "error"}, body : BOOLEAN])
    /\ reported \in [DOMAIN Tool -> [ToolEvents -> Nat]]

\* The calls of a tool that were told something.
Told(tool, what) == Cardinality({i \in DOMAIN calls : calls[i].tool = tool /\ calls[i].told \in what})

\* The HTTP calls whose answer was read once.
AnswersRead == Cardinality({i \in DOMAIN calls : calls[i].tool = "http" /\ calls[i].done >= 2})

\* Events carry no id of the call, but their numbers agree with what the agent
\* was told at any time, also while calls of one tool overlap: one start for
\* each call that ran, one verdict for each that ended, and the right one. Not
\* so for an HTTP request: it is reported as completed when its answer was read
\* once, and succeeds only if there was nothing to read; otherwise it is
\* reported as failed too.
VerdictsAgree ==
    /\ \A tool \in kit :
          /\ reported[tool]["TOOL_STARTED"] = Told(tool, {"running", "ok", "error"})
          /\ reported[tool]["TOOL_FAILED"] = Told(tool, {"error"})
          /\ reported[tool]["TOOL_COMPLETED"] =
                IF tool = "http" THEN AnswersRead ELSE Told(tool, {"ok"})
    /\ \A i \in DOMAIN calls : calls[i].tool = "http" /\ calls[i].told = "ok" => ~calls[i].body

\* The agent settles, unless it waits for ever for a tool without a limit.
AgentSettles ==
    \/ <>(agent = "settled")
    \/ <>[](\E i \in DOMAIN calls : calls[i].tool \in Unlimited /\ calls[i].told = "running")
=============================================================================
