----------------------------- MODULE NodeKinds -----------------------------
(***************************************************************************)
(* The nodes of a workflow that reach out of the runner: a code node       *)
(* (CodeSandbox), a chat node (ChatNodes) and an agent with its tools      *)
(* (AgentTools).  To the executor each is one call of execute() that       *)
(* settles some time, and events meanwhile.  Nodes share nothing with each *)
(* other, so one of them is executed at a time here.                       *)
(***************************************************************************)
EXTENDS CodeSandbox, ChatNodes, AgentTools

VARIABLE kind  \* which node is executed

nodeVars == <<sandboxVars, chatVars, toolVars, kind>>

\* An initial state of the nodes that are not executed.
Quiet ==
    /\ kind # "chat" => chat = CHOOSE c \in ChatConfigs : TRUE
    /\ kind # "agent" => kit = {"sdk"}
    /\ kind # "code" => jailed

Init ==
    /\ kind \in {"code", "chat", "agent"}
    /\ SandboxInit /\ ChatInit /\ ToolInit
    /\ Quiet

Next ==
    \/ kind = "code" /\ SandboxNext /\ UNCHANGED <<chatVars, toolVars, kind>>
    \/ kind = "chat" /\ ChatNext /\ UNCHANGED <<sandboxVars, toolVars, kind>>
    \/ kind = "agent" /\ ToolNext /\ UNCHANGED <<sandboxVars, chatVars, kind>>

Spec == Init /\ [][Next]_nodeVars

\* The event loop gets to every chunk, exit and answer. Calls of services end,
\* for their clients have time limits, but for those of some tools; a process
\* ends in a jail, and need not outside of one.
FairSpec ==
    /\ Spec
    /\ WF_nodeVars(kind = "code" /\ SandboxRunner /\ UNCHANGED <<chatVars, toolVars, kind>>)
    /\ WF_unread(PipeRead)
    /\ WF_nodeVars(kind = "code" /\ JailEnds /\ UNCHANGED <<chatVars, toolVars, kind>>)
    /\ WF_nodeVars(kind = "chat" /\ ChatNext /\ UNCHANGED <<sandboxVars, toolVars, kind>>)
    /\ WF_nodeVars(kind = "agent" /\ ToolRunner /\ UNCHANGED <<sandboxVars, chatVars, kind>>)
-----------------------------------------------------------------------------
\* The variables of the three kinds of nodes have their types.
TypeOK == SandboxTypeOK /\ ChatTypeOK /\ ToolTypeOK

\* A code node returns what the script printed as its first result, logs what
\* it printed before, and leaves no directory behind; only characters that a
\* chunk cuts are replaced.
SandboxSound == FirstResultDecides /\ LogsFaithful /\ SandboxRemoved

\* What chat nodes and tools tell the user while they run agrees with what they
\* return in the end.
ReportsAgree == AnswerPublished /\ VerdictsAgree

\* Every node settles, but for a code node without a jail whose process runs
\* for ever without a result, and an agent whose tool waits for ever: the
\* executor waits for these for ever.
NodesSettle ==
    /\ kind = "code" => SandboxSettles
    /\ kind = "chat" => <>(calling = "settled")
    /\ kind = "agent" => AgentSettles
=============================================================================
