--------------------------- MODULE MCFlowBuilder ---------------------------
(* Small instances of FlowBuilder and NodeSettings. The sheet of a node is  *)
(* modal and touches no edge, so a page is either drawn on or has sheets    *)
(* opened here. (That the code of a node changes its handles is drawing.)   *)
EXTENDS FlowBuilder, NodeSettings

CONSTANTS entry, chat, code, agent, llm, memory, tool, a, b, MaxEdges

MCTypeOf == (chat :> "chat-openai") @@ (code :> "code-executor") @@ (agent :> "ai-agent")
            @@ (llm :> "model-openai") @@ (memory :> "local-memory") @@ (tool :> "brave-search-tool")

Node(type, ins, outs) == [type |-> type, ins |-> ins, outs |-> outs, config |-> "valid"]

\* The two fixed nodes and some of the others, configured.
Drawn(ids) ==
    (entry :> Node("entrypoint", <<>>, <<a>>))
    @@ (ResultNode :> Node("result", <<a, b>>, <<>>))
    @@ [id \in ids |-> IF id = code THEN Node(MCTypeOf[id], <<a>>, <<a, b>>)
                                    ELSE Node(MCTypeOf[id], <<>>, <<>>)]

\* Up to n more edges, in every order.
Wired(nodes, first, n) ==
    {[nodes |-> nodes, edges |-> first \o s] :
        s \in {s \in UNION {[1..k -> Connections(nodes) \ ToSet(first)] : k \in 0..n} :
                IsInjective(s)}}

ToModel == [source |-> agent, sourceHandle |-> [type |-> "ai-model", name |-> "model"],
            target |-> llm, targetHandle |-> [type |-> "ai-model", name |-> "ai-agent"]]

\* Flows of values, of an agent with its capabilities, and of an agent that
\* may be wired to untyped outputs.
MCLoaded ==
    Wired(Drawn({chat, code}), <<>>, MaxEdges)
    \cup Wired(Drawn({agent, llm, memory, tool}), <<ToModel>>, MaxEdges)
    \cup Wired(Drawn({agent, llm, code}), <<ToModel>>, MaxEdges - 1)

NoSheet ==
    /\ sheet = "none" /\ data = Untouched
    /\ own = Untouched /\ initial = Untouched /\ draft = Untouched
    /\ typed = FALSE /\ open = FALSE /\ confirmed = Untouched

PageInit ==
    \/ Init /\ NoSheet
    \/ /\ flow = [nodes |-> Drawn({}), edges |-> <<>>]
       /\ edits = 0
       /\ SettingsInit

PageNext ==
    \/ sheet = "none" /\ Next /\ UNCHANGED settingsVars
    \/ sheet # "none" /\ SettingsNext /\ UNCHANGED vars

PageSpec == PageInit /\ [][PageNext]_<<vars, settingsVars>>
=============================================================================
