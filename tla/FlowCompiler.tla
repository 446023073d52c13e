---------------------------- MODULE FlowCompiler ----------------------------
(***************************************************************************)
(* The translation of a flow as it is drawn in the builder into the        *)
(* definition a runner executes (convertBuilderToRunnerFlow of             *)
(* backend/internal/application/domain/model/workflow.go).                 *)
(*                                                                         *)
(* A flow has nodes by id and edges in the order they were drawn.  An edge *)
(* leads from the node that needs a value (source: its input handle) to    *)
(* the node that has it (target: its output handle), against the data.  A  *)
(* handle "type__name" is a record; the builder never makes one that does  *)
(* not split into two.  A node's data is kept to its handles and to what   *)
(* its configuration says of model and credential.                         *)
(*                                                                         *)
(* The code iterates over Go maps, whose order is not defined: what a node *)
(* is translated to is a set, one member for each order.                   *)
(***************************************************************************)
EXTENDS Sequences, SequencesExt, FiniteSetsExt

CONSTANTS
    ResultNode,  \* "result-node"
    NoKey,       \* an output without a result key
    NoMemory     \* a node without memory

\* The types of nodes one can add in the builder; LLMNodeType has the chats.
ChatTypes == {"chat-openai", "chat-anthropic", "chat-mistral", "chat-ollama"}
ToolTypes == {"chat-openai-as-tool", "sdk-notifier-tool", "postgres-query-tool",
              "brave-search-tool", "sonar-search-tool", "firecrawl-scraper-tool"}
CompiledTypes == {"entrypoint", "result", "ai-agent", "code-executor"} \cup ChatTypes
NodeTypes == CompiledTypes \cup {"model-openai", "local-memory"} \cup ToolTypes

\* A node's configuration: never edited (data is {}), edited with no
\* credential chosen, naming a credential that was deleted, or complete.
Configs == {"untouched", "blank", "gone", "valid"}

CapabilityTypes == {"memory", "tools", "ai-model"}
ValueTypes == {"text", "any"}

\* The elements of a sequence that are in a set, in their order.
Those(seq, set) ==
    LET those[n \in 0..Len(seq)] ==
            IF n = 0 THEN <<>>
            ELSE IF seq[n] \in set THEN Append(those[n - 1], seq[n]) ELSE those[n - 1]
    IN  those[Len(seq)]

EdgesFrom(id, edges) == Those(edges, {e \in ToSet(edges) : e.source = id})

\* The targets of the edges drawn from a node's handle of that type, if the
\* target is in the flow.
Connected(id, type, flow) ==
    LET drawn == Those(flow.edges,
                       {e \in ToSet(flow.edges) : /\ e.source = id
                                                  /\ e.sourceHandle.type = type
                                                  /\ e.target \in DOMAIN flow.nodes})
    IN  [i \in DOMAIN drawn |-> drawn[i].target]

\* getConnectedMemory: the first connected node, whatever its type.
ConnectedMemory(id, flow) ==
    LET found == Connected(id, "memory", flow)
    IN  IF found = <<>> THEN NoMemory ELSE Head(found)

\* Mutant: edges into capability handles are read as inputs.
NodeInputsOfAllEdges(id, edges) ==
    LET drawn == EdgesFrom(id, edges)
        Latest(x) == drawn[Max({i \in DOMAIN drawn : drawn[i].sourceHandle.name = x})]
    IN  [x \in {drawn[i].sourceHandle.name : i \in DOMAIN drawn} |->
            [node |-> Latest(x).target, output |-> Latest(x).targetHandle.name]]

\* buildNodeInputs: a later edge from the same handle replaces an earlier one.
NodeInputs(id, edges) ==
    LET drawn == Those(edges, {e \in ToSet(edges) : /\ e.source = id
                                                    /\ e.targetHandle.type \notin CapabilityTypes})
        Latest(x) == drawn[Max({i \in DOMAIN drawn : drawn[i].sourceHandle.name = x})]
    IN  [x \in {drawn[i].sourceHandle.name : i \in DOMAIN drawn} |->
            [node |-> Latest(x).target, output |-> Latest(x).targetHandle.name]]

\* buildResultInputs: the first edge from the handle counts.
ResultInputs(id, labels, edges) ==
    LET drawn == EdgesFrom(id, edges)
        Of(x) == {i \in DOMAIN drawn : drawn[i].sourceHandle = [type |-> "text", name |-> x]}
        First(x) == drawn[Min(Of(x))]
    IN  [x \in {x \in labels : Of(x) # {}} |->
            [node |-> First(x).target, output |-> First(x).targetHandle.name]]

\* The result key of an output handle: the first edge from the result node
\* to it names the field.
ResultKey(id, handle, flow) ==
    LET drawn == Those(flow.edges,
                       {e \in ToSet(flow.edges) : /\ e.source = ResultNode /\ e.target = id
                                                  /\ e.targetHandle = handle})
        field == Head(drawn).sourceHandle.name
    IN  IF drawn # <<>> /\ ResultNode \in DOMAIN flow.nodes
           /\ field \in ToSet(flow.nodes[ResultNode].ins)
        THEN field ELSE NoKey

Response(output) == [x \in {"response"} |-> output]

\* Mutant: the outputs of every node become one "response".
NodeOutputsAllCollapsed(id, flow) ==
    LET handles == {e.targetHandle : e \in {e \in ToSet(flow.edges) : e.target = id}}
        Output(h) == [type |-> h.type, key |-> ResultKey(id, h, flow)]
    IN  IF handles = {} THEN {<<>>} ELSE {Response(Output(h)) : h \in handles}

\* buildNodeOutputs: an output per handle with an edge; handles of one name
\* overwrite each other. The outputs of an OpenAI chat become one "response".
NodeOutputs(id, flow) ==
    LET handles == {e.targetHandle : e \in {e \in ToSet(flow.edges) : e.target = id}}
        Output(h) == [type |-> h.type, key |-> ResultKey(id, h, flow)]
        OneHandlePerName == {H \in SUBSET handles :
            /\ {h.name : h \in H} = {h.name : h \in handles}
            /\ \A h, g \in H : h.name = g.name => h = g}
    IN  IF flow.nodes[id].type = "chat-openai"
        THEN IF handles = {}
             THEN {Response([type |-> "text", key |-> NoKey])}
             ELSE {Response(Output(h)) : h \in handles}
        ELSE {[x \in {h.name : h \in H} |-> Output(CHOOSE h \in H : h.name = x)] :
                H \in OneHandlePerName}

\* processEntrypointNode: the outputs are the handles, connected or not.
EntrypointOutputs(labels) ==
    [x \in labels |-> [type |-> "text", key |-> NoKey]]

\* getNodeProcessor and the processors: what a node is translated to.
RunnerNodes(id, flow) ==
    LET node == flow.nodes[id]
        ins  == CASE node.type = "entrypoint" -> <<>>
                  [] node.type = "result" -> ResultInputs(id, ToSet(node.ins), flow.edges)
                  [] OTHER -> NodeInputs(id, flow.edges)
        outs == CASE node.type = "entrypoint" -> {EntrypointOutputs(ToSet(node.outs))}
                  [] node.type = "result" -> {<<>>}
                  [] OTHER -> NodeOutputs(id, flow)
    IN  {[inputs |-> ins, outputs |-> o, memory |-> ConnectedMemory(id, flow),
          tools |-> Connected(id, "tools", flow)] : o \in outs}

Compiled(flow) == {id \in DOMAIN flow.nodes : flow.nodes[id].type \in CompiledTypes}

\* A credential id in a node's data: absent, not a UUID, unknown, or known.
CredentialFails(config) == config \in {"blank", "gone"}

\* getAgentModel and getCredentialAPIKey: the first connected node is the
\* model; it must be a model node that was configured. A blank credential id
\* panics in uuid.MustParse.
AgentFails(id, flow) ==
    LET found == Connected(id, "ai-model", flow)
        model == flow.nodes[Head(found)]
    IN  found = <<>> \/ model.type # "model-openai" \/ model.config # "valid"

\* The nodes that make the conversion fail; one failure fails it all.
Failures(flow) ==
    {id \in Compiled(flow) :
        LET node == flow.nodes[id] IN
        \/ \E t \in ToSet(Connected(id, "tools", flow)) :
              flow.nodes[t].type \in ToolTypes /\ CredentialFails(flow.nodes[t].config)
        \/ node.type \in ChatTypes /\ CredentialFails(node.config)
        \/ node.type = "ai-agent" /\ AgentFails(id, flow)}
=============================================================================
