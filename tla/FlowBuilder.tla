---------------------------- MODULE FlowBuilder ----------------------------
(***************************************************************************)
(* Drawing a flow in the builder of the dashboard                          *)
(* (frontend/src/app/builder/chat-flow/[id]/page.tsx and the nodes under   *)
(* components/builder/nodes).  Whatever is drawn may be saved (FlowPages), *)
(* and what is saved is compiled into the definition that runs             *)
(* (FlowCompiler).                                                         *)
(*                                                                         *)
(* The components draw their handles from their data (BaseNode) and delete *)
(* the edges of handles that are gone; the click that removes a handle     *)
(* runs these effects before the browser does anything else.               *)
(***************************************************************************)
EXTENDS FlowNodes, Naturals, Functions

CONSTANTS
    Loaded,     \* the flows the page may be opened on: they were drawn here
    Palette,    \* ids of the nodes that may be added
    TypeOf,     \* TypeOf[id]: the type of a node of the palette
    Labels,     \* names of handles
    MaxEdits    \* bound: edits after the page is opened

VARIABLES
    flow,       \* the nodes and edges React Flow shows
    edits

vars == <<flow, edits>>

\* isValidConnection
ValidConnection(e) ==
    /\ e.source # e.target
    /\ \/ "any" \in {e.sourceHandle.type, e.targetHandle.type}
       \/ e.sourceHandle.type = e.targetHandle.type

\* The edges from the input handles of s to the output handles of t.
Between(nodes, s, t) ==
    [source : {s}, sourceHandle : SourceHandles(nodes[s]),
     target : {t}, targetHandle : TargetHandles(nodes[t])]

Connections(nodes) ==
    {e \in UNION {UNION {Between(nodes, s, t) : t \in DOMAIN nodes} : s \in DOMAIN nodes} :
        ValidConnection(e)}

Nodes == [type : NodeTypes, ins : Seq(Labels), outs : Seq(Labels), config : Configs]

\* A flow as it may be drawn: the nodes have their types, and none two
\* handles of one name; there is the result node; and every edge is a
\* connection that could be made now, made once.
Drawable(f) ==
    /\ \A id \in DOMAIN f.nodes :
          /\ f.nodes[id] \in Nodes
          /\ IsInjective(f.nodes[id].ins) /\ IsInjective(f.nodes[id].outs)
    /\ ResultNode \in DOMAIN f.nodes /\ f.nodes[ResultNode].type = "result"
    /\ f.edges \in Seq(Connections(f.nodes)) /\ IsInjective(f.edges)

ASSUME EditsAssumption == MaxEdits \in Nat
ASSUME LabelsAssumption == IsFiniteSet(Labels)
ASSUME PaletteAssumption == \A id \in Palette : TypeOf[id] \in NodeTypes
ASSUME LoadedAssumption == \A f \in Loaded : Drawable(f)

\* LabeledHandle: whether a connection may end on a node's handle. Of all the
\* node's connections the code looks at the handle of their source.
ConnectableEnd(id, handle) ==
    \/ handle.type = "tools"
    \/ \A e \in ToSet(flow.edges) : id \in {e.source, e.target} => e.sourceHandle # handle

\* Mutant: BaseNode looks at the edges from the node only.
HandleGoneAtSource(e, nodes) ==
    e.source \in DOMAIN nodes /\ e.sourceHandle \notin SourceHandles(nodes[e.source])

\* BaseNode: an edge one of whose handles is not drawn (a ghost edge).
HandleGone(e, nodes) ==
    \/ e.source \in DOMAIN nodes /\ e.sourceHandle \notin SourceHandles(nodes[e.source])
    \/ e.target \in DOMAIN nodes /\ e.targetHandle \notin TargetHandles(nodes[e.target])

NewNode(type) == [type |-> type, ins |-> <<>>, outs |-> <<>>, config |-> "untouched"]

-----------------------------------------------------------------------------
Init ==
    /\ flow \in Loaded
    /\ edits = 0

\* React Flow shows other nodes or edges.
Change(nodes, edges) ==
    /\ edits < MaxEdits
    /\ edits' = edits + 1
    /\ flow' = [nodes |-> nodes, edges |-> edges]

\* addNode
AddNode(id) ==
    /\ id \notin DOMAIN flow.nodes
    /\ Change([n \in DOMAIN flow.nodes \cup {id} |->
                  IF n = id THEN NewNode(TypeOf[id]) ELSE flow.nodes[n]], flow.edges)

\* A deleted node takes its edges with it. The result and the entrypoint node
\* are not deletable.
DeleteNode(id) ==
    /\ flow.nodes[id].type \notin {"entrypoint", "result"}
    /\ Change([n \in DOMAIN flow.nodes \ {id} |-> flow.nodes[n]],
              Those(flow.edges, {e \in ToSet(flow.edges) : id \notin {e.source, e.target}}))

DeleteEdge(e) == Change(flow.nodes, Those(flow.edges, ToSet(flow.edges) \ {e}))

\* onConnect, dragged from the input to the output or the other way round.
Connect(e) ==
    /\ e \notin ToSet(flow.edges)
    /\ ConnectableEnd(e.target, e.targetHandle) \/ ConnectableEnd(e.source, e.sourceHandle)
    /\ Change(flow.nodes, Append(flow.edges, e))

\* The data of a node changes, and BaseNode deletes its ghost edges.
SetData(id, node) ==
    LET nodes == [flow.nodes EXCEPT ![id] = node]
    IN  Change(nodes, Those(flow.edges, {e \in ToSet(flow.edges) : ~HandleGone(e, nodes)}))

\* onHandleChange: a new label is appended; entering one that exists drops
\* the handles behind it.
Entered(labels, label) ==
    IF label \in ToSet(labels)
    THEN SubSeq(labels, 1, SelectInSeq(labels, LAMBDA x : x = label))
    ELSE Append(labels, label)

\* EntrypointNode and ResultNode: onHandleChange and removeHandle.
EditHandles(id) ==
    LET node == flow.nodes[id] IN
    \E label \in Labels :
        \/ /\ node.type = "entrypoint"
           /\ \/ SetData(id, [node EXCEPT !.outs = Entered(@, label)])
              \/ label \in ToSet(node.outs) /\ SetData(id, [node EXCEPT !.outs = Those(@, Labels \ {label})])
        \/ /\ node.type = "result"
           /\ \/ SetData(id, [node EXCEPT !.ins = Entered(@, label)])
              \/ label \in ToSet(node.ins) /\ SetData(id, [node EXCEPT !.ins = Those(@, Labels \ {label})])

\* CodeExecutorNode: the handles are the arguments and results of the code,
\* whose names are taken to differ also as handles (sanitizeHandleLabel).
EditCode(id) ==
    /\ flow.nodes[id].type = "code-executor"
    /\ \E ins \in SUBSET Labels, outs \in SUBSET Labels :
          SetData(id, [flow.nodes[id] EXCEPT !.ins = SetToSeq(ins), !.outs = SetToSeq(outs)])

\* The form of a node that needs a credential; the one that is chosen may be
\* one that was deleted ("gone").
Configure(id) ==
    /\ Component(flow.nodes[id]).credential
    /\ \E config \in Configs \ {"untouched"} :
          SetData(id, [flow.nodes[id] EXCEPT !.config = config])

Next ==
    \/ \E id \in Palette : AddNode(id)
    \/ \E id \in DOMAIN flow.nodes :
          DeleteNode(id) \/ EditHandles(id) \/ EditCode(id) \/ Configure(id)
    \/ \E e \in ToSet(flow.edges) : DeleteEdge(e)
    \/ \E e \in Connections(flow.nodes) : Connect(e)

Spec == Init /\ [][Next]_vars
-----------------------------------------------------------------------------
(* Properties.                                                             *)

\* Whatever is added, removed, renamed or re-coded in whatever order, every
\* edge joins two handles that are there and may be joined: another one would
\* make a node wait for an output that no node has. No node has two handles of
\* one name, no edge is drawn twice, and the nodes have their types.
WellDrawn == Drawable(flow) /\ edits \in 0..MaxEdits

\* What the compiler makes of a drawn flow is what was drawn. Each input
\* that is wired to a value is bound, and to one of the outputs it is wired
\* to, which exists in the definition; nothing else is bound. Each output wired
\* to the result is published under the name of a field it is wired to. The
\* tools and the memory are those that are drawn.
CompilesToDrawing ==
    Failures(flow) = {} =>
        \A id \in Compiled(flow) : \A node \in RunnerNodes(id, flow) :
            LET drawn == {e \in ToSet(flow.edges) : e.source = id}
                values == {e \in drawn : e.targetHandle.type \in ValueTypes}
            IN
            /\ DOMAIN node.inputs = {e.sourceHandle.name : e \in values}
            /\ \A x \in DOMAIN node.inputs :
                  LET from == node.inputs[x] IN
                  /\ \E e \in values : /\ e.sourceHandle.name = x
                                       /\ e.target = from.node
                                       /\ e.targetHandle.name = from.output
                  /\ from.node \in Compiled(flow)
                  /\ \A other \in RunnerNodes(from.node, flow) :
                        from.output \in DOMAIN other.outputs
            /\ \A x \in DOMAIN node.outputs :
                  LET fields == {e.sourceHandle.name :
                                   e \in {e \in ToSet(flow.edges) :
                                            e.source = ResultNode /\ e.target = id
                                            /\ e.targetHandle.name = x}}
                  IN  flow.nodes[id].type # "entrypoint" =>
                        IF fields = {} THEN node.outputs[x].key = NoKey
                                       ELSE node.outputs[x].key \in fields
            /\ ToSet(node.tools) = {e.target : e \in {e \in drawn : e.sourceHandle.type = "tools"}}
            /\ node.memory # NoMemory =>
                  \E e \in drawn : e.sourceHandle.type = "memory" /\ e.target = node.memory

\* The definition does not depend on the order in which Go iterates over its
\* maps, whatever is drawn.
OrderIrrelevant ==
    \A id \in Compiled(flow) : Cardinality(RunnerNodes(id, flow)) = 1
=============================================================================
