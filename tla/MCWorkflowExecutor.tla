------------------------- MODULE MCWorkflowExecutor -------------------------
(* Small instances of WorkflowExecutor.                                    *)
EXTENDS WorkflowExecutor

\* Every dependency graph over all the nodes, self-references and unknown
\* ids included; the jobs are given the same definition.
AnyGraph ==
    /\ defined = [j \in Jobs |-> Nodes]
    /\ \E s \in [Nodes -> SUBSET (Nodes \cup Ghosts)] : sources = [j \in Jobs |-> s]

GraphInit == AnyGraph /\ Init
GraphSpec == GraphInit /\ [][Next]_vars
FairGraphSpec == GraphSpec /\ Fairness

\* Versions of one workflow, as its owner edits it between two triggers with
\* the same trigger id: a chain, the same without the middle node, without
\* the result node, and with the middle node taken off the chain.
MiddleNodes == Nodes \ {Entry, ResultId}
Version(ids, middle, result) ==
    [ids |-> ids,
     src |-> [n \in Nodes |-> CASE n = Entry -> {}
                                [] n = ResultId -> result
                                [] OTHER -> middle]]
Versions ==
    {Version(Nodes, {Entry}, MiddleNodes),
     Version({Entry, ResultId}, {}, {Entry}),
     Version({Entry} \cup MiddleNodes, {Entry}, {}),
     Version(Nodes, {Entry}, {Entry})}

AnyVersions ==
    \E v \in [Jobs -> Versions] :
        /\ defined = [j \in Jobs |-> v[j].ids]
        /\ sources = [j \in Jobs |-> v[j].src]

VersionsInit == AnyVersions /\ Init
VersionsSpec == VersionsInit /\ [][Next]_vars
=============================================================================
