----------------------------- MODULE RunEvents -----------------------------
(***************************************************************************)
(* What a consumer of the lifecycle events of one workflow run may rely on *)
(* (WorkflowEvents of runner/src/services/notifier/notifier.interface.ts,  *)
(* relayed by the backend to the client): an abstract specification that   *)
(* knows neither waves, nor promises, nor a stored context.                *)
(*                                                                         *)
(* A run begins with the nodes whose results it inherits from an earlier   *)
(* run of the same trigger. A node is announced once, after all nodes its  *)
(* inputs name have results, and reports one outcome. COMPLETED comes when *)
(* every node has a result; FAILED may come at any time, and the nodes that*)
(* were announced before it may still report. A run can be lost without a  *)
(* last event. A node that has reported says nothing more but NODE_LOG, at *)
(* any time, after the last event of the run included.                     *)
(***************************************************************************)
CONSTANT Nodes

VARIABLES
    sources,    \* sources[n]: the nodes the inputs of n name
    members,    \* the nodes of the workflow
    inherited,  \* nodes with a result from an earlier run
    seen,       \* seen[n]: the last event of n
    trailing,   \* the events of nodes heard after the last event of the run
    run         \* the state of the run

vars == <<sources, members, inherited, seen, trailing, run>>

HasResult == inherited \cup {n \in Nodes : seen[n] = "NODE_COMPLETED"}

Init ==
    /\ members = {}
    /\ inherited = {}
    /\ seen = [n \in Nodes |-> "silent"]
    /\ trailing = {}
    /\ run = "unborn"

Hear(event) ==
    trailing' = IF run \in {"WORKFLOW_COMPLETED", "WORKFLOW_FAILED"}
                THEN trailing \cup {event} ELSE trailing

Begin ==
    /\ run = "unborn"
    /\ run' = "open"
    /\ members' \in SUBSET Nodes
    /\ inherited' \in SUBSET members'
    /\ UNCHANGED <<sources, seen, trailing>>

Announce(S) ==
    /\ run = "open"
    /\ \A n \in S : seen[n] = "silent" /\ sources[n] \subseteq HasResult
    /\ S \subseteq members \ inherited
    /\ seen' = [n \in Nodes |-> IF n \in S THEN "NODE_STARTED" ELSE seen[n]]
    /\ UNCHANGED <<sources, members, inherited, trailing, run>>

Report(n, event) ==
    /\ run # "lost"
    /\ seen[n] = "NODE_STARTED"
    /\ seen' = [seen EXCEPT ![n] = event]
    /\ Hear(event)
    /\ UNCHANGED <<sources, members, inherited, run>>

Tell(n, event) ==
    /\ run # "lost"
    /\ \/ seen[n] = "NODE_STARTED"
       \/ seen[n] \in {"NODE_COMPLETED", "NODE_FAILED"} /\ event = "NODE_LOG"
    /\ Hear(event)
    /\ UNCHANGED <<sources, members, inherited, seen, run>>

Complete ==
    /\ run = "open"
    /\ members \subseteq HasResult
    /\ run' = "WORKFLOW_COMPLETED"
    /\ UNCHANGED <<sources, members, inherited, seen, trailing>>

FailOrVanish ==
    /\ run \in {"unborn", "open"}
    /\ \/ run = "open" /\ run' = "WORKFLOW_FAILED"
       \/ run' = "lost"
    /\ UNCHANGED <<sources, members, inherited, seen, trailing>>

Next ==
    \/ Begin
    \/ \E S \in SUBSET Nodes : Announce(S)
    \/ \E n \in Nodes, event \in {"NODE_COMPLETED", "NODE_FAILED"} : Report(n, event)
    \/ \E n \in Nodes, event \in {"NODE_LOG", "NODE_RESULT"} : Tell(n, event)
    \/ Complete
    \/ FailOrVanish

Spec == Init /\ [][Next]_vars
=============================================================================
