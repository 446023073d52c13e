--------------------------- MODULE MCProjectStore ---------------------------
(* Small instances of ProjectStore.                                        *)
EXTENDS ProjectStore

CONSTANTS q1, q2, q3, w1, w2, c1

\* A trigger or a change of the name, a change of a workflow or a credential,
\* and any third command; the credential may be missing.
BusyInit ==
    /\ Init
    /\ <<kind[q1], target[q1]>> \in {<<"trigger", w1>>, <<"update", Project>>}
    /\ <<kind[q2], target[q2]>> \in {<<"update", w1>>, <<"update", c1>>}
    /\ target[q3] # w2
    /\ db[w1] # Absent
    /\ db[w2] # Absent
BusySpec == BusyInit /\ [][Next]_vars
FairBusySpec == BusySpec /\ Fairness
=============================================================================
