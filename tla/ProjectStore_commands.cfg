SPECIFICATION FairBusySpec
CONSTANTS
    q1 = q1
    q2 = q2
    q3 = q3
    w1 = w1
    w2 = w2
    c1 = c1
    Requests = {q1, q2, q3}
    Workflows = {w1, w2}
    Credentials = {c1}
    Project = Project
    Original = Original
    Absent = Absent
    MaxFaults = 1
INVARIANTS
    TypeOK
    CacheMatchesFlow
PROPERTIES
    DisturbsOnlyWhatChanged
    AcknowledgedUpdatesStored
    EveryRequestAnswered
\* All requests are answered.
CHECK_DEADLOCK FALSE
