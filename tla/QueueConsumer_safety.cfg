SPECIFICATION Spec
CONSTANTS
    Runners = {r1, r2}
    None = None
    MaxParallelJobs = 2
    MaxLen = 2
    MaxMsgs = 3
    MaxFaults = 1
SYMMETRY RunnerSymmetry
INVARIANTS
    TypeOK
    SlotAccounting
    AtMostOnce
    Accounted
    PendingUntilHandled
\* Runners that wait for the next message are not stuck.
CHECK_DEADLOCK FALSE
