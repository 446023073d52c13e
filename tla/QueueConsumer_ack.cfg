SPECIFICATION Spec
CONSTANTS
    Runners = {r1, r2}
    None = None
    MaxParallelJobs = 2
    MaxLen = 2
    MaxMsgs = 2
    MaxFaults = 0
INVARIANT
    AcknowledgedAfterProcessing
CHECK_DEADLOCK FALSE
