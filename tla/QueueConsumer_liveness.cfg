SPECIFICATION FairSpec
CONSTANTS
    Runners = {r1, r2}
    None = None
    MaxParallelJobs = 1
    MaxLen = 2
    MaxMsgs = 2
    MaxFaults = 1
PROPERTIES
    EveryMessageSettles
    SlotsComeBack
CHECK_DEADLOCK FALSE
