SPECIFICATION FairSpec
CONSTANTS
    s1 = s1
    s2 = s2
    Runs = {1, 2}
    Sessions = {s1, s2}
    FirstSession = s1
    NoRun = 0
    NoSession = NoSession
    MaxChunks = 1
    MaxFaults = 1
    MaxClicks = 1
    MaxBehind = 1
    MaxDisturbances = 1
INVARIANTS
    ConversationKept
    DialogFaithful
PROPERTY
    RunEnds
\* Every run may have been used.
CHECK_DEADLOCK FALSE
