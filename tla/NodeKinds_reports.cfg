SPECIFICATION FairSpec
CONSTANTS
    MaxCharacters = 3
    MaxFaults = 2
    MaxChunks = 3
    MaxTools = 2
    MaxCalls = 3
INVARIANTS
    SandboxSound
    ReportsAgree
PROPERTY
    NodesSettle
\* The node returns once.
CHECK_DEADLOCK FALSE
