SPECIFICATION VersionsSpec
CONSTANTS
    Jobs = {j1, j2}
    Nodes = {entry, middle, result}
    Ghosts = {}
    Entry = entry
    ResultId = result
    Results = {result}
    Direct = {}
    Code = {}
    Absent = Absent
    MaxFaults = 1
INVARIANT
    NodesOnceInOrder
CHECK_DEADLOCK FALSE
