SPECIFICATION FairGraphSpec
CONSTANTS
    Jobs = {j1}
    Nodes = {entry, middle, result}
    Ghosts = {ghost}
    Entry = entry
    ResultId = result
    Results = {result}
    Direct = {middle}
    Code = {middle}
    Absent = Absent
    MaxFaults = 2
INVARIANTS
    TypeOK
    QuietAfterVerdict
    SchedulerSound
PROPERTIES
    ImplementsRunEvents
    StoredNeverRegresses
    EveryJobSettles
\* A settled job does nothing more.
CHECK_DEADLOCK FALSE
