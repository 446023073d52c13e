SPECIFICATION FairSpec
CONSTANTS
    Backends = {b1}
    Clients = {c1}
    Triggers = {t1, t2}
    None = None
    MaxStreamLen = 1
    MaxEvents = 2
    MaxFaults = 2
    MaxConnects = 1
PROPERTIES
    BackendKeepsUp
    ClientCatchesUp
\* Nothing need happen once every event is handled.
CHECK_DEADLOCK FALSE
