SPECIFICATION Spec
CONSTANTS
    Backends = {b1, b2}
    Clients = {c1}
    Triggers = {t1}
    None = None
    MaxStreamLen = 1
    MaxEvents = 2
    MaxFaults = 1
    MaxConnects = 1
SYMMETRY BackendSymmetry
INVARIANTS
    TypeOK
    SequencesUnique
    LogFollowsStream
    NothingSkipped
    ClientMissesNothing
\* Nothing need happen once every event is handled.
CHECK_DEADLOCK FALSE
