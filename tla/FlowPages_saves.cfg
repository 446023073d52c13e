SPECIFICATION FairSpec
CONSTANTS
    Flows = {f1, f2}
    NoFlow = NoFlow
    NoId = NoId
    MaxActs = 4
INVARIANTS
    TypeOK
    FlowsKeptApart
PROPERTY
    SavesSettle
\* Nothing need happen when the user is done.
CHECK_DEADLOCK FALSE
