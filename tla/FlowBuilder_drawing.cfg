SPECIFICATION PageSpec
CONSTANTS
    ResultNode = ResultNode
    NoKey = NoKey
    NoMemory = NoMemory
    Untouched = Untouched
    entry = entry
    chat = chat
    code = code
    agent = agent
    llm = llm
    memory = memory
    tool = tool
    a = a
    b = b
    Palette = {chat, agent, memory}
    Labels = {a, b}
    TypeOf <- MCTypeOf
    Loaded <- MCLoaded
    MaxEdges = 2
    MaxEdits = 2
INVARIANTS
    WellDrawn
    CompilesToDrawing
    OrderIrrelevant
    DraftsDiscarded
    StoredSettingsSound
\* The edits are used up.
CHECK_DEADLOCK FALSE
