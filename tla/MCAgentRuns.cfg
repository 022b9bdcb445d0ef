SPECIFICATION Spec
CONSTANTS
    WindowSize = 3
    RepeatThreshold = 2
    PreserveRecent = 2
    History <- Complete
    MaxIterations = 1
    MaxCallsPerIteration = 1
    MaxTotalCalls = 1
    MaxReflections = 1
    EvaluatorDisabled = TRUE
    TaskReminders = TRUE
    AutoFlush = FALSE
    Skills = 1
    Builtin = {}
    CodeTools = {}
    MCPTools = {"mcp", "secret"}
    APITools = {"api"}
    Excluded = {"secret"}
    Unknown = {}
    Ports = 1
    StringPort = TRUE
    MaxBatch = 1
    MaxNested = 1
    MaxRuns = 2
    MaxFaults = 1
INVARIANTS
    Conversation
PROPERTIES
    KeepsPromise
    Reported
CHECK_DEADLOCK FALSE
