SPECIFICATION Spec
CONSTANTS
    WindowSize = 3
    RepeatThreshold = 2
    PreserveRecent = 2
    History <- CutOff
    MaxIterations = 2
    MaxCallsPerIteration = 1
    MaxTotalCalls = 3
    MaxReflections = 2
    EvaluatorDisabled = FALSE
    TaskReminders = TRUE
    AutoFlush = FALSE
    Skills = 0
    Builtin = {"builtin"}
    CodeTools = {"code"}
    MCPTools = {}
    APITools = {}
    Excluded = {}
    Unknown = {}
    Ports = 0
    StringPort = TRUE
    MaxBatch = 2
    MaxNested = 1
    MaxRuns = 1
    MaxFaults = 0
INVARIANTS
    Conversation
CHECK_DEADLOCK FALSE
