SPECIFICATION Spec
CONSTANTS
    WindowSize = 3
    RepeatThreshold = 2
    PreserveRecent = 2
    History <- Earlier
    MaxIterations = 3
    MaxCallsPerIteration = 2
    MaxRounds = 2
    MaxTotalCalls = 3
    MaxReflections = 1
    EvaluatorDisabled = FALSE
    AutoFlush = FALSE
    Tool = {"builtin", "mcp"}
    Ports = 1
    StringPort = FALSE
    MaxBatch = 2
INVARIANTS
    CallsCounted
PROPERTIES
    KeepsPromise
CHECK_DEADLOCK FALSE
