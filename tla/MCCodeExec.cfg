SPECIFICATION Spec
CONSTANTS
    Execs = 2
    MaxExecutions = 2
    MaxToolCalls = 2
    MaxAsked = 3
    Slots = 1
    MaxFaults = 1
INVARIANTS
    AnswersInStep
    NothingLeft
PROPERTIES
    BothEnd
CHECK_DEADLOCK FALSE
