SPECIFICATION Spec
CONSTANTS
    MaxIterations = 2
    MaxCalls = 2
    MaxBatch = 2
    MaxRetries = 1
    Other = {o1}
    Slots = 4
    MaxErrors = 1
INVARIANTS
    NoResultLost
    AnswersAreOwn
PROPERTIES
    Reported
CHECK_DEADLOCK FALSE
