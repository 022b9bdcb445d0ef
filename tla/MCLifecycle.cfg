SPECIFICATION Spec
CONSTANTS
    Canceller = {c1, c2}
    Streamer = {s1}
    Modes = {"sync", "async"}
    NodeEvents = 1
    StoreFails = FALSE
    QueueFails = FALSE
    EventsLost = FALSE
    MayStop = FALSE
INVARIANTS
    NoMissedCompletion
    AnswerMatchesRow
    EndIsTold
PROPERTIES
    StreamEnds
CHECK_DEADLOCK FALSE
