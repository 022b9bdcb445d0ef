SPECIFICATION Spec
CONSTANTS
    Canceller = {c1, c2}
    Streamer = {}
    Modes = {"sync", "async"}
    NodeEvents = 0
    StoreFails = TRUE
    QueueFails = TRUE
    EventsLost = TRUE
    MayStop = TRUE
INVARIANTS
    ConsistentRow
PROPERTIES
    SyncAnswered
CHECK_DEADLOCK FALSE
