SPECIFICATION Spec
CONSTANTS
    Node <- LoopNode
    Kind <- LoopKind
    Edge <- LoopEdge
    OutPort <- LoopPort
    Group <- LoopGroup
    TopoOrder <- LoopOrder
    BackEdge <- LoopBackEdges
    MaxIter <- LoopLimit
    Field = {"log", "last"}
    ArrayField = {"log"}
    StateWrite <- LoopWrite
    HasValue = {}
    MaxRetries <- LoopRetries
    MaxBRPOPRetries = 1
    GraphTimeout = TRUE
    MayCrash = FALSE
    MaxDup = 1
INVARIANTS
    FreshBody
    StateKept
PROPERTIES
    Finishes
