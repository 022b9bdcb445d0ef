SPECIFICATION Spec
CONSTANTS
    Node <- BranchNode
    Kind <- BranchKind
    Edge <- BranchEdge
    OutPort <- BranchPort
    Group <- BranchGroup
    TopoOrder <- BranchOrder
    BackEdge <- NoEdges
    MaxIter <- NoLimit
    Field = {"log", "last"}
    ArrayField = {"log"}
    StateWrite <- BranchWrite
    HasValue = {}
    MaxRetries <- BranchRetries
    MaxBRPOPRetries = 1
    GraphTimeout = TRUE
    MayCrash = TRUE
    MaxDup = 0
INVARIANTS
    GroupBarrier
    
    CompletedIsClean
PROPERTIES
    ImplementsDataflow
