SPECIFICATION Spec
CONSTANTS
    Node <- TwoNode
    Kind <- TwoKind
    Edge <- TwoEdge
    OutPort <- TwoPort
    Group <- TwoGroup
    TopoOrder <- TwoOrder
    BackEdge <- TwoBack
    MaxIter <- TwoLimit
    Field = {"log", "last"}
    ArrayField = {"log"}
    StateWrite <- TwoWrite
    HasValue = {}
    Items = 2
    Concurrency = 1
    Abort = TRUE
INVARIANTS
    SkipReadsAgree
    AppendsKept
    Consistent
PROPERTIES
    ImplementsDataflow
