SPECIFICATION WriterSpec
CONSTANTS
    BufSize = 2
    MaxSteps = 5
INVARIANTS
    StepsBeforeRecord
PROPERTIES
    CloseReturns
