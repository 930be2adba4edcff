CONSTANTS
    stdout = stdout
    stderr = stderr
    Stream <- MCStream
    MaxLines = 3
    MaxUndecodable = 1
SPECIFICATION StreamingFairSpec
INVARIANTS
    LinesConserved
    DeliveredInOrder
    CleanRunIsComplete
    NoToolLeftBehind
PROPERTIES
    EveryRunEnds
CHECK_DEADLOCK FALSE
