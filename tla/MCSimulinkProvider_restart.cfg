SPECIFICATION Spec
CONSTANTS
    None = None
    NumParts = 3
    End <- MCEnd
    MTU = 6
    States = {"s1", "s2"}
    Params = {"p"}
    WriteTags = {"p", "q"}
    Values = {0, 1}
    Writes <- MCWrites
    Realtime = FALSE
    FifoSize = 2
    MaxRuns = 2
    MaxLives = 1
INVARIANT
    ExclusiveAccess
CHECK_DEADLOCK FALSE
