SPECIFICATION FairSpec
CONSTANTS
    None = None
    NumParts = 3
    End <- MCEnd
    MTU = 6
    States = {"s1", "s2"}
    Params = {"p"}
    WriteTags = {"p", "q"}
    Values = {0, 1}
    Writes <- MCWrites
    Realtime = TRUE
    FifoSize = 2
    MaxRuns = 1
    MaxLives = 2
INVARIANTS
    TypeOK
    ExclusiveAccess
    NoDeadlock
    UpdatesKept
    EachPartSentOnce
PROPERTIES
    PublishesSnapshots
    SolverRecurs
    RequestAnswered
    UpdatesApplied
CHECK_DEADLOCK FALSE
