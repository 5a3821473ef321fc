SPECIFICATION LogicFairSpec
CONSTANTS
    None = None
    Tags <- MCTags
    BinaryTags <- MCBinaryTags
    External <- MCExternal
    Points <- MCPoints
    PointOf <- MCPointOf
    PointType <- MCPointType
    AnalogValues = {0, 1, 2}
    Servers = {}
    Logic <- MCLogic
    Delay <- MCDelay
    Rhs <- MCRhs
    CycleTime = 10
    NumOutputs = 1
    Published <- MCPublished
INVARIANTS
    LogicTypeOK
    DelayExact
PROPERTIES
    LogicSettles
