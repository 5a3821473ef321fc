SPECIFICATION LogicFairSpec
CONSTANTS
    None = None
    Tags <- SmallTags
    BinaryTags <- SmallTags
    External <- SmallTags
    Points <- SmallPoints
    PointOf <- SmallPointOf
    PointType <- SmallPointType
    AnalogValues = {0}
    Servers = {s1}
    Logic <- SmallLogic
    Delay <- SmallDelay
    Rhs <- SmallRhs
    CycleTime = 10
    NumOutputs = 1
    Published <- SmallPublished
INVARIANT
    DelayExact
PROPERTIES
    LogicSettles
    ImplementsFieldDevice
