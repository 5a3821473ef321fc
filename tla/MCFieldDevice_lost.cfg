SPECIFICATION Spec
CONSTANTS
    None = None
    Tags <- MCTags
    BinaryTags <- MCBinaryTags
    External <- MCExternal
    Points <- MCPoints
    PointOf <- MCPointOf
    PointType <- MCPointType
    AnalogValues = {0}
    Servers = {s1}
    Logic <- MCLogic
    NumOutputs = 1
    Published <- MCPublished
INVARIANT
    EveryCommandApplied
