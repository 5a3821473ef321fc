SPECIFICATION Spec
CONSTANTS
    None = None
    Tags <- MCTags
    BinaryTags <- MCBinaryTags
    External <- MCExternal
    Points <- MCPoints
    PointOf <- MCPointOf
    PointType <- MCPointType
    AnalogValues = {0}
    Servers = {s1, s2}
    Logic <- MCLogic
    NumOutputs = 2
    Published <- MCPublished
INVARIANTS
    TypeOK
    AppliedBeforeCleared
    CommandHeld
    BadVariantOnlyFromProvider
PROPERTY
    ScanMovesOn
