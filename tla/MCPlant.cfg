SPECIFICATION PlantFairSpec
CONSTANTS
    None = None
    Tags = {"breaker"}
    BinaryTags = {"breaker"}
    External = {"breaker"}
    Points <- MCPoints
    PointOf <- MCPointOf
    PointType <- MCPointType
    AnalogValues = {0}
    Servers = {s1}
    Logic <- MCLogic
    NumOutputs = 1
    Published <- MCPublished
    REQUEST_RETRIES = 2
    Commands <- MCCommands
INVARIANTS
    PlantTypeOK
    WaitsForItsWrite
    CommandsAsked
PROPERTIES
    ImplementsFieldDevice
    WritesTakeEffectOnce
    CommandReaches
    ScanRecurs
    Agrees
CHECK_DEADLOCK FALSE
