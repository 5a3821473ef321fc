SPECIFICATION FairSpec
CONSTANTS
    None = None
    Client = Client
    Others = {}
    Binary = {"b"}
    Analog = {"a"}
    AnalogValues = {0}
    Narrow <- MCNarrow
    Subtype = "double"
    MaxQueue = 2
    MaxInputs = 1
PROPERTY
    BinaryFollows
