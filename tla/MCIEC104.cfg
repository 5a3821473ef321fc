SPECIFICATION FairSpec
CONSTANTS
    None = None
    Client = Client
    Others = {Other}
    Binary = {"b"}
    Analog = {"a"}
    AnalogValues = {0, 1, 2}
    Narrow <- MCNarrow
    Subtype = "double"
    MaxQueue = 2
    MaxInputs = 2
INVARIANTS
    TypeOK
    PollsConnected
PROPERTIES
    AnalogFollows
    CommandArrives
    
