SPECIFICATION FairSpec
CONSTANTS
    None = None
    Clients = {"c1", "c2"}
    Requests = {"w1", "w2", "w3"}
    Owner <- MCOwner
    REQUEST_RETRIES = 2
INVARIANT
    TypeOK
PROPERTIES
    WritesOnce
    SendReturns
