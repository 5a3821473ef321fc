SPECIFICATION Spec
CONSTANTS
    None = None
    Clients = {"c1"}
    Requests = {"w1", "w2"}
    Owner <- MCOwner
    REQUEST_RETRIES = 3
INVARIANT
    AnsweredMeansHandled
