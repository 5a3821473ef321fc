SPECIFICATION FairSpec
CONSTANTS
    None = None
    Pids = {p1, p2}
    Firmware = {"regular", "shell", "other"}
    Registered = {"regular", "shell"}
INVARIANTS
    TypeOK
    OneDevice
    FirmwareKnown
PROPERTY
    UpdateInstalled
