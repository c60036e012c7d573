SPECIFICATION Spec
CONSTANTS
    Heartbeats = {0, 1}
    DEFAULT_HEARTBEAT_SECS = 1
    Backoff = 2
    MaxFaults = 0
    None = None
    NoFile = NoFile
    Torn = Torn
INVARIANTS
    StopIsSeen
CHECK_DEADLOCK FALSE
