SPECIFICATION Spec
CONSTANTS
    Heartbeats = {0, 1}
    DEFAULT_HEARTBEAT_SECS = 1
    Backoff = 2
    MaxFaults = 2
    None = None
    NoFile = NoFile
    Torn = Torn
INVARIANTS
    HealthIsHonest
    NoFalseAlarm
    AnnouncedStopReaps
    SidecarReturns
CHECK_DEADLOCK FALSE
