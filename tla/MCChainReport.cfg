SPECIFICATION FairSpec
CONSTANTS
    Backends <- MCBackends
    HeadBlock = 4
    BlockTime <- MCBlockTime
    Worlds <- MCWorlds
    Commands <- MCCommands
    PINNED_DEPLOY_BLOCK = 1
    CANARY_PROBE_BLOCKS = 2
    CANARY_PROBE_ATTEMPTS = 2
    CANARY_RATE_LIMIT_RETRIES = 1
    MAX_CORROBORATION_ATTEMPTS = 2
    MAX_RATE_LIMIT_RETRIES = 1
    MAX_SCAN_ATTEMPTS = 2
    MIN_CHUNK_BLOCKS = 1
    NoArg = NoArg
    NoBlock = NoBlock
INVARIANTS
    WindowExact
    CorroboratedIsComplete
    ReportIsTrue
    NothingFromSilence
PROPERTIES
    RunEnds
CHECK_DEADLOCK FALSE
