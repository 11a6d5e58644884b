SPECIFICATION Spec
CONSTANTS
    b1 = b1
    None = None
    Free = Free
    Bases <- MCBases
    Tokens <- MCTokens
    Statuses <- MCStatuses
    Configured <- MCConfigured
    MaxReadings = 2
    MaxSyncs = 1
INVARIANTS
    TypeOK
    NothingLeaks
    LinesWhole
    LossReported
PROPERTIES
    ImplementsRemoteCall
    StopSeen
