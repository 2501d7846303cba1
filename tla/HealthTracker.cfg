SPECIFICATION Spec
CONSTANTS
    StaleThreshold = 2
    RecoveryGrace = 2
    UnitsPerSecond = 2
    MaxCheckLag = 3
    MaxTime = 24
INVARIANTS
    TypeOK
    SilenceDetected
    SteadyFeedNotStale
    GraceStartsAtTick
PROPERTIES
    RecoveryNeedsGrace
