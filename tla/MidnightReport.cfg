SPECIFICATION Spec
CONSTANTS
    Contracts = {IF}
    DayLength = 10
    MiddayAt = 1
    CloseAt = 4
    StaleThreshold = 2
    RecoveryGrace = 1
    MaxCheckLag = 2
    RunsOvernight = TRUE
    MaxStops = 1
    MaxTime = 19
INVARIANTS
    NotEarly
