SPECIFICATION FairSpec
CONSTANTS
    Contracts = {IF}
    DayLength = 7
    MiddayAt = 1
    CloseAt = 2
    StaleThreshold = 2
    RecoveryGrace = 1
    MaxCheckLag = 1
    RunsOvernight = FALSE
    MaxStops = 1
    MaxTime = 8
INVARIANTS
    TypeOK
    DataAsOfCovers
    OkReportIsLive
    NotEarly
    Punctual
PROPERTIES TriggeredIsFinished
