SPECIFICATION Spec
CONSTANTS
    Instruments = {IF, IC}
    RepeatInterval = 2
    MaxTime = 6
INVARIANTS
    TypeOK
    AlertSpacing
PROPERTIES
    TransitionTellsRecovery
    ImplementsThrottle
