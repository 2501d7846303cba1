SPECIFICATION FairSpec
CONSTANTS
    Instruments = {IF, IC}
    MaxConnects = 2
    MaxRefusals = 1
    Indices <- SomeIndices
    FallbackExchange = "sse"
    MaxDrops = 1
    MaxDenials = 1
INVARIANTS TypeOK EventIsOfLastRequest BridgeIsAlive FirstTickKnown IndexIsKept
PROPERTIES StartMeansSubscribed KeepsContract FuturesComeBack StartEnds
CHECK_DEADLOCK FALSE
