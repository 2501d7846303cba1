SPECIFICATION Spec
CONSTANTS
    far = far
    last = last
    hs300 = hs300
    Contracts <- MCContracts
    Indexes <- MCIndexes
    IndexOf <- MCIndexOf
    CurrentMonth <- MCCurrentMonth
    Expiring <- MCExpiring
    IndexStaleThreshold = 2
    RepeatInterval = 2
    FirstStores = {"price"}
    MaxTime = 5
INVARIANTS
    TypeOK
    ResultsUseFreshIndex
    SuppressionIsBacked
