SPECIFICATION Spec
CONSTANTS
  Procs = {p1, p2}
  DayLength = 2
  RelayTimes = {}
  Lead = 0
  Window = 0
  Moments = {}
  MaxTries = 2
  MaxAttempts = 2
  MaxRows = 2
  MaxTime = 3
  MaxStops = 1
  MaxFaults = 1
INVARIANTS TypeOK DuplicatesExplained SentWasPosted
