SPECIFICATION Spec
CONSTANTS
  Procs = {p1}
  DayLength = 3
  RelayTimes = {1}
  Lead = 0
  Window = 0
  Moments = {1}
  MaxTries = 3
  MaxAttempts = 1
  MaxRows = 0
  MaxTime = 4
  MaxStops = 0
  MaxFaults = 2
INVARIANT LimitHolds
