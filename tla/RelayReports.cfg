SPECIFICATION FairSpec
CONSTANTS
  Procs = {p1}
  DayLength = 2
  RelayTimes = {1}
  Lead = 0
  Window = 0
  Moments = {1}
  MaxTries = 2
  MaxAttempts = 2
  MaxRows = 1
  MaxTime = 2
  MaxStops = 0
  MaxFaults = 1
INVARIANTS DuplicatesExplained SentWasPosted GivesUp
PROPERTIES AlertReaches ReportReaches
