SPECIFICATION FairSpec
CONSTANTS
  Run = {r1}
  Client = {c1, c2}
  MaxSteps = 3
  MaxFaults = 2
  MaxCrashes = 1
INVARIANTS
  CompletedIsEarned
  FailedHasACause
  StreamAgreesWithRow
PROPERTIES
  VerdictStays
  ImplementsFeed
  EveryRunEnds
  CancelIsHonoured
  DeleteTakesEffect
