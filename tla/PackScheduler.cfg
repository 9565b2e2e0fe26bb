SPECIFICATION FairSpec
CONSTANTS
  Pack = {p1, p2}
  Client = {}
  Period = {1}
  MaxConcurrent = 1
  RunsWindow = 10
  PackWindow = 10
  MaxClock = 2
  MaxUserRuns = 1
  MaxTrouble = 1
INVARIANTS
  AtMostMaxConcurrent
PROPERTIES
  DuePackIsServed
