SPECIFICATION FairSpec
CONSTANTS
  Run = {r1}
  Client = {c1}
  MaxSteps = 1
  MaxFaults = 0
  MaxCrashes = 0
PROPERTIES
  AcceptedCancelWins
