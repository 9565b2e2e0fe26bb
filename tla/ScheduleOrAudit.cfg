SPECIFICATION ScheduleOrAuditSpec
CONSTANTS
  Pack = {p1}
  Client = {c1, c2}
  Period = {1, 2}
  MaxConcurrent = 2
  RunsWindow = 10
  PackWindow = 10
  MaxClock = 3
  MaxUserRuns = 0
  MaxTrouble = 1
  MaxAudits = 2
  MaxBreaks = 1
SYMMETRY Symmetric
INVARIANTS
  OneScheduledRunPerPack
  CompletedAuditIsItsOwn
  OpenGateIsExplained
PROPERTIES
  OccurrenceFiresOnce
