SPECIFICATION ManualSpec
CONSTANTS
  Step = {s1, s2}
  Required = {s1}
  Client = {c1, c2}
  MaxReports = 2
  MaxTrouble = 1
SYMMETRY Symmetric
INVARIANTS
  PendingIsUntouched
  FinishedIsReviewed
  EvidenceFollowsResult
PROPERTIES
  ReportIsFinal
