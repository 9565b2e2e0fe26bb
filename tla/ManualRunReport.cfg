SPECIFICATION ManualSpec
CONSTANTS
  Step = {s1, s2}
  Required = {s1}
  Client = {c1}
  MaxReports = 1
  MaxTrouble = 0
INVARIANTS
  RecordAndReportAgree
