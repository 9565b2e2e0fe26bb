SPECIFICATION AuditSpec
CONSTANTS
  MaxAudits = 2
  MaxBreaks = 0
INVARIANTS
  BehaviorIsAnalyzed
