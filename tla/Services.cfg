SPECIFICATION ServicesSpec
CONSTANTS
  Watcher = {w1, w2}
  MaxEvents = 2
  Capacity = 2
  Case = {case1}
  NoCase = NoCase
  MaxPlan = 3
  Operation = {o1, o2, o3}
  Earlier = Earlier
  NoImage = NoImage
  TornImage = TornImage
  Caller = {caller1, caller2}
  Task = {t1, t2}
  Default = Default
  Nobody = Nobody
  MaxModels = 2
  Asker = {a1, a2}
  Threshold = 2
  MaxCount = 3
INVARIANTS
  ServicesTypeOK
  NothingVanishes
  SentInOrder
  GoneIsForgotten
  StepsAreIsolated
  BlankOnlyAfterFailure
  ErrorIsKept
  BaselineNotLost
  ApprovedIsKept
  SlotIsHeld
  DecisionsAreTemporary
  TrialsAreBounded
PROPERTIES
  EndIsSent
  CallsComeBack
