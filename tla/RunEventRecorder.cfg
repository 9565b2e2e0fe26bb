SPECIFICATION FairSpec
CONSTANTS
  Publisher = {p1, p2}
  MaxEvents = 2
  Capacity = 2
INVARIANTS
  NoneVanishes
  LoggedInOrder
  FlushedReadIsFresh
  ClosingDrains
PROPERTIES
  AcceptedSettles
  CloseReturns
