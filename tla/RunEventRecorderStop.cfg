SPECIFICATION Spec
CONSTANTS
  Publisher = {p1}
  MaxEvents = 2
  Capacity = 2
INVARIANTS
  StopFollowsAccepted
