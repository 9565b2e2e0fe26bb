SPECIFICATION Spec
CONSTANTS
  Run = {r1, r2, r3}
  NoRun = NoRun
  Client = {c1, c2}
  MaxDepth = 1
  MaxTrouble = 1
SYMMETRY Symmetric
INVARIANTS
  OneActiveChild
  ParentIsFinished
