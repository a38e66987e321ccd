SPECIFICATION Spec
CONSTANTS
  None = None
  K = 2
  MaxNode = 2
  Models = {}
  Puller = {p1}
  MaxSends = 4
  MaxPulls = 1
  Mortal = FALSE
INVARIANTS InjectsOnPath
CHECK_DEADLOCK FALSE
