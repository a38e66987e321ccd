SPECIFICATION ThreadSpec
CONSTANTS
  None = None
  K = 2
  MaxNode = 2
  Models = {1}
  Puller = {}
  MaxSends = 3
  MaxPulls = 0
  Mortal = FALSE
PROPERTIES OnDemand
CHECK_DEADLOCK FALSE
