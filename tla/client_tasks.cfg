SPECIFICATION PatientSpec
CONSTANTS
  None = None
  K = 2
  MaxNode = 2
  Models = {1}
  Puller = {p1}
  MaxSends = 4
  MaxPulls = 1
  Mortal = TRUE
INVARIANTS TypeOK GotVerdict
PROPERTIES ClientPromise AnswersInTheEnd
CHECK_DEADLOCK FALSE
