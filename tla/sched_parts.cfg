SPECIFICATION Spec
CONSTANTS
  None = None
  Solver = {s1, s2}
  Early = {s1, s2}
  Mortal = {}
  K = 2
  PortfolioMin = 1
  MaxNode = 2
  AllowEmpty = FALSE
  Sharing = TRUE
  Deadline = TRUE
  NodeTimeout = "auto"
SYMMETRY SolverSymmetry
INVARIANTS TypeOK StatusSound NoSatInScan SearchInv LoopsEnd PartitionOwned BusyIsUseful IdleIsTimedOut ViewsAgree ProgressInv
PROPERTIES SearchPromise ClientsKept
