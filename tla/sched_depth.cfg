SPECIFICATION Spec
CONSTANTS
  None = None
  Solver = {s1, s2, s3}
  Early = {s1, s2, s3}
  Mortal = {}
  K = 2
  PortfolioMin = 1
  MaxNode = 6
  AllowEmpty = FALSE
  Sharing = FALSE
  Deadline = FALSE
  NodeTimeout = "long"
SYMMETRY SolverSymmetry
INVARIANTS LoopsEnd ProgressInv
