SPECIFICATION Spec
CONSTANTS
  None = None
  Solver = {s1, s2}
  Early = {s1}
  Mortal = {s1}
  K = 2
  PortfolioMin = 1
  MaxNode = 2
  AllowEmpty = FALSE
  Sharing = FALSE
  Deadline = FALSE
  NodeTimeout = "auto"
INVARIANTS WorkRemains ViewsAgree
