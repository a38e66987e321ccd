SPECIFICATION FairSpec
CONSTANTS
  None = None
  Solver = {s1, s2}
  Early = {s1, s2}
  Mortal = {}
  K = 2
  PortfolioMin = 1
  MaxNode = 2
  AllowEmpty = TRUE
  Sharing = FALSE
  Deadline = TRUE
  NodeTimeout = "auto"
PROPERTIES Announces
