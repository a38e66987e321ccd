SPECIFICATION ServerSpec
CONSTANTS
  None = None
  Solver = {s1, s2}
  Early = {s1, s2}
  Mortal = {}
  K = 1
  PortfolioMin = 1
  MaxNode = 2
  AllowEmpty = FALSE
  Sharing = FALSE
  Deadline = TRUE
  NodeTimeout = "auto"
PROPERTIES AnnouncesInTime SettlesByAnswers
