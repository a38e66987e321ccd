SPECIFICATION FairSpec
CONSTANTS
  a = a
  b = b
  Client = {a, b}
  None = None
  K = 2
  MaxNode = 2
  Amount = 1
  CutSize = 1
  SendAgain = FALSE
  MaxPosts = 3
INVARIANTS TypeOK SharedIfDistinct OncePerClient
PROPERTY PullsEnd
CHECK_DEADLOCK FALSE
