SPECIFICATION FairSpec
CONSTANTS
  c1 = c1
  c2 = c2
  p1 = p1
  p2 = p2
  l1 = l1
  l2 = l2
  None = None
  Client = {c1, c2}
  Process = {p1, p2}
  LemmaProc = {l1, l2}
  Scenes <- Casts
  OpenSMT = {p1}
  IdleQuit = TRUE
  Mortal = {p2, l2}
  Base = 3
  Texts <- SmallTexts
  Payloads <- SmallPayloads
  MaxFields = 2
INVARIANTS TypeOK Placed LemmaAnnounced VerdictOwn FramesRead
PROPERTIES KeptUntilAnnounced EveryInstance
CHECK_DEADLOCK FALSE
