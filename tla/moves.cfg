SPECIFICATION DisplaySpec
CONSTANTS
  Solver = {s1}
  s1 = s1
  Instance = {i1, i2}
  i1 = i1
  i2 = i2
  None = None
  Programs <- SmallPrograms
  K = 2
  MaxNodes = 3
  MaxQueue = 2
  Log = TRUE
  MaxReports = 1
  MaxRank = 2
  Atom = {"a"}
  MaxTokens = 7
INVARIANTS ViewsChain StackIsBranch PartsMeanQuery PictureTrue DeciderShown JsonMeansText
SYMMETRY Renamed
