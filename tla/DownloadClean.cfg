\* No error: the connections and main keep each other's books.
SPECIFICATION DownloadSpec
CONSTANTS
  NumPieces = 2
  NumBlocks <- MCNumBlocks
  NoPiece = NoPiece
  PiecesToDownload = 2
  SizeMax = 4
  Conns = {c1, c2}
  Faults = {}
  MaxBlock = 0
  Workers = 2
  BadAnswer = FALSE
SYMMETRY ConnSymmetry
VIEW LiveState
INVARIANTS
  TypeOK
  MainTypeOK
  CounterIsExact
  RoundsStartClean
CHECK_DEADLOCK FALSE
