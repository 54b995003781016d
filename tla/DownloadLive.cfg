\* No error, one worker for two connections: every round ends.
SPECIFICATION FairDownloadSpec
CONSTANTS
  NumPieces = 2
  NumBlocks <- MCOneBlock
  NoPiece = NoPiece
  PiecesToDownload = 2
  SizeMax = 4
  Conns = {c1, c2}
  Faults = {}
  MaxBlock = 0
  Workers = 1
  BadAnswer = FALSE
PROPERTIES
  JoinReturns
  DeadRoundIsLeft
CHECK_DEADLOCK FALSE
