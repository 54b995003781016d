\* Main looks at the counter while a piece is being written.
SPECIFICATION DownloadSpec
CONSTANTS
  NumPieces = 2
  NumBlocks <- MCOneBlock
  NoPiece = NoPiece
  PiecesToDownload = 2
  SizeMax = 4
  Conns = {c1}
  Faults = {}
  MaxBlock = 0
  Workers = 2
  BadAnswer = FALSE
PROPERTIES
  RoundGivenUpOnlyIfDead
CHECK_DEADLOCK FALSE
