\* A connection that breaks while a block is requested.
SPECIFICATION Spec
CONSTANTS
  NumPieces = 2
  NumBlocks <- MCOneBlock
  NoPiece = NoPiece
  PiecesToDownload = 2
  SizeMax = 4
  Conns = {c1}
  Faults = {"SendFails"}
  MaxBlock = 0
INVARIANTS
  PieceIsGivenBack
CHECK_DEADLOCK FALSE
