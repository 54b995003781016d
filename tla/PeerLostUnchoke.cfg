\* A peer that sends Unchoke in place of the bitfield.
SPECIFICATION Spec
CONSTANTS
  NumPieces = 2
  NumBlocks <- MCOneBlock
  NoPiece = NoPiece
  PiecesToDownload = 2
  SizeMax = 4
  Conns = {c1}
  Faults = {}
  MaxBlock = 0
PROPERTIES
  UnchokeIsKept
