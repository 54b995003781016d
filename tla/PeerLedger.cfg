\* Everything that may go wrong, with a peer that also sends blocks nobody asked
\* for: who is responsible for a piece, and the refinement of the ledger.
SPECIFICATION Spec
CONSTANTS
  NumPieces = 2
  NumBlocks <- MCNumBlocks
  NoPiece = NoPiece
  PiecesToDownload = 2
  SizeMax = 4
  Conns = {c1, c2}
  Faults <- AllFaults
  MaxBlock = 1
SYMMETRY ConnSymmetry
VIEW OwnershipState
INVARIANTS
  ExclusiveLease
  CounterWithinLeases
PROPERTIES
  LedgerSpec
CHECK_DEADLOCK FALSE
