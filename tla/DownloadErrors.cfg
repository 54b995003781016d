\* Every error the code can run into with peers that answer what they are
\* asked, over any number of rounds: where the pieces are, and what a download
\* that main calls finished has.
SPECIFICATION DownloadSpec
CONSTANTS
  NumPieces = 3
  NumBlocks <- MCFirstOfTwo
  NoPiece = NoPiece
  PiecesToDownload = 2
  SizeMax = 4
  Conns = {c1, c2}
  Faults = {"SendFails", "BadHave", "BadMessage", "WriteFails", "OpenFails"}
  MaxBlock = 0
  Workers = 2
  BadAnswer = TRUE
SYMMETRY ConnSymmetry
VIEW OutcomeState
INVARIANTS
  EveryPieceInOnePlace
  FirstAttemptHasAPiece
  QueuedPiecesAreFresh
  AnswersFitThePiece
  HolderHasARequestOut
  SavedIsRight
  CompleteWhenFinished
CHECK_DEADLOCK FALSE
