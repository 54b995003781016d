\* A peer that has nothing yet and says that it has got a piece.
SPECIFICATION Spec
CONSTANTS
  BitsPerByte = 3
  IntSize = 2
  MaxFds = 2
  Greetings <- MCGreetings
  PeerMessages <- MCHaveMessages
  Blocks <- MCBlocks
  MaxConnects = 1
  MaxMessages = 3
  MaxAhead = 2
  MaxRequests = 0
PROPERTIES
  HaveMarksThePiece
CHECK_DEADLOCK FALSE
