\* Connections cut anywhere, sockets that run out, every way to split a message.
SPECIFICATION FairSpec
CONSTANTS
  BitsPerByte = 3
  IntSize = 2
  MaxFds = 2
  Greetings <- MCGreetings
  PeerMessages <- MCPeerMessages
  Blocks <- MCBlocks
  MaxConnects = 2
  MaxMessages = 4
  MaxAhead = 2
  MaxRequests = 1
INVARIANTS
  PeerHearsWhatIsSaid
PROPERTIES
  ChannelSpec
  ReadingEnds
CHECK_DEADLOCK FALSE
