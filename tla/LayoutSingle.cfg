\* Torrents of one file.
SPECIFICATION Spec
CONSTANTS
  HashSize = 20
  BitsPerByte = 2
  IntSize = 2
  Answers <- MCAnswers
  Rests <- MCRests
  MaxAnswers = 2
  BlockSize = 2
  MaxPieceLength = 5
  MaxFileLength = 4
  Paths <- MCPaths
  Trackers <- MCTrackers
  Singles = {TRUE}
  OptionSets = {{}, {"announce-list", "private"}}
INVARIANTS
  LastPieceIsTheRest
CHECK_DEADLOCK FALSE
