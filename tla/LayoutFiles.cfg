\* Torrents with a list of files, empty ones among them, and of one file.
SPECIFICATION Spec
CONSTANTS
  HashSize = 20
  BitsPerByte = 2
  IntSize = 2
  Answers <- MCAnswers
  Rests <- MCRests
  MaxAnswers = 2
  BlockSize = 2
  MaxPieceLength = 5
  MaxFileLength = 4
  Paths <- MCPaths
  Trackers <- MCTrackers
  Singles = {FALSE, TRUE}
  OptionSets = {{}, {"announce-list", "similar", "md5sum", "attr", "symlink path", "comment"}, {"private", "source", "mtime", "sha1", "encoding", "creation date", "url-list"}}
INVARIANTS
  ParserFindsAll
  InfoHashIsOfInfo
  PeersOfAnswers
  PiecesTileTheContent
  BlocksTileThePiece
  FilesGetTheirBytes
CHECK_DEADLOCK FALSE
