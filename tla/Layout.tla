------------------------------- MODULE Layout -------------------------------
(***************************************************************************)
(* From the torrent file to the files on disk (main.cpp,                   *)
(* RunAllStagesOfDownloadingTorrentFile): the torrent is parsed,           *)
(* PieceStorage computes the piece lengths and Piece its blocks, the       *)
(* trackers are asked for peers, the pieces are downloaded (the modules    *)
(* PeerConnect and Download), and DistributePiecesBetweenFiles cuts the    *)
(* one temporary file into files.  A byte is its position in the           *)
(* concatenation of the torrent's files.                                   *)
(***************************************************************************)
EXTENDS TorrentParser, TorrentTracker

CONSTANTS
  BlockSize,      \* BLOCK_SIZE, 2^14 in the code
  MaxPieceLength, \* bound on pieceLength
  MaxFileLength,  \* bound on the length of a file
  Paths,          \* the paths of a torrent's files, at most as many as these
  Trackers,       \* the trackers a torrent names
  Singles,        \* torrents without a "files" list, with one, or both
  OptionSets      \* the sets of optional entries a torrent may have

ASSUME LayoutAssumption ==
  /\ {BlockSize, MaxPieceLength, MaxFileLength} \subseteq Nat \ {0}
  /\ Paths \in Seq(Seq(STRING) \ {<<>>}) \ {<<>>}
  /\ Trackers \in Seq(STRING) \ {<<>>}
  /\ Singles \subseteq BOOLEAN

VARIABLES
  torrent,   \* what the author of the torrent described
  stage,     \* where RunAllStagesOfDownloadingTorrentFile is
  data,      \* the tokens of the torrent file still to be read
  parser,    \* the local variables of parser
  tf,        \* torrentFile
  pieces,    \* the length of each piece built so far
  inputPos,  \* read position of inputFile
  outputs,   \* the files written: path, and the bytes <<first, count>>
  tempFile   \* the temporary file exists

parserVars == <<torrent, data, parser, tf>>
diskVars   == <<pieces, inputPos, outputs, tempFile>>
vars == <<stage, parserVars, diskVars, trackerVars>>

LengthLists(single) ==
  UNION {[1 .. k -> 0 .. MaxFileLength] : k \in IF single THEN {1} ELSE 1 .. Len(Paths)}

TorrentsOf(single) ==
  {[single |-> single, name |-> "n", announce |-> Trackers,
    options |-> opts, pieceLength |-> n,
    files |-> [k \in DOMAIN ls |->
                 [length |-> ls[k], path |-> IF single THEN <<"n">> ELSE Paths[k]]]] :
      opts \in OptionSets, n \in 1 .. MaxPieceLength, ls \in LengthLists(single)}

Init ==
  /\ torrent \in {t \in UNION {TorrentsOf(single) : single \in Singles} : Content(t) > 0}
  /\ stage = "Load"
  /\ data = Encode(torrent)
  /\ parser = ParserInit
  /\ tf = EmptyTorrent
  /\ pieces = <<>>
  /\ inputPos = 0
  /\ outputs = <<>>
  /\ tempFile = FALSE
  /\ TrackerInit

\* A turn of the parser's loop, and its end.
ParseToken ==
  /\ stage = "Load" /\ data # <<>>
  /\ parser' = Turn(parser, Head(data))
  /\ data' = Tail(data)
  /\ UNCHANGED <<stage, torrent, tf, diskVars, trackerVars>>

LoadTorrentFile ==
  /\ stage = "Load" /\ data = <<>>
  /\ tf' = Finish(parser)
  /\ parser' = ParserInit
  /\ stage' = "Build"
  /\ UNCHANGED <<torrent, data, diskVars, trackerVars>>

----------------------------------------------------------------------------
(* PieceStorage and Piece.                                                  *)

\* What the constructor asserts, in unsigned numbers: the files fit in tf.length,
\* and what they leave free is no more than a piece.
Assertion ==
  LET tailSize == SumTo(Lengths(tf), Len(tf.files))
  IN  tf.length >= tailSize /\ tf.pieceLength >= tf.length - tailSize

\* The last piece's length is tailSize, whatever the branch on tf.length %
\* tf.pieceLength chose before.
MutTailIsTheFiles == SumTo(Lengths(tf), Len(tf.files)) % tf.pieceLength
TailSize == tf.pieceLength - (tf.length - SumTo(Lengths(tf), Len(tf.files)))

LengthOfPiece(i) == IF i = tf.pieceHashes THEN TailSize ELSE tf.pieceLength

BuildPiece ==
  /\ stage = "Build"
  /\ Len(pieces) < tf.pieceHashes
  /\ pieces' = Append(pieces, LengthOfPiece(Len(pieces) + 1))
  /\ UNCHANGED <<stage, parserVars, inputPos, outputs, tempFile, trackerVars>>

\* Piece: its blocks, numbered from 0.
MutRoundDown(length) == length \div BlockSize
NumBlocksOf(length) == (length + BlockSize - 1) \div BlockSize
BlockOffset(b) == b * BlockSize
BlockLength(length, b) == Min({BlockSize, length - b * BlockSize})

\* PeerConnect: the block a Piece message is stored in, from its offset.
BlockOfOffset(offset) == offset \div BlockSize

\* SavePieceToDisk: pieces are numbered from 0.
OffsetOnDisk(index) == index * tf.pieceLength

----------------------------------------------------------------------------
(* DownloadTorrentFile.                                                     *)

UpdatePeers ==
  /\ unasked' = tf.announce_list
  /\ stage' = "Update"
  /\ UNCHANGED <<answers, peers>>

\* The rest of the constructor makes the temporary file; then peers are needed.
StartDownload ==
  /\ stage = "Build"
  /\ Len(pieces) = tf.pieceHashes
  /\ tempFile' = TRUE
  /\ UpdatePeers
  /\ UNCHANGED <<parserVars, pieces, inputPos, outputs>>

AskTracker(a) ==
  /\ stage = "Update"
  /\ TrackerAnswers(a) \/ TrackerFails(a)
  /\ UNCHANGED <<stage, parserVars, diskVars>>

\* Without any peer UpdatePeers throws; it is called again, as it is when a
\* round leaves pieces to download.
AskAgain ==
  /\ stage = "Update" /\ unasked = {}
  /\ UpdatePeers
  /\ UNCHANGED <<parserVars, diskVars>>

\* The download brings every piece (Download's CompleteWhenFinished); the
\* tracker object dies with it.
DownloadAll ==
  /\ stage = "Update" /\ unasked = {}
  /\ peers # <<>>
  /\ peers' = <<>> /\ answers' = <<>>
  /\ stage' = "Distribute"
  /\ UNCHANGED <<unasked, parserVars, diskVars>>

----------------------------------------------------------------------------
(* DistributePiecesBetweenFiles, and the end of the program.                *)

MoreFiles == stage = "Distribute" /\ Len(outputs) < Len(tf.files)

\* One file after another, read from where the one before ended.
MutRewind ==
  /\ MoreFiles
  /\ LET f == tf.files[Len(outputs) + 1] IN
       /\ outputs' = Append(outputs, [path |-> f.path, bytes |-> <<0, f.length>>])
       /\ inputPos' = inputPos + f.length
  /\ UNCHANGED <<stage, parserVars, pieces, tempFile, trackerVars>>
WriteFile ==
  /\ MoreFiles
  /\ LET f == tf.files[Len(outputs) + 1] IN
       /\ outputs' = Append(outputs, [path |-> f.path, bytes |-> <<inputPos, f.length>>])
       /\ inputPos' = inputPos + f.length
  /\ UNCHANGED <<stage, parserVars, pieces, tempFile, trackerVars>>

\* The file cannot be opened: the rest is not written.
CannotOpenFile ==
  /\ MoreFiles
  /\ stage' = "Delete"
  /\ UNCHANGED <<parserVars, diskVars, trackerVars>>

AllWritten ==
  /\ stage = "Distribute"
  /\ Len(outputs) = Len(tf.files)
  /\ stage' = "Delete"
  /\ UNCHANGED <<parserVars, diskVars, trackerVars>>

DeleteDownloadedFile ==
  /\ stage = "Delete"
  /\ tempFile' = FALSE
  /\ stage' = "Done"
  /\ UNCHANGED <<parserVars, pieces, inputPos, outputs, trackerVars>>

Next ==
  \/ ParseToken \/ LoadTorrentFile \/ BuildPiece \/ StartDownload
  \/ (\E a \in unasked : AskTracker(a)) \/ AskAgain \/ DownloadAll
  \/ WriteFile \/ CannotOpenFile \/ AllWritten \/ DeleteDownloadedFile

Spec == Init /\ [][Next]_vars

----------------------------------------------------------------------------
(* Properties.                                                              *)

Loaded == stage # "Load"
NoEmptyFile == \A k \in DOMAIN torrent.files : torrent.files[k].length > 0

\* The flags and counters of the parser find every entry of a torrent that has
\* any of Metainfo's optional entries before, between and after those the parser
\* knows, within a file's entry too: trackers, hashes, lengths, and the path of
\* every file, unless an empty file shifts the paths.  Metainfo has no unknown
\* list of two strings in a file's entry, with which the next file is lost.
ParserFindsAll ==
  Loaded =>
    /\ tf.announce_list =
         IF "announce-list" \in torrent.options THEN ToSet(torrent.announce)
                                                ELSE {torrent.announce[1]}
    /\ tf.pieceHashes = PieceCount(torrent) /\ tf.pieceLength = torrent.pieceLength
    /\ tf.text["name"] = torrent.name
    /\ tf.text["comment"] = IF "comment" \in torrent.options THEN "info" ELSE ""
    /\ tf.url_list = IF "url-list" \in torrent.options THEN <<"u1", "u2">> ELSE <<>>
    /\ Lengths(tf) = FlattenSeq([k \in DOMAIN torrent.files |->
                                   IF torrent.files[k].length > 0
                                     THEN <<torrent.files[k].length>> ELSE <<>>])
    /\ NoEmptyFile => \A k \in DOMAIN tf.files : tf.files[k].path = torrent.files[k].path

\* infoHash is the hash of the info dictionary and of nothing else: the depth
\* counter falls to zero at its own "e", after all the integers, the lists and
\* the files' dictionaries that Metainfo puts in it.  (It has no dictionary under
\* a key the parser does not know: the depth would be counted wrong.)
InfoHashIsOfInfo == Loaded => tf.infoHash = Info(torrent)

\* The pieces tile the content: the constructor's assertion holds, each piece is
\* written where the one before ended, and with a list of files the last ends
\* where the files end.
PiecesTileTheContent ==
  /\ Loaded => Assertion
  /\ \A i \in 1 .. Len(pieces) : pieces[i] > 0 /\ OffsetOnDisk(i - 1) = SumTo(pieces, i - 1)
  /\ stage = "Distribute" /\ ~torrent.single =>
       SumTo(pieces, Len(pieces)) = Content(torrent)

\* The blocks of a piece tile it, none is empty or too long, and the answer
\* to a request is stored in the block that was asked for.
BlocksTileThePiece ==
  \A i \in 1 .. Len(pieces) :
    LET n == NumBlocksOf(pieces[i])
        lengths == [k \in 1 .. n |-> BlockLength(pieces[i], k - 1)]
    IN /\ SumTo(lengths, n) = pieces[i]
       /\ \A b \in 0 .. n - 1 :
            /\ lengths[b + 1] \in 1 .. BlockSize
            /\ BlockOffset(b) = SumTo(lengths, b)
            /\ BlockOfOffset(BlockOffset(b)) = b

\* From the torrent to the disk: every file that is written has the bytes of
\* the torrent's file of that path, all of which some piece brought.
FilesGetTheirBytes ==
  NoEmptyFile =>
    \A k \in 1 .. Len(outputs) :
      LET first == SumTo(Lengths(torrent), k - 1)
          last  == SumTo(Lengths(torrent), k) - 1
      IN /\ outputs[k] = [path  |-> torrent.files[k].path,
                          bytes |-> <<first, torrent.files[k].length>>]
         /\ \A byte \in first .. last : \E i \in DOMAIN pieces :
              byte \in OffsetOnDisk(i - 1) .. OffsetOnDisk(i - 1) + pieces[i] - 1

\* No piece reaches beyond the end of the content: the last one is what is
\* left, not a full piece.
LastPieceIsTheRest ==
  stage = "Distribute" => SumTo(pieces, Len(pieces)) = Content(torrent)
=============================================================================
