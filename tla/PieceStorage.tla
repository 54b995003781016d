---------------------------- MODULE PieceStorage ----------------------------
(***************************************************************************)
(* The class PieceStorage (piece_storage.h, piece_storage.cpp), shared by  *)
(* the main thread and every peer connection.  Each operation below is one *)
(* critical section of mutex_ or one atomic access of the counter; the     *)
(* threads that interleave them are in PeerConnect and Download.           *)
(***************************************************************************)
EXTENDS Piece, Sequences, FiniteSets, Functions

CONSTANTS
  PiecesToDownload,  \* the argument of SetNewSize (a percentage of NumPieces)
  SizeMax            \* the largest size_t: the counter wraps there

ASSUME PiecesToDownloadAssumption == PiecesToDownload \in 1 .. NumPieces
ASSUME SizeMaxAssumption == SizeMax \in Nat /\ SizeMax >= NumPieces

VARIABLES
  remainPieces,           \* deque of the pieces nobody downloads
  downloadingPieces,      \* keys of the map of pieces handed out
  piecesInProgressCount,  \* atomic<size_t>
  savedPieces,            \* indicesOfSavedPiecesToDisc_
  fdOpen,                 \* fd_ # -1
  disk,                   \* what the output file holds at each piece's offset
  blocks                  \* the block vector of every Piece object

queueVars   == <<remainPieces, downloadingPieces>>
storageVars == <<remainPieces, downloadingPieces, piecesInProgressCount,
                 savedPieces, fdOpen, disk>>

Wanted == 0 .. PiecesToDownload - 1
DiskContent == {"Hole", "Right", "Wrong"}

\* The queue and the saved list hold pieces, each block vector fits its piece.
StorageTypeOK ==
  /\ remainPieces \in Seq(Pieces)
  /\ downloadingPieces \in SUBSET Pieces
  /\ piecesInProgressCount \in 0 .. SizeMax
  /\ savedPieces \in Seq(Pieces)
  /\ fdOpen \in BOOLEAN
  /\ disk \in [Pieces -> DiskContent]
  /\ blocks = [p \in Pieces |-> blocks[p]]
  /\ \A p \in Pieces : blocks[p] \in [BlockIds(p) -> Block]

\* SetNewSize pops pieces off the back until newSize are left.
MutKeepOneMore(queue, newSize) ==
  SubSeq(queue, 1, IF newSize < Len(queue) THEN newSize + 1 ELSE Len(queue))
SetNewSize(queue, newSize) ==
  SubSeq(queue, 1, IF newSize < Len(queue) THEN newSize ELSE Len(queue))

\* The constructor queues every piece in order; main then cuts the queue
\* with SetNewSize, before any other thread exists.
StorageInit ==
  /\ remainPieces = SetNewSize([i \in 1 .. NumPieces |-> i - 1], PiecesToDownload)
  /\ downloadingPieces = {}
  /\ piecesInProgressCount = 0
  /\ savedPieces = <<>>
  /\ fdOpen = TRUE
  /\ disk = [p \in Pieces |-> "Hole"]
  /\ blocks = [p \in Pieces |-> NewBlocks(p)]

Increment(n) == IF n = SizeMax THEN 0 ELSE n + 1
Decrement(n) == IF n = 0 THEN SizeMax ELSE n - 1

QueueIsEmpty == remainPieces = <<>>

\* GetNextPieceToDownload returns p; on an empty queue it throws and changes
\* nothing (the callers' exceptional disjuncts).
MutLeaveInQueue(p) ==
  /\ ~QueueIsEmpty
  /\ p = Head(remainPieces)
  /\ remainPieces' = remainPieces
  /\ downloadingPieces' = downloadingPieces \cup {p}
  /\ piecesInProgressCount' = Increment(piecesInProgressCount)
  /\ UNCHANGED <<savedPieces, fdOpen, disk>>
MutForgetToCount(p) ==
  /\ ~QueueIsEmpty
  /\ p = Head(remainPieces)
  /\ remainPieces' = Tail(remainPieces)
  /\ downloadingPieces' = downloadingPieces \cup {p}
  /\ UNCHANGED <<piecesInProgressCount, savedPieces, fdOpen, disk>>
GetNextPieceToDownload(p) ==
  /\ ~QueueIsEmpty
  /\ p = Head(remainPieces)
  /\ remainPieces' = Tail(remainPieces)
  /\ downloadingPieces' = downloadingPieces \cup {p}
  /\ piecesInProgressCount' = Increment(piecesInProgressCount)
  /\ UNCHANGED <<savedPieces, fdOpen, disk>>

\* The first statement of PieceProcessed, before the mutex is taken; also
\* the whole of DecrementPieceInProgressCounter.
DecrementCounter ==
  /\ piecesInProgressCount' = Decrement(piecesInProgressCount)
  /\ UNCHANGED <<remainPieces, downloadingPieces, savedPieces, fdOpen, disk>>

\* SavePieceToDisk, the file (re)opened if need be and the piece written.  A
\* short write is not noticed: complete says whether all bytes reached the file.
SavePieceToDisk(p, complete) ==
  /\ fdOpen' = TRUE
  /\ disk' = [disk EXCEPT ![p] =
                IF complete /\ GetDataIsOf(blocks[p], p) THEN "Right" ELSE "Wrong"]
  /\ downloadingPieces' = downloadingPieces \ {p}
  /\ savedPieces' = Append(savedPieces, p)
  /\ UNCHANGED <<remainPieces, piecesInProgressCount>>

\* SavePieceToDisk when lseek or write fails: it closes the file and returns.
SavePieceToDiskFails ==
  /\ fdOpen' = FALSE
  /\ UNCHANGED <<remainPieces, downloadingPieces, piecesInProgressCount,
                 savedPieces, disk>>

MutBackWithoutErase(p) ==
  /\ remainPieces' = Append(remainPieces, p)
  /\ UNCHANGED <<downloadingPieces, piecesInProgressCount, savedPieces, fdOpen, disk>>
BackPieceToQueue(p) ==
  /\ IF p \in downloadingPieces
       THEN /\ remainPieces' = Append(remainPieces, p)
            /\ downloadingPieces' = downloadingPieces \ {p}
       ELSE UNCHANGED queueVars
  /\ UNCHANGED <<piecesInProgressCount, savedPieces, fdOpen, disk>>
=============================================================================
