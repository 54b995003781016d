----------------------------- MODULE MCDownload -----------------------------
(* Instances of Download for TLC. *)
EXTENDS Download, TLC

MCNumBlocks == [p \in 0 .. NumPieces - 1 |-> IF p = NumPieces - 1 THEN 1 ELSE 2]
MCFirstOfTwo == [p \in 0 .. NumPieces - 1 |-> IF p = 0 THEN 2 ELSE 1]
MCOneBlock  == [p \in 0 .. NumPieces - 1 |-> 1]

ConnSymmetry == Permutations(Conns)

\* As in MCPeerConnect: what later steps depend on, for a VIEW.
While(c, labels, value) == IF pc[c] \in labels THEN value ELSE NoPiece
InLoop == {"Loop", "Processed", "Save", "Ask", "Request"}
FlagState ==
  <<[c \in Conns |-> While(c, Labels \ {"Idle"}, terminated[c])],
    [c \in Conns |-> While(c, InLoop, requests[c])],
    [c \in Conns |-> While(c, InLoop, <<choked[c], pendingBlock[c]>>)],
    [c \in Conns |-> While(c, Labels \ {"Idle", "Queued"}, failed[c])]>>
LiveState == <<storageVars, blocks, pc, attempts, leaseVars, mainVars, FlagState>>

\* Left out too: what a connection held when its task was over, or points to
\* before MainLoop sets the pointer again; its flags and requests outside the
\* loop; and the order pieces were saved in.
InTask(c) ==
  pc[c] \notin {"Idle", "Queued"} /\ ~(At(c, "Attempt") /\ ~TryAgain(c))
OutcomeOf(c) ==
  IF ~InTask(c) THEN IF At(c, "Queued") THEN terminated[c] ELSE NoPiece
  ELSE IF pc[c] \in InLoop
         THEN <<terminated[c], attempts[c], failed[c], isPieceDownloadingNow[c],
                pieceInProgress[c], choked[c], pendingBlock[c], requests[c]>>
  ELSE IF pc[c] \in {"Leave", "Back"}
         THEN <<terminated[c], attempts[c], failed[c], isPieceDownloadingNow[c],
                pieceInProgress[c]>>
  ELSE <<terminated[c], attempts[c], failed[c], isPieceDownloadingNow[c]>>
OutcomeState ==
  <<queueVars, piecesInProgressCount, Len(savedPieces), Range(savedPieces),
    disk, fdOpen, blocks, mainVars, pc, [c \in Conns |-> OutcomeOf(c)]>>
=============================================================================
