--------------------------- MODULE MCPeerConnect ---------------------------
(* Instances of PeerConnect for TLC. *)
EXTENDS PeerConnect, TLC

\* The last piece is the short one.
MCNumBlocks == [p \in 0 .. NumPieces - 1 |-> IF p = NumPieces - 1 THEN 1 ELSE 2]
MCOneBlock  == [p \in 0 .. NumPieces - 1 |-> 1]

ConnSymmetry == Permutations(Conns)

\* The part of the state later steps and the properties about who is responsible
\* for a piece depend on, for a VIEW: a field nobody reads before it is assigned
\* again is left out, and so are the bytes in a block or on disk and the order
\* pieces were saved in.  Where any block may come unsolicited, the requests are
\* left out as well.
InLoop(c)   == pc[c] \in {"Loop", "Processed", "Save", "Ask", "Request"}
LoopIsOver(c) == At(c, "Loop") /\ terminated[c]
TaskOver(c) == At(c, "Idle") \/ (At(c, "Attempt") /\ ~TryAgain(c))

TaskOf(c) ==
  IF TaskOver(c) THEN <<>>
  ELSE IF attempts[c] = 3 \/ At(c, "Connected") THEN <<attempts[c], terminated[c]>>
  ELSE <<attempts[c], terminated[c], failed[c]>>

LeaseOf(c) ==
  IF isPieceDownloadingNow[c] \/ InLoop(c)
    THEN <<isPieceDownloadingNow[c], pieceInProgress[c]>>
    ELSE <<>>

FlagsOf(c) == IF InLoop(c) /\ ~LoopIsOver(c) THEN <<choked[c], pendingBlock[c]>> ELSE <<>>

BlocksOf(p) ==
  IF \/ p \in Range(remainPieces)
     \/ \E c \in Conns :
          pieceInProgress[c] = p /\ (At(c, "Back") \/ (InLoop(c) /\ ~LoopIsOver(c)))
    THEN [b \in BlockIds(p) |-> blocks[p][b].status]
    ELSE <<>>

OwnershipState ==
  <<queueVars, piecesInProgressCount, Range(savedPieces), fdOpen, pc,
    [c \in Conns |-> <<TaskOf(c), LeaseOf(c), FlagsOf(c)>>],
    [p \in Pieces |-> BlocksOf(p)]>>
=============================================================================
