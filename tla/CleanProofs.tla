----------------------------- MODULE CleanProofs -----------------------------
(* What holds while no peer sends blocks it was not asked for: each block   *)
(* is stored in the piece it belongs to, so what is saved is right, and a   *)
(* holder has a request for it out until the peer chokes it; and, when      *)
(* nothing throws, the books balance: the counter is exact, and no piece is *)
(* handed out without a holder.  A write may fail or be cut short there:    *)
(* the code goes on as if nothing happened.                                 *)
EXTENDS PeerConnectProofs

----------------------------------------------------------------------------
(* An answer fits the piece in progress.                                    *)

\* A connection has asked for at most one block, of the piece it holds, and
\* for none before MainLoop, before it asks, and while a piece is saved.
AnswersOf(c) ==
  /\ pc[c] \in {"Connected", "Processed", "Save"} => requests[c] = {}
  /\ pc[c] = "Request" => ~pendingBlock[c]
  /\ pc[c] \in {"Loop", "Ask", "Request"} =>
       \A r \in requests[c] :
         /\ pendingBlock[c]
         /\ Holds(c, r.piece)
         /\ blocks[r.piece][r.block].status = "Pending"
         /\ \A s \in requests[c] : r = s

AnswerInv == OwnInv /\ \A c \in Conns : AnswersOf(c)

\* At first nobody has asked for anything.
LEMMA InitAnswerInv == Init => AnswerInv
BY InitOwnInv DEF AnswerInv, AnswersOf, Init

\* A local step asks for nothing and forgets no answer that is awaited.
LEMMA LocalAsksNothing ==
  ASSUME TypeOK, NEW c \in Conns, Local(c)
  PROVE  /\ pendingBlock' = pendingBlock
         /\ requests'[c] \subseteq requests[c]
         /\ \A d \in Conns \ {c} : requests'[d] = requests[d]
         /\ pc'[c] = "Connected" => requests'[c] = {} \/ pc'[c] = pc[c]
         /\ pc'[c] = "Request" => ~pendingBlock[c] \/ pc'[c] = pc[c]
<1> USE DEF TypeOK, flagVars, At, Goto, Throw, Receives
<1>1. CASE Start(c) BY <1>1 DEF Start
<1>2. CASE Terminate(c) BY <1>2 DEF Terminate
<1>3. CASE RunReturns(c) BY <1>3 DEF RunReturns
<1>4. CASE EstablishConnectionFails(c) BY <1>4 DEF EstablishConnectionFails
<1>5. CASE TerminateRefused(c) BY <1>5 DEF TerminateRefused
<1>6. CASE EstablishConnection(c) BY <1>6 DEF EstablishConnection
<1>7. CASE LoopStops(c) BY <1>7 DEF LoopStops
<1>8. CASE ReceiveFails(c) BY <1>8 DEF ReceiveFails
<1>9. CASE HandleKeepAlive(c) BY <1>9 DEF HandleKeepAlive
<1>10. CASE HandleChoke(c) BY <1>10 DEF HandleChoke
<1>11. CASE HandleUnchoke(c) BY <1>11 DEF HandleUnchoke
<1>12. CASE HandleHave(c) BY <1>12 DEF HandleHave
<1>13. CASE HandleBadHave(c) BY <1>13 DEF HandleBadHave
<1>14. CASE HandleOther(c) BY <1>14 DEF HandleOther
<1>15. CASE HandleShortPiece(c) BY <1>15 DEF HandleShortPiece
<1>16. CASE HandlePieceQueueEmpty(c) BY <1>16 DEF HandlePieceQueueEmpty
<1>17. CASE SavePieceCannotOpen(c) BY <1>17 DEF SavePieceCannotOpen
<1>18. CASE Ask(c) BY <1>18 DEF Ask
<1>19. CASE RequestQueueEmpty(c) BY <1>19 DEF RequestQueueEmpty
<1>20. CASE LeaveWithoutPiece(c) BY <1>20 DEF LeaveWithoutPiece
<1>21. CASE LeaveCrashes(c) BY <1>21 DEF LeaveCrashes
<1>22. CASE RunAgain(c) BY <1>22 DEF RunAgain
<1>23. CASE TaskEnds(c) BY <1>23 DEF TaskEnds
<1> QED BY <1>1, <1>2, <1>3, <1>4, <1>5, <1>6, <1>7, <1>8, <1>9, <1>10, <1>11,
           <1>12, <1>13, <1>14, <1>15, <1>16, <1>17, <1>18, <1>19, <1>20, <1>21,
           <1>22, <1>23 DEF Local

\* A step of another connection, which cannot touch the pieces d holds.
LEMMA OthersAnswers ==
  ASSUME TypeOK, NEW d \in Conns, AnswersOf(d),
         pc'[d] = pc[d], pendingBlock'[d] = pendingBlock[d], requests'[d] = requests[d],
         pieceInProgress'[d] = pieceInProgress[d],
         isPieceDownloadingNow'[d] = isPieceDownloadingNow[d],
         \A q \in Pieces : Holds(d, q) => blocks'[q] = blocks[q]
  PROVE  AnswersOf(d)'
<1>1. \A r \in requests[d] : r.piece \in Pieces
  BY DEF TypeOK, Requests
<1> QED BY <1>1 DEF AnswersOf, Holds

\* Without unsolicited blocks the only message that can come is the answer.
LEMMA OnlyAnswers ==
  ASSUME "Unsolicited" \notin Faults, NEW c
  PROVE  PieceMessages(c) = requests[c]
BY DEF PieceMessages

\* The block a connection gets is the one it asked for, of the piece it holds.
LEMMA AnswerIsOfPiece ==
  ASSUME "Unsolicited" \notin Faults, AnswerInv, NEW c \in Conns, NEW p \in Pieces,
         pc[c] = "Loop", AcquirePiece(c, p), NEW m \in PieceMessages(c)
  PROVE  m.piece = p /\ requests[c] = {m}
<1>1. /\ m \in requests[c] /\ Holds(c, m.piece)
      /\ \A s \in requests[c] : m = s
  BY OnlyAnswers DEF AnswerInv, AnswersOf
<1>2. m.piece \in Pieces
  BY <1>1 DEF AnswerInv, OwnInv, TypeInv, TypeOK, Requests
<1>3. pieceInProgress[c] = m.piece /\ m.piece # NoPiece
  BY <1>1, <1>2, NoPieceAssumption DEF Holds, Pieces
<1> QED BY <1>1, <1>3 DEF AcquirePiece

\* After a fetching step the answer that is awaited, if any, is the right one.
LEMMA FetchAsksOne ==
  ASSUME "Unsolicited" \notin Faults, AnswerInv, NEW c \in Conns, Fetch(c)
  PROVE  /\ AnswersOf(c)'
         /\ \A d \in Conns \ {c} : pendingBlock'[d] = pendingBlock[d] /\ requests'[d] = requests[d]
<1> USE DEF AnswerInv, OwnInv, TypeInv
<1>1. c \in DOMAIN pc /\ c \in DOMAIN requests /\ c \in DOMAIN pendingBlock
  BY DEF TypeOK
<1>2. \A p \in Pieces : AcquirePiece(c, p) /\ pc[c] \in {"Loop", "Request"} => Holds(c, p)'
  BY FetchOwns
<1>3. pc[c] = "Request" => requests[c] = {}
  BY DEF AnswersOf
<1>4. CASE HandlePiece(c)
  <2>1. PICK p \in Pieces, m \in PieceMessages(c) :
          /\ Receives(c) /\ AcquirePiece(c, p)
          /\ requests' = [requests EXCEPT ![c] = @ \ {m}]
          /\ pendingBlock' = [pendingBlock EXCEPT ![c] = FALSE]
          /\ Goto(c, "Processed") \/ Goto(c, "Ask")
    BY <1>4 DEF HandlePiece
  <2>2. requests'[c] = {}
    BY <1>1, <2>1, AnswerIsOfPiece DEF Receives, At
  <2> QED BY <1>1, <2>1, <2>2 DEF AnswersOf, Goto, TypeOK
<1>5. CASE HandlePieceOutOfRange(c)
  BY <1>1, <1>5 DEF HandlePieceOutOfRange, AnswersOf, Throw, Goto, flagVars
<1>6. CASE RequestBlock(c)
  <2>0. PICK p \in Pieces : \E b \in BlockIds(p) :
          /\ At(c, "Request") /\ AcquirePiece(c, p)
          /\ blocks' = [blocks EXCEPT ![p] = MarkPending(@, b)]
          /\ requests' = [requests EXCEPT ![c] = @ \cup {[piece |-> p, block |-> b]}]
          /\ pendingBlock' = [pendingBlock EXCEPT ![c] = TRUE]
          /\ Goto(c, "Loop")
    BY <1>6 DEF RequestBlock
  <2>1. PICK b \in BlockIds(p) :
          /\ At(c, "Request") /\ AcquirePiece(c, p)
          /\ blocks' = [blocks EXCEPT ![p] = MarkPending(@, b)]
          /\ requests' = [requests EXCEPT ![c] = @ \cup {[piece |-> p, block |-> b]}]
          /\ pendingBlock' = [pendingBlock EXCEPT ![c] = TRUE]
          /\ Goto(c, "Loop")
    BY <2>0
  <2>2. requests'[c] = {[piece |-> p, block |-> b]} /\ pendingBlock'[c] /\ pc'[c] = "Loop"
    BY <1>1, <1>3, <2>1 DEF At, Goto
  <2>3. blocks'[p][b].status = "Pending"
    BY <2>1 DEF MarkPending, TypeOK, StorageTypeOK, Block
  <2> QED BY <1>1, <1>2, <2>1, <2>2, <2>3 DEF AnswersOf, At
<1>7. CASE RequestSendFails(c)
  BY <1>1, <1>7 DEF RequestSendFails, AnswersOf, Throw, Goto, flagVars
<1>8. CASE RequestNothingMissing(c)
  BY <1>1, <1>3, <1>8 DEF RequestNothingMissing, AnswersOf, At, Goto, flagVars
<1> QED BY <1>4, <1>5, <1>6, <1>7, <1>8 DEF Fetch

\* No step loses track of a request.
LEMMA AnswerStep ==
  ASSUME "Unsolicited" \notin Faults
  PROVE  AnswerInv /\ [Next]_vars => AnswerInv'
<1> SUFFICES ASSUME AnswerInv, [Next]_vars, NEW d \in Conns PROVE AnswersOf(d)'
  BY OwnStep DEF AnswerInv
<1>1. OwnInv /\ TypeInv /\ TypeOK /\ AnswersOf(d)
  BY DEF AnswerInv, OwnInv, TypeInv
<1>2. CASE UNCHANGED vars
  BY <1>1, <1>2 DEF AnswersOf, Holds, vars, storageVars, connVars
<1>3. ASSUME NEW c \in Conns, Local(c) PROVE AnswersOf(d)'
  <2>1. UNCHANGED <<blocks, pieceInProgress, isPieceDownloadingNow, pendingBlock>>
    BY <1>1, <1>3, LocalMoves, LocalAsksNothing DEF leaseVars
  <2>2. CASE pc'[d] = "Crashed"
    BY <2>2 DEF AnswersOf
  <2>3. CASE d # c /\ pc'[d] = pc[d]
    BY <1>1, <1>3, <2>1, <2>3, LocalAsksNothing, OthersAnswers
  <2>4. CASE d = c /\ pc'[c] # "Crashed"
    <3>1. /\ requests'[c] \subseteq requests[c]
          /\ pc'[c] = "Connected" => requests'[c] = {} \/ pc'[c] = pc[c]
          /\ pc'[c] = "Request" => ~pendingBlock[c] \/ pc'[c] = pc[c]
      BY <1>1, <1>3, LocalAsksNothing
    <3>2. \/ pc'[c] = pc[c]
          \/ pc'[c] \in {"Run", "Refused", "Connected", "Attempt", "Idle"}
          \/ pc[c] \in {"Loop", "Ask"} /\ pc'[c] \in {"Loop", "Ask", "Request", "Leave"}
      BY <1>1, <1>3, <2>4, LocalMoves
    <3> QED BY <1>1, <2>1, <2>4, <3>1, <3>2 DEF AnswersOf, Holds
  <2> QED BY <1>1, <1>3, <2>2, <2>3, <2>4, LocalMoves
<1>4. ASSUME NEW c \in Conns, Fetch(c) PROVE AnswersOf(d)'
  <2>1. PICK p \in Pieces :
          /\ AcquirePiece(c, p)
          /\ \A q \in Pieces \ {p} : blocks'[q] = blocks[q]
    BY <1>1, <1>4, FetchMoves
  <2>2. /\ pc[c] \in {"Loop", "Request"}
        /\ \E l \in {"Processed", "Ask", "Loop", "Attempt"} : pc' = [pc EXCEPT ![c] = l]
    BY <1>1, <1>4, FetchMoves
  <2>3. CASE d = c
    BY <1>4, <2>3, FetchAsksOne
  <2>4. CASE d # c
    <3>1. /\ pc'[d] = pc[d] /\ pendingBlock'[d] = pendingBlock[d] /\ requests'[d] = requests[d]
      BY <1>1, <1>4, <2>2, <2>4, FetchAsksOne DEF TypeOK
    <3>2. /\ pieceInProgress'[d] = pieceInProgress[d]
          /\ isPieceDownloadingNow'[d] = isPieceDownloadingNow[d]
      BY <1>1, <2>1, <2>4 DEF AcquirePiece, leaseVars, TypeOK
    <3>3. Holds(c, p)' /\ ExclusiveLease'
      BY <1>1, <2>1, <2>2, FetchOwns
    <3>4. ~Holds(d, p)
      BY <2>4, <3>2, <3>3 DEF ExclusiveLease, Holds
    <3> QED BY <1>1, <2>1, <3>1, <3>2, <3>4, OthersAnswers
  <2> QED BY <2>3, <2>4
<1>5. ASSUME NEW c \in Conns,
             \/ Construct(c) \/ EnterMainLoop(c) \/ PieceProcessed(c) \/ SavePiece(c)
             \/ SavePieceFails(c) \/ LeaveWithPiece(c) \/ ReturnPiece(c)
      PROVE AnswersOf(d)'
  <2>1. CASE d = c
    <3>1. /\ requests'[c] = {} \/ pc'[c] \in {"Back", "Run"}
          /\ pc'[c] \in {"Queued", "Loop", "Save", "Ask", "Back", "Run"}
      BY <1>1, <1>5, <2>1 DEF Construct, EnterMainLoop, PieceProcessed, SavePiece, SavePieceFails,
         LeaveWithPiece, ReturnPiece, At, Goto, TypeOK, AnswersOf
    <3> QED BY <2>1, <3>1 DEF AnswersOf
  <2>2. CASE d # c
    <3>1. /\ pc'[d] = pc[d] /\ pendingBlock'[d] = pendingBlock[d] /\ requests'[d] = requests[d]
          /\ pieceInProgress'[d] = pieceInProgress[d]
          /\ isPieceDownloadingNow'[d] = isPieceDownloadingNow[d]
      BY <1>1, <1>5, <2>2 DEF Construct, EnterMainLoop, PieceProcessed, SavePiece, SavePieceFails,
         LeaveWithPiece, ReturnPiece, DropPiece, Goto, TypeOK, flagVars, leaseVars
    <3>2. \A q \in Pieces : Holds(d, q) => blocks'[q] = blocks[q]
      <4>1. CASE LeaveWithPiece(c)
        <5>1. Holds(c, pieceInProgress[c]) /\ pieceInProgress[c] \in Pieces
          BY <1>1, <4>1 DEF LeaveWithPiece, Holds, TypeOK
        <5> QED BY <1>1, <2>2, <4>1, <5>1
                DEF LeaveWithPiece, OwnInv, ExclusiveLease, TypeOK, StorageTypeOK
      <4>2. CASE UNCHANGED blocks
        BY <4>2
      <4> QED BY <1>5, <4>1, <4>2 DEF Construct, EnterMainLoop, PieceProcessed, SavePiece,
                 SavePieceFails, ReturnPiece
    <3> QED BY <1>1, <3>1, <3>2, OthersAnswers
  <2> QED BY <2>1, <2>2
<1> QED BY <1>2, <1>3, <1>4, <1>5, NextCases

\* If peers send only blocks they were asked for, HandlePiece, which never
\* looks at the piece number, stores each in the piece it belongs to: while
\* MainLoop runs, a request that is out is for a block of the piece in
\* progress, whatever was choked, dropped, returned or taken in between.
THEOREM AnswersFit ==
  ASSUME "Unsolicited" \notin Faults
  PROVE  Spec => []AnswersFitThePiece
<1>1. AnswerInv => AnswersFitThePiece
  BY DEF AnswerInv, AnswersOf, AnswersFitThePiece
<1> QED BY <1>1, InitAnswerInv, AnswerStep, PTL DEF Spec

----------------------------------------------------------------------------
(* What is saved is right.                                                  *)

\* The blocks that came belong to the piece they are stored in.
DataFits ==
  \A p \in Pieces : \A b \in BlockIds(p) :
    blocks[p][b].status = "Retrieved" => blocks[p][b].data = p

\* A piece on its way to the disk has all its blocks.
SavedIsComplete ==
  \A c \in Conns :
    pc[c] \in {"Processed", "Save"} => AllBlocksRetrieved(blocks[pieceInProgress[c]])

SavedInv == AnswerInv /\ DataFits /\ SavedIsComplete /\ SavedIsRight

\* At first no block has come.
LEMMA InitSavedInv == Init => SavedInv
<1> SUFFICES ASSUME Init PROVE DataFits /\ SavedIsComplete /\ SavedIsRight
  BY InitAnswerInv DEF SavedInv
<1>1. DataFits
  BY DEF DataFits, Init, StorageInit, NewBlocks, MissingBlock
<1>2. SavedIsComplete
  BY DEF SavedIsComplete, Init
<1>3. savedPieces = <<>> /\ DOMAIN savedPieces = {}
  BY DEF Init, StorageInit
<1> QED BY <1>1, <1>2, <1>3 DEF SavedIsRight, Range

\* A connection that hands a piece to the storage holds it; nobody else does.
LEMMA SaverHolds ==
  ASSUME OwnInv, NEW d \in Conns, pc[d] \in {"Processed", "Save"}
  PROVE  /\ pieceInProgress[d] \in Pieces /\ Holds(d, pieceInProgress[d])
         /\ \A c \in Conns : Holds(c, pieceInProgress[d]) => c = d
BY ReturnedIsHeld DEF OwnInv, ExclusiveLease

\* A fetching step stores nothing but the answer, where it belongs.
LEMMA FetchStoresRight ==
  ASSUME "Unsolicited" \notin Faults, SavedInv, NEW c \in Conns, Fetch(c)
  PROVE  /\ DataFits'
         /\ pc'[c] \in {"Processed", "Save"} => AllBlocksRetrieved(blocks'[pieceInProgress'[c]])
<1> USE DEF SavedInv, AnswerInv, OwnInv, TypeInv
<1>1. c \in DOMAIN pc /\ c \in DOMAIN pieceInProgress
  BY DEF TypeOK
<1>2. CASE HandlePiece(c)
  <2>1. PICK p \in Pieces, m \in PieceMessages(c) :
          /\ Receives(c) /\ AcquirePiece(c, p) /\ m.block \in BlockIds(p)
          /\ blocks' = [blocks EXCEPT ![p] = SaveBlock(@, m.block, m.piece)]
          /\ IF AllBlocksRetrieved(blocks'[p]) THEN Goto(c, "Processed") ELSE Goto(c, "Ask")
    BY <1>2 DEF HandlePiece
  <2>2. m.piece = p
    BY <2>1, AnswerIsOfPiece DEF Receives, At
  <2>3. DataFits'
    <3> SUFFICES ASSUME NEW q \in Pieces, NEW b \in BlockIds(q), blocks'[q][b].status = "Retrieved"
                 PROVE  blocks'[q][b].data = q
      BY DEF DataFits
    <3>1. blocks[q] \in [BlockIds(q) -> Block]
      BY DEF TypeOK, StorageTypeOK
    <3>2. CASE q = p /\ b = m.block
      BY <2>1, <2>2, <3>1, <3>2 DEF SaveBlock, TypeOK, StorageTypeOK
    <3>3. CASE ~(q = p /\ b = m.block)
      BY <2>1, <3>1, <3>3 DEF SaveBlock, TypeOK, StorageTypeOK, DataFits
    <3> QED BY <3>2, <3>3
  <2>4. pieceInProgress'[c] = p
    BY <1>1, <2>1, AcquireTypes
  <2> QED BY <1>1, <2>1, <2>3, <2>4 DEF Goto
<1>3. CASE RequestBlock(c) \/ RequestSendFails(c)
  <2>1. PICK p \in Pieces : \E b \in BlockIds(p) :
          blocks' = [blocks EXCEPT ![p] = MarkPending(@, b)]
    BY <1>3 DEF RequestBlock, RequestSendFails
  <2>2. DataFits'
    BY <2>1 DEF DataFits, MarkPending, TypeOK, StorageTypeOK, Block
  <2> QED BY <1>1, <1>3, <2>2 DEF RequestBlock, RequestSendFails, Goto, Throw
<1>4. CASE HandlePieceOutOfRange(c) \/ RequestNothingMissing(c)
  BY <1>1, <1>4 DEF HandlePieceOutOfRange, RequestNothingMissing, Goto, Throw, DataFits
<1> QED BY <1>2, <1>3, <1>4 DEF Fetch

\* No step puts foreign bytes into a piece or an incomplete piece on disk.
LEMMA SavedStep ==
  ASSUME "Unsolicited" \notin Faults, "ShortWrite" \notin Faults
  PROVE  SavedInv /\ [Next]_vars => SavedInv'
<1> SUFFICES ASSUME SavedInv, [Next]_vars PROVE DataFits' /\ SavedIsComplete' /\ SavedIsRight'
  BY AnswerStep DEF SavedInv
<1>1. /\ AnswerInv /\ OwnInv /\ TypeOK
      /\ DataFits /\ SavedIsComplete /\ SavedIsRight
  BY DEF SavedInv, AnswerInv, OwnInv, TypeInv
<1>2. CASE UNCHANGED vars
  BY <1>1, <1>2 DEF DataFits, SavedIsComplete, SavedIsRight, vars, storageVars, connVars
<1>3. ASSUME NEW c \in Conns, Local(c) PROVE DataFits' /\ SavedIsComplete' /\ SavedIsRight'
  <2>1. UNCHANGED <<storageVars, blocks, pieceInProgress>>
    BY <1>1, <1>3, LocalMoves DEF leaseVars
  <2>2. \A d \in Conns : pc'[d] \in {"Processed", "Save"} => pc'[d] = pc[d]
    BY <1>1, <1>3, LocalMoves
  <2> QED BY <1>1, <2>1, <2>2 DEF DataFits, SavedIsComplete, SavedIsRight, storageVars
<1>4. ASSUME NEW c \in Conns, Fetch(c) PROVE DataFits' /\ SavedIsComplete' /\ SavedIsRight'
  <2>1. PICK p \in Pieces :
          /\ AcquirePiece(c, p)
          /\ \A q \in Pieces \ {p} : blocks'[q] = blocks[q]
    BY <1>1, <1>4, FetchMoves
  <2>2. /\ pc[c] \in {"Loop", "Request"}
        /\ \E l \in {"Processed", "Ask", "Loop", "Attempt"} : pc' = [pc EXCEPT ![c] = l]
    BY <1>1, <1>4, FetchMoves
  <2>3. UNCHANGED <<savedPieces, disk>>
    BY <1>1, <2>1, AcquireTypes
  <2>4. ASSUME NEW d \in Conns, d # c, pc'[d] \in {"Processed", "Save"}
        PROVE  AllBlocksRetrieved(blocks'[pieceInProgress'[d]])
    <3>1. /\ pieceInProgress'[d] = pieceInProgress[d] /\ pc'[d] = pc[d]
          /\ isPieceDownloadingNow'[d] = isPieceDownloadingNow[d]
      BY <1>1, <2>1, <2>2, <2>4 DEF AcquirePiece, leaseVars, TypeOK
    <3>2. Holds(c, p)' /\ ExclusiveLease'
      BY <1>1, <2>1, <2>2, FetchOwns
    <3>3. pieceInProgress[d] \in Pieces /\ Holds(d, pieceInProgress[d])
      BY <1>1, <2>4, <3>1, SaverHolds
    <3>4. pieceInProgress[d] # p
      BY <2>1, <2>4, <3>1, <3>2, <3>3 DEF ExclusiveLease, Holds
    <3> QED BY <1>1, <2>1, <2>4, <3>1, <3>3, <3>4 DEF SavedIsComplete
  <2>5. SavedIsComplete'
    BY <1>4, <2>4, FetchStoresRight DEF SavedIsComplete
  <2> QED BY <1>1, <1>4, <2>3, <2>5, FetchStoresRight DEF SavedIsRight
<1>5. ASSUME NEW c \in Conns,
             Construct(c) \/ EnterMainLoop(c) \/ PieceProcessed(c) \/ SavePieceFails(c) \/ ReturnPiece(c)
      PROVE  DataFits' /\ SavedIsComplete' /\ SavedIsRight'
  <2>1. UNCHANGED <<blocks, savedPieces, disk>>
    BY <1>5 DEF Construct, EnterMainLoop, PieceProcessed, SavePieceFails, ReturnPiece,
       DecrementCounter, SavePieceToDiskFails, BackPieceToQueue, storageVars
  <2>2. \A d \in Conns : pc'[d] \in {"Processed", "Save"} =>
          pc[d] \in {"Processed", "Save"} /\ pieceInProgress'[d] = pieceInProgress[d]
    BY <1>1, <1>5 DEF Construct, EnterMainLoop, PieceProcessed, SavePieceFails, ReturnPiece,
       DropPiece, At, Goto, TypeOK, leaseVars
  <2> QED BY <1>1, <2>1, <2>2 DEF DataFits, SavedIsComplete, SavedIsRight
<1>6. ASSUME NEW c \in Conns, SavePiece(c) PROVE DataFits' /\ SavedIsComplete' /\ SavedIsRight'
  <2> DEFINE p == pieceInProgress[c]
  <2>1. At(c, "Save") /\ SavePieceToDisk(p, TRUE) /\ DropPiece(c) /\ Goto(c, "Ask") /\ UNCHANGED blocks
    BY <1>6 DEF SavePiece
  <2>2. p \in Pieces /\ AllBlocksRetrieved(blocks[p]) /\ blocks[p] \in [BlockIds(p) -> Block]
    BY <1>1, <2>1, SaverHolds DEF At, SavedIsComplete, TypeOK, StorageTypeOK
  <2>3. GetDataIsOf(blocks[p], p)
    BY <1>1, <2>2 DEF GetDataIsOf, AllBlocksRetrieved, DataFits
  <2>4. disk' = [disk EXCEPT ![p] = "Right"] /\ savedPieces' = Append(savedPieces, p)
    BY <2>1, <2>3 DEF SavePieceToDisk
  <2>5. Range(savedPieces') = Range(savedPieces) \cup {p}
    BY <1>1, <2>2, <2>4, AppendEnters DEF TypeOK, StorageTypeOK
  <2>6. p \in DOMAIN disk /\ Range(savedPieces) \subseteq DOMAIN disk
    BY <1>1, <2>2, LenProperties DEF TypeOK, StorageTypeOK, Range
  <2>7. SavedIsRight'
    BY <1>1, <2>4, <2>5, <2>6 DEF SavedIsRight
  <2>8. \A d \in Conns : pc'[d] \in {"Processed", "Save"} =>
          pc[d] = pc'[d] /\ pieceInProgress'[d] = pieceInProgress[d]
    BY <1>1, <2>1 DEF DropPiece, Goto, TypeOK
  <2> QED BY <1>1, <2>1, <2>7, <2>8 DEF DataFits, SavedIsComplete
<1>7. ASSUME NEW c \in Conns, LeaveWithPiece(c) PROVE DataFits' /\ SavedIsComplete' /\ SavedIsRight'
  <2> DEFINE p == pieceInProgress[c]
  <2>1. /\ p \in Pieces /\ Holds(c, p) /\ blocks[p] \in [BlockIds(p) -> Block]
    BY <1>1, <1>7 DEF LeaveWithPiece, TypeOK, StorageTypeOK, Holds
  <2>2. /\ UNCHANGED <<savedPieces, disk, pieceInProgress>>
        /\ blocks' = [blocks EXCEPT ![p] = Reset(blocks[p])]
        /\ pc' = [pc EXCEPT ![c] = "Back"]
    BY <1>7 DEF LeaveWithPiece, DecrementCounter, leaseVars, Goto
  <2>3. blocks'[p] = NewBlocks(p) /\ \A q \in Pieces \ {p} : blocks'[q] = blocks[q]
    <3>1. p \in DOMAIN blocks
      BY <1>1, <2>1 DEF TypeOK, StorageTypeOK
    <3> QED BY <2>1, <2>2, <3>1, BlockVectors
  <2>4. DataFits'
    BY <1>1, <2>3 DEF DataFits, NewBlocks, MissingBlock
  <2>5. ASSUME NEW d \in Conns, pc'[d] \in {"Processed", "Save"}
        PROVE  AllBlocksRetrieved(blocks'[pieceInProgress'[d]])
    <3>1. d # c /\ pc'[d] = pc[d]
      BY <1>1, <2>2, <2>5 DEF TypeOK
    <3>2. pieceInProgress[d] \in Pieces /\ pieceInProgress[d] # p
      BY <1>1, <2>1, <2>5, <3>1, SaverHolds
    <3> QED BY <1>1, <2>2, <2>3, <2>5, <3>1, <3>2 DEF SavedIsComplete
  <2> QED BY <1>1, <2>2, <2>4, <2>5 DEF SavedIsComplete, SavedIsRight
<1> QED BY <1>2, <1>3, <1>4, <1>5, <1>6, <1>7, NextCases

\* If, besides, write() writes all it is given, every piece the storage
\* reports as saved has its own bytes at its own offset, though no hash is
\* ever compared.
THEOREM SavedRight ==
  ASSUME "Unsolicited" \notin Faults, "ShortWrite" \notin Faults
  PROVE  Spec => []SavedIsRight
<1>1. SavedInv => SavedIsRight
  BY DEF SavedInv
<1> QED BY <1>1, InitSavedInv, SavedStep, PTL DEF Spec

----------------------------------------------------------------------------
(* A holder has a request out.                                              *)

\* While a connection holds a piece in the loop, a block of it is still to
\* come; at most one is marked as requested, and then the connection knows.
\* Until a Choke the peer knows too, and the connection goes on asking.
AsksOf(c) ==
  /\ pc[c] = "Request" => ~choked[c]
  /\ \A p \in Pieces : pc[c] \in {"Loop", "Ask", "Request"} /\ Holds(c, p) =>
       LET v == blocks[p] IN
       /\ ~AllBlocksRetrieved(v)
       /\ \A a, b \in DOMAIN v : v[a].status = "Pending" /\ v[b].status = "Pending" => a = b
       /\ ~pendingBlock[c] => \A a \in DOMAIN v : v[a].status # "Pending"
       /\ ~failed[c] =>
            /\ ~choked[c]
            /\ pc[c] = "Loop" \/ pendingBlock[c] => \E r \in requests[c] : r.piece = p

AskInv == FreshInv /\ AnswerInv /\ \A c \in Conns : AsksOf(c)

\* What AskInv gives without looking into it.
LEMMA AskGives ==
  AskInv => /\ FreshInv /\ AnswerInv /\ OwnInv /\ TypeInv /\ TypeOK
            /\ QueuedPiecesAreFresh /\ ExclusiveLease
            /\ \A c \in Conns : AnswersOf(c) /\ AsksOf(c)
BY DEF AskInv, FreshInv, AnswerInv, OwnInv, TypeInv

\* A local step that stays in MainLoop's loop: Choke is remembered, Unchoke
\* forgets nothing, and a holder waits again only if it is choked or has asked.
LEMMA LocalAsks ==
  ASSUME TypeOK, NEW c \in Conns, Local(c)
  PROVE  /\ \A d \in Conns \ {c} : failed'[d] = failed[d] /\ choked'[d] = choked[d]
         /\ \/ pc'[c] \notin {"Loop", "Ask", "Request"}
            \/ pc'[c] = pc[c] /\ UNCHANGED <<failed, choked, requests>>
            \/ pc[c] = "Loop" /\ pc'[c] = "Ask" /\ failed'[c]
            \/ /\ pc[c] = "Loop" /\ pc'[c] = "Ask" /\ UNCHANGED <<failed, requests>>
               /\ choked'[c] => choked[c]
            \/ /\ pc[c] = "Ask" /\ UNCHANGED <<failed, choked, requests>>
               /\ \/ pc'[c] = "Request" /\ ~choked[c]
                  \/ pc'[c] = "Loop" /\ (choked[c] \/ pendingBlock[c] \/ ~isPieceDownloadingNow[c])
<1> USE DEF TypeOK, flagVars, At, Goto, Throw, Receives
<1>1. CASE Start(c) BY <1>1 DEF Start
<1>2. CASE Terminate(c) BY <1>2 DEF Terminate
<1>3. CASE RunReturns(c) BY <1>3 DEF RunReturns
<1>4. CASE EstablishConnectionFails(c) BY <1>4 DEF EstablishConnectionFails
<1>5. CASE TerminateRefused(c) BY <1>5 DEF TerminateRefused
<1>6. CASE EstablishConnection(c) BY <1>6 DEF EstablishConnection
<1>7. CASE LoopStops(c) BY <1>7 DEF LoopStops
<1>8. CASE ReceiveFails(c) BY <1>8 DEF ReceiveFails
<1>9. CASE HandleKeepAlive(c) BY <1>9 DEF HandleKeepAlive
<1>10. CASE HandleChoke(c) BY <1>10 DEF HandleChoke
<1>11. CASE HandleUnchoke(c) BY <1>11 DEF HandleUnchoke
<1>12. CASE HandleHave(c) BY <1>12 DEF HandleHave
<1>13. CASE HandleBadHave(c) BY <1>13 DEF HandleBadHave
<1>14. CASE HandleOther(c) BY <1>14 DEF HandleOther
<1>15. CASE HandleShortPiece(c) BY <1>15 DEF HandleShortPiece
<1>16. CASE HandlePieceQueueEmpty(c) BY <1>16 DEF HandlePieceQueueEmpty
<1>17. CASE SavePieceCannotOpen(c) BY <1>17 DEF SavePieceCannotOpen
<1>18. CASE Ask(c) BY <1>18 DEF Ask
<1>19. CASE RequestQueueEmpty(c) BY <1>19 DEF RequestQueueEmpty
<1>20. CASE LeaveWithoutPiece(c) BY <1>20 DEF LeaveWithoutPiece
<1>21. CASE LeaveCrashes(c) BY <1>21 DEF LeaveCrashes
<1>22. CASE RunAgain(c) BY <1>22 DEF RunAgain
<1>23. CASE TaskEnds(c) BY <1>23 DEF TaskEnds
<1> QED BY <1>1, <1>2, <1>3, <1>4, <1>5, <1>6, <1>7, <1>8, <1>9, <1>10, <1>11,
           <1>12, <1>13, <1>14, <1>15, <1>16, <1>17, <1>18, <1>19, <1>20, <1>21,
           <1>22, <1>23 DEF Local

\* The piece a connection goes on with has a block to ask for if no request is
\* out: RequestNothingMissing never happens.
LEMMA SomethingMissing ==
  ASSUME AskInv, NEW c \in Conns, NEW p \in Pieces, AcquirePiece(c, p), pc[c] = "Request"
  PROVE  /\ \A a \in BlockIds(p) : blocks[p][a].status # "Pending"
         /\ HasMissingBlock(blocks[p])
<1>1. /\ TypeInv /\ AnswersOf(c) /\ AsksOf(c) /\ QueuedPiecesAreFresh
      /\ remainPieces \in Seq(Pieces) /\ blocks[p] \in [BlockIds(p) -> Block]
  BY AskGives DEF TypeOK, StorageTypeOK
<1>2. CASE pieceInProgress[c] = p
  <2>1. Holds(c, p) /\ ~pendingBlock[c]
    BY <1>1, <1>2, NoPieceAssumption DEF TypeInv, LeaseByPc, AnswersOf, Pieces, Holds
  <2>2. \A a \in BlockIds(p) : blocks[p][a].status # "Pending"
    BY <1>1, <2>1 DEF AsksOf
  <2>3. \E a \in BlockIds(p) : blocks[p][a].status # "Retrieved"
    BY <1>1, <2>1 DEF AsksOf, AllBlocksRetrieved
  <2>4. \A a \in BlockIds(p) : blocks[p][a].status \in {"Missing", "Pending", "Retrieved"}
    BY <1>1 DEF Block
  <2> QED BY <1>1, <2>2, <2>3, <2>4 DEF HasMissingBlock, IsMissing
<1>3. CASE GetNextPieceToDownload(p)
  <2>1. blocks[p] = NewBlocks(p)
    BY <1>1, <1>3, HeadLeaves DEF GetNextPieceToDownload, QueueIsEmpty, QueuedPiecesAreFresh
  <2>2. 0 \in BlockIds(p)
    BY NumBlocksAssumption DEF BlockIds, Pieces
  <2> QED BY <2>1, <2>2 DEF NewBlocks, MissingBlock, HasMissingBlock, IsMissing
<1> QED BY <1>2, <1>3 DEF AcquirePiece

\* After a fetching step that throws nothing the connection has asked, or is
\* about to.
LEMMA FetchAsks ==
  ASSUME "Unsolicited" \notin Faults, AskInv, NEW c \in Conns, Fetch(c)
  PROVE  /\ AsksOf(c)'
         /\ UNCHANGED <<failed, choked>>
<1>1. /\ AnswerInv /\ TypeOK /\ AnswersOf(c) /\ AsksOf(c)
      /\ c \in DOMAIN pc /\ c \in DOMAIN pendingBlock /\ c \in DOMAIN requests
      /\ c \in DOMAIN pieceInProgress
  BY AskGives DEF TypeOK
<1>2. CASE HandlePiece(c)
  <2>1. PICK p \in Pieces, m \in PieceMessages(c) :
          /\ pc[c] = "Loop" /\ AcquirePiece(c, p) /\ m.block \in BlockIds(p)
          /\ blocks' = [blocks EXCEPT ![p] = SaveBlock(@, m.block, m.piece)]
          /\ pendingBlock' = [pendingBlock EXCEPT ![c] = FALSE]
          /\ IF AllBlocksRetrieved(blocks'[p]) THEN Goto(c, "Processed") ELSE Goto(c, "Ask")
          /\ UNCHANGED <<failed, choked>>
    BY <1>2 DEF HandlePiece, Receives, At
  <2>2. /\ m.piece = p /\ Holds(c, p) /\ blocks[p][m.block].status = "Pending"
    BY <1>1, <2>1, AnswerIsOfPiece DEF AnswersOf
  <2>3. pieceInProgress'[c] = p
    BY <1>1, <2>1, AcquireTypes
  <2>4. blocks[p] \in [BlockIds(p) -> Block] /\ p \in DOMAIN blocks
    BY <1>1 DEF TypeOK, StorageTypeOK
  <2>5. /\ DOMAIN blocks'[p] = BlockIds(p)
        /\ blocks'[p][m.block].status = "Retrieved"
        /\ \A a \in BlockIds(p) \ {m.block} : blocks'[p][a] = blocks[p][a]
    BY <2>1, <2>4 DEF SaveBlock
  <2>6. \A a \in BlockIds(p) : blocks'[p][a].status # "Pending"
    BY <1>1, <2>1, <2>2, <2>4, <2>5 DEF AsksOf
  <2>7. pc'[c] = "Processed" \/ (pc'[c] = "Ask" /\ ~AllBlocksRetrieved(blocks'[p]))
    BY <1>1, <2>1 DEF Goto
  <2>8. ~failed[c] => ~choked[c]
    BY <1>1, <2>1, <2>2 DEF AsksOf
  <2>9. ~pendingBlock'[c] /\ UNCHANGED <<failed, choked>> /\ \A q : Holds(c, q)' => q = p
    BY <1>1, <2>1, <2>3 DEF Holds
  <2> QED BY <2>5, <2>6, <2>7, <2>8, <2>9 DEF AsksOf
<1>3. CASE RequestBlock(c)
  <2>1. PICK p \in Pieces : \E b \in BlockIds(p) :
          /\ pc[c] = "Request" /\ AcquirePiece(c, p)
          /\ blocks' = [blocks EXCEPT ![p] = MarkPending(@, b)]
          /\ requests' = [requests EXCEPT ![c] = @ \cup {[piece |-> p, block |-> b]}]
          /\ pendingBlock' = [pendingBlock EXCEPT ![c] = TRUE]
          /\ pc' = [pc EXCEPT ![c] = "Loop"]
          /\ UNCHANGED <<failed, choked>>
    BY <1>3 DEF RequestBlock, At, Goto
  <2>2. PICK b \in BlockIds(p) :
          /\ pc[c] = "Request" /\ AcquirePiece(c, p)
          /\ blocks' = [blocks EXCEPT ![p] = MarkPending(@, b)]
          /\ requests' = [requests EXCEPT ![c] = @ \cup {[piece |-> p, block |-> b]}]
          /\ pendingBlock' = [pendingBlock EXCEPT ![c] = TRUE]
    BY <2>1
  <2>3. pendingBlock'[c] /\ pc'[c] = "Loop" /\ ~choked'[c] /\ \A q : Holds(c, q)' => q = p
    BY <1>1, <2>1, <2>2, AcquireTypes DEF Holds, AsksOf
  <2>4. \A a \in BlockIds(p) : blocks[p][a].status # "Pending"
    BY <2>2, SomethingMissing
  <2>5. blocks[p] \in [BlockIds(p) -> Block] /\ p \in DOMAIN blocks
    BY <1>1 DEF TypeOK, StorageTypeOK
  <2>6. /\ DOMAIN blocks'[p] = BlockIds(p)
        /\ blocks'[p][b].status = "Pending"
        /\ \A a \in BlockIds(p) \ {b} : blocks'[p][a] = blocks[p][a]
    BY <2>2, <2>5 DEF MarkPending, Block
  <2>7. ~AllBlocksRetrieved(blocks'[p])
    BY <2>6 DEF AllBlocksRetrieved
  <2>8. \E r \in requests'[c] : r.piece = p
    <3> DEFINE r == [piece |-> p, block |-> b]
    <3>1. r.piece = p
      OBVIOUS
    <3> HIDE DEF r
    <3>2. r \in requests'[c]
      BY <1>1, <2>2 DEF r
    <3> QED BY <3>1, <3>2
  <2>9. \A a, d \in BlockIds(p) :
          blocks'[p][a].status = "Pending" /\ blocks'[p][d].status = "Pending" => a = d
    BY <2>4, <2>6
  <2>10. pc'[c] # "Request"
    BY <2>3
  <2> QED BY <2>1, <2>3, <2>6, <2>7, <2>8, <2>9, <2>10 DEF AsksOf
<1>4. CASE HandlePieceOutOfRange(c) \/ RequestSendFails(c)
  BY <1>1, <1>4 DEF HandlePieceOutOfRange, RequestSendFails, Throw, Goto, flagVars, AsksOf
<1>5. CASE RequestNothingMissing(c)
  BY <1>5, SomethingMissing DEF RequestNothingMissing, At
<1> QED BY <1>2, <1>3, <1>4, <1>5 DEF Fetch

\* A step of another connection, which cannot touch the piece d holds.
LEMMA OthersAsks ==
  ASSUME NEW d \in Conns, AsksOf(d),
         pc'[d] = pc[d], pendingBlock'[d] = pendingBlock[d], choked'[d] = choked[d],
         failed'[d] = failed[d], requests'[d] = requests[d],
         pieceInProgress'[d] = pieceInProgress[d],
         isPieceDownloadingNow'[d] = isPieceDownloadingNow[d],
         \A q \in Pieces : Holds(d, q) => blocks'[q] = blocks[q]
  PROVE  AsksOf(d)'
BY DEF AsksOf, Holds

\* No step leaves a holder waiting for nothing, but for a Choke.
LEMMA AskStep ==
  ASSUME "Unsolicited" \notin Faults
  PROVE  AskInv /\ [Next]_vars => AskInv'
<1> SUFFICES ASSUME AskInv, [Next]_vars, NEW d \in Conns PROVE AsksOf(d)'
  BY AnswerStep, FreshStep DEF AskInv
<1>1. AnswerInv /\ OwnInv /\ TypeInv /\ TypeOK /\ AsksOf(d)
  BY AskGives
<1>2. CASE UNCHANGED vars
  BY <1>1, <1>2 DEF AsksOf, Holds, vars, storageVars, connVars
<1>3. ASSUME NEW c \in Conns, Local(c) PROVE AsksOf(d)'
  <2>1. UNCHANGED <<blocks, pieceInProgress, isPieceDownloadingNow, pendingBlock>>
    BY <1>1, <1>3, LocalMoves, LocalAsksNothing DEF leaseVars
  <2>2. CASE pc'[d] \notin {"Loop", "Ask", "Request"}
    BY <2>2 DEF AsksOf
  <2>3. CASE d # c /\ pc'[d] = pc[d]
    <3>1. requests'[d] = requests[d] /\ failed'[d] = failed[d] /\ choked'[d] = choked[d]
      BY <1>1, <1>3, <2>3, LocalAsks, LocalAsksNothing
    <3> QED BY <1>1, <2>1, <2>3, <3>1, OthersAsks
  <2>4. CASE d = c /\ pc'[c] \in {"Loop", "Ask", "Request"}
    <3>1. \/ pc'[c] = pc[c] /\ UNCHANGED <<failed, choked, requests>>
          \/ pc[c] = "Loop" /\ pc'[c] = "Ask" /\ failed'[c]
          \/ /\ pc[c] = "Loop" /\ pc'[c] = "Ask" /\ UNCHANGED <<failed, requests>>
             /\ choked'[c] => choked[c]
          \/ /\ pc[c] = "Ask" /\ UNCHANGED <<failed, choked, requests>>
             /\ \/ pc'[c] = "Request" /\ ~choked[c]
                \/ pc'[c] = "Loop" /\ (choked[c] \/ pendingBlock[c] \/ ~isPieceDownloadingNow[c])
      BY <1>1, <1>3, <2>4, LocalAsks
    <3>2. \A q : Holds(c, q)' <=> Holds(c, q)
      BY <2>1 DEF Holds
    <3>3. \A q : Holds(c, q) => isPieceDownloadingNow[c]
      BY DEF Holds
    <3> QED BY <1>1, <2>1, <2>4, <3>1, <3>2, <3>3 DEF AsksOf
  <2> QED BY <1>1, <1>3, <2>2, <2>3, <2>4, LocalMoves
<1>4. ASSUME NEW c \in Conns, Fetch(c) PROVE AsksOf(d)'
  <2>1. PICK p \in Pieces :
          /\ AcquirePiece(c, p)
          /\ \A q \in Pieces \ {p} : blocks'[q] = blocks[q]
    BY <1>1, <1>4, FetchMoves
  <2>2. /\ pc[c] \in {"Loop", "Request"}
        /\ \E l \in {"Processed", "Ask", "Loop", "Attempt"} : pc' = [pc EXCEPT ![c] = l]
    BY <1>1, <1>4, FetchMoves
  <2>3. CASE d = c
    BY <1>4, <2>3, FetchAsks
  <2>4. CASE d # c
    <3>1. /\ pc'[d] = pc[d] /\ choked'[d] = choked[d] /\ failed'[d] = failed[d]
          /\ pendingBlock'[d] = pendingBlock[d] /\ requests'[d] = requests[d]
      BY <1>1, <1>4, <2>2, <2>4, FetchAsks, FetchAsksOne DEF TypeOK
    <3>2. /\ pieceInProgress'[d] = pieceInProgress[d]
          /\ isPieceDownloadingNow'[d] = isPieceDownloadingNow[d]
      BY <1>1, <2>1, <2>4 DEF AcquirePiece, leaseVars, TypeOK
    <3>3. Holds(c, p)' /\ ExclusiveLease'
      BY <1>1, <2>1, <2>2, FetchOwns
    <3>4. ~Holds(d, p)
      BY <2>4, <3>2, <3>3 DEF ExclusiveLease, Holds
    <3> QED BY <1>1, <2>1, <3>1, <3>2, <3>4, OthersAsks
  <2> QED BY <2>3, <2>4
<1>5. ASSUME NEW c \in Conns,
             \/ Construct(c) \/ EnterMainLoop(c) \/ PieceProcessed(c) \/ SavePiece(c)
             \/ SavePieceFails(c) \/ LeaveWithPiece(c) \/ ReturnPiece(c)
      PROVE AsksOf(d)'
  <2>1. CASE d = c
    <3>1. /\ pc'[c] # "Request"
          /\ \/ pc'[c] \in {"Queued", "Save", "Back", "Run"}
             \/ ~isPieceDownloadingNow'[c] \/ pieceInProgress'[c] = NoPiece
      BY <1>1, <1>5 DEF Construct, EnterMainLoop, PieceProcessed, SavePiece, SavePieceFails,
         LeaveWithPiece, ReturnPiece, DropPiece, At, Goto, TypeOK
    <3>2. \A q \in Pieces : q # NoPiece
      BY NoPieceAssumption DEF Pieces
    <3> QED BY <2>1, <3>1, <3>2 DEF AsksOf, Holds
  <2>2. CASE d # c
    <3>1. /\ pc'[d] = pc[d] /\ pendingBlock'[d] = pendingBlock[d] /\ choked'[d] = choked[d]
          /\ failed'[d] = failed[d] /\ requests'[d] = requests[d]
          /\ pieceInProgress'[d] = pieceInProgress[d]
          /\ isPieceDownloadingNow'[d] = isPieceDownloadingNow[d]
      BY <1>1, <1>5, <2>2 DEF Construct, EnterMainLoop, PieceProcessed, SavePiece, SavePieceFails,
         LeaveWithPiece, ReturnPiece, DropPiece, Goto, TypeOK, flagVars, leaseVars
    <3>2. \A q \in Pieces : Holds(d, q) => blocks'[q] = blocks[q]
      <4>1. CASE LeaveWithPiece(c)
        <5>1. Holds(c, pieceInProgress[c]) /\ pieceInProgress[c] \in Pieces
          BY <1>1, <4>1 DEF LeaveWithPiece, Holds, TypeOK
        <5> QED BY <1>1, <2>2, <4>1, <5>1
                DEF LeaveWithPiece, OwnInv, ExclusiveLease, TypeOK, StorageTypeOK
      <4>2. CASE UNCHANGED blocks
        BY <4>2
      <4> QED BY <1>5, <4>1, <4>2 DEF Construct, EnterMainLoop, PieceProcessed, SavePiece,
                 SavePieceFails, ReturnPiece
    <3> QED BY <1>1, <3>1, <3>2, OthersAsks
  <2> QED BY <2>1, <2>2
<1> QED BY <1>2, <1>3, <1>4, <1>5, NextCases

\* If peers send only blocks they were asked for, a connection that waits for a
\* message with a piece in hand has a request for it out with the peer, until
\* the peer chokes it: neither a full queue of others nor an empty one, neither
\* an error of another connection nor a retry of its own makes MainLoop stop
\* asking.  After a Choke it may wait for what the peer has dropped.
THEOREM HolderHasRequestOut ==
  ASSUME "Unsolicited" \notin Faults
  PROVE  Spec => []HolderHasARequestOut
<1>1. Init => AskInv
  BY InitFreshInv, InitAnswerInv DEF AskInv, AsksOf, Init
<1>2. AskInv => HolderHasARequestOut
  BY DEF AskInv, AsksOf, HolderHasARequestOut, At
<1> QED BY <1>1, <1>2, AskStep, PTL DEF Spec

----------------------------------------------------------------------------
(* When nothing throws.                                                     *)

NothingThrows == Faults \subseteq {"WriteFails", "ShortWrite"}

LoopLabels == {"Loop", "Processed", "Save", "Ask", "Request", "Leave", "Back"}

\* isPieceDownloadingNow_ is up in MainLoop only, and with a piece.
HeldInLoop ==
  \A c \in Conns : isPieceDownloadingNow[c] => pieceInProgress[c] # NoPiece /\ pc[c] \in LoopLabels

\* Only blocks of the piece are asked for.
BlocksAreAsked == \A c \in Conns : \A r \in requests[c] : r.block \in BlockIds(r.piece)

CleanInv == FreshInv /\ AnswerInv /\ BlocksAreAsked /\ HeldInLoop

LEMMA InitCleanInv == Init => CleanInv
BY InitFreshInv, InitAnswerInv DEF CleanInv, Init, BlocksAreAsked, HeldInLoop

\* What CleanInv gives without looking into it.
LEMMA CleanGives ==
  CleanInv => /\ FreshInv /\ AnswerInv /\ OwnInv /\ TypeInv /\ TypeOK
              /\ BlocksAreAsked /\ HeldInLoop /\ QueuedPiecesAreFresh
BY DEF CleanInv, FreshInv, AnswerInv, OwnInv, TypeInv

\* A connection whose answer comes holds the piece, and the block is one of it.
LEMMA AnswerComes ==
  ASSUME NothingThrows, CleanInv, NEW c \in Conns, pc[c] = "Loop", NEW m \in PieceMessages(c)
  PROVE  /\ m \in requests[c] /\ m.piece \in Pieces /\ m.block \in BlockIds(m.piece)
         /\ Holds(c, m.piece) /\ pieceInProgress[c] = m.piece /\ m.piece # NoPiece
         /\ blocks[m.piece][m.block].status = "Pending"
<1>1. m \in requests[c] /\ AnswersOf(c) /\ TypeOK /\ BlocksAreAsked
  BY OnlyAnswers, CleanGives DEF NothingThrows, AnswerInv
<1>2. m.piece \in Pieces
  BY <1>1 DEF TypeOK, Requests
<1> QED BY <1>1, <1>2, NoPieceAssumption DEF AnswersOf, BlocksAreAsked, Holds, Pieces

\* A local step of a connection that holds a piece stays in MainLoop.
LEMMA LocalClean ==
  ASSUME NothingThrows, CleanInv, NEW c \in Conns, Local(c)
  PROVE  \E l \in Labels :
           /\ pc' = [pc EXCEPT ![c] = l]
           /\ isPieceDownloadingNow[c] =>
                l = pc[c] \/ (pc[c] \in {"Loop", "Ask"} /\ l \in {"Loop", "Ask", "Request", "Leave"})
<1>1. /\ TypeOK /\ pc[c] \in Labels
      /\ isPieceDownloadingNow[c] => pieceInProgress[c] # NoPiece /\ pc[c] \in LoopLabels
  BY CleanGives DEF HeldInLoop, TypeOK
<1>2. ~HandlePieceQueueEmpty(c)
  BY AnswerComes DEF HandlePieceQueueEmpty, CannotAcquirePiece, Receives, At
<1>3. ~HandleBadHave(c) /\ ~HandleShortPiece(c) /\ ~SavePieceCannotOpen(c)
  BY DEF NothingThrows, HandleBadHave, HandleShortPiece, SavePieceCannotOpen
<1> USE <1>1 DEF TypeOK, Labels, LoopLabels, flagVars, At, Goto, Throw, Receives
<1>4. CASE Start(c) BY <1>4 DEF Start
<1>5. CASE Terminate(c) BY <1>5 DEF Terminate
<1>6. CASE RunReturns(c) BY <1>6 DEF RunReturns
<1>7. CASE EstablishConnectionFails(c) BY <1>7 DEF EstablishConnectionFails
<1>8. CASE TerminateRefused(c) BY <1>8 DEF TerminateRefused
<1>9. CASE EstablishConnection(c) BY <1>9 DEF EstablishConnection
<1>10. CASE LoopStops(c) BY <1>10 DEF LoopStops
<1>11. CASE ReceiveFails(c) BY <1>11 DEF ReceiveFails
<1>12. CASE HandleKeepAlive(c) BY <1>12 DEF HandleKeepAlive
<1>13. CASE HandleChoke(c) BY <1>13 DEF HandleChoke
<1>14. CASE HandleUnchoke(c) BY <1>14 DEF HandleUnchoke
<1>15. CASE HandleHave(c) BY <1>15 DEF HandleHave
<1>16. CASE HandleOther(c) BY <1>16 DEF HandleOther
<1>17. CASE Ask(c) BY <1>17 DEF Ask
<1>18. CASE RequestQueueEmpty(c) BY <1>18 DEF RequestQueueEmpty, CannotAcquirePiece
<1>19. CASE LeaveWithoutPiece(c) BY <1>19 DEF LeaveWithoutPiece
<1>20. CASE LeaveCrashes(c) BY <1>20 DEF LeaveCrashes
<1>21. CASE RunAgain(c) BY <1>21 DEF RunAgain
<1>22. CASE TaskEnds(c) BY <1>22 DEF TaskEnds
<1> QED BY <1>2, <1>3, <1>4, <1>5, <1>6, <1>7, <1>8, <1>9, <1>10, <1>11, <1>12, <1>13,
           <1>14, <1>15, <1>16, <1>17, <1>18, <1>19, <1>20, <1>21, <1>22 DEF Local

\* Among the fetching steps only HandlePiece, RequestBlock and, perhaps,
\* RequestNothingMissing remain; a connection goes on in MainLoop with a piece.
LEMMA FetchClean ==
  ASSUME NothingThrows, CleanInv, NEW c \in Conns, Fetch(c)
  PROVE  /\ HandlePiece(c) \/ RequestBlock(c) \/ RequestNothingMissing(c)
         /\ \E l \in {"Processed", "Ask", "Loop"} : pc' = [pc EXCEPT ![c] = l]
         /\ BlocksAreAsked'
<1>1. TypeOK /\ BlocksAreAsked
  BY CleanGives
<1>2. ~RequestSendFails(c)
  BY DEF NothingThrows, RequestSendFails
<1>3. ~HandlePieceOutOfRange(c)
  <2> SUFFICES ASSUME NEW p \in Pieces, NEW m \in PieceMessages(c), pc[c] = "Loop",
                      AcquirePiece(c, p), m.block \notin BlockIds(p)
               PROVE  FALSE
    BY DEF HandlePieceOutOfRange, Receives, At
  <2>1. p = m.piece
    BY AnswerComes DEF AcquirePiece
  <2> QED BY <2>1, AnswerComes
<1>4. HandlePiece(c) \/ RequestBlock(c) \/ RequestNothingMissing(c)
  BY <1>2, <1>3 DEF Fetch
<1>5. \E l \in {"Processed", "Ask", "Loop"} : pc' = [pc EXCEPT ![c] = l]
  BY <1>4 DEF HandlePiece, RequestBlock, RequestNothingMissing, Goto
<1>6. BlocksAreAsked'
  <2>1. CASE HandlePiece(c)
    BY <1>1, <2>1 DEF HandlePiece, BlocksAreAsked, TypeOK
  <2>2. CASE RequestBlock(c)
    <3>1. \E p \in Pieces : \E b \in BlockIds(p) :
            requests' = [requests EXCEPT ![c] = @ \cup {[piece |-> p, block |-> b]}]
      BY <2>2 DEF RequestBlock
    <3> QED BY <1>1, <3>1 DEF BlocksAreAsked, TypeOK
  <2>3. CASE RequestNothingMissing(c)
    BY <1>1, <2>3 DEF RequestNothingMissing, BlocksAreAsked
  <2> QED BY <1>4, <2>1, <2>2, <2>3
<1> QED BY <1>4, <1>5, <1>6

\* No step leaves MainLoop with the flag up.
LEMMA CleanStep ==
  ASSUME NothingThrows
  PROVE  CleanInv /\ [Next]_vars => CleanInv'
<1> SUFFICES ASSUME CleanInv, [Next]_vars PROVE BlocksAreAsked' /\ HeldInLoop'
  BY FreshStep, AnswerStep DEF CleanInv, NothingThrows
<1>1. TypeOK /\ TypeInv /\ OwnInv /\ BlocksAreAsked /\ HeldInLoop
  BY CleanGives
<1>2. CASE UNCHANGED vars
  BY <1>1, <1>2 DEF vars, connVars, BlocksAreAsked, HeldInLoop
<1>3. ASSUME NEW c \in Conns, Local(c) PROVE BlocksAreAsked' /\ HeldInLoop'
  <2>1. UNCHANGED leaseVars /\ \A d \in Conns : requests'[d] \subseteq requests[d]
    BY <1>1, <1>3, LocalMoves, LocalAsksNothing
  <2>2. HeldInLoop'
    BY <1>1, <1>3, <2>1, LocalClean DEF HeldInLoop, LoopLabels, leaseVars, TypeOK
  <2> QED BY <1>1, <2>1, <2>2 DEF BlocksAreAsked
<1>4. ASSUME NEW c \in Conns, Fetch(c) PROVE BlocksAreAsked' /\ HeldInLoop'
  <2>1. PICK p \in Pieces : AcquirePiece(c, p)
    BY <1>1, <1>4, FetchMoves
  <2>2. /\ pieceInProgress' = [pieceInProgress EXCEPT ![c] = p] /\ p # NoPiece
        /\ \A d \in Conns \ {c} : isPieceDownloadingNow'[d] = isPieceDownloadingNow[d]
    BY <1>1, <2>1, AcquireTypes, NoPieceAssumption DEF AcquirePiece, leaseVars, Pieces, TypeOK
  <2> QED BY <1>1, <1>4, <2>2, FetchClean DEF HeldInLoop, LoopLabels, TypeOK
<1>5. ASSUME NEW c \in Conns,
             \/ Construct(c) \/ EnterMainLoop(c) \/ PieceProcessed(c) \/ SavePiece(c)
             \/ SavePieceFails(c) \/ LeaveWithPiece(c) \/ ReturnPiece(c)
      PROVE  BlocksAreAsked' /\ HeldInLoop'
  <2>1. requests' = requests \/ requests' = [requests EXCEPT ![c] = {}]
    BY <1>5 DEF Construct, EnterMainLoop, PieceProcessed, SavePiece, SavePieceFails,
       LeaveWithPiece, ReturnPiece
  <2>2. BlocksAreAsked'
    BY <1>1, <2>1 DEF BlocksAreAsked, TypeOK
  <2>3. CASE Construct(c) \/ SavePiece(c) \/ SavePieceFails(c) \/ ReturnPiece(c)
    <3>1. /\ isPieceDownloadingNow' = [isPieceDownloadingNow EXCEPT ![c] = FALSE]
          /\ \A d \in Conns \ {c} : pieceInProgress'[d] = pieceInProgress[d] /\ pc'[d] = pc[d]
      BY <1>1, <2>3 DEF Construct, SavePiece, SavePieceFails, ReturnPiece, DropPiece, Goto, TypeOK
    <3> QED BY <1>1, <2>2, <3>1 DEF HeldInLoop, TypeOK
  <2>4. CASE EnterMainLoop(c)
    BY <1>1, <2>2, <2>4 DEF EnterMainLoop, HeldInLoop, LoopLabels, At, Goto, TypeOK
  <2>5. CASE PieceProcessed(c) \/ LeaveWithPiece(c)
    BY <1>1, <2>2, <2>5 DEF PieceProcessed, LeaveWithPiece, HeldInLoop, LoopLabels, At, Goto,
       leaseVars, TypeOK
  <2> QED BY <1>5, <2>2, <2>3, <2>4, <2>5
<1> QED BY <1>2, <1>3, <1>4, <1>5, NextCases

----------------------------------------------------------------------------
(* The counter is exact.                                                    *)

\* The connections CounterIsExact counts.
Working == {c \in Conns : isPieceDownloadingNow[c] /\ pc[c] \notin {"Save", "Back"}}

ExactInv == CleanInv /\ CounterInv /\ piecesInProgressCount = Cardinality(Working)

\* No step changes the counter without the set, or the set without the counter.
LEMMA ExactStep ==
  ASSUME NothingThrows, IsFiniteSet(Conns)
  PROVE  ExactInv /\ [Next]_vars => ExactInv'
<1> SUFFICES ASSUME ExactInv, [Next]_vars PROVE piecesInProgressCount' = Cardinality(Working')
  BY CleanStep, CounterStep DEF ExactInv
<1>1. /\ CleanInv /\ TypeOK /\ TypeInv /\ OwnInv /\ HeldInLoop /\ CounterInv
      /\ piecesInProgressCount = Cardinality(Working)
  BY CleanGives DEF ExactInv
<1>2. IsFiniteSet(Working) /\ Cardinality(Working) \in Nat
  <2>1. IsFiniteSet(Working)
    BY FS_Subset DEF Working
  <2> QED BY <2>1, FS_CardinalityType
<1>3. ASSUME piecesInProgressCount' = piecesInProgressCount, Working' = Working
      PROVE  piecesInProgressCount' = Cardinality(Working')
  BY <1>1, <1>3
<1>4. CASE UNCHANGED vars
  BY <1>3, <1>4 DEF vars, storageVars, connVars, Working
<1>5. ASSUME NEW c \in Conns, Local(c) PROVE piecesInProgressCount' = Cardinality(Working')
  <2>1. UNCHANGED <<storageVars, leaseVars>>
    BY <1>1, <1>5, LocalMoves
  <2>2. Working' = Working
    BY <1>1, <1>5, <2>1, LocalClean DEF Working, leaseVars, TypeOK
  <2> QED BY <1>3, <2>1, <2>2 DEF storageVars
<1>6. ASSUME NEW c \in Conns, Fetch(c) PROVE piecesInProgressCount' = Cardinality(Working')
  <2>1. PICK p \in Pieces : AcquirePiece(c, p)
    BY <1>1, <1>6, FetchMoves
  <2>2. /\ pc[c] \in {"Loop", "Request"}
        /\ \E l \in {"Processed", "Ask", "Loop"} : pc' = [pc EXCEPT ![c] = l]
    BY <1>1, <1>6, FetchMoves, FetchClean
  <2>3. CASE UNCHANGED <<storageVars, leaseVars>>
    <3>1. Working' = Working
      BY <1>1, <2>2, <2>3 DEF Working, leaseVars, TypeOK
    <3> QED BY <1>3, <2>3, <3>1 DEF storageVars
  <2>4. CASE /\ pieceInProgress[c] = NoPiece
             /\ GetNextPieceToDownload(p)
             /\ isPieceDownloadingNow' = [isPieceDownloadingNow EXCEPT ![c] = TRUE]
    <3>1. c \notin Working /\ Working' = Working \cup {c}
      BY <1>1, <2>2, <2>4 DEF Working, HeldInLoop, TypeOK
    <3>2. Cardinality(Working') = Cardinality(Working) + 1
      BY <1>2, <3>1, FS_AddElement
    <3>3. p \in Pieces \ downloadingPieces
      BY <1>1, <2>4, HeadLeaves
         DEF GetNextPieceToDownload, QueueIsEmpty, TypeOK, StorageTypeOK, OwnInv, EveryPieceInOnePlace
    <3>4. piecesInProgressCount < SizeMax
      BY <1>1, <3>3, AllCounted, SizeMaxAssumption DEF CounterInv
    <3> QED BY <1>1, <1>2, <2>4, <3>2, <3>4, SizeMaxAssumption DEF GetNextPieceToDownload, Increment
  <2> QED BY <2>1, <2>3, <2>4 DEF AcquirePiece
<1>7. ASSUME NEW c \in Conns, Construct(c) \/ EnterMainLoop(c)
      PROVE  piecesInProgressCount' = Cardinality(Working')
  <2>1. /\ UNCHANGED piecesInProgressCount
        /\ isPieceDownloadingNow' = [isPieceDownloadingNow EXCEPT ![c] = FALSE]
        /\ ~isPieceDownloadingNow[c]
        /\ \A d \in Conns \ {c} : pc'[d] = pc[d]
    BY <1>1, <1>7 DEF Construct, EnterMainLoop, storageVars, At, Goto, HeldInLoop, LoopLabels, TypeOK
  <2>2. Working' = Working
    BY <1>1, <2>1 DEF Working, TypeOK
  <2> QED BY <1>3, <2>1, <2>2
<1>8. ASSUME NEW c \in Conns, PieceProcessed(c) \/ LeaveWithPiece(c)
      PROVE  piecesInProgressCount' = Cardinality(Working')
  <2>1. /\ DecrementCounter /\ isPieceDownloadingNow' = isPieceDownloadingNow
        /\ isPieceDownloadingNow[c] /\ pc[c] \in {"Processed", "Leave"}
        /\ \E l \in {"Save", "Back"} : pc' = [pc EXCEPT ![c] = l]
    BY <1>1, <1>8 DEF PieceProcessed, LeaveWithPiece, At, Goto, leaseVars, TypeInv, LeaseByPc
  <2>2. c \in Working /\ Working' = Working \ {c}
    BY <1>1, <2>1 DEF Working, TypeOK
  <2>3. Cardinality(Working') = Cardinality(Working) - 1 /\ Cardinality(Working) # 0
    BY <1>2, <2>2, FS_RemoveElement, FS_EmptySet
  <2> QED BY <1>1, <2>1, <2>3 DEF DecrementCounter, Decrement
<1>9. ASSUME NEW c \in Conns, SavePiece(c) \/ SavePieceFails(c) \/ ReturnPiece(c)
      PROVE  piecesInProgressCount' = Cardinality(Working')
  <2>1. /\ UNCHANGED piecesInProgressCount
        /\ isPieceDownloadingNow' = [isPieceDownloadingNow EXCEPT ![c] = FALSE]
        /\ pc[c] \in {"Save", "Back"}
        /\ \A d \in Conns \ {c} : pc'[d] = pc[d]
    BY <1>1, <1>9 DEF SavePiece, SavePieceFails, ReturnPiece, SavePieceToDisk, SavePieceToDiskFails,
       BackPieceToQueue, DropPiece, At, Goto, TypeOK
  <2>2. Working' = Working
    BY <1>1, <2>1 DEF Working, TypeOK
  <2> QED BY <1>3, <2>1, <2>2
<1> QED BY <1>4, <1>5, <1>6, <1>7, <1>8, <1>9, NextCases

\* At first nobody works and the counter is 0.
LEMMA InitExactInv == Init => ExactInv
<1> SUFFICES ASSUME Init PROVE ExactInv
  OBVIOUS
<1>1. OwnInv /\ Returning = {} /\ Counted = {} /\ Working = {}
  BY InitOwnInv DEF Init, Returning, Counted, Working
<1>2. downloadingPieces = {} /\ piecesInProgressCount = 0
  BY DEF Init, StorageInit
<1> QED BY <1>1, <1>2, InitCleanInv, FS_EmptySet DEF ExactInv, CounterInv

\* If nothing throws, the counter main polls is the number of connections that
\* hold a piece and have not begun to hand it over.
THEOREM CounterExact ==
  ASSUME NothingThrows, IsFiniteSet(Conns)
  PROVE  Spec => []CounterIsExact
<1>1. ExactInv => CounterIsExact
  BY DEF ExactInv, CounterIsExact, Working
<1> QED BY <1>1, InitExactInv, ExactStep, PTL DEF Spec

----------------------------------------------------------------------------
(* Nothing is handed out to nobody.                                         *)

\* Every piece that is out is with a connection, which will save it or give it
\* back.
AllHeld == \A p \in downloadingPieces : \E c \in Conns : Holds(c, p)

\* If writes do not fail either, no step drops a piece.
LEMMA HeldStep ==
  ASSUME NothingThrows, "WriteFails" \notin Faults
  PROVE  CleanInv /\ AllHeld /\ [Next]_vars => AllHeld'
<1> SUFFICES ASSUME CleanInv, AllHeld, [Next]_vars PROVE AllHeld'
  OBVIOUS
<1>1. OwnInv /\ TypeInv /\ TypeOK /\ HeldInLoop /\ downloadingPieces \subseteq Pieces
  BY CleanGives DEF TypeOK, StorageTypeOK
<1>2. CASE UNCHANGED vars
  BY <1>2 DEF AllHeld, Holds, vars, storageVars, connVars
<1>3. ASSUME NEW c \in Conns, Local(c) PROVE AllHeld'
  BY <1>1, <1>3, LocalMoves DEF AllHeld, Holds, storageVars, leaseVars
<1>4. ASSUME NEW c \in Conns, Fetch(c) PROVE AllHeld'
  <2>1. PICK p \in Pieces : AcquirePiece(c, p)
    BY <1>1, <1>4, FetchMoves
  <2>2. Holds(c, p)'
    BY <1>1, <1>4, <2>1, FetchMoves, FetchOwns
  <2>3. CASE UNCHANGED <<storageVars, leaseVars>>
    BY <2>3 DEF AllHeld, Holds, storageVars, leaseVars
  <2>4. CASE /\ pieceInProgress[c] = NoPiece
             /\ GetNextPieceToDownload(p)
             /\ pieceInProgress' = [pieceInProgress EXCEPT ![c] = p]
             /\ isPieceDownloadingNow' = [isPieceDownloadingNow EXCEPT ![c] = TRUE]
    <3>1. downloadingPieces' = downloadingPieces \cup {p}
      BY <2>4 DEF GetNextPieceToDownload
    <3>2. \A q \in downloadingPieces : \E d \in Conns : Holds(d, q)'
      BY <1>1, <2>4, NoPieceAssumption DEF AllHeld, Holds, TypeOK, Pieces
    <3> QED BY <2>2, <3>1, <3>2 DEF AllHeld
  <2> QED BY <2>1, <2>3, <2>4 DEF AcquirePiece
<1>5. ASSUME NEW c \in Conns, Construct(c) \/ EnterMainLoop(c) PROVE AllHeld'
  <2>1. /\ UNCHANGED downloadingPieces
        /\ \A q \in Pieces : ~Holds(c, q)
        /\ \A d \in Conns \ {c}, q \in Pieces : Holds(d, q)' <=> Holds(d, q)
    BY <1>1, <1>5 DEF Construct, EnterMainLoop, storageVars, At, HeldInLoop, LoopLabels, Holds, TypeOK
  <2> QED BY <1>1, <2>1 DEF AllHeld
<1>6. ASSUME NEW c \in Conns, PieceProcessed(c) \/ LeaveWithPiece(c) PROVE AllHeld'
  BY <1>6 DEF PieceProcessed, LeaveWithPiece, DecrementCounter, AllHeld, Holds, leaseVars
<1>7. ASSUME NEW c \in Conns, SavePiece(c) \/ ReturnPiece(c) PROVE AllHeld'
  <2>1. pieceInProgress[c] \in downloadingPieces
    BY <1>1, <1>7, ReturnedIsHeld DEF SavePiece, ReturnPiece, At, OwnInv, ExclusiveLease
  <2>2. downloadingPieces' = downloadingPieces \ {pieceInProgress[c]}
    BY <1>7, <2>1 DEF SavePiece, ReturnPiece, SavePieceToDisk, BackPieceToQueue
  <2>3. \A d \in Conns \ {c}, q \in Pieces : Holds(d, q)' <=> Holds(d, q)
    BY <1>1, <1>7 DEF SavePiece, ReturnPiece, DropPiece, Holds, TypeOK
  <2>4. \A q \in Pieces : Holds(c, q) => q = pieceInProgress[c]
    BY DEF Holds
  <2> QED BY <1>1, <2>2, <2>3, <2>4 DEF AllHeld
<1>8. ASSUME NEW c \in Conns, SavePieceFails(c) PROVE FALSE
  BY <1>8 DEF SavePieceFails
<1> QED BY <1>2, <1>3, <1>4, <1>5, <1>6, <1>7, <1>8, NextCases
=============================================================================
