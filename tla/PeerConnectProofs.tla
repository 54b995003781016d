-------------------------- MODULE PeerConnectProofs --------------------------
(* What holds of the connections and the storage for any number of pieces, *)
(* blocks and connections, whatever fails and whatever peers send: types,  *)
(* every piece in one place, fresh pieces in the queue, the connections as *)
(* an implementation of the ledger of leases, and the counter main polls   *)
(* within those leases.                                                    *)
EXTENDS PeerConnect, SequenceTheorems, FiniteSetTheorems, TLAPS

----------------------------------------------------------------------------
(* The block vector and the queue of PieceStorage.                          *)

\* Taking the head of a queue without duplicates removes exactly that piece.
LEMMA HeadLeaves ==
  ASSUME NEW S, NEW s \in Seq(S), s # <<>>
  PROVE  /\ Head(s) \in Range(s) /\ Head(s) \in S
         /\ Tail(s) \in Seq(S)
         /\ Range(Tail(s)) \subseteq Range(s)
         /\ Range(s) = Range(Tail(s)) \cup {Head(s)}
         /\ IsInjective(s) => IsInjective(Tail(s)) /\ Head(s) \notin Range(Tail(s))
<1>1. /\ Head(s) \in S /\ Tail(s) \in Seq(S) /\ Len(Tail(s)) = Len(s) - 1
      /\ \A i \in 1 .. Len(Tail(s)) : Tail(s)[i] = s[i+1]
  BY HeadTailProperties
<1>2. Len(s) \in Nat /\ DOMAIN s = 1 .. Len(s) /\ DOMAIN Tail(s) = 1 .. Len(s) - 1
  BY <1>1, LenProperties
<1>3. Len(s) > 0 /\ Head(s) = s[1]
  BY <1>2, EmptySeq
<1>4. \A i \in DOMAIN s : i = 1 \/ i - 1 \in DOMAIN Tail(s)
  BY <1>2
<1>5. Range(s) = Range(Tail(s)) \cup {Head(s)}
  <2>1. ASSUME NEW i \in DOMAIN s PROVE s[i] \in Range(Tail(s)) \cup {Head(s)}
    <3>1. CASE i = 1
      BY <3>1, <1>3
    <3>2. CASE i - 1 \in DOMAIN Tail(s)
      <4>1. Tail(s)[i - 1] = s[i]
        BY <3>2, <1>1, <1>2
      <4> QED BY <4>1, <3>2 DEF Range
    <3> QED BY <3>1, <3>2, <1>4
  <2>2. ASSUME NEW i \in DOMAIN Tail(s) PROVE Tail(s)[i] \in Range(s)
    <3>1. Tail(s)[i] = s[i + 1] /\ i + 1 \in DOMAIN s
      BY <1>1, <1>2
    <3> QED BY <3>1 DEF Range
  <2>3. Head(s) \in Range(s)
    BY <1>2, <1>3 DEF Range
  <2> QED BY <2>1, <2>2, <2>3 DEF Range
<1>6. ASSUME IsInjective(s) PROVE IsInjective(Tail(s)) /\ Head(s) \notin Range(Tail(s))
  <2>1. \A i \in DOMAIN Tail(s) : i + 1 \in DOMAIN s /\ Tail(s)[i] = s[i + 1] /\ i + 1 # 1
    BY <1>1, <1>2
  <2>2. IsInjective(Tail(s))
    <3> SUFFICES ASSUME NEW i \in DOMAIN Tail(s), NEW j \in DOMAIN Tail(s), Tail(s)[i] = Tail(s)[j]
                 PROVE i = j
      BY DEF IsInjective
    <3>1. s[i + 1] = s[j + 1]
      BY <2>1
    <3>2. i + 1 = j + 1
      BY <2>1, <3>1, <1>6 DEF IsInjective
    <3> QED BY <3>2, <1>2
  <2>3. Head(s) \notin Range(Tail(s))
    <3> SUFFICES ASSUME NEW i \in DOMAIN Tail(s), Tail(s)[i] = Head(s) PROVE FALSE
      BY DEF Range
    <3>1. s[i + 1] = s[1] /\ i + 1 \in DOMAIN s /\ 1 \in DOMAIN s /\ i + 1 # 1
      BY <2>1, <1>2, <1>3
    <3> QED BY <3>1, <1>6 DEF IsInjective
  <2> QED BY <2>2, <2>3
<1> QED BY <1>1, <1>5, <1>6

\* Appending a piece that is not in a queue keeps it without duplicates.
LEMMA AppendEnters ==
  ASSUME NEW S, NEW s \in Seq(S), NEW e \in S
  PROVE  /\ Append(s, e) \in Seq(S)
         /\ Range(Append(s, e)) = Range(s) \cup {e}
         /\ IsInjective(s) /\ e \notin Range(s) => IsInjective(Append(s, e))
<1> DEFINE t == Append(s, e)
<1>1. /\ t \in Seq(S) /\ Len(t) = Len(s) + 1 /\ t[Len(s) + 1] = e
      /\ \A i \in 1 .. Len(s) : t[i] = s[i]
  BY AppendProperties
<1>2. Len(s) \in Nat /\ DOMAIN s = 1 .. Len(s) /\ DOMAIN t = 1 .. Len(s) + 1
  BY <1>1, LenProperties
<1> HIDE DEF t
<1>3. \A i \in DOMAIN t : (i \in DOMAIN s /\ t[i] = s[i]) \/ (i = Len(s) + 1 /\ t[i] = e)
  BY <1>1, <1>2
<1>4. \A i \in DOMAIN s : i \in DOMAIN t /\ t[i] = s[i]
  BY <1>1, <1>2
<1>5. Len(s) + 1 \in DOMAIN t
  BY <1>2
<1>6. Range(t) = Range(s) \cup {e}
  BY <1>1, <1>3, <1>4, <1>5 DEF Range
<1>7. ASSUME IsInjective(s), e \notin Range(s) PROVE IsInjective(t)
  BY <1>3, <1>7 DEF IsInjective, Range
<1> QED BY <1>1, <1>6, <1>7 DEF t

\* SetNewSize leaves the first PiecesToDownload pieces, once each.
LEMMA WantedAreQueued ==
  LET queue == SetNewSize([i \in 1 .. NumPieces |-> i - 1], PiecesToDownload)
  IN /\ queue \in Seq(Pieces)
     /\ IsInjective(queue)
     /\ Range(queue) = Wanted
<1> DEFINE all == [i \in 1 .. NumPieces |-> i - 1]
           queue == SetNewSize(all, PiecesToDownload)
<1>1. NumPieces \in Nat \ {0} /\ PiecesToDownload \in 1 .. NumPieces
  BY NumPiecesAssumption, PiecesToDownloadAssumption
<1>2. all \in Seq(Pieces) /\ Len(all) = NumPieces
  <2>1. \A i \in 1 .. NumPieces : i - 1 \in Pieces
    BY <1>1 DEF Pieces
  <2>2. all \in [1 .. NumPieces -> Pieces]
    BY <2>1
  <2>3. all \in Seq(Pieces)
    BY <1>1, <2>1, IsASeq
  <2> QED BY <1>1, <2>2, <2>3, LenProperties
<1>3. queue = SubSeq(all, 1, PiecesToDownload)
  <2>1. PiecesToDownload < NumPieces \/ PiecesToDownload = NumPieces
    BY <1>1
  <2> QED BY <1>2, <2>1 DEF SetNewSize
<1>4. \A i \in 1 .. PiecesToDownload : all[i] \in Pieces
  BY <1>1 DEF Pieces
<1>5. /\ queue \in Seq(Pieces) /\ Len(queue) = PiecesToDownload
      /\ \A i \in 1 .. PiecesToDownload : queue[i] = i - 1
  <2> HIDE DEF all, queue
  <2>1. /\ SubSeq(all, 1, PiecesToDownload) \in Seq(Pieces)
        /\ Len(SubSeq(all, 1, PiecesToDownload)) = PiecesToDownload
        /\ \A i \in 1 .. PiecesToDownload : SubSeq(all, 1, PiecesToDownload)[i] = all[i]
    BY <1>1, <1>4, SubSeqProperties
  <2>2. \A i \in 1 .. PiecesToDownload : all[i] = i - 1
    BY <1>1 DEF all
  <2> QED BY <1>3, <2>1, <2>2
<1>6. DOMAIN queue = 1 .. PiecesToDownload
  BY <1>5, LenProperties
<1> HIDE DEF queue, all
<1>7. IsInjective(queue)
  BY <1>1, <1>5, <1>6 DEF IsInjective
<1>8. Range(queue) = Wanted
  <2>1. \A p \in Wanted : p + 1 \in DOMAIN queue /\ queue[p + 1] = p
    BY <1>1, <1>5, <1>6 DEF Wanted
  <2>2. \A i \in DOMAIN queue : queue[i] \in Wanted
    BY <1>1, <1>5, <1>6 DEF Wanted
  <2> QED BY <2>1, <2>2 DEF Range
<1> QED BY <1>5, <1>7, <1>8 DEF queue, all

----------------------------------------------------------------------------
\* A block vector stays one of its piece, and Reset makes it a new one.
LEMMA BlockVectors ==
  ASSUME NEW p \in Pieces, NEW v \in [BlockIds(p) -> Block]
  PROVE  /\ NewBlocks(p) \in [BlockIds(p) -> Block]
         /\ Reset(v) = NewBlocks(p)
         /\ \A b \in BlockIds(p) : MarkPending(v, b) \in [BlockIds(p) -> Block]
         /\ \A b \in BlockIds(p), q \in Pieces : SaveBlock(v, b, q) \in [BlockIds(p) -> Block]
<1>1. MissingBlock \in Block
  BY DEF MissingBlock, Block
<1>2. \A b \in BlockIds(p) : MarkPending(v, b) \in [BlockIds(p) -> Block]
  BY DEF MarkPending, Block
<1>3. \A b \in BlockIds(p), q \in Pieces : SaveBlock(v, b, q) \in [BlockIds(p) -> Block]
  BY DEF SaveBlock, Block
<1> QED BY <1>1, <1>2, <1>3 DEF NewBlocks, Reset

\* The counter wraps and never leaves its type.
LEMMA CounterStays ==
  ASSUME NEW n \in 0 .. SizeMax
  PROVE  Increment(n) \in 0 .. SizeMax /\ Decrement(n) \in 0 .. SizeMax
BY SizeMaxAssumption DEF Increment, Decrement

----------------------------------------------------------------------------

\* Where a connection stands with the piece it points to: the flag is up in
\* the middle of MainLoop whenever the pointer is set, and both are set
\* wherever the piece is handed to the storage.
LeaseByPc ==
  \A c \in Conns :
    /\ pc[c] \in {"Processed", "Save", "Back"} =>
         isPieceDownloadingNow[c] /\ pieceInProgress[c] # NoPiece
    /\ pc[c] \in {"Loop", "Ask", "Request", "Leave"} /\ pieceInProgress[c] # NoPiece =>
         isPieceDownloadingNow[c]

TypeInv == TypeOK /\ LeaseByPc

----------------------------------------------------------------------------
(* Type correctness.                                                        *)

\* The constructors give every variable its type.
LEMMA InitTypeInv == Init => TypeInv
<1> SUFFICES ASSUME Init PROVE TypeInv
  OBVIOUS
<1>1. /\ remainPieces \in Seq(Pieces) /\ savedPieces \in Seq(Pieces)
      /\ \A p \in Pieces : NewBlocks(p) \in [BlockIds(p) -> Block]
  <2>1. savedPieces \in Seq(Pieces)
    BY EmptySeq DEF Init, StorageInit
  <2>2. MissingBlock \in Block
    BY DEF MissingBlock, Block
  <2> QED BY <2>1, <2>2, WantedAreQueued DEF Init, StorageInit, NewBlocks
<1>2. StorageTypeOK
  BY <1>1, SizeMaxAssumption DEF Init, StorageInit, StorageTypeOK, DiskContent
<1>3. TypeOK
  BY <1>2 DEF Init, TypeOK, Labels
<1>4. LeaseByPc
  BY DEF Init, LeaseByPc
<1> QED BY <1>3, <1>4 DEF TypeInv

\* Steps of a connection that leave the storage, the blocks and what the
\* connection holds alone.
Local(c) ==
  \/ Start(c) \/ Terminate(c) \/ RunReturns(c) \/ EstablishConnectionFails(c)
  \/ TerminateRefused(c) \/ EstablishConnection(c) \/ LoopStops(c) \/ ReceiveFails(c)
  \/ HandleKeepAlive(c) \/ HandleChoke(c) \/ HandleUnchoke(c) \/ HandleHave(c)
  \/ HandleBadHave(c) \/ HandleOther(c) \/ HandleShortPiece(c)
  \/ HandlePieceQueueEmpty(c) \/ SavePieceCannotOpen(c) \/ Ask(c)
  \/ RequestQueueEmpty(c) \/ LeaveWithoutPiece(c) \/ LeaveCrashes(c)
  \/ RunAgain(c) \/ TaskEnds(c)

\* Steps that take a piece, or go on with the one that is held, and mark or
\* fill one of its blocks.
Fetch(c) ==
  \/ HandlePiece(c) \/ HandlePieceOutOfRange(c) \/ RequestBlock(c)
  \/ RequestSendFails(c) \/ RequestNothingMissing(c)

\* Next, split by what a step does to the piece of its connection.
LEMMA NextCases ==
  Next <=> \E c \in Conns :
    \/ Local(c) \/ Fetch(c) \/ Construct(c) \/ EnterMainLoop(c)
    \/ PieceProcessed(c) \/ SavePiece(c) \/ SavePieceFails(c)
    \/ LeaveWithPiece(c) \/ ReturnPiece(c)
BY DEF Next, Worker, Run, MainLoop, HandleMessage, StorePiece, RequestPiece,
       Local, Fetch

\* What a local step does: a move of one thread.
LEMMA LocalMoves ==
  ASSUME TypeOK, NEW c \in Conns, Local(c)
  PROVE  /\ UNCHANGED <<storageVars, blocks, leaseVars>>
         /\ TypeOK'
         /\ pc' \in [Conns -> Labels]
         /\ \/ \A d \in Conns : pc'[d] = "Crashed"
            \/ /\ \A d \in Conns \ {c} : pc'[d] = pc[d]
               /\ \/ pc'[c] = pc[c]
                  \/ pc'[c] \in {"Run", "Refused", "Connected", "Attempt", "Idle"}
                  \/ pc[c] \in {"Loop", "Ask"} /\ pc'[c] \in {"Loop", "Ask", "Request", "Leave"}
<1> USE DEF TypeOK, StorageTypeOK, storageVars, leaseVars, flagVars, At, Goto, Throw, Labels, Receives
<1>1. CASE Start(c) BY <1>1 DEF Start
<1>2. CASE Terminate(c) BY <1>2 DEF Terminate
<1>3. CASE RunReturns(c) BY <1>3 DEF RunReturns
<1>4. CASE EstablishConnectionFails(c) BY <1>4 DEF EstablishConnectionFails
<1>5. CASE TerminateRefused(c) BY <1>5 DEF TerminateRefused
<1>6. CASE EstablishConnection(c) BY <1>6 DEF EstablishConnection
<1>7. CASE LoopStops(c) BY <1>7 DEF LoopStops
<1>8. CASE ReceiveFails(c) BY <1>8 DEF ReceiveFails
<1>9. CASE HandleKeepAlive(c) BY <1>9 DEF HandleKeepAlive
<1>10. CASE HandleChoke(c) BY <1>10 DEF HandleChoke
<1>11. CASE HandleUnchoke(c) BY <1>11 DEF HandleUnchoke
<1>12. CASE HandleHave(c) BY <1>12 DEF HandleHave
<1>13. CASE HandleBadHave(c) BY <1>13 DEF HandleBadHave
<1>14. CASE HandleOther(c) BY <1>14 DEF HandleOther
<1>15. CASE HandleShortPiece(c) BY <1>15 DEF HandleShortPiece
<1>16. CASE HandlePieceQueueEmpty(c) BY <1>16 DEF HandlePieceQueueEmpty
<1>17. CASE SavePieceCannotOpen(c) BY <1>17 DEF SavePieceCannotOpen
<1>18. CASE Ask(c) BY <1>18 DEF Ask
<1>19. CASE RequestQueueEmpty(c) BY <1>19 DEF RequestQueueEmpty
<1>20. CASE LeaveWithoutPiece(c) BY <1>20 DEF LeaveWithoutPiece
<1>21. CASE LeaveCrashes(c) BY <1>21 DEF LeaveCrashes
<1>22. CASE RunAgain(c) BY <1>22 DEF RunAgain, TryAgain
<1>23. CASE TaskEnds(c) BY <1>23 DEF TaskEnds
<1> QED BY <1>1, <1>2, <1>3, <1>4, <1>5, <1>6, <1>7, <1>8, <1>9, <1>10, <1>11,
           <1>12, <1>13, <1>14, <1>15, <1>16, <1>17, <1>18, <1>19, <1>20, <1>21,
           <1>22, <1>23 DEF Local

\* Taking the piece to go on with: the one held, or the head of the queue.
LEMMA AcquireTypes ==
  ASSUME TypeOK, NEW c \in Conns, NEW p \in Pieces, AcquirePiece(c, p)
  PROVE  /\ remainPieces' \in Seq(Pieces) /\ downloadingPieces' \in SUBSET Pieces
         /\ piecesInProgressCount' \in 0 .. SizeMax
         /\ UNCHANGED <<savedPieces, fdOpen, disk>>
         /\ pieceInProgress' = [pieceInProgress EXCEPT ![c] = p]
         /\ isPieceDownloadingNow' \in [Conns -> BOOLEAN]
         /\ \/ pieceInProgress[c] = p /\ UNCHANGED <<storageVars, leaseVars>>
            \/ /\ pieceInProgress[c] = NoPiece /\ remainPieces # <<>>
               /\ p = Head(remainPieces)
               /\ isPieceDownloadingNow' = [isPieceDownloadingNow EXCEPT ![c] = TRUE]
<1> USE DEF TypeOK, StorageTypeOK, storageVars, leaseVars
<1>1. CASE pieceInProgress[c] = p /\ UNCHANGED <<storageVars, leaseVars>>
  BY <1>1
<1>2. CASE /\ pieceInProgress[c] = NoPiece
           /\ GetNextPieceToDownload(p)
           /\ pieceInProgress' = [pieceInProgress EXCEPT ![c] = p]
           /\ isPieceDownloadingNow' = [isPieceDownloadingNow EXCEPT ![c] = TRUE]
  <2>1. Tail(remainPieces) \in Seq(Pieces)
    BY <1>2, HeadLeaves DEF GetNextPieceToDownload, QueueIsEmpty
  <2> QED BY <1>2, <2>1, CounterStays DEF GetNextPieceToDownload, QueueIsEmpty
<1> QED BY <1>1, <1>2 DEF AcquirePiece

\* What a fetching step does: one piece, taken or held, and one thread.
LEMMA FetchMoves ==
  ASSUME TypeOK, NEW c \in Conns, Fetch(c)
  PROVE  /\ TypeOK'
         /\ pc[c] \in {"Loop", "Request"}
         /\ \E p \in Pieces :
              /\ AcquirePiece(c, p)
              /\ \A q \in Pieces \ {p} : blocks'[q] = blocks[q]
         /\ \E l \in {"Processed", "Ask", "Loop", "Attempt"} : pc' = [pc EXCEPT ![c] = l]
<1> SUFFICES ASSUME NEW p \in Pieces, AcquirePiece(c, p),
                    \/ \E m \in PieceMessages(c) :
                         /\ Receives(c)
                         /\ m.block \in BlockIds(p)
                         /\ blocks' = [blocks EXCEPT ![p] = SaveBlock(@, m.block, m.piece)]
                         /\ requests' = [requests EXCEPT ![c] = @ \ {m}]
                         /\ pendingBlock' = [pendingBlock EXCEPT ![c] = FALSE]
                         /\ Goto(c, "Processed") \/ Goto(c, "Ask")
                         /\ UNCHANGED <<failed, choked>>
                    \/ \E m \in PieceMessages(c) :
                         /\ Receives(c)
                         /\ Throw(c)
                         /\ requests' = [requests EXCEPT ![c] = @ \ {m}]
                         /\ UNCHANGED <<blocks, flagVars>>
                    \/ \E b \in BlockIds(p) :
                         /\ At(c, "Request")
                         /\ blocks' = [blocks EXCEPT ![p] = MarkPending(@, b)]
                         /\ requests' = [requests EXCEPT ![c] = @ \cup {[piece |-> p, block |-> b]}]
                         /\ pendingBlock' = [pendingBlock EXCEPT ![c] = TRUE]
                         /\ Goto(c, "Loop")
                         /\ UNCHANGED <<attempts, terminated, failed, choked>>
                    \/ \E b \in BlockIds(p) :
                         /\ At(c, "Request")
                         /\ blocks' = [blocks EXCEPT ![p] = MarkPending(@, b)]
                         /\ Throw(c)
                         /\ UNCHANGED <<attempts, terminated, flagVars, requests>>
                    \/ /\ At(c, "Request")
                       /\ Goto(c, "Loop")
                       /\ UNCHANGED <<blocks, attempts, terminated, flagVars, requests>>
             PROVE  /\ TypeOK'
                    /\ pc[c] \in {"Loop", "Request"}
                    /\ \A q \in Pieces \ {p} : blocks'[q] = blocks[q]
                    /\ \E l \in {"Processed", "Ask", "Loop", "Attempt"} : pc' = [pc EXCEPT ![c] = l]
  BY DEF Fetch, HandlePiece, HandlePieceOutOfRange, RequestBlock, RequestSendFails,
         RequestNothingMissing
<1>1. blocks[p] \in [BlockIds(p) -> Block] /\ BlockIds(p) \subseteq Nat
  BY NumBlocksAssumption DEF TypeOK, StorageTypeOK, BlockIds, Pieces
<1>2. \A m \in PieceMessages(c) : m.piece \in Pieces
  BY DEF TypeOK, PieceMessages, Requests
<1>3. /\ blocks' = [blocks EXCEPT ![p] = blocks'[p]]
      /\ blocks'[p] \in [BlockIds(p) -> Block]
  BY <1>1, <1>2, BlockVectors DEF TypeOK, StorageTypeOK
<1>4. StorageTypeOK'
  BY <1>3, AcquireTypes DEF TypeOK, StorageTypeOK
<1>5. requests' \in [Conns -> SUBSET Requests]
  <2>1. requests \in [Conns -> SUBSET Requests]
    BY DEF TypeOK
  <2>2. \A b \in BlockIds(p) : [piece |-> p, block |-> b] \in Requests
    BY <1>1 DEF Requests
  <2> QED BY <2>1, <2>2 DEF flagVars
<1>6. /\ attempts' = attempts /\ terminated' = terminated /\ failed' = failed /\ choked' = choked
      /\ pendingBlock' \in [Conns -> BOOLEAN]
      /\ pc' \in [Conns -> Labels]
  BY DEF TypeOK, Goto, Throw, Receives, flagVars, Labels
<1>7. TypeOK'
  BY <1>4, <1>5, <1>6, AcquireTypes DEF TypeOK
<1> QED BY <1>3, <1>7 DEF At, Goto, Throw, Receives, TypeOK, StorageTypeOK


\* Types and flags survive every step.
LEMMA TypeStep == TypeInv /\ [Next]_vars => TypeInv'
<1> SUFFICES ASSUME TypeInv, [Next]_vars PROVE TypeInv'
  OBVIOUS
<1> USE DEF TypeInv
<1>1. CASE UNCHANGED vars
  BY <1>1 DEF TypeOK, StorageTypeOK, LeaseByPc, vars, storageVars, connVars
<1>2. CASE \E c \in Conns : Local(c)
  <2>1. PICK c \in Conns : Local(c)
    BY <1>2
  <2>2. LeaseByPc'
    BY <2>1, LocalMoves DEF LeaseByPc, leaseVars, TypeOK, Labels
  <2> QED BY <2>1, <2>2, LocalMoves
<1>3. CASE \E c \in Conns : Fetch(c)
  <2>1. PICK c \in Conns : Fetch(c)
    BY <1>3
  <2>2. PICK p \in Pieces : AcquirePiece(c, p)
    BY <2>1, FetchMoves
  <2>3. isPieceDownloadingNow'[c] /\ pieceInProgress'[c] # NoPiece
    BY <2>1, <2>2, FetchMoves, AcquireTypes, NoPieceAssumption
       DEF LeaseByPc, leaseVars, TypeOK, Pieces
  <2>4. \A d \in Conns \ {c} : /\ isPieceDownloadingNow'[d] = isPieceDownloadingNow[d]
                               /\ pieceInProgress'[d] = pieceInProgress[d]
                               /\ pc'[d] = pc[d]
    BY <2>1, <2>2, FetchMoves, AcquireTypes DEF leaseVars, TypeOK
  <2>5. LeaseByPc'
    BY <2>3, <2>4 DEF LeaseByPc
  <2> QED BY <2>1, <2>5, FetchMoves
<1>4. ASSUME NEW c \in Conns, Construct(c) PROVE TypeInv'
  BY <1>4 DEF Construct, TypeOK, StorageTypeOK, LeaseByPc, storageVars, At, Goto, Labels
<1>5. ASSUME NEW c \in Conns, EnterMainLoop(c) PROVE TypeInv'
  BY <1>5 DEF EnterMainLoop, TypeOK, StorageTypeOK, LeaseByPc, storageVars, At, Goto, Labels
<1>6. ASSUME NEW c \in Conns, PieceProcessed(c) PROVE TypeInv'
  BY <1>6, CounterStays
     DEF PieceProcessed, DecrementCounter, TypeOK, StorageTypeOK, LeaseByPc, leaseVars, flagVars,
         At, Goto, Labels
<1>7. ASSUME NEW c \in Conns, SavePiece(c) PROVE TypeInv'
  <2>1. pieceInProgress[c] \in Pieces
    BY <1>7 DEF SavePiece, TypeOK, LeaseByPc, At
  <2>2. savedPieces' \in Seq(Pieces)
    BY <1>7, <2>1, AppendEnters DEF SavePiece, SavePieceToDisk, TypeOK, StorageTypeOK
  <2>3. PICK complete \in BOOLEAN : SavePieceToDisk(pieceInProgress[c], complete)
    BY <1>7 DEF SavePiece
  <2>4. \A x \in DiskContent : [disk EXCEPT ![pieceInProgress[c]] = x] \in [Pieces -> DiskContent]
    BY DEF TypeOK, StorageTypeOK
  <2>5. disk' \in [Pieces -> DiskContent]
    BY <2>3, <2>4 DEF SavePieceToDisk, DiskContent
  <2>6. StorageTypeOK'
    BY <1>7, <2>2, <2>3, <2>5 DEF SavePiece, SavePieceToDisk, TypeOK, StorageTypeOK
  <2> QED BY <1>7, <2>6
          DEF SavePiece, DropPiece, TypeOK, LeaseByPc, flagVars, At, Goto, Labels
<1>8. ASSUME NEW c \in Conns, SavePieceFails(c) PROVE TypeInv'
  BY <1>8 DEF SavePieceFails, SavePieceToDiskFails, DropPiece, TypeOK, StorageTypeOK, LeaseByPc,
              flagVars, At, Goto, Labels
<1>9. ASSUME NEW c \in Conns, LeaveWithPiece(c) PROVE TypeInv'
  <2>1. pieceInProgress[c] \in Pieces
    BY <1>9 DEF LeaveWithPiece, TypeOK
  <2>2. /\ blocks' = [blocks EXCEPT ![pieceInProgress[c]] = blocks'[pieceInProgress[c]]]
        /\ blocks'[pieceInProgress[c]] \in [BlockIds(pieceInProgress[c]) -> Block]
    BY <1>9, <2>1, BlockVectors DEF LeaveWithPiece, TypeOK, StorageTypeOK
  <2>3. StorageTypeOK'
    BY <1>9, <2>1, <2>2, CounterStays
       DEF LeaveWithPiece, DecrementCounter, TypeOK, StorageTypeOK
  <2> QED BY <1>9, <2>3
          DEF LeaveWithPiece, TypeOK, LeaseByPc, leaseVars, flagVars, At, Goto, Labels
<1>10. ASSUME NEW c \in Conns, ReturnPiece(c) PROVE TypeInv'
  <2>1. pieceInProgress[c] \in Pieces
    BY <1>10 DEF ReturnPiece, TypeOK, LeaseByPc, At
  <2>2. remainPieces' \in Seq(Pieces) /\ downloadingPieces' \in SUBSET Pieces
    <3>1. remainPieces \in Seq(Pieces) /\ downloadingPieces \in SUBSET Pieces
      BY DEF TypeOK, StorageTypeOK
    <3>2. Append(remainPieces, pieceInProgress[c]) \in Seq(Pieces)
      BY <2>1, <3>1, AppendEnters
    <3>3. BackPieceToQueue(pieceInProgress[c])
      BY <1>10 DEF ReturnPiece
    <3> QED BY <3>1, <3>2, <3>3 DEF BackPieceToQueue, queueVars
  <2>3. StorageTypeOK'
    BY <1>10, <2>2 DEF ReturnPiece, BackPieceToQueue, TypeOK, StorageTypeOK
  <2> QED BY <1>10, <2>3
          DEF ReturnPiece, TypeOK, LeaseByPc, flagVars, At, Goto, Labels
<1> QED BY <1>1, <1>2, <1>3, <1>4, <1>5, <1>6, <1>7, <1>8, <1>9, <1>10, NextCases

\* Every variable keeps its type: in particular only pieces enter the queue
\* and the list of saved ones, because whoever calls PieceProcessed or
\* BackPieceToQueue has one.
THEOREM TypeCorrect == Spec => []TypeOK
<1>1. TypeInv => TypeOK
  BY DEF TypeInv
<1> QED BY <1>1, InitTypeInv, TypeStep, PTL DEF Spec

----------------------------------------------------------------------------
(* Every piece is in one place and has at most one holder.                  *)

OwnInv == TypeInv /\ EveryPieceInOnePlace /\ ExclusiveLease

\* At first every wanted piece is queued and nobody holds one.
LEMMA InitOwnInv == Init => OwnInv
<1> SUFFICES ASSUME Init PROVE EveryPieceInOnePlace /\ ExclusiveLease
  BY InitTypeInv DEF OwnInv
<1>1. IsInjective(remainPieces) /\ Range(remainPieces) = Wanted
  BY WantedAreQueued DEF Init, StorageInit
<1>2. savedPieces = <<>> /\ DOMAIN savedPieces = {}
  BY DEF Init, StorageInit
<1>3. IsInjective(savedPieces) /\ Range(savedPieces) = {}
  BY <1>2 DEF IsInjective, Range
<1>4. EveryPieceInOnePlace
  BY <1>1, <1>3 DEF EveryPieceInOnePlace, Init, StorageInit
<1>5. ExclusiveLease
  BY DEF ExclusiveLease, Holds, Init
<1> QED BY <1>4, <1>5

\* Fetch acts on a piece that c alone holds and that is not in the queue.
LEMMA FetchOwns ==
  ASSUME OwnInv, NEW c \in Conns, NEW p \in Pieces, AcquirePiece(c, p),
         pc[c] \in {"Loop", "Request"}
  PROVE  /\ EveryPieceInOnePlace' /\ ExclusiveLease'
         /\ Holds(c, p)' /\ p \notin Range(remainPieces')
         /\ Range(remainPieces') \subseteq Range(remainPieces)
<1> USE DEF OwnInv, TypeInv
<1>1. /\ remainPieces \in Seq(Pieces)
      /\ pieceInProgress' = [pieceInProgress EXCEPT ![c] = p]
      /\ c \in DOMAIN pieceInProgress /\ c \in DOMAIN isPieceDownloadingNow
  BY AcquireTypes DEF TypeOK, StorageTypeOK
<1>2. CASE pieceInProgress[c] = p /\ UNCHANGED <<storageVars, leaseVars>>
  <2>1. isPieceDownloadingNow[c]
    BY <1>2, NoPieceAssumption DEF LeaseByPc, Pieces
  <2>2. UNCHANGED <<remainPieces, downloadingPieces, savedPieces>>
    BY <1>2 DEF storageVars
  <2>3. Holds(c, p) /\ p \in downloadingPieces /\ p \notin Range(remainPieces)
    BY <1>2, <2>1 DEF Holds, ExclusiveLease, EveryPieceInOnePlace
  <2>4. EveryPieceInOnePlace'
    BY <2>2 DEF EveryPieceInOnePlace
  <2>5. ExclusiveLease' /\ Holds(c, p)'
    BY <1>2, <2>2, <2>3 DEF ExclusiveLease, Holds, leaseVars
  <2> QED BY <2>2, <2>3, <2>4, <2>5
<1>3. CASE /\ GetNextPieceToDownload(p)
           /\ isPieceDownloadingNow' = [isPieceDownloadingNow EXCEPT ![c] = TRUE]
  <2>1. /\ remainPieces # <<>> /\ p = Head(remainPieces) /\ remainPieces' = Tail(remainPieces)
        /\ downloadingPieces' = downloadingPieces \cup {p}
        /\ savedPieces' = savedPieces
    BY <1>3 DEF GetNextPieceToDownload, QueueIsEmpty
  <2>2. /\ IsInjective(remainPieces') /\ p \notin Range(remainPieces')
        /\ Range(remainPieces) = Range(remainPieces') \cup {p}
    BY <1>1, <2>1, HeadLeaves DEF EveryPieceInOnePlace
  <2>3. EveryPieceInOnePlace'
    BY <2>1, <2>2 DEF EveryPieceInOnePlace
  <2>4. \A d \in Conns : ~Holds(d, p)
    BY <2>2 DEF ExclusiveLease, EveryPieceInOnePlace
  <2>5. /\ Holds(c, p)'
        /\ \A q \in Pieces : Holds(c, q)' => q = p
        /\ \A d \in Conns \ {c}, q \in Pieces : Holds(d, q)' <=> Holds(d, q)
    BY <1>1, <1>3 DEF Holds, TypeOK
  <2>6. ExclusiveLease'
    <3> SUFFICES ASSUME NEW d \in Conns, NEW q \in Pieces, Holds(d, q)'
                 PROVE  /\ q \in downloadingPieces'
                        /\ \A e \in Conns : Holds(e, q)' => d = e
      BY DEF ExclusiveLease
    <3>1. CASE d = c
      BY <3>1, <2>1, <2>4, <2>5
    <3>2. CASE d # c
      BY <3>2, <2>1, <2>4, <2>5 DEF ExclusiveLease
    <3> QED BY <3>1, <3>2
  <2> QED BY <2>2, <2>3, <2>5, <2>6
<1> QED BY <1>2, <1>3 DEF AcquirePiece

\* A step that only makes connections hold less keeps the leases exclusive.
LEMMA HoldLess ==
  ASSUME ExclusiveLease, downloadingPieces' = downloadingPieces,
         \A d \in Conns, q \in Pieces : Holds(d, q)' => Holds(d, q)
  PROVE  ExclusiveLease'
BY DEF ExclusiveLease

\* A step that moves a held piece p elsewhere, its holder c letting it go.
LEMMA LetGo ==
  ASSUME ExclusiveLease, NEW c \in Conns, NEW p \in Pieces, Holds(c, p),
         downloadingPieces' = downloadingPieces \ {p},
         \A q \in Pieces : ~Holds(c, q)',
         \A d \in Conns \ {c}, q \in Pieces : Holds(d, q)' => Holds(d, q)
  PROVE  ExclusiveLease'
BY DEF ExclusiveLease

\* No step puts a piece in two places or in two hands.
LEMMA OwnStep == OwnInv /\ [Next]_vars => OwnInv'
<1> SUFFICES ASSUME OwnInv, [Next]_vars PROVE EveryPieceInOnePlace' /\ ExclusiveLease'
  BY TypeStep DEF OwnInv
<1> USE DEF OwnInv, TypeInv
<1>1. ASSUME UNCHANGED <<remainPieces, downloadingPieces, savedPieces>>
      PROVE EveryPieceInOnePlace'
  BY <1>1 DEF EveryPieceInOnePlace
<1>2. ASSUME UNCHANGED <<remainPieces, downloadingPieces, savedPieces, leaseVars>>
      PROVE EveryPieceInOnePlace' /\ ExclusiveLease'
  BY <1>2, <1>1 DEF ExclusiveLease, Holds, leaseVars
<1>3. CASE UNCHANGED vars
  BY <1>3, <1>2 DEF vars, storageVars, connVars, leaseVars
<1>4. ASSUME NEW c \in Conns, Local(c) PROVE EveryPieceInOnePlace' /\ ExclusiveLease'
  BY <1>4, <1>2, LocalMoves DEF storageVars
<1>5. ASSUME NEW c \in Conns, Fetch(c) PROVE EveryPieceInOnePlace' /\ ExclusiveLease'
  <2>1. pc[c] \in {"Loop", "Request"} /\ \E p \in Pieces : AcquirePiece(c, p)
    BY <1>5, FetchMoves
  <2> QED BY <2>1, FetchOwns
<1>6. ASSUME NEW c \in Conns, Construct(c) \/ EnterMainLoop(c) \/ SavePieceFails(c)
      PROVE EveryPieceInOnePlace' /\ ExclusiveLease'
  <2>1. UNCHANGED <<remainPieces, downloadingPieces, savedPieces>>
    BY <1>6 DEF Construct, EnterMainLoop, SavePieceFails, SavePieceToDiskFails, storageVars
  <2>2. /\ pieceInProgress' = [pieceInProgress EXCEPT ![c] = NoPiece]
        /\ isPieceDownloadingNow' \in {isPieceDownloadingNow, [isPieceDownloadingNow EXCEPT ![c] = FALSE]}
    BY <1>6 DEF Construct, EnterMainLoop, SavePieceFails, DropPiece
  <2>3. \A d \in Conns, q \in Pieces : Holds(d, q)' => Holds(d, q)
    BY <2>2, NoPieceAssumption DEF Holds, TypeOK, Pieces
  <2> QED BY <2>1, <2>3, <1>1, HoldLess
<1>7. ASSUME NEW c \in Conns, PieceProcessed(c) \/ LeaveWithPiece(c)
      PROVE EveryPieceInOnePlace' /\ ExclusiveLease'
  BY <1>7, <1>2 DEF PieceProcessed, LeaveWithPiece, DecrementCounter
<1>8. ASSUME NEW c \in Conns, SavePiece(c) PROVE EveryPieceInOnePlace' /\ ExclusiveLease'
  <2> DEFINE p == pieceInProgress[c]
  <2>1. p \in Pieces /\ Holds(c, p) /\ p \in downloadingPieces
    BY <1>8 DEF SavePiece, At, LeaseByPc, TypeOK, Holds, ExclusiveLease
  <2>2. /\ UNCHANGED remainPieces /\ downloadingPieces' = downloadingPieces \ {p}
        /\ savedPieces' = Append(savedPieces, p)
    BY <1>8 DEF SavePiece, SavePieceToDisk
  <2>3. savedPieces \in Seq(Pieces)
    BY DEF TypeOK, StorageTypeOK
  <2>4. /\ IsInjective(savedPieces') /\ Range(savedPieces') = Range(savedPieces) \cup {p}
    BY <2>1, <2>2, <2>3, AppendEnters DEF EveryPieceInOnePlace
  <2>5. EveryPieceInOnePlace'
    BY <2>1, <2>2, <2>4 DEF EveryPieceInOnePlace
  <2>6. /\ \A q \in Pieces : ~Holds(c, q)'
        /\ \A d \in Conns \ {c}, q \in Pieces : Holds(d, q)' => Holds(d, q)
    BY <1>8 DEF SavePiece, DropPiece, Holds, TypeOK
  <2>7. ExclusiveLease'
    BY <2>1, <2>2, <2>6, LetGo
  <2> QED BY <2>5, <2>7
<1>9. ASSUME NEW c \in Conns, ReturnPiece(c) PROVE EveryPieceInOnePlace' /\ ExclusiveLease'
  <2> DEFINE p == pieceInProgress[c]
  <2>1. p \in Pieces /\ Holds(c, p) /\ p \in downloadingPieces
    BY <1>9 DEF ReturnPiece, At, LeaseByPc, TypeOK, Holds, ExclusiveLease
  <2>2. /\ remainPieces' = Append(remainPieces, p)
        /\ downloadingPieces' = downloadingPieces \ {p}
        /\ UNCHANGED savedPieces
    BY <1>9, <2>1 DEF ReturnPiece, BackPieceToQueue
  <2>3. remainPieces \in Seq(Pieces)
    BY DEF TypeOK, StorageTypeOK
  <2>4. /\ IsInjective(remainPieces') /\ Range(remainPieces') = Range(remainPieces) \cup {p}
    BY <2>1, <2>2, <2>3, AppendEnters DEF EveryPieceInOnePlace
  <2>5. EveryPieceInOnePlace'
    BY <2>1, <2>2, <2>4 DEF EveryPieceInOnePlace
  <2>6. /\ \A q \in Pieces : ~Holds(c, q)'
        /\ \A d \in Conns \ {c}, q \in Pieces : Holds(d, q)' => Holds(d, q)
    BY <1>9 DEF ReturnPiece, Holds, TypeOK
  <2>7. ExclusiveLease'
    BY <2>1, <2>2, <2>6, LetGo
  <2> QED BY <2>5, <2>7
<1> QED BY <1>3, <1>4, <1>5, <1>6, <1>7, <1>8, <1>9, NextCases

\* What TypeCorrect, PiecesInOnePlace and LeasesExclusive follow from.
LEMMA OwnInvariant == Spec => []OwnInv
BY InitOwnInv, OwnStep, PTL DEF Spec

\* A wanted piece is always queued, handed out or saved, in one of them only
\* and there once: no piece is dropped by the storage or downloaded twice,
\* whatever exception leaves MainLoop.
THEOREM PiecesInOnePlace == Spec => []EveryPieceInOnePlace
BY OwnInvariant, PTL DEF OwnInv

\* At most one connection holds a piece, and the storage knows it is out.
THEOREM LeasesExclusive == Spec => []ExclusiveLease
BY OwnInvariant, PTL DEF OwnInv

----------------------------------------------------------------------------
(* Queued pieces are fresh.                                                 *)

\* A piece on its way back to the queue was reset before.
ReturnedIsFresh ==
  \A c \in Conns : At(c, "Back") => blocks[pieceInProgress[c]] = NewBlocks(pieceInProgress[c])

FreshInv == OwnInv /\ QueuedPiecesAreFresh /\ ReturnedIsFresh

\* At first every piece is fresh.
LEMMA InitFreshInv == Init => FreshInv
<1> SUFFICES ASSUME Init PROVE QueuedPiecesAreFresh /\ ReturnedIsFresh
  BY InitOwnInv DEF FreshInv
<1>1. Range(remainPieces) \subseteq Pieces
  BY InitTypeInv, LenProperties DEF TypeInv, TypeOK, StorageTypeOK, Range
<1> QED BY <1>1 DEF QueuedPiecesAreFresh, ReturnedIsFresh, Init, StorageInit, At

\* What a connection gives back it holds, so it is a piece nobody else holds
\* and the queue does not have.
LEMMA ReturnedIsHeld ==
  ASSUME OwnInv, NEW c \in Conns, pc[c] \in {"Back", "Save", "Processed"}
  PROVE  /\ pieceInProgress[c] \in Pieces /\ Holds(c, pieceInProgress[c])
         /\ pieceInProgress[c] \in downloadingPieces
         /\ pieceInProgress[c] \notin Range(remainPieces)
BY DEF OwnInv, TypeInv, TypeOK, LeaseByPc, Holds, ExclusiveLease, EveryPieceInOnePlace

\* Blocks are touched only in pieces that are out, and reset before return.
LEMMA FreshStep == FreshInv /\ [Next]_vars => FreshInv'
<1> SUFFICES ASSUME FreshInv, [Next]_vars PROVE QueuedPiecesAreFresh' /\ ReturnedIsFresh'
  BY OwnStep DEF FreshInv
<1> USE DEF FreshInv
<1>1. OwnInv' /\ TypeOK /\ Range(remainPieces) \subseteq Pieces
  BY OwnStep, LenProperties DEF OwnInv, TypeInv, TypeOK, StorageTypeOK, Range
\* The blocks, the queue and the pieces on their way back are as they were.
<1>2. ASSUME UNCHANGED <<remainPieces, blocks>>,
             \A d \in Conns : pc'[d] = "Back" =>
                pc[d] = "Back" /\ pieceInProgress'[d] = pieceInProgress[d]
      PROVE  QueuedPiecesAreFresh' /\ ReturnedIsFresh'
  BY <1>2 DEF QueuedPiecesAreFresh, ReturnedIsFresh, At
<1>3. CASE UNCHANGED vars
  BY <1>3, <1>2 DEF vars, storageVars, connVars
<1>4. ASSUME NEW c \in Conns, Local(c) PROVE QueuedPiecesAreFresh' /\ ReturnedIsFresh'
  BY <1>1, <1>2, <1>4, LocalMoves DEF storageVars, leaseVars
<1>5. ASSUME NEW c \in Conns, Fetch(c) PROVE QueuedPiecesAreFresh' /\ ReturnedIsFresh'
  <2>1. PICK p \in Pieces :
          /\ AcquirePiece(c, p)
          /\ \A q \in Pieces \ {p} : blocks'[q] = blocks[q]
    BY <1>1, <1>5, FetchMoves
  <2>2. /\ pc[c] \in {"Loop", "Request"}
        /\ \E l \in {"Processed", "Ask", "Loop", "Attempt"} : pc' = [pc EXCEPT ![c] = l]
    BY <1>1, <1>5, FetchMoves
  <2>3. /\ Holds(c, p)' /\ p \notin Range(remainPieces')
        /\ Range(remainPieces') \subseteq Range(remainPieces)
    BY <2>1, <2>2, FetchOwns
  <2>4. QueuedPiecesAreFresh'
    BY <1>1, <2>1, <2>3 DEF QueuedPiecesAreFresh
  <2>5. ASSUME NEW d \in Conns, pc'[d] = "Back"
        PROVE  blocks'[pieceInProgress'[d]] = NewBlocks(pieceInProgress'[d])
    <3>1. d # c /\ pc[d] = "Back"
      BY <1>1, <2>2, <2>5 DEF TypeOK
    <3>2. /\ pieceInProgress'[d] = pieceInProgress[d]
          /\ isPieceDownloadingNow'[d] = isPieceDownloadingNow[d]
      BY <1>1, <2>1, <3>1 DEF AcquirePiece, leaseVars, TypeOK
    <3>3. pieceInProgress[d] \in Pieces /\ Holds(d, pieceInProgress[d])
      BY <3>1, ReturnedIsHeld
    <3>4. pieceInProgress[d] # p
      BY <1>1, <2>3, <3>1, <3>2, <3>3 DEF OwnInv, ExclusiveLease, Holds
    <3> QED BY <2>1, <3>1, <3>2, <3>3, <3>4 DEF ReturnedIsFresh, At
  <2> QED BY <2>4, <2>5 DEF ReturnedIsFresh, At
<1>6. ASSUME NEW c \in Conns,
             Construct(c) \/ EnterMainLoop(c) \/ PieceProcessed(c) \/ SavePiece(c) \/ SavePieceFails(c)
      PROVE QueuedPiecesAreFresh' /\ ReturnedIsFresh'
  <2>1. /\ UNCHANGED <<remainPieces, blocks>>
        /\ \E l \in {"Queued", "Loop", "Save", "Ask"} : pc' = [pc EXCEPT ![c] = l]
        /\ \A d \in Conns \ {c} : pieceInProgress'[d] = pieceInProgress[d]
    BY <1>1, <1>6 DEF Construct, EnterMainLoop, PieceProcessed, SavePiece, SavePieceFails,
       SavePieceToDisk, SavePieceToDiskFails, DecrementCounter, DropPiece, storageVars, leaseVars,
       Goto, TypeOK
  <2>2. \A d \in Conns : pc'[d] = "Back" => d # c /\ pc[d] = "Back"
    BY <1>1, <2>1 DEF TypeOK
  <2> QED BY <1>2, <2>1, <2>2
<1>7. ASSUME NEW c \in Conns, LeaveWithPiece(c) PROVE QueuedPiecesAreFresh' /\ ReturnedIsFresh'
  <2> DEFINE p == pieceInProgress[c]
  <2>1. /\ p \in Pieces /\ Holds(c, p) /\ p \notin Range(remainPieces)
    BY <1>1, <1>7
       DEF LeaveWithPiece, OwnInv, TypeOK, Holds, ExclusiveLease, EveryPieceInOnePlace
  <2>2. /\ UNCHANGED <<remainPieces, pieceInProgress>>
        /\ blocks' = [blocks EXCEPT ![p] = Reset(blocks[p])]
        /\ pc' = [pc EXCEPT ![c] = "Back"]
    BY <1>7 DEF LeaveWithPiece, DecrementCounter, leaseVars, Goto
  <2>3. blocks'[p] = NewBlocks(p) /\ \A q \in Pieces \ {p} : blocks'[q] = blocks[q]
    <3>1. blocks[p] \in [BlockIds(p) -> Block] /\ p \in DOMAIN blocks
      BY <1>1, <2>1 DEF TypeOK, StorageTypeOK
    <3> QED BY <2>1, <2>2, <3>1, BlockVectors
  <2>4. QueuedPiecesAreFresh'
    BY <1>1, <2>1, <2>2, <2>3 DEF QueuedPiecesAreFresh
  <2>5. ASSUME NEW d \in Conns, pc'[d] = "Back"
        PROVE  blocks'[pieceInProgress'[d]] = NewBlocks(pieceInProgress'[d])
    <3>1. CASE d = c
      BY <2>2, <2>3, <3>1
    <3>2. CASE d # c
      <4>1. pc[d] = "Back"
        BY <1>1, <2>2, <2>5, <3>2 DEF TypeOK
      <4>2. pieceInProgress[d] \in Pieces /\ pieceInProgress[d] # p
        BY <2>1, <3>2, <4>1, ReturnedIsHeld DEF OwnInv, ExclusiveLease
      <4> QED BY <2>2, <2>3, <4>1, <4>2 DEF ReturnedIsFresh, At
    <3> QED BY <3>1, <3>2
  <2> QED BY <2>4, <2>5 DEF ReturnedIsFresh, At
<1>8. ASSUME NEW c \in Conns, ReturnPiece(c) PROVE QueuedPiecesAreFresh' /\ ReturnedIsFresh'
  <2> DEFINE p == pieceInProgress[c]
  <2>1. At(c, "Back") /\ p \in Pieces /\ p \in downloadingPieces
    BY <1>8, ReturnedIsHeld DEF ReturnPiece, At
  <2>2. /\ remainPieces' = Append(remainPieces, p) /\ UNCHANGED <<blocks, pieceInProgress>>
        /\ pc' = [pc EXCEPT ![c] = "Run"]
    BY <1>8, <2>1 DEF ReturnPiece, BackPieceToQueue, Goto
  <2>3. Range(remainPieces') = Range(remainPieces) \cup {p}
    BY <1>1, <2>1, <2>2, AppendEnters DEF TypeOK, StorageTypeOK
  <2>4. QueuedPiecesAreFresh'
    BY <2>1, <2>2, <2>3 DEF QueuedPiecesAreFresh, ReturnedIsFresh
  <2>5. ReturnedIsFresh'
    BY <1>1, <2>2 DEF ReturnedIsFresh, At, TypeOK
  <2> QED BY <2>4, <2>5
<1> QED BY <1>3, <1>4, <1>5, <1>6, <1>7, <1>8, NextCases

\* A piece in the queue has no block marked as requested or filled, so the
\* next connection that takes it asks for every block.
THEOREM QueuedFresh == Spec => []QueuedPiecesAreFresh
<1>1. FreshInv => QueuedPiecesAreFresh
  BY DEF FreshInv
<1> QED BY <1>1, InitFreshInv, FreshStep, PTL DEF Spec

----------------------------------------------------------------------------
(* A first attempt has a piece to return.                                   *)

\* Until an exception ends it, the first attempt of a task raises the flag with
\* a piece, and has lowered it whenever Run connects again.
FirstOf(c) ==
  /\ pc[c] \notin {"Idle", "Queued", "Crashed"} => attempts[c] # 0
  /\ pc[c] = "Queued" => ~isPieceDownloadingNow[c]
  /\ attempts[c] = 1 /\ isPieceDownloadingNow[c] =>
       /\ pc[c] \notin {"Run", "Refused", "Connected"}
       /\ pc[c] \in {"Loop", "Processed", "Save", "Ask", "Request", "Leave", "Back"} =>
            pieceInProgress[c] # NoPiece

FirstInv == TypeInv /\ \A c \in Conns : FirstOf(c)

\* The attempts change with Start, RunAgain and TaskEnds only.
LEMMA LocalFirst ==
  ASSUME TypeOK, NEW c \in Conns, FirstOf(c), Local(c)
  PROVE  FirstOf(c)' /\ \A d \in Conns \ {c} : attempts'[d] = attempts[d]
<1> USE DEF TypeOK, FirstOf, leaseVars, flagVars, At, Goto, Throw, Receives
<1>1. CASE Start(c) BY <1>1 DEF Start
<1>2. CASE Terminate(c) BY <1>2 DEF Terminate
<1>3. CASE RunReturns(c) BY <1>3 DEF RunReturns
<1>4. CASE EstablishConnectionFails(c) BY <1>4 DEF EstablishConnectionFails
<1>5. CASE TerminateRefused(c) BY <1>5 DEF TerminateRefused
<1>6. CASE EstablishConnection(c) BY <1>6 DEF EstablishConnection
<1>7. CASE LoopStops(c) BY <1>7 DEF LoopStops
<1>8. CASE ReceiveFails(c) BY <1>8 DEF ReceiveFails
<1>9. CASE HandleKeepAlive(c) BY <1>9 DEF HandleKeepAlive
<1>10. CASE HandleChoke(c) BY <1>10 DEF HandleChoke
<1>11. CASE HandleUnchoke(c) BY <1>11 DEF HandleUnchoke
<1>12. CASE HandleHave(c) BY <1>12 DEF HandleHave
<1>13. CASE HandleBadHave(c) BY <1>13 DEF HandleBadHave
<1>14. CASE HandleOther(c) BY <1>14 DEF HandleOther
<1>15. CASE HandleShortPiece(c) BY <1>15 DEF HandleShortPiece
<1>16. CASE HandlePieceQueueEmpty(c) BY <1>16 DEF HandlePieceQueueEmpty
<1>17. CASE SavePieceCannotOpen(c) BY <1>17 DEF SavePieceCannotOpen
<1>18. CASE Ask(c) BY <1>18 DEF Ask
<1>19. CASE RequestQueueEmpty(c) BY <1>19 DEF RequestQueueEmpty
<1>20. CASE LeaveWithoutPiece(c) BY <1>20 DEF LeaveWithoutPiece
<1>21. CASE LeaveCrashes(c) BY <1>21 DEF LeaveCrashes
<1>22. CASE RunAgain(c) BY <1>22 DEF RunAgain
<1>23. CASE TaskEnds(c) BY <1>23 DEF TaskEnds
<1> QED BY <1>1, <1>2, <1>3, <1>4, <1>5, <1>6, <1>7, <1>8, <1>9, <1>10, <1>11,
           <1>12, <1>13, <1>14, <1>15, <1>16, <1>17, <1>18, <1>19, <1>20, <1>21,
           <1>22, <1>23 DEF Local

\* No step of a first attempt leaves the flag up without a piece.
LEMMA FirstStep == FirstInv /\ [Next]_vars => FirstInv'
<1> SUFFICES ASSUME FirstInv, [Next]_vars, NEW d \in Conns PROVE FirstOf(d)'
  BY TypeStep DEF FirstInv
<1>1. TypeInv /\ TypeOK /\ FirstOf(d)
  BY DEF FirstInv, TypeInv
<1>2. CASE UNCHANGED vars
  BY <1>1, <1>2 DEF FirstOf, vars, connVars
<1>3. ASSUME NEW c \in Conns, Local(c) PROVE FirstOf(d)'
  <2>1. UNCHANGED leaseVars
    BY <1>1, <1>3, LocalMoves
  <2>2. CASE d = c
    BY <1>1, <1>3, <2>2, LocalFirst
  <2>3. CASE d # c
    <3>1. attempts'[d] = attempts[d]
      BY <1>1, <1>3, <2>3, LocalFirst DEF FirstInv
    <3>2. pc'[d] = pc[d] \/ pc'[d] = "Crashed"
      BY <1>1, <1>3, <2>3, LocalMoves
    <3> QED BY <1>1, <2>1, <3>1, <3>2 DEF FirstOf, leaseVars
  <2> QED BY <2>2, <2>3
<1>4. ASSUME NEW c \in Conns, Fetch(c) PROVE FirstOf(d)'
  <2>1. PICK p \in Pieces : AcquirePiece(c, p)
    BY <1>1, <1>4, FetchMoves
  <2>2. /\ pc[c] \in {"Loop", "Request"}
        /\ \E l \in {"Processed", "Ask", "Loop", "Attempt"} : pc' = [pc EXCEPT ![c] = l]
    BY <1>1, <1>4, FetchMoves
  <2>3. attempts' = attempts
    BY <1>4 DEF Fetch, HandlePiece, HandlePieceOutOfRange, RequestBlock, RequestSendFails,
       RequestNothingMissing, Receives
  <2>4. /\ pieceInProgress' = [pieceInProgress EXCEPT ![c] = p] /\ p # NoPiece
        /\ \A e \in Conns \ {c} : isPieceDownloadingNow'[e] = isPieceDownloadingNow[e]
    BY <1>1, <2>1, AcquireTypes, NoPieceAssumption DEF AcquirePiece, leaseVars, Pieces, TypeOK
  <2> QED BY <1>1, <2>2, <2>3, <2>4 DEF FirstOf, FirstInv, TypeOK
<1>5. ASSUME NEW c \in Conns,
             \/ Construct(c) \/ EnterMainLoop(c) \/ PieceProcessed(c) \/ SavePiece(c)
             \/ SavePieceFails(c) \/ LeaveWithPiece(c) \/ ReturnPiece(c)
      PROVE  FirstOf(d)'
  <2>1. attempts' = attempts
    BY <1>5 DEF Construct, EnterMainLoop, PieceProcessed, SavePiece, SavePieceFails,
       LeaveWithPiece, ReturnPiece
  <2>2. CASE Construct(c) \/ SavePiece(c) \/ SavePieceFails(c) \/ ReturnPiece(c)
    <3>1. /\ isPieceDownloadingNow' = [isPieceDownloadingNow EXCEPT ![c] = FALSE]
          /\ \A e \in Conns \ {c} : pieceInProgress'[e] = pieceInProgress[e] /\ pc'[e] = pc[e]
          /\ pc'[c] = "Queued" \/ pc[c] \in {"Save", "Back"}
      BY <1>1, <2>2 DEF Construct, SavePiece, SavePieceFails, ReturnPiece, DropPiece, At, Goto, TypeOK
    <3> QED BY <1>1, <2>1, <3>1 DEF FirstOf, FirstInv, TypeOK
  <2>3. CASE EnterMainLoop(c)
    BY <1>1, <2>1, <2>3 DEF EnterMainLoop, FirstOf, At, Goto, TypeOK
  <2>4. CASE PieceProcessed(c) \/ LeaveWithPiece(c)
    BY <1>1, <2>1, <2>4 DEF PieceProcessed, LeaveWithPiece, FirstOf, At, Goto, leaseVars, TypeOK
  <2> QED BY <1>5, <2>2, <2>3, <2>4
<1> QED BY <1>2, <1>3, <1>4, <1>5, NextCases

\* Whatever throws and whatever peers send, the pointer dereferenced after
\* MainLoop's loop is null in no first attempt of a task, however often Run has
\* connected in it: the crash needs a retry on the same object (main.cpp).
THEOREM FirstReturnsAPiece == Spec => []FirstAttemptHasAPiece
<1>1. Init => FirstInv
  BY InitTypeInv DEF FirstInv, FirstOf, Init
<1>2. FirstInv => FirstAttemptHasAPiece
  BY DEF FirstInv, FirstOf, FirstAttemptHasAPiece, At
<1> QED BY <1>1, <1>2, FirstStep, PTL DEF Spec

----------------------------------------------------------------------------
(* The refinement of PieceLedger.                                           *)

\* SetNewSize leaves pieces of the torrent.
LEMMA WantedArePieces == Wanted \subseteq Pieces
BY PiecesToDownloadAssumption, NumPiecesAssumption DEF Wanted, Pieces

\* The holder of piece p in the ledger.
HolderOf(p) ==
  IF p \in Range(savedPieces) THEN "Saved"
  ELSE IF p \in Range(remainPieces) THEN "Queued"
  ELSE IF \E c \in Conns : Holds(c, p)
         THEN CHOOSE c \in Conns : Holds(c, p)
         ELSE "Lost"

\* Exactly one of the four cases applies to a wanted piece.
HolderIsOne ==
  \A p \in Wanted :
    /\ p \in Range(savedPieces) => HolderOf(p) = "Saved" /\ \A c \in Conns : ~Holds(c, p)
    /\ p \in Range(remainPieces) => HolderOf(p) = "Queued" /\ \A c \in Conns : ~Holds(c, p)
    /\ \A c \in Conns : Holds(c, p) => HolderOf(p) = c
    /\ \/ p \in Range(savedPieces)
       \/ p \in Range(remainPieces)
       \/ \E c \in Conns : Holds(c, p)
       \/ HolderOf(p) = "Lost"

\* That is so because a piece is in one place and in one hand.
LEMMA OneHolder == OwnInv => HolderIsOne
<1> SUFFICES ASSUME OwnInv, NEW p \in Wanted
             PROVE  /\ p \in Range(savedPieces) =>
                         HolderOf(p) = "Saved" /\ \A c \in Conns : ~Holds(c, p)
                    /\ p \in Range(remainPieces) =>
                         HolderOf(p) = "Queued" /\ \A c \in Conns : ~Holds(c, p)
                    /\ \A c \in Conns : Holds(c, p) => HolderOf(p) = c
                    /\ \/ p \in Range(savedPieces)
                       \/ p \in Range(remainPieces)
                       \/ \E c \in Conns : Holds(c, p)
                       \/ HolderOf(p) = "Lost"
  BY DEF HolderIsOne
<1>1. p \in Pieces
  BY WantedArePieces
<1>2. \A c \in Conns : Holds(c, p) =>
        p \notin Range(savedPieces) /\ p \notin Range(remainPieces)
  BY <1>1 DEF OwnInv, ExclusiveLease, EveryPieceInOnePlace
<1>3. ASSUME NEW c \in Conns, Holds(c, p) PROVE HolderOf(p) = c
  <2>1. HolderOf(p) = CHOOSE d \in Conns : Holds(d, p)
    BY <1>2, <1>3 DEF HolderOf
  <2>2. \A d \in Conns : Holds(d, p) => d = c
    BY <1>1, <1>3 DEF OwnInv, ExclusiveLease
  <2> QED BY <1>3, <2>1, <2>2
<1>4. p \in Range(remainPieces) => p \notin Range(savedPieces)
  BY DEF OwnInv, EveryPieceInOnePlace
<1>5. /\ p \in Range(savedPieces) => HolderOf(p) = "Saved"
      /\ p \in Range(remainPieces) => HolderOf(p) = "Queued"
      /\ \/ p \in Range(savedPieces)
         \/ p \in Range(remainPieces)
         \/ \E c \in Conns : Holds(c, p)
         \/ HolderOf(p) = "Lost"
  BY <1>4 DEF HolderOf
<1> QED BY <1>2, <1>3, <1>5

\* A piece neither container of which nor holder changes keeps its entry.
LEMMA EntryStays ==
  ASSUME OwnInv, OwnInv', NEW p \in Wanted,
         p \in Range(savedPieces') <=> p \in Range(savedPieces),
         p \in Range(remainPieces') <=> p \in Range(remainPieces),
         \A c \in Conns : Holds(c, p)' <=> Holds(c, p)
  PROVE  HolderOf(p)' = HolderOf(p)
<1>1. HolderIsOne /\ HolderIsOne'
  BY OneHolder, PTL
<1>2. CASE p \in Range(savedPieces)
  BY <1>1, <1>2 DEF HolderIsOne
<1>3. CASE p \in Range(remainPieces)
  BY <1>1, <1>3 DEF HolderIsOne
<1>4. CASE \E c \in Conns : Holds(c, p)
  BY <1>1, <1>4 DEF HolderIsOne
<1>5. CASE /\ p \notin Range(savedPieces) /\ p \notin Range(remainPieces)
           /\ \A c \in Conns : ~Holds(c, p)
  BY <1>1, <1>5 DEF HolderIsOne
<1> QED BY <1>2, <1>3, <1>4, <1>5

\* The ledger's move of one piece.
Moves(p, from, to) ==
  /\ HolderOf(p) = from /\ HolderOf(p)' = to
  /\ \A q \in Wanted \ {p} : HolderOf(q)' = HolderOf(q)

\* What a step of the connections does to the ledger.
LedgerStep ==
  \/ \A q \in Wanted : HolderOf(q)' = HolderOf(q)
  \/ \E c \in Conns, p \in Wanted :
       \/ Moves(p, "Queued", c) /\ \A q \in Wanted : HolderOf(q) # c
       \/ Moves(p, c, "Queued")
       \/ Moves(p, c, "Saved")
       \/ Moves(p, c, "Lost")

\* Connection c lets go of what it holds, which goes to "to": the queue, the
\* saved pieces, or nowhere.
LEMMA LetsGo ==
  ASSUME OwnInv, OwnInv', NEW c \in Conns, NEW to \in {"Queued", "Saved", "Lost"},
         \A q \in Pieces : ~Holds(c, q)',
         \A d \in Conns \ {c}, q \in Pieces : Holds(d, q)' <=> Holds(d, q),
         \A q \in Wanted :
           /\ q \in Range(savedPieces') <=>
                q \in Range(savedPieces) \/ (to = "Saved" /\ Holds(c, q))
           /\ q \in Range(remainPieces') <=>
                q \in Range(remainPieces) \/ (to = "Queued" /\ Holds(c, q))
  PROVE  LedgerStep
<1>1. HolderIsOne /\ HolderIsOne' /\ Wanted \subseteq Pieces
  <2>1. HolderIsOne /\ HolderIsOne'
    BY OneHolder, PTL
  <2> QED BY <2>1, WantedArePieces
<1>2. \A q \in Wanted : ~Holds(c, q) => HolderOf(q)' = HolderOf(q)
  BY <1>1, EntryStays
<1>3. ASSUME NEW p \in Wanted, Holds(c, p) PROVE Moves(p, c, to)
  <2>1. HolderOf(p) = c /\ p \notin Range(savedPieces) /\ p \notin Range(remainPieces)
    BY <1>1, <1>3 DEF HolderIsOne
  <2>2. \A d \in Conns : ~Holds(d, p)'
    BY <1>1, <1>3 DEF OwnInv, ExclusiveLease
  <2>3. HolderOf(p)' = to
    BY <1>1, <1>3, <2>1, <2>2 DEF HolderIsOne
  <2>4. \A q \in Wanted \ {p} : ~Holds(c, q)
    BY <1>3 DEF Holds
  <2> QED BY <1>2, <2>1, <2>3, <2>4 DEF Moves
<1> QED BY <1>2, <1>3 DEF LedgerStep

\* Taking a piece is leasing it; a connection takes one only with none held.
LEMMA FetchLeases ==
  ASSUME Conns \cap {"Queued", "Saved", "Lost"} = {},
         OwnInv, OwnInv', NEW c \in Conns, NEW p \in Pieces, AcquirePiece(c, p),
         pc[c] \in {"Loop", "Request"}
  PROVE  LedgerStep
<1> USE DEF OwnInv, TypeInv
<1>1. HolderIsOne /\ HolderIsOne' /\ Wanted \subseteq Pieces
  <2>1. HolderIsOne /\ HolderIsOne'
    BY OneHolder, PTL
  <2> QED BY <2>1, WantedArePieces
<1>2. CASE UNCHANGED <<storageVars, leaseVars>>
  BY <1>1, <1>2, EntryStays DEF LedgerStep, Holds, storageVars, leaseVars
<1>3. CASE /\ pieceInProgress[c] = NoPiece
           /\ GetNextPieceToDownload(p)
           /\ isPieceDownloadingNow' = [isPieceDownloadingNow EXCEPT ![c] = TRUE]
           /\ pieceInProgress' = [pieceInProgress EXCEPT ![c] = p]
  <2>1. /\ remainPieces \in Seq(Pieces) /\ remainPieces # <<>> /\ p = Head(remainPieces)
        /\ remainPieces' = Tail(remainPieces) /\ savedPieces' = savedPieces
    BY <1>3 DEF GetNextPieceToDownload, QueueIsEmpty, TypeOK, StorageTypeOK
  <2>2. p \notin Range(remainPieces') /\ Range(remainPieces) = Range(remainPieces') \cup {p}
    BY <2>1, HeadLeaves DEF EveryPieceInOnePlace
  <2>3. p \in Wanted
    BY <2>2 DEF EveryPieceInOnePlace
  <2>4. /\ Holds(c, p)'
        /\ \A q \in Pieces \ {p} : ~Holds(c, q)'
        /\ \A q \in Pieces : ~Holds(c, q)
        /\ \A d \in Conns \ {c}, q \in Pieces : Holds(d, q)' <=> Holds(d, q)
    BY <1>3, NoPieceAssumption DEF Holds, TypeOK, Pieces
  <2>5. \A q \in Wanted \ {p} : HolderOf(q)' = HolderOf(q)
    BY <1>1, <2>1, <2>2, <2>4, EntryStays
  <2>6. HolderOf(p) = "Queued" /\ HolderOf(p)' = c
    BY <1>1, <2>2, <2>3, <2>4 DEF HolderIsOne
  <2>7. \A q \in Wanted : HolderOf(q) # c
    BY <1>1, <2>4 DEF HolderIsOne
  <2> QED BY <2>3, <2>5, <2>6, <2>7 DEF Moves, LedgerStep
<1> QED BY <1>2, <1>3 DEF AcquirePiece

\* Every step of the connections is a move of at most one piece.
LEMMA NextIsLedgerStep ==
  ASSUME Conns \cap {"Queued", "Saved", "Lost"} = {}
  PROVE  OwnInv /\ [Next]_vars => LedgerStep
<1> SUFFICES ASSUME OwnInv, [Next]_vars PROVE LedgerStep
  OBVIOUS
<1>1. OwnInv' /\ TypeOK /\ TypeInv
  BY OwnStep DEF OwnInv, TypeInv
<1>2. CASE UNCHANGED vars
  BY <1>1, <1>2, EntryStays
     DEF LedgerStep, Holds, vars, storageVars, connVars
<1>3. ASSUME NEW c \in Conns, Local(c) PROVE LedgerStep
  BY <1>1, <1>3, LocalMoves, EntryStays DEF LedgerStep, Holds, storageVars, leaseVars
<1>4. ASSUME NEW c \in Conns, Fetch(c) PROVE LedgerStep
  BY <1>1, <1>4, FetchMoves, FetchLeases
<1>5. ASSUME NEW c \in Conns, PieceProcessed(c) \/ LeaveWithPiece(c) PROVE LedgerStep
  <2>1. UNCHANGED <<savedPieces, remainPieces, leaseVars>>
    BY <1>5 DEF PieceProcessed, LeaveWithPiece, DecrementCounter
  <2> QED BY <1>1, <2>1, EntryStays DEF LedgerStep, Holds, leaseVars
<1>6. ASSUME NEW c \in Conns, Construct(c) \/ EnterMainLoop(c) \/ SavePieceFails(c)
      PROVE  LedgerStep
  <2>1. UNCHANGED <<savedPieces, remainPieces>>
    BY <1>6 DEF Construct, EnterMainLoop, SavePieceFails, SavePieceToDiskFails, storageVars
  <2>2. /\ \A q \in Pieces : ~Holds(c, q)'
        /\ \A d \in Conns \ {c}, q \in Pieces : Holds(d, q)' <=> Holds(d, q)
    BY <1>1, <1>6, NoPieceAssumption
       DEF Construct, EnterMainLoop, SavePieceFails, DropPiece, Holds, TypeOK, Pieces
  <2>3. \A q \in Wanted :
          /\ q \in Range(savedPieces') <=> q \in Range(savedPieces) \/ ("Lost" = "Saved" /\ Holds(c, q))
          /\ q \in Range(remainPieces') <=> q \in Range(remainPieces) \/ ("Lost" = "Queued" /\ Holds(c, q))
    BY <2>1
  <2> QED BY <1>1, <2>2, <2>3, LetsGo
<1>7. ASSUME NEW c \in Conns, SavePiece(c) PROVE LedgerStep
  <2> DEFINE p == pieceInProgress[c]
  <2>1. p \in Pieces /\ Holds(c, p)
    BY <1>1, <1>7, ReturnedIsHeld DEF SavePiece, At
  <2>2. savedPieces' = Append(savedPieces, p) /\ remainPieces' = remainPieces /\ DropPiece(c)
    BY <1>7 DEF SavePiece, SavePieceToDisk
  <2>3. Range(savedPieces') = Range(savedPieces) \cup {p}
    BY <1>1, <2>1, <2>2, AppendEnters DEF TypeOK, StorageTypeOK
  <2>4. /\ \A q \in Pieces : ~Holds(c, q)'
        /\ \A d \in Conns \ {c}, q \in Pieces : Holds(d, q)' <=> Holds(d, q)
    BY <1>1, <2>2, NoPieceAssumption DEF DropPiece, Holds, TypeOK, Pieces
  <2>5. \A q \in Wanted :
          /\ q \in Range(savedPieces') <=> q \in Range(savedPieces) \/ ("Saved" = "Saved" /\ Holds(c, q))
          /\ q \in Range(remainPieces') <=> q \in Range(remainPieces) \/ ("Saved" = "Queued" /\ Holds(c, q))
    BY <2>1, <2>2, <2>3 DEF Holds
  <2> QED BY <1>1, <2>4, <2>5, LetsGo
<1>8. ASSUME NEW c \in Conns, ReturnPiece(c) PROVE LedgerStep
  <2> DEFINE p == pieceInProgress[c]
  <2>1. p \in Pieces /\ Holds(c, p) /\ p \in downloadingPieces
    BY <1>1, <1>8, ReturnedIsHeld DEF ReturnPiece, At, OwnInv, ExclusiveLease
  <2>2. remainPieces' = Append(remainPieces, p) /\ savedPieces' = savedPieces
    BY <1>8, <2>1 DEF ReturnPiece, BackPieceToQueue
  <2>3. Range(remainPieces') = Range(remainPieces) \cup {p}
    BY <1>1, <2>1, <2>2, AppendEnters DEF TypeOK, StorageTypeOK
  <2>4. /\ \A q \in Pieces : ~Holds(c, q)'
        /\ \A d \in Conns \ {c}, q \in Pieces : Holds(d, q)' <=> Holds(d, q)
    BY <1>1, <1>8 DEF ReturnPiece, Holds, TypeOK
  <2>5. \A q \in Wanted :
          /\ q \in Range(savedPieces') <=> q \in Range(savedPieces) \/ ("Queued" = "Saved" /\ Holds(c, q))
          /\ q \in Range(remainPieces') <=> q \in Range(remainPieces) \/ ("Queued" = "Queued" /\ Holds(c, q))
    BY <2>1, <2>2, <2>3 DEF Holds
  <2> QED BY <1>1, <2>4, <2>5, LetsGo
<1> QED BY <1>2, <1>3, <1>4, <1>5, <1>6, <1>7, <1>8, NextCases

\* Whatever fails and whatever a peer sends, the connections implement the
\* ledger: only the holder of a piece saves it, gives it back or loses it, and
\* a saved piece is never handed out again.
THEOREM LedgerRefined ==
  ASSUME Conns \cap {"Queued", "Saved", "Lost"} = {}
  PROVE  Spec => LedgerSpec
<1> DEFINE ledger == [p \in Wanted |-> HolderOf(p)]
<1>1. Init => Ledger!Init
  <2> SUFFICES ASSUME Init PROVE Ledger!Init
    OBVIOUS
  <2>1. OwnInv /\ HolderIsOne
    BY InitOwnInv, OneHolder
  <2>2. Range(remainPieces) = Wanted
    BY WantedAreQueued DEF Init, StorageInit
  <2>3. \A p \in Wanted : HolderOf(p) = "Queued"
    BY <2>1, <2>2 DEF HolderIsOne
  <2> QED BY <2>3 DEF Ledger!Init, HolderOf
<1>2. OwnInv /\ [Next]_vars => [Ledger!Next]_ledger
  <2> SUFFICES ASSUME OwnInv, [Next]_vars, ledger' # ledger PROVE Ledger!Next
    OBVIOUS
  <2>1. LedgerStep
    BY NextIsLedgerStep
  <2>2. ASSUME \A q \in Wanted : HolderOf(q)' = HolderOf(q) PROVE FALSE
    BY <2>2
  <2>3. PICK c \in Conns, p \in Wanted :
          \/ Moves(p, "Queued", c) /\ \A q \in Wanted : HolderOf(q) # c
          \/ Moves(p, c, "Queued")
          \/ Moves(p, c, "Saved")
          \/ Moves(p, c, "Lost")
    BY <2>1, <2>2 DEF LedgerStep
  <2>4. \A from, to : Moves(p, from, to) => Ledger!Move(p, from, to)
    BY DEF Moves, Ledger!Move, HolderOf
  <2> QED BY <2>3, <2>4
          DEF Ledger!Next, Ledger!Lease, Ledger!GiveBack, Ledger!Save, Ledger!Lose, HolderOf
<1> QED BY <1>1, <1>2, OwnInvariant, PTL DEF Spec, LedgerSpec, Ledger!Spec, HolderOf

----------------------------------------------------------------------------
(* The counter stays within the leases.                                     *)

\* Threads that have decremented the counter for a piece still handed out,
\* and threads in MainLoop that have a piece they were counted for.  What a
\* connection keeps after an exception is counted, but it may forget it.
Returning == {c \in Conns : pc[c] \in {"Save", "Back"}}
Counted ==
  {c \in Conns : /\ pc[c] \in {"Loop", "Processed", "Ask", "Request", "Leave"}
                 /\ pieceInProgress[c] # NoPiece}

\* The decrement of a thread never finds the counter at 0.
CounterInv ==
  /\ OwnInv
  /\ piecesInProgressCount + Cardinality(Returning) <= Cardinality(downloadingPieces)
  /\ Cardinality(Counted) <= piecesInProgressCount

\* Every set counted here is finite, and no more is handed out than there is.
LEMMA AllCounted ==
  ASSUME IsFiniteSet(Conns), TypeOK
  PROVE  /\ IsFiniteSet(Returning) /\ Cardinality(Returning) \in Nat
         /\ IsFiniteSet(Counted) /\ Cardinality(Counted) \in Nat
         /\ IsFiniteSet(downloadingPieces) /\ Cardinality(downloadingPieces) \in Nat
         /\ \A p \in Pieces \ downloadingPieces : Cardinality(downloadingPieces) < SizeMax
         /\ piecesInProgressCount \in Nat
<1>1. IsFiniteSet(Pieces) /\ Cardinality(Pieces) = NumPieces
  BY FS_Interval, NumPiecesAssumption DEF Pieces
<1>2. IsFiniteSet(Returning) /\ IsFiniteSet(Counted)
  BY FS_Subset DEF Returning, Counted
<1>3. downloadingPieces \in SUBSET Pieces
  BY DEF TypeOK, StorageTypeOK
<1>4. /\ IsFiniteSet(downloadingPieces) /\ Cardinality(downloadingPieces) <= NumPieces
      /\ Cardinality(downloadingPieces) = NumPieces => downloadingPieces = Pieces
  BY <1>1, <1>3, FS_Subset
<1>5. /\ Cardinality(Returning) \in Nat /\ Cardinality(Counted) \in Nat
      /\ Cardinality(downloadingPieces) \in Nat
  BY <1>2, <1>4, FS_CardinalityType
<1>6. ASSUME NEW p \in Pieces \ downloadingPieces PROVE Cardinality(downloadingPieces) < SizeMax
  BY <1>4, <1>5, <1>6, SizeMaxAssumption, NumPiecesAssumption
<1> QED BY <1>2, <1>4, <1>5, <1>6, SizeMaxAssumption DEF TypeOK, StorageTypeOK

\* A step that changes neither the counter nor the map, and by which no thread
\* comes to be counted.
LEMMA CountsLess ==
  ASSUME IsFiniteSet(Conns), CounterInv, OwnInv',
         UNCHANGED <<piecesInProgressCount, downloadingPieces>>,
         Returning' \subseteq Returning, Counted' \subseteq Counted
  PROVE  CounterInv'
<1>1. TypeOK /\ TypeOK'
  BY DEF CounterInv, OwnInv, TypeInv
<1>2. /\ Cardinality(Returning') <= Cardinality(Returning)
      /\ Cardinality(Counted') <= Cardinality(Counted)
  BY <1>1, AllCounted, FS_Subset
<1>3. Cardinality(Returning') \in Nat /\ Cardinality(Counted') \in Nat
  <2>1. IsFiniteSet(Returning') /\ IsFiniteSet(Counted')
    BY <1>1, AllCounted, FS_Subset
  <2> QED BY <2>1, FS_CardinalityType
<1> QED BY <1>1, <1>2, <1>3, AllCounted DEF CounterInv

\* A thread decrements the counter on the way to the disk or to the queue.
LEMMA CountsDown ==
  ASSUME IsFiniteSet(Conns), CounterInv, OwnInv', NEW c \in Counted, DecrementCounter,
         Returning' = Returning \cup {c}, Counted' = Counted \ {c}
  PROVE  CounterInv'
<1>1. TypeOK /\ TypeOK'
  BY DEF CounterInv, OwnInv, TypeInv
<1>2. Cardinality(Returning') = Cardinality(Returning) + 1
  <2>1. c \notin Returning
    BY DEF Returning, Counted
  <2> QED BY <1>1, <2>1, AllCounted, FS_AddElement
<1>3. Cardinality(Counted') = Cardinality(Counted) - 1
  BY <1>1, AllCounted, FS_RemoveElement
<1>4. Cardinality(Counted) # 0
  BY <1>1, AllCounted, FS_EmptySet
<1>5. piecesInProgressCount' = piecesInProgressCount - 1
  BY <1>1, <1>4, AllCounted DEF CounterInv, DecrementCounter, Decrement
<1>6. downloadingPieces' = downloadingPieces
  BY DEF DecrementCounter
<1> QED BY <1>1, <1>2, <1>3, <1>5, <1>6, AllCounted DEF CounterInv

\* A thread hands its piece over to the saved pieces or to the queue.
LEMMA HandsOver ==
  ASSUME IsFiniteSet(Conns), CounterInv, OwnInv', NEW c \in Returning,
         NEW p \in downloadingPieces, downloadingPieces' = downloadingPieces \ {p},
         piecesInProgressCount' = piecesInProgressCount,
         Returning' = Returning \ {c}, Counted' = Counted
  PROVE  CounterInv'
<1>1. TypeOK /\ TypeOK'
  BY DEF CounterInv, OwnInv, TypeInv
<1>2. /\ Cardinality(Returning') = Cardinality(Returning) - 1
      /\ Cardinality(downloadingPieces') = Cardinality(downloadingPieces) - 1
  BY <1>1, AllCounted, FS_RemoveElement
<1> QED BY <1>1, <1>2, AllCounted DEF CounterInv

\* A thread takes a piece that nobody has.
LEMMA CountsUp ==
  ASSUME IsFiniteSet(Conns), CounterInv, OwnInv', NEW c \in Conns,
         NEW p \in Pieces \ downloadingPieces,
         GetNextPieceToDownload(p), Returning' = Returning,
         Counted' \subseteq Counted \cup {c}
  PROVE  CounterInv'
<1>1. TypeOK /\ TypeOK'
  BY DEF CounterInv, OwnInv, TypeInv
<1>2. downloadingPieces' = downloadingPieces \cup {p}
  BY DEF GetNextPieceToDownload
<1>3. Cardinality(downloadingPieces') = Cardinality(downloadingPieces) + 1
  BY <1>1, <1>2, AllCounted, FS_AddElement
<1>4. Cardinality(Counted') <= Cardinality(Counted) + 1 /\ Cardinality(Counted') \in Nat
  <2>1. /\ IsFiniteSet(Counted \cup {c})
        /\ Cardinality(Counted \cup {c}) = IF c \in Counted THEN Cardinality(Counted)
                                                           ELSE Cardinality(Counted) + 1
    BY <1>1, AllCounted, FS_AddElement
  <2>2. IsFiniteSet(Counted') /\ Cardinality(Counted') <= Cardinality(Counted \cup {c})
    BY <2>1, FS_Subset
  <2>3. Cardinality(Counted') \in Nat
    BY <2>2, FS_CardinalityType
  <2> QED BY <1>1, <2>1, <2>2, <2>3, AllCounted
<1>5. piecesInProgressCount' = piecesInProgressCount + 1
  <2>1. Cardinality(downloadingPieces) < SizeMax
    BY <1>1, AllCounted
  <2> QED BY <1>1, <2>1, AllCounted DEF CounterInv, GetNextPieceToDownload, Increment
<1> QED BY <1>1, <1>3, <1>4, <1>5, AllCounted DEF CounterInv

\* No step makes the counter run ahead of the map or wrap.
LEMMA CounterStep ==
  ASSUME IsFiniteSet(Conns)
  PROVE  CounterInv /\ [Next]_vars => CounterInv'
<1> SUFFICES ASSUME CounterInv, [Next]_vars PROVE CounterInv'
  OBVIOUS
<1>1. OwnInv /\ OwnInv' /\ TypeOK /\ TypeInv
  BY OwnStep DEF CounterInv, OwnInv, TypeInv
<1>2. CASE UNCHANGED vars
  BY <1>1, <1>2, CountsLess DEF vars, storageVars, connVars, Returning, Counted
<1>3. ASSUME NEW c \in Conns, Local(c) PROVE CounterInv'
  <2>1. UNCHANGED <<storageVars, leaseVars>>
    BY <1>1, <1>3, LocalMoves
  <2>2. Returning' \subseteq Returning /\ Counted' \subseteq Counted
    BY <1>1, <1>3, <2>1, LocalMoves DEF Returning, Counted, leaseVars
  <2> QED BY <1>1, <2>1, <2>2, CountsLess DEF storageVars
<1>4. ASSUME NEW c \in Conns, Fetch(c) PROVE CounterInv'
  <2>1. PICK p \in Pieces : AcquirePiece(c, p)
    BY <1>1, <1>4, FetchMoves
  <2>2. PICK l \in {"Processed", "Ask", "Loop", "Attempt"} : pc' = [pc EXCEPT ![c] = l]
    BY <1>1, <1>4, FetchMoves
  <2>3. pc[c] \in {"Loop", "Request"} /\ pieceInProgress' = [pieceInProgress EXCEPT ![c] = p]
    BY <1>1, <1>4, <2>1, FetchMoves, AcquireTypes
  <2>4. Returning' = Returning /\ Counted' \subseteq Counted \cup {c}
    BY <1>1, <2>2, <2>3 DEF Returning, Counted, TypeOK
  <2>5. CASE pieceInProgress[c] = p /\ UNCHANGED <<storageVars, leaseVars>>
    <3>1. Counted' \subseteq Counted
      BY <1>1, <2>2, <2>3, <2>5, NoPieceAssumption DEF Counted, TypeOK, Pieces
    <3> QED BY <1>1, <2>4, <2>5, <3>1, CountsLess DEF storageVars
  <2>6. CASE GetNextPieceToDownload(p)
    <3>1. p \in Range(remainPieces)
      BY <1>1, <2>6, HeadLeaves DEF GetNextPieceToDownload, QueueIsEmpty, TypeOK, StorageTypeOK
    <3>2. p \notin downloadingPieces
      BY <1>1, <3>1 DEF OwnInv, EveryPieceInOnePlace
    <3> QED BY <1>1, <2>4, <2>6, <3>2, CountsUp
  <2> QED BY <2>1, <2>5, <2>6 DEF AcquirePiece
<1>5. ASSUME NEW c \in Conns, Construct(c) \/ EnterMainLoop(c) \/ SavePieceFails(c)
      PROVE  CounterInv'
  <2>1. UNCHANGED <<piecesInProgressCount, downloadingPieces>>
    BY <1>5 DEF Construct, EnterMainLoop, SavePieceFails, SavePieceToDiskFails, storageVars
  <2>2. /\ pieceInProgress' = [pieceInProgress EXCEPT ![c] = NoPiece]
        /\ \E l \in {"Queued", "Loop", "Ask"} : pc' = [pc EXCEPT ![c] = l]
    BY <1>5 DEF Construct, EnterMainLoop, SavePieceFails, DropPiece, Goto
  <2>3. Returning' \subseteq Returning /\ Counted' \subseteq Counted
    BY <1>1, <2>2 DEF Returning, Counted, TypeOK
  <2> QED BY <1>1, <2>1, <2>3, CountsLess
<1>6. ASSUME NEW c \in Conns, PieceProcessed(c) \/ LeaveWithPiece(c) PROVE CounterInv'
  <2>1. /\ DecrementCounter /\ pieceInProgress' = pieceInProgress
        /\ pc[c] \in {"Processed", "Leave"} /\ pieceInProgress[c] # NoPiece
        /\ \E l \in {"Save", "Back"} : pc' = [pc EXCEPT ![c] = l]
    BY <1>1, <1>6 DEF PieceProcessed, LeaveWithPiece, At, Goto, leaseVars, TypeInv, LeaseByPc
  <2>2. Returning' = Returning \cup {c} /\ Counted' = Counted \ {c} /\ c \in Counted
    BY <1>1, <2>1 DEF Returning, Counted, TypeOK
  <2> QED BY <1>1, <2>1, <2>2, CountsDown
<1>7. ASSUME NEW c \in Conns, SavePiece(c) \/ ReturnPiece(c) PROVE CounterInv'
  <2> DEFINE p == pieceInProgress[c]
  <2>1. pc[c] \in {"Save", "Back"} /\ p \in downloadingPieces
    BY <1>1, <1>7, ReturnedIsHeld DEF SavePiece, ReturnPiece, At, OwnInv, ExclusiveLease
  <2>2. downloadingPieces' = downloadingPieces \ {p} /\ piecesInProgressCount' = piecesInProgressCount
    BY <1>7, <2>1 DEF SavePiece, ReturnPiece, SavePieceToDisk, BackPieceToQueue
  <2>3. \/ pc' = [pc EXCEPT ![c] = "Ask"] /\ pieceInProgress' = [pieceInProgress EXCEPT ![c] = NoPiece]
        \/ pc' = [pc EXCEPT ![c] = "Run"] /\ pieceInProgress' = pieceInProgress
    BY <1>7 DEF SavePiece, ReturnPiece, DropPiece, Goto
  <2>4. Returning' = Returning \ {c} /\ Counted' = Counted /\ c \in Returning
    BY <1>1, <2>1, <2>3 DEF Returning, Counted, TypeOK
  <2> QED BY <1>1, <2>1, <2>2, <2>4, HandsOver
<1> QED BY <1>2, <1>3, <1>4, <1>5, <1>6, <1>7, NextCases

\* However many connections there are, whatever fails and whatever peers send,
\* the counter main polls never exceeds the number of pieces handed out; no
\* decrement, before the mutex as they are, makes it wrap.
THEOREM CounterStaysWithin ==
  ASSUME IsFiniteSet(Conns)
  PROVE  Spec => []CounterWithinLeases
<1>1. Init => CounterInv
  <2> SUFFICES ASSUME Init PROVE CounterInv
    OBVIOUS
  <2>1. OwnInv /\ Returning = {} /\ Counted = {} /\ downloadingPieces = {} /\ piecesInProgressCount = 0
    BY InitOwnInv DEF Init, StorageInit, Returning, Counted
  <2> QED BY <2>1, FS_EmptySet DEF CounterInv
<1>2. CounterInv => CounterWithinLeases
  BY DEF CounterInv, CounterWithinLeases, Returning
<1> QED BY <1>1, <1>2, CounterStep, PTL DEF Spec
=============================================================================
