---------------------------- MODULE PeerConnect ----------------------------
(***************************************************************************)
(* The class PeerConnect (peer_connect.h, peer_connect.cpp) together with  *)
(* the task main.cpp submits for each connection, and the PieceStorage all *)
(* connections share.  Every connection runs in a worker thread of its     *)
(* own; a step of the model holds at most one access to the storage (one   *)
(* critical section, or one access of the counter), so TLC interleaves the *)
(* threads wherever the machine may.  A step that handles a message also   *)
(* reads terminated_, in the loop condition before it: main only writes    *)
(* that flag and reads nothing of the connection, so a write between the   *)
(* two is the same as one after both.                                      *)
(*                                                                         *)
(* The rest of the program appears as two steps, Construct (main builds a  *)
(* PeerConnect and submits its task) and Terminate (main ends it).  The    *)
(* remote peer is the choice of the next message.                          *)
(***************************************************************************)
EXTENDS PieceStorage

CONSTANTS
  Conns,     \* the peer connections of one round
  Faults,    \* what may go wrong, a subset of AllFaults
  MaxBlock   \* bound on the block number of a block nobody asked for

AllFaults == {
  "SendFails",    \* send() reports an error
  "BadHave",      \* Have above Size(): no bitfield came, or a wrong index
  "BadMessage",   \* Piece message shorter than its header
  "Unsolicited",  \* Piece message that answers no outstanding request
  "WriteFails",   \* lseek() or write() reports an error
  "ShortWrite",   \* write() writes less than it was given
  "OpenFails"     \* reopening the output file fails
}

ASSUME FaultsAssumption   == Faults \subseteq AllFaults
ASSUME MaxBlockAssumption == MaxBlock \in Nat

VARIABLES
  pc,                     \* where the connection's thread is
  attempts,               \* local variable of the submitted task (0: no task runs)
  terminated,             \* atomic<bool>, set by main and by the thread
  failed,
  choked,
  pendingBlock,
  pieceInProgress,
  isPieceDownloadingNow,
  requests                \* requests the peer has not answered yet

flagVars  == <<failed, choked, pendingBlock>>
leaseVars == <<pieceInProgress, isPieceDownloadingNow>>
connVars  == <<pc, attempts, terminated, failed, choked, pendingBlock,
               pieceInProgress, isPieceDownloadingNow, requests>>
vars == <<storageVars, blocks, connVars>>

Labels == {
  "Idle",       \* no task of this connection: not built, or over
  "Queued",     \* submitted, no worker has taken it
  "Run",        \* while (!terminated_) of Run
  "Refused",    \* EstablishConnection returned false
  "Connected",  \* EstablishConnection returned true
  "Loop",       \* while (!terminated_) of MainLoop, waiting for a message
  "Processed",  \* in PieceProcessed, before its first statement
  "Save",       \* in PieceProcessed, before the mutex
  "Ask",        \* the condition after the switch
  "Request",    \* in RequestPiece
  "Leave",      \* after MainLoop's loop
  "Back",       \* before BackPieceToQueue
  "Attempt",    \* the task's while (tryAgain)
  "Crashed"     \* the process is dead
}

Requests == [piece : Pieces, block : Nat]

\* Every variable keeps the type of the field it models.
TypeOK ==
  /\ StorageTypeOK
  /\ pc \in [Conns -> Labels]
  /\ attempts \in [Conns -> 0 .. 3]
  /\ terminated \in [Conns -> BOOLEAN]
  /\ failed \in [Conns -> BOOLEAN]
  /\ choked \in [Conns -> BOOLEAN]
  /\ pendingBlock \in [Conns -> BOOLEAN]
  /\ pieceInProgress \in [Conns -> Pieces \cup {NoPiece}]
  /\ isPieceDownloadingNow \in [Conns -> BOOLEAN]
  /\ requests \in [Conns -> SUBSET Requests]

Init ==
  /\ StorageInit
  /\ pc = [c \in Conns |-> "Idle"]
  /\ attempts = [c \in Conns |-> 0]
  /\ terminated = [c \in Conns |-> FALSE]
  /\ failed = [c \in Conns |-> FALSE]
  /\ choked = [c \in Conns |-> TRUE]
  /\ pendingBlock = [c \in Conns |-> FALSE]
  /\ pieceInProgress = [c \in Conns |-> NoPiece]
  /\ isPieceDownloadingNow = [c \in Conns |-> FALSE]
  /\ requests = [c \in Conns |-> {}]

At(c, label)   == pc[c] = label
Goto(c, label) == pc' = [pc EXCEPT ![c] = label]

\* An exception leaves MainLoop and Run; the submitted task catches it.
Throw(c) == Goto(c, "Attempt")

----------------------------------------------------------------------------
(* The task and Run.                                                        *)

\* main builds a new PeerConnect in place of one whose task is over, or was
\* dropped with a pool that had no worker for it, and submits its task: the
\* constructor's values.
Construct(c) ==
  /\ At(c, "Idle") \/ At(c, "Queued")
  /\ Goto(c, "Queued")
  /\ terminated' = [terminated EXCEPT ![c] = FALSE]
  /\ failed' = [failed EXCEPT ![c] = FALSE]
  /\ choked' = [choked EXCEPT ![c] = TRUE]
  /\ pendingBlock' = [pendingBlock EXCEPT ![c] = FALSE]
  /\ pieceInProgress' = [pieceInProgress EXCEPT ![c] = NoPiece]
  /\ isPieceDownloadingNow' = [isPieceDownloadingNow EXCEPT ![c] = FALSE]
  /\ requests' = [requests EXCEPT ![c] = {}]
  /\ UNCHANGED <<storageVars, blocks, attempts>>

\* A worker takes the task.
Start(c) ==
  /\ At(c, "Queued")
  /\ attempts' = [attempts EXCEPT ![c] = 1]
  /\ Goto(c, "Run")
  /\ UNCHANGED <<storageVars, blocks, terminated, flagVars, leaseVars, requests>>

\* Terminate called by main, at any time.
Terminate(c) ==
  /\ ~At(c, "Crashed")
  /\ terminated' = [terminated EXCEPT ![c] = TRUE]
  /\ UNCHANGED <<storageVars, blocks, pc, attempts, flagVars, leaseVars, requests>>

RunReturns(c) ==
  /\ At(c, "Run")
  /\ terminated[c]
  /\ Goto(c, "Attempt")
  /\ UNCHANGED <<storageVars, blocks, attempts, terminated, flagVars, leaseVars, requests>>

\* ReceiveBitfield may have run before the error.
EstablishConnectionFails(c) ==
  /\ At(c, "Run")
  /\ ~terminated[c]
  /\ \E unchoke \in BOOLEAN : choked' = [choked EXCEPT ![c] = @ /\ ~unchoke]
  /\ Goto(c, "Refused")
  /\ UNCHANGED <<storageVars, blocks, attempts, terminated, failed, pendingBlock,
                 leaseVars, requests>>

\* Run calls Terminate itself.
TerminateRefused(c) ==
  /\ At(c, "Refused")
  /\ terminated' = [terminated EXCEPT ![c] = TRUE]
  /\ Goto(c, "Run")
  /\ UNCHANGED <<storageVars, blocks, attempts, flagVars, leaseVars, requests>>

\* Handshake, one message read by ReceiveBitfield, Interested sent.  Any
\* other first message is dropped.  The TCP connection is a new one.
EstablishConnection(c) ==
  /\ At(c, "Run")
  /\ ~terminated[c]
  /\ \E first \in {"Unchoke", "BitField", "Other"} :
       choked' = [choked EXCEPT ![c] = @ /\ first # "Unchoke"]
  /\ requests' = [requests EXCEPT ![c] = {}]
  /\ Goto(c, "Connected")
  /\ UNCHANGED <<storageVars, blocks, attempts, terminated, failed, pendingBlock,
                 leaseVars>>

\* clearFlags; isPieceDownloadingNow_ is not among the flags it clears.
EnterMainLoop(c) ==
  /\ At(c, "Connected")
  /\ failed' = [failed EXCEPT ![c] = FALSE]
  /\ pendingBlock' = [pendingBlock EXCEPT ![c] = FALSE]
  /\ pieceInProgress' = [pieceInProgress EXCEPT ![c] = NoPiece]
  /\ choked' = [choked EXCEPT ![c] = TRUE]
  /\ Goto(c, "Loop")
  /\ UNCHANGED <<storageVars, blocks, attempts, terminated,
                 isPieceDownloadingNow, requests>>

----------------------------------------------------------------------------
(* MainLoop.                                                                *)

MutFinishPieceFirst(c) ==
  /\ At(c, "Loop")
  /\ terminated[c] /\ ~isPieceDownloadingNow[c]
  /\ Goto(c, "Leave")
  /\ UNCHANGED <<storageVars, blocks, attempts, terminated, flagVars, leaseVars, requests>>
LoopStops(c) ==
  /\ At(c, "Loop")
  /\ terminated[c]
  /\ Goto(c, "Leave")
  /\ UNCHANGED <<storageVars, blocks, attempts, terminated, flagVars, leaseVars, requests>>

\* ReceiveData throws: nothing for readTimeout_, or the socket failed.
ReceiveFails(c) ==
  /\ At(c, "Loop")
  /\ ~terminated[c]
  /\ Goto(c, "Leave")
  /\ UNCHANGED <<storageVars, blocks, attempts, terminated, flagVars, leaseVars, requests>>

\* ReceiveData returned a message.
Receives(c) ==
  /\ At(c, "Loop")
  /\ ~terminated[c]
  /\ UNCHANGED <<attempts, terminated>>

\* The empty message.
HandleKeepAlive(c) ==
  /\ Receives(c)
  /\ failed' = [failed EXCEPT ![c] = TRUE]
  /\ Goto(c, "Leave")
  /\ UNCHANGED <<storageVars, blocks, choked, pendingBlock, leaseVars, requests>>

\* A choking peer may drop the requests it has.
HandleChoke(c) ==
  /\ Receives(c)
  /\ choked' = [choked EXCEPT ![c] = TRUE]
  /\ failed' = [failed EXCEPT ![c] = TRUE]
  /\ \E left \in {requests[c], {}} : requests' = [requests EXCEPT ![c] = left]
  /\ Goto(c, "Ask")
  /\ UNCHANGED <<storageVars, blocks, pendingBlock, leaseVars>>

MutUnchokeClearsPending(c) ==
  /\ Receives(c)
  /\ choked' = [choked EXCEPT ![c] = FALSE]
  /\ pendingBlock' = [pendingBlock EXCEPT ![c] = FALSE]
  /\ Goto(c, "Ask")
  /\ UNCHANGED <<storageVars, blocks, failed, leaseVars, requests>>
HandleUnchoke(c) ==
  /\ Receives(c)
  /\ choked' = [choked EXCEPT ![c] = FALSE]
  /\ Goto(c, "Ask")
  /\ UNCHANGED <<storageVars, blocks, failed, pendingBlock, leaseVars, requests>>

\* SetPieceAvailability marks a piece nobody will look up ...
HandleHave(c) ==
  /\ Receives(c)
  /\ Goto(c, "Ask")
  /\ UNCHANGED <<storageVars, blocks, flagVars, leaseVars, requests>>

\* ... or throws, on an index above Size(), which is 0 without a bitfield.
HandleBadHave(c) ==
  /\ Receives(c)
  /\ "BadHave" \in Faults
  /\ Throw(c)
  /\ UNCHANGED <<storageVars, blocks, flagVars, leaseVars, requests>>

\* The default of the switch.
HandleOther(c) ==
  /\ Receives(c)
  /\ Goto(c, "Ask")
  /\ UNCHANGED <<storageVars, blocks, flagVars, leaseVars, requests>>

\* message.substr throws before anything is changed.
HandleShortPiece(c) ==
  /\ Receives(c)
  /\ "BadMessage" \in Faults
  /\ Throw(c)
  /\ UNCHANGED <<storageVars, blocks, flagVars, leaseVars, requests>>

\* The piece in progress is p, taken from the queue if there was none.
MutTakeWithoutFlag(c, p) ==
  \/ /\ pieceInProgress[c] = p
     /\ UNCHANGED <<storageVars, leaseVars>>
  \/ /\ pieceInProgress[c] = NoPiece
     /\ GetNextPieceToDownload(p)
     /\ pieceInProgress' = [pieceInProgress EXCEPT ![c] = p]
     /\ UNCHANGED isPieceDownloadingNow
AcquirePiece(c, p) ==
  \/ /\ pieceInProgress[c] = p
     /\ UNCHANGED <<storageVars, leaseVars>>
  \/ /\ pieceInProgress[c] = NoPiece
     /\ GetNextPieceToDownload(p)
     /\ pieceInProgress' = [pieceInProgress EXCEPT ![c] = p]
     /\ isPieceDownloadingNow' = [isPieceDownloadingNow EXCEPT ![c] = TRUE]

CannotAcquirePiece(c) == pieceInProgress[c] = NoPiece /\ QueueIsEmpty

\* The Piece messages that may come: each carries a block of a piece.
PieceMessages(c) ==
  requests[c] \cup
  [piece : IF "Unsolicited" \in Faults THEN Pieces ELSE {}, block : 0 .. MaxBlock]

\* A Piece message: its block number is used, its piece number is not.
HandlePiece(c) ==
  /\ Receives(c)
  /\ \E p \in Pieces : \E m \in PieceMessages(c) :
       /\ AcquirePiece(c, p)
       /\ m.block \in BlockIds(p)
       /\ blocks' = [blocks EXCEPT ![p] = SaveBlock(@, m.block, m.piece)]
       /\ requests' = [requests EXCEPT ![c] = @ \ {m}]
       /\ pendingBlock' = [pendingBlock EXCEPT ![c] = FALSE]
       /\ IF AllBlocksRetrieved(blocks'[p]) THEN Goto(c, "Processed") ELSE Goto(c, "Ask")
       /\ UNCHANGED <<failed, choked>>

\* SaveBlock throws on a block number out of range, after the piece was taken.
HandlePieceOutOfRange(c) ==
  /\ Receives(c)
  /\ \E p \in Pieces : \E m \in PieceMessages(c) :
       /\ AcquirePiece(c, p)
       /\ m.block \notin BlockIds(p)
       /\ Throw(c)
       /\ requests' = [requests EXCEPT ![c] = @ \ {m}]
       /\ UNCHANGED <<blocks, flagVars>>

HandlePieceQueueEmpty(c) ==
  /\ Receives(c)
  /\ \E m \in PieceMessages(c) :
       /\ CannotAcquirePiece(c)
       /\ Throw(c)
       /\ requests' = [requests EXCEPT ![c] = @ \ {m}]
       /\ UNCHANGED <<storageVars, blocks, flagVars, leaseVars>>

----------------------------------------------------------------------------
(* PieceProcessed, called with the piece in progress.                       *)

PieceProcessed(c) ==
  /\ At(c, "Processed")
  /\ DecrementCounter
  /\ Goto(c, "Save")
  /\ UNCHANGED <<blocks, attempts, terminated, flagVars, leaseVars, requests>>

DropPiece(c) ==
  /\ pieceInProgress' = [pieceInProgress EXCEPT ![c] = NoPiece]
  /\ isPieceDownloadingNow' = [isPieceDownloadingNow EXCEPT ![c] = FALSE]

SavePiece(c) ==
  /\ At(c, "Save")
  /\ \E complete \in IF "ShortWrite" \in Faults THEN BOOLEAN ELSE {TRUE} :
       SavePieceToDisk(pieceInProgress[c], complete)
  /\ DropPiece(c)
  /\ Goto(c, "Ask")
  /\ UNCHANGED <<blocks, attempts, terminated, flagVars, requests>>

SavePieceFails(c) ==
  /\ At(c, "Save")
  /\ "WriteFails" \in Faults
  /\ SavePieceToDiskFails
  /\ DropPiece(c)
  /\ Goto(c, "Ask")
  /\ UNCHANGED <<blocks, attempts, terminated, flagVars, requests>>

\* OpenFile throws out of PieceProcessed.
SavePieceCannotOpen(c) ==
  /\ At(c, "Save")
  /\ "OpenFails" \in Faults
  /\ ~fdOpen
  /\ Throw(c)
  /\ UNCHANGED <<storageVars, blocks, attempts, terminated, flagVars, leaseVars, requests>>

----------------------------------------------------------------------------
(* Asking for the next block.                                               *)

MutAskOnlyIfQueued(c) ==
  /\ At(c, "Ask")
  /\ IF ~choked[c] /\ ~pendingBlock[c] /\ ~QueueIsEmpty
       THEN Goto(c, "Request")
       ELSE Goto(c, "Loop")
  /\ UNCHANGED <<storageVars, blocks, attempts, terminated, flagVars, leaseVars, requests>>
Ask(c) ==
  /\ At(c, "Ask")
  /\ IF ~choked[c] /\ ~pendingBlock[c] /\ (~QueueIsEmpty \/ isPieceDownloadingNow[c])
       THEN Goto(c, "Request")
       ELSE Goto(c, "Loop")
  /\ UNCHANGED <<storageVars, blocks, attempts, terminated, flagVars, leaseVars, requests>>

\* The queue was emptied by another thread since Ask looked at it.
RequestQueueEmpty(c) ==
  /\ At(c, "Request")
  /\ CannotAcquirePiece(c)
  /\ Throw(c)
  /\ UNCHANGED <<storageVars, blocks, attempts, terminated, flagVars, leaseVars, requests>>

RequestBlock(c) ==
  /\ At(c, "Request")
  /\ \E p \in Pieces : \E b \in BlockIds(p) :
       /\ AcquirePiece(c, p)
       /\ IsFirstMissingBlock(blocks[p], b)
       /\ blocks' = [blocks EXCEPT ![p] = MarkPending(@, b)]
       /\ requests' = [requests EXCEPT ![c] = @ \cup {[piece |-> p, block |-> b]}]
       /\ pendingBlock' = [pendingBlock EXCEPT ![c] = TRUE]
       /\ Goto(c, "Loop")
       /\ UNCHANGED <<attempts, terminated, failed, choked>>

\* SendData throws: the block stays marked, the piece stays taken.
RequestSendFails(c) ==
  /\ At(c, "Request")
  /\ "SendFails" \in Faults
  /\ \E p \in Pieces : \E b \in BlockIds(p) :
       /\ AcquirePiece(c, p)
       /\ IsFirstMissingBlock(blocks[p], b)
       /\ blocks' = [blocks EXCEPT ![p] = MarkPending(@, b)]
       /\ Throw(c)
       /\ UNCHANGED <<attempts, terminated, flagVars, requests>>

\* FirstMissingBlock returned nullptr: nothing is asked.
RequestNothingMissing(c) ==
  /\ At(c, "Request")
  /\ \E p \in Pieces :
       /\ AcquirePiece(c, p)
       /\ ~HasMissingBlock(blocks[p])
       /\ Goto(c, "Loop")
       /\ UNCHANGED <<blocks, attempts, terminated, flagVars, requests>>

----------------------------------------------------------------------------
(* After the loop.                                                          *)

LeaveWithoutPiece(c) ==
  /\ At(c, "Leave")
  /\ ~isPieceDownloadingNow[c]
  /\ Goto(c, "Run")
  /\ UNCHANGED <<storageVars, blocks, attempts, terminated, flagVars, leaseVars, requests>>

\* Reset and DecrementPieceInProgressCounter.
MutLeaveWithoutReset(c) ==
  /\ At(c, "Leave")
  /\ isPieceDownloadingNow[c]
  /\ pieceInProgress[c] # NoPiece
  /\ DecrementCounter
  /\ Goto(c, "Back")
  /\ UNCHANGED <<blocks, attempts, terminated, flagVars, leaseVars, requests>>
MutLeaveWithoutDecrement(c) ==
  /\ At(c, "Leave")
  /\ isPieceDownloadingNow[c]
  /\ pieceInProgress[c] # NoPiece
  /\ blocks' = [blocks EXCEPT ![pieceInProgress[c]] = Reset(@)]
  /\ Goto(c, "Back")
  /\ UNCHANGED <<storageVars, attempts, terminated, flagVars, leaseVars, requests>>
LeaveWithPiece(c) ==
  /\ At(c, "Leave")
  /\ isPieceDownloadingNow[c]
  /\ pieceInProgress[c] # NoPiece
  /\ blocks' = [blocks EXCEPT ![pieceInProgress[c]] = Reset(@)]
  /\ DecrementCounter
  /\ Goto(c, "Back")
  /\ UNCHANGED <<attempts, terminated, flagVars, leaseVars, requests>>

\* pieceInProgress_->GetIndex() through a null pointer: the process dies.
LeaveCrashes(c) ==
  /\ At(c, "Leave")
  /\ isPieceDownloadingNow[c]
  /\ pieceInProgress[c] = NoPiece
  /\ pc' = [d \in Conns |-> "Crashed"]
  /\ UNCHANGED <<storageVars, blocks, attempts, terminated, flagVars, leaseVars, requests>>

MutKeepFlagAfterReturn(c) ==
  /\ At(c, "Back")
  /\ BackPieceToQueue(pieceInProgress[c])
  /\ Goto(c, "Run")
  /\ UNCHANGED <<blocks, attempts, terminated, flagVars, leaseVars, requests>>
ReturnPiece(c) ==
  /\ At(c, "Back")
  /\ BackPieceToQueue(pieceInProgress[c])
  /\ isPieceDownloadingNow' = [isPieceDownloadingNow EXCEPT ![c] = FALSE]
  /\ Goto(c, "Run")
  /\ UNCHANGED <<blocks, attempts, terminated, flagVars, pieceInProgress, requests>>

MutRetryForever(c) == failed[c]
TryAgain(c) == failed[c] /\ attempts[c] < 3

RunAgain(c) ==
  /\ At(c, "Attempt")
  /\ TryAgain(c)
  /\ attempts' = [attempts EXCEPT ![c] = @ + 1]
  /\ Goto(c, "Run")
  /\ UNCHANGED <<storageVars, blocks, terminated, flagVars, leaseVars, requests>>

TaskEnds(c) ==
  /\ At(c, "Attempt")
  /\ ~TryAgain(c)
  /\ attempts' = [attempts EXCEPT ![c] = 0]
  /\ Goto(c, "Idle")
  /\ UNCHANGED <<storageVars, blocks, terminated, flagVars, leaseVars, requests>>

----------------------------------------------------------------------------
\* Steps of the connection's own thread, once a worker runs its task.
HandleMessage(c) ==
  \/ HandleKeepAlive(c) \/ HandleChoke(c) \/ HandleUnchoke(c) \/ HandleHave(c)
  \/ HandleBadHave(c) \/ HandleOther(c) \/ HandleShortPiece(c) \/ HandlePiece(c)
  \/ HandlePieceOutOfRange(c) \/ HandlePieceQueueEmpty(c)

StorePiece(c) ==
  \/ PieceProcessed(c) \/ SavePiece(c) \/ SavePieceFails(c) \/ SavePieceCannotOpen(c)

RequestPiece(c) ==
  \/ RequestQueueEmpty(c) \/ RequestBlock(c) \/ RequestSendFails(c)
  \/ RequestNothingMissing(c)

MainLoop(c) ==
  \/ EnterMainLoop(c) \/ LoopStops(c) \/ ReceiveFails(c)
  \/ HandleMessage(c) \/ StorePiece(c) \/ Ask(c) \/ RequestPiece(c)
  \/ LeaveWithoutPiece(c) \/ LeaveWithPiece(c) \/ LeaveCrashes(c) \/ ReturnPiece(c)

Run(c) ==
  \/ RunReturns(c) \/ EstablishConnectionFails(c) \/ TerminateRefused(c)
  \/ EstablishConnection(c) \/ MainLoop(c)

Worker(c) == Start(c) \/ Run(c) \/ RunAgain(c) \/ TaskEnds(c)

Next == \E c \in Conns : Construct(c) \/ Terminate(c) \/ Worker(c)

Spec == Init /\ [][Next]_vars

----------------------------------------------------------------------------
(* Properties.                                                              *)

\* Connection c is responsible for piece p.
Holds(c, p) == isPieceDownloadingNow[c] /\ pieceInProgress[c] = p

\* Whatever fails, a wanted piece is queued, handed out or saved: it is in
\* exactly one of the three containers, and in that one once.
EveryPieceInOnePlace ==
  /\ IsInjective(remainPieces)
  /\ IsInjective(savedPieces)
  /\ Range(remainPieces) \cap downloadingPieces = {}
  /\ Range(remainPieces) \cap Range(savedPieces) = {}
  /\ downloadingPieces \cap Range(savedPieces) = {}
  /\ Range(remainPieces) \cup downloadingPieces \cup Range(savedPieces) = Wanted

\* No two connections download the same piece, and what a connection
\* downloads is in the storage's map: PieceProcessed and BackPieceToQueue,
\* which check nothing, are never called for a piece of someone else.
ExclusiveLease ==
  \A c \in Conns, p \in Pieces :
    Holds(c, p) => /\ p \in downloadingPieces
                   /\ \A d \in Conns : Holds(d, p) => c = d

\* A piece given back has no block left marked as requested or retrieved:
\* FirstMissingBlock would never ask the next connection for it.
QueuedPiecesAreFresh ==
  \A p \in Range(remainPieces) : blocks[p] = NewBlocks(p)

\* The counter main polls never counts more than what is handed out, the
\* decrement running ahead of the map in PieceProcessed and after MainLoop;
\* so it never goes below zero, where size_t would wrap.
CounterWithinLeases ==
  piecesInProgressCount + Cardinality({c \in Conns : pc[c] \in {"Save", "Back"}})
    <= Cardinality(downloadingPieces)

\* With no I/O error and only solicited blocks, the counter is exactly the
\* number of pieces held and not yet on their way to the disk or the queue.
CounterIsExact ==
  piecesInProgressCount =
    Cardinality({c \in Conns : isPieceDownloadingNow[c] /\ pc[c] \notin {"Save", "Back"}})

\* While the loop runs, an unanswered request is for a block of the piece in
\* progress, still marked, and the connection knows it waits: HandlePiece,
\* which never looks at the piece number, stores the answer where it belongs.
AnswersFitThePiece ==
  \A c \in Conns : pc[c] \in {"Loop", "Ask", "Request"} =>
    \A r \in requests[c] :
      /\ pendingBlock[c]
      /\ Holds(c, r.piece)
      /\ blocks[r.piece][r.block].status = "Pending"

\* Every piece reported as saved has its own bytes at its own offset.
SavedIsRight ==
  \A p \in Range(savedPieces) : disk[p] = "Right"

\* Until the peer chokes it (failed_ remembers that), a connection that waits
\* for a message while it holds a piece has a request for a block of that piece
\* out with the peer.  After a Choke it may wait for an answer to a request the
\* peer has dropped: pendingBlock_ stays set, and the code asks for nothing.
HolderHasARequestOut ==
  \A c \in Conns, p \in Pieces :
    At(c, "Loop") /\ Holds(c, p) /\ ~failed[c] =>
      \E r \in requests[c] : r.piece = p

\* In the first attempt of a task a raised isPieceDownloadingNow_ comes with a
\* piece after the loop, whatever failed and however often Run connected: only a
\* retry can dereference the null pointer that clearFlags left with the flag up.
FirstAttemptHasAPiece ==
  \A c \in Conns :
    At(c, "Leave") /\ isPieceDownloadingNow[c] /\ attempts[c] = 1 =>
      pieceInProgress[c] # NoPiece

\* An Unchoke that came in place of the bitfield counts: MainLoop starts with
\* the choked_ that ReceiveBitfield left.
UnchokeIsKept ==
  [][\A c \in Conns :
       At(c, "Connected") /\ pc'[c] = "Loop" => choked'[c] = choked[c]]_vars

\* If an error ended the download of a piece, the piece went back to the
\* queue: no connection takes one along when its task ends.
PieceIsGivenBack ==
  \A c \in Conns : At(c, "Idle") => \A p \in Pieces : ~Holds(c, p)

\* What the storage promises to its callers, as a lease on each wanted piece.
Ledger == INSTANCE PieceLedger WITH
  WantedPieces <- Wanted,
  holder <- [p \in Wanted |->
               IF p \in Range(savedPieces) THEN "Saved"
               ELSE IF p \in Range(remainPieces) THEN "Queued"
               ELSE IF \E c \in Conns : Holds(c, p)
                      THEN CHOOSE c \in Conns : Holds(c, p)
                      ELSE "Lost"]

\* The connections' steps are steps of the ledger: only the holder of a piece
\* saves it or gives it back, and a saved piece is never handed out again.
LedgerSpec == Ledger!Spec
=============================================================================
