-------------------------- MODULE DownloadProofs --------------------------
(* What the main thread may rely on when a round is over, for any number   *)
(* of pieces, connections, workers and rounds.                             *)
EXTENDS Download, CleanProofs

\* A step of the program is a step of the connections or leaves them alone.
LEMMA DownloadTakesSteps == [DownloadNext]_allVars => [Next]_vars
BY DEF DownloadNext, MainStep, UpdatePeers, UpdatePeersFails, Submit, StartPolling,
       Poll, Count, TerminatePeer, CallJoin, Join, WorkerStep, Next, allVars

\* What holds of the connections whoever runs them holds of the program.
LEMMA DownloadOwns == DownloadSpec => []OwnInv
<1>1. DownloadInit => OwnInv
  BY InitOwnInv DEF DownloadInit
<1>2. OwnInv /\ [DownloadNext]_allVars => OwnInv'
  BY OwnStep, DownloadTakesSteps
<1> QED BY <1>1, <1>2, PTL DEF DownloadSpec

----------------------------------------------------------------------------
(* The main thread.                                                         *)

\* The fourth failure is the last: main throws.
MainInv == MainTypeOK /\ (main # "Aborted" => updates <= 3)

\* The main thread gives the tracker up after four failures in a row, and
\* the loops over peerConnections deal with connections of the round only.
THEOREM MainTypeCorrect == DownloadSpec => []MainTypeOK
<1>1. DownloadInit => MainInv
  <2> SUFFICES ASSUME DownloadInit PROVE MainInv
    OBVIOUS
  <2>1. main \in MainLabels /\ updates \in 0 .. 4 /\ updates <= 3
    BY DEF DownloadInit, MainLabels
  <2>2. peers \in SUBSET Conns /\ visited \in SUBSET peers /\ again \in BOOLEAN
    BY DEF DownloadInit
  <2> QED BY <2>1, <2>2 DEF MainInv, MainTypeOK
<1>2. MainInv /\ [DownloadNext]_allVars => MainInv'
  <2> SUFFICES ASSUME MainInv, [DownloadNext]_allVars PROVE MainInv'
    OBVIOUS
  <2> USE DEF MainInv, MainTypeOK, MainLabels, MainAt
  <2>1. CASE UpdatePeers \/ UpdatePeersFails
    BY <2>1 DEF UpdatePeers, UpdatePeersFails, AppendPeers
  <2>2. CASE StartPolling \/ Poll \/ Count \/ CallJoin \/ Join
    BY <2>2 DEF StartPolling, Poll, Count, CallJoin, Join
  <2>3. ASSUME NEW c \in Conns, Submit(c) \/ TerminatePeer(c) PROVE MainInv'
    BY <2>3 DEF Submit, TerminatePeer
  <2>4. ASSUME NEW c \in Conns, WorkerStep(c) PROVE MainInv'
    BY <2>4 DEF WorkerStep, mainVars
  <2>5. CASE UNCHANGED allVars
    BY <2>5 DEF allVars, mainVars
  <2> QED BY <2>1, <2>2, <2>3, <2>4, <2>5 DEF DownloadNext, MainStep
<1>3. MainInv => MainTypeOK
  BY DEF MainInv
<1> QED BY <1>1, <1>2, <1>3, PTL DEF DownloadSpec

----------------------------------------------------------------------------
(* A download that finishes is complete.                                    *)

\* The list of saved pieces is never cut.
LEMMA SavedGrows ==
  ASSUME OwnInv, [Next]_vars
  PROVE  Len(savedPieces') >= Len(savedPieces)
<1> USE DEF OwnInv, TypeInv
<1>1. TypeOK /\ savedPieces \in Seq(Pieces) /\ Len(savedPieces) \in Nat
  BY LenProperties DEF TypeOK, StorageTypeOK
<1>2. CASE UNCHANGED vars
  BY <1>1, <1>2 DEF vars, storageVars
<1>3. ASSUME NEW c \in Conns, Local(c) PROVE Len(savedPieces') >= Len(savedPieces)
  BY <1>1, <1>3, LocalMoves DEF storageVars
<1>4. ASSUME NEW c \in Conns, Fetch(c) PROVE Len(savedPieces') >= Len(savedPieces)
  BY <1>1, <1>4, FetchMoves, AcquireTypes
<1>5. ASSUME NEW c \in Conns, SavePiece(c) PROVE Len(savedPieces') >= Len(savedPieces)
  BY <1>1, <1>5, AppendProperties, SaverHolds DEF SavePiece, SavePieceToDisk, At
<1>6. ASSUME NEW c \in Conns,
             \/ Construct(c) \/ EnterMainLoop(c) \/ PieceProcessed(c) \/ SavePieceFails(c)
             \/ LeaveWithPiece(c) \/ ReturnPiece(c)
      PROVE  Len(savedPieces') >= Len(savedPieces)
  BY <1>1, <1>6 DEF Construct, EnterMainLoop, PieceProcessed, SavePieceFails, LeaveWithPiece,
     ReturnPiece, DecrementCounter, SavePieceToDiskFails, BackPieceToQueue, storageVars
<1> QED BY <1>2, <1>3, <1>4, <1>5, <1>6, NextCases

\* The number main compares is enough: pieces saved once each, all of them
\* wanted and as many as are wanted, are the wanted ones.
LEMMA EnoughIsAll ==
  ASSUME OwnInv, Len(savedPieces) >= PiecesToDownload
  PROVE  Range(savedPieces) = Wanted
<1> DEFINE n == Len(savedPieces)
<1>1. /\ savedPieces \in Seq(Pieces) /\ IsInjective(savedPieces)
      /\ Range(savedPieces) \subseteq Wanted
  BY DEF OwnInv, TypeInv, TypeOK, StorageTypeOK, EveryPieceInOnePlace
<1>2. n \in Nat /\ DOMAIN savedPieces = 1 .. n /\ savedPieces \in [1 .. n -> Pieces]
  BY <1>1, LenProperties
<1>3. savedPieces \in Injection(1 .. n, Wanted)
  BY <1>1, <1>2 DEF Injection, IsInjective, Range
<1>4. IsFiniteSet(Wanted) /\ Cardinality(Wanted) = PiecesToDownload
  BY FS_Interval, PiecesToDownloadAssumption, NumPiecesAssumption DEF Wanted
<1>5. Cardinality(1 .. n) = n
  BY <1>2, FS_Interval
<1>6. /\ Cardinality(1 .. n) <= Cardinality(Wanted)
      /\ Cardinality(1 .. n) = Cardinality(Wanted) <=> savedPieces \in Surjection(1 .. n, Wanted)
  BY <1>3, <1>4, FS_Injection
<1>7. savedPieces \in Surjection(1 .. n, Wanted)
  BY <1>2, <1>4, <1>5, <1>6, PiecesToDownloadAssumption
<1> QED BY <1>1, <1>2, <1>7 DEF Surjection, Range

\* main ends a round without asking for another only on enough saved pieces.
EnoughSaved ==
  main = "Finished" \/ (main \in {"Terminate", "Join"} /\ ~again) =>
    Len(savedPieces) >= PiecesToDownload

LEMMA FinishStep ==
  ASSUME "Unsolicited" \notin Faults, "ShortWrite" \notin Faults
  PROVE  SavedInv /\ EnoughSaved /\ [DownloadNext]_allVars => SavedInv' /\ EnoughSaved'
<1> SUFFICES ASSUME SavedInv, EnoughSaved, [DownloadNext]_allVars PROVE SavedInv' /\ EnoughSaved'
  OBVIOUS
<1>1. [Next]_vars /\ SavedInv' /\ OwnInv /\ OwnInv'
  BY DownloadTakesSteps, SavedStep DEF SavedInv, AnswerInv
<1>2. /\ Len(savedPieces') >= Len(savedPieces)
      /\ Len(savedPieces) \in Nat /\ Len(savedPieces') \in Nat
  BY <1>1, SavedGrows, LenProperties DEF OwnInv, TypeInv, TypeOK, StorageTypeOK
<1> USE PiecesToDownloadAssumption, NumPiecesAssumption DEF EnoughSaved, MainAt
<1>3. CASE UpdatePeers \/ UpdatePeersFails
  BY <1>1, <1>2, <1>3 DEF UpdatePeers, UpdatePeersFails
<1>4. CASE StartPolling \/ CallJoin \/ Join
  BY <1>1, <1>2, <1>4 DEF StartPolling, CallJoin, Join
<1>5. CASE Poll \/ Count
  BY <1>1, <1>2, <1>5 DEF Poll, Count, vars, storageVars
<1>6. ASSUME NEW c \in Conns, Submit(c) \/ TerminatePeer(c) PROVE EnoughSaved'
  BY <1>1, <1>2, <1>6 DEF Submit, TerminatePeer
<1>7. CASE UNCHANGED mainVars
  BY <1>1, <1>2, <1>7 DEF mainVars
<1> QED BY <1>1, <1>3, <1>4, <1>5, <1>6, <1>7
        DEF DownloadNext, MainStep, WorkerStep, allVars

\* main compares two numbers only; if peers send what they were asked for and
\* write() writes all it is given, a download that finishes has every wanted
\* piece on disk, after any number of rounds, failures and returned pieces.
THEOREM FinishedIsComplete ==
  ASSUME "Unsolicited" \notin Faults, "ShortWrite" \notin Faults
  PROVE  DownloadSpec => []CompleteWhenFinished
<1>1. DownloadInit => SavedInv /\ EnoughSaved
  BY InitSavedInv DEF DownloadInit, EnoughSaved
<1>2. SavedInv /\ EnoughSaved => CompleteWhenFinished
  BY EnoughIsAll DEF CompleteWhenFinished, EnoughSaved, SavedInv, AnswerInv, SavedIsRight
<1> QED BY <1>1, <1>2, FinishStep, PTL DEF DownloadSpec

\* The owner of a piece is as exclusive in the whole program as among the
\* connections alone: the rounds of main, which build connections anew over
\* the same storage, lose and duplicate no piece.
THEOREM DownloadKeepsPieces == DownloadSpec => []EveryPieceInOnePlace
BY DownloadOwns, PTL DEF OwnInv

----------------------------------------------------------------------------
(* The program as a whole implements the connections alone.                 *)

\* Whatever main does between its own variables and the connections' is a step
\* of PeerConnect or none: what is proved of any connections holds of those that
\* main builds, submits and terminates, round after round (main.cpp).
THEOREM DownloadImplements == DownloadSpec => Spec
<1>1. DownloadInit => Init
  BY DEF DownloadInit
<1>2. [DownloadNext]_allVars => [Next]_vars
  BY DownloadTakesSteps
<1> QED BY <1>1, <1>2, PTL DEF DownloadSpec, Spec

\* Every variable of the connections and of the storage keeps its type while
\* main constructs connections, terminates them and reuses the storage.
THEOREM DownloadTypeCorrect == DownloadSpec => []TypeOK
BY DownloadImplements, TypeCorrect, PTL

\* In the program too, only the holder of a piece saves it, gives it back or
\* loses it: a round that ends takes no piece from a connection (main.cpp's
\* Terminate and Join).
THEOREM DownloadKeepsLeases ==
  ASSUME Conns \cap {"Queued", "Saved", "Lost"} = {}
  PROVE  DownloadSpec => LedgerSpec
BY DownloadImplements, LedgerRefined, PTL

\* If nothing throws, the counter main polls is the number of connections that
\* hold a piece, at every point of every round (RunDownloadMultithread).
THEOREM DownloadCountsRight ==
  ASSUME NothingThrows, IsFiniteSet(Conns)
  PROVE  DownloadSpec => []CounterIsExact
BY DownloadImplements, CounterExact, PTL

\* In every round of the program too, a connection that waits for a message
\* with a piece in hand has a request for it out with the peer, until the peer
\* chokes it (PeerConnect::MainLoop): the end of a round, which terminates the
\* connections, and the next one, with the same storage, leave none waiting.
THEOREM DownloadHolderHasRequestOut ==
  ASSUME "Unsolicited" \notin Faults
  PROVE  DownloadSpec => []HolderHasARequestOut
BY DownloadImplements, HolderHasRequestOut, PTL

\* Whatever fails in a round, in each of them the first run of a connection
\* returns a piece that is there (PeerConnect::MainLoop, after its loop): what
\* an earlier round left in a connection does not reach the next.
THEOREM DownloadFirstReturnsAPiece == DownloadSpec => []FirstAttemptHasAPiece
BY DownloadImplements, FirstReturnsAPiece, PTL

----------------------------------------------------------------------------
(* A round that is over left nothing behind.                                *)

\* No worker step begins where no task is.
LEMMA NoIdleWorks ==
  ASSUME NEW c \in Conns, Worker(c)
  PROVE  ~At(c, "Idle")
<1> USE DEF At, Receives
<1>1. CASE Start(c) \/ RunAgain(c) \/ TaskEnds(c)
  BY <1>1 DEF Start, RunAgain, TaskEnds
<1>2. CASE RunReturns(c) \/ EstablishConnectionFails(c) \/ TerminateRefused(c) \/ EstablishConnection(c)
  BY <1>2 DEF RunReturns, EstablishConnectionFails, TerminateRefused, EstablishConnection
<1>3. CASE EnterMainLoop(c) \/ LoopStops(c) \/ ReceiveFails(c) \/ StorePiece(c) \/ Ask(c)
  BY <1>3 DEF EnterMainLoop, LoopStops, ReceiveFails, StorePiece, PieceProcessed, SavePiece,
     SavePieceFails, SavePieceCannotOpen, Ask
<1>4. CASE HandleMessage(c)
  BY <1>4 DEF HandleMessage, HandleKeepAlive, HandleChoke, HandleUnchoke, HandleHave, HandleBadHave,
     HandleOther, HandleShortPiece, HandlePiece, HandlePieceOutOfRange, HandlePieceQueueEmpty
<1>5. CASE RequestPiece(c)
  BY <1>5 DEF RequestPiece, RequestQueueEmpty, RequestBlock, RequestSendFails, RequestNothingMissing
<1>6. CASE LeaveWithoutPiece(c) \/ LeaveWithPiece(c) \/ LeaveCrashes(c) \/ ReturnPiece(c)
  BY <1>6 DEF LeaveWithoutPiece, LeaveWithPiece, LeaveCrashes, ReturnPiece
<1> QED BY <1>1, <1>2, <1>3, <1>4, <1>5, <1>6 DEF Worker, Run, MainLoop

\* If nothing throws, a worker moves its own thread only: the process lives.
LEMMA WorkerMovesItself ==
  ASSUME NothingThrows, CleanInv, NEW c \in Conns, Worker(c)
  PROVE  \A d \in Conns \ {c} : pc'[d] = pc[d]
<1>1. TypeOK
  BY CleanGives
<1>2. \/ Local(c) \/ Fetch(c) \/ EnterMainLoop(c) \/ PieceProcessed(c) \/ SavePiece(c)
      \/ SavePieceFails(c) \/ LeaveWithPiece(c) \/ ReturnPiece(c)
  BY DEF Worker, Run, MainLoop, HandleMessage, StorePiece, RequestPiece, Local, Fetch
<1>3. CASE Local(c)
  BY <1>1, <1>3, LocalClean DEF TypeOK
<1>4. CASE Fetch(c)
  BY <1>1, <1>4, FetchClean DEF TypeOK
<1>5. CASE \/ EnterMainLoop(c) \/ PieceProcessed(c) \/ SavePiece(c) \/ SavePieceFails(c)
           \/ LeaveWithPiece(c) \/ ReturnPiece(c)
  BY <1>1, <1>5 DEF EnterMainLoop, PieceProcessed, SavePiece, SavePieceFails, LeaveWithPiece,
     ReturnPiece, Goto, TypeOK
<1> QED BY <1>2, <1>3, <1>4, <1>5

\* Tasks belong to connections of the round, and none is left between rounds;
\* with no worker, none is ever begun.
RoundInv ==
  /\ \A c \in Conns \ peers : At(c, "Idle")
  /\ main = "Update" /\ Workers # 0 => \A c \in Conns : At(c, "Idle")
  /\ Workers = 0 => \A c \in Conns : At(c, "Idle") \/ At(c, "Queued")

\* A pool without workers runs no task.
LEMMA NoWorkerNoStep ==
  ASSUME IsFiniteSet(Conns), RoundInv, Workers = 0, NEW c \in Conns
  PROVE  ~WorkerStep(c)
<1> DEFINE Begun == {d \in Conns : pc[d] \notin {"Idle", "Queued"}}
<1>1. IsFiniteSet(Begun)
  BY FS_Subset
<1>2. Cardinality(Begun) \in Nat
  BY <1>1, FS_CardinalityType
<1>3. ~(Cardinality(Begun) < Workers)
  BY <1>2
<1>4. CASE At(c, "Queued")
  BY <1>3, <1>4 DEF WorkerStep, HasWorker
<1>5. CASE At(c, "Idle")
  BY <1>5, NoIdleWorks DEF WorkerStep
<1> QED BY <1>4, <1>5 DEF RoundInv

LEMMA RoundStep ==
  ASSUME NothingThrows, IsFiniteSet(Conns)
  PROVE  CleanInv /\ MainTypeOK /\ RoundInv /\ [DownloadNext]_allVars => RoundInv'
<1> SUFFICES ASSUME CleanInv, MainTypeOK, RoundInv, [DownloadNext]_allVars PROVE RoundInv'
  OBVIOUS
<1>1. TypeOK
  BY CleanGives
<1> USE DEF RoundInv, At, MainAt
<1>2. CASE UpdatePeers \/ UpdatePeersFails
  BY <1>2 DEF UpdatePeers, UpdatePeersFails, AppendPeers, vars, connVars
<1>3. CASE StartPolling \/ Poll \/ Count \/ CallJoin \/ Join
  BY <1>3 DEF StartPolling, Poll, Count, CallJoin, Join, vars, connVars
<1>4. ASSUME NEW c \in Conns, Submit(c) PROVE RoundInv'
  BY <1>1, <1>4 DEF Submit, Construct, Goto, TypeOK, MainTypeOK
<1>5. ASSUME NEW c \in Conns, TerminatePeer(c) PROVE RoundInv'
  BY <1>5 DEF TerminatePeer, Terminate
<1>6. ASSUME NEW c \in Conns, WorkerStep(c) PROVE RoundInv'
  <2>1. pc[c] # "Idle" /\ (\A d \in Conns \ {c} : pc'[d] = pc[d]) /\ UNCHANGED <<main, peers>>
    BY <1>6, NoIdleWorks, WorkerMovesItself DEF WorkerStep, mainVars
  <2>2. Workers # 0
    BY <1>6, NoWorkerNoStep
  <2> QED BY <2>1, <2>2
<1>7. CASE UNCHANGED allVars
  BY <1>7 DEF allVars, vars, connVars, mainVars
<1> QED BY <1>2, <1>3, <1>4, <1>5, <1>6, <1>7 DEF DownloadNext, MainStep

\* If nothing throws and no write fails, a round leaves nothing behind: every
\* piece that is not saved is queued again, fresh, and the counter is 0 when
\* main asks for new peers.
THEOREM RoundsClean ==
  ASSUME NothingThrows, "WriteFails" \notin Faults, IsFiniteSet(Conns)
  PROVE  DownloadSpec => []RoundsStartClean
<1> DEFINE Inv == ExactInv /\ AllHeld /\ RoundInv
<1>1. DownloadInit => Inv
  <2>1. Init => AllHeld
    BY DEF Init, StorageInit, AllHeld
  <2>2. DownloadInit => RoundInv
    BY DEF DownloadInit, Init, RoundInv, At
  <2> QED BY <2>1, <2>2, InitExactInv DEF DownloadInit
<1>2. Inv /\ MainTypeOK /\ [DownloadNext]_allVars => Inv'
  BY DownloadTakesSteps, ExactStep, HeldStep, RoundStep DEF ExactInv
<1>3. Inv => RoundsStartClean
  <2> SUFFICES ASSUME Inv, main = "Update" PROVE RoundsStartClean
    BY DEF RoundsStartClean
  <2>1. /\ OwnInv /\ HeldInLoop /\ QueuedPiecesAreFresh
        /\ piecesInProgressCount = Cardinality(Working)
    BY CleanGives DEF ExactInv
  <2>2. \A c \in Conns : ~isPieceDownloadingNow[c]
    BY <2>1 DEF RoundInv, At, HeldInLoop, LoopLabels
  <2>3. downloadingPieces = {} /\ piecesInProgressCount = 0
    <3>1. Working = {}
      BY <2>2 DEF Working
    <3> QED BY <2>1, <2>2, <3>1, FS_EmptySet DEF AllHeld, Holds
  <2>4. Range(remainPieces) = Wanted \ Range(savedPieces)
    BY <2>1, <2>3 DEF OwnInv, EveryPieceInOnePlace
  <2> QED BY <2>1, <2>3, <2>4 DEF RoundsStartClean, QueuedPiecesAreFresh
<1> QED BY <1>1, <1>2, <1>3, MainTypeCorrect, PTL DEF DownloadSpec
=============================================================================
