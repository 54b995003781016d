------------------------------ MODULE Download ------------------------------
(***************************************************************************)
(* main.cpp: the main thread gets peers from the tracker, runs a round of  *)
(* RunDownloadMultithread with one connection per peer, polls the storage, *)
(* and at the end of the round terminates and joins the connections of     *)
(* PeerConnect, whose threads it interleaves with.  sleep_for takes no     *)
(* time here: main may poll whenever it gets there.                        *)
(***************************************************************************)
EXTENDS PeerConnect

CONSTANTS
  Workers,   \* hardware_concurrency(), which may be 0
  BadAnswer  \* a tracker's answer may be one the parser throws on

ASSUME WorkersAssumption == Workers \in Nat
ASSUME BadAnswerAssumption == BadAnswer \in BOOLEAN

VARIABLES
  main,      \* where the main thread is
  updates,   \* attempts of DownloadTorrentFile: failed calls of UpdatePeers
  peers,     \* peers of the tracker: one connection each
  visited,   \* the loop over peerConnections: those already dealt with
  again      \* what RunDownloadMultithread will return

mainVars == <<main, updates, peers, visited, again>>
allVars  == <<vars, mainVars>>

MainLabels == {
  "Update",    \* calling UpdatePeers
  "Submit",    \* building the connections and submitting their tasks
  "Poll",      \* before PiecesSavedToDiscCount
  "Count",     \* before PiecesInProgressCount
  "Terminate", \* terminating the connections one by one
  "Join",      \* in peerThreads.Join
  "Finished",  \* DownloadTorrentFile returned
  "Aborted"    \* DownloadTorrentFile threw, nobody catches
}

\* The main thread gives the tracker up after four failures, and deals only
\* with connections of the round.
MainTypeOK ==
  /\ main \in MainLabels
  /\ updates \in 0 .. 4
  /\ peers \in SUBSET Conns
  /\ visited \in SUBSET peers
  /\ again \in BOOLEAN

DownloadInit ==
  /\ Init
  /\ main = "Update"
  /\ updates = 0
  /\ peers = {}
  /\ visited = {}
  /\ again = FALSE

Alive == \A c \in Conns : ~At(c, "Crashed")

MainAt(label) == Alive /\ main = label

----------------------------------------------------------------------------
(* DownloadTorrentFile.                                                     *)

\* The list is only ever appended to: a tracker that fails is passed over, and
\* peers of earlier calls are enough for success.
AppendPeers == \E found \in SUBSET Conns : peers' = peers \cup found

UpdatePeers ==
  /\ MainAt("Update")
  /\ AppendPeers
  /\ peers' # {}
  /\ updates' = 0
  /\ main' = "Submit"
  /\ UNCHANGED <<vars, visited, again>>

MutNeverAbort ==
  /\ MainAt("Update")
  /\ AppendPeers
  /\ peers' = {} \/ BadAnswer
  /\ updates' = updates + 1
  /\ UNCHANGED <<vars, main, visited, again>>
UpdatePeersFails ==
  /\ MainAt("Update")
  /\ AppendPeers
  /\ peers' = {} \/ BadAnswer
  /\ updates' = updates + 1
  /\ main' = IF updates' > 3 THEN "Aborted" ELSE "Update"
  /\ UNCHANGED <<vars, visited, again>>

----------------------------------------------------------------------------
(* RunDownloadMultithread.                                                  *)

Submit(c) ==
  /\ MainAt("Submit")
  /\ c \in peers \ visited
  /\ Construct(c)
  /\ visited' = visited \cup {c}
  /\ UNCHANGED <<main, updates, peers, again>>

StartPolling ==
  /\ MainAt("Submit")
  /\ visited = peers
  /\ visited' = {}
  /\ main' = "Poll"
  /\ UNCHANGED <<vars, updates, peers, again>>

Poll ==
  /\ MainAt("Poll")
  /\ IF Len(savedPieces) < PiecesToDownload
       THEN main' = "Count" /\ UNCHANGED again
       ELSE main' = "Terminate" /\ again' = FALSE
  /\ UNCHANGED <<vars, updates, peers, visited>>

Count ==
  /\ MainAt("Count")
  /\ IF piecesInProgressCount = 0
       THEN main' = "Terminate" /\ again' = TRUE
       ELSE main' = "Poll" /\ UNCHANGED again
  /\ UNCHANGED <<vars, updates, peers, visited>>

TerminatePeer(c) ==
  /\ MainAt("Terminate")
  /\ c \in peers \ visited
  /\ Terminate(c)
  /\ visited' = visited \cup {c}
  /\ UNCHANGED <<main, updates, peers, again>>

CallJoin ==
  /\ MainAt("Terminate")
  /\ visited = peers
  /\ visited' = {}
  /\ main' = "Join"
  /\ UNCHANGED <<vars, updates, peers, again>>

\* Join returns when every submitted task is over; with no worker to wait for
\* it returns at once, and the tasks are dropped with the pool.
MutJoinNobody ==
  /\ MainAt("Join")
  /\ main' = IF again THEN "Update" ELSE "Finished"
  /\ again' = FALSE
  /\ UNCHANGED <<vars, updates, peers, visited>>
Join ==
  /\ MainAt("Join")
  /\ Workers = 0 \/ \A c \in peers : At(c, "Idle")
  /\ main' = IF again THEN "Update" ELSE "Finished"
  /\ again' = FALSE
  /\ UNCHANGED <<vars, updates, peers, visited>>

----------------------------------------------------------------------------
MainStep ==
  \/ UpdatePeers \/ UpdatePeersFails \/ StartPolling \/ Poll \/ Count
  \/ CallJoin \/ Join
  \/ \E c \in Conns : Submit(c) \/ TerminatePeer(c)

\* At most Workers tasks run at a time.
HasWorker(c) ==
  At(c, "Queued") =>
    Cardinality({d \in Conns : pc[d] \notin {"Idle", "Queued"}}) < Workers

WorkerStep(c) ==
  /\ HasWorker(c)
  /\ Worker(c)
  /\ UNCHANGED mainVars

DownloadNext == MainStep \/ \E c \in Conns : WorkerStep(c)

DownloadSpec == DownloadInit /\ [][DownloadNext]_allVars

\* Every thread goes on; ReceiveData returns or throws within readTimeout_.
FairDownloadSpec ==
  /\ DownloadSpec
  /\ WF_allVars(MainStep)
  /\ \A c \in Conns : WF_allVars(WorkerStep(c))

----------------------------------------------------------------------------
(* Properties.                                                              *)

\* When RunDownloadMultithread is over and asks for no other round, every
\* wanted piece is on disk: main compares only two numbers, so a piece saved
\* twice, or one that SetNewSize cut off, would let it finish with a hole.
CompleteWhenFinished ==
  main = "Finished" => Range(savedPieces) = Wanted /\ \A p \in Wanted : disk[p] = "Right"

\* With no error, a round leaves nothing behind: between two rounds every
\* piece that is not saved is back in the queue, fresh, and the counter is 0.
RoundsStartClean ==
  main = "Update" =>
    /\ downloadingPieces = {} /\ piecesInProgressCount = 0
    /\ Range(remainPieces) = Wanted \ Range(savedPieces)
    /\ \A p \in Range(remainPieces) : blocks[p] = NewBlocks(p)

\* Join comes back: whatever the connections are at when main terminates
\* them, every task ends, those that no worker has taken yet included.
JoinReturns == main = "Join" ~> (main # "Join" \/ ~Alive)

\* With no error, main never polls a round that is dead: when every task is
\* over it notices, finishes or gets new peers.
DeadRoundIsLeft ==
  (main = "Poll" /\ \A c \in Conns : At(c, "Idle")) ~> main \in {"Update", "Finished"}

\* What main prints when it gives a round up is true: no connection is
\* working; above all none is about to write a finished piece to disk.
RoundGivenUpOnlyIfDead ==
  [][main = "Count" /\ main' = "Terminate" => \A c \in Conns : ~At(c, "Save")]_allVars
=============================================================================
