------------------------------ MODULE PeerWire ------------------------------
(***************************************************************************)
(* One PeerConnect and its socket, byte by byte: Run, the handshake, the   *)
(* loop that reads messages and sends requests, over connections that are  *)
(* cut anywhere and opened again.  It is the part of peer_connect.cpp that *)
(* the module PeerConnect takes as a choice of the next message; what that *)
(* module has (the pieces, which block is asked for, the number of retries *)
(* of the task) is a choice here.                                          *)
(***************************************************************************)
EXTENDS TcpConnect, Message, PeerPiecesAvailability

CONSTANTS
  Greetings,    \* what a peer may send first, each as long as a handshake
  PeerMessages, \* what it may send then
  Blocks,       \* blocks that may be requested
  MaxConnects,  \* bound on the connections
  MaxMessages,  \* bound on what a peer sends over one, its greeting included
  MaxAhead,     \* bound on what it sends ahead of what the client has received
  MaxRequests   \* bound on the requests over one

ASSUME WireAssumption ==
  /\ {MaxConnects, MaxMessages, MaxAhead, MaxRequests} \subseteq Nat
  /\ Greetings \cup PeerMessages \subseteq Seq(Byte)
  /\ \A g \in Greetings : Len(g) = Len(Handshake(0, 0))
  /\ \A m \in PeerMessages : Len(m) \in Unsigned
  /\ {1, Len(RequestMessage([piece |-> 0, offset |-> 0, length |-> 0])) - IntSize} \subseteq Unsigned
  /\ \A block \in Blocks : {block.piece, block.offset, block.length} \subseteq Unsigned

VARIABLES
  at,           \* where the thread is
  terminated,
  failed,
  choked,
  availability, \* piecesAvailability_
  connects,     \* connections so far
  sent,         \* what the peer of this connection has sent ...
  received,     \* ... and what ReceiveData has returned
  asked         \* blocks requested over this connection

flagVars    == <<terminated, failed, choked>>
historyVars == <<connects, sent, received, asked>>
vars == <<tcpVars, at, flagVars, availability, historyVars>>

Init ==
  /\ TcpInit
  /\ at = "Run"
  /\ terminated = FALSE /\ failed = FALSE /\ choked = TRUE
  /\ availability = <<>>
  /\ connects = 0
  /\ sent = <<>> /\ received = <<>> /\ asked = <<>>

\* Out of MainLoop and Run: the task tries again only if failed_ is set.
Throw == at' = "Over" \/ (failed /\ at' = "Run")

----------------------------------------------------------------------------
(* Run and EstablishConnection.                                             *)

RunReturns ==
  /\ at = "Run" /\ terminated
  /\ at' = "Over"
  /\ UNCHANGED <<tcpVars, flagVars, availability, historyVars>>

Connect ==
  /\ at = "Run" /\ ~terminated
  /\ connects < MaxConnects
  /\ EstablishConnection
  /\ at' = "Connected"
  /\ connects' = connects + 1
  /\ sent' = <<>> /\ received' = <<>> /\ asked' = <<>>
  /\ UNCHANGED <<flagVars, availability>>

ConnectFails ==
  /\ at = "Run" /\ ~terminated
  /\ EstablishConnectionThrows
  /\ at' = "Refused"
  /\ UNCHANGED <<flagVars, availability, historyVars>>

TerminateRefused ==
  /\ at = "Refused"
  /\ terminated' = TRUE
  /\ at' = "Run"
  /\ UNCHANGED <<tcpVars, failed, choked, availability, historyVars>>

SendHandshake ==
  /\ at = "Connected"
  /\ SendData(Handshake(3, 4))
  /\ ReceiveData(Len(Handshake(3, 4)))
  /\ at' = "Handshake"
  /\ UNCHANGED <<flagVars, availability, historyVars>>

\* send reports an error.
SendFails ==
  /\ at \in {"Connected", "Interested"}
  /\ at' = "Refused"
  /\ UNCHANGED <<tcpVars, flagVars, availability, historyVars>>

\* ReceiveData returns what the thread waits for at this label.
Receives(label) ==
  /\ at = label
  /\ Returns
  /\ received' = Append(received, buffer)
  /\ UNCHANGED <<socketVars, stream, closed, outgoing, terminated, connects, sent, asked>>

HandshakeAnswered ==
  /\ Receives("Handshake")
  /\ IF IsHandshake(buffer)
       THEN ReceiveData(0) /\ at' = "Bitfield"
       ELSE StopReading /\ at' = "Refused"
  /\ UNCHANGED <<failed, choked, availability>>

ReceiveBitfield ==
  /\ Receives("Bitfield")
  /\ StopReading
  /\ LET message == Parse(buffer) IN
       /\ choked' = (choked /\ message.id # MessageId.Unchoke)
       /\ availability' = IF message.id = MessageId.BitField THEN message.payload
                                                             ELSE availability
  /\ at' = "Interested"
  /\ UNCHANGED failed

\* ... and the clearFlags of MainLoop.
SendInterested ==
  /\ at = "Interested"
  /\ SendData(MessageString(InitMessage(MessageId.Interested, <<>>)))
  /\ failed' = FALSE /\ choked' = TRUE
  /\ at' = "Loop"
  /\ UNCHANGED <<readVars, terminated, availability, historyVars>>

----------------------------------------------------------------------------
(* MainLoop.                                                                *)

LoopStops ==
  /\ at = "Loop" /\ reading = "No" /\ terminated
  /\ at' = "Run"
  /\ UNCHANGED <<tcpVars, flagVars, availability, historyVars>>

CallReceiveData ==
  /\ at = "Loop" /\ reading = "No" /\ ~terminated
  /\ ReceiveData(0)
  /\ UNCHANGED <<socketVars, stream, closed, outgoing, at, flagVars, availability, historyVars>>

Handles(ids) ==
  /\ Receives("Loop")
  /\ StopReading
  /\ buffer # <<>> /\ Head(buffer) \in ids

\* An empty message.
HandleKeepAlive ==
  /\ Receives("Loop")
  /\ StopReading
  /\ buffer = <<>>
  /\ failed' = TRUE
  /\ at' = "Run"
  /\ UNCHANGED <<choked, availability>>

HandleChoke ==
  /\ Handles({MessageId.Choke})
  /\ failed' = TRUE /\ choked' = TRUE
  /\ at' = "Ask"
  /\ UNCHANGED availability

HandleUnchoke ==
  /\ Handles({MessageId.Unchoke})
  /\ choked' = FALSE
  /\ at' = "Ask"
  /\ UNCHANGED <<failed, availability>>

\* The piece number of a Have that is too short is what there is of it.
PieceIndex(message) == BytesToInt(SubSeq(message, 2, Min({1 + IntSize, Len(message)})))

HandleHave ==
  /\ Handles({MessageId.Have})
  /\ LET pieceIndex == PieceIndex(buffer) IN
       IF OutOfRange(availability, pieceIndex)
         THEN Throw /\ UNCHANGED availability
         ELSE at' = "Ask" /\ availability' = SetPieceAvailability(availability, pieceIndex)
  /\ UNCHANGED <<failed, choked>>

\* What is done with a block is in the module PeerConnect.  A Piece without its
\* two numbers throws; a whole one may, for want of a piece or of the block.
HandlePiece ==
  /\ Handles({MessageId.Piece})
  /\ Throw \/ (Len(buffer) >= 1 + 2 * IntSize /\ at' = "Ask")
  /\ UNCHANGED <<failed, choked, availability>>

HandleOther ==
  /\ Handles(Byte \ {MessageId.Choke, MessageId.Unchoke, MessageId.Have, MessageId.Piece})
  /\ at' = "Ask"
  /\ UNCHANGED <<failed, choked, availability>>

AskNothing ==
  /\ at = "Ask"
  /\ at' = "Loop"
  /\ UNCHANGED <<tcpVars, flagVars, availability, historyVars>>

RequestPiece ==
  \E block \in Blocks :
    /\ at = "Ask" /\ ~choked
    /\ Len(asked) < MaxRequests
    /\ SendData(RequestMessage(block))
    /\ asked' = Append(asked, block)
    /\ at' = "Loop"
    /\ UNCHANGED <<readVars, flagVars, availability, connects, sent, received>>

RequestFails ==
  /\ at = "Ask" /\ ~choked
  /\ Throw
  /\ UNCHANGED <<tcpVars, flagVars, availability, historyVars>>

----------------------------------------------------------------------------
(* ReceiveData, called at any of these labels, throws: EstablishConnection  *)
(* fails, or MainLoop breaks.                                               *)

InReceiveData == UNCHANGED <<flagVars, availability, historyVars>>

LeaveReceiveData == at' = (IF at = "Loop" THEN "Run" ELSE "Refused") /\ InReceiveData

ReadOn == (Recv \/ LengthReceived) /\ InReceiveData /\ UNCHANGED at

MutEndIsNoData == PollTimesOut /\ LeaveReceiveData
ReceiveThrows == (PollTimesOut \/ EndOfStream) /\ LeaveReceiveData

ReceiveFails == PollOrRecvFails /\ LeaveReceiveData

\* Returning from ReceiveData, with all the caller does next.
Returned ==
  \/ HandshakeAnswered \/ ReceiveBitfield
  \/ HandleKeepAlive \/ HandleChoke \/ HandleUnchoke \/ HandleHave
  \/ HandlePiece \/ HandleOther

----------------------------------------------------------------------------
(* The peer, the main thread, and the end of the object.                    *)

Frame(m) == NetworkInt(Len(m)) \o m

PeerSends ==
  \E m \in IF sent = <<>> THEN Greetings ELSE PeerMessages :
    /\ ~closed /\ at \notin {"Run", "Refused", "Over"}
    /\ Len(sent) < MaxMessages /\ Len(sent) < Len(received) + MaxAhead
    /\ stream' = stream \o IF sent = <<>> THEN m ELSE Frame(m)
    /\ sent' = Append(sent, m)
    /\ UNCHANGED <<socketVars, closed, outgoing, readVars, at, flagVars, availability,
                   connects, received, asked>>

\* It may die with a message sent in part.
PeerCloses ==
  \E n \in 0 .. Len(stream) :
    /\ ~closed /\ at \notin {"Run", "Refused", "Over"}
    /\ closed' = TRUE
    /\ stream' = SubSeq(stream, 1, n)
    /\ UNCHANGED <<socketVars, outgoing, readVars, at, flagVars, availability, historyVars>>

Terminate ==
  /\ ~terminated
  /\ terminated' = TRUE
  /\ UNCHANGED <<tcpVars, at, failed, choked, availability, historyVars>>

Destroy ==
  /\ at = "Over" /\ sock # NoSocket
  /\ CloseConnection
  /\ UNCHANGED <<at, flagVars, availability, historyVars>>

Thread ==
  \/ RunReturns \/ Connect \/ ConnectFails \/ TerminateRefused
  \/ SendHandshake \/ SendFails \/ SendInterested
  \/ LoopStops \/ CallReceiveData \/ AskNothing \/ RequestPiece \/ RequestFails
  \/ ReadOn \/ ReceiveThrows \/ ReceiveFails \/ Returned

Next == Thread \/ PeerSends \/ PeerCloses \/ Terminate \/ Destroy

Spec == Init /\ [][Next]_vars

\* The thread runs on in ReceiveData: poll returns when there is data, at the
\* end of the stream, and after readTimeout_.  Nothing is assumed of the peer,
\* of main, or of errors.
FairSpec == Spec /\ WF_vars(ReadOn \/ ReceiveThrows \/ Returned)

----------------------------------------------------------------------------
(* Properties.                                                              *)

Channel == INSTANCE MessageChannel WITH Message <- Greetings \cup PeerMessages

\* However the stream is cut, and whatever an earlier connection left behind,
\* the loop gets the messages of this connection: whole, in order, once.
ChannelSpec == Channel!Spec

\* The bytes in which a peer reads the number n, and a message.
BigEndian(n) == CHOOSE bytes \in [1 .. IntSize -> Byte] : BytesToInt(bytes) = n
Framed(m)    == BigEndian(Len(m)) \o m

Interested == Framed(<<MessageId.Interested>>)
Request ==
  [b \in Blocks |-> Framed(<<MessageId.Request>> \o BigEndian(b.piece)
                             \o BigEndian(b.offset) \o BigEndian(b.length))]

\* The peer can decode what it gets: the handshake, Interested, and the
\* requests that were meant, each with its length in front; and in MainLoop
\* nothing of it is missing, whichever connection of how many this is.
PeerHearsWhatIsSaid ==
  LET hello == Handshake(3, 4)
      full  == hello \o Interested \o FlattenSeq([k \in DOMAIN asked |-> Request[asked[k]]])
  IN outgoing \in IF at \in {"Loop", "Ask"} THEN {full} ELSE {<<>>, hello, full}

\* ReceiveData comes back: a message that has begun ends, or the timeout or
\* the end of the stream does.  A worker cannot spin on a dead connection.
ReadingEnds == reading # "No" ~> Returns \/ reading = "No"

\* A Have of a piece that the bitfield has a place for marks this piece as
\* available, as IsPieceAvailable reads it.  It does so only for the first
\* piece of a byte, or where the bits that are there happen to.
HaveMarksThePiece ==
  [][HandleHave /\ PieceIndex(buffer) < Size(availability)
       => IsPieceAvailable(availability', PieceIndex(buffer))]_vars
=============================================================================
