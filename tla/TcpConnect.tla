----------------------------- MODULE TcpConnect -----------------------------
(***************************************************************************)
(* TcpConnect (tcp_connect.cpp): a socket, and the loops that read a       *)
(* message out of a stream that arrives in pieces of any size.  `stream`   *)
(* holds the bytes the peer has sent and nobody has read: how many of them *)
(* have arrived when recv is called is its choice of k.                    *)
(***************************************************************************)
EXTENDS ByteTools

CONSTANTS
  MaxFds  \* file descriptors the process may have open

ASSUME FdsAssumption == MaxFds \in Nat

Fds      == 0 .. MaxFds - 1
NoSocket == -1

VARIABLES
  sock,       \* sock_
  openFds,    \* sockets open in the process
  stream,     \* bytes sent by the peer of sock_, not read yet
  closed,     \* the peer has sent its last byte, and the end has arrived
  outgoing,   \* bytes sent to the peer of sock_
  reading,    \* where ReceiveData is: "No", in the "Length" or in the "Body"
  buffer,     \* what the current loop of ReceiveData has read
  bufferSize  \* what it has to read

socketVars == <<sock, openFds>>
readVars   == <<reading, buffer, bufferSize>>
tcpVars    == <<socketVars, stream, closed, outgoing, readVars>>

NotReading == reading = "No" /\ buffer = <<>> /\ bufferSize = 0

TcpInit ==
  /\ sock = NoSocket
  /\ openFds = {}
  /\ stream = <<>>
  /\ closed = TRUE
  /\ outgoing = <<>>
  /\ NotReading

\* socket() returns the lowest descriptor that is free.
NewSocket(fd) == fd \in Fds \ openFds /\ \A other \in Fds \ openFds : fd <= other

\* sock_ is replaced and the socket it held stays open.  SO_ERROR is not read:
\* a connection that was refused is taken for one whose peer has closed.
EstablishConnection ==
  \E fd \in Fds :
    /\ NewSocket(fd)
    /\ openFds' = openFds \cup {fd}
    /\ sock' = fd
    /\ closed' \in BOOLEAN
    /\ stream' = <<>> /\ outgoing' = <<>>
    /\ UNCHANGED readVars

\* No descriptor is left, or fcntl, connect or poll report an error or a
\* timeout: then the new socket stays open.
EstablishConnectionThrows ==
  /\ \/ openFds = Fds /\ UNCHANGED openFds
     \/ \E fd \in Fds : NewSocket(fd) /\ openFds' = openFds \cup {fd}
  /\ UNCHANGED <<sock, stream, closed, outgoing, readVars>>

SendData(data) ==
  /\ outgoing' = outgoing \o data
  /\ UNCHANGED <<socketVars, stream, closed>>

\* The destructor.
CloseConnection ==
  /\ openFds' = openFds \ {sock}
  /\ sock' = NoSocket
  /\ UNCHANGED <<stream, closed, outgoing, readVars>>

----------------------------------------------------------------------------
(* ReceiveData.                                                             *)

\* The call: of a size, or (0) of a message with its length in front.
ReceiveData(size) ==
  /\ reading' = IF size = 0 THEN "Length" ELSE "Body"
  /\ bufferSize' = IF size = 0 THEN IntSize ELSE size
  /\ buffer' = <<>>

StopReading == reading' = "No" /\ buffer' = <<>> /\ bufferSize' = 0

Waits == reading # "No" /\ Len(buffer) < bufferSize

\* recv, after a poll that reported data.
Recv ==
  /\ Waits
  /\ \E k \in 1 .. Min({bufferSize - Len(buffer), Len(stream)}) :
       /\ buffer' = buffer \o SubSeq(stream, 1, k)
       /\ stream' = SubSeq(stream, k + 1, Len(stream))
  /\ UNCHANGED <<socketVars, closed, outgoing, reading, bufferSize>>

\* The first loop is over.
MutLengthInOneRecv ==
  /\ reading = "Length"
  /\ buffer # <<>>
  /\ reading' = "Body"
  /\ bufferSize' = BytesToInt([i \in 1 .. IntSize |->
                                 IF i \in DOMAIN buffer THEN buffer[i] ELSE 0])
  /\ buffer' = <<>>
  /\ UNCHANGED <<socketVars, stream, closed, outgoing>>
LengthReceived ==
  /\ reading = "Length"
  /\ ~Waits
  /\ reading' = "Body"
  /\ bufferSize' = BytesToInt(buffer)
  /\ buffer' = <<>>
  /\ UNCHANGED <<socketVars, stream, closed, outgoing>>

\* The second loop is over: buffer is returned.
Returns == reading = "Body" /\ ~Waits

\* Nothing for readTimeout_ ...
PollTimesOut ==
  /\ Waits
  /\ ~closed
  /\ StopReading
  /\ UNCHANGED <<socketVars, stream, closed, outgoing>>

\* ... recv returns 0 at the end of the stream ...
EndOfStream ==
  /\ Waits
  /\ closed /\ stream = <<>>
  /\ StopReading
  /\ UNCHANGED <<socketVars, stream, closed, outgoing>>

\* ... or poll or recv report an error.
PollOrRecvFails ==
  /\ Waits
  /\ StopReading
  /\ UNCHANGED <<socketVars, stream, closed, outgoing>>
=============================================================================
