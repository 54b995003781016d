--------------------------- MODULE PeerWireProofs ---------------------------
(* What crosses a connection, for messages and integers of any size.        *)
EXTENDS PeerWire, ByteToolsProofs

----------------------------------------------------------------------------
(* Numbers on the wire.                                                     *)

LEMMA UnsignedType ==
  ASSUME NEW n \in Unsigned
  PROVE  \E bytes \in [1 .. IntSize -> Byte] :
           /\ n = BytesToInt(bytes) /\ n \in Nat
           /\ bytes \in Seq(Byte) /\ Len(bytes) = IntSize
           /\ InMemory(n, IntSize) = Reverse(bytes)
<1>1. PICK bytes \in [1 .. IntSize -> Byte] : n = BytesToInt(bytes)
  BY DEF Unsigned
<1>2. bytes \in Seq(Byte) /\ Len(bytes) = IntSize
  BY ByteAssumption
<1>3. n \in Nat /\ InMemory(n, IntSize) = Reverse(bytes)
  BY <1>1, <1>2, ValueType, BytesReadBack
<1> QED
  BY <1>1, <1>2, <1>3

\* The bytes that NetworkInt makes of a number are those a peer reads it in.
LEMMA NetworkIntBytes ==
  ASSUME NEW bytes \in Seq(Byte), Len(bytes) = IntSize
  PROVE  NetworkInt(BytesToInt(bytes)) = bytes
<1>1. BytesToInt(bytes) \in Nat /\ IntSize \in Nat
  BY ValueType, ByteAssumption
<1>2. InMemory(Hton(BytesToInt(bytes), IntSize), IntSize) = Reverse(InMemory(BytesToInt(bytes), IntSize))
  BY <1>1, HtonSwaps
<1>3. InMemory(BytesToInt(bytes), IntSize) = Reverse(bytes)
  BY BytesReadBack
<1> QED
  BY <1>2, <1>3, ReverseTwice DEF NetworkInt, IntToBytes

LEMMA NetworkIntIsBigEndian ==
  ASSUME NEW n \in Unsigned
  PROVE  /\ NetworkInt(n) = BigEndian(n) /\ BytesToInt(NetworkInt(n)) = n
         /\ NetworkInt(n) \in Seq(Byte) /\ Len(NetworkInt(n)) = IntSize
<1>1. \E bytes \in [1 .. IntSize -> Byte] : BytesToInt(bytes) = n
  BY DEF Unsigned
<1>2. BigEndian(n) \in [1 .. IntSize -> Byte] /\ BytesToInt(BigEndian(n)) = n
  BY <1>1 DEF BigEndian
<1>3. BigEndian(n) \in Seq(Byte) /\ Len(BigEndian(n)) = IntSize
  BY <1>2, ByteAssumption
<1> QED
  BY <1>2, <1>3, NetworkIntBytes

LEMMA IntToBytesIsBigEndian ==
  ASSUME NEW n \in Unsigned
  PROVE  IntToBytes(n, FALSE) = BigEndian(n)
<1>1. n \in Nat /\ IntSize \in Nat
  BY UnsignedType, ByteAssumption
<1>2. InMemory(Hton(n, IntSize), IntSize) = Reverse(InMemory(n, IntSize))
  BY <1>1, HtonSwaps
<1> QED
  BY <1>2, NetworkIntIsBigEndian DEF NetworkInt, IntToBytes

----------------------------------------------------------------------------
(* What the client says.                                                    *)

LEMMA BytesAreNumbers == \A s \in Seq(Byte) : s \in Seq(Nat)
BY BaseType DEF Byte

LEMMA Joining ==
  /\ \A a, b \in Seq(Nat) : a \o b \in Seq(Nat) /\ Len(a \o b) = Len(a) + Len(b)
  /\ \A a, b, c \in Seq(Nat) : (a \o b) \o c = a \o (b \o c)
BY ConcatProperties, ConcatAssociative

Joins(a, b, c, d, e) ==
  /\ b \o c \o d \o e \in Seq(Nat)
  /\ a \o b \o c \o d \o e = a \o (b \o c \o d \o e)
  /\ Len(b \o c \o d \o e) = Len(b) + Len(c) + Len(d) + Len(e)
  /\ Len(a \o b \o c \o d \o e) = Len(a) + (Len(b) + Len(c) + Len(d) + Len(e))

LEMMA JoiningBytes ==
  /\ \A a, b \in Seq(Byte) : a \o b \in Seq(Byte) /\ Len(a \o b) = Len(a) + Len(b)
  /\ \A a, b, c \in Seq(Byte) : (a \o b) \o c = a \o (b \o c)
  /\ \A a \in Seq(Byte) : a \o <<>> = a /\ <<>> \o a = a /\ Len(a) \in Nat
BY ConcatProperties, ConcatAssociative, ConcatEmptySeq

Regrouped(a, b, c, d, e) == (a \o (b \o c)) \o (d \o e) = (a \o b) \o ((c \o d) \o e)

LEMMA Regroup ==
  ASSUME NEW a \in Seq(Byte), NEW b \in Seq(Byte), NEW c \in Seq(Byte),
         NEW d \in Seq(Byte), NEW e \in Seq(Byte)
  PROVE  Regrouped(a, b, c, d, e)
<1> DEFINE de == d \o e
           bc == b \o c
           cde == c \o de
<1>1. (c \o d) \o e = cde
  BY JoiningBytes, Zenon
<1>2. de \in Seq(Byte) /\ bc \in Seq(Byte)
  BY JoiningBytes, Zenon
<1> HIDE DEF de
<1>3. bc \o de = b \o cde /\ cde \in Seq(Byte)
  BY <1>2, JoiningBytes, Zenon
<1> HIDE DEF bc, cde
<1>4. (a \o bc) \o de = a \o (bc \o de)
  BY <1>2, JoiningBytes, Zenon
<1>5. cde \in Seq(Byte)
  BY <1>3
<1>6. (a \o b) \o cde = a \o (b \o cde)
  BY <1>5, JoiningBytes, Zenon
<1>7. (a \o bc) \o de = (a \o b) \o cde
  BY <1>3, <1>4, <1>6, Zenon
<1> QED
  BY <1>1, <1>7, Zenon DEF Regrouped, bc, de

LEMMA JoinFive ==
  ASSUME NEW a \in Seq(Nat), NEW b \in Seq(Nat), NEW c \in Seq(Nat),
         NEW d \in Seq(Nat), NEW e \in Seq(Nat)
  PROVE  Joins(a, b, c, d, e)
<1> DEFINE bc == b \o c
           bcd == bc \o d
           bcde == bcd \o e
<1>1. bc \in Seq(Nat) /\ Len(bc) = Len(b) + Len(c) /\ (a \o b) \o c = a \o bc
  BY Joining, Zenon
<1> HIDE DEF bc
<1>2. bcd \in Seq(Nat) /\ Len(bcd) = Len(bc) + Len(d) /\ (a \o bc) \o d = a \o bcd
  BY <1>1, Joining, Zenon
<1> HIDE DEF bcd
<1>3. bcde \in Seq(Nat) /\ Len(bcde) = Len(bcd) + Len(e) /\ (a \o bcd) \o e = a \o bcde
  BY <1>2, Joining, Zenon
<1> HIDE DEF bcde
<1>4. Len(a \o bcde) = Len(a) + Len(bcde)
  BY <1>3, Joining, Zenon
<1>5. Len(bcde) = Len(b) + Len(c) + Len(d) + Len(e)
  BY <1>1, <1>2, <1>3
<1> QED
  BY <1>1, <1>2, <1>3, <1>4, <1>5, Zenon DEF Joins, bc, bcd, bcde

LEMMA InterestedIsSaid ==
  /\ MessageString(InitMessage(MessageId.Interested, <<>>)) = Interested
  /\ Interested \in Seq(Nat)
<1>1. 1 \in Unsigned
  BY WireAssumption
<1>2. BigEndian(1) \in Seq(Nat) /\ IntToBytes(1, FALSE) = BigEndian(1)
  BY <1>1, NetworkIntIsBigEndian, IntToBytesIsBigEndian, BytesAreNumbers
<1>3. MessageId.Interested = 2 /\ MessageId.KeepAlive = 10
  BY DEF MessageId
<1>4. Interested = BigEndian(1) \o <<2>>
  BY <1>3 DEF Interested, Framed
<1>5. MessageString(InitMessage(MessageId.Interested, <<>>)) = IntToBytes(1, FALSE) \o (<<2>> \o <<>>)
  <2> DEFINE m == InitMessage(2, <<>>)
  <2>1. m.id = 2 /\ m.id # MessageId.KeepAlive /\ m.payload = <<>> /\ m.messageLength + 1 = 1
    BY <1>3 DEF InitMessage
  <2> HIDE DEF m
  <2>2. MessageString(m) = IntToBytes(1, FALSE) \o (<<2>> \o <<>>)
    BY <2>1, Zenon DEF MessageString
  <2> QED
    BY <1>3, <2>2 DEF m
<1>6. <<2>> \o <<>> = <<2>> /\ <<2>> \in Seq(Nat)
  OBVIOUS
<1>7. BigEndian(1) \o <<2>> \in Seq(Nat)
  BY <1>2, <1>6
<1> QED
  BY <1>2, <1>4, <1>5, <1>6, <1>7

LEMMA RequestIsSaid ==
  ASSUME NEW block \in Blocks
  PROVE  RequestMessage(block) = Request[block] /\ Request[block] \in Seq(Nat)
<1> DEFINE zero  == [piece |-> 0, offset |-> 0, length |-> 0]
           piece == NetworkInt(block.piece)
           offset == NetworkInt(block.offset)
           length == NetworkInt(block.length)
           total == NetworkInt(1 + 3 * IntSize)
           body == <<6>> \o piece \o offset \o length
<1>1. MessageId.Request = 6
  BY DEF MessageId
<1>2. IntSize \in Nat
  BY ByteAssumption
<1>3. ASSUME NEW n \in Nat PROVE NetworkInt(n) \in Seq(Byte) /\ Len(NetworkInt(n)) = IntSize
  <2>1. Hton(n, IntSize) \in Nat
    BY <1>2, InMemoryType, ValueType DEF Hton
  <2> QED
    BY <1>2, <2>1, InMemoryType DEF NetworkInt, IntToBytes
<1>4. 1 + 3 * IntSize \in Unsigned
  <2>1. Len(RequestMessage(zero)) - IntSize \in Unsigned
    BY WireAssumption
  <2> DEFINE z == NetworkInt(0)
  <2>2. RequestMessage(zero) = total \o <<6>> \o z \o z \o z
    BY <1>1 DEF RequestMessage
  <2>3. z \in Seq(Nat) /\ Len(z) = IntSize /\ total \in Seq(Nat) /\ Len(total) = IntSize
    BY <1>2, <1>3, BytesAreNumbers
  <2> HIDE DEF z, total
  <2>4. Len(total \o <<6>> \o z \o z \o z) = IntSize + (1 + 3 * IntSize)
    <3> DEFINE six == <<6>>
    <3>1. six \in Seq(Nat) /\ Len(six) = 1
      OBVIOUS
    <3> HIDE DEF six
    <3>2. Len(total \o six \o z \o z \o z) = Len(total) + (Len(six) + Len(z) + Len(z) + Len(z))
      <4>1. Joins(total, six, z, z, z)
        BY <2>3, <3>1, JoinFive
      <4> QED
        BY <4>1, Zenon DEF Joins
    <3>3. Len(total) + (Len(six) + Len(z) + Len(z) + Len(z)) = IntSize + (1 + 3 * IntSize)
      BY <1>2, <2>3, <3>1
    <3> QED
      BY <3>2, <3>3, Zenon DEF six
  <2>5. Len(RequestMessage(zero)) - IntSize = 1 + 3 * IntSize
    BY <1>2, <2>2, <2>4
  <2> QED
    BY <2>1, <2>5
<1>5. /\ piece = BigEndian(block.piece) /\ piece \in Seq(Nat) /\ Len(piece) = IntSize
      /\ offset = BigEndian(block.offset) /\ offset \in Seq(Nat) /\ Len(offset) = IntSize
      /\ length = BigEndian(block.length) /\ length \in Seq(Nat) /\ Len(length) = IntSize
      /\ total = BigEndian(1 + 3 * IntSize) /\ total \in Seq(Nat)
  <2>1. block.piece \in Unsigned /\ block.offset \in Unsigned /\ block.length \in Unsigned
    BY WireAssumption
  <2> QED
    BY <1>4, <2>1, NetworkIntIsBigEndian, BytesAreNumbers
<1>6. Request[block] = Framed(<<6>> \o BigEndian(block.piece) \o BigEndian(block.offset) \o BigEndian(block.length))
  BY <1>1 DEF Request
<1>7. RequestMessage(block) = total \o <<6>> \o piece \o offset \o length
  BY <1>1 DEF RequestMessage
<1> HIDE DEF piece, offset, length, total
<1>8. body \in Seq(Nat) /\ Len(body) = 1 + 3 * IntSize /\ total \o body \in Seq(Nat)
      /\ total \o <<6>> \o piece \o offset \o length = total \o body
  <2> DEFINE six == <<6>>
  <2>1. six \in Seq(Nat) /\ Len(six) = 1
    OBVIOUS
  <2> HIDE DEF six
  <2> DEFINE said == six \o piece \o offset \o length
  <2>2. /\ said \in Seq(Nat)
        /\ Len(said) = Len(six) + Len(piece) + Len(offset) + Len(length)
        /\ total \o six \o piece \o offset \o length = total \o said
    <3>1. Joins(total, six, piece, offset, length)
      BY <1>5, <2>1, JoinFive
    <3> QED
      BY <3>1, Zenon DEF Joins
  <2> HIDE DEF said
  <2>3. total \o said \in Seq(Nat) /\ Len(said) = 1 + 3 * IntSize
    BY <1>2, <1>5, <2>1, <2>2, Joining
  <2> QED
    BY <2>2, <2>3, Zenon DEF six, said
<1>9. Request[block] = total \o body
  BY <1>5, <1>6, <1>8 DEF Framed
<1> QED
  BY <1>7, <1>8, <1>9

Hello == Handshake(3, 4)
Said(blocks) == FlattenSeq([k \in DOMAIN blocks |-> Request[blocks[k]]])

HeardInv ==
  /\ asked \in Seq(Blocks)
  /\ outgoing \in {<<>>, Hello, Hello \o Interested \o Said(asked)}
  /\ at = "Connected" => outgoing = <<>>
  /\ at \in {"Handshake", "Bitfield", "Interested"} => outgoing = Hello
  /\ at \in {"Connected", "Handshake", "Bitfield", "Interested"} => asked = <<>>
  /\ at \in {"Loop", "Ask"} => outgoing = Hello \o Interested \o Said(asked)

LEMMA SaidAppend ==
  ASSUME NEW blocks \in Seq(Blocks), NEW block \in Blocks
  PROVE  /\ Hello \o Interested \o Said(Append(blocks, block))
              = (Hello \o Interested \o Said(blocks)) \o Request[block]
         /\ Said(<<>>) = <<>>
         /\ Hello \in Seq(Nat) /\ Interested \in Seq(Nat)
<1> DEFINE requests == [k \in DOMAIN blocks |-> Request[blocks[k]]]
           last == Request[block]
<1>1. \A b \in Blocks : Request[b] \in Seq(Nat)
  BY RequestIsSaid
<1>2. last \in Seq(Nat) /\ requests \in Seq(Seq(Nat)) /\ Len(requests) = Len(blocks)
  BY <1>1
<1>3. [k \in DOMAIN Append(blocks, block) |-> Request[Append(blocks, block)[k]]] = Append(requests, last)
  OBVIOUS
<1> HIDE DEF requests, last
<1>4. FlattenSeq(Append(requests, last)) = FlattenSeq(requests) \o last
  BY <1>2, FlattenAppend
<1>5. FlattenSeq(requests) \in Seq(Nat)
  BY <1>2, FlattenType
<1>6. Hello \in Seq(Nat) /\ Interested \in Seq(Nat)
  BY InterestedIsSaid DEF Hello, Handshake, Pstr
<1>7. Said(<<>>) = <<>>
  <2>1. [k \in DOMAIN <<>> |-> Request[<<>>[k]]] = <<>>
    OBVIOUS
  <2> QED
    BY <2>1 DEF Said, FlattenSeq
<1> HIDE DEF Hello, Interested
<1>8. Hello \o Interested \o (FlattenSeq(requests) \o last) = (Hello \o Interested \o FlattenSeq(requests)) \o last
  <2>1. Hello \o Interested \in Seq(Nat)
    BY <1>6
  <2> QED
    BY <1>2, <1>5, <1>6, <2>1, Joining, Zenon
<1> QED
  BY <1>3, <1>4, <1>6, <1>7, <1>8 DEF Said, requests, last

LEMMA HeardStep == HeardInv /\ [Next]_vars => HeardInv'
<1> SUFFICES ASSUME HeardInv, [Next]_vars PROVE HeardInv'
  OBVIOUS
<1> USE DEF HeardInv
<1> DEFINE begin == Hello \o Interested
<1>1. ASSUME UNCHANGED <<outgoing, asked, at>> PROVE HeardInv'
  BY <1>1
\* Every step to "Run", "Refused" or "Over" but Throw's is one of these too.
<1>2. ASSUME UNCHANGED <<outgoing, asked>>, at' \in {"Run", "Refused", "Over"} PROVE HeardInv'
  BY <1>2
<1>3. ASSUME UNCHANGED <<outgoing, asked>>, at \in {"Loop", "Ask"}, at' \in {"Loop", "Ask"}
      PROVE  HeardInv'
  BY <1>3
<1>4. CASE Connect
  BY <1>4 DEF Connect, EstablishConnection
<1>5. CASE SendHandshake
  <2>1. Hello \in Seq(Nat)
    BY DEF Hello, Handshake, Pstr
  <2>2. outgoing' = <<>> \o Hello /\ asked' = <<>> /\ at' = "Handshake"
    BY <1>5 DEF SendHandshake, SendData, historyVars, Hello
  <2> QED
    BY <2>1, <2>2, ConcatEmptySeq
<1>6. CASE HandshakeAnswered \/ ReceiveBitfield
  BY <1>2, <1>6 DEF HandshakeAnswered, ReceiveBitfield, Receives
<1>7. CASE SendInterested
  <2>1. outgoing' = Hello \o Interested /\ asked' = <<>> /\ at' = "Loop"
    BY <1>7, InterestedIsSaid DEF SendInterested, SendData, historyVars
  <2>2. Hello \o Interested \o Said(<<>>) = Hello \o Interested
    <3>1. Said(<<>>) = <<>> /\ begin \in Seq(Nat)
      <4>1. [k \in DOMAIN <<>> |-> Request[<<>>[k]]] = <<>>
        OBVIOUS
      <4>2. Hello \in Seq(Nat) /\ Interested \in Seq(Nat)
        BY InterestedIsSaid DEF Hello, Handshake, Pstr
      <4> QED
        BY <4>1, <4>2, Joining DEF Said, FlattenSeq
    <3> HIDE DEF begin
    <3>2. begin \o <<>> = begin
      BY <3>1
    <3> QED
      BY <3>1, <3>2, Zenon DEF begin
  <2>3. asked' \in Seq(Blocks)
    BY <2>1
  <2> QED
    BY <2>1, <2>2, <2>3
<1>8. CASE RequestPiece
  <2>1. PICK block \in Blocks :
          /\ at = "Ask" /\ at' = "Loop"
          /\ outgoing' = outgoing \o RequestMessage(block)
          /\ asked' = Append(asked, block)
    BY <1>8 DEF RequestPiece, SendData
  <2>2. outgoing' = Hello \o Interested \o Said(asked')
    BY <2>1, RequestIsSaid, SaidAppend
  <2>3. asked' \in Seq(Blocks)
    BY <2>1
  <2> QED
    BY <2>1, <2>2, <2>3
<1>9. CASE HandleKeepAlive \/ HandleChoke \/ HandleUnchoke \/ HandleOther
  BY <1>2, <1>3, <1>9
    DEF HandleKeepAlive, HandleChoke, HandleUnchoke, HandleOther, Handles, Receives
<1>10. CASE HandleHave \/ HandlePiece
  BY <1>2, <1>3, <1>10 DEF HandleHave, HandlePiece, Handles, Receives, Throw
<1>11. CASE RunReturns \/ ConnectFails \/ TerminateRefused \/ SendFails \/ LoopStops
  BY <1>2, <1>11
    DEF RunReturns, ConnectFails, TerminateRefused, SendFails, LoopStops, tcpVars, historyVars,
        EstablishConnectionThrows
<1>12. CASE CallReceiveData
  BY <1>1, <1>12 DEF CallReceiveData, historyVars
<1>13. CASE AskNothing
  BY <1>3, <1>13 DEF AskNothing, tcpVars, historyVars
<1>14. CASE RequestFails
  BY <1>2, <1>14 DEF RequestFails, Throw, tcpVars, historyVars
<1>15. CASE ReadOn
  BY <1>1, <1>15 DEF ReadOn, Recv, LengthReceived, InReceiveData, historyVars
<1>16. CASE ReceiveThrows \/ ReceiveFails
  BY <1>2, <1>16
    DEF ReceiveThrows, ReceiveFails, PollTimesOut, EndOfStream, PollOrRecvFails, LeaveReceiveData,
        InReceiveData, historyVars
<1>17. CASE PeerSends \/ PeerCloses \/ Terminate \/ Destroy
  BY <1>1, <1>17
    DEF PeerSends, PeerCloses, Terminate, Destroy, CloseConnection, tcpVars, historyVars
<1>18. CASE UNCHANGED vars
  BY <1>1, <1>18 DEF vars, tcpVars, historyVars
<1> QED
  BY <1>4, <1>5, <1>6, <1>7, <1>8, <1>9, <1>10, <1>11, <1>12, <1>13, <1>14, <1>15, <1>16, <1>17,
     <1>18 DEF Next, Thread, Returned

\* A peer can decode every byte it is sent, whatever the blocks asked for and
\* however often the connection is lost (SendData, PerformHandshake,
\* SendInterested, RequestPiece).
THEOREM HeardAsSaid == Spec => []PeerHearsWhatIsSaid
<1>1. Init => HeardInv
  <2>1. <<>> \in Seq(Blocks)
    OBVIOUS
  <2> QED
    BY <2>1 DEF Init, TcpInit, HeardInv
<1>2. HeardInv => PeerHearsWhatIsSaid
  BY DEF HeardInv, PeerHearsWhatIsSaid, Hello, Said
<1> QED
  BY <1>1, <1>2, HeardStep, PTL DEF Spec

----------------------------------------------------------------------------
(* What the client hears.                                                   *)

\* The bytes of what has been said after the first n messages: the greeting as
\* it is, the others with their length in front.
OnWire(said, k) == IF k = 1 THEN said[1] ELSE Frame(said[k])
Due(said, n) == [k \in 1 .. Len(said) - n |-> OnWire(said, n + k)]

Sayable(said) ==
  /\ said \in Seq(Seq(Byte))
  /\ \A k \in 1 .. Len(said) : said[k] \in IF k = 1 THEN Greetings ELSE PeerMessages

LEMMA FrameType ==
  ASSUME NEW m \in PeerMessages
  PROVE  /\ m \in Seq(Byte) /\ Len(m) \in Unsigned
         /\ NetworkInt(Len(m)) \in Seq(Byte) /\ Len(NetworkInt(Len(m))) = IntSize
         /\ Frame(m) \in Seq(Byte)
<1>1. m \in Seq(Byte) /\ Len(m) \in Unsigned
  BY WireAssumption
<1>2. NetworkInt(Len(m)) \in Seq(Byte) /\ Len(NetworkInt(Len(m))) = IntSize
  BY <1>1, NetworkIntIsBigEndian
<1> QED
  BY <1>1, <1>2 DEF Frame

LEMMA OnWireType ==
  ASSUME NEW said, Sayable(said), NEW k \in 1 .. Len(said)
  PROVE  OnWire(said, k) \in Seq(Byte)
<1>1. CASE k = 1
  BY <1>1 DEF OnWire, Sayable
<1>2. CASE k # 1
  BY <1>2, FrameType DEF OnWire, Sayable
<1> QED
  BY <1>1, <1>2

LEMMA DueType ==
  ASSUME NEW said, Sayable(said), NEW n \in Nat, n <= Len(said)
  PROVE  Due(said, n) \in Seq(Seq(Byte)) /\ Len(Due(said, n)) = Len(said) - n
<1> DEFINE left == Len(said) - n
           Q == Seq(Byte)
<1>1. Len(said) \in Nat /\ left \in Nat
  BY DEF Sayable
<1>2. \A k \in 1 .. left : OnWire(said, n + k) \in Q
  <2> SUFFICES ASSUME NEW k \in 1 .. left PROVE OnWire(said, n + k) \in Q
    OBVIOUS
  <2>1. n + k \in 1 .. Len(said)
    BY <1>1
  <2> QED
    BY <2>1, OnWireType
<1>3. Due(said, n) = [k \in 1 .. left |-> OnWire(said, n + k)]
  BY DEF Due
<1> HIDE DEF left, Q
<1>4. Due(said, n) \in Seq(Q) /\ Len(Due(said, n)) = left
  BY <1>1, <1>2, <1>3
<1> QED
  BY <1>4 DEF left, Q

LEMMA DueAppend ==
  ASSUME NEW said, Sayable(said), NEW n \in Nat, n <= Len(said),
         NEW m \in IF said = <<>> THEN Greetings ELSE PeerMessages
  PROVE  /\ Sayable(Append(said, m)) /\ Len(Append(said, m)) = Len(said) + 1
         /\ Due(Append(said, m), n) = Append(Due(said, n), IF said = <<>> THEN m ELSE Frame(m))
<1> DEFINE Q == Seq(Byte)
           longer == Append(said, m)
           last == IF said = <<>> THEN m ELSE Frame(m)
           left == Len(said) - n
<1>1. m \in Q /\ said \in Seq(Q) /\ Len(said) \in Nat /\ left \in Nat
  BY WireAssumption DEF Sayable
<1> HIDE DEF Q
<1>2. /\ longer \in Seq(Q) /\ Len(longer) = Len(said) + 1 /\ longer[Len(said) + 1] = m
      /\ \A k \in 1 .. Len(said) : longer[k] = said[k]
      /\ said = <<>> <=> Len(said) = 0
  BY <1>1
<1> HIDE DEF longer
<1>3. Sayable(longer)
  <2>1. ASSUME NEW k \in 1 .. Len(longer)
        PROVE  longer[k] \in IF k = 1 THEN Greetings ELSE PeerMessages
    <3>1. CASE k = Len(said) + 1
      BY <1>1, <1>2, <3>1
    <3>2. CASE k \in 1 .. Len(said)
      BY <1>2, <3>2 DEF Sayable
    <3> QED
      BY <1>1, <1>2, <3>1, <3>2
  <2> QED
    BY <1>2, <2>1 DEF Sayable, Q
<1>4. OnWire(longer, Len(said) + 1) = last
  BY <1>1, <1>2 DEF OnWire
<1>5. \A k \in 1 .. Len(said) : OnWire(longer, k) = OnWire(said, k)
  <2> SUFFICES ASSUME NEW k \in 1 .. Len(said) PROVE OnWire(longer, k) = OnWire(said, k)
    OBVIOUS
  <2>1. longer[k] = said[k]
    BY <1>2
  <2>2. CASE k = 1
    <3>1. longer[1] = said[1]
      BY <2>1, <2>2
    <3> QED
      BY <2>2, <3>1 DEF OnWire
  <2>3. CASE k # 1
    BY <2>1, <2>3, Zenon DEF OnWire
  <2> QED
    BY <2>2, <2>3
<1>6. Due(longer, n) \in Seq(Q) /\ Len(Due(longer, n)) = left + 1
  <2>1. n <= Len(longer) /\ Len(longer) - n = left + 1
    BY <1>1, <1>2
  <2>2. Due(longer, n) \in Seq(Seq(Byte)) /\ Len(Due(longer, n)) = Len(longer) - n
    BY <1>3, <2>1, DueType, Zenon
  <2> QED
    BY <2>1, <2>2 DEF Q
<1>7. Due(said, n) \in Seq(Q) /\ Len(Due(said, n)) = left
  BY <1>1, <1>3, DueType DEF Q
<1>8. last \in Q
  <2>1. Len(said) + 1 \in 1 .. Len(longer)
    BY <1>1, <1>2
  <2> QED
    BY <1>3, <1>4, <2>1, OnWireType DEF Q
<1> HIDE DEF last
<1>9. \A k \in 1 .. left + 1 : Due(longer, n)[k] = OnWire(longer, n + k)
  BY <1>1, <1>2 DEF Due
<1>10. \A k \in 1 .. left : Due(said, n)[k] = OnWire(said, n + k)
  BY <1>1 DEF Due
<1> DEFINE due == Due(said, n)
           more == Append(due, last)
<1> HIDE DEF due
<1>11. /\ more \in Seq(Q) /\ Len(more) = left + 1 /\ more[left + 1] = last
       /\ \A k \in 1 .. left : more[k] = due[k]
  <2>1. due \in Seq(Q) /\ Len(due) = left
    BY <1>7 DEF due
  <2> HIDE DEF left
  <2> QED
    BY <1>1, <1>8, <2>1
<1> HIDE DEF more
<1>12. EqualOn(Due(longer, n), more, 1 .. left + 1)
  <2> SUFFICES ASSUME NEW k \in 1 .. left + 1
               PROVE  Due(longer, n)[k] = more[k]
    BY DEF EqualOn
  <2>1. CASE k = left + 1
    <3>1. n + k = Len(said) + 1
      BY <1>1, <2>1
    <3> QED
      BY <1>4, <1>9, <1>11, <2>1, <3>1
  <2>2. CASE k \in 1 .. left
    <3>1. n + k \in 1 .. Len(said)
      BY <1>1, <2>2
    <3> QED
      BY <1>5, <1>9, <1>10, <1>11, <2>2, <3>1 DEF due
  <2> QED
    BY <1>1, <2>1, <2>2
<1>13. Due(longer, n) = more
  <2>1. more \in [1 .. left + 1 -> Q]
    BY <1>11
  <2>2. Due(longer, n) \in [1 .. left + 1 -> Q]
    BY <1>6
  <2> QED
    BY <1>12, <2>1, <2>2, SameFunction
<1> QED
  BY <1>2, <1>3, <1>13 DEF longer, last, more, due

LEMMA DueNext ==
  ASSUME NEW said, Sayable(said), NEW n \in Nat, n < Len(said)
  PROVE  /\ OnWire(said, n + 1) \in Seq(Byte)
         /\ Due(said, n + 1) \in Seq(Seq(Byte))
         /\ Due(said, n) = <<OnWire(said, n + 1)>> \o Due(said, n + 1)
<1> DEFINE Q == Seq(Byte)
           left == Len(said) - (n + 1)
           first == OnWire(said, n + 1)
           rest == Due(said, n + 1)
           all == <<first>> \o rest
<1>1. Len(said) \in Nat /\ left \in Nat /\ n + 1 \in Nat /\ n + 1 <= Len(said)
      /\ Len(said) - n = left + 1 /\ n <= Len(said)
  BY DEF Sayable
<1>2. first \in Q
  BY <1>1, OnWireType
<1>3. rest \in Seq(Q) /\ Len(rest) = left
  BY <1>1, DueType
<1>4. Due(said, n) \in Seq(Q) /\ Len(Due(said, n)) = left + 1
  BY <1>1, DueType
<1>5. \A k \in 1 .. left + 1 : Due(said, n)[k] = OnWire(said, n + k)
  BY <1>1 DEF Due
<1>6. \A k \in 1 .. left : rest[k] = OnWire(said, (n + 1) + k)
  BY <1>1 DEF Due
<1> HIDE DEF Q, first, rest, left
<1>7. /\ all \in Seq(Q) /\ Len(all) = left + 1 /\ all[1] = first
      /\ \A k \in 1 .. left : all[k + 1] = rest[k]
  <2>1. <<first>> \in Seq(Q) /\ Len(<<first>>) = 1 /\ <<first>>[1] = first
    BY <1>2
  <2>2. all \in Seq(Q) /\ Joined(all, <<first>>, rest)
    BY <1>3, <2>1, Concat
  <2> HIDE DEF all
  <2>3. 1 \in 1 .. Len(<<first>>) /\ Len(all) = 1 + left
    BY <1>3, <2>1, <2>2 DEF Joined
  <2>4. all[1] = first
    BY <2>1, <2>2, <2>3 DEF Joined
  <2>5. ASSUME NEW k \in 1 .. left PROVE all[k + 1] = rest[k]
    <3>1. all[Len(<<first>>) + k] = rest[k] /\ Len(<<first>>) + k = k + 1
      BY <1>1, <1>3, <2>1, <2>2 DEF Joined
    <3> QED
      BY <3>1
  <2> QED
    BY <1>1, <2>2, <2>3, <2>4, <2>5
<1> HIDE DEF all
<1>8. EqualOn(Due(said, n), all, 1 .. left + 1)
  <2> SUFFICES ASSUME NEW k \in 1 .. left + 1 PROVE Due(said, n)[k] = all[k]
    BY DEF EqualOn
  <2>1. CASE k = 1
    BY <1>5, <1>7, <2>1 DEF first
  <2>2. CASE k # 1
    <3>1. k - 1 \in 1 .. left /\ (n + 1) + (k - 1) = n + k /\ (k - 1) + 1 = k
      BY <1>1, <2>2
    <3> QED
      BY <1>5, <1>6, <1>7, <3>1
  <2> QED
    BY <2>1, <2>2
<1>9. Due(said, n) = all
  <2>1. Due(said, n) \in [1 .. left + 1 -> Q] /\ all \in [1 .. left + 1 -> Q]
    BY <1>4, <1>7
  <2> QED
    BY <1>8, <2>1, SameFunction
<1> QED
  BY <1>2, <1>3, <1>9 DEF all, first, rest, Q

LEMMA DueNothing ==
  ASSUME NEW said, Sayable(said)
  PROVE  FlattenSeq(Due(said, Len(said))) = <<>>
<1>1. Len(said) \in Nat /\ Len(said) - Len(said) = 0
  BY DEF Sayable
<1>2. Due(said, Len(said)) = <<>>
  BY <1>1 DEF Due
<1> QED
  BY <1>2 DEF FlattenSeq

\* A message that has been read to its end is the one that was due.
LEMMA GreetingTaken ==
  ASSUME NEW said, Sayable(said),
         NEW got \in Seq(Byte), Len(got) = Len(Handshake(0, 0)), NEW more \in Seq(Byte),
         got \o more = FlattenSeq(Due(said, 0))
  PROVE  Len(said) > 0 /\ got = said[1] /\ more = FlattenSeq(Due(said, 1))
<1>1. Len(Handshake(0, 0)) = 5 /\ Len(said) \in Nat
  BY DEF Handshake, Pstr, Sayable
<1>2. Len(said) # 0
  <2> SUFFICES ASSUME Len(said) = 0 PROVE FALSE
    OBVIOUS
  <2>1. got \o more = <<>>
    BY DueNothing
  <2>2. Len(got \o more) = Len(got) + Len(more) /\ Len(more) \in Nat /\ Len(<<>>) = 0
    OBVIOUS
  <2> QED
    BY <1>1, <2>1, <2>2
<1>3. Len(said) > 0 /\ 0 + 1 = 1
  BY <1>1, <1>2
<1> DEFINE rest == FlattenSeq(Due(said, 1))
<1>4. OnWire(said, 1) = said[1] /\ said[1] \in Greetings
  <2>1. 1 \in 1 .. Len(said)
    BY <1>1, <1>3
  <2> QED
    BY <2>1 DEF OnWire, Sayable
<1>5. said[1] \in Seq(Byte) /\ Len(said[1]) = Len(Handshake(0, 0))
  BY <1>4, WireAssumption
<1>6. Due(said, 1) \in Seq(Seq(Byte)) /\ Due(said, 0) = <<said[1]>> \o Due(said, 1)
  BY <1>3, <1>4, DueNext
<1>7. got \o more = said[1] \o rest /\ rest \in Seq(Byte)
  BY <1>5, <1>6, FlattenFirst, FlattenType
<1> HIDE DEF rest
<1>8. got = said[1] /\ more = rest
  BY <1>5, <1>7, SplitEqual
<1> QED
  BY <1>3, <1>8 DEF rest

LEMMA MessageTaken ==
  ASSUME NEW said, Sayable(said), NEW n \in Nat \ {0}, n <= Len(said),
         NEW got \in Seq(Byte), Len(got) \in Unsigned, NEW more \in Seq(Byte),
         (NetworkInt(Len(got)) \o got) \o more = FlattenSeq(Due(said, n))
  PROVE  n < Len(said) /\ got = said[n + 1] /\ more = FlattenSeq(Due(said, n + 1))
<1> DEFINE front == NetworkInt(Len(got))
<1>1. front \in Seq(Byte) /\ Len(front) = IntSize /\ BytesToInt(front) = Len(got)
  BY NetworkIntIsBigEndian
<1> HIDE DEF front
<1>2. Len(said) \in Nat /\ IntSize \in Nat \ {0}
  BY ByteAssumption DEF Sayable
<1>3. front \o got \in Seq(Byte) /\ (front \o got) \o more = front \o (got \o more) /\ got \o more \in Seq(Byte)
  BY <1>1, JoiningBytes, Zenon
<1>4. n < Len(said)
  <2> SUFFICES ASSUME n = Len(said) PROVE FALSE
    BY <1>2
  <2>1. (front \o got) \o more = <<>>
    BY DueNothing DEF front
  <2>2. Len(front \o (got \o more)) = Len(front) + Len(got \o more) /\ Len(got \o more) \in Nat /\ Len(<<>>) = 0
    <3>1. Len(<<>>) = 0
      OBVIOUS
    <3> QED
      BY <1>1, <1>3, <3>1, JoiningBytes, Zenon
  <2> QED
    BY <1>1, <1>2, <1>3, <2>1, <2>2
<1> DEFINE m == said[n + 1]
           rest == FlattenSeq(Due(said, n + 1))
           head == NetworkInt(Len(m))
<1>5. OnWire(said, n + 1) = Frame(m) /\ m \in PeerMessages
  <2>1. n + 1 \in 1 .. Len(said) /\ n + 1 # 1
    BY <1>2, <1>4
  <2> QED
    BY <2>1 DEF OnWire, Sayable
<1>6. Due(said, n + 1) \in Seq(Seq(Byte)) /\ Due(said, n) = <<Frame(m)>> \o Due(said, n + 1)
  BY <1>4, <1>5, DueNext
<1>7. /\ m \in Seq(Byte) /\ Len(m) \in Unsigned
      /\ head \in Seq(Byte) /\ Len(head) = IntSize /\ BytesToInt(head) = Len(m)
      /\ Frame(m) \in Seq(Byte) /\ Frame(m) = head \o m
  BY <1>5, FrameType, NetworkIntIsBigEndian DEF Frame
<1>8. FlattenSeq(Due(said, n)) = Frame(m) \o rest /\ rest \in Seq(Byte)
  BY <1>6, <1>7, FlattenFirst, FlattenType
<1> HIDE DEF m, rest, head
<1>9. (head \o m) \o rest = head \o (m \o rest) /\ m \o rest \in Seq(Byte)
  BY <1>7, <1>8, JoiningBytes, Zenon
<1>10. front = head /\ got \o more = m \o rest
  <2>1. front \o (got \o more) = head \o (m \o rest)
    BY <1>3, <1>7, <1>8, <1>9 DEF front
  <2> QED
    BY <1>1, <1>3, <1>7, <1>9, <2>1, SplitEqual
<1>11. Len(got) = Len(m)
  BY <1>1, <1>7, <1>10
<1>12. got = m /\ more = rest
  BY <1>7, <1>8, <1>10, <1>11, SplitEqual
<1> QED
  BY <1>4, <1>12 DEF m, rest

\* What ReceiveData has taken from the stream and not returned.
Taken(place, where, size, got) ==
  (IF where = "Body" /\ place # "Handshake" THEN NetworkInt(size) ELSE <<>>) \o got

\* What is due is what has been taken, what is in the stream, and, of a peer
\* that has closed, what will never come.
Carries(taken, wire, ended, said, n) ==
  \E lost \in Seq(Byte) :
    /\ ended \/ lost = <<>>
    /\ taken \o (wire \o lost) = FlattenSeq(Due(said, n))

Away == {"Run", "Refused", "Over"}

WireType ==
  /\ at \in Away \cup {"Connected", "Handshake", "Bitfield", "Interested", "Loop", "Ask"}
  /\ reading \in {"No", "Length", "Body"}
  /\ stream \in Seq(Byte) /\ buffer \in Seq(Byte) /\ closed \in BOOLEAN
  /\ Sayable(sent) /\ received \in Seq(Seq(Byte)) /\ Len(received) <= Len(sent)

ReadingInv ==
  /\ at \in Away \cup {"Connected", "Interested", "Ask"} => reading = "No"
  /\ at = "Handshake" => reading = "Body" /\ bufferSize = Len(Handshake(0, 0))
  /\ at = "Bitfield" => reading # "No"
  /\ at \in {"Connected", "Handshake"} => received = <<>>
  /\ at \in {"Bitfield", "Interested", "Loop", "Ask"} => received # <<>>
  /\ reading = "No" => buffer = <<>>
  /\ reading = "Length" => bufferSize = IntSize
  /\ reading = "Body" /\ at # "Handshake" => bufferSize \in Unsigned
  /\ reading # "No" => Len(buffer) <= bufferSize

StreamInv ==
  at \notin Away =>
    Carries(Taken(at, reading, bufferSize, buffer), stream, closed, sent, Len(received))

ChannelInv == WireType /\ ReadingInv /\ StreamInv

----------------------------------------------------------------------------
LEMMA SizeType == ChannelInv /\ reading # "No" => bufferSize \in Nat
<1>1. Len(Handshake(0, 0)) = 5 /\ IntSize \in Nat
  BY ByteAssumption DEF Handshake, Pstr
<1> QED
  BY <1>1, UnsignedType DEF ChannelInv, WireType, ReadingInv

LEMMA TakenType ==
  ASSUME ChannelInv
  PROVE  Taken(at, reading, bufferSize, buffer) \in Seq(Byte)
<1>1. ASSUME reading = "Body", at # "Handshake" PROVE NetworkInt(bufferSize) \in Seq(Byte)
  BY <1>1, NetworkIntIsBigEndian DEF ChannelInv, ReadingInv
<1>2. buffer \in Seq(Byte)
  BY DEF ChannelInv, WireType
<1>3. CASE reading = "Body" /\ at # "Handshake"
  BY <1>1, <1>2, <1>3, JoiningBytes DEF Taken
<1>4. CASE ~(reading = "Body" /\ at # "Handshake")
  BY <1>2, <1>4, JoiningBytes DEF Taken
<1> QED
  BY <1>3, <1>4

\* Steps that touch nothing of this.
LEMMA ChannelStutter ==
  ASSUME ChannelInv, UNCHANGED <<at, readVars, stream, closed, sent, received>>
  PROVE  ChannelInv'
BY DEF ChannelInv, WireType, ReadingInv, StreamInv, readVars

\* Steps out of the connection.
LEMMA ChannelLeft ==
  ASSUME ChannelInv, UNCHANGED <<stream, closed, sent, received>>, at' \in Away,
         StopReading \/ (reading = "No" /\ UNCHANGED readVars)
  PROVE  ChannelInv'
<1>1. reading' = "No" /\ buffer' = <<>>
  BY DEF StopReading, readVars, ChannelInv, ReadingInv
<1> QED
  BY <1>1 DEF ChannelInv, WireType, ReadingInv, StreamInv, Away

LEMMA ConnectKeeps == ChannelInv /\ Connect => ChannelInv'
<1> SUFFICES ASSUME ChannelInv, Connect PROVE ChannelInv'
  OBVIOUS
<1>1. /\ at' = "Connected" /\ at = "Run" /\ UNCHANGED readVars
      /\ stream' = <<>> /\ closed' \in BOOLEAN /\ sent' = <<>> /\ received' = <<>>
  BY DEF Connect, EstablishConnection
<1>2. reading = "No" /\ buffer = <<>>
  BY <1>1 DEF ChannelInv, ReadingInv, Away
<1>3. Sayable(<<>>) /\ Len(<<>>) = 0 /\ <<>> \in Seq(Byte) /\ <<>> \o <<>> = <<>>
  BY DEF Sayable
<1>4. FlattenSeq(Due(<<>>, 0)) = <<>>
  BY <1>3, DueNothing
<1>5. Carries(<<>>, <<>>, closed', <<>>, 0)
  BY <1>3, <1>4 DEF Carries
<1>6. Taken("Connected", "No", bufferSize, <<>>) = <<>>
  BY <1>3 DEF Taken
<1>7. WireType'
  BY <1>1, <1>2, <1>3 DEF WireType, readVars
<1>8. ReadingInv'
  BY <1>1, <1>2 DEF ReadingInv, readVars, Away
<1>9. StreamInv'
  BY <1>1, <1>2, <1>3, <1>5, <1>6 DEF StreamInv, readVars
<1> QED
  BY <1>7, <1>8, <1>9 DEF ChannelInv

\* A call of ReceiveData takes nothing yet.
LEMMA CallKeeps ==
  ASSUME ChannelInv, reading = "No", at \notin Away, NEW size \in {0, Len(Handshake(0, 0))},
         ReceiveData(size), UNCHANGED <<stream, closed, sent, received>>,
         \/ at = "Loop" /\ at' = "Loop" /\ size = 0
         \/ at = "Connected" /\ at' = "Handshake" /\ size # 0
  PROVE  ChannelInv'
<1>1. Len(Handshake(0, 0)) = 5 /\ IntSize \in Nat
  BY ByteAssumption DEF Handshake, Pstr
<1>2. buffer = <<>> /\ buffer' = <<>> /\ <<>> \in Seq(Byte) /\ Len(<<>>) = 0
  BY DEF ChannelInv, ReadingInv, ReceiveData
<1>3. \/ size = 0 /\ reading' = "Length" /\ bufferSize' = IntSize
      \/ size = 5 /\ reading' = "Body" /\ bufferSize' = 5
  BY <1>1 DEF ReceiveData
<1>4. Taken(at, reading, bufferSize, buffer) = <<>> \o <<>>
  BY <1>2 DEF Taken
<1>5. Taken(at', reading', bufferSize', buffer') = <<>> \o <<>>
  BY <1>1, <1>2, <1>3 DEF Taken
<1>6. WireType'
  BY <1>2, <1>3 DEF ChannelInv, WireType
<1>7. ReadingInv'
  BY <1>1, <1>2, <1>3 DEF ChannelInv, ReadingInv, Away
<1>8. StreamInv'
  BY <1>4, <1>5 DEF ChannelInv, StreamInv
<1> QED
  BY <1>6, <1>7, <1>8 DEF ChannelInv

LEMMA RecvKeeps ==
  ASSUME ChannelInv, Recv, UNCHANGED <<at, sent, received>>
  PROVE  ChannelInv'
<1>1. PICK k \in 1 .. Min({bufferSize - Len(buffer), Len(stream)}) :
        /\ buffer' = buffer \o SubSeq(stream, 1, k)
        /\ stream' = SubSeq(stream, k + 1, Len(stream))
  BY DEF Recv
<1>2. reading # "No" /\ UNCHANGED <<closed, reading, bufferSize>> /\ Len(buffer) < bufferSize
  BY DEF Recv, Waits
<1>3. /\ bufferSize \in Nat /\ buffer \in Seq(Byte) /\ stream \in Seq(Byte)
      /\ Len(buffer) \in Nat /\ Len(stream) \in Nat
  BY <1>2, SizeType DEF ChannelInv, WireType
<1>4. k \in Nat /\ k <= bufferSize - Len(buffer) /\ k <= Len(stream)
  <2>1. bufferSize - Len(buffer) \in Int /\ Len(stream) \in Int
    BY <1>3
  <2>2. Min({bufferSize - Len(buffer), Len(stream)})
          = IF bufferSize - Len(buffer) <= Len(stream) THEN bufferSize - Len(buffer) ELSE Len(stream)
    BY <2>1, MinOfTwo
  <2> QED
    BY <1>1, <2>1, <2>2
<1> DEFINE some == SubSeq(stream, 1, k)
           more == SubSeq(stream, k + 1, Len(stream))
<1>5. some \in Seq(Byte) /\ more \in Seq(Byte) /\ Len(some) = k
  BY <1>3, <1>4
<1>6. some \o more = stream
  <2>1. 1 \in 1 .. Len(stream) + 1 /\ k \in 1 - 1 .. Len(stream) /\ Len(stream) \in k .. Len(stream)
    BY <1>3, <1>4
  <2>2. some \o more = SubSeq(stream, 1, Len(stream))
    BY <1>3, <2>1, ConcatAdjacentSubSeq
  <2>3. SubSeq(stream, 1, Len(stream)) = stream
    BY <1>3, SubSeqFull
  <2> QED
    BY <2>2, <2>3, Zenon
<1>7. buffer' = buffer \o some /\ stream' = more
  BY <1>1
<1> HIDE DEF some, more
<1>8. buffer' \in Seq(Byte) /\ Len(buffer') = Len(buffer) + k
  BY <1>3, <1>5, <1>7, JoiningBytes
<1> DEFINE front == IF reading = "Body" /\ at # "Handshake" THEN NetworkInt(bufferSize) ELSE <<>>
<1>9. front \in Seq(Byte)
  <2>1. CASE reading = "Body" /\ at # "Handshake"
    BY <2>1, NetworkIntIsBigEndian DEF ChannelInv, ReadingInv
  <2> QED
    BY <2>1
<1>10. Taken(at, reading, bufferSize, buffer) = front \o buffer
       /\ Taken(at', reading', bufferSize', buffer') = front \o (buffer \o some)
  BY <1>2, <1>7, Zenon DEF Taken
<1> HIDE DEF front
<1>11. ASSUME NEW lost \in Seq(Byte)
       PROVE  (front \o (buffer \o some)) \o (more \o lost) = (front \o buffer) \o (stream \o lost)
  <2>1. (front \o (buffer \o some)) \o (more \o lost) = (front \o buffer) \o ((some \o more) \o lost)
    <3>1. Regrouped(front, buffer, some, more, lost)
      BY <1>3, <1>5, <1>9, Regroup
    <3> QED
      BY <3>1, Zenon DEF Regrouped
  <2> QED
    BY <1>6, <2>1, Zenon
<1>12. WireType'
  BY <1>2, <1>5, <1>7, <1>8 DEF ChannelInv, WireType
<1>13. ReadingInv'
  BY <1>2, <1>3, <1>4, <1>8 DEF ChannelInv, ReadingInv
<1>14. StreamInv'
  <2> SUFFICES ASSUME at \notin Away
               PROVE  Carries(Taken(at', reading', bufferSize', buffer'), stream', closed, sent, Len(received))
    BY <1>2 DEF StreamInv
  <2>1. PICK lost \in Seq(Byte) :
          /\ closed \/ lost = <<>>
          /\ (front \o buffer) \o (stream \o lost) = FlattenSeq(Due(sent, Len(received)))
    BY <1>10 DEF ChannelInv, StreamInv, Carries
  <2>2. (front \o (buffer \o some)) \o (more \o lost) = FlattenSeq(Due(sent, Len(received)))
    BY <1>11, <2>1
  <2> QED
    BY <1>7, <1>10, <2>1, <2>2 DEF Carries
<1> QED
  BY <1>12, <1>13, <1>14 DEF ChannelInv

LEMMA LengthKeeps ==
  ASSUME ChannelInv, LengthReceived, UNCHANGED <<at, sent, received>>
  PROVE  ChannelInv'
<1>1. /\ reading = "Length" /\ reading' = "Body" /\ ~Waits
      /\ bufferSize' = BytesToInt(buffer) /\ buffer' = <<>>
      /\ UNCHANGED <<stream, closed>>
  BY DEF LengthReceived
<1>2. buffer \in Seq(Byte) /\ bufferSize = IntSize /\ Len(buffer) <= IntSize /\ at # "Handshake"
  BY <1>1 DEF ChannelInv, WireType, ReadingInv
<1>3. Len(buffer) = IntSize
  BY <1>1, <1>2, ByteAssumption DEF Waits
<1>4. NetworkInt(bufferSize') = buffer
  BY <1>1, <1>2, <1>3, NetworkIntBytes
<1>5. bufferSize' \in Unsigned /\ bufferSize' \in Nat
  <2>1. buffer \in [1 .. IntSize -> Byte]
    BY <1>2, <1>3
  <2>2. BytesToInt(buffer) \in Unsigned
    BY <2>1 DEF Unsigned
  <2> QED
    BY <1>1, <2>2, UnsignedType
<1>6. Taken(at, reading, bufferSize, buffer) = buffer
      /\ Taken(at', reading', bufferSize', buffer') = buffer
  <2>1. <<>> \o buffer = buffer /\ buffer \o <<>> = buffer
    BY <1>2, JoiningBytes
  <2> QED
    BY <1>1, <1>2, <1>4, <2>1 DEF Taken
<1>7. WireType'
  BY <1>1 DEF ChannelInv, WireType
<1>8. ReadingInv'
  BY <1>1, <1>2, <1>5 DEF ChannelInv, ReadingInv, Away
<1>9. StreamInv'
  BY <1>1, <1>6 DEF ChannelInv, StreamInv
<1> QED
  BY <1>7, <1>8, <1>9 DEF ChannelInv

LEMMA PeerSendsKeeps == ChannelInv /\ PeerSends => ChannelInv'
<1> SUFFICES ASSUME ChannelInv, PeerSends PROVE ChannelInv'
  OBVIOUS
<1>1. PICK m \in IF sent = <<>> THEN Greetings ELSE PeerMessages :
        /\ stream' = stream \o IF sent = <<>> THEN m ELSE Frame(m)
        /\ sent' = Append(sent, m)
  BY DEF PeerSends
<1>2. ~closed /\ at \notin Away /\ UNCHANGED <<at, closed, readVars, received>>
  BY DEF PeerSends, Away
<1> DEFINE bytes == IF sent = <<>> THEN m ELSE Frame(m)
           n == Len(received)
           taken == Taken(at, reading, bufferSize, buffer)
<1>3. Sayable(sent) /\ n \in Nat /\ n <= Len(sent) /\ Len(sent) \in Nat /\ stream \in Seq(Byte)
  BY DEF ChannelInv, WireType, Sayable
<1>4. /\ Sayable(sent') /\ Len(sent') = Len(sent) + 1
      /\ Due(sent', n) = Append(Due(sent, n), bytes)
  BY <1>1, <1>3, DueAppend
<1>5. bytes \in Seq(Byte)
  <2>1. CASE sent = <<>>
    BY <1>1, <2>1, WireAssumption
  <2>2. CASE sent # <<>>
    BY <1>1, <2>2, FrameType
  <2> QED
    BY <2>1, <2>2
<1>6. taken \in Seq(Byte)
  BY TakenType
<1>7. Due(sent, n) \in Seq(Seq(Byte))
  BY <1>3, DueType
<1>8. stream' = stream \o bytes
  BY <1>1
<1> HIDE DEF bytes, n, taken
<1>9. FlattenSeq(Due(sent', n)) = FlattenSeq(Due(sent, n)) \o bytes
  BY <1>4, <1>5, <1>7, FlattenAppend
<1>10. taken \o (stream \o <<>>) = FlattenSeq(Due(sent, n))
  BY <1>2 DEF ChannelInv, StreamInv, Carries, taken, n
<1>11. taken \o (stream' \o <<>>) = FlattenSeq(Due(sent', n))
  <2>1. stream \o bytes \in Seq(Byte) /\ stream \o <<>> = stream /\ (stream \o bytes) \o <<>> = stream \o bytes
    BY <1>3, <1>5, JoiningBytes, Zenon
  <2>2. taken \o (stream \o bytes) = (taken \o stream) \o bytes
    BY <1>3, <1>5, <1>6, JoiningBytes, Zenon
  <2> QED
    BY <1>8, <1>9, <1>10, <2>1, <2>2, Zenon
<1>12. stream' \in Seq(Byte) /\ <<>> \in Seq(Byte)
  BY <1>3, <1>5, <1>8, JoiningBytes
<1>13. WireType'
  BY <1>2, <1>3, <1>4, <1>12 DEF ChannelInv, WireType, readVars, n
<1>14. ReadingInv'
  BY <1>2 DEF ChannelInv, ReadingInv, readVars
<1>15. StreamInv'
  BY <1>2, <1>11, <1>12 DEF StreamInv, Carries, readVars, taken, n
<1> QED
  BY <1>13, <1>14, <1>15 DEF ChannelInv

LEMMA PeerClosesKeeps == ChannelInv /\ PeerCloses => ChannelInv'
<1> SUFFICES ASSUME ChannelInv, PeerCloses PROVE ChannelInv'
  OBVIOUS
<1>1. PICK k \in 0 .. Len(stream) : stream' = SubSeq(stream, 1, k)
  BY DEF PeerCloses
<1>2. closed' = TRUE /\ at \notin Away /\ UNCHANGED <<at, readVars, sent, received>>
  BY DEF PeerCloses, Away, historyVars
<1> DEFINE some == SubSeq(stream, 1, k)
           more == SubSeq(stream, k + 1, Len(stream))
<1>3. stream \in Seq(Byte) /\ some \in Seq(Byte) /\ more \in Seq(Byte) /\ Len(stream) \in Nat
  BY DEF ChannelInv, WireType
<1>4. some \o more = stream
  <2>1. 1 \in 1 .. Len(stream) + 1 /\ k \in 1 - 1 .. Len(stream) /\ Len(stream) \in k .. Len(stream)
    BY <1>3
  <2>2. some \o more = SubSeq(stream, 1, Len(stream))
    BY <1>3, <2>1, ConcatAdjacentSubSeq
  <2>3. SubSeq(stream, 1, Len(stream)) = stream
    BY <1>3, SubSeqFull
  <2> QED
    BY <2>2, <2>3, Zenon
<1> HIDE DEF some, more
<1> DEFINE taken == Taken(at, reading, bufferSize, buffer)
<1>5. PICK lost \in Seq(Byte) : taken \o (stream \o lost) = FlattenSeq(Due(sent, Len(received)))
  BY <1>2 DEF ChannelInv, StreamInv, Carries
<1> HIDE DEF taken
<1>6. more \o lost \in Seq(Byte) /\ some \o (more \o lost) = stream \o lost
  BY <1>3, <1>4, <1>5, JoiningBytes, Zenon
<1>7. stream' = some
  BY <1>1 DEF some
<1>8. WireType'
  BY <1>2, <1>3, <1>7 DEF ChannelInv, WireType, readVars
<1>9. ReadingInv'
  BY <1>2 DEF ChannelInv, ReadingInv, readVars
<1>10. StreamInv'
  BY <1>2, <1>5, <1>6, <1>7 DEF StreamInv, Carries, readVars, taken
<1> QED
  BY <1>8, <1>9, <1>10 DEF ChannelInv

\* What ReceiveData returns is the next message of this connection.
LEMMA ReturnedRight ==
  ASSUME ChannelInv, at \in {"Handshake", "Bitfield", "Loop"}, Returns
  PROVE  /\ Len(received) < Len(sent) /\ buffer = sent[Len(received) + 1]
         /\ Carries(<<>>, stream, closed, sent, Len(received) + 1)
<1> DEFINE n == Len(received)
           taken == Taken(at, reading, bufferSize, buffer)
<1>1. reading = "Body" /\ ~Waits
  BY DEF Returns
<1>2. /\ buffer \in Seq(Byte) /\ stream \in Seq(Byte) /\ Sayable(sent) /\ n \in Nat /\ n <= Len(sent)
      /\ received \in Seq(Seq(Byte))
  BY DEF ChannelInv, WireType
<1>3. Len(buffer) = bufferSize
  <2>1. bufferSize \in Nat /\ Len(buffer) \in Nat /\ Len(buffer) <= bufferSize /\ ~(Len(buffer) < bufferSize)
    BY <1>1, <1>2, SizeType DEF ChannelInv, ReadingInv, Waits
  <2> QED
    BY <2>1
<1>4. PICK lost \in Seq(Byte) :
        /\ closed \/ lost = <<>>
        /\ taken \o (stream \o lost) = FlattenSeq(Due(sent, n))
  BY DEF ChannelInv, StreamInv, Carries, Away
<1> DEFINE more == stream \o lost
<1>5. more \in Seq(Byte) /\ <<>> \o more = more
  BY <1>2, <1>4, JoiningBytes
<1>6. taken \o more = FlattenSeq(Due(sent, n))
  BY <1>4
<1> HIDE DEF more
<1>7. n < Len(sent) /\ buffer = sent[n + 1] /\ more = FlattenSeq(Due(sent, n + 1))
  <2>1. CASE at = "Handshake"
    <3>1. bufferSize = Len(Handshake(0, 0)) /\ n = 0 /\ n + 1 = 1
      BY <2>1 DEF ChannelInv, ReadingInv
    <3>2. <<>> \o buffer = buffer
      BY <1>2, JoiningBytes
    <3>3. taken = buffer
      BY <2>1, <3>2 DEF Taken
    <3>4. buffer \o more = FlattenSeq(Due(sent, 0))
      BY <1>6, <3>1, <3>3
    <3> HIDE DEF taken, n
    <3>5. Len(sent) > 0 /\ buffer = sent[1] /\ more = FlattenSeq(Due(sent, 1))
      BY <1>2, <1>3, <1>5, <3>1, <3>4, GreetingTaken
    <3> QED
      BY <3>1, <3>5
  <2>2. CASE at # "Handshake"
    <3>1. bufferSize \in Unsigned /\ n \in Nat \ {0}
      BY <1>1, <1>2, <2>2 DEF ChannelInv, ReadingInv
    <3>2. taken = NetworkInt(Len(buffer)) \o buffer
      BY <1>1, <1>3, <2>2 DEF Taken
    <3>3. (NetworkInt(Len(buffer)) \o buffer) \o more = FlattenSeq(Due(sent, n))
      BY <1>6, <3>2
    <3> HIDE DEF taken, n
    <3> QED
      BY <1>2, <1>3, <1>5, <3>1, <3>3, MessageTaken
  <2> QED
    BY <2>1, <2>2
<1>8. Carries(<<>>, stream, closed, sent, n + 1)
  <2>1. <<>> \o (stream \o lost) = FlattenSeq(Due(sent, n + 1))
    BY <1>5, <1>7 DEF more
  <2> QED
    BY <1>4, <2>1 DEF Carries
<1> QED
  BY <1>7, <1>8

LEMMA ReceivesKeeps ==
  ASSUME ChannelInv, NEW label \in {"Handshake", "Bitfield", "Loop"}, Receives(label),
         \/ StopReading /\ at' \in Away \cup {"Interested", "Ask"}
         \/ ReceiveData(0) /\ at' = "Bitfield"
  PROVE  ChannelInv'
<1>1. /\ at = label /\ Returns /\ received' = Append(received, buffer)
      /\ UNCHANGED <<stream, closed, sent>>
  BY DEF Receives
<1>2. Len(received) < Len(sent) /\ Carries(<<>>, stream, closed, sent, Len(received) + 1)
  BY <1>1, ReturnedRight
<1>3. /\ received \in Seq(Seq(Byte)) /\ buffer \in Seq(Byte) /\ Len(sent) \in Nat
  BY DEF ChannelInv, WireType, Sayable
<1>4. received' \in Seq(Seq(Byte)) /\ Len(received') = Len(received) + 1 /\ received' # <<>>
  <2> DEFINE Q == Seq(Byte)
  <2>1. received \in Seq(Q) /\ buffer \in Q
    BY <1>3
  <2> HIDE DEF Q
  <2>2. Append(received, buffer) \in Seq(Q) /\ Len(Append(received, buffer)) = Len(received) + 1
        /\ Append(received, buffer) # <<>>
    BY <2>1, AppendProperties
  <2> QED
    BY <1>1, <2>2 DEF Q
<1>5. Len(received') <= Len(sent)
  BY <1>2, <1>3, <1>4
<1>6. IntSize \in Nat /\ <<>> \in Seq(Byte) /\ Len(<<>>) = 0 /\ <<>> \o <<>> = <<>>
  BY ByteAssumption
<1>7. buffer' = <<>> /\ (reading' = "No" \/ (reading' = "Length" /\ bufferSize' = IntSize))
  BY DEF StopReading, ReceiveData
<1>8. WireType'
  BY <1>1, <1>4, <1>5, <1>6, <1>7 DEF ChannelInv, WireType
<1>9. ReadingInv'
  BY <1>4, <1>6, <1>7 DEF ReadingInv, Away, StopReading, ReceiveData
<1>10. Taken(at', reading', bufferSize', buffer') = <<>>
  BY <1>6, <1>7 DEF Taken
<1>11. StreamInv'
  BY <1>1, <1>2, <1>4, <1>10 DEF StreamInv
<1> QED
  BY <1>8, <1>9, <1>11 DEF ChannelInv

\* The handlers return to where nothing is read, or read on.
LEMMA ReturnedKeeps ==
  ASSUME ChannelInv, Returned
  PROVE  /\ ChannelInv'
         /\ Len(received) < Len(sent)
         /\ received' = Append(received, sent[Len(received) + 1]) /\ UNCHANGED sent
<1>1. PICK label \in {"Handshake", "Bitfield", "Loop"} :
        /\ Receives(label)
        /\ \/ StopReading /\ at' \in Away \cup {"Interested", "Ask"}
           \/ ReceiveData(0) /\ at' = "Bitfield"
  <2>1. CASE HandshakeAnswered
    BY <2>1 DEF HandshakeAnswered, Away
  <2>2. CASE ReceiveBitfield
    BY <2>2 DEF ReceiveBitfield, Away
  <2>3. CASE HandleKeepAlive \/ HandleChoke \/ HandleUnchoke \/ HandleOther
    BY <2>3 DEF HandleKeepAlive, HandleChoke, HandleUnchoke, HandleOther, Handles, Away
  <2>4. CASE HandleHave \/ HandlePiece
    BY <2>4 DEF HandleHave, HandlePiece, Handles, Throw, Away
  <2> QED
    BY <2>1, <2>2, <2>3, <2>4 DEF Returned
<1>2. ChannelInv'
  BY <1>1, ReceivesKeeps
<1>3. /\ at = label /\ Returns /\ received' = Append(received, buffer) /\ UNCHANGED sent
  BY <1>1 DEF Receives
<1>4. Len(received) < Len(sent) /\ buffer = sent[Len(received) + 1]
  BY <1>3, ReturnedRight
<1> QED
  BY <1>2, <1>3, <1>4

LEMMA ChannelStep ==
  ASSUME ChannelInv, [Next]_vars
  PROVE  /\ ChannelInv'
         /\ [Channel!Open \/ Channel!Send \/ Channel!Receive]_<<sent, received>>
<1>1. CASE Connect
  BY <1>1, ConnectKeeps DEF Connect, Channel!Open
<1>2. CASE PeerSends
  <2>1. PICK m \in IF sent = <<>> THEN Greetings ELSE PeerMessages : sent' = Append(sent, m)
    BY <1>2 DEF PeerSends
  <2>2. m \in Greetings \cup PeerMessages /\ UNCHANGED received
    BY <1>2 DEF PeerSends
  <2> QED
    BY <1>2, <2>1, <2>2, PeerSendsKeeps DEF Channel!Send
<1>3. CASE Returned
  BY <1>3, ReturnedKeeps DEF Channel!Receive
<1>4. ASSUME UNCHANGED <<sent, received>>, ChannelInv'
      PROVE  /\ ChannelInv'
             /\ [Channel!Open \/ Channel!Send \/ Channel!Receive]_<<sent, received>>
  BY <1>4
<1>5. CASE PeerCloses
  BY <1>4, <1>5, PeerClosesKeeps DEF PeerCloses, historyVars
<1>6. CASE ReadOn
  BY <1>4, <1>6, RecvKeeps, LengthKeeps DEF ReadOn, InReceiveData, historyVars
<1>7. CASE CallReceiveData
  <2>1. /\ at = "Loop" /\ at' = "Loop" /\ reading = "No" /\ ReceiveData(0)
        /\ UNCHANGED <<stream, closed, sent, received>>
    BY <1>7 DEF CallReceiveData, historyVars
  <2>2. ChannelInv'
    BY <2>1, CallKeeps DEF Away
  <2> QED
    BY <1>4, <2>1, <2>2
<1>8. CASE SendHandshake
  <2> DEFINE size == Len(Handshake(3, 4))
  <2>1. size = Len(Handshake(0, 0)) /\ size # 0
    BY DEF Handshake, Pstr
  <2> HIDE DEF size
  <2>2. /\ at = "Connected" /\ at' = "Handshake" /\ ReceiveData(size)
        /\ UNCHANGED <<stream, closed, sent, received>>
    BY <1>8 DEF SendHandshake, SendData, historyVars, size
  <2>3. reading = "No"
    BY <2>2 DEF ChannelInv, ReadingInv
  <2>4. ChannelInv'
    BY <2>1, <2>2, <2>3, CallKeeps DEF Away
  <2> QED
    BY <1>4, <2>2, <2>4
<1>9. CASE ReceiveThrows \/ ReceiveFails
  <2>1. at' \in Away /\ StopReading /\ UNCHANGED <<stream, closed, sent, received>>
    BY <1>9
      DEF ReceiveThrows, ReceiveFails, PollTimesOut, EndOfStream, PollOrRecvFails,
          LeaveReceiveData, InReceiveData, historyVars, Away
  <2> QED
    BY <1>4, <2>1, ChannelLeft
<1>10. CASE RunReturns \/ ConnectFails \/ TerminateRefused \/ SendFails \/ LoopStops \/ RequestFails
  <2>1. at' \in Away /\ reading = "No" /\ UNCHANGED <<readVars, stream, closed, sent, received>>
    BY <1>10
      DEF RunReturns, ConnectFails, TerminateRefused, SendFails, LoopStops, RequestFails, Throw,
          EstablishConnectionThrows, tcpVars, historyVars, Away, ChannelInv, ReadingInv
  <2> QED
    BY <1>4, <2>1, ChannelLeft
<1>11. CASE SendInterested \/ AskNothing \/ RequestPiece
  <2>1. /\ at \in {"Interested", "Ask"} /\ at' = "Loop"
        /\ UNCHANGED <<readVars, stream, closed, sent, received>>
    BY <1>11
      DEF SendInterested, AskNothing, RequestPiece, SendData, tcpVars, historyVars
  <2>2. reading = "No" /\ Taken("Loop", "No", bufferSize, buffer) = Taken(at, "No", bufferSize, buffer)
    BY <2>1 DEF ChannelInv, ReadingInv, Taken
  <2>3. WireType'
    BY <2>1 DEF ChannelInv, WireType, readVars
  <2>4. ReadingInv'
    BY <2>1, <2>2 DEF ChannelInv, ReadingInv, readVars, Away
  <2>5. StreamInv'
    BY <2>1, <2>2 DEF ChannelInv, StreamInv, readVars, Away
  <2> QED
    BY <1>4, <2>1, <2>3, <2>4, <2>5 DEF ChannelInv
<1>12. CASE Terminate \/ Destroy \/ UNCHANGED vars
  BY <1>4, <1>12, ChannelStutter
    DEF Terminate, Destroy, CloseConnection, vars, tcpVars, readVars, historyVars
<1> QED
  BY <1>1, <1>2, <1>3, <1>5, <1>6, <1>7, <1>8, <1>9, <1>10, <1>11, <1>12 DEF Next, Thread

\* However the bytes are cut and whatever earlier connections left behind, the
\* loop gets the messages of this connection: TcpConnect implements
\* MessageChannel for messages of any size (ReceiveData, EstablishConnection).
THEOREM WireIsAChannel == Spec => ChannelSpec
<1>1. Init => ChannelInv
  <2> SUFFICES ASSUME Init PROVE ChannelInv
    OBVIOUS
  <2>1. /\ at = "Run" /\ reading = "No" /\ buffer = <<>> /\ stream = <<>> /\ closed = TRUE
        /\ sent = <<>> /\ received = <<>>
    BY DEF Init, TcpInit, NotReading
  <2>2. Sayable(<<>>) /\ <<>> \in Seq(Byte) /\ <<>> \in Seq(Seq(Byte)) /\ Len(<<>>) <= Len(<<>>)
    BY DEF Sayable
  <2> QED
    BY <2>1, <2>2 DEF ChannelInv, WireType, ReadingInv, StreamInv, Away
<1>2. ChannelInv /\ [Next]_vars => ChannelInv'
  BY ChannelStep
<1>3. Init => Channel!Init
  BY DEF Init, Channel!Init
<1>4. ChannelInv /\ [Next]_vars => [Channel!Open \/ Channel!Send \/ Channel!Receive]_<<sent, received>>
  BY ChannelStep
<1> QED
  BY <1>1, <1>2, <1>3, <1>4, PTL DEF Spec, ChannelSpec, Channel!Spec
=============================================================================
