------------------------------ MODULE Message ------------------------------
(***************************************************************************)
(* The wire format (message.h, message.cpp, the handshake and the request  *)
(* of peer_connect.cpp).  A message is a byte sequence with a length in    *)
(* front of it; its first byte, if any, is its id.                         *)
(***************************************************************************)
EXTENDS ByteTools

MessageId == [Choke |-> 0, Unchoke |-> 1, Interested |-> 2, NotInterested |-> 3, Have |-> 4,
              BitField |-> 5, Request |-> 6, Piece |-> 7, KeepAlive |-> 10]

Parse(messageString) ==
  IF messageString = <<>>
    THEN [id |-> MessageId.KeepAlive, messageLength |-> 0, payload |-> <<>>]
    ELSE [id |-> Head(messageString), messageLength |-> Len(messageString),
          payload |-> Tail(messageString)]

InitMessage(id, payload) ==
  [id |-> id, messageLength |-> Len(payload), payload |-> payload]

MutLengthOfPayload(m) == IntToBytes(m.messageLength, FALSE) \o <<m.id>> \o m.payload
MessageString(m) ==
  IntToBytes(m.messageLength + 1, FALSE)
    \o IF m.id = MessageId.KeepAlive THEN <<>> ELSE <<m.id>> \o m.payload

\* The number goes through htonl, and the bytes of the result as they lie in
\* memory into the message.
NetworkInt(n) == IntToBytes(Hton(n, IntSize), TRUE)

RequestMessage(block) ==
  NetworkInt(1 + 3 * IntSize) \o <<MessageId.Request>>
    \o NetworkInt(block.piece) \o NetworkInt(block.offset) \o NetworkInt(block.length)

\* pstrlen and pstr ("BitTorrent protocol", here one byte), the reserved
\* bytes, infoHash and the peer's id.
Pstr == <<2>>
Handshake(infoHash, peerId) == <<Len(Pstr)>> \o Pstr \o <<0>> \o <<infoHash, peerId>>

\* What PerformHandshake compares: the info hash is not among it.
IsHandshake(ans) == ans[1] = Len(Pstr) /\ SubSeq(ans, 2, 1 + Len(Pstr)) = Pstr
=============================================================================
