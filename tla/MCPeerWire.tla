----------------------------- MODULE MCPeerWire -----------------------------
(* An instance of PeerWire for TLC. *)
EXTENDS PeerWire

\* The handshake of a peer that has another torrent, and one of another protocol.
MCGreetings == {<<1, 2, 0, 5, 6>>, <<1, 3, 0, 3, 4>>}

\* KeepAlive, Choke, Unchoke, Have, a BitField, and a Piece without data.
MCPeerMessages == {<<>>, <<0>>, <<1>>, <<4, 0, 4>>, <<5, 2, 4>>, <<7, 0, 1, 0, 2>>}

\* A Have of piece 1, and the BitField of a peer that has nothing yet.
MCHaveMessages == {<<4, 0, 1>>, <<5, 0, 0>>}

\* A number that takes both bytes of an integer.
MCBlocks == {[piece |-> 1, offset |-> 10, length |-> 2]}
=============================================================================
