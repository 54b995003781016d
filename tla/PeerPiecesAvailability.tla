----------------------- MODULE PeerPiecesAvailability -----------------------
(***************************************************************************)
(* PeerPiecesAvailability (peer_connect.cpp): a bitfield, a sequence of    *)
(* bytes, and the bits a Have changes in it.                               *)
(***************************************************************************)
EXTENDS ByteTools

BitIds == 0 .. BitsPerByte - 1

Bits(byte) == {i \in BitIds : Digits(2, byte, BitsPerByte)[i + 1] = 1}
FromBits(bits) ==
  Value(2, [k \in 1 .. BitsPerByte |-> IF BitsPerByte - k \in bits THEN 1 ELSE 0])

\* byte >> n of a signed char: the sign bit comes in from the left.
ShiftRight(bits, n) ==
  {i \in BitIds : i + n \in bits \/ (i + n >= BitsPerByte /\ BitsPerByte - 1 \in bits)}

Size(bitfield) == Len(bitfield) * BitsPerByte

\* The exception.  The index Size(bitfield) passes.
OutOfRange(bitfield, pieceIndex) == pieceIndex > Size(bitfield)

\* The terminator of the string, which the index Size(bitfield) reads, is 0.
IsPieceAvailable(bitfield, pieceIndex) ==
  /\ pieceIndex < Size(bitfield)
  /\ 0 \in ShiftRight(Bits(bitfield[pieceIndex \div BitsPerByte + 1]), pieceIndex % BitsPerByte)

\* Neither the shift nor the 1 is what selects the bit of the piece.
Marked(byte, bitIndex) == FromBits(Bits(byte) \cup ShiftRight(Bits(byte), bitIndex) \cup {0})

\* The index Size(bitfield) writes the terminator of the string, not a byte.
SetPieceAvailability(bitfield, pieceIndex) ==
  [k \in DOMAIN bitfield |->
     IF k = pieceIndex \div BitsPerByte + 1
       THEN Marked(bitfield[k], pieceIndex % BitsPerByte)
       ELSE bitfield[k]]
=============================================================================
