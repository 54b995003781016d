------------------------------- MODULE Piece -------------------------------
(***************************************************************************)
(* The class Piece (piece.h, piece.cpp): a piece of the file is downloaded *)
(* block by block.  A block carries its status and, for the bytes it       *)
(* holds, the number of the piece those bytes belong to: the code stores   *)
(* whatever the peer sent, so the two may differ.  Every operation runs    *)
(* under the piece's own mutex and is one operator on the block vector.    *)
(***************************************************************************)
EXTENDS Integers

CONSTANTS
  NumPieces,  \* number of pieces in the torrent (pieceHashes.size())
  NumBlocks,  \* NumBlocks[p]: number of 2^14-byte blocks of piece p
  NoPiece     \* the null PiecePtr; as block data: the empty string

ASSUME NumPiecesAssumption == NumPieces \in Nat \ {0}
ASSUME NumBlocksAssumption == NumBlocks \in [0 .. NumPieces - 1 -> Nat \ {0}]
ASSUME NoPieceAssumption   == NoPiece \notin 0 .. NumPieces - 1

Pieces      == 0 .. NumPieces - 1
BlockIds(p) == 0 .. NumBlocks[p] - 1
Block       == [status : {"Missing", "Pending", "Retrieved"},
                data   : Pieces \cup {NoPiece}]

MissingBlock == [status |-> "Missing", data |-> NoPiece]

\* The constructor: every block is missing.
NewBlocks(p) == [b \in BlockIds(p) |-> MissingBlock]

\* FirstMissingBlock finds a block (or returns nullptr) ...
IsMissing(blocks, b) == b \in DOMAIN blocks /\ blocks[b].status = "Missing"
HasMissingBlock(blocks) == \E b \in DOMAIN blocks : IsMissing(blocks, b)
IsFirstMissingBlock(blocks, b) ==
  /\ IsMissing(blocks, b)
  /\ \A a \in DOMAIN blocks : IsMissing(blocks, a) => b <= a

\* ... and marks it as requested.
MarkPending(blocks, b) == [blocks EXCEPT ![b].status = "Pending"]

\* SaveBlock overwrites the block whatever its status was.
SaveBlock(blocks, b, data) ==
  [blocks EXCEPT ![b] = [status |-> "Retrieved", data |-> data]]

MutSomeRetrieved(blocks) ==
  \E b \in DOMAIN blocks : blocks[b].status = "Retrieved"
AllBlocksRetrieved(blocks) ==
  \A b \in DOMAIN blocks : blocks[b].status = "Retrieved"

Reset(blocks) == [b \in DOMAIN blocks |-> MissingBlock]

\* GetData concatenates the blocks: are these the bytes of piece p?
GetDataIsOf(blocks, p) == \A b \in DOMAIN blocks : blocks[b].data = p
=============================================================================
