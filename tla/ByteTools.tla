----------------------------- MODULE ByteTools -----------------------------
(***************************************************************************)
(* Integers and bytes (byte_tools.cpp), on a little-endian host as the     *)
(* client assumes.  A byte is a number below Base.                         *)
(***************************************************************************)
EXTENDS Integers, SequencesExt, FiniteSetsExt

CONSTANTS
  BitsPerByte,  \* 8 in the code
  IntSize       \* bytes of an int, of a length prefix and of an address: 4

ASSUME ByteAssumption == BitsPerByte \in Nat \ {0} /\ IntSize \in Nat \ {0}

\* The sum of the first k elements.
SumTo(s, k) == LET sum[i \in 0 .. Len(s)] == IF i = 0 THEN 0 ELSE sum[i - 1] + s[i] IN sum[k]

\* The number that the digits stand for, the most significant first, and the
\* digits of a number, the least significant first.
Value(base, digits) ==
  LET ret[i \in 0 .. Len(digits)] == IF i = 0 THEN 0 ELSE ret[i - 1] * base + digits[i]
  IN ret[Len(digits)]

Digits(base, n, size) ==
  LET rest[i \in 0 .. size] == IF i = 0 THEN n ELSE rest[i - 1] \div base
  IN [i \in 1 .. size |-> rest[i - 1] % base]

Base == Value(2, <<1>> \o [i \in 1 .. BitsPerByte |-> 0])
Byte == 0 .. Base - 1

\* Big endian.
BytesToInt(bytes) == Value(Base, bytes)

\* The bytes of an integer of the given size as they lie in memory ...
InMemory(n, size) == Digits(Base, n, size)

\* ... which IntToBytes reads from the last to the first.
IntToBytes(n, isReversed) ==
  IF isReversed THEN InMemory(n, IntSize) ELSE Reverse(InMemory(n, IntSize))

\* The numbers an int holds.
Unsigned == {BytesToInt(bytes) : bytes \in [1 .. IntSize -> Byte]}

\* htonl and htons swap the bytes.
Hton(n, size) == BytesToInt(InMemory(n, size))
=============================================================================
