---------------------------- MODULE LayoutProofs ----------------------------
(* The way of the bytes from the torrent file and the trackers, for numbers *)
(* of any size and any number of answers, pieces and files.                 *)
EXTENDS Layout, ParserProofs

----------------------------------------------------------------------------
(* The trackers.                                                            *)

CompactPeer == [1 .. EntrySize -> Byte]
Peer        == [ip : Seq(Byte), port : Nat]

LEMMA EntrySizeType == IntSize \in Nat \ {0} /\ EntrySize = IntSize + 2 /\ PortSize = 2
BY ByteAssumption DEF EntrySize, PortSize

LEMMA ParsePeerType ==
  ASSUME NEW e \in CompactPeer
  PROVE  ParsePeer(e) \in Peer
<1> DEFINE ip == SubSeq(e, 1, IntSize)
           port == e[IntSize + 1] * Base + e[IntSize + 2]
<1>1. ip \in Seq(Byte)
  BY EntrySizeType DEF CompactPeer
<1>2. port \in Nat
  <2>1. e[IntSize + 1] \in Nat /\ e[IntSize + 2] \in Nat /\ Base \in Nat
    BY EntrySizeType, BaseType DEF CompactPeer, Byte
  <2> HIDE DEF Base
  <2> QED
    BY <2>1
<1> HIDE DEF ip, port
<1>3. [ip |-> ip, port |-> port] \in Peer
  BY <1>1, <1>2 DEF Peer
<1> QED
  BY <1>3 DEF ParsePeer, ip, port

\* The address that connect is given is the one the tracker sent, byte by
\* byte: each half is turned around twice on its way.
LEMMA AddressKept ==
  ASSUME NEW e \in CompactPeer
  PROVE  SockAddr(ParsePeer(e)) = e
<1> DEFINE ip == SubSeq(e, 1, IntSize)
           port == <<e[IntSize + 1], e[IntSize + 2]>>
<1>1. /\ ip \in Seq(Byte) /\ Len(ip) = IntSize
      /\ \A i \in 1 .. IntSize : ip[i] = e[i]
  BY EntrySizeType DEF CompactPeer
<1>2. port \in Seq(Byte) /\ Len(port) = 2 /\ port[1] = e[IntSize + 1] /\
        port[2] = e[IntSize + 2]
  BY EntrySizeType DEF CompactPeer
<1>3. BytesToInt(port) = e[IntSize + 1] * Base + e[IntSize + 2]
  <2>1. Base \in Nat /\ port \in Seq(Nat) /\ e[IntSize + 1] \in Nat /\ e[IntSize + 2] \in Nat
    BY <1>2, BaseType, EntrySizeType DEF Byte, CompactPeer
  <2> HIDE DEF port
  <2>2. PICK ret : Multiplies(ret, Base, port)
    BY <2>1, ValueSteps
  <2>3. /\ ret[0] = 0 /\ ret[1] = ret[1 - 1] * Base + port[1]
        /\ ret[2] = ret[2 - 1] * Base + port[2] /\ BytesToInt(port) = ret[2]
    <3>1. 1 \in 1 .. 2 /\ 2 \in 1 .. 2
      OBVIOUS
    <3> QED
      BY <1>2, <2>2, <3>1, Zenon DEF Multiplies, BytesToInt
  <2>4. ret[1] = e[IntSize + 1]
    BY <1>2, <2>1, <2>3
  <2> QED
    BY <1>2, <2>1, <2>3, <2>4
<1> HIDE DEF ip, port
<1>4. ParsePeer(e) = [ip |-> ip, port |-> BytesToInt(port)]
  BY <1>3 DEF ParsePeer, ip
<1>5. InMemory(BytesToInt(GetCompactIp(ip)), IntSize) = ip
  <2>1. /\ Reverse(ip) \in Seq(Byte) /\ Len(Reverse(ip)) = IntSize
        /\ Reverse(Reverse(ip)) = ip
    BY <1>1, ReverseTwice
  <2> QED
    BY <2>1, BytesReadBack DEF GetCompactIp
<1>6. InMemory(Hton(BytesToInt(port), PortSize), PortSize) = port
  <2>1. Reverse(Reverse(port)) = port
    BY <1>2, ReverseTwice
  <2>2. InMemory(BytesToInt(port), 2) = Reverse(port) /\ BytesToInt(port) \in Nat
    BY <1>2, BytesReadBack, ValueType
  <2> QED
    BY <2>1, <2>2, EntrySizeType, HtonSwaps
<1>7. SockAddr(ParsePeer(e)) = ip \o port
  BY <1>4, <1>5, <1>6 DEF SockAddr
<1>8. ip \o port = e
  <2>1. e \in [1 .. IntSize + 2 -> Byte]
    BY EntrySizeType DEF CompactPeer
  <2>2. ip \in Seq(Byte) /\ port \in Seq(Byte) /\ Len(ip) = IntSize /\ Len(port) = 2
    BY <1>1, <1>2
  <2>3. ip \o port \in Seq(Byte) /\ Joined(ip \o port, ip, port)
    BY <2>2, Concat
  <2>4. ASSUME NEW i \in 1 .. IntSize + 2 PROVE (ip \o port)[i] = e[i]
    <3>1. i \in 1 .. IntSize \/ i = IntSize + 1 \/ i = IntSize + 2
      BY EntrySizeType
    <3>2. (ip \o port)[IntSize + 1] = port[1] /\ (ip \o port)[IntSize + 2] = port[2]
      BY <2>2, <2>3 DEF Joined
    <3> QED
      BY <1>1, <1>2, <2>2, <2>3, <3>1, <3>2 DEF Joined
  <2>5. ip \o port \in [1 .. IntSize + 2 -> Byte]
    <3> DEFINE both == ip \o port
    <3>1. both \in Seq(Byte) /\ Len(both) = IntSize + 2
      BY <2>2, <2>3 DEF Joined
    <3> HIDE DEF both
    <3>2. both \in [1 .. IntSize + 2 -> Byte]
      BY <3>1
    <3> QED
      BY <3>2 DEF both
  <2> DEFINE both == ip \o port
  <2>6. both \in [1 .. IntSize + 2 -> Byte] /\ EqualOn(both, e, 1 .. IntSize + 2)
    BY <2>4, <2>5 DEF EqualOn
  <2> HIDE DEF both
  <2>7. both = e
    BY <2>1, <2>6, SameFunction
  <2> QED
    BY <2>7 DEF both
<1> QED
  BY <1>7, <1>8

\* What the loop makes of one answer: a peer for each entry, and one more.
LEMMA AnswerParsed ==
  ASSUME NEW named \in Answers, NEW rest \in Rests, NEW beyond \in {0, 1}
  PROVE  LET list == FlattenSeq(named)
             new  == [k \in 1 .. NumEntries(Len(list)) |->
                        ParsePeer(EntryAt(list \o rest, k, beyond))]
         IN /\ new \in Seq(Peer) /\ Len(new) = Len(named) + 1
            /\ \A k \in 1 .. Len(named) : SockAddr(new[k]) = named[k]
<1> DEFINE list == FlattenSeq(named)
           size == EntrySize
           text == list \o rest
           n    == Len(named)
<1>1. size \in Nat \ {0} /\ EntrySize = size
  BY EntrySizeType
<1>2. /\ named \in Seq(Seq(Byte)) /\ n \in Nat
      /\ \A k \in 1 .. n : Len(named[k]) = size /\ named[k] \in CompactPeer
  <2>1. named \in Seq(CompactPeer)
    BY AnswersAssumption DEF CompactPeer
  <2>2. CompactPeer \subseteq Seq(Byte) /\ \A e \in CompactPeer : Len(e) = size
    BY <1>1 DEF CompactPeer
  <2> QED
    BY <2>1, <2>2
<1>3. /\ list \in Seq(Byte) /\ Len(list) = n * size
      /\ \A k \in 1 .. n : \A i \in 1 .. size : list[(k - 1) * size + i] = named[k][i]
  <2>1. list \in Seq(Byte)
    BY <1>2, FlattenType
  <2> HIDE DEF size, list
  <2>2. Chunks(list, named, size)
    BY <1>1, <1>2, FlattenEqual DEF list
  <2> QED
    BY <2>1, <2>2 DEF Chunks
<1>4. text \in Seq(Byte)
  BY <1>3, AnswersAssumption
<1>5. Len(text) >= Len(list) /\ \A i \in 1 .. Len(list) : text[i] = list[i]
  <2>1. rest \in Seq(Byte)
    BY AnswersAssumption
  <2> HIDE DEF list
  <2> QED
    BY <1>3, <2>1
<1>6. NumEntries(Len(list)) = n + 1
  <2> HIDE DEF size, n
  <2>1. (n * size) \div size = n
    BY <1>1, <1>2
  <2> QED
    BY <1>1, <1>3, <2>1 DEF NumEntries
<1>7. ASSUME NEW k \in Nat \ {0}
      PROVE  /\ EntryAt(text, k, beyond) \in CompactPeer
             /\ k <= n => EntryAt(text, k, beyond) = named[k]
  <2> DEFINE before == (k - 1) * size
             entry == [i \in 1 .. size |->
                         IF before + i <= Len(text) THEN text[before + i] ELSE beyond]
  <2>1. before \in Nat /\ beyond \in Byte /\ Len(text) \in Nat
    BY <1>1, <1>4, BaseType DEF Byte
  <2>2. EntryAt(text, k, beyond) = entry
    BY <1>1 DEF EntryAt
  <2> DEFINE end == Len(text)
  <2>3. \A i \in 1 .. end : text[i] \in Byte
    BY <1>4
  <2> HIDE DEF before, end, text, size
  <2>4. entry \in [1 .. size -> Byte]
    <3>1. ASSUME NEW i \in 1 .. size, before + i <= end PROVE text[before + i] \in Byte
      <4>1. before + i \in 1 .. end
        BY <1>1, <2>1, <3>1 DEF end
      <4> QED
        BY <2>3, <4>1
    <3> QED
      BY <2>1, <3>1 DEF end
  <2>5. ASSUME k <= n PROVE entry = named[k]
    <3>1. k \in 1 .. n /\ named[k] \in [1 .. size -> Byte]
      BY <1>1, <1>2, <2>5 DEF CompactPeer
    <3>2. n * size >= before + size
      <4>1. n - k \in Nat /\ n * size = (n - k) * size + k * size /\ (n - k) * size \in Nat
        BY <1>1, <1>2, <3>1
      <4>2. k * size = before + size
        BY <1>1 DEF before
      <4> QED
        BY <1>1, <2>1, <4>1, <4>2
    <3>3. ASSUME NEW i \in 1 .. size PROVE entry[i] = named[k][i]
      <4>1. before + i \in 1 .. Len(list)
        BY <1>1, <1>2, <1>3, <2>1, <3>2
      <4>2. text[before + i] = named[k][i] /\ before + i <= Len(text)
        <5>1. list[before + i] = named[k][i]
          BY <1>3, <3>1 DEF before
        <5> QED
          BY <1>5, <2>1, <4>1, <5>1
      <4> QED
        BY <4>2
    <3>4. EqualOn(entry, named[k], 1 .. size)
      BY <3>3 DEF EqualOn
    <3> HIDE DEF entry
    <3> QED
      BY <2>4, <3>1, <3>4, SameFunction
  <2> QED
    BY <1>1, <2>2, <2>4, <2>5 DEF CompactPeer
<1> DEFINE entryAt(k) == EntryAt(text, k, beyond)
           new == [k \in 1 .. n + 1 |-> ParsePeer(entryAt(k))]
<1>8. \A k \in 1 .. n + 1 : entryAt(k) \in CompactPeer /\ (k <= n => entryAt(k) = named[k])
  BY <1>2, <1>7
<1>9. [k \in 1 .. NumEntries(Len(list)) |-> ParsePeer(EntryAt(list \o rest, k, beyond))] = new
  BY <1>6
<1> HIDE DEF entryAt, text, list
<1>10. new \in Seq(Peer) /\ Len(new) = n + 1
  <2>1. \A k \in 1 .. n + 1 : ParsePeer(entryAt(k)) \in Peer
    BY <1>8, ParsePeerType
  <2> HIDE DEF n
  <2> QED
    BY <1>2, <2>1
<1>11. \A k \in 1 .. n : SockAddr(new[k]) = named[k]
  <2>1. ASSUME NEW k \in 1 .. n PROVE SockAddr(ParsePeer(entryAt(k))) = named[k]
    BY <1>2, <1>8, AddressKept
  <2> HIDE DEF n
  <2> QED
    BY <1>2, <2>1
<1> HIDE DEF new
<1> QED
  BY <1>9, <1>10, <1>11 DEF list

\* The number of peers each answer brings, and PeersOfAnswers of any peers and
\* answers.
Counts(said) == [k \in DOMAIN said |-> Len(said[k]) + 1]

Placed(list, said) ==
  /\ Len(list) = SumTo(Counts(said), Len(said))
  /\ \A k \in DOMAIN said : \A j \in DOMAIN said[k] :
       SockAddr(list[SumTo(Counts(said), k - 1) + j]) = said[k][j]

LEMMA AnswersType ==
  ASSUME NEW said \in Seq(Answers)
  PROVE  /\ Len(said) \in Nat /\ DOMAIN said = 1 .. Len(said)
         /\ \A k \in 1 .. Len(said) :
              said[k] \in Answers /\ Len(said[k]) \in Nat /\ DOMAIN said[k] = 1 .. Len(said[k])
         /\ Counts(said) \in Seq(Nat) /\ Len(Counts(said)) = Len(said)
         /\ \A k \in 1 .. Len(said) : Counts(said)[k] = Len(said[k]) + 1
<1>1. \A named \in Answers : Len(named) \in Nat /\ DOMAIN named = 1 .. Len(named)
  BY AnswersAssumption
<1>2. Len(said) \in Nat /\ DOMAIN said = 1 .. Len(said) /\
        \A k \in 1 .. Len(said) : said[k] \in Answers
  OBVIOUS
<1> DEFINE n == Len(said)
<1>3. Counts(said) = [k \in 1 .. n |-> Len(said[k]) + 1]
  BY <1>2 DEF Counts
<1>4. \A k \in 1 .. n : Len(said[k]) + 1 \in Nat
  BY <1>1, <1>2
<1> HIDE DEF n
<1>5. Counts(said) \in Seq(Nat) /\ Len(Counts(said)) = n
  BY <1>2, <1>3, <1>4 DEF n
<1> QED
  BY <1>1, <1>2, <1>3, <1>5 DEF n

LEMMA PlacedAppend ==
  ASSUME NEW list \in Seq(Peer), NEW said \in Seq(Answers), Placed(list, said),
         NEW new \in Seq(Peer), NEW named \in Answers,
         Len(new) = Len(named) + 1,
         \A k \in 1 .. Len(named) : SockAddr(new[k]) = named[k]
  PROVE  Placed(list \o new, Append(said, named))
<1> DEFINE n == Len(said)
           longer == Append(said, named)
           all == list \o new
           first == Counts(said)
           firsts == Counts(longer)
<1>1. /\ longer \in Seq(Answers) /\ Len(longer) = n + 1 /\ longer[n + 1] = named
      /\ \A k \in 1 .. n : longer[k] = said[k]
  OBVIOUS
<1>2. all \in Seq(Peer) /\ Len(list) \in Nat /\ Len(new) \in Nat /\ Joined(all, list, new)
  BY Concat
<1> HIDE DEF longer, all, first, firsts
<1>3. /\ n \in Nat /\ DOMAIN said = 1 .. n /\ DOMAIN longer = 1 .. n + 1
      /\ \A k \in 1 .. n : Len(said[k]) \in Nat /\ DOMAIN said[k] = 1 .. Len(said[k])
      /\ first \in Seq(Nat) /\ Len(first) = n /\ \A k \in 1 .. n : first[k] = Len(said[k]) + 1
      /\ firsts \in Seq(Nat) /\ Len(firsts) = n + 1
      /\ \A k \in 1 .. n + 1 : firsts[k] = Len(longer[k]) + 1
      /\ Len(named) \in Nat /\ DOMAIN named = 1 .. Len(named)
  <2>1. Len(named) \in Nat /\ DOMAIN named = 1 .. Len(named)
    BY AnswersAssumption
  <2> QED
    BY <1>1, <2>1, AnswersType DEF first, firsts
<1> HIDE DEF n
<1>4. \A k \in 0 .. n : SumTo(firsts, k) = SumTo(first, k) /\ SumTo(first, k) \in Nat
  <2> SUFFICES ASSUME NEW k \in 0 .. n
               PROVE  SumTo(firsts, k) = SumTo(first, k) /\ SumTo(first, k) \in Nat
    OBVIOUS
  <2>1. EqualOn(firsts, first, 1 .. k)
    <3> SUFFICES ASSUME NEW i \in 1 .. k PROVE firsts[i] = first[i]
      BY DEF EqualOn
    <3>1. i \in 1 .. n /\ i \in 1 .. n + 1
      BY <1>3
    <3> QED
      BY <1>1, <1>3, <3>1
  <2>2. k \in Nat /\ k <= Len(first) /\ k <= Len(firsts)
    BY <1>3
  <2>3. SumTo(firsts, k) = SumTo(first, k)
    BY <1>3, <2>1, <2>2, SumOfSame
  <2>4. SumTo(first, k) \in Nat
    BY <1>3, SumSteps
  <2> QED
    BY <2>3, <2>4
<1>5. Len(list) = SumTo(first, n)
  BY DEF Placed, first, n
<1>6. Len(all) = SumTo(firsts, n + 1)
  <2>1. n + 1 \in 1 .. Len(firsts) /\ (n + 1) - 1 = n /\ n \in 0 .. n
    BY <1>3
  <2>2. SumTo(firsts, n + 1) = SumTo(firsts, n) + firsts[n + 1]
    BY <1>3, <2>1, SumSteps
  <2>3. firsts[n + 1] = Len(named) + 1
    BY <1>1, <1>3
  <2>4. Len(all) = Len(list) + Len(new)
    BY <1>2 DEF Joined
  <2> QED
    BY <1>2, <1>3, <1>4, <1>5, <2>1, <2>2, <2>3, <2>4
<1>7. ASSUME NEW k \in 1 .. n, NEW j \in 1 .. Len(said[k])
      PROVE  SockAddr(all[SumTo(firsts, k - 1) + j]) = said[k][j]
  <2>1. k - 1 \in 0 .. n /\ k \in 0 .. n /\ k \in 1 .. Len(first) /\ k \in 0 .. Len(first)
        /\ Len(first) \in k .. Len(first) /\ Len(first) = n
    BY <1>3
  <2>2. SumTo(first, k) = SumTo(first, k - 1) + (Len(said[k]) + 1)
    BY <1>3, <2>1, SumSteps
  <2>3. SumTo(first, k) <= SumTo(first, n)
    BY <1>3, <2>1, SumGrows
  <2>4. SumTo(first, k - 1) \in Nat /\ SumTo(firsts, k - 1) = SumTo(first, k - 1)
    BY <1>4, <2>1
  <2>5. SumTo(first, k - 1) + j \in 1 .. Len(list)
    <3>1. Len(said[k]) \in Nat /\ j \in 1 .. Len(said[k])
      BY <1>3
    <3> QED
      BY <1>2, <1>5, <2>2, <2>3, <2>4, <3>1
  <2>6. all[SumTo(first, k - 1) + j] = list[SumTo(first, k - 1) + j]
    BY <1>2, <2>5 DEF Joined
  <2>7. SockAddr(list[SumTo(first, k - 1) + j]) = said[k][j]
    BY <1>3 DEF Placed, first
  <2> QED
    BY <2>4, <2>6, <2>7
<1>8. ASSUME NEW j \in 1 .. Len(named)
      PROVE  SockAddr(all[SumTo(firsts, (n + 1) - 1) + j]) = named[j]
  <2>1. SumTo(firsts, (n + 1) - 1) = Len(list)
    <3>1. (n + 1) - 1 = n /\ n \in 0 .. n
      BY <1>3
    <3> QED
      BY <1>4, <1>5, <3>1
  <2>2. all[Len(list) + j] = new[j]
    BY <1>2, <1>3 DEF Joined
  <2> QED
    BY <2>1, <2>2
<1> QED
  <2> SUFFICES /\ Len(all) = SumTo(firsts, Len(longer))
               /\ \A k \in DOMAIN longer : \A j \in DOMAIN longer[k] :
                    SockAddr(all[SumTo(firsts, k - 1) + j]) = longer[k][j]
    BY DEF Placed, firsts, longer, all
  <2>1. Len(all) = SumTo(firsts, Len(longer)) /\ DOMAIN longer = 1 .. n + 1
    BY <1>1, <1>3, <1>6 DEF n
  <2> SUFFICES ASSUME NEW k \in 1 .. n + 1, NEW j \in DOMAIN longer[k]
               PROVE  SockAddr(all[SumTo(firsts, k - 1) + j]) = longer[k][j]
    BY <2>1
  <2>2. CASE k \in 1 .. n
    BY <1>1, <1>3, <1>7, <2>2 DEF n
  <2>3. CASE k = n + 1
    BY <1>1, <1>3, <1>8, <2>3 DEF n
  <2> QED
    BY <1>3, <2>2, <2>3

TrackerInv ==
  /\ peers \in Seq(Peer) /\ answers \in Seq(Answers)
  /\ Placed(peers, answers)

LEMMA TrackerPlaced == ASSUME TrackerInv PROVE PeersOfAnswers
<1>1. Len(answers) \in Nat /\ (Len(answers) + 1) - 1 = Len(answers)
  BY DEF TrackerInv
<1> QED
  BY <1>1 DEF TrackerInv, Placed, Counts, PeersOfAnswers

LEMMA TrackerEmpty ==
  ASSUME NEW list, NEW said, list = <<>>, said = <<>>
  PROVE  list \in Seq(Peer) /\ said \in Seq(Answers) /\ Placed(list, said)
<1>1. list \in Seq(Peer) /\ said \in Seq(Answers) /\ DOMAIN said = {} /\ Len(said) = 0 /\
        Len(list) = 0
  OBVIOUS
<1>2. SumTo(Counts(said), 0) = 0
  BY <1>1, AnswersType, SumSteps
<1> QED
  BY <1>1, <1>2 DEF Placed

LEMMA TrackerAnswersKeeps ==
  ASSUME TrackerInv, NEW a, TrackerAnswers(a)
  PROVE  TrackerInv'
<1>1. PICK named \in Answers, rest \in Rests, beyond \in {0, 1} :
        LET list == FlattenSeq(named)
        IN /\ peers' = peers \o [k \in 1 .. NumEntries(Len(list)) |->
                                   ParsePeer(EntryAt(list \o rest, k, beyond))]
           /\ answers' = Append(answers, named)
  BY DEF TrackerAnswers
<1> DEFINE list == FlattenSeq(named)
           new  == [k \in 1 .. NumEntries(Len(list)) |->
                      ParsePeer(EntryAt(list \o rest, k, beyond))]
<1>2. /\ new \in Seq(Peer) /\ Len(new) = Len(named) + 1
      /\ \A k \in 1 .. Len(named) : SockAddr(new[k]) = named[k]
  BY AnswerParsed
<1>3. peers' = peers \o new /\ answers' = Append(answers, named)
  BY <1>1
<1> HIDE DEF new
<1>4. Placed(peers \o new, Append(answers, named))
  BY <1>2, PlacedAppend DEF TrackerInv
<1>5. peers \o new \in Seq(Peer) /\ Append(answers, named) \in Seq(Answers)
  BY <1>2 DEF TrackerInv
<1> QED
  BY <1>3, <1>4, <1>5 DEF TrackerInv

\* The bytes of an address arrive at connect as the tracker sent them, for any
\* answers to any number of trackers (TorrentTracker, TcpConnect).
THEOREM AddressesArrive == Spec => []PeersOfAnswers
<1>1. Init => TrackerInv
  BY TrackerEmpty DEF Init, TrackerInit, TrackerInv
<1>2. TrackerInv /\ [Next]_vars => TrackerInv'
  <2> SUFFICES ASSUME TrackerInv, [Next]_vars PROVE TrackerInv'
    OBVIOUS
  <2>1. ASSUME UNCHANGED <<answers, peers>> PROVE TrackerInv'
    BY <2>1 DEF TrackerInv
  <2>2. ASSUME NEW a \in unasked, AskTracker(a) PROVE TrackerInv'
    BY <2>1, <2>2, TrackerAnswersKeeps DEF AskTracker, TrackerFails
  <2>3. CASE DownloadAll
    BY <2>3, TrackerEmpty DEF DownloadAll, TrackerInv
  <2>4. CASE StartDownload \/ AskAgain
    BY <2>1, <2>4 DEF StartDownload, AskAgain, UpdatePeers
  <2>5. CASE ParseToken \/ LoadTorrentFile \/ BuildPiece
    BY <2>1, <2>5 DEF ParseToken, LoadTorrentFile, BuildPiece, trackerVars
  <2>6. CASE WriteFile \/ CannotOpenFile \/ AllWritten \/ DeleteDownloadedFile
    BY <2>1, <2>6 DEF WriteFile, CannotOpenFile, AllWritten, DeleteDownloadedFile, trackerVars
  <2>7. CASE UNCHANGED vars
    BY <2>1, <2>7 DEF vars, trackerVars
  <2> QED
    BY <2>2, <2>3, <2>4, <2>5, <2>6, <2>7 DEF Next
<1>3. TrackerInv => PeersOfAnswers
  BY TrackerPlaced
<1> QED
  BY <1>1, <1>2, <1>3, PTL DEF Spec

----------------------------------------------------------------------------
(* The end of parser.                                                       *)

Single(s) ==
  [length |-> s.tf.length, path |-> <<s.tf.text["name"]>>, md5sum |-> s.tf.text["md5sum"]]

\* The record that Finish returns, with its fields.
LEMMA FinishFields ==
  ASSUME NEW s, s.tf \in Torrents
  PROVE  /\ Finish(s).announce_list = ToSet(s.tf.announce_list)
         /\ Finish(s).pieceHashes = s.tf.pieceHashes /\ Finish(s).pieceLength = s.tf.pieceLength
         /\ Finish(s).text = s.tf.text /\ Finish(s).url_list = s.tf.url_list
         /\ Finish(s).files = IF s.tf.files = <<>> THEN <<Single(s)>> ELSE s.tf.files
         /\ Finish(s).length
              = IF s.tf.length = 0 THEN s.tf.pieceHashes * s.tf.pieceLength ELSE s.tf.length
         /\ Finish(s).infoHash = s.infoString
<1> DEFINE tf2 == s.tf
           f == IF tf2.files = <<>> THEN <<Single(s)>> ELSE tf2.files
           n == IF tf2.length = 0 THEN tf2.pieceHashes * tf2.pieceLength ELSE tf2.length
           a == ToSet(tf2.announce_list)
           h == s.infoString
           r == [tf2 EXCEPT !.files = f, !.length = n, !.announce_list = a, !.infoHash = h]
<1>1. Finish(s) = r
  BY Zenon DEF Finish, Single
<1> HIDE DEF tf2, f, n, a, h
<1>2. tf2 \in Torrents
  BY DEF tf2
<1>3. /\ r.announce_list = a /\ r.pieceHashes = tf2.pieceHashes /\
           r.pieceLength = tf2.pieceLength
      /\ r.text = tf2.text /\ r.url_list = tf2.url_list /\ r.files = f /\ r.length = n
      /\ r.infoHash = h
  BY <1>2 DEF Torrents
<1> HIDE DEF r
<1> QED
  BY <1>1, <1>3, Zenon DEF tf2, f, n, a, h
----------------------------------------------------------------------------
(* Sums of lengths.                                                         *)

LEMMA SumAppend ==
  ASSUME NEW s \in Seq(Nat), NEW x \in Nat
  PROVE  SumTo(Append(s, x), Len(s) + 1) = SumTo(s, Len(s)) + x
<1> DEFINE n == Len(s)
           more == Append(s, x)
<1>1. more \in Seq(Nat) /\ Len(more) = n + 1 /\ more[n + 1] = x /\
        \A i \in 1 .. n : more[i] = s[i]
  OBVIOUS
<1>2. n \in Nat
  OBVIOUS
<1> HIDE DEF more
<1>3. SumTo(more, n) = SumTo(s, n)
  <2>1. EqualOn(more, s, 1 .. n)
    BY <1>1 DEF EqualOn
  <2> QED
    BY <1>1, <1>2, <2>1, SumOfSame
<1>4. SumTo(more, n + 1) = SumTo(more, n) + more[n + 1]
  <2>1. n + 1 \in 1 .. Len(more) /\ (n + 1) - 1 = n
    BY <1>1, <1>2
  <2>2. \A k \in 1 .. Len(more) : SumTo(more, k) = SumTo(more, k - 1) + more[k]
    BY <1>1, SumSteps
  <2>3. SumTo(more, n + 1) = SumTo(more, (n + 1) - 1) + more[n + 1]
    BY <2>1, <2>2, Zenon
  <2> QED
    BY <2>1, <2>3
<1> QED
  BY <1>1, <1>3, <1>4 DEF more

LEMMA LengthsType ==
  ASSUME NEW files \in Seq(Described)
  PROVE  /\ LengthsOf(files) \in Seq(Nat) /\ Len(LengthsOf(files)) = Len(files)
         /\ \A k \in 1 .. Len(files) : LengthsOf(files)[k] = files[k].length
<1> DEFINE n == Len(files)
           l == LengthsOf(files)
<1>1. n \in Nat /\ DOMAIN files = 1 .. n /\ \A k \in 1 .. n : files[k] \in Described
  OBVIOUS
<1>2. \A k \in 1 .. n : files[k].length \in Nat
  BY <1>1 DEF Described
<1>3. l = [k \in 1 .. n |-> files[k].length]
  BY <1>1 DEF LengthsOf
<1> HIDE DEF l, n
<1>4. l \in Seq(Nat) /\ Len(l) = n /\ \A k \in 1 .. n : l[k] = files[k].length
  <2>1. l \in [1 .. n -> Nat]
    BY <1>2, <1>3
  <2>2. \A k \in 1 .. n : l[k] = files[k].length
    BY <1>3
  <2> QED
    BY <1>1, <2>1, <2>2
<1> QED
  BY <1>4 DEF l, n

\* Leaving the empty files out leaves the sum, and all that follow it.
LEMMA FullSums ==
  ASSUME NEW files \in Seq(Described)
  PROVE  /\ FlattenSeq(Full(files)) \in Seq(Nat)
         /\ SumTo(FlattenSeq(Full(files)), Len(FlattenSeq(Full(files))))
              = SumTo(LengthsOf(files), Len(files))
         /\ (\A k \in 1 .. Len(files) : files[k].length # 0) => FlattenSeq(Full(files))
              = LengthsOf(files)
<1> DEFINE n == Len(files)
           full == Full(files)
           l == LengthsOf(files)
<1>1. /\ full \in Seq(Seq(Nat)) /\ Len(full) = n
      /\ \A k \in 1 .. n : /\ files[k].length \in Nat
                           /\ files[k].length = 0 => full[k] = <<>>
                           /\ files[k].length # 0 => full[k] = <<files[k].length>>
  BY FullType
<1>2. n \in Nat /\ l \in Seq(Nat) /\ Len(l) = n /\ \A k \in 1 .. n : l[k] = files[k].length
  BY LengthsType
<1> HIDE DEF n, full, l
<1>3. PICK flat : Concatenates(flat, Nat, full)
  BY <1>1, FlattenSteps
<1>4. /\ flat[0] = <<>> /\ FlattenSeq(full) = flat[n]
      /\ \A k \in 0 .. n : flat[k] \in Seq(Nat)
      /\ \A k \in 1 .. n : flat[k] = flat[k - 1] \o full[k]
  BY <1>1, <1>3 DEF Concatenates
<1> DEFINE Sums(k) == SumTo(flat[k], Len(flat[k])) = SumTo(l, k)
           Same1(k) == (\A j \in 1 .. k : files[j].length # 0) =>
                         Len(flat[k]) = k /\ \A j \in 1 .. k : flat[k][j] = l[j]
           T == {k \in Nat : k <= n => Sums(k) /\ Same1(k)}
<1>5. 0 \in T
  <2>1. SumTo(<<>>, Len(<<>>)) = 0
    <3>1. <<>> \in Seq(Nat) /\ Len(<<>>) = 0
      OBVIOUS
    <3> QED
      BY <3>1, SumSteps
  <2>2. SumTo(l, 0) = 0
    BY <1>2, SumSteps
  <2>3. Len(<<>>) = 0 /\ \A j \in 1 .. 0 : FALSE
    OBVIOUS
  <2>4. Sums(0) /\ Same1(0)
    BY <1>4, <2>1, <2>2, <2>3, Zenon
  <2> HIDE DEF Sums, Same1
  <2> QED
    BY <2>4
<1>6. ASSUME NEW k \in Nat, k \in T PROVE k + 1 \in T
  <2> SUFFICES ASSUME k + 1 <= n PROVE Sums(k + 1) /\ Same1(k + 1)
    OBVIOUS
  <2>1. k \in 0 .. n /\ k + 1 \in 1 .. n /\ (k + 1) - 1 = k /\ k <= n /\ k + 1 \in 0 .. n
    BY <1>2
  <2>2. Sums(k) /\ Same1(k)
    BY <1>6, <2>1
  <2> DEFINE x == files[k + 1].length
             p == flat[k]
             q == flat[k + 1]
  <2>3. q = p \o full[k + 1] /\ p \in Seq(Nat) /\ x \in Nat
        /\ (x = 0 => full[k + 1] = <<>>) /\ (x # 0 => full[k + 1] = <<x>>) /\ l[k + 1] = x
    <3>1. \A i \in 1 .. n : flat[i] = flat[i - 1] \o full[i]
      BY <1>4
    <3>2. flat[k + 1] = flat[(k + 1) - 1] \o full[k + 1]
      BY <2>1, <3>1, Zenon
    <3>3. q = p \o full[k + 1]
      BY <2>1, <3>2
    <3> QED
      BY <1>1, <1>2, <1>4, <2>1, <3>3
  <2>4. SumTo(l, k + 1) = SumTo(l, k) + x /\ SumTo(l, k) \in Nat
    <3>1. \A i \in 1 .. n : SumTo(l, i) = SumTo(l, i - 1) + l[i]
      BY <1>2, SumSteps
    <3>2. SumTo(l, k + 1) = SumTo(l, (k + 1) - 1) + l[k + 1]
      BY <2>1, <3>1, Zenon
    <3>3. SumTo(l, k) \in Nat
      BY <1>2, <2>1, SumSteps
    <3> QED
      BY <2>1, <2>3, <3>2, <3>3
  <2>5. CASE x = 0
    <3>1. q = p
      <4>1. p \o <<>> = p
        BY <2>3, ConcatEmptySeq
      <4> QED
        BY <2>3, <2>5, <4>1, Zenon
    <3>2. Sums(k + 1)
      BY <2>2, <2>4, <2>5, <3>1
    <3>3. ~\A j \in 1 .. k + 1 : files[j].length # 0
      BY <2>5
    <3> QED
      BY <3>2, <3>3, Zenon
  <2>6. CASE x # 0
    <3>1. q = Append(p, x)
      <4>1. \A r \in Seq(Nat), y \in Nat : Append(r, y) = r \o <<y>>
        BY AppendIsConcat
      <4> QED
        BY <2>3, <2>6, <4>1, Zenon
    <3> HIDE DEF x, p
    <3>2. Len(q) = Len(p) + 1 /\ q[Len(p) + 1] = x /\ \A j \in 1 .. Len(p) : q[j] = p[j]
      BY <2>3, <3>1
    <3>3. Sums(k + 1)
      <4>1. SumTo(Append(p, x), Len(p) + 1) = SumTo(p, Len(p)) + x
        BY <2>3, SumAppend
      <4>2. SumTo(p, Len(p)) = SumTo(l, k)
        BY <2>2 DEF p
      <4> HIDE DEF q
      <4>3. SumTo(q, Len(q)) = SumTo(l, k + 1)
        BY <2>4, <3>1, <3>2, <4>1, <4>2
      <4> QED
        BY <4>3 DEF q
    <3>4. Same1(k + 1)
      <4> SUFFICES ASSUME \A j \in 1 .. k + 1 : files[j].length # 0
                   PROVE  Len(q) = k + 1 /\ \A j \in 1 .. k + 1 : q[j] = l[j]
        OBVIOUS
      <4>1. \A j \in 1 .. k : files[j].length # 0
        OBVIOUS
      <4>2. Len(p) = k /\ \A j \in 1 .. k : p[j] = l[j]
        BY <2>2, <4>1, Zenon DEF p
      <4> HIDE DEF q
      <4>3. \A j \in 1 .. k : q[j] = l[j]
        BY <3>2, <4>2
      <4>4. q[k + 1] = l[k + 1] /\ Len(q) = k + 1
        BY <2>3, <3>2, <4>2
      <4> QED
        BY <2>1, <4>3, <4>4
    <3> HIDE DEF Sums, Same1
    <3> QED
      BY <3>3, <3>4
  <2> QED
    BY <2>5, <2>6
<1> HIDE DEF T, Sums, Same1
<1>7. \A k \in Nat : k \in T
  BY <1>5, <1>6, Induction
<1>8. Sums(n) /\ Same1(n)
  BY <1>2, <1>7 DEF T
<1> DEFINE g == flat[n]
<1>9. g \in Seq(Nat) /\ FlattenSeq(full) = g
  BY <1>2, <1>4
<1>10. SumTo(g, Len(g)) = SumTo(l, n)
  BY <1>8 DEF Sums
<1>11. ASSUME \A k \in 1 .. n : files[k].length # 0 PROVE g = l
  <2>1. Len(g) = n /\ \A j \in 1 .. n : g[j] = l[j]
    BY <1>8, <1>11, Zenon DEF Same1
  <2> HIDE DEF g
  <2>2. g \in [1 .. n -> Nat] /\ l \in [1 .. n -> Nat]
    BY <1>2, <1>9, <2>1
  <2>3. EqualOn(g, l, 1 .. n)
    BY <2>1 DEF EqualOn
  <2> QED
    BY <2>2, <2>3, SameFunction
<1> HIDE DEF g
<1>12. FlattenSeq(full) \in Seq(Nat) /\ SumTo(FlattenSeq(full), Len(FlattenSeq(full)))
         = SumTo(l, n)
  BY <1>9, <1>10, Zenon
<1>13. (\A k \in 1 .. n : files[k].length # 0) => FlattenSeq(full) = l
  BY <1>9, <1>11, Zenon
<1> QED
  BY <1>12, <1>13, Zenon DEF n, full, l

\* A torrent of the model: what is true of every one that Init chooses.
Given(t) ==
  /\ Torrent(t) /\ Content(t) > 0
  /\ t.single => t.files[1].path = <<t.name>>

FilesPart(t, u) ==
  /\ u.files \in Seq(Files) /\ Lengths(u) = FlattenSeq(Full(t.files))
  /\ (\A k \in 1 .. Len(t.files) : t.files[k].length # 0) =>
       Len(u.files) = Len(t.files) /\
         \A k \in 1 .. Len(t.files) : u.files[k].path = t.files[k].path

LengthPart(t, u) ==
  u.length = IF t.single THEN Content(t) ELSE PieceCount(t) * t.pieceLength

\* One file, given by the length and the name of the torrent.
LEMMA SingleFile ==
  ASSUME NEW t, Given(t), t.single, NEW g \in Files,
         g.length = t.files[1].length, g.path = <<t.name>>,
         NEW u, u.files = <<g>>
  PROVE  FilesPart(t, u) /\ Content(t) = t.files[1].length
<1> DEFINE f == t.files[1]
           x == f.length
<1>1. t.files \in Seq(Described) /\ Len(t.files) = 1
  BY DEF Given, Torrent
<1>2. f \in Described /\ x \in Nat /\ f.path = g.path
  <2>1. f \in Described
    BY <1>1
  <2> QED
    BY <2>1 DEF Described, Given
<1>3. Lengths(t) = <<x>> /\ LengthsOf(t.files) = <<x>>
  BY <1>1 DEF Lengths, LengthsOf
<1>4. Content(t) = x
  <2>1. <<x>> \in Seq(Nat) /\ Len(<<x>>) = 1 /\ <<x>>[1] = x
    BY <1>2
  <2>2. SumTo(<<x>>, 0) = 0 /\ \A k \in 1 .. 1 : SumTo(<<x>>, k)
          = SumTo(<<x>>, k - 1) + <<x>>[k]
    BY <2>1, SumSteps
  <2>3. SumTo(<<x>>, 1) = SumTo(<<x>>, 1 - 1) + <<x>>[1]
    BY <2>2
  <2>4. SumTo(<<x>>, 1) = x
    BY <1>2, <2>1, <2>2, <2>3
  <2> QED
    BY <1>1, <1>3, <2>4, Zenon DEF Content
<1>5. Full(t.files) = <<<<x>>>>
  <2>1. x > 0
    BY <1>4 DEF Given
  <2> QED
    BY <1>1, <2>1 DEF Full
<1>6. FlattenSeq(Full(t.files)) = <<x>>
  <2>1. <<x>> \in Seq(Nat)
    BY <1>2
  <2> QED
    BY <1>5, <2>1, FlattenOne
<1>7. u.files \in Seq(Files) /\ Len(u.files) = 1 /\ u.files[1] = g
  OBVIOUS
<1>8. Lengths(u) = <<x>>
  BY <1>7 DEF Lengths
<1>9. Len(u.files) = Len(t.files) /\
        \A k \in 1 .. Len(t.files) : u.files[k].path = t.files[k].path
  BY <1>1, <1>2, <1>7
<1> QED
  BY <1>4, <1>6, <1>7, <1>8, <1>9 DEF FilesPart

\* Several files: the parser's list is not empty, for not all files are.
LEMMA SeveralFiles ==
  ASSUME NEW t, Given(t), NEW files, FilesRight(t.files, files), NEW u, u.files = files
  PROVE  FilesPart(t, u) /\ files # <<>>
<1>1. FilesPart(t, u)
  BY DEF FilesRight, FilesPart, Lengths, LengthsOf
<1>2. files # <<>>
  <2> SUFFICES ASSUME files = <<>> PROVE FALSE
    OBVIOUS
  <2>1. LengthsOf(files) = <<>>
    BY DEF LengthsOf
  <2>2. FlattenSeq(Full(t.files)) = <<>>
    BY <2>1 DEF FilesRight
  <2>3. t.files \in Seq(Described)
    BY DEF Given, Torrent
  <2>4. SumTo(<<>>, Len(<<>>)) = SumTo(LengthsOf(t.files), Len(t.files))
    BY <2>2, <2>3, FullSums
  <2>5. Len(<<>>) = 0 /\ <<>> \in Seq(Nat)
    OBVIOUS
  <2>6. SumTo(<<>>, 0) = 0
    BY <2>5, SumSteps
  <2>7. Content(t) = 0
    BY <2>4, <2>5, <2>6 DEF Content, Lengths, LengthsOf
  <2> QED
    BY <2>7 DEF Given
<1> QED
  BY <1>1, <1>2

\* What parser returns.
ReturnsFor(t, u) ==
  /\ u.announce_list =
       IF "announce-list" \in t.options THEN ToSet(t.announce) ELSE {t.announce[1]}
  /\ u.pieceHashes = PieceCount(t) /\ u.pieceLength = t.pieceLength
  /\ u.text["name"] = t.name
  /\ u.text["comment"] = IF "comment" \in t.options THEN "info" ELSE ""
  /\ u.url_list = IF "url-list" \in t.options THEN <<"u1", "u2">> ELSE <<>>
  /\ u.infoHash = Info(t)
  /\ FilesPart(t, u) /\ LengthPart(t, u)

LEMMA FinishReturns ==
  ASSUME NEW t, Given(t), NEW s, TorrentRead(t, s.tf), s.infoString = Info(t)
  PROVE  ReturnsFor(t, Finish(s))
<1> DEFINE u == Finish(s)
<1>1. s.tf \in Torrents
  BY DEF TorrentRead
<1>2. /\ u.announce_list = ToSet(s.tf.announce_list)
      /\ u.pieceHashes = s.tf.pieceHashes /\ u.pieceLength = s.tf.pieceLength
      /\ u.text = s.tf.text /\ u.url_list = s.tf.url_list
      /\ u.files = IF s.tf.files = <<>> THEN <<Single(s)>> ELSE s.tf.files
      /\ u.length = IF s.tf.length = 0 THEN s.tf.pieceHashes * s.tf.pieceLength ELSE s.tf.length
      /\ u.infoHash = s.infoString
  BY <1>1, FinishFields
<1> HIDE DEF u
<1>3. t.single \in BOOLEAN
  BY DEF Given, Torrent
<1>4. FilesPart(t, u) /\ LengthPart(t, u)
  <2>1. CASE t.single
    <3>1. s.tf.files = <<>> /\ s.tf.length = t.files[1].length /\ s.tf.text["name"] = t.name
      BY <2>1, Zenon DEF TorrentRead
    <3> DEFINE g == Single(s)
    <3>2. g.length = t.files[1].length /\ g.path = <<t.name>>
      BY <3>1 DEF Single
    <3>3. g \in Files
      <4>1. s.tf.length \in Nat /\ s.tf.text \in [Texts -> Words] /\ "name" \in Texts /\
              "md5sum" \in Texts
        BY <1>1 DEF Torrents, Texts
      <4>2. s.tf.text["md5sum"] \in Words /\ s.tf.text["name"] \in Words
        BY <4>1
      <4>3. <<s.tf.text["name"]>> \in Seq(Words)
        BY <4>2
      <4> QED
        BY <4>1, <4>2, <4>3 DEF Single, Files
    <3>4. u.files = <<g>>
      BY <1>2, <3>1
    <3> HIDE DEF g
    <3>5. FilesPart(t, u) /\ Content(t) = t.files[1].length
      BY <2>1, <3>2, <3>3, <3>4, SingleFile
    <3>6. u.length = Content(t)
      <4>1. Content(t) # 0
        BY <3>5 DEF Given
      <4> QED
        BY <1>2, <3>1, <3>5, <4>1
    <3> QED
      BY <2>1, <3>5, <3>6 DEF LengthPart
  <2>2. CASE ~t.single
    <3>1. /\ s.tf.length = 0 /\ FilesRight(t.files, s.tf.files)
          /\ s.tf.pieceHashes = PieceCount(t) /\ s.tf.pieceLength = t.pieceLength
      BY <2>2, Zenon DEF TorrentRead
    <3>2. s.tf.files # <<>>
      <4> DEFINE v == [files |-> s.tf.files]
      <4>1. v.files = s.tf.files
        OBVIOUS
      <4> HIDE DEF v
      <4> QED
        BY <3>1, <4>1, SeveralFiles
    <3>3. u.files = s.tf.files
      BY <1>2, <3>2
    <3>4. FilesPart(t, u)
      BY <3>1, <3>3, SeveralFiles
    <3>5. u.length = PieceCount(t) * t.pieceLength
      BY <1>2, <3>1
    <3> QED
      BY <2>2, <3>4, <3>5 DEF LengthPart
  <2> QED
    BY <1>3, <2>1, <2>2
<1> DEFINE la == t.announce
<1>5. u.announce_list = IF "announce-list" \in t.options THEN ToSet(la) ELSE {la[1]}
  BY <1>2, Zenon DEF TorrentRead
<1>6. u.pieceHashes = PieceCount(t) /\ u.pieceLength = t.pieceLength
      /\ u.text["name"] = t.name
      /\ u.text["comment"] = (IF "comment" \in t.options THEN "info" ELSE "")
      /\ u.url_list = (IF "url-list" \in t.options THEN <<"u1", "u2">> ELSE <<>>)
      /\ u.infoHash = Info(t)
  BY <1>2, Zenon DEF TorrentRead
<1> QED
  BY <1>4, <1>5, <1>6, Zenon DEF u, ReturnsFor

----------------------------------------------------------------------------
(* The parser's loop as a part of the program.                              *)

LEMMA StringsAreWords == Seq(STRING) \subseteq Seq(Words)
<1> DEFINE S == STRING
           W == Words
<1>1. S \subseteq W
  BY DEF Words
<1> HIDE DEF S, W
<1>2. Seq(S) \subseteq Seq(W)
  BY <1>1
<1> QED
  BY <1>2 DEF S, W

\* The torrents that Init chooses from.
LEMMA GivenByInit ==
  ASSUME NEW single \in Singles, NEW t \in TorrentsOf(single), Content(t) > 0
  PROVE  Given(t)
<1>1. PICK opts \in OptionSets, n \in 1 .. MaxPieceLength, ls \in LengthLists(single) :
        t = [single |-> single, name |-> "n", announce |-> Trackers,
             options |-> opts, pieceLength |-> n,
             files |-> [k \in DOMAIN ls |->
                          [length |-> ls[k], path |-> IF single THEN <<"n">> ELSE Paths[k]]]]
  BY DEF TorrentsOf
<1>2. single \in BOOLEAN /\ MaxPieceLength \in Nat /\ MaxFileLength \in Nat
      /\ Trackers \in Seq(STRING) /\ Trackers # <<>>
      /\ Paths \in Seq(Seq(STRING) \ {<<>>}) /\ Paths # <<>>
  BY LayoutAssumption
<1>3. PICK m \in Nat \ {0} : /\ ls \in [1 .. m -> 0 .. MaxFileLength]
                             /\ (single => m = 1) /\ (~single => m <= Len(Paths))
  <2>1. PICK m \in IF single THEN {1}
               ELSE 1 .. Len(Paths) : ls \in [1 .. m -> 0 .. MaxFileLength]
    BY Zenon DEF LengthLists
  <2>2. m \in Nat \ {0} /\ (single => m = 1) /\ (~single => m <= Len(Paths))
    BY <1>2, <2>1
  <2> QED
    BY <2>1, <2>2
<1> DEFINE name == "n"
           road == <<name>>
           path(k) == IF single THEN road ELSE Paths[k]
           g(k) == [length |-> ls[k], path |-> path(k)]
<1>4. name \in Words
  BY DEF Words, Keys
<1>5. t.single = single /\ t.name = name /\ t.announce = Trackers /\ t.pieceLength = n
      /\ t.files = [k \in 1 .. m |-> g(k)]
  BY <1>1, <1>3
<1> HIDE DEF name
<1>6. \A k \in 1 .. m : ls[k] \in Nat /\ path(k) \in Seq(Words) \ {<<>>}
  <2>1. road \in Seq(Words) \ {<<>>}
    BY <1>4
  <2>2. \A k \in 1 .. m : ~single => Paths[k] \in Seq(STRING) \ {<<>>}
    BY <1>2, <1>3
  <2>3. Seq(STRING) \subseteq Seq(Words)
    BY StringsAreWords
  <2> HIDE DEF road
  <2> QED
    BY <1>2, <1>3, <2>1, <2>2, <2>3
<1>7. \A k \in 1 .. m : g(k) \in Described /\ g(k).path = path(k)
  <2> HIDE DEF path
  <2> QED
    BY <1>6 DEF Described
<1> HIDE DEF g
<1>8. t.files \in Seq(Described) /\ Len(t.files) = m /\ t.files # <<>>
  BY <1>3, <1>5, <1>7
<1>9. t.announce \in Seq(Words) /\ t.announce # <<>>
  <2>1. Seq(STRING) \subseteq Seq(Words)
    BY StringsAreWords
  <2> QED
    BY <1>2, <1>5, <2>1
<1>10. PieceCount(t) \in Nat
  <2>1. LengthsOf(t.files) \in Seq(Nat) /\ Len(LengthsOf(t.files)) = Len(t.files)
    BY <1>8, LengthsType
  <2>2. Content(t) \in Nat
    <3>1. Len(t.files) \in 0 .. Len(LengthsOf(t.files))
      BY <1>3, <1>8, <2>1
    <3> QED
      BY <2>1, <3>1, SumSteps DEF Content, Lengths, LengthsOf
  <2>3. t.pieceLength \in Nat \ {0}
    BY <1>2, <1>5
  <2> QED
    BY <2>2, <2>3 DEF PieceCount
<1>11. t.single => t.files[1].path = <<t.name>> /\ Len(t.files) = 1
  BY <1>3, <1>5, <1>7, <1>8
<1>12. t.single \in BOOLEAN /\ t.name \in Words
  BY <1>2, <1>4, <1>5
<1>13. t.pieceLength \in Nat \ {0}
  BY <1>2, <1>5
<1>14. Torrent(t)
  BY <1>8, <1>9, <1>10, <1>11, <1>12, <1>13, Zenon DEF Torrent
<1> QED
  BY <1>11, <1>14, Zenon DEF Given

\* What is still to be read, and at the end what has been read.
StillReads(t, s, tokens) ==
  /\ tokens \in Seq(Tokens)
  /\ \E u : Run(s, tokens, u) /\ TorrentRead(t, u.tf) /\ u.infoString = Info(t)

ParseInv ==
  /\ Given(torrent)
  /\ stage = "Load" => StillReads(torrent, parser, data)
  /\ Loaded => ReturnsFor(torrent, tf)

LEMMA StillReadsNext ==
  ASSUME NEW t, NEW s, NEW tokens, StillReads(t, s, tokens), tokens # <<>>
  PROVE  StillReads(t, Turn(s, Head(tokens)), Tail(tokens))
<1>1. Tail(tokens) \in Seq(Tokens) /\ tokens \in Seq(Tokens)
  BY DEF StillReads
<1>2. PICK u : Run(s, tokens, u) /\ TorrentRead(t, u.tf) /\ u.infoString = Info(t)
  BY DEF StillReads
<1>3. Run(Turn(s, Head(tokens)), Tail(tokens), u)
  BY <1>1, <1>2, RunNext
<1> QED
  BY <1>1, <1>2, <1>3, Zenon DEF StillReads

LEMMA StillReadsEnds ==
  ASSUME NEW t, NEW s, StillReads(t, s, <<>>), Given(t)
  PROVE  ReturnsFor(t, Finish(s))
<1>1. PICK u : Run(s, <<>>, u) /\ TorrentRead(t, u.tf) /\ u.infoString = Info(t)
  BY DEF StillReads
<1>2. s = u
  BY <1>1, RunStays
<1>3. TorrentRead(t, s.tf) /\ s.infoString = Info(t)
  BY <1>1, <1>2
<1> QED
  BY <1>3, FinishReturns

LEMMA ParseInvInit == Init => ParseInv
<1> SUFFICES ASSUME Init PROVE ParseInv
  OBVIOUS
<1>1. PICK single \in Singles : torrent \in TorrentsOf(single) /\ Content(torrent) > 0
  BY DEF Init
<1>2. Given(torrent)
  BY <1>1, GivenByInit
<1>3. StillReads(torrent, ParserInit, Encode(torrent))
  <2>1. Torrent(torrent)
    BY <1>2 DEF Given
  <2> QED
    BY <2>1, EncodeReads, Zenon DEF StillReads
<1>4. data = Encode(torrent) /\ parser = ParserInit /\ stage = "Load"
  BY DEF Init
<1> QED
  BY <1>2, <1>3, <1>4 DEF ParseInv, Loaded

\* After the parser has returned, nothing touches what it read.
LEMMA AfterLoad ==
  ASSUME Next, ~ParseToken, ~LoadTorrentFile
  PROVE  UNCHANGED parserVars /\ Loaded /\ Loaded'
<1>1. CASE BuildPiece \/ StartDownload
  BY <1>1 DEF BuildPiece, StartDownload, UpdatePeers, Loaded
<1>2. CASE \E a \in unasked : AskTracker(a)
  BY <1>2 DEF AskTracker, Loaded
<1>3. CASE AskAgain \/ DownloadAll
  BY <1>3 DEF AskAgain, DownloadAll, UpdatePeers, Loaded
<1>4. CASE WriteFile \/ CannotOpenFile \/ AllWritten
  BY <1>4 DEF WriteFile, CannotOpenFile, AllWritten, MoreFiles, Loaded
<1>5. CASE DeleteDownloadedFile
  BY <1>5 DEF DeleteDownloadedFile, Loaded
<1> QED
  BY <1>1, <1>2, <1>3, <1>4, <1>5 DEF Next

LEMMA ParseInvStep == ParseInv /\ [Next]_vars => ParseInv'
<1> SUFFICES ASSUME ParseInv, [Next]_vars PROVE ParseInv'
  OBVIOUS
<1>1. CASE ParseToken
  <2>1. StillReads(torrent, parser, data) /\ data # <<>> /\ Given(torrent) /\ stage = "Load"
    BY <1>1 DEF ParseToken, ParseInv
  <2>2. StillReads(torrent, Turn(parser, Head(data)), Tail(data))
    BY <2>1, StillReadsNext
  <2>3. parser' = Turn(parser, Head(data)) /\ data'
          = Tail(data) /\ torrent' = torrent /\ stage' = stage
    BY <1>1 DEF ParseToken
  <2> QED
    BY <2>1, <2>2, <2>3 DEF ParseInv, Loaded
<1>2. CASE LoadTorrentFile
  <2>1. StillReads(torrent, parser, <<>>) /\ Given(torrent)
    BY <1>2 DEF LoadTorrentFile, ParseInv
  <2>2. ReturnsFor(torrent, Finish(parser))
    BY <2>1, StillReadsEnds
  <2>3. tf' = Finish(parser) /\ stage' = "Build" /\ torrent' = torrent
    BY <1>2 DEF LoadTorrentFile
  <2> QED
    BY <2>1, <2>2, <2>3 DEF ParseInv, Loaded
<1>3. CASE Next /\ ~ParseToken /\ ~LoadTorrentFile
  BY <1>3, AfterLoad DEF ParseInv, Loaded, parserVars
<1>4. CASE UNCHANGED vars
  BY <1>4 DEF ParseInv, Loaded, vars, parserVars
<1> QED
  BY <1>1, <1>2, <1>3, <1>4

LEMMA ParseInvFinds == ParseInv => ParserFindsAll /\ InfoHashIsOfInfo
<1> SUFFICES ASSUME ParseInv, Loaded PROVE ParserFindsAll /\ InfoHashIsOfInfo
  BY DEF ParserFindsAll, InfoHashIsOfInfo
<1>1. ReturnsFor(torrent, tf) /\ Given(torrent)
  BY DEF ParseInv
<1> DEFINE n == Len(torrent.files)
<1>2. n \in Nat /\ DOMAIN torrent.files = 1 .. n
      /\ \A k \in 1 .. n : torrent.files[k].length \in Nat
  <2>1. torrent.files \in Seq(Described)
    BY <1>1 DEF Given, Torrent
  <2>2. Len(torrent.files) \in Nat /\ DOMAIN torrent.files = 1 .. n
        /\ \A k \in 1 .. n : torrent.files[k] \in Described
    BY <2>1
  <2> QED
    BY <2>2 DEF Described
<1>3. NoEmptyFile => \A k \in DOMAIN tf.files : tf.files[k].path = torrent.files[k].path
  <2> SUFFICES ASSUME NoEmptyFile PROVE \A k \in DOMAIN tf.files : tf.files[k].path = torrent.files[k].path
    OBVIOUS
  <2>1. \A k \in 1 .. n : torrent.files[k].length # 0
    BY <1>2 DEF NoEmptyFile
  <2>2. tf.files \in Seq(Files) /\ Len(tf.files) = n
        /\ \A k \in 1 .. n : tf.files[k].path = torrent.files[k].path
    BY <1>1, <2>1, Zenon DEF ReturnsFor, FilesPart
  <2>3. DOMAIN tf.files = 1 .. n
    BY <2>2
  <2> QED
    BY <2>2, <2>3
<1>4. Lengths(tf) = FlattenSeq([k \in DOMAIN torrent.files |->
                                   IF torrent.files[k].length > 0
                                     THEN <<torrent.files[k].length>> ELSE <<>>])
  BY <1>1, Zenon DEF ReturnsFor, FilesPart, Full
<1>5. InfoHashIsOfInfo
  BY <1>1, Zenon DEF ReturnsFor, InfoHashIsOfInfo
<1> HIDE DEF n
<1>6. ParserFindsAll
  BY <1>1, <1>3, <1>4, Zenon DEF ReturnsFor, ParserFindsAll
<1> QED
  BY <1>5, <1>6

\* The parser finds every tracker, hash, length and path, whatever unknown keys
\* stand between them, in a torrent with any number of files and trackers
\* (parser, torrent_file.cpp).
THEOREM ParserIsRight == Spec => []ParserFindsAll
<1>1. Init => ParseInv
  BY ParseInvInit
<1>2. ParseInv /\ [Next]_vars => ParseInv'
  BY ParseInvStep
<1>3. ParseInv => ParserFindsAll
  BY ParseInvFinds
<1> QED
  BY <1>1, <1>2, <1>3, PTL DEF Spec

\* The info dictionary, and nothing else, is what is hashed: the depth counter
\* falls to zero at its own "e", whatever is nested in it (torrent_file.cpp).
THEOREM HashIsOfInfo == Spec => []InfoHashIsOfInfo
<1>1. Init => ParseInv
  BY ParseInvInit
<1>2. ParseInv /\ [Next]_vars => ParseInv'
  BY ParseInvStep
<1>3. ParseInv => InfoHashIsOfInfo
  BY ParseInvFinds
<1> QED
  BY <1>1, <1>2, <1>3, PTL DEF Spec

----------------------------------------------------------------------------
(* Cutting a content into parts.                                            *)

\* n rounded up: n parts of p cover c, and one less do not.
LEMMA RoundedUp ==
  ASSUME NEW c \in Nat \ {0}, NEW p \in Nat \ {0}, NEW n, n = (c + p - 1) \div p
  PROVE  n \in Nat \ {0} /\ (n - 1) * p < c /\ c <= n * p
<1>1. n \in Nat
  OBVIOUS
<1>2. (c + p - 1) = n * p + ((c + p - 1) % p) /\ (c + p - 1) % p \in 0 .. p - 1
  OBVIOUS
<1>3. n * p \in Nat /\ (n - 1) * p = n * p - p
  BY <1>1
<1>4. c <= n * p /\ n * p - p < c
  BY <1>2, <1>3
<1>5. n # 0
  BY <1>4
<1> QED
  BY <1>1, <1>3, <1>4, <1>5

\* The sum of equal parts.
LEMMA SumOfEqual ==
  ASSUME NEW s \in Seq(Nat), NEW m \in 0 .. Len(s), NEW p \in Nat, \A k \in 1 .. m : s[k] = p
  PROVE  \A j \in 0 .. m : SumTo(s, j) = j * p
<1> DEFINE T == {j \in Nat : j <= m => SumTo(s, j) = j * p}
<1>1. 0 \in T
  <2>1. SumTo(s, 0) = 0 /\ 0 * p = 0
    BY SumSteps
  <2> QED
    BY <2>1
<1>2. ASSUME NEW j \in Nat, j \in T PROVE j + 1 \in T
  <2> SUFFICES ASSUME j + 1 <= m PROVE SumTo(s, j + 1) = (j + 1) * p
    OBVIOUS
  <2>1. SumTo(s, j) = j * p
    BY <1>2
  <2>2. j + 1 \in 1 .. Len(s) /\ (j + 1) - 1 = j /\ s[j + 1] = p
    OBVIOUS
  <2>3. \A k \in 1 .. Len(s) : SumTo(s, k) = SumTo(s, k - 1) + s[k]
    BY SumSteps
  <2>4. SumTo(s, j + 1) = SumTo(s, (j + 1) - 1) + s[j + 1]
    BY <2>2, <2>3, Zenon
  <2>5. SumTo(s, j + 1) = j * p + p
    BY <2>1, <2>2, <2>4
  <2>6. j * p + p = (j + 1) * p
    OBVIOUS
  <2> QED
    BY <2>5, <2>6
<1> HIDE DEF T
<1>3. \A j \in Nat : j \in T
  BY <1>1, <1>2, Induction
<1> QED
  BY <1>3 DEF T

\* One piece cut into blocks.
BlocksTile(len) ==
  LET n == NumBlocksOf(len)
      lengths == [k \in 1 .. n |-> BlockLength(len, k - 1)]
  IN /\ SumTo(lengths, n) = len
     /\ \A b \in 0 .. n - 1 :
          /\ lengths[b + 1] \in 1 .. BlockSize
          /\ BlockOffset(b) = SumTo(lengths, b)
          /\ BlockOfOffset(BlockOffset(b)) = b

LEMMA BlocksOfPiece ==
  ASSUME NEW len \in Nat \ {0}
  PROVE  BlocksTile(len)
<1> DEFINE n == NumBlocksOf(len)
           p == BlockSize
           s == [k \in 1 .. n |-> BlockLength(len, k - 1)]
<1>1. p \in Nat \ {0}
  BY LayoutAssumption
<1>2. n \in Nat \ {0} /\ (n - 1) * p < len /\ len <= n * p
  BY <1>1, RoundedUp DEF NumBlocksOf
<1>3. \A b \in 0 .. n - 1 : b * p \in Nat /\ BlockLength(len, b)
        = IF b = n - 1 THEN len - b * p ELSE p
  <2> SUFFICES ASSUME NEW b \in 0 .. n - 1
               PROVE  b * p \in Nat /\ BlockLength(len, b)
                        = IF b = n - 1 THEN len - b * p ELSE p
    OBVIOUS
  <2> HIDE DEF n, p
  <2>1. b * p \in Nat /\ b \in Nat
    BY <1>1, <1>2
  <2>2. BlockLength(len, b) = IF p <= len - b * p THEN p ELSE len - b * p
    <3> DEFINE rest == len - b * p
    <3>1. rest \in Int /\ p \in Int
      BY <1>1, <2>1
    <3> HIDE DEF rest
    <3>2. Min({p, rest}) = IF p <= rest THEN p ELSE rest
      BY <3>1, MinOfTwo
    <3> QED
      BY <3>2 DEF rest, BlockLength, p
  <2>3. CASE b = n - 1
    <3>1. len - b * p <= p
      <4>1. n * p = (n - 1) * p + p
        BY <1>1, <1>2
      <4> QED
        BY <1>1, <1>2, <2>1, <2>3, <4>1
    <3> QED
      BY <1>1, <2>1, <2>2, <2>3, <3>1
  <2>4. CASE b # n - 1
    <3>1. p <= len - b * p
      <4>1. b + 1 <= n - 1 /\ n - 1 \in Nat /\ b + 1 \in Nat
        BY <1>2, <2>1, <2>4
      <4>2. (b + 1) * p <= (n - 1) * p
        BY <1>1, <4>1
      <4>3. (b + 1) * p = b * p + p
        BY <1>1, <2>1
      <4>4. (n - 1) * p \in Nat
        BY <1>1, <4>1
      <4> QED
        BY <1>1, <1>2, <2>1, <4>2, <4>3, <4>4
    <3> QED
      BY <2>1, <2>2, <2>4, <3>1
  <2> QED
    BY <2>1, <2>3, <2>4
<1> HIDE DEF p
<1>4. \A k \in 1 .. n : k - 1 \in 0 .. n - 1 /\ s[k] = BlockLength(len, k - 1)
  <2> HIDE DEF n
  <2> QED
    BY <1>2
<1>5. \A k \in 1 .. n : s[k] = IF k = n THEN len - (n - 1) * p ELSE p
  <2> HIDE DEF s, n
  <2> SUFFICES ASSUME NEW k \in 1 .. n PROVE s[k] = IF k = n THEN len - (n - 1) * p ELSE p
    OBVIOUS
  <2>1. s[k] = IF k - 1 = n - 1 THEN len - (k - 1) * p ELSE p
    BY <1>3, <1>4
  <2>2. CASE k = n
    BY <2>1, <2>2
  <2>3. CASE k # n
    BY <1>2, <2>1, <2>3
  <2> QED
    BY <2>2, <2>3
<1>6. (n - 1) * p \in Nat /\ len - (n - 1) * p \in 1 .. p
  <2> HIDE DEF n
  <2>1. n - 1 \in Nat /\ (n - 1) * p \in Nat /\ n * p = (n - 1) * p + p
    BY <1>1, <1>2
  <2> QED
    BY <1>1, <1>2, <2>1
<1>7. \A k \in 1 .. n : s[k] \in 1 .. p
  <2> HIDE DEF s, n
  <2> QED
    BY <1>1, <1>5, <1>6
<1>8. s \in Seq(Nat) /\ Len(s) = n
  <2>1. \A k \in 1 .. n : BlockLength(len, k - 1) \in Nat
    <3> SUFFICES ASSUME NEW k \in 1 .. n PROVE BlockLength(len, k - 1) \in Nat
      OBVIOUS
    <3>1. BlockLength(len, k - 1) = s[k] /\ s[k] \in 1 .. p
      BY <1>4, <1>7
    <3> HIDE DEF s
    <3> QED
      BY <1>1, <3>1
  <2> HIDE DEF n
  <2> QED
    BY <1>2, <2>1
<1> HIDE DEF s, n
<1>9. \A j \in 0 .. n - 1 : SumTo(s, j) = j * p
  <2>1. n - 1 \in 0 .. Len(s) /\ \A k \in 1 .. n - 1 : s[k] = p
    BY <1>2, <1>5, <1>8
  <2> QED
    BY <1>1, <1>8, <2>1, SumOfEqual
<1>10. SumTo(s, n) = len
  <2>1. \A k \in 1 .. Len(s) : SumTo(s, k) = SumTo(s, k - 1) + s[k]
    BY <1>8, SumSteps
  <2>2. SumTo(s, n) = SumTo(s, n - 1) + s[n]
    BY <1>2, <1>8, <2>1
  <2>3. SumTo(s, n - 1) = (n - 1) * p /\ s[n] = len - (n - 1) * p
    BY <1>2, <1>5, <1>9
  <2> QED
    BY <1>6, <2>2, <2>3
<1>11. ASSUME NEW b \in 0 .. n - 1
       PROVE  s[b + 1] \in 1 .. p /\ BlockOffset(b)
                = SumTo(s, b) /\ BlockOfOffset(BlockOffset(b)) = b
  <2>1. b + 1 \in 1 .. n /\ b \in Nat
    BY <1>2
  <2>2. BlockOffset(b) = b * p
    BY DEF BlockOffset, p
  <2>3. (b * p + 0) \div p = b
    BY <1>1, <2>1, DivMod
  <2>4. b * p + 0 = b * p
    BY <1>3
  <2>5. BlockOfOffset(BlockOffset(b)) = b
    BY <2>2, <2>3, <2>4 DEF BlockOfOffset, p
  <2> QED
    BY <1>7, <1>9, <2>1, <2>2, <2>5
<1> QED
  BY <1>10, <1>11 DEF s, n, p, BlocksTile

----------------------------------------------------------------------------
(* The pieces and the files.                                                *)

\* The lengths of the pieces of a torrent.
LastSize(t) == t.pieceLength - (IF t.single THEN 0
  ELSE PieceCount(t) * t.pieceLength - Content(t))
PieceSize(t, i) == IF i = PieceCount(t) THEN LastSize(t) ELSE t.pieceLength

Cut(t, list) ==
  /\ list \in Seq(Nat) /\ Len(list) <= PieceCount(t)
  /\ \A i \in 1 .. Len(list) : list[i] = PieceSize(t, i)

LEMMA GivenNumbers ==
  ASSUME NEW t, Given(t)
  PROVE  /\ Content(t) \in Nat \ {0} /\ t.pieceLength \in Nat \ {0} /\
              PieceCount(t) \in Nat \ {0}
         /\ (PieceCount(t) - 1) * t.pieceLength \in Nat
         /\ (PieceCount(t) - 1) * t.pieceLength < Content(t)
         /\ Content(t) <= PieceCount(t) * t.pieceLength
         /\ PieceCount(t) * t.pieceLength = (PieceCount(t) - 1) * t.pieceLength + t.pieceLength
<1>1. t.files \in Seq(Described) /\ t.pieceLength \in Nat \ {0} /\ Content(t) > 0
  BY DEF Given, Torrent
<1>2. Content(t) \in Nat
  <2>1. LengthsOf(t.files) \in Seq(Nat) /\ Len(LengthsOf(t.files)) = Len(t.files)
    BY <1>1, LengthsType
  <2>2. Len(t.files) \in 0 .. Len(LengthsOf(t.files))
    BY <1>1, <2>1
  <2> QED
    BY <2>1, <2>2, SumSteps DEF Content, Lengths, LengthsOf
<1> DEFINE c == Content(t)
           p == t.pieceLength
           n == PieceCount(t)
<1>3. n = (c + p - 1) \div p
  BY DEF PieceCount
<1>4. c \in Nat \ {0} /\ p \in Nat \ {0}
  BY <1>1, <1>2
<1> HIDE DEF c, p, n
<1>5. n \in Nat \ {0} /\ (n - 1) * p < c /\ c <= n * p
  BY <1>3, <1>4, RoundedUp
<1>6. n - 1 \in Nat /\ (n - 1) * p \in Nat /\ n * p = (n - 1) * p + p
  BY <1>4, <1>5
<1> QED
  BY <1>4, <1>5, <1>6 DEF c, p, n

LEMMA LastSizeIs ==
  ASSUME NEW t, Given(t)
  PROVE  /\ LastSize(t) \in 1 .. t.pieceLength
         /\ t.single => LastSize(t) = t.pieceLength
         /\ ~t.single => (PieceCount(t) - 1) * t.pieceLength + LastSize(t) = Content(t)
         /\ Content(t) <= (PieceCount(t) - 1) * t.pieceLength + LastSize(t)
<1>1. t.single \in BOOLEAN
  BY DEF Given, Torrent
<1> DEFINE c == Content(t)
           p == t.pieceLength
           m == (PieceCount(t) - 1) * p
           k == PieceCount(t) * p
<1>2. c \in Nat \ {0} /\ p \in Nat \ {0} /\ m \in Nat /\ m < c /\ c <= k /\ k = m + p
  BY GivenNumbers
<1>3. LastSize(t) = p - (IF t.single THEN 0 ELSE k - c)
  BY DEF LastSize
<1> HIDE DEF c, p, m, k
<1>4. LastSize(t) \in 1 .. p /\ (t.single => LastSize(t) = p) /\
        (~t.single => m + LastSize(t) = c) /\ c <= m + LastSize(t)
  BY <1>1, <1>2, <1>3
<1> QED
  BY <1>4 DEF c, p, m, k

\* What the code computes is what the torrent says.
LEMMA SizesAgree ==
  ASSUME Given(torrent), ReturnsFor(torrent, tf)
  PROVE  /\ tf.pieceHashes = PieceCount(torrent) /\ tf.pieceLength = torrent.pieceLength
         /\ \A i : LengthOfPiece(i) = PieceSize(torrent, i)
         /\ SumTo(Lengths(tf), Len(tf.files)) = Content(torrent)
         /\ Lengths(tf) \in Seq(Nat) /\ Len(Lengths(tf)) = Len(tf.files)
<1>1. tf.pieceHashes = PieceCount(torrent) /\ tf.pieceLength = torrent.pieceLength
      /\ FilesPart(torrent, tf) /\ LengthPart(torrent, tf)
  BY Zenon DEF ReturnsFor
<1>2. torrent.files \in Seq(Described) /\ torrent.single \in BOOLEAN
  BY DEF Given, Torrent
<1>3. tf.files \in Seq(Files) /\ Lengths(tf) = FlattenSeq(Full(torrent.files))
  BY <1>1 DEF FilesPart
<1>4. Len(Lengths(tf)) = Len(tf.files)
  BY <1>3 DEF Lengths
<1>5. /\ FlattenSeq(Full(torrent.files)) \in Seq(Nat)
      /\ SumTo(FlattenSeq(Full(torrent.files)), Len(FlattenSeq(Full(torrent.files)))) =
           SumTo(LengthsOf(torrent.files), Len(torrent.files))
  BY <1>2, FullSums
<1>6. SumTo(Lengths(tf), Len(tf.files)) = Content(torrent)
  <2>1. Content(torrent) = SumTo(LengthsOf(torrent.files), Len(torrent.files))
    BY DEF Content, Lengths, LengthsOf
  <2> QED
    BY <1>3, <1>4, <1>5, <2>1, Zenon
<1>7. TailSize = LastSize(torrent)
  <2> DEFINE c == Content(torrent)
             p == torrent.pieceLength
             k == PieceCount(torrent) * p
  <2>1. c \in Nat /\ p \in Nat /\ k \in Nat
    BY GivenNumbers
  <2>2. TailSize = p - ((IF torrent.single THEN c ELSE k) - c)
    BY <1>1, <1>6, Zenon DEF TailSize, LengthPart
  <2>3. LastSize(torrent) = p - (IF torrent.single THEN 0 ELSE k - c)
    BY DEF LastSize
  <2> HIDE DEF c, p, k
  <2> QED
    BY <1>2, <2>1, <2>2, <2>3
<1>8. \A i : LengthOfPiece(i) = PieceSize(torrent, i)
  BY <1>1, <1>7, Zenon DEF LengthOfPiece, PieceSize
<1> QED
  BY <1>1, <1>3, <1>4, <1>5, <1>6, <1>8

\* The assertion of PieceStorage's constructor.
LEMMA Asserted ==
  ASSUME Given(torrent), ReturnsFor(torrent, tf)
  PROVE  Assertion
<1> DEFINE c == Content(torrent)
           p == torrent.pieceLength
           m == (PieceCount(torrent) - 1) * p
           k == PieceCount(torrent) * p
<1>1. torrent.single \in BOOLEAN
  BY DEF Given, Torrent
<1>2. c \in Nat \ {0} /\ p \in Nat \ {0} /\ m \in Nat /\ m < c /\ c <= k /\ k = m + p
  BY GivenNumbers
<1>3. tf.pieceLength = p /\ SumTo(Lengths(tf), Len(tf.files)) = c
  BY SizesAgree
<1>4. tf.length = IF torrent.single THEN c ELSE k
  BY Zenon DEF ReturnsFor, LengthPart
<1> HIDE DEF c, p, m, k
<1>5. tf.length >= c /\ p >= tf.length - c
  BY <1>1, <1>2, <1>4
<1> QED
  BY <1>3, <1>5, Zenon DEF Assertion

\* Where the pieces lie.
LEMMA CutTiles ==
  ASSUME NEW t, Given(t), NEW list, Cut(t, list)
  PROVE  /\ \A i \in 1 .. Len(list) :
              list[i] \in Nat \ {0} /\ SumTo(list, i - 1) = (i - 1) * t.pieceLength
         /\ Len(list) = PieceCount(t) =>
              SumTo(list, Len(list)) = (PieceCount(t) - 1) * t.pieceLength + LastSize(t)
<1> DEFINE n == Len(list)
           c == PieceCount(t)
           p == t.pieceLength
           r == LastSize(t)
<1>1. c \in Nat \ {0} /\ p \in Nat \ {0} /\ r \in Nat \ {0} /\ (c - 1) * p \in Nat
  BY GivenNumbers, LastSizeIs
<1>2. /\ list \in Seq(Nat) /\ n \in Nat /\ n <= c
      /\ \A i \in 1 .. n : list[i] = IF i = c THEN r ELSE p
  BY DEF Cut, PieceSize
<1> HIDE DEF n, c, p, r
<1>3. \A i \in 1 .. n : list[i] \in Nat \ {0}
  BY <1>1, <1>2
<1> DEFINE m == IF n = c THEN n - 1 ELSE n
<1>4. m \in 0 .. Len(list) /\ \A k \in 1 .. m : list[k] = p
  BY <1>1, <1>2 DEF n
<1>5. \A i \in 1 .. n : i - 1 \in 0 .. m
  BY <1>1, <1>2
<1> HIDE DEF m
<1>6. \A j \in 0 .. m : SumTo(list, j) = j * p
  BY <1>1, <1>2, <1>4, SumOfEqual
<1>7. \A i \in 1 .. n : SumTo(list, i - 1) = (i - 1) * p
  BY <1>5, <1>6
<1>8. n = c => SumTo(list, n) = (c - 1) * p + r
  <2> SUFFICES ASSUME n = c PROVE SumTo(list, n) = (c - 1) * p + r
    OBVIOUS
  <2>1. \A k \in 1 .. n : SumTo(list, k) = SumTo(list, k - 1) + list[k]
    BY <1>2, SumSteps DEF n
  <2>2. n \in 1 .. n
    BY <1>1
  <2>3. SumTo(list, n) = SumTo(list, n - 1) + list[n] /\ SumTo(list, n - 1) = (n - 1) * p
    BY <1>7, <2>1, <2>2
  <2>4. list[n] = r
    BY <1>2, <2>2
  <2> QED
    BY <1>1, <2>3, <2>4
<1> QED
  BY <1>3, <1>7, <1>8 DEF n, c, p, r

\* Every byte of the content lies in a piece.
LEMMA ByteInPiece ==
  ASSUME NEW t, Given(t), NEW list, Cut(t, list), Len(list) = PieceCount(t),
         NEW byte \in Nat, byte < Content(t)
  PROVE  \E i \in DOMAIN list :
           byte \in (i - 1) * t.pieceLength .. (i - 1) * t.pieceLength + list[i] - 1
<1> DEFINE c == PieceCount(t)
           p == t.pieceLength
           r == LastSize(t)
           q == byte \div p
           m == (c - 1) * p
<1>1. /\ c \in Nat \ {0} /\ p \in Nat \ {0} /\ r \in 1 .. p /\ m \in Nat
      /\ Content(t) \in Nat /\ Content(t) <= m + r
  BY GivenNumbers, LastSizeIs
<1>2. DOMAIN list = 1 .. c /\ \A i \in 1 .. c : list[i] = IF i = c THEN r ELSE p
  BY DEF Cut, PieceSize
<1>3. q \in Nat /\ byte = q * p + (byte % p) /\ byte % p \in 0 .. p - 1 /\ q * p \in Nat
  <2>1. p \in Nat \ {0}
    BY <1>1
  <2> HIDE DEF p
  <2> QED
    BY <2>1
<1> HIDE DEF c, p, r, q
<1>4. q <= c - 1
  <2> SUFFICES ASSUME q >= c PROVE FALSE
    BY <1>1, <1>3
  <2>1. q * p >= c * p /\ c * p = m + p /\ c * p \in Nat
    BY <1>1, <1>3
  <2> HIDE DEF m
  <2> QED
    BY <1>1, <1>3, <2>1
<1> DEFINE i == q + 1
<1>5. i \in 1 .. c /\ i - 1 = q
  BY <1>1, <1>3, <1>4
<1>6. byte \in (i - 1) * p .. (i - 1) * p + list[i] - 1
  <2>1. CASE q = c - 1
    <3>1. list[i] = r /\ q * p = m
      BY <1>1, <1>2, <1>5, <2>1
    <3> HIDE DEF m
    <3> QED
      BY <1>1, <1>3, <1>5, <3>1
  <2>2. CASE q # c - 1
    <3>1. list[i] = p
      BY <1>1, <1>2, <1>3, <1>5, <2>2
    <3> QED
      BY <1>1, <1>3, <1>5, <3>1
  <2> QED
    BY <2>1, <2>2
<1> HIDE DEF i
<1>7. i \in DOMAIN list
  BY <1>2, <1>5
<1> QED
  BY <1>6, <1>7 DEF p

PiecesInv ==
  /\ ParseInv
  /\ Cut(torrent, pieces)
  /\ stage = "Load" => pieces = <<>>
  /\ stage \notin {"Load", "Build"} => Len(pieces) = PieceCount(torrent)

LEMMA PiecesInvInit == Init => PiecesInv
<1> SUFFICES ASSUME Init PROVE PiecesInv
  OBVIOUS
<1>1. ParseInv
  BY ParseInvInit
<1>2. pieces = <<>> /\ stage = "Load"
  BY DEF Init
<1>3. PieceCount(torrent) \in Nat
  BY <1>1, GivenNumbers DEF ParseInv
<1>4. Cut(torrent, pieces)
  BY <1>2, <1>3 DEF Cut
<1> QED
  BY <1>1, <1>2, <1>4 DEF PiecesInv

LEMMA PiecesInvStep == PiecesInv /\ [Next]_vars => PiecesInv'
<1> SUFFICES ASSUME PiecesInv, [Next]_vars PROVE PiecesInv'
  OBVIOUS
<1>1. ParseInv /\ ParseInv'
  BY ParseInvStep DEF PiecesInv
<1> DEFINE t == torrent
<1>2. torrent' = torrent
  BY DEF Next, vars, parserVars, ParseToken, LoadTorrentFile, BuildPiece, StartDownload,
       AskTracker,
         AskAgain, DownloadAll, WriteFile, CannotOpenFile, AllWritten, DeleteDownloadedFile
<1>3. ASSUME UNCHANGED <<stage, pieces>> PROVE PiecesInv'
  BY <1>1, <1>2, <1>3 DEF PiecesInv
<1>4. CASE ParseToken \/ UNCHANGED vars
  BY <1>3, <1>4 DEF ParseToken, vars, diskVars
<1>5. CASE LoadTorrentFile
  BY <1>1, <1>2, <1>5 DEF LoadTorrentFile, diskVars, PiecesInv
<1>6. CASE BuildPiece
  <2>1. stage = "Build" /\ stage' = stage /\ Len(pieces) < tf.pieceHashes
        /\ pieces' = Append(pieces, LengthOfPiece(Len(pieces) + 1))
    BY <1>6 DEF BuildPiece
  <2>2. Given(t) /\ ReturnsFor(t, tf)
    BY <1>1, <2>1 DEF ParseInv, Loaded
  <2>3. tf.pieceHashes = PieceCount(t) /\ LengthOfPiece(Len(pieces) + 1)
          = PieceSize(t, Len(pieces) + 1)
    BY <2>2, SizesAgree
  <2>4. PieceSize(t, Len(pieces) + 1) \in Nat /\ PieceCount(t) \in Nat
    BY <2>2, GivenNumbers, LastSizeIs DEF PieceSize
  <2>5. Cut(t, pieces)
    BY DEF PiecesInv
  <2> DEFINE x == PieceSize(t, Len(pieces) + 1)
             more == Append(pieces, x)
  <2>6. pieces \in Seq(Nat) /\ x \in Nat
    BY <2>4, <2>5 DEF Cut
  <2> HIDE DEF x
  <2>7. more \in Seq(Nat) /\ Len(more) = Len(pieces) + 1 /\ more[Len(pieces) + 1] = x
        /\ \A i \in 1 .. Len(pieces) : more[i] = pieces[i]
    BY <2>6
  <2> HIDE DEF more
  <2>8. Cut(t, more)
    <3>1. Len(more) <= PieceCount(t)
      BY <2>1, <2>3, <2>4, <2>6, <2>7
    <3>2. \A i \in 1 .. Len(more) : more[i] = PieceSize(t, i)
      BY <2>5, <2>6, <2>7 DEF Cut, x
    <3> QED
      BY <2>7, <3>1, <3>2 DEF Cut
  <2>9. pieces' = more
    BY <2>1, <2>3 DEF more, x
  <2> QED
    BY <1>1, <1>2, <2>1, <2>8, <2>9 DEF PiecesInv
<1>7. CASE StartDownload
  <2>1. stage = "Build" /\ Len(pieces) = tf.pieceHashes /\ pieces' = pieces /\ stage' = "Update"
    BY <1>7 DEF StartDownload, UpdatePeers
  <2>2. tf.pieceHashes = PieceCount(torrent)
    BY <1>1, <2>1, SizesAgree DEF ParseInv, Loaded
  <2> QED
    BY <1>1, <1>2, <2>1, <2>2 DEF PiecesInv
<1>8. ASSUME pieces' = pieces, stage \notin {"Load", "Build"}, stage' \notin {"Load", "Build"}
      PROVE  PiecesInv'
  BY <1>1, <1>2, <1>8 DEF PiecesInv
<1>9. CASE (\E a \in unasked : AskTracker(a)) \/ AskAgain \/ DownloadAll
  BY <1>8, <1>9 DEF AskTracker, AskAgain, DownloadAll, UpdatePeers, diskVars
<1>10. CASE WriteFile \/ CannotOpenFile \/ AllWritten
  BY <1>8, <1>10 DEF WriteFile, CannotOpenFile, AllWritten, MoreFiles, diskVars
<1>11. CASE DeleteDownloadedFile
  BY <1>8, <1>11 DEF DeleteDownloadedFile
<1> QED
  BY <1>4, <1>5, <1>6, <1>7, <1>9, <1>10, <1>11 DEF Next

LEMMA PiecesInvTiles == PiecesInv => PiecesTileTheContent /\ BlocksTileThePiece
<1> SUFFICES ASSUME PiecesInv PROVE PiecesTileTheContent /\ BlocksTileThePiece
  OBVIOUS
<1>1. Given(torrent) /\ Cut(torrent, pieces) /\ torrent.single \in BOOLEAN
  BY DEF PiecesInv, ParseInv, Given, Torrent
<1>2. /\ \A i \in 1 .. Len(pieces) :
           pieces[i] \in Nat \ {0} /\ SumTo(pieces, i - 1) = (i - 1) * torrent.pieceLength
      /\ Len(pieces) = PieceCount(torrent) =>
           SumTo(pieces,
             Len(pieces)) = (PieceCount(torrent) - 1) * torrent.pieceLength + LastSize(torrent)
  BY <1>1, CutTiles
<1>3. BlocksTileThePiece
  <2> SUFFICES ASSUME NEW i \in 1 .. Len(pieces) PROVE BlocksTile(pieces[i])
    BY Zenon DEF BlocksTileThePiece, BlocksTile
  <2>1. pieces[i] \in Nat \ {0}
    BY <1>2
  <2> QED
    BY <2>1, BlocksOfPiece
<1>4. ASSUME NEW i \in 1 .. Len(pieces) PROVE pieces[i] > 0 /\ OffsetOnDisk(i - 1)
               = SumTo(pieces, i - 1)
  <2>1. Loaded
    BY DEF PiecesInv, Loaded
  <2>2. tf.pieceLength = torrent.pieceLength
    BY <1>1, <2>1, SizesAgree DEF PiecesInv, ParseInv
  <2> QED
    BY <1>2, <2>2 DEF OffsetOnDisk
<1>5. stage = "Distribute" /\ ~torrent.single => SumTo(pieces, Len(pieces)) = Content(torrent)
  <2> SUFFICES ASSUME stage = "Distribute", ~torrent.single PROVE SumTo(pieces, Len(pieces))
                        = Content(torrent)
    OBVIOUS
  <2>1. Len(pieces) = PieceCount(torrent)
    BY DEF PiecesInv
  <2>2. (PieceCount(torrent) - 1) * torrent.pieceLength + LastSize(torrent) = Content(torrent)
    BY <1>1, LastSizeIs
  <2> QED
    BY <1>2, <2>1, <2>2, Zenon
<1>6. Loaded => Assertion
  BY <1>1, Asserted DEF PiecesInv, ParseInv
<1>7. PiecesTileTheContent
  BY <1>4, <1>5, <1>6, Zenon DEF PiecesTileTheContent
<1> QED
  BY <1>3, <1>7

\* The constructor's assertion never fails, and the pieces follow each other
\* without a gap and, with a list of files, end
\* where the files end, for any lengths of files and pieces (PieceStorage's
\* constructor, SavePieceToDisk).
THEOREM PiecesAreRight == Spec => []PiecesTileTheContent
<1>1. Init => PiecesInv
  BY PiecesInvInit
<1>2. PiecesInv /\ [Next]_vars => PiecesInv'
  BY PiecesInvStep
<1>3. PiecesInv => PiecesTileTheContent
  BY PiecesInvTiles
<1> QED
  BY <1>1, <1>2, <1>3, PTL DEF Spec

\* The blocks of every piece cover it, none is empty or too long, and an answer
\* is stored in the block that was asked for (Piece, PeerConnect).
THEOREM BlocksAreRight == Spec => []BlocksTileThePiece
<1>1. Init => PiecesInv
  BY PiecesInvInit
<1>2. PiecesInv /\ [Next]_vars => PiecesInv'
  BY PiecesInvStep
<1>3. PiecesInv => BlocksTileThePiece
  BY PiecesInvTiles
<1> QED
  BY <1>1, <1>2, <1>3, PTL DEF Spec

----------------------------------------------------------------------------
Outputs == [path : Seq(Words), bytes : Nat \X Nat]

Output(u, k) == [path |-> u.files[k].path, bytes |->
  <<SumTo(Lengths(u), k - 1), u.files[k].length>>]

\* The files written so far, and where the reading of the temporary file is.
Written(u, list, pos) ==
  /\ list \in Seq(Outputs) /\ Len(list) <= Len(u.files)
  /\ pos = SumTo(Lengths(u), Len(list))
  /\ \A k \in 1 .. Len(list) : list[k] = Output(u, k)

FilesInv ==
  /\ PiecesInv
  /\ stage \in {"Load", "Build", "Update"} => outputs = <<>> /\ inputPos = 0
  /\ Loaded => Written(tf, outputs, inputPos)

LEMMA NothingWritten ==
  ASSUME NEW t, Given(t), NEW u, ReturnsFor(t, u)
  PROVE  Written(u, <<>>, 0)
<1>1. u.files \in Seq(Files) /\ Lengths(u)
        = FlattenSeq(Full(t.files)) /\ t.files \in Seq(Described)
  BY DEF ReturnsFor, FilesPart, Given, Torrent
<1>2. Lengths(u) \in Seq(Nat)
  BY <1>1, FullSums
<1>3. SumTo(Lengths(u), 0) = 0
  BY <1>2, SumSteps
<1>4. <<>> \in Seq(Outputs) /\ Len(<<>>) = 0 /\ Len(u.files) \in Nat
  BY <1>1
<1> QED
  BY <1>3, <1>4 DEF Written

LEMMA WrittenNext ==
  ASSUME NEW t, Given(t), NEW u, ReturnsFor(t, u), NEW list, NEW pos, Written(u, list, pos),
         Len(list) < Len(u.files),
         NEW f, f = u.files[Len(list) + 1]
  PROVE  Written(u, Append(list, [path |-> f.path, bytes |-> <<pos, f.length>>]),
           pos + f.length)
<1> DEFINE l == Lengths(u)
           n == Len(list)
           o == [path |-> f.path, bytes |-> <<pos, f.length>>]
           more == Append(list, o)
<1>1. u.files \in Seq(Files) /\ l = FlattenSeq(Full(t.files)) /\ t.files \in Seq(Described)
  BY DEF ReturnsFor, FilesPart, Given, Torrent
<1>2. l \in Seq(Nat) /\ Len(l)
        = Len(u.files) /\ \A k \in 1 .. Len(u.files) : l[k] = u.files[k].length
  <2>1. l \in Seq(Nat)
    BY <1>1, FullSums
  <2> QED
    BY <1>1, <2>1 DEF Lengths
<1>3. list \in Seq(Outputs) /\ n \in Nat /\ pos = SumTo(l, n) /\ n + 1 \in 1 .. Len(u.files)
      /\ (n + 1) - 1 = n /\ n \in 0 .. Len(l)
  BY <1>1, <1>2 DEF Written
<1>4. f \in Files /\ l[n + 1] = f.length
  BY <1>1, <1>2, <1>3
<1>5. f.path \in Seq(Words) /\ f.length \in Nat
  BY <1>4 DEF Files
<1> HIDE DEF l
<1>6. pos \in Nat
  BY <1>2, <1>3, SumSteps
<1>7. o \in Outputs
  BY <1>5, <1>6 DEF Outputs
<1>8. o = Output(u, n + 1)
  <2>1. Output(u, n + 1) = [path |-> f.path, bytes |-> <<SumTo(l, (n + 1) - 1), f.length>>]
    BY Zenon DEF Output, l, n
  <2> QED
    BY <1>3, <2>1
<1> HIDE DEF o, n
<1>9. more \in Seq(Outputs) /\ Len(more) = n + 1 /\ more[n + 1] = o /\
        \A k \in 1 .. n : more[k] = list[k]
  BY <1>3, <1>7 DEF n
<1>10. SumTo(l, n + 1) = pos + f.length
  <2>1. \A k \in 1 .. Len(l) : SumTo(l, k) = SumTo(l, k - 1) + l[k]
    BY <1>2, SumSteps
  <2>2. SumTo(l, n + 1) = SumTo(l, (n + 1) - 1) + l[n + 1]
    BY <1>2, <1>3, <2>1
  <2> QED
    BY <1>3, <1>4, <2>2
<1> HIDE DEF more
<1>11. \A k \in 1 .. n : list[k] = Output(u, k)
  BY DEF Written, n
<1>12. \A k \in 1 .. Len(more) : more[k] = Output(u, k)
  BY <1>3, <1>8, <1>9, <1>11
<1>13. Len(more) <= Len(u.files)
  BY <1>3, <1>9
<1>14. Written(u, more, pos + f.length)
  BY <1>9, <1>10, <1>12, <1>13 DEF Written, l
<1> QED
  BY <1>14 DEF more, o

LEMMA FilesInvInit == Init => FilesInv
BY PiecesInvInit DEF Init, FilesInv, Loaded

LEMMA FilesInvStep == FilesInv /\ [Next]_vars => FilesInv'
<1> SUFFICES ASSUME FilesInv, [Next]_vars PROVE FilesInv'
  OBVIOUS
<1>1. PiecesInv /\ PiecesInv' /\ ParseInv /\ ParseInv'
  BY PiecesInvStep DEF FilesInv, PiecesInv
<1>2. CASE ParseToken \/ UNCHANGED vars
  BY <1>1, <1>2 DEF ParseToken, vars, diskVars, parserVars, FilesInv, Loaded
<1>3. CASE LoadTorrentFile
  <2>1. outputs' = <<>> /\ inputPos' = 0 /\ stage' = "Build"
    BY <1>3 DEF LoadTorrentFile, diskVars, FilesInv
  <2>2. Given(torrent') /\ ReturnsFor(torrent', tf')
    BY <1>1, <2>1 DEF ParseInv, Loaded
  <2>3. Written(tf', <<>>, 0)
    BY <2>2, NothingWritten
  <2> QED
    BY <1>1, <2>1, <2>3 DEF FilesInv
<1>4. ASSUME stage # "Load", stage' # "Load", tf' = tf, outputs' = outputs,
               inputPos' = inputPos,
             stage' \in {"Build", "Update"} => stage \in {"Build", "Update"}
      PROVE  FilesInv'
  BY <1>1, <1>4 DEF FilesInv, Loaded
<1>5. CASE BuildPiece \/ StartDownload
  BY <1>4, <1>5 DEF BuildPiece, StartDownload, UpdatePeers, parserVars
<1>6. CASE (\E a \in unasked : AskTracker(a)) \/ AskAgain \/ DownloadAll
  BY <1>4, <1>6 DEF AskTracker, AskAgain, DownloadAll, UpdatePeers, diskVars, parserVars
<1>7. CASE WriteFile
  <2> DEFINE f == tf.files[Len(outputs) + 1]
  <2>1. /\ stage = "Distribute" /\ Len(outputs) < Len(tf.files) /\ stage' = stage /\ tf' = tf
        /\ outputs' = Append(outputs, [path |-> f.path, bytes |-> <<inputPos, f.length>>])
        /\ inputPos' = inputPos + f.length
    BY <1>7 DEF WriteFile, MoreFiles, parserVars
  <2>2. Given(torrent) /\ ReturnsFor(torrent, tf) /\ Written(tf, outputs, inputPos)
    BY <1>1, <2>1 DEF FilesInv, ParseInv, Loaded
  <2>3. Written(tf, Append(outputs, [path |-> f.path, bytes |-> <<inputPos, f.length>>]),
          inputPos + f.length)
    <3>1. ASSUME NEW g, g = f
          PROVE  Written(tf, Append(outputs,
                   [path |-> g.path, bytes |-> <<inputPos, g.length>>]), inputPos + g.length)
      BY <2>1, <2>2, <3>1, WrittenNext
    <3> QED
      BY <3>1
  <2> HIDE DEF f
  <2>4. Written(tf', outputs', inputPos')
    BY <2>1, <2>3
  <2> QED
    BY <1>1, <2>1, <2>4 DEF FilesInv
<1>8. CASE CannotOpenFile \/ AllWritten \/ DeleteDownloadedFile
  BY <1>4, <1>8 DEF CannotOpenFile, AllWritten, DeleteDownloadedFile, MoreFiles, diskVars,
       parserVars
<1> QED
  BY <1>2, <1>3, <1>5, <1>6, <1>7, <1>8 DEF Next

LEMMA FilesInvRight == FilesInv => FilesGetTheirBytes
<1> SUFFICES ASSUME FilesInv, NoEmptyFile, NEW k \in 1 .. Len(outputs)
             PROVE  LET first == SumTo(Lengths(torrent), k - 1)
                        last  == SumTo(Lengths(torrent), k) - 1
                    IN /\ outputs[k] = [path  |-> torrent.files[k].path,
                                        bytes |-> <<first, torrent.files[k].length>>]
                       /\ \A byte \in first .. last : \E i \in DOMAIN pieces :
                            byte \in OffsetOnDisk(i - 1) .. OffsetOnDisk(i - 1) + pieces[i] - 1
  BY Zenon DEF FilesGetTheirBytes
<1> DEFINE n == Len(torrent.files)
           l == Lengths(torrent)
<1>1. outputs # <<>>
  OBVIOUS
<1>2. Loaded /\ stage \notin {"Load", "Build"}
  BY <1>1 DEF FilesInv, Loaded
<1>3. /\ Given(torrent) /\ ReturnsFor(torrent, tf) /\ Written(tf, outputs, inputPos)
      /\ Cut(torrent, pieces) /\ Len(pieces) = PieceCount(torrent)
  BY <1>2 DEF FilesInv, PiecesInv, ParseInv
<1>4. torrent.files \in Seq(Described)
  BY <1>3 DEF Given, Torrent
<1>5. /\ n \in Nat /\ l \in Seq(Nat) /\ Len(l) = n /\ DOMAIN torrent.files = 1 .. n
      /\ \A j \in 1 .. n : l[j] = torrent.files[j].length /\ l[j] \in Nat
  BY <1>4, LengthsType DEF Lengths, LengthsOf
<1>6. \A j \in 1 .. n : torrent.files[j].length # 0
  <2>1. \A j \in DOMAIN torrent.files : torrent.files[j].length > 0
    BY Zenon DEF NoEmptyFile
  <2>2. \A j \in 1 .. n : torrent.files[j].length \in Nat
    BY <1>5
  <2> HIDE DEF n
  <2> QED
    BY <1>5, <2>1, <2>2
<1>7. Lengths(tf) = l
  BY <1>3, <1>4, <1>6, FullSums DEF ReturnsFor, FilesPart, Lengths, LengthsOf
<1>8. tf.files \in Seq(Files) /\ Len(tf.files) = n /\
        \A j \in 1 .. n : tf.files[j].path = torrent.files[j].path
  BY <1>3, <1>6, Zenon DEF ReturnsFor, FilesPart
<1>9. k \in 1 .. n /\ outputs[k] = Output(tf, k) /\ k - 1 \in 0 .. n /\ k \in 0 .. n
  <2>1. outputs \in Seq(Outputs) /\ Len(outputs) <= n /\ outputs[k] = Output(tf, k)
    BY <1>3, <1>8 DEF Written
  <2> QED
    BY <1>5, <2>1
<1>10. tf.files[k].length = l[k]
  BY <1>7, <1>8, <1>9 DEF Lengths
<1>11. outputs[k] = [path |-> torrent.files[k].path, bytes |->
         <<SumTo(l, k - 1), torrent.files[k].length>>]
  <2>1. tf.files[k].path = torrent.files[k].path /\ tf.files[k].length = torrent.files[k].length
    BY <1>5, <1>8, <1>9, <1>10
  <2>2. Output(tf, k)
          = [path |-> tf.files[k].path, bytes |-> <<SumTo(l, k - 1), tf.files[k].length>>]
    BY <1>7, Zenon DEF Output
  <2> QED
    BY <1>9, <2>1, <2>2, Zenon
<1>12. tf.pieceLength = torrent.pieceLength
  BY <1>3 DEF ReturnsFor
<1>13. SumTo(l, k - 1) \in Nat /\ SumTo(l, k) \in Nat /\ SumTo(l, k) <= Content(torrent) /\
         Content(torrent) \in Nat
  <2>1. SumTo(l, k) <= SumTo(l, n) /\ SumTo(l, n) \in Nat
    <3>1. n \in k .. Len(l) /\ k \in 0 .. Len(l) /\ n \in 0 .. Len(l)
      BY <1>5, <1>9
    <3> QED
      BY <1>5, <3>1, SumGrows, SumSteps
  <2>2. SumTo(l, k - 1) \in Nat /\ SumTo(l, k) \in Nat
    BY <1>5, <1>9, SumSteps
  <2>3. SumTo(l, n) = Content(torrent)
    BY DEF Content
  <2> QED
    BY <2>1, <2>2, <2>3
<1> HIDE DEF l, n
<1>14. ASSUME NEW byte \in SumTo(l, k - 1) .. SumTo(l, k) - 1
       PROVE  \E i \in DOMAIN pieces : byte \in OffsetOnDisk(i - 1) .. OffsetOnDisk(i - 1) + pieces[i] - 1
  <2>1. byte \in Nat /\ byte < Content(torrent)
    BY <1>13
  <2>2. \E i \in DOMAIN pieces :
          byte \in (i - 1) * torrent.pieceLength .. (i - 1) * torrent.pieceLength + pieces[i] - 1
    BY <1>3, <2>1, ByteInPiece
  <2> QED
    BY <1>12, <2>2, Zenon DEF OffsetOnDisk
<1> QED
  BY <1>11, <1>14, Zenon DEF l

\* Every file on disk has the path and the bytes of the torrent's file of its
\* number, each of which some piece brought, for any number of files and of
\* pieces (DistributePiecesBetweenFiles).
THEOREM FilesAreRight == Spec => []FilesGetTheirBytes
<1>1. Init => FilesInv
  BY FilesInvInit
<1>2. FilesInv /\ [Next]_vars => FilesInv'
  BY FilesInvStep
<1>3. FilesInv => FilesGetTheirBytes
  BY FilesInvRight
<1> QED
  BY <1>1, <1>2, <1>3, PTL DEF Spec
=============================================================================
