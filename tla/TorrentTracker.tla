--------------------------- MODULE TorrentTracker ---------------------------
(***************************************************************************)
(* TorrentTracker: the peers in the trackers' compact answers, and the     *)
(* address a TcpConnect makes of one (parsePeer and getCompactIp of        *)
(* bencode.cpp).  An address is kept as text in between, as its numbers    *)
(* separated by dots, here a sequence.  The retries of UpdatePeers and the *)
(* rounds that call it again are in Download.                              *)
(***************************************************************************)
EXTENDS ByteTools

CONSTANTS
  Answers,     \* what a tracker may send as "peers": sequences of entries
  Rests,       \* what may follow it in the answer: nonempty byte sequences
  MaxAnswers   \* bound on the number of answers

PortSize  == 2
EntrySize == IntSize + PortSize

ASSUME AnswersAssumption ==
  /\ Answers \subseteq Seq([1 .. EntrySize -> Byte])
  /\ Rests \subseteq Seq(Byte) \ {<<>>}

VARIABLES
  unasked,  \* the loop over announce_list: trackers still to be asked
  answers,  \* the entries each answer named, for the properties
  peers     \* peers_

trackerVars == <<unasked, answers, peers>>

TrackerInit == unasked = {} /\ answers = <<>> /\ peers = <<>>

MutPortUnshifted(entry) ==
  [ip |-> SubSeq(entry, 1, IntSize), port |-> entry[IntSize + 1] + entry[IntSize + 2]]
ParsePeer(entry) ==
  [ip |-> SubSeq(entry, 1, IntSize), port |-> entry[IntSize + 1] * Base + entry[IntSize + 2]]

\* The k-th entry of a text; bytes beyond its end read as any byte.
EntryAt(text, k, beyond) ==
  [i \in 1 .. EntrySize |->
     LET at == (k - 1) * EntrySize + i IN IF at <= Len(text) THEN text[at] ELSE beyond]

\* The loop runs while idx <= beg + count: one entry more than count has.
NumEntries(count) == count \div EntrySize + 1

TrackerAnswers(a) ==
  \E named \in Answers, rest \in Rests, beyond \in {0, 1} :
    LET list == FlattenSeq(named)
    IN /\ a \in unasked
       /\ Len(answers) < MaxAnswers
       /\ peers' = peers \o [k \in 1 .. NumEntries(Len(list)) |->
                               ParsePeer(EntryAt(list \o rest, k, beyond))]
       /\ answers' = Append(answers, named)
       /\ unasked' = unasked \ {a}

\* No answer, one that is not 200, or one with "fail" in it: the next tracker.
TrackerFails(a) ==
  /\ a \in unasked
  /\ unasked' = unasked \ {a}
  /\ UNCHANGED <<answers, peers>>

\* TcpConnect: the sockaddr_in of a peer as the kernel sees it.
GetCompactIp(ip) == Reverse(ip)
SockAddr(peer) ==
  InMemory(BytesToInt(GetCompactIp(peer.ip)), IntSize)
    \o InMemory(Hton(peer.port, PortSize), PortSize)

\* The peers are not only those the trackers named: each answer leaves its own,
\* in order, and then one that nobody named, and so do the answers after it.
\* The bytes the tracker sent for a peer it named are the bytes connect is given.
PeersOfAnswers ==
  LET first(k) == SumTo([j \in DOMAIN answers |-> Len(answers[j]) + 1], k - 1)
  IN /\ Len(peers) = first(Len(answers) + 1)
     /\ \A k \in DOMAIN answers : \A j \in DOMAIN answers[k] :
          SockAddr(peers[first(k) + j]) = answers[k][j]
=============================================================================
