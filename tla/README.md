# A verification project for torrent-client-cli

TLA+ models of the torrent client in `src/src`, the TLC runs that check them,
and proofs for TLAPS. Paths below are relative to `src/src` unless they say
otherwise.

The client downloads one torrent. The main thread asks the trackers for peers,
starts one `PeerConnect` per peer in a thread pool, and looks once a second at
the `PieceStorage` the connections share. When all pieces are on disk it
terminates and joins the connections; when no piece is being downloaded it does
the same and starts another round with more peers.

## 1. Inventory

| Component | State | Operations | What makes it correct |
|---|---|---|---|
| `Piece` (piece.cpp) | block vector: status and bytes of each block | `FirstMissingBlock`, `SaveBlock`, `AllBlocksRetrieved`, `GetData`, `Reset` | a piece is complete only when each block has its own bytes; a returned piece is empty |
| `PieceStorage` (piece_storage.cpp) | queue, map of pieces handed out, saved list, atomic counter, file descriptor, the file | `GetNextPieceToDownload`, `PieceProcessed`, `BackPieceToQueue`, `DecrementPieceInProgressCounter`, `SetNewSize`, the queries | a wanted piece is in exactly one container; the counter agrees with the map |
| `PeerConnect` (peer_connect.cpp) | `terminated_`, `failed_`, `choked_`, `pendingBlock_`, `pieceInProgress_`, `isPieceDownloadingNow_`, the socket | `Run`, `EstablishConnection`, `MainLoop`, `RequestPiece`, `Terminate`, the retries of its task in main.cpp | one holder per piece; answers land in the piece they are for; a piece is given back when its download ends early |
| Download loop (main.cpp) | attempts, the list of connections, `requestMorePeers` | `DownloadTorrentFile`, `RunDownloadMultithread` | finished means complete; a round ends; a new round starts clean |
| `StaticThreadPool` (StaticThreadPool.cpp) | queue, condition variable, workers | `Submit`, `Join`, `Put`, `Take`, `WorkerRoutine` | each task once; no lost wakeup; `Join` comes back after the last task |
| Torrent file parser (torrent_file.cpp) | a stack, the last key, two depth counters, a file under construction | `parser` | every file, length, hash and tracker is found; the info hash is of the info dictionary |
| Layout (piece_storage.cpp, piece.cpp, main.cpp) | lengths and offsets, the files written | the constructors, `SavePieceToDisk`, `DistributePiecesBetweenFiles` | pieces tile the content, blocks tile a piece, files get their own bytes |
| `TorrentTracker` (torrent_tracker.cpp, bencode.cpp) | `peers_` | `UpdatePeers`, `parsePeer`, `getCompactIp` | every peer the tracker named, with its address |
| `TcpConnect` (tcp_connect.cpp) | the socket | `EstablishConnection`, `SendData`, `ReceiveData`, the destructor | a message is read in full or an exception is thrown; a new connection is not disturbed by an old one |
| `Message` (message.cpp) | none | `Parse`, `Init`, `ToString`, the handshake and the request | the peer can decode what it is sent, and the reverse |
| `PeerPiecesAvailability` (peer_connect.cpp) | the bitfield | `SetPieceAvailability`, `IsPieceAvailable` (no caller) | a Have marks the piece it names |
| Bencode and byte tools | none | conversions between numbers and bytes, keys of the parser | each is the inverse of the peer's |
| Start of the program (main.cpp) | none | argument checks, directories | |

How they interact: connections call the storage (one mutex and one atomic
counter); main reads the storage and writes `terminated_` of each connection;
the pool runs the connections' tasks; the peer's messages drive `MainLoop`; an
exception thrown anywhere below `Run` ends in the task's `catch`.

What is hard here: threads interleave between the critical sections; exceptions
pass by the code that returns a piece; a connection object is reused by the
retries of its task and the storage by every round; the peer chooses the
messages. `PROJECT.json` lists these hazards, each at its line.

## 2. Modules

The connections, the pool and the main thread, with the abstract specifications
they implement in parentheses:

    Piece <- PieceStorage <- PeerConnect (PieceLedger) <- Download <- MCDownload
                                  ^-- MCPeerConnect
    StaticThreadPool (TaskExecutor)

One connection byte by byte, and the way from the torrent file to the files:

    ByteTools <- TcpConnect, Message, PeerPiecesAvailability
                   <- PeerWire (MessageChannel) <- MCPeerWire
    ByteTools <- Metainfo <- TorrentParser
    ByteTools <- TorrentTracker;  TorrentParser, TorrentTracker <- Layout <- MCLayout

The proofs:

    PeerConnect <- PeerConnectProofs <- CleanProofs <- DownloadProofs
    StaticThreadPool <- StaticThreadPoolProofs
    ByteTools <- ByteToolsProofs <- PeerWireProofs
                 ByteToolsProofs <- ParserProofs <- LayoutProofs

An arrow points from the module that is extended to the one that extends it;
each of the proof modules also extends the module it is named after
(ParserProofs: TorrentParser).

- **Piece**: block vectors as functions from block number to status and data.
  The data of a block is the number of the piece its bytes belong to, so that a
  block stored in the wrong piece can be told; the bytes themselves, and blocks
  of a wrong length, are not modelled.
- **PieceStorage**: the fields of the class, and one operator per critical
  section or access of the counter. A deque is a sequence, the map is the set of
  its keys (its value is always the piece of that number). `disk` says for
  each piece what the file holds at its offset. The counter wraps at `SizeMax`.
- **PeerConnect**: for each connection a `pc`, the fields of the class, the
  attempts of its task and `requests`, what the peer has been asked for. One
  action per message, per exception and per storage access of `Run`, `MainLoop`
  and `RequestPiece`; a step holds at most one access to what other threads
  write. Two reads share a step with what follows: that of `terminated_` with
  the handling of the message after it (main writes that flag and reads nothing
  of the connection, so a write in between commutes with the step), and that of
  `QueueIsEmpty`, which is the step `Ask` alone, since what follows depends on
  the queue. `Construct` and `Terminate` are the rest of the program.
- **PieceLedger**: the abstract specification. A wanted piece is queued, leased
  to one connection, saved, or lost; only the leaseholder saves it, gives it back
  or loses it. `LedgerSpec` in PeerConnect is its instance under the refinement
  mapping that reads the holder off the saved list, the queue and the flags.
- **Download**: the main thread. `Submit` is the construction of a connection
  and the submission of its task; `Join` waits for every task of the round;
  `HasWorker` lets at most `Workers` tasks run at a time. With no worker
  (`hardware_concurrency` may return 0) `Join` returns at once, the tasks are
  dropped with the pool, and the next round's `Construct` finds them unrun. Each element of `Conns`
  is one entry of `peers_`. The tracker's answer is any set of peers, and with
  `BadAnswer` it may make the parser throw. `sleep_for` takes no time.
- **StaticThreadPool**: the queue's mutex sections, the condition variable with
  spurious wakeups, the workers and `Join`. `ExecutorSpec` is its instance of
  **TaskExecutor**, what the main thread takes a pool for: tasks start in the
  order of submission, at most as many run as there are workers, `Join` comes
  back after the last. The refinement mapping forgets the pills, the sleeping
  threads and the wakeups. Download's `Start` and `Join` rely on this promise and
  not on the module itself; Download lets the tasks start in any order, which
  is more than the executor does.
- **ByteTools**: numbers as bytes, on a little-endian host. A byte has
  `BitsPerByte` bits and an int `IntSize` bytes; the code's values are 8 and 4.
  `Value` and `Digits` are the loops of `BytesToInt` and of the bytes in memory, for
  any base; `Hton` is the swap of the bytes in memory. `SumTo` adds lengths.
- **TcpConnect**: a socket and both loops of `ReceiveData`. `stream` holds what the
  peer has sent and nobody has read; each `recv` takes some of it, from one byte
  to all it asks for, so that a message comes in any pieces and a piece may
  hold the end of one message and the start of the next. `openFds` are the
  descriptors of the process: a new connection takes the lowest free one, and
  the old socket stays open, as in the code.
- **Message**: `Parse` and `ToString`, the handshake and the request, whose
  numbers take the way of the code, through `htonl` and the bytes in memory.
- **PeerPiecesAvailability**: the bits a Have sets, with the sign that the shift of
  a `char` drags in, and the index one past the end that the bound lets through;
  the bit `IsPieceAvailable` reads.
- **PeerWire**: one connection's thread from `Run` to the end of its task over
  TcpConnect, with a peer that sends any greeting and any messages, stops, and
  dies in the middle of one. It is the other half of PeerConnect: there the next
  message is a choice and the pieces are modelled; here the bytes are, and
  which block is asked for is a choice (`RequestPiece`, `RequestFails`), as is
  whether a Piece message is stored or throws (`HandlePiece`: one that is too short
  always throws) and whether the task tries again after an exception. `Framed`, `Interested` and
  `Request` are what the protocol says the client should send, with which
  `PeerHearsWhatIsSaid` compares what it does send. `ChannelSpec` is the instance of
  **MessageChannel**, which is what PeerConnect takes for granted: messages come
  whole, in order and once, and a new connection starts empty.
- **Metainfo**: what other programs write, a torrent as the tokens of its
  bencoding. A token stands for the characters one turn of the parser's loop
  consumes. Keys the parser does not know stand before, between and after those
  it does, at the top, in the info dictionary and in the entry of a file, with
  strings, integers and lists of strings as values.
- **TorrentParser**: the function `parser`, one operator per kind of token. A flag is
  the key it stands for. A string that is only stored is a name; `pieces` has
  a length. `infoString` is the tokens it holds, and SHA-1 is left out: the
  hash of a text stands for the text. The path of a file is the sequence of its
  parts within the directory named after the torrent.
- **TorrentTracker**: the loop over the trackers, the loop over the compact peers
  with its one entry too many (`NumEntries`), and the address that `connect` is
  given in the end. `Rests` is what may follow the list of peers in an answer. When
  nothing follows, the bytes beyond the end are any.
- **Layout**: one program run from the torrent file to the files on disk, with the
  bytes of the content numbered from 0: the parser token by token, the lengths
  that `PieceStorage` and `Piece` compute from what it found, the trackers, and
  `DistributePiecesBetweenFiles`. The download between is a step: that it brings
  every piece is Download's `CompleteWhenFinished`.

Operators named `Mut...` are plausible errors of the definition that
follows them. No specification uses them; each is there to show that a property
would notice.

## 3. Runs

| Run | Question | Result |
|---|---|---|
| `PeerLedger` | Can any fault, unsolicited blocks and short writes included, break the lease of a piece, or drive the counter past the map? | holds |
| `DownloadClean` | With no I/O error, are the books exact, does a round leave anything behind? | holds |
| `DownloadErrors` | Can a failure duplicate or drop a piece, return a dirty one, put an answer in the wrong piece, leave a connection with a piece and no request out, or let main finish with a hole in the file? | holds |
| `DownloadLive` | Does `Join` return, and is a dead round left? | holds |
| `Pool` | Is each task run exactly once, is no wakeup lost, does `Join` return, is the pool an executor? | holds |
| `LayoutFiles` | Does each file on disk have the bytes the torrent says, is the info hash of the info dictionary, are the named peers found, with one more after each answer? | holds |
| `PeerWire` | Do messages arrive whole, in order and once, can the peer decode what it gets, does reading end? | holds |
| `PeerLostUnchoke` | Is an Unchoke in place of the bitfield kept (peer_connect.h:96-98)? | **violated** |
| `PeerLostPiece` | Is a piece given back after an error (piece_storage.h:77)? | **violated** |
| `PeerHave` | Does a Have mark the piece it names (peer_connect.h:29-31, 18)? | **violated** |
| `DownloadGivenUp` | Is a round given up only if no connection works (main.cpp:78)? | **violated** |
| `LayoutSingle` | Is the last piece of a one-file torrent what is left (piece_storage.h:96)? | **violated** |

What the five violations show:

- *PeerLostUnchoke*: `ReceiveBitfield` lowers `choked_`, then `MainLoop` begins with
  `clearFlags`, which raises it (peer_connect.cpp:256). The connection requests
  nothing until the peer sends Unchoke again.
- *PeerLostPiece*: a failed `send` in `RequestPiece` throws past the code after the
  loop. The piece stays in the map, the counter stays above 0, and main polls for
  ever. A bad Have, a short Piece message or a block number out of range do the
  same. If `failed_` was set, the retry goes further: it enters `MainLoop` with
  the flag up and no piece, and dereferences a null pointer when it leaves
  (the step `LeaveCrashes`, reached in `DownloadErrors`).
- *PeerHave*: `SetPieceAvailability` computes `byte |= ((byte >> bitIndex) | 1)`
  (peer_connect.cpp:45), which sets bit 0 of the byte; the bit of any other piece is
  set only if the bits already there bring it about. Nothing calls
  `IsPieceAvailable`, so the program is not disturbed.
- *DownloadGivenUp*: `PieceProcessed` decrements the counter before it saves, so
  main may see 0 while the last piece is on its way to the disk; it then asks the
  trackers again, and four bad answers in a row abort a finished download.
- *LayoutSingle*: with one file `parser` sets `tf.length` to the length of that
  file, so that nothing is left of a piece by the files, and line 32 of
  piece_storage.cpp replaces the last piece's length by `tailSize`, which is then
  `pieceLength`: the client asks for bytes that do not exist.

What holds for a reason one may overlook: `FilesGetTheirBytes` and the paths in
`ParserFindsAll` are claimed of torrents without empty files. A file of length 0
never completes its entry, and its path is joined with the next file's
(torrent_file.cpp:57); the lengths are right even then. `PeersOfAnswers`
says that after each answer there is exactly one peer that nobody named: the loop
runs once too often (torrent_tracker.cpp:39).

`HolderHasARequestOut` is claimed of a connection that has not been choked since
`MainLoop` began (`failed_`, which a Choke raises). After a Choke the peer may have
dropped the request, `pendingBlock_` stays set, and the next Unchoke brings no new
request: the connection waits for an answer nobody owes it (peer_connect.cpp:199).
`FirstAttemptHasAPiece` is claimed of the first attempt of a task: in a retry the
pointer may be null, and the program crashes.

`ParserFindsAll` and `InfoHashIsOfInfo` are claimed of the torrents Metainfo writes.
Two things it does not write make the parser fail. In a file's entry, an unknown
list with an even number of strings, such as the "path.utf-8" of a file in a
directory: its last string is taken for a key, the flag outlives the list
(torrent_file.cpp:69), the next "length" is taken for that key's value, and the
file is lost. And a dictionary under an unknown key (section 5).

A piece whose `write` failed stays in the map with nobody to download it. That
satisfies `EveryPieceInOnePlace`, is a lost lease in the ledger, and keeps main
from ever finishing: `CompleteWhenFinished` says what a finished download has,
not that a download finishes.

### Faults

`Faults` selects what may go wrong: failing sends, Have out of range, short
messages, unsolicited blocks, failing and short writes, a file that cannot be
reopened. A peer that chokes, drops requests, falls silent or sends empty messages
is always there. `DownloadErrors` has every fault except `Unsolicited` and
`ShortWrite`: the code detects neither, and `SavedIsRight`, `AnswersFitThePiece`,
`HolderHasARequestOut` and `CompleteWhenFinished` are true only without them.
`PeerLedger` has every fault (`AllFaults`). In `DownloadClean` and
`DownloadLive` there are none: with them a leaked piece keeps main polling, which
`PeerLostPiece` shows.

### Bounds

Two connections and two pieces are the least with which connections compete for
a piece, for the last piece, and for a place in the queue. `MCNumBlocks` gives the
first piece two blocks and the last one, so that a piece can be half done;
`MCOneBlock` is used where that does not matter. In `DownloadErrors` a third
piece is cut off by `SetNewSize`, and only the first piece has two blocks
(`MCFirstOfTwo`). Two rounds or more occur in every Download run,
their number is not bounded: nothing in the state counts rounds. `SizeMax` = 4
is above any count that occurs and shows an underflow as a jump to 4. `MaxBlock`
bounds the block number of an unsolicited block; 1 is out of range for the piece
of one block. `DownloadLive` has one worker for two tasks. The pool has three
workers, so that one can be awake, one asleep and one at work, and four tasks.

`LayoutFiles` enumerates every list of up to three files (as many as there are
`Paths`, one of them within a directory) of up to four bytes with
pieces of up to five bytes and blocks of two: files that end within a piece, at
the end of one, and span several. `OptionSets` puts unknown keys with integers and
lists as values before, between and after the known ones, and within a file's
entry. Two answers (`MaxAnswers`) are enough for the second to be appended after
the peer too many of the first. A byte has two bits and an address two bytes
there, so that every order of the bytes can be told.

In `PeerWire` a byte has three bits, enough for the ids of the messages up to
Piece, and an integer two bytes; the offset of the block in `MCBlocks` takes both. Two
connections (`MaxConnects`) are the least with one that an earlier one could disturb;
two descriptors (`MaxFds`) run out as attempts fail. The greeting and three
messages over each (`MaxMessages`), two of them ahead of the reader (`MaxAhead`),
bring the cases where a `recv` could take bytes of the next message. `PeerHave` has one
connection and the Haves of more pieces.

### Views and symmetry

`VIEW LiveState` (DownloadClean) leaves out of a state the fields that are assigned
again before anybody reads them (the flags of a connection outside `MainLoop`, for
instance); no property of that run reads them there either. `OutcomeState`
(DownloadErrors) also leaves out what an idle connection held, and the order of the
saved list.
`OwnershipState` (PeerLedger) also leaves out the bytes of blocks and the disk, on
which no guard depends, `failed` once the task has used its attempts, the blocks
of a piece that nobody can read before `Reset`, and `requests`, since there any
block may come unsolicited.
`ConnSymmetry` permutes the connections, in runs with safety properties only. The
`CHOOSE` in the refinement mapping picks a holder, which is unique
(`ExclusiveLease`), so it does not break the symmetry. The runs for liveness use
neither view nor symmetry.

`CHECK_DEADLOCK FALSE` stands where the system may stop: a finished or aborted
download, a crashed process, a joined pool, the last file written, the last
connection of `MaxConnects` closed.

### Fairness

`FairDownloadSpec` has weak fairness of main and of each worker's steps: threads
are scheduled, and `ReceiveData` returns or throws. The second is what
`readTimeout_` gives for a peer that is silent; a peer that sends single bytes
for ever would break it (tcp_connect.cpp:114, listed as a hazard). No fairness is
assumed of what the peer sends: nothing promises that a download ends, and no
property claims it. In the pool, workers and main are fair and spurious wakeups
are not.

PeerWire's `FairSpec` has weak fairness of the thread inside `ReceiveData` alone
(`ReadOn`, `ReceiveThrows`, `Returned`): each `poll` returns when there is data, at the
end of the stream, or after `readTimeout_`. The timeout is per poll and not per
message, so that `ReadingEnds` says that reading ends, since a message does, and not
how soon.

## 4. Proofs

Every safety property, action property and refinement that a passing run checks
is also a theorem, for all values of the constants: numbers of pieces, blocks,
connections, workers, tasks, files, trackers and answers, lengths, and the sizes
of a byte and of an int. What the constants must satisfy is named in the modules
that declare them and evaluated by TLC in every run:

- Piece, PieceStorage, PeerConnect: positive numbers, `PiecesToDownload` in
  `1 .. NumPieces`, `SizeMax` at least `NumPieces`, `NoPiece` not a piece.
- Download: any number of workers, 0 included.
- StaticThreadPool: finitely many workers; `Pill` and `NoTask` no tasks.
- ByteTools, Metainfo: a byte has at least one bit, an int and a hash one byte.
- PeerWire (`WireAssumption`): the peer's greeting has the length of a
  handshake, and its messages, the numbers of the blocks that are asked for and
  the lengths of the client's own messages fit in an int.
- TorrentTracker (`AnswersAssumption`): an answer names peers of the right size,
  and the list of peers is not the last of its bytes.
- Layout (`LayoutAssumption`): blocks and pieces are not empty, each file has a
  path, and there is a tracker. The lengths of files start at 0.

Where a theorem needs more, the third column says so; for any other kind of
fault it holds.

| Theorem | States | Needs besides | Invariant |
|---|---|---|---|
| `PeerConnectProofs!TypeCorrect` | `TypeOK` | | `TypeInv` |
| `PeerConnectProofs!PiecesInOnePlace` | `EveryPieceInOnePlace` | | `OwnInv` |
| `PeerConnectProofs!LeasesExclusive` | `ExclusiveLease` | | `OwnInv` |
| `PeerConnectProofs!QueuedFresh` | `QueuedPiecesAreFresh` | | `FreshInv` |
| `PeerConnectProofs!LedgerRefined` | `LedgerSpec` | no connection is named like a state of the ledger | `OwnInv` |
| `PeerConnectProofs!CounterStaysWithin` | `CounterWithinLeases` | finitely many connections | `CounterInv` |
| `PeerConnectProofs!FirstReturnsAPiece` | `FirstAttemptHasAPiece` | | `FirstInv` |
| `CleanProofs!AnswersFit` | `AnswersFitThePiece` | no `Unsolicited` | `AnswerInv` |
| `CleanProofs!SavedRight` | `SavedIsRight` | no `Unsolicited`, no `ShortWrite` | `SavedInv` |
| `CleanProofs!CounterExact` | `CounterIsExact` | `NothingThrows`, finitely many connections | `ExactInv` |
| `CleanProofs!HolderHasRequestOut` | `HolderHasARequestOut` | no `Unsolicited` | `AskInv` |
| `DownloadProofs!MainTypeCorrect` | `MainTypeOK` | | `MainInv` |
| `DownloadProofs!DownloadImplements` | `Spec` of PeerConnect | | |
| `DownloadProofs!DownloadTypeCorrect`, `DownloadKeepsPieces`, `DownloadKeepsLeases`, `DownloadCountsRight`, `DownloadHolderHasRequestOut`, `DownloadFirstReturnsAPiece` | the properties of the connections, of the whole program | as for the connections | |
| `DownloadProofs!FinishedIsComplete` | `CompleteWhenFinished` | no `Unsolicited`, no `ShortWrite` | `SavedInv`, `EnoughSaved` |
| `DownloadProofs!RoundsClean` | `RoundsStartClean` | `NothingThrows`, no `WriteFails`, finitely many connections | `ExactInv`, `AllHeld`, `RoundInv` |
| `StaticThreadPoolProofs!TypeCorrect` | `TypeOK` | | `TypeInv` |
| `StaticThreadPoolProofs!WakeupsKept` | `NoLostWakeup` | | `TypeInv`, and itself |
| `StaticThreadPoolProofs!TasksRunOnce` | `EachTaskOnce` | | `PoolInv` |
| `StaticThreadPoolProofs!JoinWaitsForAll` | `JoinedMeansDone` | a worker | `PoolInv` |
| `StaticThreadPoolProofs!ExecutorRefined` | `ExecutorSpec` | a worker | `PoolInv`, `QueueSplit` |
| `PeerWireProofs!HeardAsSaid` | `PeerHearsWhatIsSaid` | | `HeardInv` |
| `PeerWireProofs!WireIsAChannel` | `ChannelSpec` | | `ChannelInv` |
| `LayoutProofs!AddressesArrive` | `PeersOfAnswers` | | `TrackerInv` |
| `LayoutProofs!ParserIsRight` | `ParserFindsAll` | | `ParseInv` |
| `LayoutProofs!HashIsOfInfo` | `InfoHashIsOfInfo` | | `ParseInv` |
| `LayoutProofs!PiecesAreRight` | `PiecesTileTheContent` | | `PiecesInv` |
| `LayoutProofs!BlocksAreRight` | `BlocksTileThePiece` | | `PiecesInv` |
| `LayoutProofs!FilesAreRight` | `FilesGetTheirBytes` | | `FilesInv` |

`NothingThrows` is `Faults` within `WriteFails` and `ShortWrite`: the two faults the code
does not notice.

### The connections

`EveryPieceInOnePlace` is not inductive by itself: `SavePieceToDisk` appends to
the saved list whatever it is given, so one needs that the piece in progress is
in the map, which is `ExclusiveLease`, which in turn needs `LeaseByPc` (a conjunct of
`TypeInv`) to know that a piece is held where it is saved or returned. `OwnInv` is the
conjunction of the three. `FreshInv` adds that a piece on its way back to the
queue (`pc` = `Back`) has been reset; that no other connection fills its blocks
meanwhile is `ExclusiveLease` again.

The steps that touch neither storage, blocks nor pieces are treated together
(`Local`, `LocalMoves`), as are those that take or go on with a piece (`Fetch`,
`FetchMoves`), so that each invariant has few cases. `PeerConnectProofs` begins with
the facts about queues: what the head leaves behind (`HeadLeaves`), what an append adds
(`AppendEnters`), what the cut queue of the constructor holds (`WantedAreQueued`).

`AnswersFit` follows the requests: what a peer has been asked for in this run of
MainLoop is of the piece in progress, with which a connection parts only as it
leaves the loop. `SavedRight` adds that a block that has come belongs to its
piece (`DataFits`), and so do the pieces on disk.

`LedgerRefined` maps each step to one of the ledger or to a stutter
(`NextIsLedgerStep`). The mapping picks the holder of a piece with `CHOOSE`;
`OneHolder` shows that there is only one to pick.

The counter is changed before the map when a piece is saved, and before the queue
when one is returned, so that the sets to compare are those of the connections
between the two (`Returning`) and of the others that hold a piece (`Counted`).
`CounterInv` bounds the counter by the second, and both together by the map;
`ExactInv` makes the bound an equation where no exception leaves a holder behind.

`HolderHasRequestOut` says that before any Choke nobody waits with a piece in hand
and no request out. `AskInv` says of a piece in progress that a block is still to
come, that at most one is marked as requested, that the connection then knows
(`pendingBlock_`), and, until a Choke, that the peer knows too and the connection goes on
asking.

`FirstReturnsAPiece` is about the pointer `MainLoop` dereferences after its loop.
`FirstInv` says that until an exception ends it, the first attempt of a task raises
the flag together with the pointer, and has lowered it whenever `Run` connects
again; so only an exception, with a retry on the same object, leaves the flag up
over a null pointer.

### The main thread

Every step of Download is one of PeerConnect's or leaves its variables alone
(`DownloadTakesSteps`), so that the program implements PeerConnect's `Spec`
(`DownloadImplements`), and what is proved of any connections holds of those that
main builds and terminates. `FinishedIsComplete` is a
pigeonhole argument: main compares the number of saved pieces only, but these are
distinct and all wanted, and as many as are wanted (`EnoughIsAll`). `RoundsClean`
needs that between rounds no connection is at work, nor ever with no worker
(`RoundInv`), that whatever
is handed out has a holder (`AllHeld`), and that the counter counts holders.

### The pool

`PoolInv` has a conjunct for each place of a task: in the queue at one index and
nowhere else (`QueuedOnce`), with one worker (`RunOnce`), over (`NoneLost`), and
`PillsLast`: behind a pill there are only pills, which is why a worker that takes one
leaves no task behind. `ExecutorRefined` adds that the tasks in the queue are its
first items (`QueueSplit`), which makes the queue without its pills a sequence; that
fewer tasks run than there are workers when one takes a task is a count of the
workers that have one (`TakerIsFree`).

### Numbers, bytes and sequences

The recursive definitions of ByteTools are recursive functions, so that
`ByteToolsProofs` can prove what they compute for arguments of any length. The
library's induction takes a predicate as a parameter, which these provers cannot
instantiate; here a set of numbers takes its place: one that holds 0 and with each
number the next holds them all (`Induction`), and a function with a given start and
step exists (`Recursion`) and is the only one (`Agree`). From these follow the
recurrences of the definitions (`SumSteps`, `ValueSteps`, `DigitsSteps`,
`FlattenSteps`), and from the recurrences what the models need: the digits of the
number that digits stand for are these digits (`DigitsOfValue`), `Hton` reverses
the bytes (`HtonSwaps`), sums grow (`SumGrows`), and a sequence of parts can be
taken apart (`FlattenAppend`, `FlattenFirst`, `SplitEqual`).

### The wire

`HeardInv` says what has been sent at each point of a connection: nothing, the
handshake, or the handshake, Interested and the requests so far, each as the
protocol wants it; `NetworkIntIsBigEndian` and `IntToBytesIsBigEndian` show that
both ways of the code from a number to bytes give its digits in network order.

`WireIsAChannel` shows that the reads deliver the peer's messages whole and in
order. The invariant (`StreamInv`) is one equation of byte sequences: what
`ReceiveData` has taken and not yet returned, followed by what is in the stream and,
after the peer has died, by what will never come, is what the peer said and the client
has not yet received. `ReadingInv` adds how much is missing from the current read. A
step moves bytes from one part of the equation to the next; when a message is
complete, `SplitEqual` makes it the first that is due.

### From the torrent file to the files

`TrackerInv` says where each address of each answer lies in `peers_`, counting
one entry too many per answer. `AddressKept` follows an address through the text, the
reversal and the number whose bytes `connect` is given.

`ParserProofs` shows that the parser, which knows no grammar, follows that of the
torrents of Metainfo. A part of the file is read if its tokens lead from one value of the
parser's variables to another, whatever `infoString` holds, and are added to
`infoString` exactly while the info dictionary is open (`Reads`). Between two
entries the parser is at rest: no flag, no half-read path, the counters as before.
Each kind of entry leads from rest to rest and sets its own field (`TextEntry`,
`NumberEntry`, `AnnounceListEntry`, `UrlListEntry`, `FilesEntry`, and for keys the parser
does not know `UnknownText`, `UnknownNumber`, `UnknownListEntry`, within a file's entry
`UnknownTextPart`, `UnknownNumberPart`, `UnknownListPart`); lists of any length are
read by induction (`ReadsAll`, `EachFileReads`). `EncodeReads` puts the entries
together. With empty files only the lengths come out right: what is left of an empty
file's path is carried along (`Grown`, `Found`). `ParseInv` then says of every state of
Layout that the rest of the tokens leads to what the torrent describes.

`PiecesInv` gives the length of each piece built so far. The assertion of
`PieceStorage`'s constructor, part of `PiecesTileTheContent`, follows from what the
parser leaves in `tf.length` (`Asserted`). That the last one is what
is left, and positive, is the arithmetic of rounding up (`RoundedUp`), used for
blocks as well; the offsets are sums of equal lengths (`SumOfEqual`). `FilesInv`
says that the read position of the temporary file is the sum of the lengths of the
files written. `FullSums` is why empty files, which the parser leaves out, change
neither the sum nor the offsets, and `ByteInPiece` finds the piece that
brought a byte by division.

### Only model-checked

- `JoinReturns`, `DeadRoundIsLeft`, `JoinTerminates`, `ReadingEnds`: liveness under
  fairness, which is out of this prover's reach.
- What the five runs that end in a violation show.

Two things bound what the theorems say. `ParserIsRight` and `HashIsOfInfo` are about
the torrents of Metainfo: any number of trackers and files, any lengths, any set of
the optional and unknown entries, but the fixed keys and texts that Metainfo gives
them. And the theorems are about the models: that these are the code is the
business of the map in `PROJECT.json`.

## 5. Not modelled, and why

- SHA-1: `HashMatches` has no caller, so data is never checked and the models
  have nothing to say about it.
- `main` and its argument checks, the temporary directory, `PrepareDownloadDirectory`,
  random names and the peer id, printing, `checker.py`, the build: no state the
  rest depends on.
- In Bencode and the byte tools: `RandomString`, `HexEncode`, `CalculateSHA1`, `getWord`, and
  what has no caller. Decimal numbers are numbers.
- The tracker's HTTP request and the text around the list of peers: cpr and the
  operating system.
- In a file's entry, unknown lists of an even number of strings: section 3 says
  what the parser makes of them, listed as a hazard at torrent_file.cpp:69.
- Dictionaries under unknown keys of the info dictionary (the "file tree" of a
  hybrid torrent): the parser takes the first string in one for a value, counts
  the depth wrong and hashes the wrong text. The torrents of Metainfo have integers,
  strings and lists there, for which it is right. This is the boundary within
  which `InfoHashIsOfInfo` was checked and proved, listed as a hazard at torrent_file.cpp:49.
- Torrent files that are not well formed, for which the parser makes no promise.
- A `send` that takes only a part of its bytes: `SendData` looks at errors alone
  (tcp_connect.cpp:88-92), and the sockets are blocking, for which the kernel takes
  all of a short message.
- `Failed()` (peer_connect.h:58) promises to be true of a connection that could
  not be opened or broke; `failed_` is set by an empty message and a Choke alone.
  The task's retries are modelled on what `failed_` is; no run refutes the comment.
- A length prefix that asks for more memory than there is (`buffer.resize`): the
  peers of PeerWire send the lengths of their messages.

## 6. Plan

The components of the inventory are modelled but for the start of the program, each
safety property and each refinement that a run checks is proved. What would
come next:

1. Torrents with dictionaries under unknown keys, and with unknown lists of several
   strings in a file's entry, with a claim that fits what the parser does to them.
2. The safety half of the liveness properties: that a worker in a dead round has
   finitely many steps left, as a measure that each of its steps lowers.
