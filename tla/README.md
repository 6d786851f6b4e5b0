# A TLA+ model of the torrents server

`torrents` is a self-hosted BitTorrent server in Go. A server process keeps a
table of managed torrents in SQLite, drives an embedded BitTorrent client
(anacrolix/torrent, whose source is in the repository under `licenses/`) and offers
an HTTP API and a web UI to add, pause, resume and remove torrents. This
directory holds TLA+ modules for the parts of the server that keep state, TLC
runs that check them on small instances, and TLAPS proofs of the results that
hold for instances of any size.

## 1. Inventory

| Component | State it keeps | Operations that change it | What is hard about it |
|---|---|---|---|
| torrent repository (`internal/server/database/torrent.go`) | one row per managed torrent: magnet, paused flag, length, bytes completed | Create, Delete, SetMetadata, SetBytesCompleted, SetPaused | each is one statement; a handler uses several, without a transaction |
| torrent engine (`internal/server/torrent`) | none of its own; the client's torrents and the content directory | AddMagnet, AddFile, Remove | AddMagnet blocks for metadata and verification while others may drop the torrent |
| torrent service (`internal/server/service/torrent.go`) | none; it keeps table and engine in step | AddMagnet, AddFile, Pause, Resume, Remove, Restore | no lock per torrent: handlers interleave between any two calls; cancelled contexts; partial failure |
| piece repository (`internal/server/database/piece.go`, migration 0003) | piece_completion table, cache, RWMutex | Load, Set, Forget, the cascade trigger | two copies of the truth, written by hashers and by Remove |
| server (`internal/server/server.go`) | the process | start (Load, Restore, listen), shutdown | serves only after Restore; dies at any point |
| client library (`licenses/github.com/anacrolix/torrent`) | open torrents, metadata, one big lock | add, Drop, verification, DownloadAll | closing under a waiter; the lock |
| piece hashing (`torrent.go`, `piece.go`, `peer.go` of the library) | completion, dirty chunks, dirtiers, the hash queue, smart ban records, banned addresses | receive and write a chunk, hash, mark, ban | hashers and peers leave the lock to read, write and mark; Drop waits with it |
| file storage (`storage/file-*.go` of the library) | each file's part and final name, the completion store | write, promote, demote, derive completion | renames and store accesses of different pieces of one file interleave |
| requests on the wire (`peerconn.go`, `requesting.go`) | requestState, each connection's requests and cancels, the requests held for the other end | request, steal, cancel, choke, reject, serve, upload | two ends and several connections, messages crossing on the way, sleeping connections that must be woken |
| list page (`internal/server/ui/script`, `component`) | selection, toolbar, dialog, a body class, requests in flight | clicks, bulk actions, poll, swap | answers in any order into a table that is replaced |
| HTTP API, Go client, CLI, other UI handlers | none | one service call per request | client timeouts (30 s) |
| config, logging, database opening | none after startup | | not modelled |

The service calls the engine and the two repositories. The engine calls the client
library, which writes through its file storage and reports complete pieces to the piece
repository. The list page calls the service through the UI handlers.

What makes each correct:

- service, engine and table: the paused flag and the engine agree once the calls about
  a torrent have returned; the engine tracks nothing the user cannot see without an
  error saying so; Remove erases and keeps the files it promised to; every call returns.
- piece repository: cache and table agree; a removed torrent leaves nothing behind;
  users see an atomic, durable map.
- server: nothing but missing metadata keeps it from serving requests.
- piece hashing and files: what the client believes complete, and offers to others, is
  good on disk; every finished piece is checked; only who sent bad data is banned; no
  rename loses a file; Drop returns.
- requests: a chunk is requested from one peer at a time, each request is answered once,
  nobody is disconnected for following the protocol, and no wanted chunk stays unasked
  while somebody would send it.
- list page: nothing is deleted that was not confirmed, the selection is the user's,
  the table shows the service.

The hazards, each with its line, are listed in `PROJECT.json`.

## 2. Modules

| Module | What it models |
|---|---|
| `Torrents` | the constants that table, engine and service share: `Hash`, `Length` (pieces per torrent), `Req` |
| `TorrentRepository` | the torrent table; an operator per statement |
| `Engine` | the client as the engine uses it, goroutines' handles on torrent objects, content on disk |
| `TorrentService` | the handlers, one action per call into table or client; start and death of the process; composes `TorrentRepository` and `Engine` |
| `PieceRepository` | table, cache and mutex with the hashers, adds, drops and removals that meet there |
| `CompletionStore` | abstract specification: an atomic, durable map; `PieceRepository` implements it |
| `FileStorage` | part and final files of a torrent, and the completion store as hashing uses it |
| `PieceHashing` | chunks, hashers, bans, verification and Drop of one torrent, over `FileStorage` |
| `PeerConn` | both ends of the connections over which one piece is requested |
| `ListPage` | the list page in one browser tab, with htmx, over the UI handlers |
| `MCTorrentService`, `MCPieceRepository`, `MCPieceHashing`, `MCPeerConn`, `MCListPage` | symmetry and layouts for TLC |
| `TorrentServiceProofs`, `TorrentSerialProofs`, `TorrentOrphanProofs` | theorems about `TorrentService`: with overlapping calls, without, and about torrents without a row |
| `PieceRepositoryProofs` | theorems about `PieceRepository`, the refinement included |
| `PieceHashingProofs`, `PieceFilesProofs` | theorems about `PieceHashing`: the goroutines, then the files and the blame |
| `PeerConnProofs`, `ListPageProofs` | theorems about `PeerConn` and `ListPage` |

### State and actions of `TorrentService`

A goroutine `p` has `pc[p]`, the call it makes next, prefixed by the function that
makes it (`pause.setPaused` is the `SetPaused` of `Pause`), `op[p]`, the operation it
runs, `target[p]`, its torrent, and `frame[p]`, its local variables. Requests run in
goroutines of `Req`; the goroutine that `Restore` starts for a row is named by the
row's hash. An action is one call with the caller's reaction to its result, so
handlers interleave exactly where the Go code can be preempted between two calls
that see shared state. A statement fails when its context is cancelled or when the
database errs.

`engine.AddMagnet`/`AddFile` are `EngineAdd` (client add, wait for metadata, queue a
check of each piece and wait for it, `DownloadAll`; a failure drops the torrent),
`engine.Remove` is `EngineRemove` (find and name, drop, remove files). Where they
return to is decided by `op` (`Added`, `AddFails`, `Removed`).

A handle says whether the object a goroutine holds is still the tracked one. `Drop`
closes it under every holder: a holder that waits for metadata then waits until its
context is cancelled, one that verifies gets `errTorrentClosed`, and at the start of
the next piece's check that error is returned with the client's lock still locked
(`leaked`), after which nothing that needs the lock happens.

Constants choose the environment: `Overlap` (which operations may run on a torrent
at the same time), `ReAdd` (whether managed torrents are added again) and `Faults`
(cancelled clients, failing statements, failing file removal, death of the process).

### State and actions of `PieceRepository` and `CompletionStore`

A Set is three steps (take the mutex, write the row, write the cache), a removal is the
drop, the row's deletion with its trigger, and Forget. `CompletionStore` has one map; a
Set or a removal that has begun takes effect in one step before it returns, and a death
keeps the effect of what had returned and, of what was under way, either. A torrent is
dropped by a removal, by a pause, or by an add that was cancelled before its row existed. The
refinement mapping (`Store`) reads the map from the cache while the process lives.
It holds where a torrent is not removed with a Set under way: a late mark does bring
back an entry of a removed torrent (below).

### State and actions of `PieceHashing` and `FileStorage`

A hasher goes through `StartHash` (client lock), `HashPiece` (storage lock only),
`FinishHash` (client lock), `MarkSet`, `MarkFile`, `Rename` (no lock) and `PieceMarked`
(client lock). A peer's read loop goes through `ReceiveChunk` (client lock), `WriteChunk`
(no lock), `ChunkWritten` (client lock). Every action that needs the client's lock is
disabled while `dropping`: `Drop` holds it until no hasher holds the storage lock. When
it returns, what is still at work is `old` and finishes without touching the new
object. A hash ends in a verdict or in a read error (`ioErr`), after which the piece is
marked incomplete and nobody is blamed. A file is a function from its blocks to hole, good
or bad under each of its two names; it has its full length from its creation on, and
reads prefer the part name.

### State and actions of `PeerConn`

`local[c]` and `remote[c]` are the two ends of a connection. Messages pass through the
write buffer of each end, in order. A handler is one action, as it runs under the
lock of its client; the update of a connection's requests (`UpdateRequests`, then
`ApplyRequestState` for each request in turn) is taken apart only to keep the order
of equally good requests open. A request is refused while choking or with a full queue
(`Refuses`) and ends the connection when it is a duplicate or the piece is gone (`Kicks`).
Serving one is `ServePeerRequest`, `WaitForDataAlloc` and `PeerRequestDataRead`, between
which the lock is free. The server that finds no room for its data sleeps (`alloc`) until
a buffered chunk's deletion wakes it (`woken`); a choke deletes without waking. A failed
read may find that storage lost the piece (`has`). The piece's check is reduced to its
verdict (`CheckPasses`, `CheckFails`); `PieceHashing` has the rest.

### State and actions of `ListPage`

One action per event handler or callback of the page's single thread, and per handler run
at the server. Checkbox nodes and rows are kept apart (`boxes`, `rows`): htmx preserves
the nodes over a swap, and an answer whose target was replaced takes them
with it. `request` holds the poll, one poll whose table was replaced meanwhile, and
the refresh after a bulk action; htmx's queue holds one more (`queued`). What htmx does is
translated from the minified source in the repository (`ui/static/htmx.min.js`, one line).

### Abstractions

- A torrent's content is a count of pieces, taken as a prefix; all torrents have the
  same `Length`. A byte counter is a count of pieces, and that of a torrent that downloads
  is any count from the verified pieces up, as `BytesCompleted` also counts
  received chunks that are yet to be verified (`Snapshot`). It can fall.
- Label, target directory, name and timestamps of a row are left out; no decision
  reads them. Of the magnet only whether it has a `dn` is kept: it decides whether
  `Torrent.Name` names the content's path before metadata is known. Distinct torrents
  have distinct paths.
- The pieces that are complete when metadata is set are any number up to those on
  disk (`InitialCompletion`): the completion store may have forgotten some.
- `Snapshot` is one read. Get, List, Files and hydrate are read-only and left out, as
  are requests rejected before any state changes (bad hash, bad file, bad JSON).
- `pieces.Forget`, the end of Remove, touches only the state of `PieceRepository` and
  is modelled there.
- A graceful shutdown of a serving server is a death between two steps as far as
  table and disk can tell.
- Statements are atomic and durable.
- `PieceHashing` has one torrent; blocks are hole, good or bad; the hash of a piece tells
  good from anything else. A failed rename is left out (the code logs it and goes on).
- `PeerConn` has one piece, which all remote peers have at first, and neither interest nor
  allowed-fast pieces; requests have the right length and lie in their piece; the
  rate limiter's delay is `SendChunk` not yet happening. `peak` and
  `NominalMaxRequests` follow the code, whose requests per peer start at one.
- `ListPage` leaves out the counter's text, the master's indeterminate state, which follow from
  the selection, the Keep files choice, and the other pages.

## 3. Runs

Deadlock is checked except in the runs of `PeerConn`, where a download that ended leaves
nothing to do, and in `drop_deadlock`, where a deadlock is what the system does.

| Run | Configuration | Shows |
|---|---|---|
| `requests` | 1 torrent, 2 requests, 2 pieces, pause/remove overlap, every fault | `TypeOK`, `PausedIsStopped`, `HaveIsOnDisk`, `KeepIsRespected`, `OrphansAreReported` |
| `overlap` | 1 torrent, 2 requests, 2 pieces, pause/resume/remove overlap, re-adds, crashes | `UnpausedIsDownloading` |
| `liveness` | 2 torrents, 1 request, 1 piece, cancellations, crashes, metadata that may never come | `RequestReturns`, `RestoreProceeds` |
| `pieces` | 2 torrents of 2 pieces, 2 hashers, failing statements, crashes | `CacheIsBacked`, `StartsFresh`, `StoreIsAtomic` |
| `hashing` | 2 pieces (of 2 chunks and 1) in a file, 2 peers, 2 hashers, failing writes and reads, crashes | `TypeOK`, `FullPieceIsChecked`, `DropIsUnblocked` |
| `files` | the same with 1 bad chunk, failing writes and statements, crashes | `BelievedIsGood`, `NoneBannedWrongly`, `RenameIsExclusive` |
| `wire` | 2 connections, one fast, 2 chunks, 1 choke, failed writes, closed connections | `TypeOK`, `OneRequester`, `AnsweredOnce`, `NoProtocolError` |
| `wire_plain` | 2 connections, none fast, 1 chunk, 1 choke or failed read, 1 failed check, closed connections | `NeverStalls` |
| `page` | 2 torrents, 2 bulk actions, 1 change from elsewhere or failed request | `TypeOK`, `BulkIsMarked`, `DeletesWhatWasCounted`, `PageCatchesUp` |

Bounds. In `TorrentService` and `PieceRepository` nothing but the sets is bounded: two
requests are enough for the interleavings of a pair of operations, and sequences of any
length arise as a goroutine serves request after request; torrents meet only at the
client's lock and at startup, so two are enough to see one disturb the other (`liveness`,
`pieces`); two pieces separate none, some and all. In `PieceHashing` two
pieces of one file are what promotion and demotion need to cross, a piece of two
chunks is what two peers need to spoil it together, and a second bad chunk repeats the
first (`MaxBad`). In `PeerConn` stealing needs two connections and two chunks; one choke
(`MaxChokes`) meets every state of the other end, and one failed check
(`MaxFailedChecks`) every state of the connections. In `ListPage` a range and a
partial selection need two rows, overlapping refreshes two bulk actions (`MaxBulks`,
`MaxActions`), and `MaxUpsets` lets one thing go wrong; one late poll is kept at a time.

Each property of these runs has a mutant, an operator named after the bug it stands
for and placed before the definition it would replace, that breaks it.

Three runs check what a comment of the code says and find it violated by what the
code does. `PROJECT.json` quotes the comment for each:

| Run | Property | What happens |
|---|---|---|
| `remove_paused` | `PartialsAreRemoved` | removing a paused, incomplete torrent leaves its partial files |
| `drop_deadlock` | `DropEnds` | Drop holds the client's lock and waits for a hasher, which waits for a chunk's writer, which waits for the lock |
| `selection` | `SelectionSurvives` | the answer of a poll and that of the refresh after a bulk action cross, and checkboxes and selection vanish |

### Where the properties end

The environments of the runs above are as wide as the properties allow. The
configurations below leave them by one or two constants, and TLC finds a counterexample
with each, in seconds:

| Configuration | Fails | What happens |
|---|---|---|
| `ReaddPaused.cfg` | `PausedIsStopped` | adding a paused torrent again starts it before the duplicate is noticed (`service/torrent.go:147`), though "paused torrents stay DB-only until the user resumes them" (`:339`) |
| `ResumeCancelled.cfg` | `FailedResumeIsPaused` | a Resume whose client gave up rolls the flag back with the cancelled context, which fails (`service/torrent.go:327`): the row says running and nothing runs, though "the flag is rolled back to true" (`:306`) |
| `VerifyLeak.cfg` | `LockIsReleased` | a torrent paused while a Resume is about to verify it leaves the client locked (`piece.go:229`), though Drop is "always safe" (`t.go:100`) |
| `KeepRace.cfg` | `KeepIsRespected` | a torrent that completed while being paused is removed, files to be kept: its row is short of the last piece, and an overlapping Resume has the engine track it again, so the content is erased (`service/torrent.go:268`) |
| `RenameCrossing.cfg` | `RenameIsExclusive` | of two pieces of a file found on disk one passes and one fails; the promotion, decided before, undoes the demotion, and the failed piece's new part file later replaces the final one, though "to must not exist" (`storage/file-piece.go:267`) |
| `FastStall.cfg` | `NeverStalls` | an unchoke is read while the update that a reject asked for is pending; that update makes no requests and nobody asks the peer again, though the unchoke "will cause it to get added back" (`requesting.go:372`) |
| `AllocStall.cfg` | `RequestIsHandled` | a choke empties the buffer (`peerconn.go:340`) under a request server that waits for room, and does not wake it: no later request is handled, though "it's either rejected or buffered" (`peerconn.go:765`) |
| `ToggleInBulk.cfg` | `BulkIsMarked` | the animation frame of select-all removes the class of the bulk action that runs, though it "is set for the duration" (`selection.templ:12`) |

The limits, run by run:

- `ReAdd` in `requests`: `PausedIsStopped` fails (`ReaddPaused.cfg`).
- `"cancel"` in the `Faults` of `overlap`: `UnpausedIsDownloading` fails. Resume's rollback
  uses the cancelled context (`ResumeCancelled.cfg`), and a cancelled duplicate add drops the
  torrent of the first (`engine.go:96`).
- `"resume"` in the `Overlap` of `requests`: `KeepIsRespected` fails (`KeepRace.cfg`), and so
  does `OrphansAreReported`. A Resume that read its row before an overlapping Remove deletes it has the engine track a torrent that
  no row shows, and returns success. An Add that overlaps a Remove is alike.
- `OrphansAreReported` allows the orphan of an Add whose `Create` failed: nothing takes the
  torrent out of the engine again, but the client has an error.
- A second request in `liveness`, with overlap: `RequestReturns` fails, as a lost lock
  (`VerifyLeak.cfg`) stops every call.
- `RestoreProceeds` is about torrents whose metadata came. One without peers keeps Restore
  waiting, and the server from serving, for as long as nobody has its metadata.
- `LateMarks` in `pieces`: `StartsFresh` and `StoreIsAtomic` fail. A hasher marks its piece
  after the client's lock was released, so possibly after Delete and Forget. The mark
  does no lasting harm, since an added torrent is verified before it downloads.
  `CacheIsBacked` holds there too (theorem `CacheBacked`).
- `KeepIsRespected` speaks of torrents that were complete when the removal was asked
  for. One that completes between `isComplete` and the drop is erased.
- `Preexisting` in `files`: all three properties fail, after the crossing of `RenameCrossing.cfg`.
- `"read"` in the `Faults` of `files`: the same crossing, between a piece that passes and one
  whose hash meets a read error, makes all three fail.
- `LateWork` in `files` (one piece of two chunks is enough): `BelievedIsGood` and
  `NoneBannedWrongly` fail. A chunk written, or a mark made, after the drop lands in the
  files or the store of the torrent added next.
- `Reverify` in `hashing` and `files`: `DropIsUnblocked` and `NoneBannedWrongly` fail, and calls
  deadlock (`drop_deadlock`). Verification of a torrent that downloads hashes pieces whose
  chunks are being written.
- `Fast` in `wire_plain`: `NeverStalls` fails (`FastStall.cfg`).
- `"read"` in the `Faults` of `wire`: `NoProtocolError` and `AnsweredOnce` fail. A failed read
  rejects a request that was cancelled, and rejected, meanwhile (`peerconn.go:794`).
  `TypeOK` and `OneRequester` hold there too (theorems `TypeCorrect`, `OneRequesterHolds`).
- `ToggleInBulk` in `page`: `BulkIsMarked` fails (`ToggleInBulk.cfg`).

### Fairness

`FairSpec` of `TorrentService` assumes weak fairness of every goroutine's next step (the
Go scheduler), of starting a server that is down, and of `Cancel` for requests that are
under way: the Go client gives up after 30 s (`pkg/client/client.go`) and net/http then
cancels the request's context. Nothing is assumed of peers, so a wait for metadata ends
only by cancellation; the restore goroutines' context is not cancelled by anyone.

`PieceHashing` assumes that hashers, writers and the engine's calls under way are
scheduled, nothing of peers. `PeerConn` assumes that the goroutines of both ends are
scheduled and that streams deliver; not that anybody unchokes.
`ListPage` assumes that requests are answered and callbacks run, and strong fairness of
the poll: select-all holds the class for one frame, so a timer that ticks every second
cannot meet it for ever; nothing is assumed of the user.

## 4. Proofs

The theorems are for arbitrary sets of torrents, requests, pieces, hashers, peers,
connections, chunks and files, any layout of pieces over files, and any bounds. A theorem
that holds in every environment has no hypothesis; the others assume values of the
constants that choose the environment, and section 3 says what happens without each. They
are those of a run that checks the same property, except that `requests` also finds the
properties of `TorrentSerialProofs` to hold while pauses and removals overlap.

| Theorem | Property | Assumes | Inductive invariant |
|---|---|---|---|
| `TorrentServiceProofs!TypeCorrect` | `TypeOK` | | `TypeInv` |
| `TorrentServiceProofs!UnpausedDownloads` | `UnpausedIsDownloading` | `Calm`: adds have their torrent to themselves, no client gives up, no statement or file removal fails | `SettledInv` |
| `TorrentSerialProofs!HaveOnDisk` | `HaveIsOnDisk` | `Overlap = {}` | `SerialInv` |
| `TorrentSerialProofs!KeepRespected` | `KeepIsRespected` | `Overlap = {}` | `SerialInv` |
| `TorrentSerialProofs!PausedStopped` | `PausedIsStopped` | `Overlap = {}`, `~ReAdd` | `PausedInv` |
| `TorrentOrphanProofs!OrphansReported` | `OrphansAreReported` | `Overlap \subseteq {"pause", "remove"}`: adds and resumes have their torrent to themselves | `OrphanInv` |
| `PieceRepositoryProofs!CacheBacked` | `CacheIsBacked` | | `BackedInv` |
| `PieceRepositoryProofs!Fresh` | `StartsFresh` | `Quiet`: `~Overlap`, `~LateMarks` | `QuietInv` |
| `PieceRepositoryProofs!Atomic` | `StoreIsAtomic` | `Quiet` | `QuietInv` |
| `PieceHashingProofs!TypeCorrect` | `TypeOK` | | `TypeInv` |
| `PieceHashingProofs!FullPieceChecked` | `FullPieceIsChecked` | | `TypeInv`, `Alive` |
| `PieceHashingProofs!DropUnblocked` | `DropIsUnblocked` | `~Reverify` | `Alive`, `Apart` |
| `PieceFilesProofs!BelievedGood` | `BelievedIsGood` | `Undisturbed`: `~Reverify`, `~Preexisting`, `~LateWork`, hashers' reads do not fail | `DiskInv` |
| `PieceFilesProofs!RenameExclusive` | `RenameIsExclusive` | `Undisturbed` | `DiskInv` |
| `PieceFilesProofs!NoneBanned` | `NoneBannedWrongly` | `Undisturbed` | `DiskInv`, `Blame` |
| `PeerConnProofs!TypeCorrect` | `TypeOK` | | `WireInv` |
| `PeerConnProofs!OneRequesterHolds` | `OneRequester` | | `WireInv` |
| `PeerConnProofs!Answered` | `AnsweredOnce` | `Readable`: remote peers' reads do not fail | `WireInv` |
| `PeerConnProofs!NoErrors` | `NoProtocolError` | `Readable` | `WireInv` |
| `ListPageProofs!TypeCorrect` | `TypeOK` | | `PageType`, `ActionType` |
| `ListPageProofs!OnlyCountedDeleted` | `DeletesWhatWasCounted` | | `Counted` |
| `ListPageProofs!BulkMarked` | `BulkIsMarked` | `~ToggleInBulk` | `OneBulk` |

### Along which argument

- `UnpausedDownloads`. The property only speaks of torrents nobody works on, so it is
  not inductive. `SettledInv` says what holds in between: an unpaused row whose torrent is
  not downloading has a goroutine that is bound to settle it (`Settling`), one that is
  about to add it, holds its open object on the way to `DownloadAll`, or is about to set the
  flag or delete the row. A drop unsettles the torrent for every other holder, but the
  goroutine that dropped it is itself on its way to the flag or to the row. That is the
  order of calls in Pause and Remove; the mutant with Pause's calls swapped breaks it.
  `Alone` and `NotClosed` keep adds and restores, which have no rollback, from being closed under.
- `TorrentSerialProofs`. Where calls about a torrent do not overlap, a goroutine has its
  torrent to itself (`Serial`), so what it knows at each call (`At`) can only be changed by
  itself: the object it holds is open and tracked until it drops it, the pieces below the
  one it verifies are checked. With `Fine`, which says that the client believes in
  all that is on disk once somebody verified it and never in more, this gives `HaveOnDisk`
  and `KeepRespected`: verification never meets a closed torrent, and a row or snapshot that
  says complete, or not, is right when `Remove` goes by it and can still find files to erase.
  `PausedInv` adds what a goroutine on the way through `engine.Add` knows of the row.
- `OrphansReported`. The property is an action property: which step may leave the engine with
  a torrent that no row shows. `OrphanInv` has `Routed` (a goroutine is where its operation
  can be), `Solo` (who may start a torrent has it to itself) and `Knows`: whoever starts a
  torrent without creating a row has one, an add holds the tracked object until it returns, so
  its failure takes back what it started, and a removal past its drop finds the torrent
  untracked, whichever of two overlapping removals dropped it. So a row is deleted only
  once the torrent is gone, and what is left is the persist of an add.
- `CacheBacked`. The strengthening has `Mutex` (who is inside Set holds the mutex) and
  `Stored` (a row written by Set is still there when it updates the cache, unless the
  torrent was deleted meanwhile, and then Forget waits for the mutex and is yet to come).
- `Fresh` and `Atomic`. `QuietInv` adds the converse (`Cached`: the running server's cache has
  every row that no Set is between) and that what was removed is nowhere (`Cleared`). Set
  and a removal take effect where they write the cache (`SetCache`, `Forget`). `MarkPiece` and
  `RemoveDrop` begin them, a failed statement ends them without effect, a death keeps what
  the rows have, and every other step, the cascade of Delete too, is a stutter.
- `FullPieceChecked` and `DropUnblocked`. `Alive` ties goroutines to the torrent object: those
  of a dropped one are marked old, no two hashers check a piece. `Apart` says that a
  writer is never at a piece with a hasher or in the queue, which rests on chunks being asked for
  only of pieces that are not busy and on the last writer queueing the check.
- `BelievedGood`, `RenameExclusive`, `NoneBanned`. `Owned` and `Disjoint` extend this to the
  goroutines that outlive a drop: each block has one writer, each piece one hasher and not
  both. Hence a hasher's verdict is still true when it is recorded (`VerdictHolds`), nothing
  that is written to is believed, recorded or under its final name (`WritersFree`), what
  is promoted is good (`FinalGood`) and what is good was promoted or is about to be
  (`Recorded`, `Trusted`, needed for demotion). `Blame` follows bad data from the peer that sent it
  to the file, the smart ban records and the dirtiers: a dirty block that reads bad has a
  guilty dirtier, or its piece's verdict was already given (`Explained`).
- `WireInv` says of each connection that it fits its other end (`Fits`): all answers that are
  owed (requests on the way there, held there, or answered on the way back) are
  expected; with the fast extension they are exactly those to what was requested or
  cancelled, one each. Only the count of what is owed needs `Readable`, and that requests
  find the piece (`Serving`): a piece is lost only in a failed read. Across connections,
  requestState agrees with the connections' requests at every step of `applyRequestState`
  too, and what it has still to look at was not cancelled, as its connection stays open.
- `Counted` and `OneBulk`: while the dialog is open the selection only shrinks; a bulk action is
  alone, under the class, and with no animation frame pending that would remove it.


The proofs rest on the assumptions on the constants: `LengthAssumption`,
`ReqAssumption`, `NoRowAssumption`, `NilAssumption`, `EnvironmentAssumption`,
`PieceAssumption`, `StorageAssumption`, `NoFileAssumption`, `HashingAssumption`,
`PeerAssumption`, `ListPageAssumption`; TLC evaluates each in the runs of its module. They say that
counts are numbers, that the sets of chunks and peers are finite where they are counted,
that the marks for nothing differ from what they are told apart from, and that pieces and
files are laid out as torrents lay them out.

Only model-checked: the liveness properties `RestoreProceeds`, `RequestReturns`, `NeverStalls` and
`PageCatchesUp` (fairness is out of the prover's reach), and the violations, which are
counterexamples. Every invariant and action property of a passing run is proved.

## 5. Not modelled

Most of the repository's lines are the client library's under `licenses/`. Of it, the
models cover what carries the server's correctness: opening and dropping torrents,
verification, hashing, file storage and requests. Left out are

- finding peers: the DHT, trackers, peer exchange, local discovery. They decide which
  peers there are, which the models leave open;
- connecting: handshakes, encryption (MSE), uTP, the metadata and other extensions;
- encodings: bencode, magnet links, metainfo. Pure functions of their input, tested by
  round trips, without state that could go wrong between steps;
- what this server never runs: webseeds (its configuration disables them), the mmap,
  bolt, sqlite and possum storages, webtorrent, the library's commands and FUSE
  file system.

Of the server itself: decoding and status codes of the API, the Go client and the command
line (stateless); the add form, the detail page and the other templates; configuration,
logging, opening and migrating the database (before anything runs); a graceful
shutdown as an action of its own; loss of committed statements on power failure;
torrents whose names, hence paths, collide.

## 6. Plan

In order:

1. (done) table, engine, service and process; overlap, cancellation, failure, death.
2. (done) piece repository, and the atomic map it implements.
3. (done) piece hashing and file storage.
4. (done) requests on the wire.
5. (done) the list page.
6. (done) proofs of the invariants and action properties of the passing runs, and of the
   refinement.
7. Weaker hypotheses: the theorems of `TorrentSerialProofs` with pauses and removals that
   overlap, as the run has them; what remains of
   `BelievedIsGood` when files were found on disk (`Preexisting`) or reads fail.
8. Graceful shutdown; torrents that share a path; an abstract specification of
   the managed torrents (running and paused) that `TorrentService` implements where calls
   do not overlap.
