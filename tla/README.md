# A verification project for BitWave

BitWave (`src/`) is a BitTorrent client for Windows in C++. One main thread runs
everything that concerns peers; background threads read and write files, hash
pieces, resolve names and wait on completion ports. This directory holds TLA+
models of its core, the TLC runs that check them on small instances, and TLAPS
proofs of what can be said for every instance.

## The system

`BitWave::Wave` (`core/BitWave.cpp`) loops for ever: it runs the callbacks of the
completed network operations and timers, then calls `BitTask::ProcessTask` of
every task, which is `BitCache::ProcessCache` followed by
`BitUploadDispatcher::ProcessUpload`. A handler on this thread is never
interrupted by another handler; the other threads work on copies of queues
behind spin locks and are woken by auto-reset events.

| component | state it keeps | operations | module |
|---|---|---|---|
| piece cache, `core/BitCache.cpp` | cached pieces, waiting reads | `Read`, `Write`, four parts of `ProcessCache` | `BitCache` |
| cached piece, `core/BitPiece.*` | state, bytes, written ranges | `WriteBlock`, `IsComplete`, `Clear` | `BitCache`, ranges: `BitPieceBytes` |
| file service, `core/BitFile.cpp` | queued operations, results, a thread | `ReadPiece`, `WritePiece`, `IoThreadFunc` | `BitCache`, split over files: `BitPieceBytes` |
| hash thread, `core/BitPieceSha1Calc.cpp` | queued pieces, results, a thread | `AddPiece`, `GetResult`, `CalcSha1Thread` | `BitCache` |
| downloading info, `core/BitDownloadingInfo.*` | needed, downloaded and downloading maps, observers | three marks with notifications | `BitDownload`, `BitPieceMaps`, `BitPeers` |
| download dispatcher, `core/BitDownloadDispatcher.*` | scattered requests, end mode, a searcher | `DispatchRequestList`, `ReturnRequest`, `CompleteNewPiece` | `BitDownload`, search: `BitPieceMaps` |
| request lists, `core/BitRequestList.*` | a `std::list` | splice, erase, remove | `BitRequestList` |
| peer connection, download side, `core/BitPeerConnection.*` | waiting and outstanding requests, time-outs, choke and interest | a handler per message, `RequestTimeOut` | `BitDownload` |
| peer connection, upload side | `peer_request_` | `ProcessRequest`, `ProcessCancel`, `UploadBlock` | `BitUpload` |
| peer connection, its life | owner, observer, timers, processor | construction, hand-over, drop, destruction | `BitPeers`, `PeerLife` |
| upload dispatcher, `core/BitUploadDispatcher.*` | pending list, quota | `PendingUpload`, `ProcessUpload`, read callback | `BitUpload` |
| task and its data, `core/BitTask.*`, `core/BitData.*` | peers, downloaded bytes, peer and listen info | `CompleteNewPiece`, `Complete`, timers | `BitCache`, `BitDownload`, `BitPeers`, `BitMetainfo` |
| network processor, `core/BitNetProcessor.h` | outstanding receives and sends, connected or not | `Connect`, `Send`, `Receive`, `Close`, three handlers | `BitPeers`, `BitTracker` |
| tracker connection, `core/BitTrackerConnection.*`, `protocol/` | address, connection, interval timer | `UpdateTrackerInfo` and its callbacks | `BitTracker`, `BitStreams`, `BitMetainfo` |
| peer creation, listener | listen info, connections of no task yet | timer, accept, hand-over by info hash | `BitPeers` |
| controllers, repository, creator | the task | `CreateTask`, look-up by hash | `BitMetainfo`, `BitPeers`; start-up not modelled |
| bencode and metainfo, `core/bencode/` | none after loading | reader, torrent, tracker answer | `BitMetainfo` |
| timers, `timer/`, `net/TimerService.h` | ordered timers, 32-bit milliseconds | `AddTimer`, `DelTimer`, `Schedule` | `BitTimers` |
| completion ports and resolver, `net/` | completions, resolve lists, threads | asynchronous operations, service and resolve threads | `BitCompletions`, `BitTracker` |
| stream unpacker, `net/StreamUnpacker.h` | bytes of a partial message | `StreamDataArrive` | `BitStreams` |
| buffers, `buffer/` | chunks and free lists | allocate, free | `BitBuffers` |
| SHA-1, log, base, tests | | | not modelled |

How they interact: a PIECE message goes from the connection to `BitCache::Write`.
The last block of a piece sends it through the hash thread and the file thread;
`MarkDownloadComplete` or `DownloadingFailed` then notifies the observers, which
are the task's updater, the download dispatcher and the connections, in the
order of their addresses. A REQUEST goes to the upload dispatcher, which reads
from the cache once a second and is called back at once or after the file thread
has read the piece. Peers come from the tracker's answers, by way of `BitData` and
a timer of the task, or are accepted by the listener, which keeps a connection
until its handshake names the task. All of it hangs on `BitNetProcessor`, which
counts the asynchronous operations under way and tells its owner of the end,
and on the service below it: completions that several threads put into one
vector, timers, and the thread that resolves names.

What is hard, and what makes each part correct, is the list of `hazards` in
`PROJECT.json`. In short: `BitPiece` objects are recycled while threads may hold
them; a block must be in exactly one request list while choke, time-out, drop and
hash failure move it about; the order of observers is arbitrary; an upload chain
that breaks never starts again; a thread that misses its event never ends; a
handler may destroy the object it belongs to, while the caller walks the list
that object is in; and a stream, a torrent file or an answer may end anywhere.

## Modules

### BitCache

One task's cache with its two threads. `phase` is where the main thread is in its
loop: `net` is the time when handlers call `Read` and `Write`, the others are the
four parts of `ProcessCache`; `checking` is the loop of `ProcessAsyncCheckPiece`.
Every step is a region some mutex protects or a stretch of code on data that
only one thread can reach: the wake-up, the swap of a queue, each file operation,
each hash and the publication of results are separate steps of the two threads.

A `BitPiece` is an element of `Objs`. What keeps it alive is computed
(`Referenced`): the cache, both queues and the threads' local lists. A piece that
nobody refers to is free to be a new one, so `Objs` bounds the live pieces.
Bytes are kept per block: `empty`, `good` or `bad`; the hash of a piece matches
when all its blocks are good. `Extent` says which blocks of a piece lie in which
of its files; `Failing` which file operations may fail, unnoticed as in the code.
A read asks for a block of the piece or for a range that is not in it: `Beyond` is one that
`Read`'s test refuses, `Wrapping` one whose `begin_of_piece + length` wraps in `std::size_t`
to no more than `piece_length_`, so that the test lets it pass (what a peer sends is
converted from `int` and checked nowhere else). It goes the way of any other read and is
answered `outside`, true with bytes that are not in the piece.
Which of the `WRITED` pieces is oldest depends on read times and is left open.
`Write` accepts blocks of pieces nobody is downloading only with
`StaleRequests`, as end mode makes late duplicates. `FlushToFile` has no caller
and is left out.

### BitDownload

All connections of a task, the download dispatcher and the notifications. The
handlers run on one thread, so a handler is a step, computed on a record of the
four request lists it may change (`Lists`), in the order of the code's calls. A
notification is a sequence of steps, one observer each, in any order, with
nothing else in between (`notice`, `Quiet`). The cache is abstracted to the
blocks that have come (`got`) and the pieces between their last block and their
end (`verifying`), the part of `BitCache`'s behaviour that requests can see.
`EndLeft` stands for the 5 % and 30 MB of `EnterEndDownloadMode`. All files are
selected, each piece has as many blocks as the others and lies in one file.

### BitUpload

`peer_request_` of each connection and the upload dispatcher. A round is three
actions: `ProcessUpload` grants what is left of the quota, `ProcessPending` hands
over one request, `EndPending` ends the loop. A read is answered within
`ProcessPending` or later by `ReadDone`, in any order; the requests that
`BitCache::Read` refuses are the constant `Unreadable`. Rounds are a second apart
in the code; here one may begin at any time.

### BitRequestList

The two operations on lists that the other modules share, without recursion.

### BitPeers and PeerLife

Every connection object from its construction to the last completion of its
processor. Calls nest deeply here: a send that Winsock refuses closes the
processor, which tells the connection, which leaves its owner, which may hold the
last reference. So a handler is an operator on a record (`World`) of all it can
change, composed in the order of the code: `luck` says how many asynchronous
calls of the step are accepted, `held` which objects a local `shared_ptr` keeps
alive. The messages of one receive, the observers of one notification and the turns of the
two loops that create connections and stop them are steps of their own with nothing
between them (`Quiet`): `inbox`, `notice`, `create` and `stopping` hold what is left. `absentUse` collects the functions
of the last step that went on with an object that was not there any more, or not
yet: the property says that these are the four known places and no others.
Completions of different operations come in any order, with success or failure; an
operation succeeds when it has no error and at least one byte. Listen
info goes from `unused` to `used`, and never back, as in `BitData`.

`PeerLife` is what the connections of a task promise together: five stages, of
which none is left backwards, and notifications that reach everyone who has
joined, none of whom leaves meanwhile. `BitPeers` implements it: `life` computes the
stage from who holds and who observes, `LifeSpec` is checked as a property of the run.

### BitTracker

One `BitTrackerConnection` for each announce URI, with its processor and timer, and
the `ResolveService` with its thread: `PrepareResolve` and the event are two steps,
as are the wake-up, the swap and the publication. `Stop` is the exception that ends
`main` at any time. A processor the connection has let go of has no operation left,
so only those it still has are kept.

### BitCompletions

`IocpService` between the kernel's port and the handlers. An `OverlappedInvoker`
shares its count with its copies; its destructor looks at the count and `~RefCount`
lowers it, two steps. The module shows that these pairs never interleave for one
operation, because the locker of `AddNewCompletionStatus` outlives the invoker
declared after it, and that each `Overlapped` is deleted once, by the last copy.

### BitTimers

`TimerQueue::Schedule` walks a `std::set` with the member iterator `schedule_it_`
while callbacks add, delete and set any timer. Timers are numbers, so that the set has
an order. The clock is `GetTickCount`: deadlines are taken modulo `ClockSize`, the number of its values.

### BitBuffers, BitStreams, BitLayout, BitPieceMaps, BitPieceBytes, BitMetainfo

Sequential parts, each a small state machine around the algorithm.
`BitBuffers`: chunks of cells on a memory of numbered bytes, the free list of a chunk
as a sequence. `BitStreams`: the loop of `StreamUnpacker`, turn by turn, with the rule for
peers (a prefix of two bytes instead of four; every payload byte looks like the first of a
handshake) and the one for responses (lines and body bytes instead of characters).
`BitLayout`: where the files of a torrent end, which the next two share. `BitPieceMaps`: the searcher halves a range of bytes
and recomputes its own map in it, here bytes of two bits, each halving a step; the
pieces of a selected file come from its bytes. `BitPieceBytes`: the ranges of
`MarkWriteBlock`, then `AddOperation` with its four positions, one file a step.
`BitMetainfo`: the bencode reader as a recursive function of the position (`BenItems`: the items of
a list or a dictionary from there on), each read with the position it stops at, against the
objects (`Objects`), which carry as `raw` the characters they are written as; each key is one
character, lengths and numbers are digits.

### MC modules

`MCBitCache`, `MCBitDownload`, `MCBitUpload` and `MCBitPeers` extend the components
with the layouts and symmetry sets their configurations name. `MCBitServices`
extends `BitCompletions`, `BitTimers`, `BitBuffers`, `BitPieceMaps`, `BitPieceBytes`,
`BitStreams` and `BitMetainfo`, and instantiates `BitTracker`. They call each other only at
their edges, which each module takes as input, so their product would multiply
states and show nothing more: `unit` says whose steps a behaviour takes, and the
variables of the others stand still.

### Slips

Beside some operators stands a variant of the same parameters that no action
uses (`CloseAtOnce`, `StoreOver`, `UnpackOne`):
the slip an edit of that function might introduce. `PROJECT.json` pairs each with
the property that notices it when it takes the operator's place.

## Runs

| run | asks |
|---|---|
| `MCBitCache` | two pieces of two blocks in one file, late, repeated and bad blocks, two readers, a cache of one piece, three instances, the destructor at any time: does the state of a piece say where it is, can a thread see bytes the main thread changes, is what is read verified, are reads shared, do verified bytes stay |
| `MCBitCache_live` | two pieces, one over three files, one of them empty, and a cache that keeps nothing: is a piece announced only after all its file operations, are pieces on their way still marked downloading, does a pass leave no more `WRITED` pieces than the maximum; under fairness, are reads answered, do checks end, does the destructor return |
| `MCBitDownload` | two connections that choke, drop, time out, repeat handshake and bitfield, a failed hash, end mode with a piece to go: is every missing block in exactly one list before end mode and in some list within it, are the limits of the lists kept, does a silent connection hold nothing, is every request that was sent timed and no other, is everything quiet after the last piece, is a request that timed out not sent to the same peer at once |
| `MCBitDownload_live` | peers that serve: does the download finish, also after a failed hash |
| `MCBitUpload` | two connections that may ask for the same blocks, one of them unreadable, three rounds: does the chain hold, is the rate kept |
| `MCBitUpload_live` | is every request served, whatever the other connection asks |
| `MCBitPeers` | two connection objects, two peers a tracker repeats at will, every call of Winsock accepted or refused, every completion good or bad, in any order, messages before, after and instead of a handshake, one notification that ends the task: has every connection one owner, do raw observer pointers stay valid while they are walked, does a dead connection leave, which functions use an object that is gone, and is `PeerLife` implemented |
| `MCBitServices` | eight parts, each on its own. Two trackers: is one whose address is known tried again, are all names answered, does the thread end. Three operations, two service threads: is each completion handled and deleted once. Three timers, a clock of two values: is the walk valid, are callbacks in time. Buffers of four sizes: are they disjoint. Streams of up to three messages cut anywhere: are they unpacked as sent. Five pieces, three files, three peers: is the first wanted piece found. Pieces of four blocks over up to three files: do bytes reach their place. Torrents and answers cut anywhere: are they read as written |

Four runs show where the code differs from a comment, one property each:
`MCBitCache_complete` (a piece over several files is counted several times, so
the download is complete too early), `MCBitCache_readfail` (a failed read is
reported as read), `MCBitDownload_comment` (blocks handed out before end mode
are not requested by every peer) and `MCBitDownload_cancel` (requests cancelled
for a finished piece are made again when the dispatcher hears of it later than
the connection). `PROJECT.json` quotes the lines.

### Bounds

Two connections are enough for a request to be returned by one and taken by the
other while it is in neither's favour; two pieces for the end-mode threshold to
lie between them; two blocks for a piece that is half here. In the cache, one
more instance than `MaxCache` allows makes recycling happen while a piece is
hashed or written. `MaxFails` bounds failed hashes, `MaxPending` the hand-overs
a REQUEST may add, `MaxRounds` the counted rounds. `Counting` is off in the
liveness run, where counters would make every round a new state. Deadlock is
checked except where the configuration says why the system stops.

In `MCBitPeers` two objects are enough for one to be dropped while the other
is notified, and for a tracker's peer to be asked for while a connection to it
exists; three sends under way (`MaxSends`) let a closed processor drain in any order;
`MinPeerCount` 2 makes both kinds of turn of the timer happen. In `MCBitServices` two
service threads are the ones that could interleave, and three operations let a
vector be swapped while another is filled; a clock of two values wraps
within the four instants; three live buffers fill a chunk of two
and open another; two bits a byte leave a spare bit in the last; file lengths 0, 1, 3
and 6 around pieces of 4 give empty files, files within a piece and pieces within a
file, and last pieces that are short.

### Fairness

The main loop and the threads are scheduled by the operating system and have no
exit but the one that is modelled, so their next steps are weakly fair. A
destructor that has begun goes on. In `BitUpload`, every pass of the main loop
collects all the reads that are done, so the oldest read is strongly fair. In
`BitDownload` weak fairness is asked of peers too, because a download can only
finish if somebody serves it: such a peer announces each piece, unchokes and
answers; the run that uses it lets no peer choke or drop.

In `BitTracker` both threads go on, timers come due, a connect is answered or times
out, and once the processor is closed the operations under way end. No fairness makes
a tracker that has accepted the connection answer, and none is needed: the property
speaks of the time when there is no connection, or a closed one.

## Proofs

Everything is proved for all values of the constants that satisfy the module's
`ConstantsAssumption` (any number of pieces, blocks, files, connections, requests,
readers and bounds, finite where the code counts them; `BytesAssumption` says that a piece is
a whole number of blocks, `StreamsAssumption` that no length of a message is so large that its
prefix begins as a handshake does or wraps, `MetainfoAssumption` that what is in a written list
or dictionary is written too, and that no written string is empty) and, where a theorem says so
in its `ASSUME`, one more hypothesis:

| hypothesis | theorem | why |
|---|---|---|
| `"WRITE" \notin Failing`, `Failing = {}` | `DownloadsAreOnDisk`, `ReadsTellTheTruth` | `File::Write` and `File::Read` drop the result; with a failing disk the properties are false |
| `~StaleRequests` | `NeverRedispatched` | a late duplicate of end mode makes a piece that is not marked downloading |
| `ServiceAssumption` | `CompletionsAlwaysOnce` | with more than 64 threads `WaitForMultipleObjects` refuses, and `Shutdown` does not wait |
| `ClockAssumption` | `TimersAlwaysFire` | types of the constants: the clock has at least one value |
| `BufferAssumption` | `BuffersAlwaysDisjoint` | the largest cell is a multiple of the alignment (256 kB of 8 bytes), nobody asks for 0 bytes, and there is a largest size |
| `MapAssumption` | `SearchAlwaysFindsFirst` | the files of a torrent lie within its pieces, which `BitData` takes as given; a wanted file is not empty (`UpdateNeedDownload` marks a piece for an empty file in the middle of one) |

`BitRequestListProofs`: `Pick` returns the chosen elements, all of them, once each and in
order: its positions are a strictly increasing function onto the chosen ones
(`PickProperties`); `DelRequest` all elements but one (`DelRequestProperties`),
erasing one position all others (`EraseProperties`). `Pick` is defined by counting,
so the proofs rest on a lemma about the smallest element of a set of naturals and
one about the number of elements up to a bound. For `BitDownload` the same in terms
of the requests in a list: a list is split in two (`PickSplit`, `SubSeqSplit`),
put together (`ConcatRange`), and loses its first occurrence of a request
(`EraseFirstRange`), with or without repetitions.

`BitUploadProofs`:
- `TypeCorrect`: `TypeOK`, with the limit of `peer_request_`, is inductive.
- `ChainNeverBreaks`: `ChainUnbroken` is inductive together with `TypeOK`. The
  only places where an element leaves the pending list or the reads call
  `UploadBlock` or move it to the other; `UploadBlock` pends the next request if
  there is one (`UploadBlockChain`), and `StartsUpload` pends the first.
- `RateIsKept`: `UploadRate` follows from `RateInv`, which counts sent blocks,
  reads, granted quota and left quota against the rounds, with the total kept as
  one equation between steps: a refund moves a unit from a read or a grant back
  to the quota and creates none.

`BitDownloadProofs`: all six invariants of the run, the types and the action
property. A handler computes on a record of lists by several calls in a row; each
call *moves* requests of one connection between the scattered requests and that
connection's two lists, adds those of the pieces it begins, and leaves the other
connections alone (`Moves`). `Moves` is reflexive and transitive, so one lemma for
each operator (`DispatchScatteredMoves`, `DispatchNewMoves`, `RequestPieceBlockMoves`,
`ReturnAllMoves`, `TimeOutMoves`) gives what a whole handler does (`HandlerKeeps`). The
inductive `Inv` adds to the properties: who is interested has shaken hands; what the
updater has not counted is the piece it is told of next (`Counting`, which makes
`IsDownloadComplete` mean what it says); a piece is in one phase; whom a notification
is still for; no missing block is without a request (`Kept`); and, before end mode,
no request is there twice and none is for a block that has come (`Single`).
`TimedOutNeverAskedAgain` is then a fact about one step: the connection asks for more
after the request has left its lists and before it joins the scattered ones, and before
end mode there is no second one (`Single`).

`BitPeersProofs`: the six invariants of the run, the types, and the refinement. The
first half says what each function of the nested calls does to a `World`: a close,
a send, a send that fails and is taken for a disconnect, a drop, each with the fields
it changes (`Changed`, `Calm`, `Elsewhere`). The inductive part is `Sound`, which ties
for each connection its owner, its three sets, its processor and timers together. Its
key line is `connecting => receiving`: between handlers a connection that can send has a
receive under way, so a failed send inside a walk closes a processor but does not
destroy anything, the end comes with that receive, and the set that is walked stays as
it is. `Walks` says that the elements not reached are still in their set.
`ImplementsPeerLife` maps every handler to a step of `PeerLife` or a stutter: a handler
changes the stage of its own connection only (`Moves`), and only in the allowed directions.

`BitCacheProofs`: `TypeCorrect`. `TypeOK` needs more than types: the file thread's
batch is empty unless it runs and its position stays within it, and the main
thread has hash results exactly while it checks; without these the records the
threads take from their lists would not be defined. None of the three safety
properties is inductive; they rest on `Placed`, which says where every `BitPiece` is.
- `CacheApart`, `ReadsApart`: an instance is under one index of the cache, or in one
  stage of the read of one piece, never both.
- `WritesTracked`: what is queued, executed or collected as a write is cached,
  `CHECK_SHA1_OK` and verified, and in one of the three stages.
- `HashTracked`: what is in the five stages of the hash pipeline is cached and
  `CHECKING_SHA1`, in one stage, once; a positive result is true of the bytes.

The argument: `FetchNewPiece` returns an instance no queue knows (`FetchIsFree`), so a
step of the main thread leaves alone every piece that is `Pinned`, that is in a
pipeline (`KeepsPinned`), and what the pipelines hold stays true
(`WritesKept`, `HashKept`, `ReadsKept`); the steps that move an entry to the next
stage are then set algebra. From it:
- `RaceFree`: `NoDataRace`, with failing disks too.
- `DownloadsAreOnDisk`: `DownloadedOnDisk`, with `DiskGood`: the operations queued
  for a piece cover it (`WholeOps`, from `ConstantsAssumption`), and those executed
  left good bytes.
- `VerifiedBytesStay`: the action property `VerifiedStaysVerified`.

The second part adds the converse of `Placed`. It rests on `StepCached`, the list of
all ways a step may change what is cached for a piece, and `InSha`, `WritePending` and
`Reading` as the sets the pipelines hold:
- `StatesTrackPipeline`: `Placed` with `Tracked`: a cached piece marked as hashed or
  written is in that pipeline, so it comes out of it.
- `NeverRedispatched`: `Announced` and `Marked`: a piece keeps its downloading mark from the
  block that completes it until its write is collected or its hash fails.
- `CacheAlwaysFits`: the last part of `ProcessCache` removes down to the maximum, and what
  handlers do before the next pass adds no `WRITED` piece.
- `ReadsAlwaysShared`: `Shared`, one read of a piece in one instance exactly while somebody waits.
- `ReadsTellTheTruth`: `ReadsGood` (only announced pieces are read, and what was read of one
  so far is good), `CacheGood` and `DiskGood` together.

`BitCompletionsProofs`: `CompletionsAlwaysOnce`. The count is not atomic and no lock is
named near it, so the inductive `Inv` has to say why two holders never destroy at the
same time: a thread has a local invoker only while it has the mutex, and then the copy is
still in `completion_status_` (`Workers`), so the count is 2 and the local never deletes
(`LocalIsNotLast`); the copies the main thread has taken are the last ones, each with count 1
(`MainHasLast`); and an operation goes through port, thread, vector and main thread in this
order, without repetition (`Counted`, `Copies`).

`BitServicesProofs`, three services whose proofs are arithmetic:
- `TimersAlwaysFire`: `Following` is the next element (`FollowingIsNext`, from the least
  element of a set of numbers); `Walk` holds between passes too, so that a timer deleted
  outside a pass cannot leave the iterator behind. A deadline is the due time modulo the
  clock's size even though it is added to a time already wrapped (`WrapTwice`), and within an
  epoch remainders have the order of the numbers (`WrapOrder`).
- `BuffersAlwaysDisjoint`: `Good` says where every buffer is. A big one has an odd region for
  itself (`FreeRegion`, by counting), a small one is a cell, not in the free list, of a chunk
  whose cells have its rounded size (`UpBound`), and chunks have the even regions. So the
  region of an address tells its chunk, `Deallocate` finds one chunk and the right one, and
  the cell goes back to the list it came from (`TakeCell`, `GiveCell`).
- `SearchAlwaysFindsFirst`: `Halving`. Nothing wanted lies before `begin`; as long as `end` is
  the size of the map nobody has found anything, and afterwards something wanted lies between
  them; and the byte the loop ends at was computed by its last turn, so what earlier searches
  left elsewhere in the result map is not read (`RangeComputed`, `HalveKeeps`).
  `UpdateNeedDownload`'s range of pieces is the pieces of a file's bytes (`Pieces`), and a
  file lies within the torrent (`FileWithin`), since the ends of files add up and grow
  (`BoundariesAdd`, `BoundariesGrow`).

The provers have no induction over data, but a set of numbers has a least element
(`LeastNumber`): a claim about every position of a sequence is refuted at the first position
where it fails, and a recursive function, which is a `CHOOSE`, exists up to every position for
the same reason (`AddsExist`, `FlattensExist`, `TurnsExist`, `ItemsExist`). The layout above and all of the
next module rest on this.

`BitBytesProofs`, the bytes of a piece and of a stream, and the bencode reader:
- `BytesAlwaysPlaced`: `BytesInv`. `Received`: the ranges are apart, in order, aligned to blocks
  and cover the bytes that have come. A block makes a range of its own (`RangeComes`), makes one
  longer (`RangeGrows`), or closes the gap between two, when the loop of `MarkWriteBlock` stops at
  the earlier of them and merges the later one into it (`RangesMerge`); `BlockMarked` puts the
  cases together, and a piece whose first range is the whole piece has all its bytes
  (`CompleteIsCovered`). `Split`: while a piece is split over its files, the position in the piece,
  what is left of it and the file are tied to the boundaries, so that the files behind have
  their bytes of the piece and those ahead none (`Files`, `LoopEnd`, `UpperBoundIs`).
- `FramesAlwaysWhole`: `StreamInv`, which says of a stream by positions: r bytes have been received,
  the first k messages are unpacked, the next one does not end by r, and the buffer is what lies
  between. Both rules find a message at the beginning of what is left exactly if all of it is
  there (`PeerPack`, `ResponsePack`), so a turn of the loop unpacks the next message or ends it
  (`TurnIs`), and as many turns as there are bytes are enough (`UnpackIs`), since no message is
  empty (`EndsRise`).
- `AlwaysReadAsWritten`: `MetainfoInv`, the buffer is the beginning of an object, and a task or an
  answer is made of what the buffer is read as. That this is the object or nothing
  (`BufferRead`) is a fact about the reader: an object that stands in the buffer is read where it
  stands, and refused if the buffer ends before it does (`ObjectRead`). What is in an object is
  shorter than the object (`PartShorter`), so a shortest object that is not read would be made of
  objects that are (`StringRead`, `IntegerRead`, `ListRead`, `DictionaryRead`); within a list or a
  dictionary the same is said of the items from the last to the first (`ItemsRead`), none of which
  begins with the "e" that ends it (`FirstOfObject`). The reader's function exists because what is
  read at a position needs only what is read behind it (`ItemsLocal`, `ItemsExist`).

Model-checked only:
- liveness under fairness, which the prover cannot do: `ReadsAnswered`, `ChecksEnd`,
  `DestructorEnds`, `DownloadFinishes`, `RequestsServed`, `TrackerKeepsTrying` and
  `ResolveAnswered`.

## What the models show besides

Some behaviour came up while the code was modelled that a reader of it should know;
where a property would be false of it, the property names the exception:

- A processor closed by a failed call, whose last operation then succeeds, never
  calls `OnDisconnect`. A peer connection has `disconnect_timer_` (`ClosedLeave`); a
  tracker connection has nothing and stays as it is (`Stuck`).
- `SendHandshake` of `OnConnect`, `ProcessProtocol` after a handshake for another task,
  `PendingUploadRequest` and `ProcessPiece` before the handshake use an object that is
  not there (`AbsentUsesAreKnown`). `RequestTimeOut` and `DropConnection` destroy the
  timer whose callback is running, which does not look at it afterwards.
- A peer a tracker named is connected to once in the life of the task
  (`NoDoubleConnect`): `used_peers_` only grows.
- `Read` adds begin and length as a peer sent them. A range whose sum wraps passes its test,
  and the callback is told true and given bytes outside the piece, which no hash covers
  (`ReadSuccessIsTrue` and `ReadsTellTheTruth` name the exception, `outside`).
- Deadlines compare 32-bit numbers: a timer armed before the clock wraps fires at once, or
  a wrap later. `TimersFire` promises callbacks in time within an epoch only.
- The cache may hold more pieces than its maximum while they are in progress, being hashed
  or written: `CacheFits` bounds the `WRITED` ones only.
- The last piece of a torrent whose length is no multiple of the piece length has a
  byte range past the last file (`BytesPlaced`: state `undefined`).
- A file that is empty and selected at a position inside a piece marks that piece as
  needed, because both ends of its range round outwards.
- The reader refuses empty strings, and a torrent with fewer hashes than its size needs
  is accepted.
- A tracker's interval of 0 or none at all is only caught by an assertion.

## Not modelled

- `sha1/`: a published algorithm on 32-bit words, no state between calls; a hash is a
  predicate of the bytes.
- I/O without control of its own: creating directories and files, the search for a free
  port, the console, the log, Winsock's and Windows' wrappers, the text of the tracker
  request. They fail by an exception that ends the program.
- The length of `create_peers_timer_`'s interval (its timer may fire at any time), and byte
  counts and speeds, which are only shown.
- In `BitStreams`, responses whose body has no `Content-Length` (the rule takes their
  body as empty, the rest as the next response), a negative `Content-Length`, which wraps in
  `std::size_t` and can make a pack of 0 bytes, unpacked for ever, and prefixes that wrap when
  4 is added;
  in `BitMetainfo`, values with empty strings, which are refused, negative numbers, and lengths
  and numbers that do not fit into the `int` of `atoi` and the `long long` of `_atoi64`.
- In `BitDownload` and `BitCache`, short last pieces.
- More than one task: `Main` makes one. Opening the same torrent twice would make two
  tasks share one `BitData`.
- A request after a response on the same tracker connection: it is closed after each.

## Plan

The model is complete up to the items above, and every safety property the runs check is
proved. What is left is liveness: `TrackerKeepsTrying` and `RequestsServed` have short chains of
steps, each of which could be stated and proved as an action property.
