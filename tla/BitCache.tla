------------------------------ MODULE BitCache ------------------------------
(***************************************************************************)
(* The piece cache of one download task (core/BitCache.cpp), the pieces it *)
(* holds (core/BitPiece.h), and the two background threads it feeds: the   *)
(* file thread of BitFile::FileService and the hash thread of              *)
(* BitPieceSha1Calc.                                                       *)
(*                                                                         *)
(* A downloaded piece travels                                              *)
(*   cache --piece_list--> hash thread --piece_sha1_list--> cache          *)
(*         --operations--> file thread --write_res--> MarkDownloadComplete *)
(* and an upload that misses the cache travels                             *)
(*   operations--> file thread --read_res--> cache --> read callback.      *)
(*                                                                         *)
(* The main thread's loop is the variable phase: "net" stands for the      *)
(* handlers that call Read and Write, then BitCache::ProcessCache runs its *)
(* four parts in order.  Every region a mutex protects is one step.        *)
(***************************************************************************)
EXTENDS Integers, Sequences, FiniteSets, Functions

CONSTANTS
  Pieces,         \* piece indexes of the torrent
  Blocks,         \* the blocks of a piece: what one PIECE message carries
  Extent,         \* Extent[p]: for each file p lies in, the blocks it has there
  Objs,           \* BitPiece instances
  NoObj,          \* a null PiecePtr
  Readers,        \* the upload requests that may wait for a read
  Beyond,         \* a range with begin_of_piece + length > piece_length_
  Wrapping,       \* one not in the piece, whose sum wraps in std::size_t and passes
  MaxCache,       \* max_cache_pieces_
  Failing,        \* the operations, of READ and WRITE, the disk may fail
  StaleRequests   \* end downloading mode: blocks asked of several peers

ASSUME ConstantsAssumption ==
  /\ IsFiniteSet(Pieces) /\ IsFiniteSet(Blocks) /\ Blocks # {}
  /\ Extent \in [Pieces -> Seq(SUBSET Blocks)]
  /\ \A p \in Pieces : UNION Range(Extent[p]) = Blocks
  /\ NoObj \notin Objs /\ {Beyond, Wrapping} \cap Blocks = {} /\ Beyond # Wrapping
  /\ MaxCache \in Nat
  /\ Failing \subseteq {"READ", "WRITE"} /\ StaleRequests \in BOOLEAN

VARIABLES
  phase,            \* where the main thread is in its loop, or in ~BitCache
  cache_piece,      \* piece index -> PiecePtr
  state,            \* BitPiece::state_
  data,             \* BitPiece::data_, block by block
  async_read_ops,   \* piece index -> the callbacks waiting for it
  answer,           \* what the last read of each reader was answered
  sha_list,         \* the local list of ProcessAsyncCheckPiece
  downloaded,       \* BitDownloadingInfo::downloaded_, also BitCache::piece_map_
  downloading,      \* BitDownloadingInfo::downloading_
  completed,        \* calls of CompleteNewPiece(p): BitData::downloaded_ / piece_length_
  operations,       \* FileService::operations_
  ops_event,        \* FileService::ops_event_, auto reset
  read_res,         \* FileService::read_res_
  write_res,        \* FileService::write_res_, how often each piece is in it
  io_pc,            \* the file thread: "wait", "woken", "run" or "done"
  io_batch,         \* its local vector operations
  io_pos,           \* the operation of io_batch it executes next
  disk,             \* what the files hold
  piece_list,       \* BitPieceSha1Calc::piece_list_
  list_event,       \* piece_list_event_, auto reset
  sha_pc,           \* the hash thread: "wait", "woken", "run" or "done"
  sha_batch,        \* its local piece_list, what is left of it
  sha_out,          \* its local piece_sha1_list
  piece_sha1_list,  \* BitPieceSha1Calc::piece_sha1_list_
  exiting           \* the threads whose thread_exit_flag_ is set

pieceVars == <<cache_piece, state, data>>
readVars  == <<async_read_ops, answer>>
infoVars  == <<downloaded, downloading, completed>>
fileVars  == <<operations, ops_event, read_res, write_res>>
ioVars    == <<io_pc, io_batch, io_pos, disk>>
listVars  == <<piece_list, list_event, piece_sha1_list>>
shaVars   == <<sha_pc, sha_batch, sha_out>>

vars == <<phase, cache_piece, state, data, async_read_ops, answer, sha_list,
          downloaded, downloading, completed, operations, ops_event, read_res,
          write_res, io_pc, io_batch, io_pos, disk, piece_list, list_event,
          sha_pc, sha_batch, sha_out, piece_sha1_list, exiting>>

-----------------------------------------------------------------------------
(* Types. "empty" is a byte range nobody wrote (zeros), "good" what the    *)
(* metainfo's hash covers, "bad" anything else a peer sent.                *)

Values == {"empty", "good", "bad"}
Content == [Blocks -> Values]
Zeros == [b \in Blocks |-> "empty"]
PieceStates == {"NOT_CHECKED", "CHECKING_SHA1", "CHECK_SHA1_OK", "WRITED"}
Operation == [op : {"READ", "WRITE"}, piece : Pieces, obj : Objs,
              blocks : SUBSET Blocks]
Ranges == Blocks \cup {Wrapping}
MainPhases == {"net", "read", "check", "checking", "write", "free"}

Verified(o) == \A b \in Blocks : data[o][b] = "good"
OnDisk(p)   == \A b \in Blocks : disk[p][b] = "good"

-----------------------------------------------------------------------------
(* Pieces and their owners. *)

Cached == {p \in Pieces : cache_piece[p] # NoObj}
AnyCached == {p \in Cached : state[cache_piece[p]] # "NOT_CHECKED"}
WritedPieces == {p \in Cached : state[cache_piece[p]] = "WRITED"}

\* The shared_ptrs a thread or a queue of the hash pipeline holds.
HeldBySha == {piece_list[i][2] : i \in DOMAIN piece_list}
               \cup {sha_batch[i][2] : i \in DOMAIN sha_batch}

\* Those the file pipeline holds, up to the result of a read.
HeldByFile == {operations[i].obj : i \in DOMAIN operations}
                \cup {io_batch[i].obj : i \in DOMAIN io_batch}
                \cup ({read_res[p] : p \in Pieces} \ {NoObj})

Referenced == {cache_piece[p] : p \in Cached} \cup HeldBySha \cup HeldByFile

\* FileService::AddOperation: one operation for each file the piece lies in.
OpsOf(kind, p, o) ==
  [i \in 1 .. Len(Extent[p]) |->
     [op |-> kind, piece |-> p, obj |-> o, blocks |-> Extent[p][i]]]

\* The operations are queued, and the thread is woken for a write only.
QueueOpsForWrite(kind, p, o) ==
  /\ operations' = operations \o OpsOf(kind, p, o)
  /\ ops_event' = (ops_event \/ kind = "WRITE")

\* FileService::ReadPiece and WritePiece: queue the operations, set the event.
QueueOps(kind, p, o) ==
  /\ operations' = operations \o OpsOf(kind, p, o)
  /\ ops_event' = TRUE

\* BitPieceSha1Calc::AddPiece.
AddPieceSilently(p, o) ==
  /\ piece_list' = Append(piece_list, <<p, o>>)
  /\ UNCHANGED list_event
AddPiece(p, o) ==
  /\ piece_list' = Append(piece_list, <<p, o>>)
  /\ list_event' = TRUE

\* FetchNewPiece: the pairs <<piece, the cache without it>> it may return, a
\* recycled piece when the cache is over its maximum, else a new one.  Which
\* WRITED piece GetOldestPiece picks depends on read times that are not
\* modelled: it may be any.
FetchNewPiece ==
  IF Cardinality(Cached) > MaxCache /\ WritedPieces # {}
    THEN {<<cache_piece[q], [cache_piece EXCEPT ![q] = NoObj]>> : q \in WritedPieces}
    ELSE {<<o, cache_piece>> : o \in Objs \ Referenced}

\* BitData::IsDownloadComplete, in pieces: completed counts what
\* DownloadedUpdater::CompleteNewPiece adds, piece_length_ bytes each time.
IsDownloadComplete == SumFunction(completed) >= Cardinality(Pieces)

-----------------------------------------------------------------------------
Init ==
  /\ phase = "net"
  /\ cache_piece = [p \in Pieces |-> NoObj]
  /\ state = [o \in Objs |-> "NOT_CHECKED"]
  /\ data = [o \in Objs |-> Zeros]
  /\ async_read_ops = [p \in Pieces |-> {}]
  /\ answer = [r \in Readers |-> "none"]
  /\ sha_list = <<>>
  /\ downloaded = {} /\ downloading = {}
  /\ completed = [p \in Pieces |-> 0]
  /\ operations = <<>> /\ ops_event = FALSE
  /\ read_res = [p \in Pieces |-> NoObj]
  /\ write_res = [p \in Pieces |-> 0]
  /\ io_pc = "wait" /\ io_batch = <<>> /\ io_pos = 1
  /\ disk = [p \in Pieces |-> Zeros]
  /\ piece_list = <<>> /\ list_event = FALSE /\ piece_sha1_list = <<>>
  /\ sha_pc = "wait" /\ sha_batch = <<>> /\ sha_out = <<>>
  /\ exiting = {}

-----------------------------------------------------------------------------
(* The main thread: what the peers' handlers call. *)

\* BitDownloadingInfo::MarkDownloading, called when a peer is given the piece.
MarkDownloading(p) ==
  /\ phase \in MainPhases /\ ~IsDownloadComplete
  /\ p \notin downloaded \cup downloading
  /\ downloading' = downloading \cup {p}
  /\ UNCHANGED <<phase, pieceVars, readVars, sha_list, downloaded, completed,
                 fileVars, ioVars, listVars, shaVars, exiting>>

\* BitPiece::WriteBlock into o, IsComplete, and AsyncCheckPiece when it is;
\* d is the content o has before.  Its own tests say nothing new: o is Writable or just
\* fetched, and a block that was asked for lies within the piece.
WriteInto(o, d, p, b, v) ==
  LET d2 == [d EXCEPT ![b] = v]
      isComplete == \A x \in Blocks : d2[x] # "empty"
  IN  /\ data' = [data EXCEPT ![o] = d2]
      /\ IF isComplete
           THEN /\ state' = [state EXCEPT ![o] = "CHECKING_SHA1"]
                /\ AddPiece(p, o)
           ELSE /\ state' = [state EXCEPT ![o] = "NOT_CHECKED"]
                /\ UNCHANGED <<piece_list, list_event>>

\* "we do not change this piece's data": the test of WriteBlock, after one that
\* only spares the pieces being hashed.
NotHashing(o) == state[o] # "CHECKING_SHA1"
Writable(o) == state[o] = "NOT_CHECKED"

\* BitCache::Write of a block with content v.  A piece that is marked
\* downloaded or is past NOT_CHECKED is left alone.
Write(p, b, v) ==
  /\ phase = "net"
  /\ ~IsDownloadComplete
  /\ p \in downloading \/ StaleRequests
  /\ p \notin downloaded
  /\ IF cache_piece[p] # NoObj
       THEN LET o == cache_piece[p] IN
            /\ Writable(o)
            /\ WriteInto(o, data[o], p, b, v)
            /\ UNCHANGED cache_piece
       ELSE \E new \in FetchNewPiece :
            /\ cache_piece' = [new[2] EXCEPT ![p] = new[1]]
            /\ WriteInto(new[1], Zeros, p, b, v)
  /\ UNCHANGED <<phase, readVars, sha_list, infoVars, fileVars, ioVars,
                 piece_sha1_list, shaVars, exiting>>

\* What a read callback, told true, is given of range b of the piece in o.
Outcome(o, b) == IF b = Wrapping THEN "outside"
                 ELSE IF data[o][b] = "good" THEN "verified" ELSE "garbage"

\* The test of BitCache::Read, which adds begin and length as a peer sent them.
InRange(p, b) == b # Beyond
Readable(p, b) == p \in downloaded /\ b # Beyond

\* AsyncReadBlock finds nobody waiting for the piece.
AnyReader(p) == Cardinality(async_read_ops[p]) >= 0
FirstReader(p) == async_read_ops[p] = {}

\* BitCache::Read when the answer is at hand: the piece is not marked, the
\* range is outside the piece, or the piece is in the cache.
ReadNow(r, p, b) ==
  /\ phase = "net" /\ answer[r] # "waiting"
  /\ \/ /\ ~Readable(p, b)
        /\ answer' = [answer EXCEPT ![r] = "refused"]
     \/ /\ Readable(p, b) /\ cache_piece[p] # NoObj
        /\ answer' = [answer EXCEPT ![r] = Outcome(cache_piece[p], b)]
  /\ UNCHANGED <<phase, pieceVars, async_read_ops, sha_list, infoVars, fileVars,
                 ioVars, listVars, shaVars, exiting>>

\* AsyncReadBlock: only the first reader of a piece starts a read.
AsyncReadBlock(r, p, b) ==
  /\ phase = "net" /\ answer[r] # "waiting"
  /\ Readable(p, b) /\ cache_piece[p] = NoObj
  /\ answer' = [answer EXCEPT ![r] = "waiting"]
  /\ async_read_ops' = [async_read_ops EXCEPT ![p] = @ \cup {<<r, b>>}]
  /\ IF FirstReader(p)
       THEN \E new \in FetchNewPiece :
            /\ cache_piece' = new[2]
            /\ state' = [state EXCEPT ![new[1]] = "NOT_CHECKED"]
            /\ data' = [data EXCEPT ![new[1]] = Zeros]
            /\ QueueOps("READ", p, new[1])
       ELSE UNCHANGED <<pieceVars, operations, ops_event>>
  /\ UNCHANGED <<phase, sha_list, infoVars, read_res, write_res, ioVars,
                 listVars, shaVars, exiting>>

-----------------------------------------------------------------------------
(* The main thread: BitCache::ProcessCache. *)

ProcessCache ==
  /\ phase = "net" /\ phase' = "read"
  /\ UNCHANGED <<pieceVars, readVars, sha_list, infoVars, fileVars, ioVars,
                 listVars, shaVars, exiting>>

\* CompleteAsyncReadOps: the callbacks that wait for the pieces in read.
Waiting(read) == {w \in read \X (Readers \X Ranges) : w[2] \in async_read_ops[w[1]]}

\* All the pieces read so far become WRITED, their callbacks are called, and
\* they enter the cache; map::insert keeps an entry that is already there.
ProcessAsyncReadOps ==
  LET read == {p \in Pieces : read_res[p] # NoObj}
      inserted == {p \in read : cache_piece[p] = NoObj}
  IN
  /\ phase = "read" /\ phase' = "check"
  /\ state' = [o \in Objs |->
                 IF \E p \in read : read_res[p] = o THEN "WRITED" ELSE state[o]]
  /\ answer' = [r \in Readers |->
       IF \E w \in Waiting(read) : w[2][1] = r
         THEN LET w == CHOOSE w \in Waiting(read) : w[2][1] = r
              IN  Outcome(read_res[w[1]], w[2][2])
         ELSE answer[r]]
  /\ async_read_ops' = [p \in Pieces |-> IF p \in read THEN {} ELSE async_read_ops[p]]
  /\ cache_piece' = [p \in Pieces |->
                       IF p \in inserted THEN read_res[p] ELSE cache_piece[p]]
  /\ read_res' = [p \in Pieces |-> NoObj]
  /\ UNCHANGED <<data, sha_list, infoVars, operations, ops_event, write_res,
                 ioVars, listVars, shaVars, exiting>>

\* GetResult swaps the results into a local list ...
ProcessAsyncCheckPiece ==
  /\ phase = "check"
  /\ phase' = IF piece_sha1_list = <<>> THEN "write" ELSE "checking"
  /\ sha_list' = piece_sha1_list
  /\ piece_sha1_list' = <<>>
  /\ UNCHANGED <<pieceVars, readVars, infoVars, fileVars, ioVars, piece_list,
                 list_event, shaVars, exiting>>

\* ... whose elements <<piece, does the hash match>> are handled in turn.
CompleteAsyncCheckPiece ==
  LET p == sha_list[1][1]
      match == sha_list[1][2]
      o == cache_piece[p]
  IN
  /\ phase = "checking"
  /\ sha_list' = Tail(sha_list)
  /\ phase' = IF Len(sha_list) = 1 THEN "write" ELSE "checking"
  /\ \/ /\ o = NoObj
        /\ UNCHANGED <<state, data, downloading, operations, ops_event>>
     \/ /\ o # NoObj /\ match
        /\ state' = [state EXCEPT ![o] = "CHECK_SHA1_OK"]
        /\ QueueOps("WRITE", p, o)
        /\ UNCHANGED <<data, downloading>>
     \/ /\ o # NoObj /\ ~match
        /\ state' = [state EXCEPT ![o] = "NOT_CHECKED"]
        /\ data' = [data EXCEPT ![o] = Zeros]
        /\ downloading' = downloading \ {p}
        /\ UNCHANGED <<operations, ops_event>>
  /\ UNCHANGED <<cache_piece, readVars, downloaded, completed, read_res,
                 write_res, ioVars, listVars, shaVars, exiting>>

\* CompleteAsyncWritePiece for every entry of write_res: WRITED, and
\* MarkDownloadComplete, which notifies CompleteNewPiece once per entry.
ProcessAsyncWritePiece ==
  LET written == {p \in Pieces : write_res[p] > 0} IN
  /\ phase = "write" /\ phase' = "free"
  /\ state' = [o \in Objs |->
                 IF \E p \in written : cache_piece[p] = o THEN "WRITED" ELSE state[o]]
  /\ downloaded' = downloaded \cup written
  /\ downloading' = downloading \ written
  /\ completed' = [p \in Pieces |-> completed[p] + write_res[p]]
  /\ write_res' = [p \in Pieces |-> 0]
  /\ UNCHANGED <<cache_piece, data, readVars, sha_list, operations, ops_event,
                 read_res, ioVars, listVars, shaVars, exiting>>

\* The pieces FreeCachePiece takes out: WRITED ones, oldest first (any order
\* here), until the cache fits or none is left.
EvictOne == {gone \in SUBSET WritedPieces :
               Cardinality(gone) = IF WritedPieces # {} /\ Cardinality(Cached) > MaxCache
                                     THEN 1 ELSE 0}
Evictions ==
  {gone \in SUBSET WritedPieces :
     \/ Cardinality(Cached) <= MaxCache /\ gone = {}
     \/ Cardinality(Cached) > MaxCache /\ Cardinality(Cached \ gone) = MaxCache
     \/ Cardinality(Cached \ gone) > MaxCache /\ gone = WritedPieces}

\* A piece nobody points to any more is gone; its instance is as new.
FreeCachePiece ==
  /\ phase = "free" /\ phase' = "net"
  /\ \E gone \in Evictions :
       LET freed == {cache_piece[p] : p \in gone} IN
       /\ cache_piece' = [p \in Pieces |-> IF p \in gone THEN NoObj ELSE cache_piece[p]]
       /\ state' = [o \in Objs |-> IF o \in freed THEN "NOT_CHECKED" ELSE state[o]]
       /\ data' = [o \in Objs |-> IF o \in freed THEN Zeros ELSE data[o]]
  /\ UNCHANGED <<readVars, sha_list, infoVars, fileVars, ioVars, listVars,
                 shaVars, exiting>>

-----------------------------------------------------------------------------
(* The file thread: FileService::IoThreadFunc. *)

\* WaitForever returns, which resets the event; then the flag is tested.
IoWake ==
  /\ io_pc = "wait" /\ ops_event
  /\ ops_event' = FALSE
  /\ io_pc' = IF "io" \in exiting THEN "done" ELSE "woken"
  /\ UNCHANGED <<phase, pieceVars, readVars, sha_list, infoVars, operations,
                 read_res, write_res, io_batch, io_pos, disk, listVars,
                 shaVars, exiting>>

IoSwap ==
  /\ io_pc = "woken" /\ io_pc' = "run"
  /\ io_batch' = operations /\ io_pos' = 1
  /\ operations' = <<>>
  /\ UNCHANGED <<phase, pieceVars, readVars, sha_list, infoVars, ops_event,
                 read_res, write_res, disk, listVars, shaVars, exiting>>

\* CompleteOperation on the next element; File::Read and File::Write drop the
\* result of ReadFile and WriteFile.
CompleteOperation ==
  LET x == io_batch[io_pos] IN
  /\ io_pc = "run" /\ io_pos <= Len(io_batch)
  /\ io_pos' = io_pos + 1
  /\ \/ /\ x.op \in Failing
        /\ UNCHANGED <<data, disk>>
     \/ /\ x.op = "READ"
        /\ data' = [data EXCEPT ![x.obj] =
                     [b \in Blocks |-> IF b \in x.blocks THEN disk[x.piece][b]
                                                         ELSE data[x.obj][b]]]
        /\ UNCHANGED disk
     \/ /\ x.op = "WRITE"
        /\ disk' = [disk EXCEPT ![x.piece] =
                     [b \in Blocks |-> IF b \in x.blocks THEN data[x.obj][b]
                                                         ELSE disk[x.piece][b]]]
        /\ UNCHANGED data
  /\ UNCHANGED <<phase, cache_piece, state, readVars, sha_list, infoVars,
                 fileVars, io_pc, io_batch, listVars, shaVars, exiting>>

BatchOf(kind, p) == {i \in DOMAIN io_batch : io_batch[i].op = kind /\ io_batch[i].piece = p}

\* read_res_ and write_res_ after CollectResult on every element of the batch.
Collected ==
  /\ read_res' = [p \in Pieces |->
       IF read_res[p] = NoObj /\ BatchOf("READ", p) # {}
         THEN io_batch[CHOOSE i \in BatchOf("READ", p) : TRUE].obj ELSE read_res[p]]
  /\ write_res' = [p \in Pieces |-> write_res[p] + Cardinality(BatchOf("WRITE", p))]

\* The batch is not local to the pass: a member that keeps the pieces it points to.
CollectResultKeepsBatch ==
  /\ io_pc = "run" /\ io_pos > Len(io_batch)
  /\ io_pc' = "wait" /\ io_pos' = 1
  /\ Collected
  /\ UNCHANGED <<phase, pieceVars, readVars, sha_list, infoVars, operations,
                 ops_event, io_batch, disk, listVars, shaVars, exiting>>

\* The results are collected once all operations are executed, and the batch goes.
CollectResult ==
  /\ io_pc = "run" /\ io_pos > Len(io_batch)
  /\ io_pc' = "wait" /\ io_batch' = <<>> /\ io_pos' = 1
  /\ Collected
  /\ UNCHANGED <<phase, pieceVars, readVars, sha_list, infoVars, operations,
                 ops_event, disk, listVars, shaVars, exiting>>

-----------------------------------------------------------------------------
(* The hash thread: BitPieceSha1Calc::CalcSha1Thread. *)

ShaWake ==
  /\ sha_pc = "wait" /\ list_event
  /\ list_event' = FALSE
  /\ sha_pc' = IF "sha" \in exiting THEN "done" ELSE "woken"
  /\ UNCHANGED <<phase, pieceVars, readVars, sha_list, infoVars, fileVars,
                 ioVars, piece_list, piece_sha1_list, sha_batch, sha_out, exiting>>

\* The list is copied, not swapped.
ShaCopy ==
  /\ sha_pc = "woken" /\ sha_pc' = "run"
  /\ sha_batch' = piece_list
  /\ UNCHANGED <<phase, pieceVars, readVars, sha_list, infoVars, fileVars,
                 ioVars, listVars, sha_out, exiting>>

ShaSwap ==
  /\ sha_pc = "woken" /\ sha_pc' = "run"
  /\ sha_batch' = piece_list /\ piece_list' = <<>>
  /\ UNCHANGED <<phase, pieceVars, readVars, sha_list, infoVars, fileVars,
                 ioVars, list_event, piece_sha1_list, sha_out, exiting>>

\* Sha1Value, compared with the metainfo's: does it match?
LengthMatches(o) == \A b \in Blocks : data[o][b] # "empty"
HashMatches(o) == Verified(o)

\* CalculateSha1, one piece.
CalculateSha1 ==
  /\ sha_pc = "run" /\ sha_batch # <<>>
  /\ sha_out' = Append(sha_out, <<sha_batch[1][1], HashMatches(sha_batch[1][2])>>)
  /\ sha_batch' = Tail(sha_batch)
  /\ UNCHANGED <<phase, pieceVars, readVars, sha_list, infoVars, fileVars,
                 ioVars, listVars, sha_pc, exiting>>

ShaPublish ==
  /\ sha_pc = "run" /\ sha_batch = <<>>
  /\ sha_pc' = "wait"
  /\ piece_sha1_list' = piece_sha1_list \o sha_out
  /\ sha_out' = <<>>
  /\ UNCHANGED <<phase, pieceVars, readVars, sha_list, infoVars, fileVars,
                 ioVars, piece_list, list_event, sha_batch, exiting>>

-----------------------------------------------------------------------------
(* ~BitCache: the members go in reverse order, so piece_sha1_calc_ stops    *)
(* and joins its thread first, then file_ does.                            *)

StopSha1CalcSilently ==
  /\ phase = "net" /\ phase' = "join sha"
  /\ exiting' = exiting \cup {"sha"}
  /\ UNCHANGED <<pieceVars, readVars, sha_list, infoVars, fileVars, ioVars,
                 listVars, shaVars>>
StopSha1Calc ==
  /\ phase = "net" /\ phase' = "join sha"
  /\ exiting' = exiting \cup {"sha"} /\ list_event' = TRUE
  /\ UNCHANGED <<pieceVars, readVars, sha_list, infoVars, fileVars, ioVars,
                 piece_list, piece_sha1_list, shaVars>>

StopFileService ==
  /\ phase = "join sha" /\ sha_pc = "done" /\ phase' = "join io"
  /\ exiting' = exiting \cup {"io"} /\ ops_event' = TRUE
  /\ UNCHANGED <<pieceVars, readVars, sha_list, infoVars, operations, read_res,
                 write_res, ioVars, listVars, shaVars>>

Join ==
  /\ phase = "join io" /\ io_pc = "done" /\ phase' = "gone"
  /\ UNCHANGED <<pieceVars, readVars, sha_list, infoVars, fileVars, ioVars,
                 listVars, shaVars, exiting>>

\* Nothing runs any more.
Gone == phase = "gone" /\ UNCHANGED vars

-----------------------------------------------------------------------------
Io  == IoWake \/ IoSwap \/ CompleteOperation \/ CollectResult
Sha == ShaWake \/ ShaSwap \/ CalculateSha1 \/ ShaPublish

\* One pass of BitCache::ProcessCache, which the main loop never stops making.
Cache == ProcessCache \/ ProcessAsyncReadOps \/ ProcessAsyncCheckPiece
           \/ CompleteAsyncCheckPiece \/ ProcessAsyncWritePiece \/ FreeCachePiece

Peers == \E p \in Pieces :
  \/ MarkDownloading(p)
  \/ \E b \in Blocks, v \in {"good", "bad"} : Write(p, b, v)
  \/ \E r \in Readers, b \in Ranges \cup {Beyond} :
       ReadNow(r, p, b) \/ AsyncReadBlock(r, p, b)

Destroy == StopSha1Calc \/ StopFileService \/ Join

Next == Peers \/ Cache \/ Io \/ Sha \/ Destroy \/ Gone

Spec == Init /\ [][Next]_vars

\* The main loop and both threads keep being scheduled; the peers owe nothing,
\* and a destructor that has begun goes on.
Fairness == /\ WF_vars(Cache) /\ WF_vars(Io) /\ WF_vars(Sha)
            /\ WF_vars(StopFileService) /\ WF_vars(Join)

FairSpec == Spec /\ Fairness

-----------------------------------------------------------------------------
(* What must hold. *)

\* The types, one group of variables after another.
PiecesType ==
  /\ cache_piece \in [Pieces -> Objs \cup {NoObj}]
  /\ state \in [Objs -> PieceStates]
  /\ data \in [Objs -> Content]
ReadsType ==
  /\ async_read_ops \in [Pieces -> SUBSET (Readers \X Ranges)]
  /\ answer \in [Readers -> {"none", "waiting", "refused", "verified", "garbage", "outside"}]
InfoType ==
  /\ downloaded \in SUBSET Pieces /\ downloading \in SUBSET Pieces
  /\ completed \in [Pieces -> Nat]
FileType ==
  /\ operations \in Seq(Operation) /\ ops_event \in BOOLEAN
  /\ read_res \in [Pieces -> Objs \cup {NoObj}]
  /\ write_res \in [Pieces -> Nat]
IoType ==
  /\ io_pc \in {"wait", "woken", "run", "done"}
  /\ io_batch \in Seq(Operation)
  /\ io_pos \in 1 .. Len(io_batch) + 1
  /\ io_pc # "run" => io_batch = <<>>
  /\ disk \in [Pieces -> Content]
ListType ==
  /\ piece_list \in Seq(Pieces \X Objs) /\ list_event \in BOOLEAN
  /\ piece_sha1_list \in Seq(Pieces \X BOOLEAN)
ShaType ==
  /\ sha_pc \in {"wait", "woken", "run", "done"}
  /\ sha_batch \in Seq(Pieces \X Objs)
  /\ sha_out \in Seq(Pieces \X BOOLEAN)
MainType ==
  /\ phase \in MainPhases \cup {"join sha", "join io", "gone"}
  /\ sha_list \in Seq(Pieces \X BOOLEAN)
  /\ phase = "checking" <=> sha_list # <<>>
  /\ exiting \in SUBSET {"sha", "io"}

\* Every variable has its type, io_pos never runs past its batch, the file thread
\* holds a batch only while it runs, and the main thread results while it checks.
TypeOK == PiecesType /\ ReadsType /\ InfoType /\ FileType /\ IoType /\ ListType
            /\ ShaType /\ MainType

\* The pieces in the hash pipeline, from the oldest result to the newest input.
Firsts(s) == [i \in DOMAIN s |-> s[i][1]]
ShaPipe == Firsts(sha_list) \o Firsts(piece_sha1_list) \o Firsts(sha_out)
             \o Firsts(sha_batch) \o Firsts(piece_list)

\* A write of piece p is queued, being executed, or executed but not collected.
WritePending(p) ==
  \/ \E i \in DOMAIN operations : operations[i].op = "WRITE" /\ operations[i].piece = p
  \/ \E i \in DOMAIN io_batch : io_batch[i].op = "WRITE" /\ io_batch[i].piece = p
  \/ write_res[p] > 0

\* A piece the peers are told we have is verified and in its files, all of
\* it, when no WriteFile fails: across the hash thread, the file thread and the
\* recycling of its memory (BitCache.cpp:220-261).
DownloadedOnDisk == \A p \in downloaded : OnDisk(p)

\* The state of a cached piece says where it is: CHECKING_SHA1 when it is in
\* the hash pipeline, exactly once, CHECK_SHA1_OK when a write of it is pending,
\* and in neither otherwise (the comment at BitCache.cpp:194).
StateTracksPipeline ==
  \A p \in Pieces :
    LET st == IF p \in Cached THEN state[cache_piece[p]] ELSE "absent"
        inSha == Cardinality({i \in DOMAIN ShaPipe : ShaPipe[i] = p})
    IN  /\ inSha = IF st = "CHECKING_SHA1" THEN 1 ELSE 0
        /\ WritePending(p) <=> st = "CHECK_SHA1_OK"

\* The main thread clears, fills or recycles only pieces that are NOT_CHECKED
\* or WRITED in the cache; neither background thread holds such a piece, and
\* no two cache entries or reads share a BitPiece (BitCache.cpp:66-81).
NoDataRace ==
  /\ \A p \in Cached : state[cache_piece[p]] \in {"NOT_CHECKED", "WRITED"}
                         => cache_piece[p] \notin HeldBySha \cup HeldByFile
  /\ \A p, q \in Cached : cache_piece[p] = cache_piece[q] => p = q

\* A read callback that is told true gets verified bytes (BitCache.h:27), but for
\* one exception: a range that wraps is answered "outside", true with bytes that
\* are not in the piece, because BitCache.cpp:36 adds what a peer sent unchecked.
ReadSuccessIsTrue == \A r \in Readers : answer[r] # "garbage"

\* One read per piece is under way, and only while somebody waits for it.
ReadsAreShared ==
  \A p \in Pieces :
    LET reading == {o \in Objs :
          \/ \E i \in DOMAIN operations :
               operations[i].op = "READ" /\ operations[i].piece = p /\ operations[i].obj = o
          \/ \E i \in DOMAIN io_batch :
               io_batch[i].op = "READ" /\ io_batch[i].piece = p /\ io_batch[i].obj = o
          \/ read_res[p] = o}
    IN  Cardinality(reading) = IF async_read_ops[p] = {} THEN 0 ELSE 1

\* Between two passes of ProcessCache no more WRITED pieces than the maximum
\* stay in memory, whatever reads and downloads brought in (BitCache.cpp:263).
CacheFits == phase = "net" => Cardinality(WritedPieces) <= MaxCache

\* A piece that is being hashed or written is still marked downloading and not
\* downloaded, so nobody is given its blocks again (BitDownloadDispatcher.cpp:178).
NotRedispatched ==
  \A p \in Cached : state[cache_piece[p]] \in {"CHECKING_SHA1", "CHECK_SHA1_OK"}
                      => p \in downloading \ downloaded

\* Once a piece is past its hash, its bytes stay as they are as long as it is
\* in the cache under that index: late and duplicate blocks do not reach it.
VerifiedStaysVerified ==
  [][\A p \in Cached :
       /\ state[cache_piece[p]] \in {"CHECK_SHA1_OK", "WRITED"}
       /\ cache_piece'[p] = cache_piece[p]
       => data'[cache_piece[p]] = data[cache_piece[p]]]_vars

\* Every read that waits is answered, unless the task is destroyed first.
ReadsAnswered ==
  \A r \in Readers : answer[r] = "waiting" ~> answer[r] # "waiting" \/ exiting # {}

\* A piece whose blocks are all here is announced, or failed and can be
\* dispatched again; no wakeup of the two threads is lost.
ChecksEnd ==
  \A p \in Pieces :
    (p \in Cached /\ state[cache_piece[p]] = "CHECKING_SHA1")
      ~> (p \in downloaded \/ p \notin downloading \/ exiting # {})

\* The destructor's two Joins return.
DestructorEnds == phase = "join sha" ~> phase = "gone"

\* "download is complete or not" (BitData.h:97): complete means every piece.
CompleteMeansAll == IsDownloadComplete => downloaded = Pieces

=============================================================================
