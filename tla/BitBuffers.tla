----------------------------- MODULE BitBuffers -----------------------------
(***************************************************************************)
(* DefaultBufferCache: the buffers of the sends and receives come from     *)
(* chunks of equal cells.  Memory is made of regions, one for each new     *)
(* char[]; an address is the number of its region times RegionSize plus    *)
(* the offset.                                                             *)
(***************************************************************************)
EXTENDS Naturals, FiniteSets, SequencesExt

CONSTANTS
  MaxBufferSize, MaxNumPerChunk, AlignSize,  \* DefaultBufferSizePolicy
  Sizes,    \* what GetBuffer is asked for
  MaxLive   \* bound: buffers at a time

VARIABLES
  bufferpool_,  \* the chunks: buffersize_, maxnum_, buffers_, and the list first_ begins
  live          \* the buffers nobody has freed: data, len

bufferVars == <<bufferpool_, live>>

RoundDown(size) == IF size < AlignSize THEN AlignSize ELSE size - (size % AlignSize)
GetUpBoundSize(size) ==
  IF size % AlignSize # 0 THEN (size \div AlignSize + 1) * AlignSize ELSE size
GetNumPerChunk(size) == Min({MaxBufferSize \div size, MaxNumPerChunk})
BigThanMax(size) == size > MaxBufferSize

-----------------------------------------------------------------------------
RegionSize == MaxBufferSize + Max(Sizes)

\* Where new char[] puts the next chunk, and a buffer that is too big for one.
ChunkRegion == RegionSize * 2 * Len(bufferpool_)
BigRegion ==
  RegionSize * Min({2 * n + 1 : n \in 0 .. MaxLive} \ {b.data \div RegionSize : b \in live})

NewChunk(size) ==
  LET num == GetNumPerChunk(size)
  IN  [buffersize_ |-> size, maxnum_ |-> num, buffers_ |-> ChunkRegion,
       first_ |-> [i \in 1 .. num |-> ChunkRegion + (i - 1) * size]]

\* Chunk::Allocate of the chunk at i of the pool.
AllocateIn(pool, i, size) ==
  /\ live' = live \cup {[data |-> Head(pool[i].first_), len |-> size]}
  /\ bufferpool_' = [pool EXCEPT ![i].first_ = Tail(@)]

EqualRange(size) == {i \in DOMAIN bufferpool_ : bufferpool_[i].buffersize_ = GetUpBoundSize(size)}
IsChunkBuffer(c, data) == data >= c.buffers_ /\ data < c.buffers_ + c.maxnum_ * c.buffersize_

BuffersInit == bufferpool_ = <<>> /\ live = {}

Allocate(size) ==
  /\ Cardinality(live) < MaxLive
  /\ LET room == {i \in EqualRange(size) : bufferpool_[i].first_ # <<>>}
         pool == Append(bufferpool_, NewChunk(GetUpBoundSize(size)))
     IN  IF BigThanMax(size)
           THEN live' = live \cup {[data |-> BigRegion, len |-> size]} /\ UNCHANGED bufferpool_
         ELSE IF room # {} THEN AllocateIn(bufferpool_, Min(room), size)
         ELSE AllocateIn(pool, Len(pool), size)

\* One that no chunk of its size knows is lost, where the assertion is compiled out.
Deallocate(b) ==
  /\ live' = live \ {b}
  /\ LET chunks == {i \in EqualRange(b.len) : IsChunkBuffer(bufferpool_[i], b.data)}
     IN  bufferpool_' = IF BigThanMax(b.len) \/ chunks = {} THEN bufferpool_
                        ELSE [bufferpool_ EXCEPT ![Min(chunks)].first_ = <<b.data>> \o @]

\* A Buffer is freed with the size it was asked for.
GetBuffer == \E size \in Sizes : Allocate(size)
FreeBuffer == \E b \in live : Deallocate(b)

BuffersNext == GetBuffer \/ FreeBuffer

BuffersSpec == BuffersInit /\ [][BuffersNext]_bufferVars

-----------------------------------------------------------------------------
(* Properties.                                                             *)

Bytes(data, len) == data .. data + len - 1

\* In whatever order buffers of different sizes come and go, no two live buffers
\* share a byte, and every cell of a chunk is either free or one live buffer that
\* fits into it: none is lost, freed twice, or handed out while it is in use.
BuffersDisjoint ==
  /\ \A b, c \in live : b # c => Bytes(b.data, b.len) \cap Bytes(c.data, c.len) = {}
  /\ \A i \in DOMAIN bufferpool_ :
       LET c == bufferpool_[i]
           cells == {c.buffers_ + k * c.buffersize_ : k \in 0 .. c.maxnum_ - 1}
           used == {b \in live : Bytes(b.data, b.len) \cap Bytes(c.buffers_, c.maxnum_ * c.buffersize_) # {}}
       IN  /\ \A b \in used : b.data \in cells \ ToSet(c.first_) /\ b.len <= c.buffersize_
           /\ cells = ToSet(c.first_) \cup {b.data : b \in used}
           /\ IsInjective(c.first_)
=============================================================================
