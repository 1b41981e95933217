--------------------------- MODULE BitCacheProofs ---------------------------
(***************************************************************************)
(* Proofs about BitCache, for any torrent, layout of files, number of      *)
(* BitPiece instances and size of the cache: the types; why no thread sees *)
(* a BitPiece that another one changes; why a piece that is announced is   *)
(* verified and in its files; and what the states of cached pieces mean:   *)
(* that a piece in a pipeline is still there and will come out of it, that *)
(* it is not downloaded a second time, that reads are shared and tell the  *)
(* truth, and that the cache goes back to its maximum.                     *)
(*                                                                         *)
(* The argument for them is an inductive invariant, Placed, that           *)
(* says where each BitPiece is: in the cache under one index, in a read of *)
(* one piece, or nowhere; and of the cached ones which are in the hash     *)
(* pipeline and which in the write pipeline, each in exactly one stage.    *)
(***************************************************************************)
EXTENDS BitCache, SequenceTheorems, FiniteSetTheorems, TLAPS

-----------------------------------------------------------------------------
(* Types of the helpers. *)

\* What FetchNewPiece returns is a piece and a cache.
LEMMA FetchNewPieceType ==
  ASSUME PiecesType, NEW new \in FetchNewPiece
  PROVE  new[1] \in Objs /\ new[2] \in [Pieces -> Objs \cup {NoObj}]
<1>1. CASE \E q \in WritedPieces :
             new = <<cache_piece[q], [cache_piece EXCEPT ![q] = NoObj]>>
  <2>1. PICK q \in WritedPieces :
          new = <<cache_piece[q], [cache_piece EXCEPT ![q] = NoObj]>>
    BY <1>1
  <2>2. q \in Pieces /\ cache_piece[q] \in Objs
    BY DEF PiecesType, WritedPieces, Cached
  <2>3. [cache_piece EXCEPT ![q] = NoObj] \in [Pieces -> Objs \cup {NoObj}]
    BY DEF PiecesType
  <2> QED BY <2>1, <2>2, <2>3
<1>2. CASE \E o \in Objs \ Referenced : new = <<o, cache_piece>>
  BY <1>2 DEF PiecesType
<1>3. \/ \E q \in WritedPieces :
           new = <<cache_piece[q], [cache_piece EXCEPT ![q] = NoObj]>>
      \/ \E o \in Objs \ Referenced : new = <<o, cache_piece>>
  BY DEF FetchNewPiece
<1> QED BY <1>1, <1>2, <1>3

\* The operations of one piece are operations.
LEMMA OpsOfType ==
  ASSUME NEW kind \in {"READ", "WRITE"}, NEW p \in Pieces, NEW o \in Objs
  PROVE  OpsOf(kind, p, o) \in Seq(Operation)
<1> DEFINE op(i) == [op |-> kind, piece |-> p, obj |-> o, blocks |-> Extent[p][i]]
           n == Len(Extent[p])
<1>1. Extent[p] \in Seq(SUBSET Blocks)
  BY ConstantsAssumption
<1>2. n \in Nat /\ \A i \in 1 .. n : Extent[p][i] \in SUBSET Blocks
  BY <1>1, LenProperties, ElementOfSeq
<1>3. \A i \in 1 .. n : op(i) \in Operation
  BY <1>2 DEF Operation
<1>4. OpsOf(kind, p, o) = [i \in 1 .. n |-> op(i)]
  BY DEF OpsOf
<1> HIDE DEF op, n
<1>5. [i \in 1 .. n |-> op(i)] \in [1 .. n -> Operation]
  BY <1>3
<1>6. [1 .. n -> Operation] \subseteq Seq(Operation)
  BY <1>2
<1> QED BY <1>4, <1>5, <1>6

LEMMA QueueOpsType ==
  ASSUME FileType, NEW kind \in {"READ", "WRITE"}, NEW p \in Pieces, NEW o \in Objs,
         QueueOps(kind, p, o)
  PROVE  operations' \in Seq(Operation) /\ ops_event' \in BOOLEAN
BY OpsOfType, ConcatProperties DEF QueueOps, FileType

LEMMA WriteIntoType ==
  ASSUME PiecesType, ListType, NEW o \in Objs, NEW d \in Content, NEW p \in Pieces,
         NEW b \in Blocks, NEW v \in {"good", "bad"}, WriteInto(o, d, p, b, v)
  PROVE  /\ data' \in [Objs -> Content] /\ state' \in [Objs -> PieceStates]
         /\ piece_list' \in Seq(Pieces \X Objs) /\ list_event' \in BOOLEAN
<1>1. data' \in [Objs -> Content]
  <2>1. [d EXCEPT ![b] = v] \in Content
    BY DEF Content, Values
  <2> QED BY <2>1 DEF WriteInto, PiecesType
<1>2. \/ /\ state' = [state EXCEPT ![o] = "CHECKING_SHA1"] /\ AddPiece(p, o)
      \/ /\ state' = [state EXCEPT ![o] = "NOT_CHECKED"]
         /\ UNCHANGED <<piece_list, list_event>>
  BY DEF WriteInto
<1>3. state' \in [Objs -> PieceStates]
  BY <1>2 DEF PiecesType, PieceStates
<1>4. CASE AddPiece(p, o)
  <2>1. <<p, o>> \in Pieces \X Objs
    OBVIOUS
  <2> QED BY <1>1, <1>3, <1>4, <2>1, AppendProperties DEF AddPiece, ListType
<1>5. CASE UNCHANGED <<piece_list, list_event>>
  BY <1>1, <1>3, <1>5 DEF ListType
<1> QED BY <1>2, <1>4, <1>5

LEMMA ZerosType == Zeros \in Content
BY DEF Zeros, Content, Values

\* What a step leaves alone keeps its type.
LEMMA Unchanged ==
  /\ PiecesType /\ UNCHANGED pieceVars => PiecesType'
  /\ ReadsType /\ UNCHANGED readVars => ReadsType'
  /\ InfoType /\ UNCHANGED infoVars => InfoType'
  /\ FileType /\ UNCHANGED fileVars => FileType'
  /\ IoType /\ UNCHANGED ioVars => IoType'
  /\ ListType /\ UNCHANGED listVars => ListType'
  /\ ShaType /\ UNCHANGED shaVars => ShaType'
  /\ MainType /\ UNCHANGED <<phase, sha_list, exiting>> => MainType'
<1>1. PiecesType /\ UNCHANGED pieceVars => PiecesType'
  BY DEF PiecesType, pieceVars
<1>2. ReadsType /\ UNCHANGED readVars => ReadsType'
  BY DEF ReadsType, readVars
<1>3. InfoType /\ UNCHANGED infoVars => InfoType'
  BY DEF InfoType, infoVars
<1>4. FileType /\ UNCHANGED fileVars => FileType'
  BY DEF FileType, fileVars
<1>5. IoType /\ UNCHANGED ioVars => IoType'
  BY DEF IoType, ioVars
<1>6. ListType /\ UNCHANGED listVars => ListType'
  BY DEF ListType, listVars
<1>7. ShaType /\ UNCHANGED shaVars => ShaType'
  BY DEF ShaType, shaVars
<1>8. MainType /\ UNCHANGED <<phase, sha_list, exiting>> => MainType'
  BY DEF MainType
<1> QED BY <1>1, <1>2, <1>3, <1>4, <1>5, <1>6, <1>7, <1>8

-----------------------------------------------------------------------------
(* Type correctness, thread by thread. *)

LEMMA InitTypeOK == Init => TypeOK
<1> SUFFICES ASSUME Init PROVE TypeOK
  OBVIOUS
<1>1. /\ \A S : <<>> \in Seq(S)
      /\ Len(<<>>) = 0
  BY EmptySeq
<1>2. PiecesType /\ ReadsType /\ InfoType
  BY ZerosType DEF Init, PiecesType, ReadsType, InfoType, PieceStates
<1>3. FileType /\ ListType /\ ShaType
  BY <1>1 DEF Init, FileType, ListType, ShaType
<1>4. IoType /\ MainType
  BY <1>1, ZerosType DEF Init, IoType, MainType, MainPhases
<1> QED BY <1>2, <1>3, <1>4 DEF TypeOK

LEMMA PeersTypeOK == TypeOK /\ Peers => TypeOK'
<1> SUFFICES ASSUME TypeOK, Peers PROVE TypeOK'
  OBVIOUS
<1>0. PiecesType /\ ReadsType /\ InfoType /\ FileType /\ IoType /\ ListType
        /\ ShaType /\ MainType
  BY DEF TypeOK
<1>1. ASSUME NEW p \in Pieces, MarkDownloading(p) PROVE TypeOK'
  <2>1. InfoType'
    BY <1>0, <1>1 DEF MarkDownloading, InfoType
  <2>2. UNCHANGED <<phase, pieceVars, readVars, sha_list, fileVars, ioVars,
                    listVars, shaVars, exiting>>
    BY <1>1 DEF MarkDownloading
  <2> QED BY <1>0, <2>1, <2>2, Unchanged DEF TypeOK
<1>2. ASSUME NEW p \in Pieces, NEW b \in Blocks, NEW v \in {"good", "bad"}, Write(p, b, v)
      PROVE  TypeOK'
  <2>1. /\ cache_piece' \in [Pieces -> Objs \cup {NoObj}]
        /\ data' \in [Objs -> Content] /\ state' \in [Objs -> PieceStates]
        /\ piece_list' \in Seq(Pieces \X Objs) /\ list_event' \in BOOLEAN
    <3>1. CASE cache_piece[p] # NoObj
      <4>1. /\ cache_piece[p] \in Objs /\ data[cache_piece[p]] \in Content
            /\ cache_piece' \in [Pieces -> Objs \cup {NoObj}]
        BY <1>0, <1>2, <3>1 DEF Write, PiecesType
      <4>2. WriteInto(cache_piece[p], data[cache_piece[p]], p, b, v)
        BY <1>2, <3>1 DEF Write
      <4> QED BY <1>0, <4>1, <4>2, WriteIntoType
    <3>2. CASE cache_piece[p] = NoObj
      <4>1. PICK new \in FetchNewPiece :
              /\ cache_piece' = [new[2] EXCEPT ![p] = new[1]]
              /\ WriteInto(new[1], Zeros, p, b, v)
        BY <1>2, <3>2 DEF Write
      <4>2. new[1] \in Objs /\ new[2] \in [Pieces -> Objs \cup {NoObj}]
        BY <1>0, FetchNewPieceType
      <4>3. cache_piece' \in [Pieces -> Objs \cup {NoObj}]
        BY <4>1, <4>2
      <4> QED BY <1>0, <4>1, <4>2, <4>3, WriteIntoType, ZerosType
    <3> QED BY <3>1, <3>2
  <2>2. UNCHANGED <<phase, readVars, sha_list, infoVars, fileVars, ioVars,
                    piece_sha1_list, shaVars, exiting>>
    BY <1>2 DEF Write
  <2>3. PiecesType' /\ ListType'
    BY <1>0, <2>1, <2>2 DEF PiecesType, ListType
  <2> QED BY <1>0, <2>2, <2>3, Unchanged DEF TypeOK
<1>3. ASSUME NEW p \in Pieces, NEW r \in Readers, NEW b \in Ranges \cup {Beyond},
             ReadNow(r, p, b)
      PROVE  TypeOK'
  <2>1. ReadsType'
    <3>1. Outcome(cache_piece[p], b) \in {"verified", "garbage", "outside"}
      BY DEF Outcome
    <3> QED BY <1>0, <1>3, <3>1 DEF ReadNow, ReadsType
  <2>2. UNCHANGED <<phase, pieceVars, sha_list, infoVars, fileVars,
                    ioVars, listVars, shaVars, exiting>>
    BY <1>3 DEF ReadNow
  <2> QED BY <1>0, <2>1, <2>2, Unchanged DEF TypeOK
<1>4. ASSUME NEW p \in Pieces, NEW r \in Readers, NEW b \in Ranges \cup {Beyond},
             AsyncReadBlock(r, p, b)
      PROVE  TypeOK'
  <2>1. b \in Ranges
    BY <1>4 DEF AsyncReadBlock, Readable
  <2>2. ReadsType'
    BY <1>0, <1>4, <2>1 DEF AsyncReadBlock, ReadsType
  <2>3. UNCHANGED <<phase, sha_list, infoVars, read_res, write_res, ioVars,
                    listVars, shaVars, exiting>>
    BY <1>4 DEF AsyncReadBlock
  <2>4. PiecesType' /\ FileType'
    <3>1. CASE FirstReader(p)
      <4>1. PICK new \in FetchNewPiece :
              /\ cache_piece' = new[2]
              /\ state' = [state EXCEPT ![new[1]] = "NOT_CHECKED"]
              /\ data' = [data EXCEPT ![new[1]] = Zeros]
              /\ QueueOps("READ", p, new[1])
        BY <1>4, <3>1 DEF AsyncReadBlock
      <4>2. new[1] \in Objs /\ new[2] \in [Pieces -> Objs \cup {NoObj}]
        BY <1>0, FetchNewPieceType
      <4>3. PiecesType'
        BY <1>0, <4>1, <4>2, ZerosType DEF PiecesType, PieceStates
      <4>4. FileType'
        BY <1>0, <2>3, <4>1, <4>2, QueueOpsType DEF FileType
      <4> QED BY <4>3, <4>4
    <3>2. CASE ~FirstReader(p)
      BY <1>0, <1>4, <2>3, <3>2 DEF AsyncReadBlock, PiecesType, FileType, pieceVars
    <3> QED BY <3>1, <3>2
  <2> QED BY <1>0, <2>2, <2>3, <2>4, Unchanged DEF TypeOK
<1> QED BY <1>1, <1>2, <1>3, <1>4 DEF Peers

LEMMA CacheTypeOK == TypeOK /\ Cache => TypeOK'
<1> SUFFICES ASSUME TypeOK, Cache PROVE TypeOK'
  OBVIOUS
<1>0. PiecesType /\ ReadsType /\ InfoType /\ FileType /\ IoType /\ ListType
        /\ ShaType /\ MainType
  BY DEF TypeOK
<1>1. ASSUME ProcessCache PROVE TypeOK'
  <2>1. MainType'
    BY <1>0, <1>1 DEF ProcessCache, MainType, MainPhases
  <2>2. UNCHANGED <<pieceVars, readVars, infoVars, fileVars, ioVars, listVars, shaVars>>
    BY <1>1 DEF ProcessCache
  <2> QED BY <1>0, <2>1, <2>2, Unchanged DEF TypeOK
<1>2. ASSUME ProcessAsyncReadOps PROVE TypeOK'
  <2> DEFINE read == {p \in Pieces : read_res[p] # NoObj}
             inserted == {p \in read : cache_piece[p] = NoObj}
  <2>1. MainType'
    BY <1>0, <1>2 DEF ProcessAsyncReadOps, MainType, MainPhases
  <2>2. PiecesType'
    <3>1. state' = [o \in Objs |-> IF \E p \in read : read_res[p] = o THEN "WRITED"
                                                                    ELSE state[o]]
      BY <1>2 DEF ProcessAsyncReadOps
    <3>2. cache_piece' = [p \in Pieces |-> IF p \in inserted THEN read_res[p]
                                                            ELSE cache_piece[p]]
      BY <1>2 DEF ProcessAsyncReadOps
    <3>3. data' = data
      BY <1>2 DEF ProcessAsyncReadOps
    <3> HIDE DEF read, inserted
    <3>4. state' \in [Objs -> PieceStates]
      BY <1>0, <3>1 DEF PiecesType, PieceStates
    <3>5. cache_piece' \in [Pieces -> Objs \cup {NoObj}]
      BY <1>0, <3>2 DEF PiecesType, FileType
    <3> QED BY <1>0, <3>3, <3>4, <3>5 DEF PiecesType
  <2>3. ReadsType'
    <3>1. async_read_ops' \in [Pieces -> SUBSET (Readers \X Ranges)]
      BY <1>0, <1>2 DEF ProcessAsyncReadOps, ReadsType
    <3>2. \A o, b : Outcome(o, b) \in {"verified", "garbage", "outside"}
      BY DEF Outcome
    <3>3. PICK f : answer' = [r \in Readers |->
             IF \E w \in Waiting(read) : w[2][1] = r
               THEN Outcome(f[r][1], f[r][2]) ELSE answer[r]]
      <4> DEFINE w(r) == CHOOSE w \in Waiting(read) : w[2][1] = r
                 g == [r \in Readers |-> <<read_res[w(r)[1]], w(r)[2][2]>>]
      <4>1. answer' = [r \in Readers |->
              IF \E x \in Waiting(read) : x[2][1] = r
                THEN Outcome(read_res[w(r)[1]], w(r)[2][2]) ELSE answer[r]]
        BY <1>2 DEF ProcessAsyncReadOps
      <4>2. \A r \in Readers : g[r][1] = read_res[w(r)[1]] /\ g[r][2] = w(r)[2][2]
        OBVIOUS
      <4> HIDE DEF w, g, read
      <4>3. answer' = [r \in Readers |->
              IF \E x \in Waiting(read) : x[2][1] = r
                THEN Outcome(g[r][1], g[r][2]) ELSE answer[r]]
        BY <4>1, <4>2
      <4> QED BY <4>3
    <3> HIDE DEF read, inserted
    <3>4. answer' \in [Readers -> {"none", "waiting", "refused", "verified", "garbage", "outside"}]
      BY <1>0, <3>2, <3>3 DEF ReadsType
    <3> QED BY <3>1, <3>4 DEF ReadsType
  <2>4. FileType'
    BY <1>0, <1>2 DEF ProcessAsyncReadOps, FileType
  <2>5. UNCHANGED <<infoVars, ioVars, listVars, shaVars>>
    BY <1>2 DEF ProcessAsyncReadOps
  <2> QED BY <1>0, <2>1, <2>2, <2>3, <2>4, <2>5, Unchanged DEF TypeOK
<1>3. ASSUME ProcessAsyncCheckPiece PROVE TypeOK'
  <2>1. MainType'
    BY <1>0, <1>3 DEF ProcessAsyncCheckPiece, MainType, MainPhases, ListType
  <2>2. ListType'
    BY <1>0, <1>3, EmptySeq DEF ProcessAsyncCheckPiece, ListType
  <2>3. UNCHANGED <<pieceVars, readVars, infoVars, fileVars, ioVars, shaVars>>
    BY <1>3 DEF ProcessAsyncCheckPiece
  <2> QED BY <1>0, <2>1, <2>2, <2>3, Unchanged DEF TypeOK
<1>4. ASSUME CompleteAsyncCheckPiece PROVE TypeOK'
  <2> DEFINE p == sha_list[1][1]
             match == sha_list[1][2]
             o == cache_piece[p]
  <2>1. /\ sha_list \in Seq(Pieces \X BOOLEAN) /\ sha_list # <<>>
        /\ Len(sha_list) \in Nat /\ Len(sha_list) # 0
        /\ Tail(sha_list) \in Seq(Pieces \X BOOLEAN)
        /\ Len(Tail(sha_list)) = Len(sha_list) - 1
        /\ p \in Pieces /\ o \in Objs \cup {NoObj}
    <3>1. sha_list \in Seq(Pieces \X BOOLEAN) /\ sha_list # <<>>
      BY <1>0, <1>4 DEF CompleteAsyncCheckPiece, MainType
    <3>2. Len(sha_list) \in Nat /\ Len(sha_list) # 0
      BY <3>1, LenProperties, EmptySeq
    <3>3. sha_list[1] \in Pieces \X BOOLEAN
      BY <3>1, <3>2, ElementOfSeq
    <3> QED BY <1>0, <3>1, <3>2, <3>3, HeadTailProperties DEF PiecesType
  <2>2. MainType'
    <3>1. /\ sha_list' = Tail(sha_list) /\ exiting' = exiting
          /\ phase' = IF Len(sha_list) = 1 THEN "write" ELSE "checking"
      BY <1>4 DEF CompleteAsyncCheckPiece
    <3>2. Tail(sha_list) = <<>> <=> Len(sha_list) = 1
      <4>1. Tail(sha_list) = <<>> <=> Len(Tail(sha_list)) = 0
        BY <2>1, EmptySeq
      <4>2. Len(Tail(sha_list)) = Len(sha_list) - 1 /\ Len(sha_list) \in Nat
        BY <2>1, LenProperties, HeadTailProperties
      <4> DEFINE n == Len(sha_list)
      <4>3. Len(Tail(sha_list)) = n - 1 /\ n \in Nat
        BY <4>2
      <4>4. Tail(sha_list) = <<>> <=> n = 1
        <5> HIDE DEF n
        <5> QED BY <4>1, <4>3
      <4> QED BY <4>4
    <3> QED BY <1>0, <2>1, <3>1, <3>2 DEF MainType, MainPhases
  <2>3. UNCHANGED <<cache_piece, readVars, downloaded, completed, read_res,
                    write_res, ioVars, listVars, shaVars>>
    BY <1>4 DEF CompleteAsyncCheckPiece
  <2>4. PiecesType' /\ InfoType' /\ FileType'
    <3>1. CASE UNCHANGED <<state, data, downloading, operations, ops_event>>
      BY <1>0, <2>3, <3>1 DEF PiecesType, InfoType, FileType
    <3>2. CASE /\ o # NoObj /\ state' = [state EXCEPT ![o] = "CHECK_SHA1_OK"]
               /\ QueueOps("WRITE", p, o) /\ UNCHANGED <<data, downloading>>
      <4>1. FileType'
        <5> HIDE DEF o, p
        <5> QED BY <1>0, <2>1, <2>3, <3>2, QueueOpsType DEF FileType
      <4>2. PiecesType' /\ InfoType'
        <5> HIDE DEF o, p
        <5> QED BY <1>0, <2>3, <3>2 DEF PiecesType, InfoType, PieceStates
      <4> QED BY <4>1, <4>2
    <3>3. CASE /\ o # NoObj /\ state' = [state EXCEPT ![o] = "NOT_CHECKED"]
               /\ data' = [data EXCEPT ![o] = Zeros]
               /\ downloading' = downloading \ {p}
               /\ UNCHANGED <<operations, ops_event>>
      <4> HIDE DEF o, p
      <4> QED BY <1>0, <2>3, <3>3, ZerosType
              DEF PiecesType, InfoType, FileType, PieceStates
    <3> QED BY <1>4, <3>1, <3>2, <3>3 DEF CompleteAsyncCheckPiece
  <2> QED BY <1>0, <2>2, <2>3, <2>4, Unchanged DEF TypeOK
<1>5. ASSUME ProcessAsyncWritePiece PROVE TypeOK'
  <2>1. MainType'
    BY <1>0, <1>5 DEF ProcessAsyncWritePiece, MainType, MainPhases
  <2>2. PiecesType'
    BY <1>0, <1>5 DEF ProcessAsyncWritePiece, PiecesType, PieceStates
  <2>3. InfoType'
    BY <1>0, <1>5 DEF ProcessAsyncWritePiece, InfoType, FileType
  <2>4. FileType'
    BY <1>0, <1>5 DEF ProcessAsyncWritePiece, FileType
  <2>5. UNCHANGED <<readVars, ioVars, listVars, shaVars>>
    BY <1>5 DEF ProcessAsyncWritePiece
  <2> QED BY <1>0, <2>1, <2>2, <2>3, <2>4, <2>5, Unchanged DEF TypeOK
<1>6. ASSUME FreeCachePiece PROVE TypeOK'
  <2>1. MainType'
    BY <1>0, <1>6 DEF FreeCachePiece, MainType, MainPhases
  <2>2. PiecesType'
    BY <1>0, <1>6, ZerosType DEF FreeCachePiece, PiecesType, PieceStates
  <2>3. UNCHANGED <<readVars, infoVars, fileVars, ioVars, listVars, shaVars>>
    BY <1>6 DEF FreeCachePiece
  <2> QED BY <1>0, <2>1, <2>2, <2>3, Unchanged DEF TypeOK
<1> QED BY <1>1, <1>2, <1>3, <1>4, <1>5, <1>6 DEF Cache

LEMMA IoTypeOK == TypeOK /\ Io => TypeOK'
<1> SUFFICES ASSUME TypeOK, Io PROVE TypeOK'
  OBVIOUS
<1>0. PiecesType /\ ReadsType /\ InfoType /\ FileType /\ IoType /\ ListType
        /\ ShaType /\ MainType
  BY DEF TypeOK
<1>1. ASSUME IoWake PROVE TypeOK'
  <2>1. FileType' /\ IoType'
    BY <1>0, <1>1 DEF IoWake, FileType, IoType
  <2>2. UNCHANGED <<phase, sha_list, exiting, pieceVars, readVars, infoVars, listVars,
                    shaVars>>
    BY <1>1 DEF IoWake
  <2> QED BY <1>0, <2>1, <2>2, Unchanged DEF TypeOK
<1>2. ASSUME IoSwap PROVE TypeOK'
  <2>1. FileType'
    BY <1>0, <1>2, EmptySeq DEF IoSwap, FileType
  <2>2. IoType'
    BY <1>0, <1>2, LenProperties DEF IoSwap, IoType, FileType
  <2>3. UNCHANGED <<phase, sha_list, exiting, pieceVars, readVars, infoVars, listVars,
                    shaVars>>
    BY <1>2 DEF IoSwap
  <2> QED BY <1>0, <2>1, <2>2, <2>3, Unchanged DEF TypeOK
<1>3. ASSUME CompleteOperation PROVE TypeOK'
  <2> DEFINE x == io_batch[io_pos]
  <2>1. /\ Len(io_batch) \in Nat /\ io_pos \in 1 .. Len(io_batch)
        /\ io_pos' = io_pos + 1 /\ io_batch' = io_batch /\ io_pc' = io_pc
        /\ io_pc = "run"
    BY <1>0, <1>3, LenProperties DEF CompleteOperation, IoType
  <2>2. x \in Operation
    BY <1>0, <2>1, ElementOfSeq DEF IoType
  <2>3. x.piece \in Pieces /\ x.obj \in Objs
    BY <2>2 DEF Operation
  <2>4. data' \in [Objs -> Content] /\ disk' \in [Pieces -> Content]
    <3>1. data \in [Objs -> Content] /\ disk \in [Pieces -> Content]
      BY <1>0 DEF PiecesType, IoType
    <3>2. CASE UNCHANGED <<data, disk>>
      BY <3>1, <3>2
    <3>3. CASE /\ data' = [data EXCEPT ![x.obj] =
                     [b \in Blocks |-> IF b \in x.blocks THEN disk[x.piece][b]
                                                         ELSE data[x.obj][b]]]
               /\ UNCHANGED disk
      <4>1. [b \in Blocks |-> IF b \in x.blocks THEN disk[x.piece][b]
                                                ELSE data[x.obj][b]] \in Content
        BY <2>3, <3>1 DEF Content
      <4> QED BY <3>1, <3>3, <4>1
    <3>4. CASE /\ disk' = [disk EXCEPT ![x.piece] =
                     [b \in Blocks |-> IF b \in x.blocks THEN data[x.obj][b]
                                                         ELSE disk[x.piece][b]]]
               /\ UNCHANGED data
      <4>1. [b \in Blocks |-> IF b \in x.blocks THEN data[x.obj][b]
                                                ELSE disk[x.piece][b]] \in Content
        BY <2>3, <3>1 DEF Content
      <4> QED BY <3>1, <3>4, <4>1
    <3> QED BY <1>3, <3>2, <3>3, <3>4 DEF CompleteOperation
  <2>5. UNCHANGED <<cache_piece, state>>
    BY <1>3 DEF CompleteOperation
  <2>6. PiecesType' /\ IoType'
    BY <1>0, <2>1, <2>4, <2>5 DEF PiecesType, IoType
  <2>7. UNCHANGED <<phase, sha_list, exiting, readVars, infoVars, fileVars, listVars,
                    shaVars>>
    BY <1>3 DEF CompleteOperation
  <2> QED BY <1>0, <2>6, <2>7, Unchanged DEF TypeOK
<1>4. ASSUME CollectResult PROVE TypeOK'
  <2> DEFINE ReadsOf(p) == {i \in DOMAIN io_batch :
                       io_batch[i].op = "READ" /\ io_batch[i].piece = p}
             WritesOf(p) == {i \in DOMAIN io_batch :
                       io_batch[i].op = "WRITE" /\ io_batch[i].piece = p}
  <2>1. Len(io_batch) \in Nat /\ DOMAIN io_batch = 1 .. Len(io_batch)
        /\ \A i \in DOMAIN io_batch : io_batch[i].obj \in Objs
    <3>1. io_batch \in Seq(Operation)
      BY <1>0 DEF IoType
    <3>2. Len(io_batch) \in Nat /\ DOMAIN io_batch = 1 .. Len(io_batch)
      BY <3>1, LenProperties
    <3>3. \A i \in DOMAIN io_batch : io_batch[i] \in Operation
      BY <3>1, <3>2, ElementOfSeq
    <3>4. \A x \in Operation : x.obj \in Objs
      BY DEF Operation
    <3> QED BY <3>2, <3>3, <3>4
  <2>2. \A p : Cardinality(WritesOf(p)) \in Nat
    <3>1. \A p : WritesOf(p) \in SUBSET (1 .. Len(io_batch))
      BY <2>1
    <3>2. IsFiniteSet(1 .. Len(io_batch))
      BY <2>1, FS_Interval
    <3> HIDE DEF WritesOf
    <3> QED BY <3>1, <3>2, FS_Subset, FS_CardinalityType
  <2>3. read_res' \in [Pieces -> Objs \cup {NoObj}]
    <3>1. read_res' = [p \in Pieces |->
            IF read_res[p] = NoObj /\ ReadsOf(p) # {}
              THEN io_batch[CHOOSE i \in ReadsOf(p) : TRUE].obj ELSE read_res[p]]
      BY <1>4 DEF CollectResult, Collected, BatchOf
    <3>2. \A p : ReadsOf(p) # {} => (CHOOSE i \in ReadsOf(p) : TRUE) \in DOMAIN io_batch
      OBVIOUS
    <3> HIDE DEF ReadsOf
    <3> QED BY <1>0, <2>1, <3>1, <3>2 DEF FileType
  <2>4. write_res' \in [Pieces -> Nat]
    <3>1. write_res' = [p \in Pieces |-> write_res[p] + Cardinality(WritesOf(p))]
      BY <1>4 DEF CollectResult, Collected, BatchOf
    <3> HIDE DEF WritesOf
    <3> QED BY <1>0, <2>2, <3>1 DEF FileType
  <2>5. FileType'
    BY <1>0, <1>4, <2>3, <2>4 DEF CollectResult, FileType
  <2>6. IoType'
    BY <1>0, <1>4, EmptySeq DEF CollectResult, IoType
  <2>7. UNCHANGED <<phase, sha_list, exiting, pieceVars, readVars, infoVars, listVars,
                    shaVars>>
    BY <1>4 DEF CollectResult
  <2> QED BY <1>0, <2>5, <2>6, <2>7, Unchanged DEF TypeOK
<1> QED BY <1>1, <1>2, <1>3, <1>4 DEF Io

LEMMA ShaTypeOK == TypeOK /\ Sha => TypeOK'
<1> SUFFICES ASSUME TypeOK, Sha PROVE TypeOK'
  OBVIOUS
<1>0. PiecesType /\ ReadsType /\ InfoType /\ FileType /\ IoType /\ ListType
        /\ ShaType /\ MainType
  BY DEF TypeOK
<1>1. UNCHANGED <<phase, sha_list, exiting, pieceVars, readVars, infoVars, fileVars, ioVars>>
  BY DEF Sha, ShaWake, ShaSwap, CalculateSha1, ShaPublish
<1>2. ListType' /\ ShaType'
  <2>1. CASE ShaWake
    BY <1>0, <2>1 DEF ShaWake, ListType, ShaType
  <2>2. CASE ShaSwap
    BY <1>0, <2>2, EmptySeq DEF ShaSwap, ListType, ShaType
  <2>3. CASE CalculateSha1
    <3>1. sha_batch[1] \in Pieces \X Objs /\ Tail(sha_batch) \in Seq(Pieces \X Objs)
      BY <1>0, <2>3, HeadTailProperties DEF CalculateSha1, ShaType
    <3>2. HashMatches(sha_batch[1][2]) \in BOOLEAN
      BY DEF HashMatches, Verified
    <3>3. <<sha_batch[1][1], HashMatches(sha_batch[1][2])>> \in Pieces \X BOOLEAN
      BY <3>1, <3>2
    <3>4. sha_out' \in Seq(Pieces \X BOOLEAN)
      BY <1>0, <2>3, <3>3, AppendProperties DEF CalculateSha1, ShaType
    <3> QED BY <1>0, <2>3, <3>1, <3>4 DEF CalculateSha1, ListType, ShaType, listVars
  <2>4. CASE ShaPublish
    BY <1>0, <2>4, EmptySeq, ConcatProperties DEF ShaPublish, ListType, ShaType
  <2> QED BY <2>1, <2>2, <2>3, <2>4 DEF Sha
<1> QED BY <1>0, <1>1, <1>2, Unchanged DEF TypeOK

LEMMA DestroyTypeOK == TypeOK /\ (Destroy \/ Gone \/ UNCHANGED vars) => TypeOK'
<1> SUFFICES ASSUME TypeOK, Destroy \/ Gone \/ UNCHANGED vars PROVE TypeOK'
  OBVIOUS
<1>0. PiecesType /\ ReadsType /\ InfoType /\ FileType /\ IoType /\ ListType
        /\ ShaType /\ MainType
  BY DEF TypeOK
<1>1. UNCHANGED <<pieceVars, readVars, infoVars, ioVars, shaVars>>
  BY DEF Destroy, StopSha1Calc, StopFileService, Join, Gone, vars, pieceVars,
         readVars, infoVars, ioVars, shaVars
<1>2. FileType' /\ ListType'
  BY <1>0 DEF Destroy, StopSha1Calc, StopFileService, Join, Gone, vars, fileVars,
              listVars, FileType, ListType
<1>3. MainType'
  BY <1>0 DEF Destroy, StopSha1Calc, StopFileService, Join, Gone, vars, MainType,
              MainPhases
<1> QED BY <1>0, <1>1, <1>2, <1>3, Unchanged DEF TypeOK

LEMMA StepTypeOK == TypeOK /\ [Next]_vars => TypeOK'
BY PeersTypeOK, CacheTypeOK, IoTypeOK, ShaTypeOK, DestroyTypeOK DEF Next

\* In every reachable state each variable has its type, the file thread's
\* position is within its batch, and results are handled only while there are
\* some: no thread ever indexes a list it has run past (BitFile.cpp:291-320).
THEOREM TypeCorrect == Spec => []TypeOK
BY InitTypeOK, StepTypeOK, PTL DEF Spec

-----------------------------------------------------------------------------
(* Where every BitPiece is. *)

\* A queue of the file service holds an operation on piece p and instance o.
Has(s, kind, p, o) ==
  \E x \in Range(s) : x.op = kind /\ x.piece = p /\ x.obj = o

\* No two indexes share an instance.
CacheApart ==
  \A p, q \in Pieces : p # q /\ cache_piece[p] # NoObj => cache_piece[p] # cache_piece[q]

\* An instance that is being read belongs to one piece, is in one stage of the
\* read, and is not in the cache.
ReadsApart ==
  \A p, q \in Pieces, o \in Objs :
    /\ (Has(operations, "READ", p, o) \/ Has(io_batch, "READ", p, o) \/ read_res[p] = o)
          => cache_piece[q] # o
    /\ Has(operations, "READ", p, o) => ~Has(io_batch, "READ", q, o) /\ read_res[q] # o
    /\ Has(io_batch, "READ", p, o) => read_res[q] # o
    /\ p # q => /\ ~(Has(operations, "READ", p, o) /\ Has(operations, "READ", q, o))
                /\ ~(Has(io_batch, "READ", p, o) /\ Has(io_batch, "READ", q, o))
                /\ ~(read_res[p] = o /\ read_res[q] = o)

\* A piece that is being written is cached, verified and CHECK_SHA1_OK, and in
\* one stage of the write.
WritesTracked ==
  /\ \A p \in Pieces, o \in Objs :
       /\ (Has(operations, "WRITE", p, o) \/ Has(io_batch, "WRITE", p, o))
             => /\ cache_piece[p] = o /\ state[o] = "CHECK_SHA1_OK" /\ Verified(o)
                /\ ~(write_res[p] > 0)
       /\ ~(Has(operations, "WRITE", p, o) /\ Has(io_batch, "WRITE", p, o))
  /\ \A p \in Pieces : write_res[p] > 0 =>
       cache_piece[p] # NoObj /\ state[cache_piece[p]] = "CHECK_SHA1_OK"

\* The pieces a stage of the hash pipeline is about, each once.
Of(s) == {x[1] : x \in Range(s)}
Once(s) == \A i, j \in DOMAIN s : s[i][1] = s[j][1] => i = j

\* No piece is in two stages of the hash pipeline.
StagesApart(a, b, c, d, e) ==
  /\ a \cap b = {} /\ a \cap c = {} /\ a \cap d = {} /\ a \cap e = {}
  /\ b \cap c = {} /\ b \cap d = {} /\ b \cap e = {}
  /\ c \cap d = {} /\ c \cap e = {} /\ d \cap e = {}

\* A piece waiting for its hash is the cached one, and CHECKING_SHA1.
Hashed(s, cache, st) == \A x \in Range(s) :
  cache[x[1]] = x[2] /\ st[x[2]] = "CHECKING_SHA1"

\* So is one whose result is on its way; and the result is true of its bytes.
Resulted(s, cache, st, bytes) == \A x \in Range(s) :
  LET o == cache[x[1]] IN
  /\ o # NoObj /\ st[o] = "CHECKING_SHA1"
  /\ x[2] => \A b \in Blocks : bytes[o][b] = "good"

HashTracked ==
  /\ sha_pc # "run" => sha_batch = <<>>
  /\ Hashed(piece_list, cache_piece, state)
  /\ Hashed(sha_batch, cache_piece, state)
  /\ Resulted(sha_out, cache_piece, state, data)
  /\ Resulted(piece_sha1_list, cache_piece, state, data)
  /\ Resulted(sha_list, cache_piece, state, data)
  /\ Once(piece_list) /\ Once(sha_batch) /\ Once(sha_out) /\ Once(piece_sha1_list)
  /\ Once(sha_list)
  /\ StagesApart(Of(piece_list), Of(sha_batch), Of(sha_out), Of(piece_sha1_list),
                 Of(sha_list))

\* The cached piece of p is in a pipeline: nobody may touch it.
Pinned(p) ==
  cache_piece[p] # NoObj /\ state[cache_piece[p]] \in {"CHECKING_SHA1", "CHECK_SHA1_OK"}

\* A step leaves the pieces that are in a pipeline as they are.
KeepsPinned ==
  \A p \in Pieces : Pinned(p) =>
    /\ cache_piece'[p] = cache_piece[p]
    /\ state'[cache_piece[p]] = state[cache_piece[p]]
    /\ data'[cache_piece[p]] = data[cache_piece[p]]

\* Where every instance is.
Placed == TypeOK /\ CacheApart /\ ReadsApart /\ WritesTracked /\ HashTracked

\* The operations of a piece in a queue cover it.
Whole(s) ==
  \A p \in Pieces, o \in Objs : Has(s, "WRITE", p, o) =>
    \A b \in Blocks : \E x \in Range(s) :
      x.op = "WRITE" /\ x.piece = p /\ b \in x.blocks

\* What was written is good, and what is announced was written.
DiskGood ==
  /\ Whole(operations) /\ Whole(io_batch)
  /\ \A i \in DOMAIN io_batch : i < io_pos /\ io_batch[i].op = "WRITE" =>
       \A b \in io_batch[i].blocks : disk[io_batch[i].piece][b] = "good"
  /\ \A p \in Pieces : write_res[p] > 0 \/ p \in downloaded => OnDisk(p)

-----------------------------------------------------------------------------
(* Sequences as the sets of their elements. *)

\* The empty sequence holds nothing.
LEMMA RangeEmpty == Range(<<>>) = {}
BY DEF Range

\* Appending adds one element.
LEMMA RangeAppend ==
  ASSUME NEW S, NEW s \in Seq(S), NEW x \in S
  PROVE  Range(Append(s, x)) = Range(s) \cup {x}
<1> DEFINE n == Len(s)
           t == Append(s, x)
<1>1. /\ n \in Nat /\ DOMAIN s = 1 .. n
      /\ DOMAIN t = 1 .. (n + 1)
      /\ \A i \in 1 .. n : t[i] = s[i]
      /\ t[n + 1] = x
  BY LenProperties, AppendProperties
<1> HIDE DEF n, t
<1>2. 1 .. (n + 1) = (1 .. n) \cup {n + 1}
  BY <1>1
<1>3. \A i \in 1 .. n : i \in DOMAIN t
  BY <1>1, <1>2
<1>4. Range(t) = {t[i] : i \in 1 .. n} \cup {t[n + 1]}
  BY <1>1, <1>2 DEF Range
<1>5. Range(s) = {s[i] : i \in 1 .. n}
  BY <1>1 DEF Range
<1> QED BY <1>1, <1>4, <1>5 DEF t

\* A sequence holds its head and what its tail holds.
LEMMA RangeTail ==
  ASSUME NEW S, NEW s \in Seq(S), s # <<>>
  PROVE  Range(s) = {s[1]} \cup Range(Tail(s))
<1> DEFINE n == Len(s)
           t == Tail(s)
<1>1. n \in Nat \ {0} /\ DOMAIN s = 1 .. n
  BY LenProperties, EmptySeq
<1>2. Len(t) = n - 1 /\ t \in Seq(S) /\ \A i \in 1 .. Len(t) : t[i] = s[i + 1]
  BY HeadTailProperties
<1>3. DOMAIN t = 1 .. Len(t)
  BY <1>2, LenProperties
<1> HIDE DEF n, t
<1>4. DOMAIN t = 1 .. (n - 1) /\ \A i \in 1 .. (n - 1) : t[i] = s[i + 1]
  BY <1>2, <1>3
<1>5. ASSUME NEW y \in Range(s) PROVE y = s[1] \/ y \in Range(t)
  <2>1. PICK i \in 1 .. n : y = s[i]
    BY <1>1 DEF Range
  <2>2. CASE i # 1
    <3>1. i - 1 \in 1 .. (n - 1) /\ (i - 1) + 1 = i
      BY <1>1, <2>2
    <3>2. t[i - 1] = s[i]
      BY <1>4, <3>1
    <3> QED BY <1>4, <2>1, <3>1, <3>2 DEF Range
  <2> QED BY <2>1, <2>2
<1>6. s[1] \in Range(s)
  BY <1>1 DEF Range
<1>7. ASSUME NEW y \in Range(t) PROVE y \in Range(s)
  <2>1. PICK i \in 1 .. (n - 1) : y = t[i]
    BY <1>4 DEF Range
  <2>2. i + 1 \in 1 .. n
    BY <1>1
  <2> QED BY <1>1, <1>4, <2>1, <2>2 DEF Range
<1> QED BY <1>5, <1>6, <1>7 DEF t

\* Appending an entry about a new piece keeps each piece at most once.
LEMMA OnceAppend ==
  ASSUME NEW S, NEW s \in Seq(S), NEW x \in S, Once(s), x[1] \notin Of(s)
  PROVE  Once(Append(s, x)) /\ Of(Append(s, x)) = Of(s) \cup {x[1]}
<1> DEFINE n == Len(s)
           t == Append(s, x)
<1>1. /\ n \in Nat /\ DOMAIN s = 1 .. n
      /\ DOMAIN t = 1 .. (n + 1)
      /\ \A i \in 1 .. n : t[i] = s[i]
      /\ t[n + 1] = x
  BY LenProperties, AppendProperties
<1>2. Of(t) = Of(s) \cup {x[1]}
  BY RangeAppend DEF Of
<1> HIDE DEF n, t
<1>3. \A i \in 1 .. n : s[i][1] # x[1]
  BY <1>1 DEF Of, Range
<1>4. 1 .. (n + 1) = (1 .. n) \cup {n + 1}
  BY <1>1
<1>5. \A i, j \in 1 .. n : t[i][1] = t[j][1] => i = j
  BY <1>1 DEF Once
<1>6. \A i \in 1 .. n : t[i][1] # t[n + 1][1]
  BY <1>1, <1>3
<1>7. Once(t)
  BY <1>1, <1>4, <1>5, <1>6 DEF Once
<1> QED BY <1>2, <1>7 DEF t

\* Taking the head away takes its piece away.
LEMMA OnceTail ==
  ASSUME NEW S, NEW s \in Seq(S), s # <<>>, Once(s)
  PROVE  Once(Tail(s)) /\ Of(Tail(s)) = Of(s) \ {s[1][1]} /\ s[1][1] \in Of(s)
<1> DEFINE n == Len(s)
           t == Tail(s)
<1>1. n \in Nat \ {0} /\ DOMAIN s = 1 .. n
  BY LenProperties, EmptySeq
<1>2. Len(t) = n - 1 /\ t \in Seq(S) /\ \A i \in 1 .. Len(t) : t[i] = s[i + 1]
  BY HeadTailProperties
<1>3. DOMAIN t = 1 .. Len(t)
  BY <1>2, LenProperties
<1>4. Range(s) = {s[1]} \cup Range(t)
  BY RangeTail
<1> HIDE DEF n, t
<1>5. DOMAIN t = 1 .. (n - 1) /\ \A i \in 1 .. (n - 1) : t[i] = s[i + 1]
  BY <1>2, <1>3
<1>6. \A i \in 1 .. (n - 1) : i + 1 \in 1 .. n /\ i + 1 # 1
  BY <1>1
<1>7. Once(t)
  <2>1. ASSUME NEW i \in 1 .. (n - 1), NEW j \in 1 .. (n - 1), t[i][1] = t[j][1]
        PROVE  i = j
    <3>1. s[i + 1][1] = s[j + 1][1]
      BY <1>5, <2>1
    <3>2. i + 1 = j + 1
      BY <1>1, <1>6, <3>1 DEF Once
    <3> QED BY <3>2
  <2> QED BY <1>5, <2>1 DEF Once
<1>8. s[1][1] \notin Of(t)
  <2>1. ASSUME NEW i \in 1 .. (n - 1) PROVE t[i][1] # s[1][1]
    <3>1. 1 \in DOMAIN s /\ i + 1 \in DOMAIN s /\ i + 1 # 1
      BY <1>1, <1>6
    <3> QED BY <1>5, <3>1 DEF Once
  <2> QED BY <1>5, <2>1 DEF Of, Range
<1>9. Of(s) = {s[1][1]} \cup Of(t)
  BY <1>4 DEF Of
<1> QED BY <1>7, <1>8, <1>9 DEF t

\* Joining two stages about different pieces keeps each piece at most once.
LEMMA OnceConcat ==
  ASSUME NEW S, NEW s \in Seq(S), NEW t \in Seq(S), Once(s), Once(t),
         Of(s) \cap Of(t) = {}
  PROVE  Once(s \o t) /\ Of(s \o t) = Of(s) \cup Of(t)
<1> DEFINE m == Len(s)
           n == Len(t)
           u == s \o t
<1>1. /\ m \in Nat /\ DOMAIN s = 1 .. m /\ n \in Nat /\ DOMAIN t = 1 .. n
      /\ u \in Seq(S) /\ Len(u) = m + n
      /\ \A i \in 1 .. m + n : u[i] = IF i <= m THEN s[i] ELSE t[i - m]
  BY LenProperties, ConcatProperties
<1>2. DOMAIN u = 1 .. Len(u)
  BY <1>1, LenProperties
<1>3. Of(u) = Of(s) \cup Of(t)
  BY RangeConcatenation DEF Of
<1> HIDE DEF m, n, u
<1>4. DOMAIN u = 1 .. m + n
  BY <1>1, <1>2
<1>5. \A i \in 1 .. m, j \in 1 .. n : s[i][1] # t[j][1]
  <2>1. \A i \in 1 .. m : s[i][1] \in Of(s)
    BY <1>1 DEF Of, Range
  <2>2. \A j \in 1 .. n : t[j][1] \in Of(t)
    BY <1>1 DEF Of, Range
  <2> QED BY <2>1, <2>2
<1>6. \A i \in 1 .. m + n : \/ i \in 1 .. m /\ u[i] = s[i]
                            \/ i > m /\ i - m \in 1 .. n /\ u[i] = t[i - m]
  BY <1>1
<1>7. ASSUME NEW i \in 1 .. m + n, NEW j \in 1 .. m + n, u[i][1] = u[j][1] PROVE i = j
  <2>1. CASE i \in 1 .. m /\ u[i] = s[i] /\ j \in 1 .. m /\ u[j] = s[j]
    BY <1>1, <1>7, <2>1 DEF Once
  <2>2. CASE i \in 1 .. m /\ u[i] = s[i] /\ j - m \in 1 .. n /\ u[j] = t[j - m]
    BY <1>5, <1>7, <2>2
  <2>3. CASE j \in 1 .. m /\ u[j] = s[j] /\ i - m \in 1 .. n /\ u[i] = t[i - m]
    BY <1>5, <1>7, <2>3
  <2>4. CASE i - m \in 1 .. n /\ u[i] = t[i - m] /\ j - m \in 1 .. n /\ u[j] = t[j - m]
    <3>1. i - m = j - m
      BY <1>1, <1>7, <2>4 DEF Once
    <3> QED BY <1>1, <3>1
  <2> QED BY <1>6, <2>1, <2>2, <2>3, <2>4
<1>8. Once(u)
  BY <1>4, <1>7 DEF Once
<1> QED BY <1>3, <1>8 DEF u

\* Queueing the operations of a piece adds operations of that piece only.
LEMMA HasOps ==
  ASSUME NEW s \in Seq(Operation), NEW kind \in {"READ", "WRITE"}, NEW p \in Pieces,
         NEW o \in Objs, NEW k, NEW q, NEW u, Has(s \o OpsOf(kind, p, o), k, q, u)
  PROVE  Has(s, k, q, u) \/ (k = kind /\ q = p /\ u = o)
<1>1. Range(s \o OpsOf(kind, p, o)) = Range(s) \cup Range(OpsOf(kind, p, o))
  BY OpsOfType, RangeConcatenation
<1>2. \A x \in Range(OpsOf(kind, p, o)) : x.op = kind /\ x.piece = p /\ x.obj = o
  BY DEF OpsOf, Range
<1> QED BY <1>1, <1>2 DEF Has

\* An empty queue holds no operation.
LEMMA HasNone == \A k, p, o : ~Has(<<>>, k, p, o)
BY RangeEmpty DEF Has

-----------------------------------------------------------------------------
(* What keeps each part of the invariant. *)

\* No queue of the file service knows the instance o, and it is no pinned piece.
Free(o) ==
  /\ \A p \in Pieces : /\ \A k \in {"READ", "WRITE"} : ~Has(operations, k, p, o)
                                                      /\ ~Has(io_batch, k, p, o)
                      /\ read_res[p] # o
  /\ \A p \in Pieces : Pinned(p) => cache_piece[p] # o

\* What is in a stage of the hash pipeline is pinned.
LEMMA HashedArePinned ==
  ASSUME TypeOK, HashTracked,
         NEW p \in Of(piece_list) \cup Of(sha_batch) \cup Of(sha_out)
                     \cup Of(piece_sha1_list) \cup Of(sha_list)
  PROVE  p \in Pieces /\ cache_piece[p] \in Objs /\ state[cache_piece[p]] = "CHECKING_SHA1"
<1>1. /\ Range(piece_list) \subseteq Pieces \X Objs
      /\ Range(sha_batch) \subseteq Pieces \X Objs
      /\ Range(sha_out) \subseteq Pieces \X BOOLEAN
      /\ Range(piece_sha1_list) \subseteq Pieces \X BOOLEAN
      /\ Range(sha_list) \subseteq Pieces \X BOOLEAN
  BY RangeOfSeq DEF TypeOK, ListType, ShaType, MainType
<1>2. cache_piece \in [Pieces -> Objs \cup {NoObj}]
  BY DEF TypeOK, PiecesType
<1>3. CASE p \in Of(piece_list) \cup Of(sha_batch)
  <2>1. PICK x \in Range(piece_list) \cup Range(sha_batch) : x[1] = p
    BY <1>3 DEF Of
  <2>2. x \in Pieces \X Objs /\ cache_piece[x[1]] = x[2] /\ state[x[2]] = "CHECKING_SHA1"
    BY <1>1, <2>1 DEF HashTracked, Hashed
  <2> QED BY <2>1, <2>2
<1>4. CASE p \in Of(sha_out) \cup Of(piece_sha1_list) \cup Of(sha_list)
  <2>1. PICK x \in Range(sha_out) \cup Range(piece_sha1_list) \cup Range(sha_list) :
          x[1] = p
    BY <1>4 DEF Of
  <2>2. x \in Pieces \X BOOLEAN /\ cache_piece[x[1]] # NoObj
          /\ state[cache_piece[x[1]]] = "CHECKING_SHA1"
    BY <1>1, <2>1 DEF HashTracked, Resulted
  <2> QED BY <1>2, <2>1, <2>2
<1> QED BY <1>3, <1>4

\* The write pipeline, when a step adds no write and leaves pinned pieces alone.
LEMMA WritesKept ==
  ASSUME TypeOK, WritesTracked, KeepsPinned, write_res' = write_res,
         \A p \in Pieces, o \in Objs :
           /\ Has(operations, "WRITE", p, o)' => Has(operations, "WRITE", p, o)
           /\ Has(io_batch, "WRITE", p, o)' => Has(io_batch, "WRITE", p, o)
  PROVE  WritesTracked'
<1>1. ASSUME NEW p \in Pieces, NEW o \in Objs,
             Has(operations, "WRITE", p, o)' \/ Has(io_batch, "WRITE", p, o)'
      PROVE  cache_piece'[p] = o /\ state'[o] = "CHECK_SHA1_OK" /\ Verified(o)'
  <2>1. cache_piece[p] = o /\ state[o] = "CHECK_SHA1_OK" /\ Verified(o)
    BY <1>1 DEF WritesTracked
  <2>2. Pinned(p)
    BY <2>1, ConstantsAssumption DEF Pinned
  <2>3. cache_piece'[p] = o /\ state'[o] = "CHECK_SHA1_OK" /\ data'[o] = data[o]
    BY <2>1, <2>2 DEF KeepsPinned
  <2> QED BY <2>1, <2>3 DEF Verified
<1>2. ASSUME NEW p \in Pieces, write_res'[p] > 0
      PROVE  cache_piece'[p] # NoObj /\ state'[cache_piece'[p]] = "CHECK_SHA1_OK"
  <2>1. cache_piece[p] # NoObj /\ state[cache_piece[p]] = "CHECK_SHA1_OK"
    BY <1>2 DEF WritesTracked
  <2> QED BY <2>1 DEF KeepsPinned, Pinned
<1>3. ASSUME NEW p \in Pieces, NEW o \in Objs
      PROVE  /\ ~(Has(operations, "WRITE", p, o)' /\ Has(io_batch, "WRITE", p, o)')
             /\ (Has(operations, "WRITE", p, o)' \/ Has(io_batch, "WRITE", p, o)')
                  => ~(write_res'[p] > 0)
  BY DEF WritesTracked
<1> QED BY <1>1, <1>2, <1>3 DEF WritesTracked

\* Entries of the hash pipeline stay right when pinned pieces are left alone.
LEMMA EntriesKept ==
  ASSUME TypeOK, KeepsPinned
  PROVE  /\ \A s \in Seq(Pieces \X Objs) :
              Hashed(s, cache_piece, state) => Hashed(s, cache_piece', state')
         /\ \A s \in Seq(Pieces \X BOOLEAN) :
              Resulted(s, cache_piece, state, data) => Resulted(s, cache_piece', state', data')
<1>1. ASSUME NEW s \in Seq(Pieces \X Objs), Hashed(s, cache_piece, state), NEW x \in Range(s)
      PROVE  cache_piece'[x[1]] = x[2] /\ state'[x[2]] = "CHECKING_SHA1"
  <2>1. x \in Pieces \X Objs
    BY RangeOfSeq
  <2>2. cache_piece[x[1]] = x[2] /\ state[x[2]] = "CHECKING_SHA1" /\ x[2] # NoObj
    BY <1>1, <2>1, ConstantsAssumption DEF Hashed
  <2> QED BY <2>1, <2>2 DEF KeepsPinned, Pinned
<1>2. ASSUME NEW s \in Seq(Pieces \X BOOLEAN), Resulted(s, cache_piece, state, data),
             NEW x \in Range(s)
      PROVE  LET o == cache_piece'[x[1]] IN
             /\ o # NoObj /\ state'[o] = "CHECKING_SHA1"
             /\ x[2] => \A b \in Blocks : data'[o][b] = "good"
  <2> DEFINE o == cache_piece[x[1]]
  <2>1. x[1] \in Pieces
    <3>1. x \in Pieces \X BOOLEAN
      BY RangeOfSeq
    <3> QED BY <3>1
  <2>2. o # NoObj /\ state[o] = "CHECKING_SHA1"
          /\ (x[2] => \A b \in Blocks : data[o][b] = "good")
    BY <1>2 DEF Resulted
  <2>3. cache_piece'[x[1]] = o /\ state'[o] = state[o] /\ data'[o] = data[o]
    BY <2>1, <2>2 DEF KeepsPinned, Pinned
  <2> QED BY <2>2, <2>3
<1>3. \A s \in Seq(Pieces \X Objs) :
        Hashed(s, cache_piece, state) => Hashed(s, cache_piece', state')
  BY <1>1 DEF Hashed
<1>4. \A s \in Seq(Pieces \X BOOLEAN) :
        Resulted(s, cache_piece, state, data) => Resulted(s, cache_piece', state', data')
  BY <1>2 DEF Resulted
<1> QED BY <1>3, <1>4

\* The entries of all five stages, before a step that leaves pinned pieces alone,
\* as the caches after it see them.
LEMMA StagesKept ==
  ASSUME TypeOK, HashTracked, KeepsPinned
  PROVE  /\ Hashed(piece_list, cache_piece', state') /\ Hashed(sha_batch, cache_piece', state')
         /\ Resulted(sha_out, cache_piece', state', data')
         /\ Resulted(piece_sha1_list, cache_piece', state', data')
         /\ Resulted(sha_list, cache_piece', state', data')
BY EntriesKept DEF HashTracked, TypeOK, ListType, ShaType, MainType

\* The hash pipeline, when a step does not move it.
LEMMA HashKept ==
  ASSUME TypeOK, HashTracked, KeepsPinned, sha_pc' = "run" \/ sha_pc # "run",
         UNCHANGED <<piece_list, sha_batch, sha_out, piece_sha1_list, sha_list>>
  PROVE  HashTracked'
BY StagesKept DEF HashTracked

\* The read pipeline, when a step starts no read and the cache takes in nothing
\* but instances no queue knows.
LEMMA ReadsKept ==
  ASSUME TypeOK, ReadsApart, read_res' = read_res,
         \A p \in Pieces, o \in Objs :
           /\ Has(operations, "READ", p, o)' => Has(operations, "READ", p, o)
           /\ Has(io_batch, "READ", p, o)' => Has(io_batch, "READ", p, o),
         \A q \in Pieces : cache_piece'[q] \in {cache_piece[q], NoObj} \/ Free(cache_piece'[q])
  PROVE  ReadsApart'
<1>1. ASSUME NEW p \in Pieces, NEW q \in Pieces, NEW o \in Objs,
             Has(operations, "READ", p, o)' \/ Has(io_batch, "READ", p, o)'
               \/ read_res'[p] = o
      PROVE  cache_piece'[q] # o
  <2>1. Has(operations, "READ", p, o) \/ Has(io_batch, "READ", p, o) \/ read_res[p] = o
    BY <1>1
  <2>2. cache_piece[q] # o
    BY <2>1 DEF ReadsApart
  <2>3. ~Free(o)
    BY <2>1 DEF Free
  <2> QED BY <2>2, <2>3, ConstantsAssumption
<1> QED BY <1>1 DEF ReadsApart

\* What FetchNewPiece returns is known to nobody.
LEMMA FetchIsFree ==
  ASSUME Placed, NEW new \in FetchNewPiece
  PROVE  /\ new[1] \in Objs /\ new[2] \in [Pieces -> Objs \cup {NoObj}]
         /\ Free(new[1])
         /\ \A q \in Pieces : new[2][q] # new[1]
         /\ \A q \in Pieces : new[2][q] = cache_piece[q] \/ new[2][q] = NoObj
         /\ \A q \in Pieces : Pinned(q) => new[2][q] = cache_piece[q]
<1>0. new[1] \in Objs /\ new[2] \in [Pieces -> Objs \cup {NoObj}]
  BY FetchNewPieceType DEF Placed, TypeOK
<1>t. /\ cache_piece \in [Pieces -> Objs \cup {NoObj}] /\ NoObj \notin Objs
  BY ConstantsAssumption DEF Placed, TypeOK, PiecesType
<1>1. ASSUME NEW r \in WritedPieces,
             new = <<cache_piece[r], [cache_piece EXCEPT ![r] = NoObj]>>
      PROVE  /\ Free(new[1])
             /\ \A q \in Pieces : new[2][q] # new[1]
             /\ \A q \in Pieces : new[2][q] = cache_piece[q] \/ new[2][q] = NoObj
             /\ \A q \in Pieces : Pinned(q) => new[2][q] = cache_piece[q]
  <2> DEFINE o == new[1]
  <2>1. /\ r \in Pieces /\ o = cache_piece[r] /\ o \in Objs /\ state[o] = "WRITED"
        /\ new[2] = [cache_piece EXCEPT ![r] = NoObj]
    BY <1>1, <1>0 DEF WritedPieces, Cached
  <2> HIDE DEF o
  <2>2. \A q \in Pieces : Pinned(q) => cache_piece[q] # o /\ q # r
    BY <2>1 DEF Pinned
  <2>3. \A q \in Pieces : q # r => cache_piece[q] # o
    BY <2>1, <1>t DEF Placed, CacheApart
  <2>4. \A p \in Pieces : /\ ~Has(operations, "READ", p, o) /\ ~Has(io_batch, "READ", p, o)
                         /\ read_res[p] # o
    BY <2>1 DEF Placed, ReadsApart
  <2>5. \A p \in Pieces : ~Has(operations, "WRITE", p, o) /\ ~Has(io_batch, "WRITE", p, o)
    BY <2>1 DEF Placed, WritesTracked
  <2>6. Free(o)
    BY <2>2, <2>4, <2>5 DEF Free
  <2>7. \A q \in Pieces : new[2][q] = IF q = r THEN NoObj ELSE cache_piece[q]
    BY <2>1, <1>t
  <2>8. /\ \A q \in Pieces : new[2][q] # o
        /\ \A q \in Pieces : new[2][q] = cache_piece[q] \/ new[2][q] = NoObj
        /\ \A q \in Pieces : Pinned(q) => new[2][q] = cache_piece[q]
    BY <2>1, <2>2, <2>3, <2>7, <1>t
  <2> QED BY <2>6, <2>8 DEF o
<1>2. ASSUME NEW o \in Objs \ Referenced, new = <<o, cache_piece>>
      PROVE  /\ Free(new[1])
             /\ \A q \in Pieces : new[2][q] # new[1]
             /\ \A q \in Pieces : new[2][q] = cache_piece[q] \/ new[2][q] = NoObj
             /\ \A q \in Pieces : Pinned(q) => new[2][q] = cache_piece[q]
  <2>1. new[1] = o /\ new[2] = cache_piece
    BY <1>2
  <2>2. \A q \in Pieces : cache_piece[q] # o
    BY <1>t DEF Referenced, Cached
  <2>3. o \notin HeldByFile
    BY DEF Referenced
  <2>4. \A k, q : ~Has(operations, k, q, o) /\ ~Has(io_batch, k, q, o)
    BY <2>3 DEF HeldByFile, Has, Range
  <2>5. \A q \in Pieces : read_res[q] # o
    BY <2>3, <1>t DEF HeldByFile
  <2> QED BY <2>1, <2>2, <2>4, <2>5 DEF Free
<1> QED BY <1>0, <1>1, <1>2 DEF FetchNewPiece

-----------------------------------------------------------------------------
(* Every step keeps every instance in its place. *)

PlacedParts == CacheApart /\ ReadsApart /\ WritesTracked /\ HashTracked

\* Steps that move nothing.
LEMMA IdlePlaced ==
  ASSUME Placed, sha_pc' = "run" \/ sha_pc # "run",
         UNCHANGED <<pieceVars, operations, io_batch, read_res, write_res,
                     piece_list, sha_batch, sha_out, piece_sha1_list, sha_list>>
  PROVE  PlacedParts'
<1>1. UNCHANGED <<cache_piece, state, data>>
  BY DEF pieceVars
<1>2. KeepsPinned
  BY <1>1 DEF KeepsPinned
<1>3. CacheApart'
  BY <1>1 DEF Placed, CacheApart
<1>4. ReadsApart'
  BY <1>1, ReadsKept DEF Placed
<1>5. WritesTracked'
  BY <1>2, WritesKept DEF Placed
<1>6. HashTracked'
  BY <1>2, HashKept DEF Placed
<1> QED BY <1>3, <1>4, <1>5, <1>6 DEF PlacedParts

\* A block from a peer goes into the instance o that is cached for its piece, or
\* into one that nobody knows; c is the cache without what was recycled for it.
LEMMA WriteTarget ==
  ASSUME Placed, NEW p \in Pieces, NEW b \in Blocks, NEW v \in {"good", "bad"},
         Write(p, b, v)
  PROVE  \E o \in Objs, c \in [Pieces -> Objs \cup {NoObj}], d \in Content :
        /\ Free(o) /\ WriteInto(o, d, p, b, v)
        /\ cache_piece' = [c EXCEPT ![p] = o]
        /\ \A q \in Pieces : q # p => c[q] # o
        /\ \A q \in Pieces : c[q] = cache_piece[q] \/ c[q] = NoObj
        /\ \A q \in Pieces : Pinned(q) => q # p
        /\ \A q \in Pieces : Pinned(q) => c[q] = cache_piece[q]
<1>t. /\ TypeOK /\ cache_piece \in [Pieces -> Objs \cup {NoObj}] /\ NoObj \notin Objs
      /\ state \in [Objs -> PieceStates] /\ data \in [Objs -> Content]
  BY ConstantsAssumption DEF Placed, TypeOK, PiecesType
<1>1. CASE cache_piece[p] # NoObj
  <2> DEFINE o == cache_piece[p]
  <2>1. /\ o \in Objs /\ state[o] = "NOT_CHECKED" /\ cache_piece' = cache_piece
        /\ WriteInto(o, data[o], p, b, v) /\ data[o] \in Content
    BY <1>t, <1>1 DEF Write, Writable
  <2>2. \A q \in Pieces : q # p => cache_piece[q] # o
    BY <1>1 DEF Placed, CacheApart
  <2>3. \A q \in Pieces : Pinned(q) => q # p /\ cache_piece[q] # o
    BY <2>1 DEF Pinned
  <2>4. Free(o)
    BY <2>1, <2>3 DEF Free, Placed, ReadsApart, WritesTracked
  <2>5. cache_piece' = [cache_piece EXCEPT ![p] = o]
    BY <1>t, <2>1
  <2> HIDE DEF o
  <2> QED BY <1>t, <2>1, <2>2, <2>3, <2>4, <2>5
<1>2. CASE cache_piece[p] = NoObj
  <2>1. PICK new \in FetchNewPiece :
          /\ cache_piece' = [new[2] EXCEPT ![p] = new[1]]
          /\ WriteInto(new[1], Zeros, p, b, v)
    BY <1>2 DEF Write
  <2>2. ~Pinned(p)
    BY <1>2 DEF Pinned
  <2>3. /\ new[1] \in Objs /\ new[2] \in [Pieces -> Objs \cup {NoObj}]
        /\ Free(new[1])
        /\ \A q \in Pieces : new[2][q] # new[1]
        /\ \A q \in Pieces : new[2][q] = cache_piece[q] \/ new[2][q] = NoObj
        /\ \A q \in Pieces : Pinned(q) => new[2][q] = cache_piece[q]
    BY FetchIsFree
  <2>4. \A q \in Pieces : Pinned(q) => q # p
    BY <2>2
  <2> QED BY <2>1, <2>3, <2>4, ZerosType
<1> QED BY <1>1, <1>2

\* A block from a peer goes into a piece that is in no pipeline.
LEMMA WritePlaced ==
  ASSUME Placed, NEW p \in Pieces, NEW b \in Blocks, NEW v \in {"good", "bad"},
         Write(p, b, v)
  PROVE  PlacedParts'
<1>t. /\ TypeOK /\ cache_piece \in [Pieces -> Objs \cup {NoObj}] /\ NoObj \notin Objs
      /\ state \in [Objs -> PieceStates] /\ data \in [Objs -> Content]
  BY ConstantsAssumption DEF Placed, TypeOK, PiecesType
<1>1. \E o \in Objs, c \in [Pieces -> Objs \cup {NoObj}], d \in Content :
        /\ Free(o) /\ WriteInto(o, d, p, b, v)
        /\ cache_piece' = [c EXCEPT ![p] = o]
        /\ \A q \in Pieces : q # p => c[q] # o
        /\ \A q \in Pieces : c[q] = cache_piece[q] \/ c[q] = NoObj
        /\ \A q \in Pieces : Pinned(q) => q # p
        /\ \A q \in Pieces : Pinned(q) => c[q] = cache_piece[q]
  BY WriteTarget
<1>2. PICK o \in Objs, c \in [Pieces -> Objs \cup {NoObj}], d \in Content :
        /\ Free(o) /\ WriteInto(o, d, p, b, v)
        /\ cache_piece' = [c EXCEPT ![p] = o]
        /\ \A q \in Pieces : q # p => c[q] # o
        /\ \A q \in Pieces : c[q] = cache_piece[q] \/ c[q] = NoObj
        /\ \A q \in Pieces : Pinned(q) => q # p
        /\ \A q \in Pieces : Pinned(q) => c[q] = cache_piece[q]
  BY <1>1
<1>3. /\ \A q \in Pieces : cache_piece'[q] = IF q = p THEN o ELSE c[q]
      /\ \E st \in {"CHECKING_SHA1", "NOT_CHECKED"} : state' = [state EXCEPT ![o] = st]
      /\ \E d2 : data' = [data EXCEPT ![o] = d2]
  BY <1>2 DEF WriteInto
<1>4. /\ operations' = operations /\ io_batch' = io_batch /\ read_res' = read_res
      /\ write_res' = write_res /\ sha_pc' = sha_pc
      /\ UNCHANGED <<sha_batch, sha_out, piece_sha1_list, sha_list>>
  BY DEF Write, fileVars, ioVars, shaVars
<1>5. KeepsPinned
  <2>1. ASSUME NEW q \in Pieces, Pinned(q)
        PROVE  /\ cache_piece'[q] = cache_piece[q]
               /\ state'[cache_piece[q]] = state[cache_piece[q]]
               /\ data'[cache_piece[q]] = data[cache_piece[q]]
    <3>1. cache_piece[q] # o /\ cache_piece[q] \in Objs
      BY <1>t, <1>2, <2>1 DEF Free, Pinned
    <3> QED BY <1>t, <1>2, <1>3, <2>1, <3>1
  <2> QED BY <2>1 DEF KeepsPinned
<1>6. CacheApart'
  <2>1. ASSUME NEW q \in Pieces, NEW r \in Pieces, q # r, cache_piece'[q] # NoObj
        PROVE  cache_piece'[q] # cache_piece'[r]
    BY <1>t, <1>2, <1>3, <2>1 DEF Placed, CacheApart
  <2> QED BY <2>1 DEF CacheApart
<1>7. ReadsApart'
  BY <1>t, <1>2, <1>3, <1>4, ReadsKept DEF Placed
<1>8. WritesTracked'
  BY <1>t, <1>4, <1>5, WritesKept DEF Placed
<1>9. HashTracked'
  <2>1. CASE piece_list' = piece_list
    BY <1>t, <1>4, <1>5, <2>1, HashKept DEF Placed
  <2>2. CASE AddPiece(p, o) /\ state' = [state EXCEPT ![o] = "CHECKING_SHA1"]
    <3>1. ~Pinned(p)
      BY <1>2
    <3>2. p \notin Of(piece_list) \cup Of(sha_batch) \cup Of(sha_out)
                     \cup Of(piece_sha1_list) \cup Of(sha_list)
      BY <1>t, <3>1, HashedArePinned DEF Placed, Pinned
    <3>3. piece_list \in Seq(Pieces \X Objs) /\ <<p, o>> \in Pieces \X Objs
            /\ <<p, o>>[1] = p /\ <<p, o>>[2] = o
      BY <1>t DEF TypeOK, ListType
    <3>4. piece_list' = Append(piece_list, <<p, o>>)
      BY <2>2 DEF AddPiece
    <3>5. Once(piece_list') /\ Of(piece_list') = Of(piece_list) \cup {p}
      BY <3>2, <3>3, <3>4, OnceAppend DEF Placed, HashTracked
    <3>6. Range(piece_list') = Range(piece_list) \cup {<<p, o>>}
      BY <3>3, <3>4, RangeAppend
    <3>7. cache_piece'[p] = o /\ state'[o] = "CHECKING_SHA1"
      BY <1>t, <1>3, <2>2
    <3>8. Hashed(piece_list', cache_piece', state')
      BY <1>t, <1>5, <3>3, <3>6, <3>7, StagesKept DEF Placed, Hashed
    <3>9. StagesApart(Of(piece_list'), Of(sha_batch'), Of(sha_out'), Of(piece_sha1_list'),
                      Of(sha_list'))
      BY <1>4, <3>2, <3>5 DEF Placed, HashTracked, StagesApart
    <3> QED BY <1>t, <1>4, <1>5, <3>5, <3>8, <3>9, StagesKept DEF Placed, HashTracked
  <2> QED BY <1>2, <2>1, <2>2 DEF WriteInto
<1> QED BY <1>6, <1>7, <1>8, <1>9 DEF PlacedParts

\* A read goes into an instance that nobody knows.
LEMMA AsyncReadPlaced ==
  ASSUME Placed, NEW r \in Readers, NEW p \in Pieces, NEW b, AsyncReadBlock(r, p, b)
  PROVE  PlacedParts'
<1>t. /\ TypeOK /\ cache_piece \in [Pieces -> Objs \cup {NoObj}] /\ NoObj \notin Objs
      /\ state \in [Objs -> PieceStates] /\ data \in [Objs -> Content]
      /\ operations \in Seq(Operation)
  BY ConstantsAssumption DEF Placed, TypeOK, PiecesType, FileType
<1>1. /\ io_batch' = io_batch /\ read_res' = read_res /\ write_res' = write_res
      /\ sha_pc' = sha_pc
      /\ UNCHANGED <<piece_list, sha_batch, sha_out, piece_sha1_list, sha_list>>
  BY DEF AsyncReadBlock, ioVars, listVars, shaVars
<1>2. CASE ~FirstReader(p)
  <2>1. UNCHANGED <<pieceVars, operations>>
    BY <1>2 DEF AsyncReadBlock
  <2> QED BY <1>1, <2>1, IdlePlaced
<1>3. CASE FirstReader(p)
  <2>1. PICK new \in FetchNewPiece :
          /\ cache_piece' = new[2]
          /\ state' = [state EXCEPT ![new[1]] = "NOT_CHECKED"]
          /\ data' = [data EXCEPT ![new[1]] = Zeros]
          /\ QueueOps("READ", p, new[1])
    BY <1>3 DEF AsyncReadBlock
  <2> DEFINE o == new[1]
  <2>2. /\ o \in Objs /\ Free(o)
        /\ cache_piece' \in [Pieces -> Objs \cup {NoObj}]
        /\ \A q \in Pieces : cache_piece'[q] # o
        /\ \A q \in Pieces : cache_piece'[q] = cache_piece[q] \/ cache_piece'[q] = NoObj
        /\ \A q \in Pieces : Pinned(q) => cache_piece'[q] = cache_piece[q]
    BY <2>1, FetchIsFree
  <2>3. /\ state' = [state EXCEPT ![o] = "NOT_CHECKED"]
        /\ data' = [data EXCEPT ![o] = Zeros]
        /\ operations' = operations \o OpsOf("READ", p, o)
    BY <2>1 DEF QueueOps
  <2> HIDE DEF o
  <2>4. \A k, q, u : Has(operations, k, q, u)' =>
          Has(operations, k, q, u) \/ (k = "READ" /\ q = p /\ u = o)
    BY <1>t, <2>2, <2>3, HasOps
  <2>5. KeepsPinned
    <3>1. ASSUME NEW q \in Pieces, Pinned(q)
          PROVE  /\ cache_piece'[q] = cache_piece[q]
                 /\ state'[cache_piece[q]] = state[cache_piece[q]]
                 /\ data'[cache_piece[q]] = data[cache_piece[q]]
      <4>1. cache_piece[q] # o /\ cache_piece[q] \in Objs
        BY <1>t, <2>2, <3>1 DEF Free, Pinned
      <4> QED BY <1>t, <2>2, <2>3, <3>1, <4>1
    <3> QED BY <3>1 DEF KeepsPinned
  <2>6. CacheApart'
    BY <1>t, <2>2 DEF Placed, CacheApart
  <2>7. ReadsApart'
    <3>1. ASSUME NEW q \in Pieces, NEW u \in Objs, u # o
          PROVE  /\ Has(operations, "READ", q, u)' => Has(operations, "READ", q, u)
                 /\ Has(io_batch, "READ", q, u)' = Has(io_batch, "READ", q, u)
      BY <1>1, <2>4, <3>1
    <3>2. \A q \in Pieces : ~Has(io_batch, "READ", q, o)' /\ read_res'[q] # o
      BY <1>1, <2>2 DEF Free
    <3>3. \A q \in Pieces : q # p => ~Has(operations, "READ", q, o)'
      BY <2>2, <2>4 DEF Free
    <3>4. ASSUME NEW q \in Pieces, NEW u \in Objs, NEW w \in Pieces,
                 \/ Has(operations, "READ", q, u)' \/ Has(io_batch, "READ", q, u)'
                 \/ read_res'[q] = u
          PROVE  cache_piece'[w] # u
      <4>1. CASE u = o
        BY <2>2, <4>1
      <4>2. CASE u # o
        <5>1. Has(operations, "READ", q, u) \/ Has(io_batch, "READ", q, u) \/ read_res[q] = u
          BY <1>1, <3>1, <3>4, <4>2
        <5>2. cache_piece[w] # u
          BY <5>1 DEF Placed, ReadsApart
        <5> QED BY <1>t, <2>2, <5>2
      <4> QED BY <4>1, <4>2
    <3>5. ASSUME NEW q \in Pieces, NEW u \in Objs, NEW w \in Pieces
          PROVE  /\ Has(operations, "READ", q, u)' => ~Has(io_batch, "READ", w, u)' /\ read_res'[w] # u
                 /\ Has(io_batch, "READ", q, u)' => read_res'[w] # u
                 /\ q # w => /\ ~(Has(operations, "READ", q, u)' /\ Has(operations, "READ", w, u)')
                             /\ ~(Has(io_batch, "READ", q, u)' /\ Has(io_batch, "READ", w, u)')
                             /\ ~(read_res'[q] = u /\ read_res'[w] = u)
      <4>1. CASE u = o
        BY <3>2, <3>3, <4>1
      <4>2. CASE u # o
        BY <1>1, <3>1, <4>2 DEF Placed, ReadsApart
      <4> QED BY <4>1, <4>2
    <3> QED BY <3>4, <3>5 DEF ReadsApart
  <2>8. WritesTracked'
    BY <1>t, <1>1, <2>4, <2>5, WritesKept DEF Placed
  <2>9. HashTracked'
    BY <1>t, <1>1, <2>5, HashKept DEF Placed
  <2> QED BY <2>6, <2>7, <2>8, <2>9 DEF PlacedParts
<1> QED BY <1>2, <1>3

\* Finished reads enter the cache under the index they were for.
LEMMA AsyncReadOpsPlaced ==
  ASSUME Placed, ProcessAsyncReadOps
  PROVE  PlacedParts'
<1>t. /\ TypeOK /\ cache_piece \in [Pieces -> Objs \cup {NoObj}] /\ NoObj \notin Objs
      /\ state \in [Objs -> PieceStates] /\ read_res \in [Pieces -> Objs \cup {NoObj}]
  BY ConstantsAssumption DEF Placed, TypeOK, PiecesType, FileType
<1>1. /\ state' = [o \in Objs |->
            IF \E p \in Pieces : read_res[p] # NoObj /\ read_res[p] = o THEN "WRITED"
                                                                  ELSE state[o]]
      /\ cache_piece' = [p \in Pieces |->
            IF read_res[p] # NoObj /\ cache_piece[p] = NoObj THEN read_res[p]
                                                           ELSE cache_piece[p]]
      /\ read_res' = [p \in Pieces |-> NoObj]
      /\ data' = data
  <2> DEFINE read == {p \in Pieces : read_res[p] # NoObj}
             inserted == {p \in read : cache_piece[p] = NoObj}
  <2>1. /\ state' = [o \in Objs |->
              IF \E p \in read : read_res[p] = o THEN "WRITED" ELSE state[o]]
        /\ cache_piece' = [p \in Pieces |->
              IF p \in inserted THEN read_res[p] ELSE cache_piece[p]]
        /\ read_res' = [p \in Pieces |-> NoObj]
        /\ data' = data
    BY DEF ProcessAsyncReadOps
  <2>2. /\ \A p \in Pieces : p \in inserted <=> read_res[p] # NoObj /\ cache_piece[p] = NoObj
        /\ \A o : (\E p \in read : read_res[p] = o)
                    <=> (\E p \in Pieces : read_res[p] # NoObj /\ read_res[p] = o)
    OBVIOUS
  <2> HIDE DEF read, inserted
  <2> QED BY <2>1, <2>2
<1>2. /\ operations' = operations /\ io_batch' = io_batch /\ write_res' = write_res
      /\ sha_pc' = sha_pc
      /\ UNCHANGED <<piece_list, sha_batch, sha_out, piece_sha1_list, sha_list>>
  BY DEF ProcessAsyncReadOps, ioVars, listVars, shaVars
<1>3. \A p, q \in Pieces : read_res[p] # NoObj => read_res[p] # cache_piece[q]
  BY <1>t DEF Placed, ReadsApart
<1>4. \A p, q \in Pieces : read_res[p] # NoObj /\ p # q => read_res[p] # read_res[q]
  BY <1>t DEF Placed, ReadsApart
<1>5. KeepsPinned
  <2>1. ASSUME NEW q \in Pieces, Pinned(q)
        PROVE  /\ cache_piece'[q] = cache_piece[q]
               /\ state'[cache_piece[q]] = state[cache_piece[q]]
               /\ data'[cache_piece[q]] = data[cache_piece[q]]
    <3>1. cache_piece[q] \in Objs /\ cache_piece[q] # NoObj
      BY <1>t, <2>1 DEF Pinned
    <3>2. \A p \in Pieces : read_res[p] # cache_piece[q]
      BY <1>3, <3>1
    <3> QED BY <1>1, <3>1, <3>2
  <2> QED BY <2>1 DEF KeepsPinned
<1>6. CacheApart'
  <2>1. ASSUME NEW p \in Pieces, NEW q \in Pieces, p # q, cache_piece'[p] # NoObj
        PROVE  cache_piece'[p] # cache_piece'[q]
    <3>1. \/ cache_piece'[p] = cache_piece[p]
          \/ cache_piece'[p] = read_res[p] /\ read_res[p] # NoObj
      BY <1>1
    <3>2. \/ cache_piece'[q] = cache_piece[q]
          \/ cache_piece'[q] = read_res[q] /\ read_res[q] # NoObj
      BY <1>1
    <3>3. cache_piece[p] # NoObj => cache_piece[p] # cache_piece[q]
      BY <2>1 DEF Placed, CacheApart
    <3> QED BY <1>3, <1>4, <2>1, <3>1, <3>2, <3>3
  <2> QED BY <2>1 DEF CacheApart
<1>7. ReadsApart'
  <2>1. ASSUME NEW p \in Pieces, NEW q \in Pieces, NEW o \in Objs,
               Has(operations, "READ", p, o) \/ Has(io_batch, "READ", p, o)
        PROVE  cache_piece'[q] # o
    <3>1. cache_piece[q] # o /\ read_res[q] # o
      BY <2>1 DEF Placed, ReadsApart
    <3> QED BY <1>1, <3>1
  <2>2. \A q \in Pieces, o \in Objs : read_res'[q] # o
    BY <1>1, <1>t
  <2> QED BY <1>2, <2>1, <2>2 DEF Placed, ReadsApart
<1>8. WritesTracked'
  BY <1>t, <1>2, <1>5, WritesKept DEF Placed
<1>9. HashTracked'
  BY <1>t, <1>2, <1>5, HashKept DEF Placed
<1> QED BY <1>6, <1>7, <1>8, <1>9 DEF PlacedParts

\* The results change their list and nothing else.
LEMMA AsyncCheckPlaced ==
  ASSUME Placed, ProcessAsyncCheckPiece
  PROVE  PlacedParts'
<1>t. TypeOK /\ sha_list = <<>>
  BY DEF Placed, TypeOK, MainType, ProcessAsyncCheckPiece
<1>1. /\ sha_list' = piece_sha1_list /\ piece_sha1_list' = <<>>
      /\ UNCHANGED <<cache_piece, state, data, operations, io_batch, read_res, write_res,
                     piece_list, sha_batch, sha_out, sha_pc>>
  BY DEF ProcessAsyncCheckPiece, pieceVars, fileVars, ioVars, shaVars
<1>2. KeepsPinned
  BY <1>1 DEF KeepsPinned
<1>3. CacheApart'
  BY <1>1 DEF Placed, CacheApart
<1>4. ReadsApart'
  BY <1>1 DEF Placed, ReadsApart
<1>5. WritesTracked'
  BY <1>t, <1>1, <1>2, WritesKept DEF Placed
<1>6. HashTracked'
  <2>1. Of(<<>>) = {} /\ Once(<<>>) /\ Resulted(<<>>, cache_piece', state', data')
    BY RangeEmpty DEF Of, Once, Resulted
  <2>2. StagesApart(Of(piece_list), Of(sha_batch), Of(sha_out), Of(piece_sha1_list), Of(sha_list))
    BY DEF Placed, HashTracked
  <2>3. StagesApart(Of(piece_list'), Of(sha_batch'), Of(sha_out'), Of(piece_sha1_list'), Of(sha_list'))
    BY <1>t, <1>1, <2>1, <2>2 DEF StagesApart
  <2> QED BY <1>t, <1>1, <1>2, <2>1, <2>3, StagesKept DEF Placed, HashTracked
<1> QED BY <1>3, <1>4, <1>5, <1>6 DEF PlacedParts

\* The head of the results, when one is handled.
LEMMA FirstResult ==
  ASSUME Placed, CompleteAsyncCheckPiece
  PROVE  LET p == sha_list[1][1]
             o == cache_piece[p]
         IN
         /\ p \in Pieces /\ o \in Objs /\ state[o] = "CHECKING_SHA1"
         /\ sha_list[1][2] => \A b \in Blocks : data[o][b] = "good"
         /\ Once(Tail(sha_list)) /\ Range(Tail(sha_list)) \subseteq Range(sha_list)
         /\ Of(Tail(sha_list)) = Of(sha_list) \ {p}
         /\ p \notin Of(piece_list) \cup Of(sha_batch) \cup Of(sha_out) \cup Of(piece_sha1_list)
<1> DEFINE p == sha_list[1][1]
<1>1. sha_list \in Seq(Pieces \X BOOLEAN) /\ sha_list # <<>>
  BY DEF Placed, TypeOK, MainType, CompleteAsyncCheckPiece
<1>2. /\ Once(Tail(sha_list)) /\ Of(Tail(sha_list)) = Of(sha_list) \ {p} /\ p \in Of(sha_list)
  BY <1>1, OnceTail DEF Placed, HashTracked
<1>3. Range(sha_list) = {sha_list[1]} \cup Range(Tail(sha_list))
  BY <1>1, RangeTail
<1>4. p \in Pieces /\ cache_piece[p] \in Objs /\ state[cache_piece[p]] = "CHECKING_SHA1"
  BY <1>2, HashedArePinned DEF Placed
<1>5. sha_list[1][2] => \A b \in Blocks : data[cache_piece[p]][b] = "good"
  BY <1>3 DEF Placed, HashTracked, Resulted
<1>6. p \notin Of(piece_list) \cup Of(sha_batch) \cup Of(sha_out) \cup Of(piece_sha1_list)
  BY <1>2 DEF Placed, HashTracked, StagesApart
<1> QED BY <1>2, <1>3, <1>4, <1>5, <1>6

\* Entries about other pieces do not notice what happens to instance o.
LEMMA OthersKept ==
  ASSUME Placed, NEW p \in Pieces, NEW o \in Objs, cache_piece[p] = o,
         cache_piece' = cache_piece,
         \A u \in Objs : u # o => state'[u] = state[u] /\ data'[u] = data[u]
  PROVE  /\ \A s \in Seq(Pieces \X Objs) : Hashed(s, cache_piece, state) /\ p \notin Of(s)
              => Hashed(s, cache_piece', state')
         /\ \A s \in Seq(Pieces \X BOOLEAN) :
              Resulted(s, cache_piece, state, data) /\ p \notin Of(s)
                => Resulted(s, cache_piece', state', data')
<1>t. /\ cache_piece \in [Pieces -> Objs \cup {NoObj}] /\ NoObj \notin Objs
  BY ConstantsAssumption DEF Placed, TypeOK, PiecesType
<1>0. \A q \in Pieces : q # p => cache_piece[q] # o
  BY <1>t DEF Placed, CacheApart
<1>1. ASSUME NEW s \in Seq(Pieces \X Objs), Hashed(s, cache_piece, state), p \notin Of(s),
             NEW x \in Range(s)
      PROVE  cache_piece'[x[1]] = x[2] /\ state'[x[2]] = "CHECKING_SHA1"
  <2>1. x \in Pieces \X Objs
    BY RangeOfSeq
  <2>2. x[1] # p
    BY <1>1 DEF Of
  <2>3. cache_piece[x[1]] = x[2] /\ state[x[2]] = "CHECKING_SHA1"
    BY <1>1 DEF Hashed
  <2> QED BY <1>0, <2>1, <2>2, <2>3
<1>2. ASSUME NEW s \in Seq(Pieces \X BOOLEAN), Resulted(s, cache_piece, state, data),
             p \notin Of(s), NEW x \in Range(s)
      PROVE  LET u == cache_piece'[x[1]] IN
             /\ u # NoObj /\ state'[u] = "CHECKING_SHA1"
             /\ x[2] => \A b \in Blocks : data'[u][b] = "good"
  <2>1. x[1] \in Pieces
    <3>1. x \in Pieces \X BOOLEAN
      BY RangeOfSeq
    <3> QED BY <3>1
  <2>2. x[1] # p
    BY <1>2 DEF Of
  <2> DEFINE u == cache_piece[x[1]]
  <2>3. u # NoObj /\ state[u] = "CHECKING_SHA1" /\ (x[2] => \A b \in Blocks : data[u][b] = "good")
    BY <1>2 DEF Resulted
  <2>4. u \in Objs /\ u # o
    BY <1>t, <1>0, <2>1, <2>2, <2>3
  <2> QED BY <2>3, <2>4
<1>3. \A s \in Seq(Pieces \X Objs) : Hashed(s, cache_piece, state) /\ p \notin Of(s)
              => Hashed(s, cache_piece', state')
  BY <1>1 DEF Hashed
<1>4. \A s \in Seq(Pieces \X BOOLEAN) :
        Resulted(s, cache_piece, state, data) /\ p \notin Of(s)
          => Resulted(s, cache_piece', state', data')
  BY <1>2 DEF Resulted
<1> QED BY <1>3, <1>4

\* A piece leaves the hash pipeline, for the write pipeline or for good.
LEMMA CompleteCheckPlaced ==
  ASSUME Placed, CompleteAsyncCheckPiece
  PROVE  PlacedParts'
<1>t. /\ TypeOK /\ cache_piece \in [Pieces -> Objs \cup {NoObj}] /\ NoObj \notin Objs
      /\ state \in [Objs -> PieceStates] /\ data \in [Objs -> Content]
      /\ operations \in Seq(Operation)
  BY ConstantsAssumption DEF Placed, TypeOK, PiecesType, FileType
<1> DEFINE p == sha_list[1][1]
           o == cache_piece[p]
<1>1. /\ p \in Pieces /\ o \in Objs /\ state[o] = "CHECKING_SHA1"
      /\ sha_list[1][2] => \A b \in Blocks : data[o][b] = "good"
      /\ Once(Tail(sha_list)) /\ Range(Tail(sha_list)) \subseteq Range(sha_list)
      /\ Of(Tail(sha_list)) = Of(sha_list) \ {p}
      /\ p \notin Of(piece_list) \cup Of(sha_batch) \cup Of(sha_out) \cup Of(piece_sha1_list)
  BY FirstResult
<1>2. /\ cache_piece' = cache_piece /\ sha_list' = Tail(sha_list)
      /\ io_batch' = io_batch /\ read_res' = read_res /\ write_res' = write_res
      /\ sha_pc' = sha_pc /\ UNCHANGED <<piece_list, sha_batch, sha_out, piece_sha1_list>>
  BY DEF CompleteAsyncCheckPiece, ioVars, listVars, shaVars
<1>3. \/ /\ sha_list[1][2] /\ state' = [state EXCEPT ![o] = "CHECK_SHA1_OK"]
         /\ operations' = operations \o OpsOf("WRITE", p, o) /\ data' = data
      \/ /\ state' = [state EXCEPT ![o] = "NOT_CHECKED"]
         /\ data' = [data EXCEPT ![o] = Zeros] /\ operations' = operations
  BY <1>t, <1>1 DEF CompleteAsyncCheckPiece, QueueOps
<1> HIDE DEF o, p
<1>a. cache_piece[p] = o
  BY DEF o
<1>b. /\ sha_list[1][2] => Verified(o)
      /\ state' = [state EXCEPT ![o] = "CHECK_SHA1_OK"] => state'[o] = "CHECK_SHA1_OK"
  BY <1>t, <1>1 DEF Verified
<1>4. ASSUME NEW k, NEW q, NEW u, Has(operations, k, q, u)', ~Has(operations, k, q, u)
      PROVE  /\ k = "WRITE" /\ q = p /\ u = o
             /\ state'[o] = "CHECK_SHA1_OK" /\ Verified(o) /\ data' = data
  <2>1. CASE operations' = operations
    BY <1>4, <2>1
  <2>2. CASE /\ sha_list[1][2] /\ state' = [state EXCEPT ![o] = "CHECK_SHA1_OK"]
             /\ operations' = operations \o OpsOf("WRITE", p, o) /\ data' = data
    <3>1. Has(operations \o OpsOf("WRITE", p, o), k, q, u)
      BY <1>4, <2>2
    <3>2. k = "WRITE" /\ q = p /\ u = o
      BY <1>t, <1>1, <1>4, <3>1, HasOps
    <3> QED BY <1>b, <2>2, <3>2
  <2> QED BY <1>3, <2>1, <2>2
<1>5. \A q \in Pieces : ~Has(operations, "WRITE", q, o) /\ ~Has(io_batch, "WRITE", q, o)
  BY <1>1 DEF Placed, WritesTracked
<1>6. ~(write_res[p] > 0)
  BY <1>1, <1>a DEF Placed, WritesTracked
<1>7. \A q \in Pieces : q # p => cache_piece[q] # o
  BY <1>t, <1>1, <1>a DEF Placed, CacheApart
<1>8. \A u \in Objs : u # o => state'[u] = state[u] /\ data'[u] = data[u]
  BY <1>t, <1>3
<1>9. CacheApart'
  BY <1>2 DEF Placed, CacheApart
<1>10. ReadsApart'
  BY <1>2, <1>4 DEF Placed, ReadsApart
<1>11. WritesTracked'
  <2>1. ASSUME NEW q \in Pieces, NEW u \in Objs,
               Has(operations, "WRITE", q, u)' \/ Has(io_batch, "WRITE", q, u)'
        PROVE  /\ cache_piece'[q] = u /\ state'[u] = "CHECK_SHA1_OK" /\ Verified(u)'
               /\ ~(Has(operations, "WRITE", q, u)' /\ Has(io_batch, "WRITE", q, u)')
               /\ ~(write_res'[q] > 0)
    <3>1. CASE u = o
      <4>1. ~Has(io_batch, "WRITE", q, u)' /\ ~Has(operations, "WRITE", q, u)
        BY <1>2, <1>5, <3>1
      <4>2. q = p /\ state'[o] = "CHECK_SHA1_OK" /\ Verified(o) /\ data' = data
        BY <1>4, <2>1, <4>1
      <4>3. Verified(u)'
        BY <3>1, <4>2 DEF Verified
      <4> QED BY <1>2, <1>6, <1>a, <3>1, <4>1, <4>2, <4>3
    <3>2. CASE u # o
      <4>1. /\ Has(operations, "WRITE", q, u)' => Has(operations, "WRITE", q, u)
            /\ Has(io_batch, "WRITE", q, u)' = Has(io_batch, "WRITE", q, u)
        BY <1>2, <1>4, <3>2
      <4>2. /\ cache_piece[q] = u /\ state[u] = "CHECK_SHA1_OK" /\ Verified(u)
            /\ ~(Has(operations, "WRITE", q, u) /\ Has(io_batch, "WRITE", q, u))
            /\ ~(write_res[q] > 0)
        BY <2>1, <4>1 DEF Placed, WritesTracked
      <4>3. state'[u] = state[u] /\ data'[u] = data[u]
        BY <1>8, <3>2
      <4> QED BY <1>2, <4>1, <4>2, <4>3 DEF Verified
    <3> QED BY <3>1, <3>2
  <2>2. ASSUME NEW q \in Pieces, write_res'[q] > 0
        PROVE  cache_piece'[q] # NoObj /\ state'[cache_piece'[q]] = "CHECK_SHA1_OK"
    <3>1. /\ cache_piece[q] # NoObj /\ state[cache_piece[q]] = "CHECK_SHA1_OK"
          /\ q # p
      BY <1>1, <1>2, <1>6, <2>2 DEF Placed, WritesTracked
    <3>2. cache_piece[q] \in Objs /\ cache_piece[q] # o
      BY <1>t, <1>7, <3>1
    <3> QED BY <1>2, <1>8, <3>1, <3>2
  <2> QED BY <2>1, <2>2 DEF WritesTracked
<1>12. HashTracked'
  <2>1. Hashed(piece_list, cache_piece', state') /\ Hashed(sha_batch, cache_piece', state')
    BY <1>t, <1>1, <1>2, <1>8, <1>a, OthersKept
       DEF Placed, HashTracked, TypeOK, ListType, ShaType
  <2>2. /\ sha_out \in Seq(Pieces \X BOOLEAN)
        /\ piece_sha1_list \in Seq(Pieces \X BOOLEAN)
        /\ Tail(sha_list) \in Seq(Pieces \X BOOLEAN)
    BY <1>t, HeadTailProperties
       DEF TypeOK, ListType, ShaType, MainType, CompleteAsyncCheckPiece
  <2>3. /\ Resulted(sha_out, cache_piece, state, data)
        /\ Resulted(piece_sha1_list, cache_piece, state, data)
        /\ Resulted(Tail(sha_list), cache_piece, state, data)
    BY <1>1 DEF Placed, HashTracked, Resulted
  <2>4. /\ Resulted(sha_out, cache_piece', state', data')
        /\ Resulted(piece_sha1_list, cache_piece', state', data')
        /\ Resulted(Tail(sha_list), cache_piece', state', data')
    BY <1>1, <1>2, <1>8, <1>a, <2>2, <2>3, OthersKept
  <2>5. StagesApart(Of(piece_list), Of(sha_batch), Of(sha_out), Of(piece_sha1_list),
                    Of(Tail(sha_list)))
    BY <1>1 DEF Placed, HashTracked, StagesApart
  <2> QED BY <1>1, <1>2, <2>1, <2>4, <2>5 DEF Placed, HashTracked
<1> QED BY <1>9, <1>10, <1>11, <1>12 DEF PlacedParts

\* Pieces leave the write pipeline.
LEMMA AsyncWritePlaced ==
  ASSUME Placed, ProcessAsyncWritePiece
  PROVE  PlacedParts'
<1>t. /\ TypeOK /\ cache_piece \in [Pieces -> Objs \cup {NoObj}] /\ NoObj \notin Objs
      /\ state \in [Objs -> PieceStates] /\ write_res \in [Pieces -> Nat]
  BY ConstantsAssumption DEF Placed, TypeOK, PiecesType, FileType
<1>1. /\ state' = [o \in Objs |->
            IF \E p \in Pieces : write_res[p] > 0 /\ cache_piece[p] = o THEN "WRITED"
                                                                    ELSE state[o]]
      /\ write_res' = [p \in Pieces |-> 0]
  <2> DEFINE written == {p \in Pieces : write_res[p] > 0}
  <2>1. /\ state' = [o \in Objs |->
              IF \E p \in written : cache_piece[p] = o THEN "WRITED" ELSE state[o]]
        /\ write_res' = [p \in Pieces |-> 0]
    BY DEF ProcessAsyncWritePiece
  <2>2. \A o : (\E p \in written : cache_piece[p] = o)
                <=> (\E p \in Pieces : write_res[p] > 0 /\ cache_piece[p] = o)
    OBVIOUS
  <2> HIDE DEF written
  <2> QED BY <2>1, <2>2
<1>2. /\ UNCHANGED <<cache_piece, data, operations, io_batch, read_res, sha_pc>>
      /\ UNCHANGED <<piece_list, sha_batch, sha_out, piece_sha1_list, sha_list>>
  BY DEF ProcessAsyncWritePiece, ioVars, listVars, shaVars
<1>3. \A q \in Pieces, o \in Objs : cache_piece[q] = o /\ ~(write_res[q] > 0) => state'[o] = state[o]
  BY <1>t, <1>1 DEF Placed, CacheApart
<1>4. CacheApart'
  BY <1>2 DEF Placed, CacheApart
<1>5. ReadsApart'
  BY <1>2 DEF Placed, ReadsApart
<1>6. WritesTracked'
  <2>1. \A q \in Pieces : ~(write_res'[q] > 0)
    BY <1>1
  <2>2. ASSUME NEW q \in Pieces, NEW u \in Objs,
               Has(operations, "WRITE", q, u)' \/ Has(io_batch, "WRITE", q, u)'
        PROVE  /\ cache_piece'[q] = u /\ state'[u] = "CHECK_SHA1_OK" /\ Verified(u)'
               /\ ~(Has(operations, "WRITE", q, u)' /\ Has(io_batch, "WRITE", q, u)')
    <3>1. /\ cache_piece[q] = u /\ state[u] = "CHECK_SHA1_OK" /\ Verified(u)
          /\ ~(Has(operations, "WRITE", q, u) /\ Has(io_batch, "WRITE", q, u))
          /\ ~(write_res[q] > 0)
      BY <1>2, <2>2 DEF Placed, WritesTracked
    <3> QED BY <1>2, <1>3, <3>1 DEF Verified
  <2> QED BY <2>1, <2>2 DEF WritesTracked
<1>7. HashTracked'
  <2>1. \A q \in Pieces : cache_piece[q] # NoObj /\ state[cache_piece[q]] = "CHECKING_SHA1"
          => cache_piece[q] \in Objs /\ state'[cache_piece[q]] = "CHECKING_SHA1"
    <3>1. ASSUME NEW q \in Pieces, cache_piece[q] # NoObj,
                 state[cache_piece[q]] = "CHECKING_SHA1"
          PROVE  cache_piece[q] \in Objs /\ state'[cache_piece[q]] = "CHECKING_SHA1"
      <4>1. ~(write_res[q] > 0)
        BY <1>t, <3>1 DEF Placed, WritesTracked
      <4> QED BY <1>t, <1>3, <3>1, <4>1
    <3> QED BY <3>1
  <2>2. ASSUME NEW s \in Seq(Pieces \X Objs), Hashed(s, cache_piece, state), NEW x \in Range(s)
        PROVE  cache_piece'[x[1]] = x[2] /\ state'[x[2]] = "CHECKING_SHA1"
    <3>1. x \in Pieces \X Objs
      BY RangeOfSeq
    <3>2. cache_piece[x[1]] = x[2] /\ state[x[2]] = "CHECKING_SHA1" /\ x[2] # NoObj
      BY <1>t, <2>2, <3>1 DEF Hashed
    <3> QED BY <1>2, <2>1, <3>1, <3>2
  <2>3. ASSUME NEW s \in Seq(Pieces \X BOOLEAN), Resulted(s, cache_piece, state, data),
               NEW x \in Range(s)
        PROVE  LET o == cache_piece'[x[1]] IN
               /\ o # NoObj /\ state'[o] = "CHECKING_SHA1"
               /\ x[2] => \A b \in Blocks : data'[o][b] = "good"
    <3>1. x[1] \in Pieces
      <4>1. x \in Pieces \X BOOLEAN
        BY RangeOfSeq
      <4> QED BY <4>1
    <3> DEFINE o == cache_piece[x[1]]
    <3>2. o # NoObj /\ state[o] = "CHECKING_SHA1" /\ (x[2] => \A b \in Blocks : data[o][b] = "good")
      BY <2>3 DEF Resulted
    <3> QED BY <1>2, <2>1, <3>1, <3>2
  <2>4. \A s \in Seq(Pieces \X Objs) :
          Hashed(s, cache_piece, state) => Hashed(s, cache_piece', state')
    BY <2>2 DEF Hashed
  <2>5. \A s \in Seq(Pieces \X BOOLEAN) :
          Resulted(s, cache_piece, state, data) => Resulted(s, cache_piece', state', data')
    BY <2>3 DEF Resulted
  <2>6. /\ piece_list \in Seq(Pieces \X Objs) /\ sha_batch \in Seq(Pieces \X Objs)
        /\ sha_out \in Seq(Pieces \X BOOLEAN) /\ piece_sha1_list \in Seq(Pieces \X BOOLEAN)
        /\ sha_list \in Seq(Pieces \X BOOLEAN)
    BY <1>t DEF TypeOK, ListType, ShaType, MainType
  <2> QED BY <1>2, <2>4, <2>5, <2>6 DEF Placed, HashTracked
<1> QED BY <1>4, <1>5, <1>6, <1>7 DEF PlacedParts

\* Only WRITED pieces leave the cache.
LEMMA FreePlaced ==
  ASSUME Placed, FreeCachePiece
  PROVE  PlacedParts'
<1>t. /\ TypeOK /\ cache_piece \in [Pieces -> Objs \cup {NoObj}] /\ NoObj \notin Objs
      /\ state \in [Objs -> PieceStates] /\ data \in [Objs -> Content]
  BY ConstantsAssumption DEF Placed, TypeOK, PiecesType
<1>1. PICK gone \in SUBSET WritedPieces :
        LET freed == {cache_piece[p] : p \in gone} IN
        /\ cache_piece' = [p \in Pieces |-> IF p \in gone THEN NoObj ELSE cache_piece[p]]
        /\ state' = [o \in Objs |-> IF o \in freed THEN "NOT_CHECKED" ELSE state[o]]
        /\ data' = [o \in Objs |-> IF o \in freed THEN Zeros ELSE data[o]]
  BY DEF FreeCachePiece, Evictions
<1>2. /\ UNCHANGED <<operations, io_batch, read_res, write_res, sha_pc>>
      /\ UNCHANGED <<piece_list, sha_batch, sha_out, piece_sha1_list, sha_list>>
  BY DEF FreeCachePiece, fileVars, ioVars, listVars, shaVars
<1> DEFINE freed == {cache_piece[p] : p \in gone}
<1>3. /\ cache_piece' = [p \in Pieces |-> IF p \in gone THEN NoObj ELSE cache_piece[p]]
      /\ state' = [o \in Objs |-> IF o \in freed THEN "NOT_CHECKED" ELSE state[o]]
      /\ data' = [o \in Objs |-> IF o \in freed THEN Zeros ELSE data[o]]
      /\ \A p \in gone : state[cache_piece[p]] = "WRITED"
      /\ \A o \in freed : state[o] = "WRITED"
  BY <1>1 DEF WritedPieces
<1> HIDE DEF freed
<1>4. KeepsPinned
  <2>1. ASSUME NEW q \in Pieces, Pinned(q)
        PROVE  /\ cache_piece'[q] = cache_piece[q]
               /\ state'[cache_piece[q]] = state[cache_piece[q]]
               /\ data'[cache_piece[q]] = data[cache_piece[q]]
    <3>1. cache_piece[q] \in Objs /\ q \notin gone /\ cache_piece[q] \notin freed
      BY <1>t, <1>3, <2>1 DEF Pinned
    <3> QED BY <1>3, <3>1
  <2> QED BY <2>1 DEF KeepsPinned
<1>5. CacheApart'
  BY <1>3 DEF Placed, CacheApart
<1>6. ReadsApart'
  <2>1. \A q \in Pieces : cache_piece'[q] \in {cache_piece[q], NoObj}
    BY <1>3
  <2> QED BY <1>t, <1>2, <2>1, ReadsKept DEF Placed
<1>7. WritesTracked'
  BY <1>t, <1>2, <1>4, WritesKept DEF Placed
<1>8. HashTracked'
  BY <1>t, <1>2, <1>4, HashKept DEF Placed
<1> QED BY <1>5, <1>6, <1>7, <1>8 DEF PlacedParts

\* The file thread moves operations from stage to stage and fills only reads.
LEMMA IoPlaced ==
  ASSUME Placed, Io
  PROVE  PlacedParts'
<1>t. /\ TypeOK /\ cache_piece \in [Pieces -> Objs \cup {NoObj}] /\ NoObj \notin Objs
      /\ data \in [Objs -> Content] /\ io_batch \in Seq(Operation)
      /\ read_res \in [Pieces -> Objs \cup {NoObj}] /\ write_res \in [Pieces -> Nat]
  BY ConstantsAssumption DEF Placed, TypeOK, PiecesType, FileType, IoType
<1>s. /\ UNCHANGED <<cache_piece, state, sha_pc>>
      /\ UNCHANGED <<piece_list, sha_batch, sha_out, piece_sha1_list, sha_list>>
  BY DEF Io, IoWake, IoSwap, CompleteOperation, CollectResult, pieceVars, listVars, shaVars
<1>c. CacheApart'
  BY <1>s DEF Placed, CacheApart
<1>1. CASE IoWake
  <2>1. UNCHANGED <<pieceVars, operations, io_batch, read_res, write_res>>
    BY <1>1 DEF IoWake
  <2> QED BY <1>s, <2>1, IdlePlaced
<1>2. CASE IoSwap
  <2>1. io_batch = <<>>
    BY <1>2, <1>t DEF IoSwap, TypeOK, IoType
  <2>2. /\ io_batch' = operations /\ operations' = <<>> /\ data' = data
        /\ read_res' = read_res /\ write_res' = write_res
    BY <1>2 DEF IoSwap, pieceVars
  <2>3. \A k, p, o : /\ ~Has(io_batch, k, p, o) /\ ~Has(operations, k, p, o)'
                     /\ Has(io_batch, k, p, o)' = Has(operations, k, p, o)
    BY <2>1, <2>2, HasNone
  <2>4. KeepsPinned
    BY <1>s, <2>2 DEF KeepsPinned
  <2>5. ReadsApart'
    BY <1>s, <2>2, <2>3 DEF Placed, ReadsApart
  <2>6. WritesTracked'
    BY <1>s, <2>2, <2>3 DEF Placed, WritesTracked, Verified
  <2>7. HashTracked'
    BY <1>t, <1>s, <2>4, HashKept DEF Placed
  <2> QED BY <1>c, <2>5, <2>6, <2>7 DEF PlacedParts
<1>3. CASE CompleteOperation
  <2> DEFINE x == io_batch[io_pos]
  <2>1. /\ UNCHANGED <<operations, io_batch, read_res, write_res>>
        /\ \/ data' = data
           \/ x.op = "READ" /\ \E d : data' = [data EXCEPT ![x.obj] = d]
    BY <1>3 DEF CompleteOperation, fileVars
  <2>2. io_pos \in 1 .. Len(io_batch) /\ Len(io_batch) \in Nat /\ DOMAIN io_batch = 1 .. Len(io_batch)
    BY <1>3, <1>t, LenProperties DEF CompleteOperation, TypeOK, IoType
  <2>3. x \in Operation /\ x \in Range(io_batch)
    BY <1>t, <2>2, ElementOfSeq DEF Range
  <2>4. x.op = "READ" => Has(io_batch, "READ", x.piece, x.obj) /\ x.piece \in Pieces /\ x.obj \in Objs
    BY <2>3 DEF Has, Operation
  <2> HIDE DEF x
  <2>5. x.op = "READ" => \A q \in Pieces : cache_piece[q] # x.obj
    BY <2>4 DEF Placed, ReadsApart
  <2>6. KeepsPinned
    <3>1. ASSUME NEW q \in Pieces, Pinned(q)
          PROVE  data'[cache_piece[q]] = data[cache_piece[q]]
      <4>1. cache_piece[q] \in Objs
        BY <1>t, <3>1 DEF Pinned
      <4> QED BY <1>t, <2>1, <2>5, <4>1
    <3> QED BY <1>s, <3>1 DEF KeepsPinned
  <2>7. ReadsApart'
    BY <1>s, <2>1 DEF Placed, ReadsApart
  <2>8. WritesTracked'
    BY <1>t, <2>1, <2>6, WritesKept DEF Placed
  <2>9. HashTracked'
    BY <1>t, <1>s, <2>6, HashKept DEF Placed
  <2> QED BY <1>c, <2>7, <2>8, <2>9 DEF PlacedParts
<1>4. CASE CollectResult
  <2> DEFINE ReadsOf(p) == {i \in DOMAIN io_batch :
                       io_batch[i].op = "READ" /\ io_batch[i].piece = p}
             WritesOf(p) == {i \in DOMAIN io_batch :
                       io_batch[i].op = "WRITE" /\ io_batch[i].piece = p}
  <2>1. /\ operations' = operations /\ io_batch' = <<>> /\ data' = data
        /\ read_res' = [p \in Pieces |->
              IF read_res[p] = NoObj /\ ReadsOf(p) # {}
                THEN io_batch[CHOOSE i \in ReadsOf(p) : TRUE].obj ELSE read_res[p]]
        /\ write_res' = [p \in Pieces |-> write_res[p] + Cardinality(WritesOf(p))]
    BY <1>4 DEF CollectResult, Collected, BatchOf, pieceVars
  <2>2. ASSUME NEW p \in Pieces, NEW o \in Objs, read_res'[p] = o
        PROVE  read_res[p] = o \/ Has(io_batch, "READ", p, o)
    <3>1. ReadsOf(p) # {} => (CHOOSE i \in ReadsOf(p) : TRUE) \in ReadsOf(p)
      OBVIOUS
    <3>2. \A i \in ReadsOf(p) : Has(io_batch, "READ", p, io_batch[i].obj)
      BY DEF Has, Range
    <3> HIDE DEF ReadsOf, WritesOf
    <3> QED BY <2>1, <2>2, <3>1, <3>2
  <2>3. ASSUME NEW p \in Pieces, write_res'[p] > 0
        PROVE  write_res[p] > 0 \/ \E o \in Objs : Has(io_batch, "WRITE", p, o)
    <3>1. CASE WritesOf(p) = {}
      <4>1. Cardinality(WritesOf(p)) = 0
        BY <3>1, FS_EmptySet
      <4> HIDE DEF WritesOf
      <4> QED BY <1>t, <2>1, <2>3, <4>1
    <3>2. CASE WritesOf(p) # {}
      <4>1. PICK i \in DOMAIN io_batch : io_batch[i].op = "WRITE" /\ io_batch[i].piece = p
        BY <3>2
      <4>2. io_batch[i] \in Range(io_batch)
        BY DEF Range
      <4>3. io_batch[i] \in Operation
        BY <1>t, <4>2, RangeOfSeq
      <4>4. io_batch[i].obj \in Objs
        BY <4>3 DEF Operation
      <4> QED BY <4>1, <4>2, <4>4 DEF Has
    <3> QED BY <3>1, <3>2
  <2> HIDE DEF ReadsOf, WritesOf
  <2>4. \A k, p, o : ~Has(io_batch, k, p, o)' /\ Has(operations, k, p, o)' = Has(operations, k, p, o)
    BY <2>1, HasNone
  <2>5. KeepsPinned
    BY <1>s, <2>1 DEF KeepsPinned
  <2>6. ReadsApart'
    BY <1>s, <2>2, <2>4 DEF Placed, ReadsApart
  <2>7. WritesTracked'
    <3>1. ASSUME NEW p \in Pieces, write_res'[p] > 0
          PROVE  /\ cache_piece[p] # NoObj /\ state[cache_piece[p]] = "CHECK_SHA1_OK"
                 /\ \A o \in Objs : ~Has(operations, "WRITE", p, o)
      <4>1. CASE write_res[p] > 0
        <5>1. \A o \in Objs : ~Has(operations, "WRITE", p, o)
          BY <4>1 DEF Placed, WritesTracked
        <5>2. cache_piece[p] # NoObj /\ state[cache_piece[p]] = "CHECK_SHA1_OK"
          BY <4>1 DEF Placed, WritesTracked
        <5> QED BY <5>1, <5>2
      <4>2. ASSUME NEW o \in Objs, Has(io_batch, "WRITE", p, o)
            PROVE  /\ cache_piece[p] # NoObj /\ state[cache_piece[p]] = "CHECK_SHA1_OK"
                   /\ \A u \in Objs : ~Has(operations, "WRITE", p, u)
        <5>1. cache_piece[p] = o /\ state[o] = "CHECK_SHA1_OK" /\ ~Has(operations, "WRITE", p, o)
          BY <4>2 DEF Placed, WritesTracked
        <5>2. \A u \in Objs : Has(operations, "WRITE", p, u) => u = o
          BY <5>1 DEF Placed, WritesTracked
        <5> QED BY <1>t, <5>1, <5>2
      <4> QED BY <2>3, <3>1, <4>1, <4>2
    <3>2. ASSUME NEW p \in Pieces, NEW o \in Objs, Has(operations, "WRITE", p, o)
          PROVE  cache_piece[p] = o /\ state[o] = "CHECK_SHA1_OK" /\ Verified(o)
      BY <3>2 DEF Placed, WritesTracked
    <3> QED BY <1>s, <2>1, <2>4, <3>1, <3>2 DEF WritesTracked, Verified
  <2>8. HashTracked'
    BY <1>t, <1>s, <2>5, HashKept DEF Placed
  <2> QED BY <1>c, <2>6, <2>7, <2>8 DEF PlacedParts
<1> QED BY <1>1, <1>2, <1>3, <1>4 DEF Io

\* The hash thread moves entries from stage to stage.
LEMMA ShaPlaced ==
  ASSUME Placed, Sha
  PROVE  PlacedParts'
<1>t. /\ TypeOK /\ piece_list \in Seq(Pieces \X Objs) /\ sha_batch \in Seq(Pieces \X Objs)
      /\ sha_out \in Seq(Pieces \X BOOLEAN) /\ piece_sha1_list \in Seq(Pieces \X BOOLEAN)
  BY DEF Placed, TypeOK, ListType, ShaType
<1>s. UNCHANGED <<cache_piece, state, data, operations, io_batch, read_res, write_res, sha_list>>
  BY DEF Sha, ShaWake, ShaSwap, CalculateSha1, ShaPublish, pieceVars, fileVars, ioVars
<1>c. CacheApart' /\ ReadsApart'
  BY <1>s DEF Placed, CacheApart, ReadsApart
<1>w. WritesTracked'
  BY <1>s DEF Placed, WritesTracked, Verified
<1>h. HashTracked
  BY DEF Placed
<1>n. Of(<<>>) = {} /\ Once(<<>>) /\ Range(<<>>) = {}
  BY RangeEmpty DEF Of, Once
<1>1. CASE ShaWake
  <2>1. UNCHANGED <<piece_list, sha_batch, sha_out, piece_sha1_list>> /\ sha_pc # "run"
    BY <1>1 DEF ShaWake
  <2> QED BY <1>s, <2>1, IdlePlaced DEF pieceVars
<1>2. CASE ShaSwap
  <2>1. /\ sha_pc' = "run" /\ sha_batch' = piece_list /\ piece_list' = <<>>
        /\ UNCHANGED <<sha_out, piece_sha1_list>> /\ sha_batch = <<>>
    BY <1>2, <1>h DEF ShaSwap, HashTracked
  <2>2. StagesApart(Of(piece_list'), Of(sha_batch'), Of(sha_out'), Of(piece_sha1_list'), Of(sha_list'))
    BY <1>h, <1>n, <1>s, <2>1 DEF HashTracked, StagesApart
  <2>3. Hashed(piece_list', cache_piece', state')
    BY <1>n, <2>1 DEF Hashed
  <2>4. HashTracked'
    BY <1>h, <1>n, <1>s, <2>1, <2>2, <2>3 DEF HashTracked
  <2> QED BY <1>c, <1>w, <2>4 DEF PlacedParts
<1>3. CASE CalculateSha1
  <2> DEFINE p == sha_batch[1][1]
             o == sha_batch[1][2]
             m == HashMatches(o)
             x == <<p, m>>
  <2>1. /\ sha_pc = "run" /\ sha_pc' = "run" /\ sha_batch # <<>>
        /\ sha_out' = Append(sha_out, x) /\ sha_batch' = Tail(sha_batch)
        /\ UNCHANGED <<piece_list, piece_sha1_list>>
    BY <1>3 DEF CalculateSha1, listVars
  <2>2. /\ Once(Tail(sha_batch)) /\ Of(Tail(sha_batch)) = Of(sha_batch) \ {p} /\ p \in Of(sha_batch)
    BY <1>t, <1>h, <2>1, OnceTail DEF HashTracked
  <2>3. Range(sha_batch) = {sha_batch[1]} \cup Range(Tail(sha_batch))
    BY <1>t, <2>1, RangeTail
  <2>4. p \in Pieces /\ cache_piece[p] = o /\ o \in Objs /\ state[o] = "CHECKING_SHA1"
    <3>1. sha_batch[1] \in Pieces \X Objs
      BY <1>t, <2>3, RangeOfSeq
    <3> QED BY <1>h, <2>3, <3>1 DEF HashTracked, Hashed
  <2>5. m \in BOOLEAN /\ (m => \A b \in Blocks : data[o][b] = "good")
    BY DEF HashMatches, Verified
  <2>6. x \in Pieces \X BOOLEAN /\ x[1] = p /\ (x[2] => m)
    BY <2>4, <2>5
  <2> HIDE DEF p, o, m, x
  <2>7. p \notin Of(sha_out)
    BY <1>h, <2>2 DEF HashTracked, StagesApart
  <2>8. Once(sha_out') /\ Of(sha_out') = Of(sha_out) \cup {p}
    BY <1>t, <1>h, <2>1, <2>6, <2>7, OnceAppend DEF HashTracked
  <2>9. Range(sha_out') = Range(sha_out) \cup {x}
    <3>1. Range(Append(sha_out, x)) = Range(sha_out) \cup {x}
      BY SMTT(30), <1>t, <2>6, RangeAppend
    <3> QED BY <2>1, <3>1
  <2>10. Hashed(sha_batch', cache_piece', state')
    BY <1>h, <1>s, <2>1, <2>3 DEF HashTracked, Hashed
  <2>11. Resulted(sha_out', cache_piece', state', data')
    <3>1. ASSUME NEW y \in Range(sha_out')
          PROVE  /\ cache_piece[y[1]] # NoObj /\ state[cache_piece[y[1]]] = "CHECKING_SHA1"
                 /\ y[2] => \A b \in Blocks : data[cache_piece[y[1]]][b] = "good"
      <4>1. CASE y = x
        BY <2>4, <2>5, <2>6, <4>1, ConstantsAssumption
      <4>2. CASE y \in Range(sha_out)
        BY <1>h, <4>2 DEF HashTracked, Resulted
      <4> QED BY <2>9, <4>1, <4>2
    <3> QED BY <1>s, <3>1 DEF Resulted
  <2>12. StagesApart(Of(piece_list'), Of(sha_batch'), Of(sha_out'), Of(piece_sha1_list'), Of(sha_list'))
    BY <1>h, <1>s, <2>1, <2>2, <2>8 DEF HashTracked, StagesApart
  <2>13. HashTracked'
    BY <1>h, <1>s, <2>1, <2>2, <2>8, <2>10, <2>11, <2>12 DEF HashTracked
  <2> QED BY <1>c, <1>w, <2>13 DEF PlacedParts
<1>4. CASE ShaPublish
  <2>1. /\ sha_batch = <<>> /\ sha_batch' = <<>> /\ piece_list' = piece_list
        /\ piece_sha1_list' = piece_sha1_list \o sha_out /\ sha_out' = <<>>
    BY <1>4 DEF ShaPublish
  <2>2. Of(piece_sha1_list) \cap Of(sha_out) = {}
    BY <1>h DEF HashTracked, StagesApart
  <2>3. Once(piece_sha1_list') /\ Of(piece_sha1_list') = Of(piece_sha1_list) \cup Of(sha_out)
    BY <1>t, <1>h, <2>1, <2>2, OnceConcat DEF HashTracked
  <2>4. Range(piece_sha1_list') = Range(piece_sha1_list) \cup Range(sha_out)
    BY <1>t, <2>1, RangeConcatenation
  <2>5. Resulted(piece_sha1_list', cache_piece', state', data')
    BY <1>h, <1>s, <2>4 DEF HashTracked, Resulted
  <2>6. Resulted(sha_out', cache_piece', state', data')
    BY <1>n, <2>1 DEF Resulted
  <2>7. StagesApart(Of(piece_list'), Of(sha_batch'), Of(sha_out'), Of(piece_sha1_list'), Of(sha_list'))
    BY <1>h, <1>n, <1>s, <2>1, <2>3 DEF HashTracked, StagesApart
  <2>8. HashTracked'
    BY <1>h, <1>n, <1>s, <2>1, <2>3, <2>5, <2>6, <2>7 DEF HashTracked
  <2> QED BY <1>c, <1>w, <2>8 DEF PlacedParts
<1> QED BY <1>1, <1>2, <1>3, <1>4 DEF Sha

-----------------------------------------------------------------------------
(* The invariant. *)

\* The invariant holds initially,
LEMMA InitPlaced == Init => Placed
<1> SUFFICES ASSUME Init PROVE Placed
  OBVIOUS
<1>1. TypeOK
  BY InitTypeOK
<1>2. /\ Of(<<>>) = {} /\ Once(<<>>) /\ Range(<<>>) = {}
      /\ \A k, p, o : ~Has(<<>>, k, p, o)
  BY RangeEmpty, HasNone DEF Of, Once
<1>3. CacheApart
  BY DEF Init, CacheApart
<1>4. ReadsApart
  BY <1>2, ConstantsAssumption DEF Init, ReadsApart
<1>5. WritesTracked
  BY <1>2 DEF Init, WritesTracked
<1>6. HashTracked
  BY <1>2 DEF Init, HashTracked, Hashed, Resulted, StagesApart
<1> QED BY <1>1, <1>3, <1>4, <1>5, <1>6 DEF Placed

\* and every step keeps it.
LEMMA StepPlaced == Placed /\ [Next]_vars => Placed'
<1> SUFFICES ASSUME Placed, [Next]_vars PROVE Placed'
  OBVIOUS
<1>t. TypeOK'
  BY StepTypeOK DEF Placed
<1>1. ASSUME NEW p \in Pieces, MarkDownloading(p) PROVE PlacedParts'
  BY <1>1, IdlePlaced DEF MarkDownloading, fileVars, ioVars, listVars, shaVars
<1>2. ASSUME NEW p \in Pieces, NEW b \in Blocks, NEW v \in {"good", "bad"}, Write(p, b, v)
      PROVE  PlacedParts'
  BY <1>2, WritePlaced
<1>3. ASSUME NEW p \in Pieces, NEW r \in Readers, NEW b \in Ranges \cup {Beyond},
             ReadNow(r, p, b) \/ AsyncReadBlock(r, p, b)
      PROVE  PlacedParts'
  <2>1. CASE ReadNow(r, p, b)
    BY <2>1, IdlePlaced DEF ReadNow, fileVars, ioVars, listVars, shaVars
  <2>2. CASE AsyncReadBlock(r, p, b)
    BY <2>2, AsyncReadPlaced
  <2> QED BY <1>3, <2>1, <2>2
<1>4. ASSUME Peers PROVE PlacedParts'
  BY <1>1, <1>2, <1>3, <1>4 DEF Peers
<1>5. ASSUME Cache PROVE PlacedParts'
  <2>1. CASE ProcessCache
    BY <2>1, IdlePlaced DEF ProcessCache, fileVars, ioVars, listVars, shaVars
  <2> QED BY <1>5, <2>1, AsyncReadOpsPlaced, AsyncCheckPlaced, CompleteCheckPlaced,
             AsyncWritePlaced, FreePlaced DEF Cache
<1>6. ASSUME Destroy \/ Gone \/ UNCHANGED vars PROVE PlacedParts'
  <2>1. UNCHANGED <<pieceVars, operations, io_batch, read_res, write_res, sha_pc,
                    piece_list, sha_batch, sha_out, piece_sha1_list, sha_list>>
    BY <1>6 DEF Destroy, StopSha1Calc, StopFileService, Join, Gone, vars, pieceVars,
                fileVars, ioVars, listVars, shaVars
  <2> QED BY <2>1, IdlePlaced
<1>7. PlacedParts'
  BY <1>4, <1>5, <1>6, IoPlaced, ShaPlaced DEF Next
<1> QED BY <1>t, <1>7 DEF Placed, PlacedParts

\* In every reachable state each BitPiece is where exactly one owner put it, so
\* no thread reads or fills bytes that another one clears, fills or recycles
\* (BitCache.cpp:66-81, 263-277).
THEOREM RaceFree == Spec => []NoDataRace
<1>1. Placed => NoDataRace
  <2> SUFFICES ASSUME Placed PROVE NoDataRace
    OBVIOUS
  <2>t. /\ TypeOK /\ cache_piece \in [Pieces -> Objs \cup {NoObj}] /\ NoObj \notin Objs
    BY ConstantsAssumption DEF Placed, TypeOK, PiecesType
  <2>1. \A p, q \in Cached : cache_piece[p] = cache_piece[q] => p = q
    BY DEF Placed, CacheApart, Cached
  <2>2. ASSUME NEW p \in Cached, state[cache_piece[p]] \in {"NOT_CHECKED", "WRITED"}
        PROVE  cache_piece[p] \notin HeldBySha \cup HeldByFile
    <3> DEFINE o == cache_piece[p]
    <3>1. p \in Pieces /\ o \in Objs /\ state[o] # "CHECKING_SHA1" /\ state[o] # "CHECK_SHA1_OK"
      BY <2>t, <2>2 DEF Cached
    <3> HIDE DEF o
    <3>2. o \notin HeldBySha
      <4>1. \A x \in Range(piece_list) \cup Range(sha_batch) : x[2] # o
        BY <3>1 DEF Placed, HashTracked, Hashed
      <4> QED BY <4>1 DEF HeldBySha, Range
    <3>3. \A x \in Range(operations) \cup Range(io_batch) : x.obj # o
      <4> SUFFICES ASSUME NEW x \in Range(operations) \cup Range(io_batch), x.obj = o
                   PROVE  FALSE
        OBVIOUS
      <4>1. x \in Operation
        BY <2>t, RangeOfSeq DEF TypeOK, FileType, IoType
      <4>2. x.op \in {"READ", "WRITE"} /\ x.piece \in Pieces
        BY <4>1 DEF Operation
      <4>3. Has(operations, x.op, x.piece, o) \/ Has(io_batch, x.op, x.piece, o)
        BY <4>2 DEF Has
      <4>4. CASE x.op = "READ"
        BY <3>1, <4>2, <4>3, <4>4 DEF o, Placed, ReadsApart
      <4>5. CASE x.op = "WRITE"
        BY <3>1, <4>2, <4>3, <4>5 DEF Placed, WritesTracked
      <4> QED BY <4>2, <4>4, <4>5
    <3>4. \A q \in Pieces : read_res[q] # o
      BY <3>1 DEF o, Placed, ReadsApart
    <3>5. o \notin HeldByFile
      BY <3>3, <3>4 DEF HeldByFile, Range
    <3> QED BY <3>2, <3>5 DEF o
  <2> QED BY <2>1, <2>2 DEF NoDataRace
<1> QED BY InitPlaced, StepPlaced, <1>1, PTL DEF Spec

-----------------------------------------------------------------------------
(* What is announced is in the files. *)

\* Queueing the operations of a piece leaves every piece's writes complete: the
\* files a piece lies in cover it.
LEMMA WholeOps ==
  ASSUME NEW s \in Seq(Operation), Whole(s), NEW kind \in {"READ", "WRITE"},
         NEW p \in Pieces, NEW o \in Objs
  PROVE  Whole(s \o OpsOf(kind, p, o))
<1> DEFINE t == s \o OpsOf(kind, p, o)
<1>1. Range(t) = Range(s) \cup Range(OpsOf(kind, p, o))
  BY OpsOfType, RangeConcatenation
<1>2. \A b \in Blocks : \E x \in Range(OpsOf(kind, p, o)) :
        x.op = kind /\ x.piece = p /\ b \in x.blocks
  <2> SUFFICES ASSUME NEW b \in Blocks
               PROVE  \E x \in Range(OpsOf(kind, p, o)) :
                        x.op = kind /\ x.piece = p /\ b \in x.blocks
    OBVIOUS
  <2>1. Extent[p] \in Seq(SUBSET Blocks) /\ UNION Range(Extent[p]) = Blocks
    BY ConstantsAssumption
  <2>2. DOMAIN Extent[p] = 1 .. Len(Extent[p])
    BY <2>1, LenProperties
  <2>3. PICK i \in 1 .. Len(Extent[p]) : b \in Extent[p][i]
    BY <2>1, <2>2 DEF Range
  <2> DEFINE x == [op |-> kind, piece |-> p, obj |-> o, blocks |-> Extent[p][i]]
  <2>4. x \in Range(OpsOf(kind, p, o))
    BY DEF OpsOf, Range
  <2>5. x.op = kind /\ x.piece = p /\ b \in x.blocks
    BY <2>3
  <2> QED BY <2>4, <2>5
<1> SUFFICES ASSUME NEW q \in Pieces, NEW u \in Objs, Has(t, "WRITE", q, u), NEW b \in Blocks
             PROVE  \E x \in Range(t) : x.op = "WRITE" /\ x.piece = q /\ b \in x.blocks
  BY DEF Whole
<1>3. CASE Has(s, "WRITE", q, u)
  <2>1. PICK x \in Range(s) : x.op = "WRITE" /\ x.piece = q /\ b \in x.blocks
    BY <1>3 DEF Whole
  <2> QED BY <1>1, <2>1
<1>4. CASE "WRITE" = kind /\ q = p
  BY <1>1, <1>2, <1>4
<1> QED BY <1>3, <1>4, HasOps

\* Steps that leave the file pipeline alone, or only queue operations.
LEMMA DiskKept ==
  ASSUME DiskGood, Whole(operations'),
         UNCHANGED <<io_batch, io_pos, disk, write_res, downloaded>>
  PROVE  DiskGood'
BY DEF DiskGood, OnDisk

\* Every step keeps what is written, and announced, good.
LEMMA StepDisk ==
  ASSUME "WRITE" \notin Failing, Placed, DiskGood, [Next]_vars
  PROVE  DiskGood'
<1>t. /\ TypeOK /\ operations \in Seq(Operation) /\ io_batch \in Seq(Operation)
      /\ disk \in [Pieces -> Content] /\ data \in [Objs -> Content]
      /\ write_res \in [Pieces -> Nat] /\ io_pos \in 1 .. Len(io_batch) + 1
  BY DEF Placed, TypeOK, PiecesType, FileType, IoType
<1>l. /\ Len(io_batch) \in Nat /\ DOMAIN io_batch = 1 .. Len(io_batch)
      /\ \A i \in DOMAIN io_batch : io_batch[i] \in Operation /\ io_batch[i] \in Range(io_batch)
  <2>1. Len(io_batch) \in Nat /\ DOMAIN io_batch = 1 .. Len(io_batch)
    BY <1>t, LenProperties
  <2> QED BY <1>t, <2>1, ElementOfSeq DEF Range
<1>w. Whole(operations) /\ Whole(io_batch)
  BY DEF DiskGood
<1>1. ASSUME Peers PROVE DiskGood'
  <2>1. UNCHANGED <<io_batch, io_pos, disk, write_res, downloaded>>
    BY <1>1 DEF Peers, MarkDownloading, Write, ReadNow, AsyncReadBlock, infoVars,
                fileVars, ioVars
  <2>2. \/ operations' = operations
        \/ \E p \in Pieces, o \in Objs : operations' = operations \o OpsOf("READ", p, o)
    <3>1. ASSUME NEW p \in Pieces, NEW r \in Readers, NEW b \in Ranges \cup {Beyond},
                 AsyncReadBlock(r, p, b)
          PROVE  \/ operations' = operations
                 \/ \E o \in Objs : operations' = operations \o OpsOf("READ", p, o)
      BY <3>1, FetchIsFree DEF AsyncReadBlock, QueueOps
    <3> QED BY <1>1, <3>1 DEF Peers, MarkDownloading, Write, ReadNow, fileVars
  <2>3. Whole(operations')
    BY <1>t, <1>w, <2>2, WholeOps
  <2> QED BY <2>1, <2>3, DiskKept
<1>2. ASSUME Cache PROVE DiskGood'
  <2>1. CASE ProcessAsyncWritePiece
    <3>1. /\ UNCHANGED <<operations, io_batch, io_pos, disk>>
          /\ downloaded' = downloaded \cup {p \in Pieces : write_res[p] > 0}
          /\ write_res' = [p \in Pieces |-> 0]
      BY <2>1 DEF ProcessAsyncWritePiece, ioVars
    <3>2. ASSUME NEW p \in Pieces, write_res'[p] > 0 \/ p \in downloaded'
          PROVE  write_res[p] > 0 \/ p \in downloaded
      BY <3>1, <3>2
    <3> QED BY <3>1, <3>2 DEF DiskGood, OnDisk
  <2>2. CASE CompleteAsyncCheckPiece
    <3>1. UNCHANGED <<io_batch, io_pos, disk, write_res, downloaded>>
      BY <2>2 DEF CompleteAsyncCheckPiece, ioVars
    <3>2. \/ operations' = operations
          \/ \E p \in Pieces, o \in Objs : operations' = operations \o OpsOf("WRITE", p, o)
      BY <2>2, FirstResult DEF CompleteAsyncCheckPiece, QueueOps
    <3>3. Whole(operations')
      BY <1>t, <1>w, <3>2, WholeOps
    <3> QED BY <3>1, <3>3, DiskKept
  <2>3. CASE ProcessCache \/ ProcessAsyncReadOps \/ ProcessAsyncCheckPiece \/ FreeCachePiece
    <3>1. UNCHANGED <<operations, io_batch, io_pos, disk, write_res, downloaded>>
      BY <2>3 DEF ProcessCache, ProcessAsyncReadOps, ProcessAsyncCheckPiece,
                  FreeCachePiece, infoVars, fileVars, ioVars
    <3> QED BY <1>w, <3>1, DiskKept
  <2> QED BY <1>2, <2>1, <2>2, <2>3 DEF Cache
<1>3. ASSUME IoWake PROVE DiskGood'
  BY <1>w, <1>3, DiskKept DEF IoWake, infoVars
<1>4. ASSUME IoSwap PROVE DiskGood'
  <2>1. /\ io_batch' = operations /\ operations' = <<>> /\ io_pos' = 1
        /\ UNCHANGED <<disk, write_res, downloaded>>
    BY <1>4 DEF IoSwap, infoVars
  <2>2. Whole(operations')
    BY <2>1, HasNone DEF Whole
  <2>3. \A i \in DOMAIN io_batch' : ~(i < io_pos')
    BY <1>t, <2>1, LenProperties
  <2> QED BY <1>w, <2>1, <2>2, <2>3 DEF DiskGood, OnDisk
<1>5. ASSUME CompleteOperation PROVE DiskGood'
  <2> DEFINE x == io_batch[io_pos]
  <2>1. /\ io_pos \in DOMAIN io_batch /\ io_pos' = io_pos + 1
        /\ UNCHANGED <<operations, io_batch, write_res, downloaded>>
    BY <1>5, <1>t, <1>l DEF CompleteOperation, fileVars, infoVars
  <2>2. x \in Operation /\ x.piece \in Pieces /\ x.obj \in Objs /\ x.blocks \subseteq Blocks
    BY <1>l, <2>1 DEF Operation
  <2>3. \/ x.op # "WRITE" /\ disk' = disk
        \/ /\ x.op = "WRITE"
           /\ disk' = [disk EXCEPT ![x.piece] =
                        [b \in Blocks |-> IF b \in x.blocks THEN data[x.obj][b]
                                                            ELSE disk[x.piece][b]]]
    BY <1>5 DEF CompleteOperation
  <2>4. x.op = "WRITE" => \A b \in Blocks : data[x.obj][b] = "good"
    <3>1. x.op = "WRITE" => Has(io_batch, "WRITE", x.piece, x.obj)
      BY <1>l, <2>1 DEF Has
    <3> QED BY <2>2, <3>1 DEF Placed, WritesTracked, Verified
  <2> HIDE DEF x
  <2>5. \A p \in Pieces, b \in Blocks : disk[p][b] = "good" => disk'[p][b] = "good"
    <3>1. CASE disk' = disk
      BY <3>1
    <3>2. CASE x.op = "WRITE"
      <4>1. \A p \in Pieces : p # x.piece => disk'[p] = disk[p]
        BY <1>t, <2>3, <3>2
      <4>2. \A b \in Blocks : disk'[x.piece][b] = IF b \in x.blocks THEN data[x.obj][b]
                                                               ELSE disk[x.piece][b]
        BY <1>t, <2>2, <2>3, <3>2
      <4> QED BY <2>4, <3>2, <4>1, <4>2
    <3> QED BY <2>3, <3>1, <3>2
  <2>6. x.op = "WRITE" => \A b \in x.blocks : disk'[x.piece][b] = "good"
    BY <1>t, <2>2, <2>3, <2>4
  <2>7. ASSUME NEW i \in DOMAIN io_batch, i < io_pos', io_batch[i].op = "WRITE",
               NEW b \in io_batch[i].blocks
        PROVE  disk'[io_batch[i].piece][b] = "good"
    <3>1. io_batch[i].piece \in Pieces /\ b \in Blocks
      BY <1>l, <2>7 DEF Operation
    <3>2. CASE i = io_pos
      BY <2>6, <2>7, <3>2 DEF x
    <3>3. CASE i < io_pos
      BY <2>5, <2>7, <3>1, <3>3 DEF DiskGood
    <3> QED BY <1>t, <1>l, <2>1, <2>7, <3>2, <3>3
  <2>8. \A p \in Pieces : OnDisk(p) => OnDisk(p)'
    BY <2>5 DEF OnDisk
  <2> QED BY <1>w, <2>1, <2>7, <2>8 DEF DiskGood
<1>6. ASSUME CollectResult PROVE DiskGood'
  <2> DEFINE WritesOf(p) == {i \in DOMAIN io_batch :
                       io_batch[i].op = "WRITE" /\ io_batch[i].piece = p}
  <2>1. /\ io_batch' = <<>> /\ UNCHANGED <<operations, disk, downloaded>>
        /\ io_pos > Len(io_batch)
        /\ write_res' = [p \in Pieces |-> write_res[p] + Cardinality(WritesOf(p))]
    BY <1>6 DEF CollectResult, Collected, BatchOf, infoVars
  <2>2. ASSUME NEW p \in Pieces, WritesOf(p) # {} PROVE OnDisk(p)
    <3>1. PICK j \in DOMAIN io_batch : io_batch[j].op = "WRITE" /\ io_batch[j].piece = p
      BY <2>2
    <3>2. Has(io_batch, "WRITE", p, io_batch[j].obj) /\ io_batch[j].obj \in Objs
      BY <1>l, <3>1 DEF Has, Operation
    <3>3. ASSUME NEW b \in Blocks PROVE disk[p][b] = "good"
      <4>1. PICK x \in Range(io_batch) : x.op = "WRITE" /\ x.piece = p /\ b \in x.blocks
        BY <1>w, <3>2 DEF Whole
      <4>2. PICK i \in DOMAIN io_batch : x = io_batch[i]
        BY DEF Range
      <4>3. i < io_pos
        BY <1>t, <1>l, <2>1
      <4> QED BY <4>1, <4>2, <4>3 DEF DiskGood
    <3> QED BY <3>3 DEF OnDisk
  <2>3. ASSUME NEW p \in Pieces, write_res'[p] > 0 PROVE OnDisk(p)
    <3>1. CASE WritesOf(p) = {}
      <4>1. Cardinality(WritesOf(p)) = 0
        BY <3>1, FS_EmptySet
      <4> HIDE DEF WritesOf
      <4>2. write_res[p] > 0
        BY <1>t, <2>1, <2>3, <4>1
      <4> QED BY <4>2 DEF DiskGood
    <3> QED BY <2>2, <3>1
  <2>4. Whole(io_batch') /\ DOMAIN io_batch' = {}
    <3>1. Whole(io_batch')
      BY <2>1, HasNone DEF Whole
    <3>2. DOMAIN io_batch' = {}
      BY <2>1
    <3> QED BY <3>1, <3>2
  <2> HIDE DEF WritesOf
  <2> QED BY <1>w, <2>1, <2>3, <2>4 DEF DiskGood, OnDisk
<1>7. ASSUME Sha \/ Destroy \/ Gone \/ UNCHANGED vars PROVE DiskGood'
  <2>1. UNCHANGED <<operations, io_batch, io_pos, disk, write_res, downloaded>>
    BY <1>7 DEF Sha, ShaWake, ShaSwap, CalculateSha1, ShaPublish, Destroy, StopSha1Calc,
                StopFileService, Join, Gone, vars, infoVars, fileVars, ioVars
  <2> QED BY <1>w, <2>1, DiskKept
<1> QED BY <1>1, <1>2, <1>3, <1>4, <1>5, <1>6, <1>7 DEF Next, Io

\* A piece the peers are told we have is verified and wholly in its files, for
\* every layout of the files, when no WriteFile fails (BitCache.cpp:220-261).
THEOREM DownloadsAreOnDisk ==
  ASSUME "WRITE" \notin Failing
  PROVE  Spec => []DownloadedOnDisk
<1>1. Init => Placed /\ DiskGood
  <2> SUFFICES ASSUME Init PROVE DiskGood
    BY InitPlaced
  <2>1. Whole(<<>>) /\ DOMAIN <<>> = {}
    BY HasNone DEF Whole
  <2> QED BY <2>1 DEF Init, DiskGood
<1>2. Placed /\ DiskGood /\ [Next]_vars => (Placed /\ DiskGood)'
  BY StepPlaced, StepDisk
<1>3. Placed /\ DiskGood => DownloadedOnDisk
  BY DEF Placed, DiskGood, DownloadedOnDisk, TypeOK, InfoType
<1> QED BY <1>1, <1>2, <1>3, PTL DEF Spec

-----------------------------------------------------------------------------
(* Verified bytes stay. *)

\* A step clears or fills at most instances that are not cached before it, not
\* cached under the same index after it, or not yet verified.
LEMMA StepKeepsBytes ==
  ASSUME Placed, [Next]_vars, NEW p \in Cached,
         state[cache_piece[p]] \in {"CHECK_SHA1_OK", "WRITED"},
         cache_piece'[p] = cache_piece[p]
  PROVE  data'[cache_piece[p]] = data[cache_piece[p]]
<1> DEFINE o == cache_piece[p]
<1>t. /\ TypeOK /\ cache_piece \in [Pieces -> Objs \cup {NoObj}] /\ NoObj \notin Objs
      /\ data \in [Objs -> Content] /\ io_batch \in Seq(Operation)
      /\ p \in Pieces /\ o \in Objs
  BY ConstantsAssumption DEF Placed, TypeOK, PiecesType, IoType, Cached
<1>a. \A q \in Pieces : q # p => cache_piece[q] # o
  BY <1>t DEF Placed, CacheApart
<1> HIDE DEF o
<1>b. cache_piece[p] = o /\ cache_piece'[p] = o /\ state[o] \in {"CHECK_SHA1_OK", "WRITED"}
  BY DEF o
<1>1. ASSUME NEW q \in Pieces, NEW b \in Blocks, NEW v \in {"good", "bad"}, Write(q, b, v)
      PROVE  data'[o] = data[o]
  <2>1. CASE cache_piece[q] # NoObj
    <3>1. state[cache_piece[q]] = "NOT_CHECKED"
            /\ \E d : data' = [data EXCEPT ![cache_piece[q]] = d]
      BY <1>1, <2>1 DEF Write, Writable, WriteInto
    <3> QED BY <1>t, <1>b, <3>1
  <2>2. CASE cache_piece[q] = NoObj
    <3>1. PICK new \in FetchNewPiece :
            /\ cache_piece' = [new[2] EXCEPT ![q] = new[1]]
            /\ WriteInto(new[1], Zeros, q, b, v)
      BY <1>1, <2>2 DEF Write
    <3>2. q # p
      BY <1>t, <1>b, <2>2
    <3>3. new[2][p] # new[1] /\ new[2] \in [Pieces -> Objs \cup {NoObj}]
      BY <1>t, FetchIsFree
    <3>4. new[1] # o
      BY <1>b, <1>t, <3>1, <3>2, <3>3
    <3> QED BY <1>t, <3>1, <3>4 DEF WriteInto
  <2> QED BY <2>1, <2>2
<1>2. ASSUME NEW q \in Pieces, NEW r \in Readers, NEW b \in Ranges \cup {Beyond},
             AsyncReadBlock(r, q, b)
      PROVE  data'[o] = data[o]
  <2>1. CASE FirstReader(q)
    <3>1. PICK new \in FetchNewPiece :
            cache_piece' = new[2] /\ data' = [data EXCEPT ![new[1]] = Zeros]
      BY <1>2, <2>1 DEF AsyncReadBlock
    <3>2. new[2][p] # new[1]
      BY <1>t, FetchIsFree
    <3> QED BY <1>b, <1>t, <3>1, <3>2
  <2>2. CASE ~FirstReader(q)
    BY <1>2, <2>2 DEF AsyncReadBlock, pieceVars
  <2> QED BY <2>1, <2>2
<1>3. ASSUME Peers PROVE data'[o] = data[o]
  BY <1>1, <1>2, <1>3 DEF Peers, MarkDownloading, ReadNow, pieceVars
<1>4. ASSUME CompleteAsyncCheckPiece PROVE data'[o] = data[o]
  <2> DEFINE u == cache_piece[sha_list[1][1]]
  <2>1. state[u] = "CHECKING_SHA1" /\ u \in Objs
    BY <1>4, FirstResult
  <2>2. data' = data \/ data' = [data EXCEPT ![u] = Zeros]
    BY <1>4 DEF CompleteAsyncCheckPiece
  <2> HIDE DEF u
  <2> QED BY <1>b, <1>t, <2>1, <2>2
<1>5. ASSUME FreeCachePiece PROVE data'[o] = data[o]
  <2>1. PICK gone \in SUBSET WritedPieces :
        LET freed == {cache_piece[q] : q \in gone} IN
        /\ cache_piece' = [q \in Pieces |-> IF q \in gone THEN NoObj ELSE cache_piece[q]]
        /\ data' = [x \in Objs |-> IF x \in freed THEN Zeros ELSE data[x]]
    BY <1>5 DEF FreeCachePiece, Evictions
  <2>2. p \notin gone
    BY <1>b, <1>t, <2>1
  <2>3. \A q \in gone : q \in Pieces /\ cache_piece[q] # o
    BY <1>a, <2>2 DEF WritedPieces, Cached
  <2> QED BY <1>t, <2>1, <2>3
<1>6. ASSUME CompleteOperation PROVE data'[o] = data[o]
  <2> DEFINE x == io_batch[io_pos]
  <2>1. data' = data \/ (x.op = "READ" /\ \E d : data' = [data EXCEPT ![x.obj] = d])
    BY <1>6 DEF CompleteOperation
  <2>2. io_pos \in 1 .. Len(io_batch) /\ Len(io_batch) \in Nat /\ DOMAIN io_batch = 1 .. Len(io_batch)
    BY <1>6, <1>t, LenProperties DEF CompleteOperation, TypeOK, IoType
  <2>3. x \in Operation /\ x \in Range(io_batch)
    BY <1>t, <2>2, ElementOfSeq DEF Range
  <2>4. x.op = "READ" => Has(io_batch, "READ", x.piece, x.obj) /\ x.piece \in Pieces /\ x.obj \in Objs
    BY <2>3 DEF Has, Operation
  <2> HIDE DEF x
  <2>5. x.op = "READ" => x.obj # o
    BY <1>b, <1>t, <2>4 DEF Placed, ReadsApart
  <2> QED BY <1>t, <2>1, <2>5
<1>7. ASSUME \/ ProcessCache \/ ProcessAsyncReadOps \/ ProcessAsyncCheckPiece
             \/ ProcessAsyncWritePiece \/ IoWake \/ IoSwap \/ CollectResult
             \/ Sha \/ Destroy \/ Gone \/ UNCHANGED vars
      PROVE  data' = data
  BY <1>7 DEF ProcessCache, ProcessAsyncReadOps, ProcessAsyncCheckPiece,
              ProcessAsyncWritePiece, IoWake, IoSwap, CollectResult, Sha, ShaWake, ShaSwap,
              CalculateSha1, ShaPublish, Destroy, StopSha1Calc, StopFileService, Join, Gone,
              vars, pieceVars
<1>8. data'[o] = data[o]
  BY <1>3, <1>4, <1>5, <1>6, <1>7 DEF Next, Cache, Io
<1> QED BY <1>8 DEF o

\* No late or duplicate block, recycling or read from the files changes the bytes
\* of a piece that passed its hash, as long as it is cached under its index
\* (BitCache.cpp:191-197).
THEOREM VerifiedBytesStay == Spec => VerifiedStaysVerified
<1>1. Placed /\ [Next]_vars =>
        [\A p \in Cached :
           /\ state[cache_piece[p]] \in {"CHECK_SHA1_OK", "WRITED"}
           /\ cache_piece'[p] = cache_piece[p]
           => data'[cache_piece[p]] = data[cache_piece[p]]]_vars
  BY StepKeepsBytes
<1> QED BY InitPlaced, StepPlaced, <1>1, PTL DEF Spec, VerifiedStaysVerified

-----------------------------------------------------------------------------
(* What the states of the cached pieces mean.  Placed says that what a     *)
(* pipeline holds is cached and marked so; here come the converse, and     *)
(* what was read or hashed, from one lemma, StepCached: how a step may     *)
(* change what is cached for a piece.                                      *)

\* The pieces somewhere in the hash pipeline.
InSha == Of(sha_list) \cup Of(piece_sha1_list) \cup Of(sha_out) \cup Of(sha_batch)
           \cup Of(piece_list)

\* What is cached for q.
Held(q) == cache_piece[q]
HeldState(q) == state[cache_piece[q]]

\* How a step may leave something cached for q: as it was,
Kept(q) == Held(q)' = Held(q) /\ HeldState(q)' = HeldState(q)

\* written into by a peer,
Written(q) ==
  /\ \E b \in Blocks, v \in {"good", "bad"} : Write(q, b, v)
  /\ HeldState(q)' \in {"NOT_CHECKED", "CHECKING_SHA1"}

\* read from the files,
ReadIn(q) ==
  /\ ProcessAsyncReadOps
  /\ read_res[q] # NoObj /\ Held(q)' = read_res[q] /\ HeldState(q)' = "WRITED"

\* out of the hash pipeline, on the way to the files or cleared,
Checked(q) ==
  /\ CompleteAsyncCheckPiece /\ q = sha_list[1][1]
  /\ Held(q)' = Held(q) /\ HeldState(q) = "CHECKING_SHA1"
  /\ \/ /\ sha_list[1][2] /\ HeldState(q)' = "CHECK_SHA1_OK"
        /\ QueueOps("WRITE", q, Held(q))
     \/ HeldState(q)' = "NOT_CHECKED"

\* or out of the write pipeline.
Saved(q) ==
  /\ ProcessAsyncWritePiece /\ write_res[q] > 0
  /\ Held(q)' = Held(q) /\ HeldState(q) = "CHECK_SHA1_OK" /\ HeldState(q)' = "WRITED"

-----------------------------------------------------------------------------
(* What a step does to the cache. *)

\* A step of the peers changes what is cached for at most the piece written to.
LEMMA PeersCached ==
  ASSUME Placed, Peers, NEW q \in Pieces, Held(q)' # NoObj
  PROVE  Kept(q) \/ Written(q)
<1>t. /\ cache_piece \in [Pieces -> Objs \cup {NoObj}] /\ NoObj \notin Objs
      /\ state \in [Objs -> PieceStates]
  BY ConstantsAssumption DEF Placed, TypeOK, PiecesType
<1>1. ASSUME NEW p \in Pieces, NEW b \in Blocks, NEW v \in {"good", "bad"}, Write(p, b, v)
      PROVE  Kept(q) \/ Written(q)
  <2>1. PICK o \in Objs, c \in [Pieces -> Objs \cup {NoObj}], d \in Content :
          /\ Free(o) /\ WriteInto(o, d, p, b, v)
          /\ cache_piece' = [c EXCEPT ![p] = o]
          /\ \A r \in Pieces : r # p => c[r] # o
          /\ \A r \in Pieces : c[r] = cache_piece[r] \/ c[r] = NoObj
    BY <1>1, WriteTarget
  <2>2. \E st \in {"CHECKING_SHA1", "NOT_CHECKED"} : state' = [state EXCEPT ![o] = st]
    BY <2>1 DEF WriteInto
  <2>3. CASE q = p
    <3>1. Held(q)' = o
      BY <2>1, <2>3 DEF Held
    <3>2. HeldState(q)' \in {"NOT_CHECKED", "CHECKING_SHA1"}
      BY <1>t, <2>2, <3>1 DEF Held, HeldState
    <3> QED BY <1>1, <2>3, <3>2 DEF Written
  <2>4. CASE q # p
    <3>1. cache_piece'[q] = c[q] /\ c[q] # o /\ c[q] = cache_piece[q]
      BY <2>1, <2>4 DEF Held
    <3> QED BY <1>t, <2>2, <3>1 DEF Kept, Held, HeldState
  <2> QED BY <2>3, <2>4
<1>2. ASSUME NEW p \in Pieces, NEW r \in Readers, NEW b \in Ranges \cup {Beyond},
             AsyncReadBlock(r, p, b)
      PROVE  Kept(q)
  <2>1. CASE FirstReader(p)
    <3>1. PICK new \in FetchNewPiece :
            /\ cache_piece' = new[2]
            /\ state' = [state EXCEPT ![new[1]] = "NOT_CHECKED"]
      BY <1>2, <2>1 DEF AsyncReadBlock
    <3>2. /\ new[2][q] # new[1] /\ (new[2][q] = cache_piece[q] \/ new[2][q] = NoObj)
      BY FetchIsFree
    <3>3. cache_piece'[q] = cache_piece[q] /\ cache_piece[q] # new[1]
      BY <3>1, <3>2 DEF Held
    <3> QED BY <1>t, <3>1, <3>3 DEF Kept, Held, HeldState
  <2>2. CASE ~FirstReader(p)
    BY <1>2, <2>2 DEF AsyncReadBlock, pieceVars, Kept, Held, HeldState
  <2> QED BY <2>1, <2>2
<1>3. ASSUME NEW p \in Pieces, NEW r \in Readers, NEW b \in Ranges \cup {Beyond},
             ReadNow(r, p, b)
      PROVE  Kept(q)
  BY <1>3 DEF ReadNow, pieceVars, Kept, Held, HeldState
<1>4. ASSUME NEW p \in Pieces, MarkDownloading(p)
      PROVE  Kept(q)
  BY <1>4 DEF MarkDownloading, pieceVars, Kept, Held, HeldState
<1> QED BY <1>1, <1>2, <1>3, <1>4 DEF Peers

\* A pass of ProcessCache changes what is cached in four ways.
LEMMA CacheCached ==
  ASSUME Placed, Cache, NEW q \in Pieces, Held(q)' # NoObj
  PROVE  Kept(q) \/ ReadIn(q) \/ Checked(q) \/ Saved(q)
<1>t. /\ cache_piece \in [Pieces -> Objs \cup {NoObj}] /\ NoObj \notin Objs
      /\ state \in [Objs -> PieceStates] /\ read_res \in [Pieces -> Objs \cup {NoObj}]
      /\ write_res \in [Pieces -> Nat]
  BY ConstantsAssumption DEF Placed, TypeOK, PiecesType, FileType
<1>1. CASE ProcessAsyncReadOps
  <2>1. /\ \A o \in Objs : state'[o] = IF \E p \in Pieces : read_res[p] # NoObj /\ read_res[p] = o
                                         THEN "WRITED" ELSE state[o]
        /\ cache_piece'[q] = IF read_res[q] # NoObj /\ cache_piece[q] = NoObj
                               THEN read_res[q] ELSE cache_piece[q]
    <3> DEFINE read == {p \in Pieces : read_res[p] # NoObj}
               inserted == {p \in read : cache_piece[p] = NoObj}
    <3>1. /\ state' = [o \in Objs |->
                IF \E p \in read : read_res[p] = o THEN "WRITED" ELSE state[o]]
          /\ cache_piece' = [p \in Pieces |->
                IF p \in inserted THEN read_res[p] ELSE cache_piece[p]]
      BY <1>1 DEF ProcessAsyncReadOps
    <3>2. /\ \A p \in Pieces : p \in inserted <=> read_res[p] # NoObj /\ cache_piece[p] = NoObj
          /\ \A o : (\E p \in read : read_res[p] = o)
                      <=> (\E p \in Pieces : read_res[p] # NoObj /\ read_res[p] = o)
      OBVIOUS
    <3> HIDE DEF read, inserted
    <3> QED BY <3>1, <3>2
  <2>2. CASE cache_piece[q] = NoObj
    <3>1. read_res[q] # NoObj /\ read_res[q] \in Objs /\ cache_piece'[q] = read_res[q]
      BY <1>t, <2>1, <2>2 DEF Held
    <3>2. state'[read_res[q]] = "WRITED"
      BY <2>1, <3>1
    <3> QED BY <1>1, <3>1, <3>2 DEF ReadIn, Held, HeldState
  <2>3. CASE cache_piece[q] # NoObj
    <3>1. cache_piece'[q] = cache_piece[q] /\ cache_piece[q] \in Objs
      BY <1>t, <2>1, <2>3
    <3>2. \A p \in Pieces : read_res[p] # cache_piece[q]
      BY <1>t, <3>1 DEF Placed, ReadsApart
    <3>3. state'[cache_piece[q]] = state[cache_piece[q]]
      BY <2>1, <3>1, <3>2
    <3> QED BY <3>1, <3>3 DEF Kept, Held, HeldState
  <2> QED BY <2>2, <2>3
<1>2. CASE CompleteAsyncCheckPiece
  <2> DEFINE p == sha_list[1][1]
             o == cache_piece[p]
  <2>1. p \in Pieces /\ o \in Objs /\ state[o] = "CHECKING_SHA1"
    BY <1>2, FirstResult
  <2>2. /\ cache_piece' = cache_piece
        /\ \/ /\ sha_list[1][2] /\ state' = [state EXCEPT ![o] = "CHECK_SHA1_OK"]
              /\ QueueOps("WRITE", p, o)
           \/ state' = [state EXCEPT ![o] = "NOT_CHECKED"]
    BY <1>2, <2>1, <1>t DEF CompleteAsyncCheckPiece
  <2>3. CASE q = p
    <3> HIDE DEF p
    <3> QED BY <1>2, <1>t, <2>1, <2>2, <2>3 DEF Checked, Held, HeldState, p
  <2>4. CASE q # p
    <3>1. cache_piece[q] # o
      BY <2>1, <2>4, <1>t DEF Placed, CacheApart
    <3> HIDE DEF o, p
    <3> QED BY <1>t, <2>2, <3>1 DEF Kept, Held, HeldState
  <2> QED BY <2>3, <2>4
<1>3. CASE ProcessAsyncWritePiece
  <2>1. /\ cache_piece' = cache_piece
        /\ \A o \in Objs : state'[o] = IF \E p \in Pieces : write_res[p] > 0 /\ cache_piece[p] = o
                                         THEN "WRITED" ELSE state[o]
    <3> DEFINE written == {p \in Pieces : write_res[p] > 0}
    <3>1. /\ cache_piece' = cache_piece
          /\ state' = [o \in Objs |->
                IF \E p \in written : cache_piece[p] = o THEN "WRITED" ELSE state[o]]
      BY <1>3 DEF ProcessAsyncWritePiece
    <3>2. \A o : (\E p \in written : cache_piece[p] = o)
                  <=> (\E p \in Pieces : write_res[p] > 0 /\ cache_piece[p] = o)
      OBVIOUS
    <3> HIDE DEF written
    <3> QED BY <3>1, <3>2
  <2>2. cache_piece[q] \in Objs
    BY <1>t, <2>1 DEF Held
  <2>3. CASE write_res[q] > 0
    <3>1. state[cache_piece[q]] = "CHECK_SHA1_OK"
      BY <2>3 DEF Placed, WritesTracked
    <3> QED BY <1>3, <2>1, <2>2, <2>3, <3>1 DEF Saved, Held, HeldState
  <2>4. CASE ~(write_res[q] > 0)
    <3>1. \A p \in Pieces : write_res[p] > 0 => cache_piece[p] # cache_piece[q]
      BY <1>t, <2>2, <2>4 DEF Placed, CacheApart
    <3> QED BY <2>1, <2>2, <3>1 DEF Kept, Held, HeldState
  <2> QED BY <2>3, <2>4
<1>4. CASE FreeCachePiece
  <2>1. PICK gone \in SUBSET WritedPieces :
          LET freed == {cache_piece[p] : p \in gone} IN
          /\ cache_piece' = [p \in Pieces |-> IF p \in gone THEN NoObj ELSE cache_piece[p]]
          /\ state' = [o \in Objs |-> IF o \in freed THEN "NOT_CHECKED" ELSE state[o]]
    BY <1>4 DEF FreeCachePiece, Evictions
  <2>2. q \notin gone /\ cache_piece'[q] = cache_piece[q] /\ cache_piece[q] \in Objs
    BY <1>t, <2>1 DEF Held
  <2>3. \A p \in gone : cache_piece[p] # cache_piece[q]
    BY <1>t, <2>2 DEF Placed, CacheApart, WritedPieces, Cached
  <2> QED BY <2>1, <2>2, <2>3 DEF Kept, Held, HeldState
<1>5. CASE ProcessCache \/ ProcessAsyncCheckPiece
  BY <1>5 DEF ProcessCache, ProcessAsyncCheckPiece, pieceVars, Kept, Held, HeldState
<1> QED BY <1>1, <1>2, <1>3, <1>4, <1>5 DEF Cache

\* What is cached for q after a step was there before, in the same state, or got
\* there in one of four ways.
LEMMA StepCached ==
  ASSUME Placed, [Next]_vars, NEW q \in Pieces, Held(q)' # NoObj
  PROVE  Kept(q) \/ Written(q) \/ ReadIn(q) \/ Checked(q) \/ Saved(q)
<1>1. ASSUME Io \/ Sha \/ Destroy \/ Gone \/ UNCHANGED vars PROVE Kept(q)
  BY <1>1 DEF Io, IoWake, IoSwap, CompleteOperation, CollectResult, Sha, ShaWake, ShaSwap,
              CalculateSha1, ShaPublish, Destroy, StopSha1Calc, StopFileService, Join, Gone,
              vars, pieceVars, Kept, Held, HeldState
<1> QED BY <1>1, PeersCached, CacheCached DEF Next

\* A piece whose write is collected becomes WRITED.
LEMMA WrittenIsWrited ==
  ASSUME Placed, ProcessAsyncWritePiece, NEW q \in Pieces, write_res[q] > 0
  PROVE  Held(q)' = Held(q) /\ HeldState(q)' = "WRITED"
<1>1. cache_piece' = cache_piece
  BY DEF ProcessAsyncWritePiece
<1>2. cache_piece[q] \in Objs
  BY DEF Placed, WritesTracked, TypeOK, PiecesType
<1>3. state' = [o \in Objs |->
         IF \E p \in {p \in Pieces : write_res[p] > 0} : cache_piece[p] = o
           THEN "WRITED" ELSE state[o]]
  BY DEF ProcessAsyncWritePiece
<1> QED BY <1>1, <1>2, <1>3 DEF Held, HeldState

\* A piece whose result is handled leaves CHECKING_SHA1, for NOT_CHECKED when the
\* hash does not match.
LEMMA ResultHandled ==
  ASSUME Placed, CompleteAsyncCheckPiece, NEW q \in Pieces, q = sha_list[1][1]
  PROVE  /\ Held(q)' = Held(q) /\ HeldState(q)' \in {"CHECK_SHA1_OK", "NOT_CHECKED"}
         /\ (~sha_list[1][2] => HeldState(q)' = "NOT_CHECKED")
<1>1. cache_piece[q] \in Objs
  BY FirstResult
<1>2. state \in [Objs -> PieceStates] /\ NoObj \notin Objs
  BY ConstantsAssumption DEF Placed, TypeOK, PiecesType
<1>3. cache_piece' = cache_piece
  BY DEF CompleteAsyncCheckPiece
<1>4. \/ sha_list[1][2] /\ state' = [state EXCEPT ![cache_piece[q]] = "CHECK_SHA1_OK"]
      \/ ~sha_list[1][2] /\ state' = [state EXCEPT ![cache_piece[q]] = "NOT_CHECKED"]
  BY <1>1, <1>2 DEF CompleteAsyncCheckPiece
<1> QED BY <1>1, <1>2, <1>3, <1>4 DEF Held, HeldState

-----------------------------------------------------------------------------
(* What is in a pipeline. *)

\* A piece lies in at least one file, so at least one operation is queued for it.
LEMMA OpsOfCovers ==
  ASSUME NEW kind, NEW p \in Pieces, NEW o, NEW b \in Blocks
  PROVE  \E x \in Range(OpsOf(kind, p, o)) :
           x.op = kind /\ x.piece = p /\ x.obj = o /\ b \in x.blocks
<1>1. Extent[p] \in Seq(SUBSET Blocks) /\ UNION Range(Extent[p]) = Blocks
  BY ConstantsAssumption
<1>2. DOMAIN Extent[p] = 1 .. Len(Extent[p])
  BY <1>1, LenProperties
<1>3. PICK i \in 1 .. Len(Extent[p]) : b \in Extent[p][i]
  BY <1>1, <1>2 DEF Range
<1> DEFINE x == [op |-> kind, piece |-> p, obj |-> o, blocks |-> Extent[p][i]]
<1>4. x \in Range(OpsOf(kind, p, o))
  BY DEF OpsOf, Range
<1>5. x.op = kind /\ x.piece = p /\ x.obj = o /\ b \in x.blocks
  BY <1>3
<1> QED BY <1>4, <1>5

\* After the operations of p are queued the queue has one of them, and all that
\* it had before.
LEMMA HasQueued ==
  ASSUME NEW s \in Seq(Operation), NEW kind \in {"READ", "WRITE"}, NEW p \in Pieces,
         NEW o \in Objs
  PROVE  /\ Has(s \o OpsOf(kind, p, o), kind, p, o)
         /\ \A k, q, u : Has(s, k, q, u) => Has(s \o OpsOf(kind, p, o), k, q, u)
<1>1. Range(s \o OpsOf(kind, p, o)) = Range(s) \cup Range(OpsOf(kind, p, o))
  BY OpsOfType, RangeConcatenation
<1>2. PICK b \in Blocks : TRUE
  BY ConstantsAssumption
<1>3. \E x \in Range(OpsOf(kind, p, o)) : x.op = kind /\ x.piece = p /\ x.obj = o
  BY <1>2, OpsOfCovers
<1> QED BY <1>1, <1>3 DEF Has

\* The writes of a queue, as Has sees them.
LEMMA WritesHas ==
  ASSUME NEW s \in Seq(Operation), NEW q
  PROVE  (\E i \in DOMAIN s : s[i].op = "WRITE" /\ s[i].piece = q)
           <=> \E o \in Objs : Has(s, "WRITE", q, o)
<1>1. ASSUME NEW i \in DOMAIN s, s[i].op = "WRITE", s[i].piece = q
      PROVE  \E o \in Objs : Has(s, "WRITE", q, o)
  <2>1. s[i] \in Range(s)
    BY DEF Range
  <2>2. s[i] \in Operation
    BY <2>1, RangeOfSeq
  <2>3. s[i].obj \in Objs
    BY <2>2 DEF Operation
  <2> QED BY <1>1, <2>1, <2>3 DEF Has
<1>2. ASSUME NEW o \in Objs, Has(s, "WRITE", q, o)
      PROVE  \E i \in DOMAIN s : s[i].op = "WRITE" /\ s[i].piece = q
  BY <1>2 DEF Has, Range
<1> QED BY <1>1, <1>2

\* A write that is pending stays so until the main thread has its result.
LEMMA StaysPending ==
  ASSUME Placed, [Next]_vars, NEW q \in Pieces, WritePending(q)
  PROVE  WritePending(q)' \/ (ProcessAsyncWritePiece /\ write_res[q] > 0)
<1>t. /\ TypeOK /\ operations \in Seq(Operation) /\ io_batch \in Seq(Operation)
      /\ write_res \in [Pieces -> Nat]
  BY DEF Placed, TypeOK, FileType, IoType
<1>1. ASSUME UNCHANGED <<operations, io_batch, write_res>> PROVE WritePending(q)'
  BY <1>1 DEF WritePending
<1>2. ASSUME NEW kind \in {"READ", "WRITE"}, NEW p \in Pieces, NEW o \in Objs,
             QueueOps(kind, p, o), UNCHANGED <<io_batch, write_res>>
      PROVE  WritePending(q)'
  <2>1. operations' = operations \o OpsOf(kind, p, o) /\ operations' \in Seq(Operation)
    BY <1>t, <1>2, OpsOfType, ConcatProperties DEF QueueOps
  <2>2. ASSUME NEW u \in Objs, Has(operations, "WRITE", q, u)
        PROVE  Has(operations', "WRITE", q, u)
    BY <1>t, <2>1, <2>2, HasQueued
  <2>3. ASSUME \E i \in DOMAIN operations : operations[i].op = "WRITE" /\ operations[i].piece = q
        PROVE  \E i \in DOMAIN operations' : operations'[i].op = "WRITE" /\ operations'[i].piece = q
    <3>1. \E u \in Objs : Has(operations, "WRITE", q, u)
      BY <1>t, <2>3, WritesHas
    <3> QED BY <2>1, <2>2, <3>1, WritesHas
  <2> QED BY <1>2, <2>3 DEF WritePending
<1>3. ASSUME IoSwap PROVE WritePending(q)'
  <2>1. io_batch = <<>> /\ io_batch' = operations /\ write_res' = write_res
    BY <1>3, <1>t DEF IoSwap, TypeOK, IoType
  <2> QED BY <2>1 DEF WritePending
<1>4. ASSUME CollectResult PROVE WritePending(q)'
  <2> DEFINE WritesOf(p) == {i \in DOMAIN io_batch :
                               io_batch[i].op = "WRITE" /\ io_batch[i].piece = p}
  <2>1. /\ operations' = operations
        /\ write_res' = [p \in Pieces |-> write_res[p] + Cardinality(WritesOf(p))]
    BY <1>4 DEF CollectResult, Collected, BatchOf
  <2>2. IsFiniteSet(WritesOf(q)) /\ Cardinality(WritesOf(q)) \in Nat
    <3>1. DOMAIN io_batch = 1 .. Len(io_batch) /\ Len(io_batch) \in Nat
      BY <1>t, LenProperties
    <3> DEFINE n == Len(io_batch)
    <3> HIDE DEF n
    <3>2. IsFiniteSet(1 .. n)
      BY <3>1, FS_Interval DEF n
    <3>3. WritesOf(q) \subseteq 1 .. n
      BY <3>1 DEF n
    <3> HIDE DEF WritesOf
    <3> QED BY <3>2, <3>3, FS_Subset, FS_CardinalityType
  <2>3. CASE WritesOf(q) # {}
    <3>1. Cardinality(WritesOf(q)) # 0
      BY <2>2, <2>3, FS_EmptySet
    <3> HIDE DEF WritesOf
    <3>2. write_res'[q] > 0
      BY <1>t, <2>1, <2>2, <3>1
    <3> QED BY <3>2 DEF WritePending
  <2>4. CASE WritesOf(q) = {}
    <3>1. Cardinality(WritesOf(q)) = 0
      BY <2>4, FS_EmptySet
    <3>2. ~\E i \in DOMAIN io_batch : io_batch[i].op = "WRITE" /\ io_batch[i].piece = q
      BY <2>4
    <3> HIDE DEF WritesOf
    <3>3. write_res'[q] = write_res[q]
      BY <1>t, <2>1, <3>1
    <3> QED BY <2>1, <3>2, <3>3 DEF WritePending
  <2> QED BY <2>3, <2>4
<1>5. ASSUME Peers PROVE WritePending(q)'
  <2>1. ASSUME NEW p \in Pieces, NEW r \in Readers, NEW b \in Ranges \cup {Beyond},
               AsyncReadBlock(r, p, b)
        PROVE  WritePending(q)'
    <3>1. UNCHANGED <<io_batch, write_res>>
      BY <2>1 DEF AsyncReadBlock, ioVars
    <3>2. operations' = operations \/ \E o \in Objs : QueueOps("READ", p, o)
      BY <2>1, FetchIsFree DEF AsyncReadBlock
    <3> QED BY <1>1, <1>2, <3>1, <3>2
  <2>2. ASSUME NEW p \in Pieces, NEW r \in Readers, NEW b \in Ranges \cup {Beyond},
               ReadNow(r, p, b)
        PROVE  WritePending(q)'
    BY <1>1, <2>2 DEF ReadNow, fileVars, ioVars
  <2>3. ASSUME NEW p \in Pieces, NEW b \in Blocks, NEW v \in {"good", "bad"},
               Write(p, b, v)
        PROVE  WritePending(q)'
    BY <1>1, <2>3 DEF Write, fileVars, ioVars
  <2>4. ASSUME NEW p \in Pieces, MarkDownloading(p)
        PROVE  WritePending(q)'
    BY <1>1, <2>4 DEF MarkDownloading, fileVars, ioVars
  <2> QED BY <1>5, <2>1, <2>2, <2>3, <2>4 DEF Peers
<1>6. ASSUME CompleteAsyncCheckPiece PROVE WritePending(q)'
  <2>1. UNCHANGED <<io_batch, write_res>>
    BY <1>6 DEF CompleteAsyncCheckPiece, ioVars
  <2>2. operations' = operations \/ \E p \in Pieces, o \in Objs : QueueOps("WRITE", p, o)
    BY <1>6, FirstResult DEF CompleteAsyncCheckPiece
  <2> QED BY <1>1, <1>2, <2>1, <2>2
<1>7. ASSUME ProcessAsyncWritePiece, ~(write_res[q] > 0) PROVE WritePending(q)'
  BY <1>7 DEF ProcessAsyncWritePiece, ioVars, WritePending
<1>8. CASE \/ ProcessCache \/ ProcessAsyncReadOps \/ ProcessAsyncCheckPiece \/ FreeCachePiece
           \/ IoWake \/ CompleteOperation \/ Sha \/ Destroy \/ Gone \/ UNCHANGED vars
  BY <1>1, <1>8 DEF ProcessCache, ProcessAsyncReadOps, ProcessAsyncCheckPiece, FreeCachePiece,
     IoWake, CompleteOperation, Sha, ShaWake, ShaSwap, CalculateSha1, ShaPublish, Destroy,
     StopSha1Calc, StopFileService, Join, Gone, vars, fileVars, ioVars
<1> QED BY <1>3, <1>4, <1>5, <1>6, <1>7, <1>8 DEF Next, Cache, Io

\* What is in the hash pipeline stays there until its result is handled.
LEMMA StaysInSha ==
  ASSUME Placed, [Next]_vars, NEW q \in InSha
  PROVE  q \in InSha' \/ (CompleteAsyncCheckPiece /\ q = sha_list[1][1])
<1>t. /\ TypeOK /\ piece_list \in Seq(Pieces \X Objs) /\ sha_batch \in Seq(Pieces \X Objs)
      /\ sha_out \in Seq(Pieces \X BOOLEAN) /\ piece_sha1_list \in Seq(Pieces \X BOOLEAN)
      /\ sha_list \in Seq(Pieces \X BOOLEAN)
  BY DEF Placed, TypeOK, ListType, ShaType, MainType
<1>n. Of(<<>>) = {}
  BY RangeEmpty DEF Of
<1>1. ASSUME NEW p \in Pieces, NEW b \in Blocks, NEW v \in {"good", "bad"}, Write(p, b, v)
      PROVE  q \in InSha'
  <2>1. PICK o \in Objs, c \in [Pieces -> Objs \cup {NoObj}], d \in Content :
          WriteInto(o, d, p, b, v)
    BY <1>1, WriteTarget
  <2>2. piece_list' = piece_list \/ piece_list' = Append(piece_list, <<p, o>>)
    BY <2>1 DEF WriteInto, AddPiece
  <2>3. Of(piece_list) \subseteq Of(piece_list')
    <3>1. <<p, o>> \in Pieces \X Objs
      OBVIOUS
    <3>2. piece_list \in Seq(Pieces \X Objs)
      BY <1>t
    <3> DEFINE x == <<p, o>>
    <3>3. x \in Pieces \X Objs
      BY <3>1
    <3> HIDE DEF x
    <3>4. Range(Append(piece_list, x)) = Range(piece_list) \cup {x}
      BY <3>2, <3>3, RangeAppend
    <3>5. Of(piece_list) \subseteq Of(Append(piece_list, x))
      BY <3>4 DEF Of
    <3> QED BY <2>2, <3>5 DEF x
  <2>4. UNCHANGED <<sha_batch, sha_out, piece_sha1_list, sha_list>>
    BY <1>1 DEF Write, shaVars
  <2> QED BY <2>3, <2>4 DEF InSha
<1>2. ASSUME CompleteAsyncCheckPiece, q # sha_list[1][1] PROVE q \in InSha'
  <2>1. Of(Tail(sha_list)) = Of(sha_list) \ {sha_list[1][1]}
    BY <1>2, FirstResult
  <2>2. sha_list' = Tail(sha_list) /\ UNCHANGED <<piece_list, sha_batch, sha_out, piece_sha1_list>>
    BY <1>2 DEF CompleteAsyncCheckPiece, listVars, shaVars
  <2> QED BY <1>2, <2>1, <2>2 DEF InSha
<1>3. ASSUME ProcessAsyncCheckPiece PROVE q \in InSha'
  <2>1. sha_list = <<>> /\ sha_list' = piece_sha1_list
          /\ UNCHANGED <<piece_list, sha_batch, sha_out>>
    BY <1>3, <1>t DEF ProcessAsyncCheckPiece, TypeOK, MainType, shaVars
  <2> QED BY <1>n, <2>1 DEF InSha
<1>4. ASSUME ShaSwap PROVE q \in InSha'
  <2>1. sha_batch = <<>> /\ sha_batch' = piece_list
          /\ UNCHANGED <<sha_list, piece_sha1_list, sha_out>>
    BY <1>4 DEF ShaSwap, Placed, HashTracked
  <2> QED BY <1>n, <2>1 DEF InSha
<1>5. ASSUME CalculateSha1 PROVE q \in InSha'
  <2> DEFINE p == sha_batch[1][1]
             m == HashMatches(sha_batch[1][2])
  <2>1. /\ sha_batch # <<>> /\ sha_batch' = Tail(sha_batch)
        /\ sha_out' = Append(sha_out, <<p, m>>)
        /\ UNCHANGED <<sha_list, piece_sha1_list, piece_list>>
    BY <1>5 DEF CalculateSha1, listVars
  <2>2. Of(sha_batch) = {p} \cup Of(Tail(sha_batch)) /\ p \in Pieces
    <3>1. Range(sha_batch) = {sha_batch[1]} \cup Range(Tail(sha_batch))
      BY <1>t, <2>1, RangeTail
    <3>2. sha_batch[1] \in Pieces \X Objs
      BY <1>t, <3>1, RangeOfSeq
    <3> QED BY <3>1, <3>2 DEF Of
  <2>3. m \in BOOLEAN
    BY DEF HashMatches, Verified
  <2> DEFINE x == <<p, m>>
  <2>4. x \in Pieces \X BOOLEAN /\ x[1] = p /\ sha_out \in Seq(Pieces \X BOOLEAN)
    BY <1>t, <2>2, <2>3
  <2> HIDE DEF p, m, x
  <2>5. Of(sha_out') = Of(sha_out) \cup {p}
    <3>1. Range(Append(sha_out, x)) = Range(sha_out) \cup {x}
      BY <2>4, RangeAppend
    <3>2. sha_out' = Append(sha_out, x)
      BY <2>1 DEF x
    <3> QED BY <2>4, <3>1, <3>2 DEF Of
  <2> QED BY <2>1, <2>2, <2>5 DEF InSha
<1>6. ASSUME ShaPublish PROVE q \in InSha'
  <2>1. /\ piece_sha1_list' = piece_sha1_list \o sha_out /\ sha_batch' = sha_batch
        /\ UNCHANGED <<sha_list, piece_list>>
    BY <1>6 DEF ShaPublish
  <2>2. Range(piece_sha1_list \o sha_out) = Range(piece_sha1_list) \cup Range(sha_out)
    BY <1>t, RangeConcatenation
  <2>3. Of(piece_sha1_list') = Of(piece_sha1_list) \cup Of(sha_out)
    BY <2>1, <2>2 DEF Of
  <2> QED BY <2>1, <2>3 DEF InSha
<1>7. ASSUME UNCHANGED <<piece_list, sha_batch, sha_out, piece_sha1_list, sha_list>>
      PROVE  q \in InSha'
  BY <1>7 DEF InSha
<1>8. ASSUME Peers PROVE q \in InSha'
  <2>1. ASSUME NEW p \in Pieces, NEW r \in Readers, NEW b \in Ranges \cup {Beyond},
               ReadNow(r, p, b) \/ AsyncReadBlock(r, p, b)
        PROVE  q \in InSha'
    BY <1>7, <2>1 DEF ReadNow, AsyncReadBlock, listVars, shaVars
  <2>2. ASSUME NEW p \in Pieces, MarkDownloading(p) PROVE q \in InSha'
    BY <1>7, <2>2 DEF MarkDownloading, listVars, shaVars
  <2> QED BY <1>1, <1>8, <2>1, <2>2 DEF Peers
<1>9. CASE \/ ProcessCache \/ ProcessAsyncReadOps \/ ProcessAsyncWritePiece \/ FreeCachePiece
           \/ Io \/ ShaWake \/ Destroy \/ Gone \/ UNCHANGED vars
  BY <1>7, <1>9 DEF ProcessCache, ProcessAsyncReadOps, ProcessAsyncWritePiece, FreeCachePiece,
     Io, IoWake, IoSwap, CompleteOperation, CollectResult, ShaWake, Destroy, StopSha1Calc,
     StopFileService, Join, Gone, vars, listVars, shaVars
<1> QED BY <1>2, <1>3, <1>4, <1>5, <1>6, <1>8, <1>9 DEF Next, Cache, Sha

-----------------------------------------------------------------------------
(* The state of a piece says in which pipeline it is. *)

\* The converse of what Placed says of the pipelines: a cached piece that is
\* marked as in one of them is in it.
Tracked ==
  \A q \in Pieces : Held(q) # NoObj =>
    /\ (HeldState(q) = "CHECKING_SHA1" => q \in InSha)
    /\ (HeldState(q) = "CHECK_SHA1_OK" => WritePending(q))

\* A piece whose last block a peer sent enters the hash pipeline.
LEMMA WrittenInSha ==
  ASSUME Placed, NEW q \in Pieces, Written(q), HeldState(q)' = "CHECKING_SHA1"
  PROVE  q \in InSha'
<1>1. PICK b \in Blocks, v \in {"good", "bad"} : Write(q, b, v)
  BY DEF Written
<1>2. PICK o \in Objs, c \in [Pieces -> Objs \cup {NoObj}], d \in Content :
        WriteInto(o, d, q, b, v) /\ cache_piece' = [c EXCEPT ![q] = o]
  BY <1>1, WriteTarget
<1>3. Held(q)' = o
  BY <1>2 DEF Held
<1>4. state'[o] = "CHECKING_SHA1" /\ state \in [Objs -> PieceStates]
        /\ piece_list \in Seq(Pieces \X Objs)
  BY <1>3 DEF Held, HeldState, Placed, TypeOK, PiecesType, ListType
<1>5. piece_list' = Append(piece_list, <<q, o>>)
  BY <1>2, <1>4 DEF WriteInto, AddPiece
<1> DEFINE x == <<q, o>>
<1>6. x \in Pieces \X Objs /\ x[1] = q
  OBVIOUS
<1> HIDE DEF x
<1>7. Range(Append(piece_list, x)) = Range(piece_list) \cup {x}
  BY <1>4, <1>6, RangeAppend
<1>8. q \in Of(piece_list')
  BY <1>5, <1>6, <1>7 DEF Of, x
<1> QED BY <1>8 DEF InSha

\* A piece that passed its hash enters the write pipeline.
LEMMA CheckedPending ==
  ASSUME Placed, NEW q \in Pieces, Checked(q), HeldState(q)' = "CHECK_SHA1_OK"
  PROVE  WritePending(q)'
<1>1. QueueOps("WRITE", q, Held(q)) /\ Held(q) \in Objs
  BY FirstResult DEF Checked, Held
<1>2. operations \in Seq(Operation)
  BY DEF Placed, TypeOK, FileType
<1>3. operations' = operations \o OpsOf("WRITE", q, Held(q)) /\ operations' \in Seq(Operation)
  BY <1>1, <1>2, OpsOfType, ConcatProperties DEF QueueOps
<1>4. Has(operations', "WRITE", q, Held(q))
  BY <1>1, <1>2, <1>3, HasQueued
<1>5. \E i \in DOMAIN operations' : operations'[i].op = "WRITE" /\ operations'[i].piece = q
  BY <1>1, <1>3, <1>4, WritesHas
<1> QED BY <1>5 DEF WritePending

\* Every step keeps it.
LEMMA StepTracked ==
  ASSUME Placed, Tracked, [Next]_vars
  PROVE  Tracked'
<1> SUFFICES ASSUME NEW q \in Pieces, Held(q)' # NoObj
             PROVE  /\ (HeldState(q)' = "CHECKING_SHA1" => q \in InSha')
                    /\ (HeldState(q)' = "CHECK_SHA1_OK" => WritePending(q)')
  BY DEF Tracked
<1>1. CASE Kept(q)
  <2>1. ASSUME HeldState(q)' = "CHECKING_SHA1" PROVE q \in InSha'
    <3>1. q \in InSha /\ HeldState(q) = "CHECKING_SHA1"
      BY <1>1, <2>1 DEF Kept, Tracked
    <3>2. CASE CompleteAsyncCheckPiece /\ q = sha_list[1][1]
      BY <2>1, <3>2, ResultHandled
    <3> QED BY <3>1, <3>2, StaysInSha
  <2>2. ASSUME HeldState(q)' = "CHECK_SHA1_OK" PROVE WritePending(q)'
    <3>1. WritePending(q) /\ HeldState(q) = "CHECK_SHA1_OK"
      BY <1>1, <2>2 DEF Kept, Tracked
    <3>2. CASE ProcessAsyncWritePiece /\ write_res[q] > 0
      BY <2>2, <3>2, WrittenIsWrited
    <3> QED BY <3>1, <3>2, StaysPending
  <2> QED BY <2>1, <2>2
<1>2. CASE Written(q)
  BY <1>2, WrittenInSha DEF Written
<1>3. CASE ReadIn(q) \/ Saved(q)
  BY <1>3 DEF ReadIn, Saved
<1>4. CASE Checked(q)
  BY <1>4, CheckedPending DEF Checked
<1> QED BY <1>1, <1>2, <1>3, <1>4, StepCached

\* Tracked holds initially.
LEMMA InitTracked == Init => Tracked
BY DEF Init, Tracked, Held

\* A sequence that has every element once.
Distinct(s) == \A i, j \in DOMAIN s : s[i] = s[j] => i = j

\* Sequences with different elements, joined, have every element once.
LEMMA DistinctConcat ==
  ASSUME NEW S, NEW s \in Seq(S), NEW t \in Seq(S), Distinct(s), Distinct(t),
         Range(s) \cap Range(t) = {}
  PROVE  s \o t \in Seq(S) /\ Distinct(s \o t) /\ Range(s \o t) = Range(s) \cup Range(t)
<1> DEFINE m == Len(s)
           n == Len(t)
           u == s \o t
<1>1. /\ m \in Nat /\ DOMAIN s = 1 .. m /\ n \in Nat /\ DOMAIN t = 1 .. n
      /\ u \in Seq(S) /\ Len(u) = m + n
      /\ \A i \in 1 .. m + n : u[i] = IF i <= m THEN s[i] ELSE t[i - m]
  BY LenProperties, ConcatProperties
<1>2. DOMAIN u = 1 .. Len(u)
  BY <1>1, LenProperties
<1>3. Range(u) = Range(s) \cup Range(t)
  BY RangeConcatenation
<1> HIDE DEF m, n, u
<1>4. DOMAIN u = 1 .. m + n
  BY <1>1, <1>2
<1>5. \A i \in 1 .. m, j \in 1 .. n : s[i] # t[j]
  <2>1. \A i \in 1 .. m : s[i] \in Range(s)
    BY <1>1 DEF Range
  <2>2. \A j \in 1 .. n : t[j] \in Range(t)
    BY <1>1 DEF Range
  <2> QED BY <2>1, <2>2
<1>6. \A i \in 1 .. m + n : \/ i \in 1 .. m /\ u[i] = s[i]
                            \/ i > m /\ i - m \in 1 .. n /\ u[i] = t[i - m]
  BY <1>1
<1>7. ASSUME NEW i \in 1 .. m + n, NEW j \in 1 .. m + n, u[i] = u[j] PROVE i = j
  <2>1. CASE i \in 1 .. m /\ u[i] = s[i] /\ j \in 1 .. m /\ u[j] = s[j]
    BY <1>1, <1>7, <2>1 DEF Distinct
  <2>2. CASE i \in 1 .. m /\ u[i] = s[i] /\ j - m \in 1 .. n /\ u[j] = t[j - m]
    BY <1>5, <1>7, <2>2
  <2>3. CASE j \in 1 .. m /\ u[j] = s[j] /\ i - m \in 1 .. n /\ u[i] = t[i - m]
    BY <1>5, <1>7, <2>3
  <2>4. CASE i - m \in 1 .. n /\ u[i] = t[i - m] /\ j - m \in 1 .. n /\ u[j] = t[j - m]
    <3>1. i - m = j - m
      BY <1>1, <1>7, <2>4 DEF Distinct
    <3> QED BY <1>1, <3>1
  <2> QED BY <1>6, <2>1, <2>2, <2>3, <2>4
<1>8. Distinct(u)
  BY <1>4, <1>7 DEF Distinct
<1> QED BY <1>1, <1>3, <1>8 DEF u

\* The pieces of a stage, as a sequence.
LEMMA FirstsDistinct ==
  ASSUME NEW T, NEW s \in Seq(Pieces \X T), Once(s)
  PROVE  Firsts(s) \in Seq(Pieces) /\ Distinct(Firsts(s)) /\ Range(Firsts(s)) = Of(s)
<1>1. DOMAIN s = 1 .. Len(s) /\ Len(s) \in Nat /\ \A i \in 1 .. Len(s) : s[i] \in Pieces \X T
  BY LenProperties, ElementOfSeq
<1>2. DOMAIN Firsts(s) = 1 .. Len(s) /\ \A i \in 1 .. Len(s) : Firsts(s)[i] = s[i][1]
  BY <1>1 DEF Firsts
<1>3. Firsts(s) \in Seq(Pieces)
  <2>1. \A i \in 1 .. Len(s) : s[i][1] \in Pieces
    BY <1>1
  <2>2. Firsts(s) = [i \in 1 .. Len(s) |-> s[i][1]]
    BY <1>1 DEF Firsts
  <2> QED BY <1>1, <2>1, <2>2, IsASeq
<1>4. Distinct(Firsts(s))
  BY <1>1, <1>2 DEF Distinct, Once
<1>5. Range(Firsts(s)) = Of(s)
  <2>1. \A x \in Range(Firsts(s)) : x \in Of(s)
    BY <1>1, <1>2 DEF Range, Of
  <2>2. \A x \in Of(s) : x \in Range(Firsts(s))
    BY <1>1, <1>2 DEF Range, Of
  <2> QED BY <2>1, <2>2
<1> QED BY <1>3, <1>4, <1>5

\* The stages of the hash pipeline, joined, have each piece once.
LEMMA ShaPipeDistinct ==
  ASSUME Placed
  PROVE  Distinct(ShaPipe) /\ Range(ShaPipe) = InSha
<1>1. /\ sha_list \in Seq(Pieces \X BOOLEAN) /\ Once(sha_list)
      /\ piece_sha1_list \in Seq(Pieces \X BOOLEAN) /\ Once(piece_sha1_list)
      /\ sha_out \in Seq(Pieces \X BOOLEAN) /\ Once(sha_out)
      /\ sha_batch \in Seq(Pieces \X Objs) /\ Once(sha_batch)
      /\ piece_list \in Seq(Pieces \X Objs) /\ Once(piece_list)
      /\ StagesApart(Of(piece_list), Of(sha_batch), Of(sha_out), Of(piece_sha1_list),
                     Of(sha_list))
  BY DEF Placed, HashTracked, TypeOK, ListType, ShaType, MainType
<1> DEFINE a == Firsts(sha_list)
           b == Firsts(piece_sha1_list)
           c == Firsts(sha_out)
           d == Firsts(sha_batch)
           e == Firsts(piece_list)
<1>2. /\ a \in Seq(Pieces) /\ Distinct(a) /\ Range(a) = Of(sha_list)
      /\ b \in Seq(Pieces) /\ Distinct(b) /\ Range(b) = Of(piece_sha1_list)
      /\ c \in Seq(Pieces) /\ Distinct(c) /\ Range(c) = Of(sha_out)
      /\ d \in Seq(Pieces) /\ Distinct(d) /\ Range(d) = Of(sha_batch)
      /\ e \in Seq(Pieces) /\ Distinct(e) /\ Range(e) = Of(piece_list)
  BY <1>1, FirstsDistinct
<1>3. ShaPipe = a \o b \o c \o d \o e
  BY DEF ShaPipe
<1> HIDE DEF a, b, c, d, e
<1>4. StagesApart(Range(e), Range(d), Range(c), Range(b), Range(a))
  BY <1>1, <1>2
<1>5. /\ a \o b \in Seq(Pieces) /\ Distinct(a \o b) /\ Range(a \o b) = Range(a) \cup Range(b)
  BY <1>2, <1>4, DistinctConcat DEF StagesApart
<1> DEFINE ab == a \o b
<1> HIDE DEF ab
<1>6. /\ ab \o c \in Seq(Pieces) /\ Distinct(ab \o c)
      /\ Range(ab \o c) = Range(a) \cup Range(b) \cup Range(c)
  <2>1. ab \in Seq(Pieces) /\ Distinct(ab) /\ Range(ab) = Range(a) \cup Range(b)
    BY <1>5 DEF ab
  <2>2. Range(ab) \cap Range(c) = {}
    BY <1>4, <2>1 DEF StagesApart
  <2> QED BY <1>2, <2>1, <2>2, DistinctConcat
<1> DEFINE abc == ab \o c
<1> HIDE DEF abc
<1>7. /\ abc \o d \in Seq(Pieces) /\ Distinct(abc \o d)
      /\ Range(abc \o d) = Range(a) \cup Range(b) \cup Range(c) \cup Range(d)
  <2>1. abc \in Seq(Pieces) /\ Distinct(abc) /\ Range(abc) = Range(a) \cup Range(b) \cup Range(c)
    BY <1>6 DEF abc
  <2>2. Range(abc) \cap Range(d) = {}
    BY <1>4, <2>1 DEF StagesApart
  <2> QED BY <1>2, <2>1, <2>2, DistinctConcat
<1> DEFINE abcd == abc \o d
<1> HIDE DEF abcd
<1>8. /\ Distinct(abcd \o e)
      /\ Range(abcd \o e) = Range(a) \cup Range(b) \cup Range(c) \cup Range(d) \cup Range(e)
  <2>1. /\ abcd \in Seq(Pieces) /\ Distinct(abcd)
        /\ Range(abcd) = Range(a) \cup Range(b) \cup Range(c) \cup Range(d)
    BY <1>7 DEF abcd
  <2>2. Range(abcd) \cap Range(e) = {}
    BY <1>4, <2>1 DEF StagesApart
  <2> QED BY <1>2, <2>1, <2>2, DistinctConcat
<1> QED BY <1>2, <1>3, <1>8 DEF InSha, ab, abc, abcd

\* The state of a cached piece says where it is: in the hash pipeline exactly
\* once, in the write pipeline, or in neither; no result is lost on the way
\* between the three threads and none is delivered twice (BitCache.cpp:191-261).
THEOREM StatesTrackPipeline == Spec => []StateTracksPipeline
<1>1. Placed /\ Tracked => StateTracksPipeline
  <2> SUFFICES ASSUME Placed, Tracked, NEW p \in Pieces
               PROVE  LET st == IF p \in Cached THEN state[cache_piece[p]] ELSE "absent"
                          inSha == Cardinality({i \in DOMAIN ShaPipe : ShaPipe[i] = p})
                      IN  /\ inSha = IF st = "CHECKING_SHA1" THEN 1 ELSE 0
                          /\ WritePending(p) <=> st = "CHECK_SHA1_OK"
    BY DEF StateTracksPipeline
  <2> DEFINE st == IF p \in Cached THEN state[cache_piece[p]] ELSE "absent"
             In == {i \in DOMAIN ShaPipe : ShaPipe[i] = p}
  <2>1. Distinct(ShaPipe) /\ Range(ShaPipe) = InSha
    BY ShaPipeDistinct
  <2>2. TypeOK /\ HashTracked /\ WritesTracked /\ NoObj \notin Objs
    BY ConstantsAssumption DEF Placed
  <2>3. ASSUME st = "CHECKING_SHA1" PROVE Cardinality(In) = 1
    <3>1. p \in InSha
      BY <2>3 DEF Tracked, Held, HeldState, Cached
    <3>2. PICK i \in DOMAIN ShaPipe : ShaPipe[i] = p
      BY <2>1, <3>1 DEF Range
    <3>3. In = {i}
      BY <2>1, <3>2 DEF Distinct
    <3> HIDE DEF In, st
    <3> QED BY <3>3, FS_Singleton
  <2>4. ASSUME st # "CHECKING_SHA1" PROVE Cardinality(In) = 0
    <3>1. p \notin InSha
      <4> SUFFICES ASSUME p \in InSha PROVE FALSE
        OBVIOUS
      <4>1. cache_piece[p] \in Objs /\ state[cache_piece[p]] = "CHECKING_SHA1"
        BY <2>2, HashedArePinned DEF InSha
      <4> QED BY <2>2, <2>4, <4>1 DEF Cached
    <3>2. In = {}
      BY <2>1, <3>1 DEF Range
    <3> HIDE DEF In, st
    <3> QED BY <3>2, FS_EmptySet
  <2>5. ASSUME st = "CHECK_SHA1_OK" PROVE WritePending(p)
    BY <2>5 DEF Tracked, Held, HeldState, Cached
  <2>6. ASSUME WritePending(p) PROVE st = "CHECK_SHA1_OK"
    <3>1. operations \in Seq(Operation) /\ io_batch \in Seq(Operation)
      BY <2>2 DEF TypeOK, FileType, IoType
    <3>2. \/ \E o \in Objs : Has(operations, "WRITE", p, o) \/ Has(io_batch, "WRITE", p, o)
          \/ write_res[p] > 0
      BY <2>6, <3>1, WritesHas DEF WritePending
    <3> QED BY <2>2, <3>2 DEF WritesTracked, Cached
  <2> HIDE DEF In, st
  <2>7. Cardinality(In) = IF st = "CHECKING_SHA1" THEN 1 ELSE 0
    BY <2>3, <2>4
  <2> QED BY <2>5, <2>6, <2>7 DEF In, st
<1>2. Init => Placed /\ Tracked
  BY InitPlaced, InitTracked
<1>3. Placed /\ Tracked /\ [Next]_vars => (Placed /\ Tracked)'
  BY StepPlaced, StepTracked
<1> QED BY <1>1, <1>2, <1>3, PTL DEF Spec

-----------------------------------------------------------------------------
(* What is downloaded is not downloaded again. *)

\* A cached piece of those that are announced is one that was written or read.
Announced ==
  \A q \in Pieces : q \in downloaded /\ Held(q) # NoObj => HeldState(q) = "WRITED"

\* A cached piece in a pipeline is still marked downloading.
Marked ==
  \A q \in Pieces :
    Held(q) # NoObj /\ HeldState(q) \in {"CHECKING_SHA1", "CHECK_SHA1_OK"} => q \in downloading

\* A piece is announced when its write is collected, and a mark is taken back
\* then, or when the hash does not match.
LEMMA StepInfo ==
  ASSUME [Next]_vars, NEW q \in Pieces
  PROVE  /\ (q \in downloaded' =>
               q \in downloaded \/ (ProcessAsyncWritePiece /\ write_res[q] > 0))
         /\ (q \in downloading => q \in downloading'
               \/ (ProcessAsyncWritePiece /\ write_res[q] > 0)
               \/ (CompleteAsyncCheckPiece /\ q = sha_list[1][1] /\ ~sha_list[1][2]))
<1>1. CASE ProcessAsyncWritePiece
  BY <1>1 DEF ProcessAsyncWritePiece
<1>2. CASE CompleteAsyncCheckPiece
  <2>1. downloaded' = downloaded
    BY <1>2 DEF CompleteAsyncCheckPiece
  <2>2. downloading' = downloading
          \/ (~sha_list[1][2] /\ downloading' = downloading \ {sha_list[1][1]})
    BY <1>2 DEF CompleteAsyncCheckPiece
  <2> QED BY <1>2, <2>1, <2>2
<1>3. CASE Peers
  <2>1. ASSUME NEW p \in Pieces, MarkDownloading(p)
        PROVE  downloaded' = downloaded /\ downloading \subseteq downloading'
    BY <2>1 DEF MarkDownloading
  <2>2. ASSUME NEW p \in Pieces, NEW b \in Blocks, NEW v \in {"good", "bad"}, Write(p, b, v)
        PROVE  downloaded' = downloaded /\ downloading \subseteq downloading'
    BY <2>2 DEF Write, infoVars
  <2>3. ASSUME NEW p \in Pieces, NEW r \in Readers, NEW b \in Ranges \cup {Beyond},
               ReadNow(r, p, b) \/ AsyncReadBlock(r, p, b)
        PROVE  downloaded' = downloaded /\ downloading \subseteq downloading'
    BY <2>3 DEF ReadNow, AsyncReadBlock, infoVars
  <2> QED BY <1>3, <2>1, <2>2, <2>3 DEF Peers
<1>4. CASE \/ ProcessCache \/ ProcessAsyncReadOps \/ ProcessAsyncCheckPiece \/ FreeCachePiece
           \/ Io \/ Sha \/ Destroy \/ Gone \/ UNCHANGED vars
  <2>1. UNCHANGED <<downloaded, downloading>>
    BY <1>4 DEF ProcessCache, ProcessAsyncReadOps, ProcessAsyncCheckPiece, FreeCachePiece,
       Io, IoWake, IoSwap, CompleteOperation, CollectResult, Sha, ShaWake, ShaSwap,
       CalculateSha1, ShaPublish, Destroy, StopSha1Calc, StopFileService, Join, Gone, vars,
       infoVars
  <2> QED BY <2>1
<1> QED BY <1>1, <1>2, <1>3, <1>4 DEF Next, Cache

\* Every step keeps Announced: nobody writes into a piece that is announced.
LEMMA StepAnnounced ==
  ASSUME Placed, Announced, [Next]_vars
  PROVE  Announced'
<1> SUFFICES ASSUME NEW q \in Pieces, q \in downloaded', Held(q)' # NoObj
             PROVE  HeldState(q)' = "WRITED"
  BY DEF Announced
<1>1. CASE ProcessAsyncWritePiece /\ write_res[q] > 0
  BY <1>1, WrittenIsWrited
<1>2. CASE q \in downloaded
  <2>1. CASE Kept(q)
    BY <1>2, <2>1 DEF Kept, Announced
  <2>2. CASE Written(q)
    BY <1>2, <2>2 DEF Written, Write
  <2>3. CASE Checked(q)
    BY <1>2, <2>3 DEF Checked, Announced
  <2>4. CASE ReadIn(q) \/ Saved(q)
    BY <2>4 DEF ReadIn, Saved
  <2> QED BY <2>1, <2>2, <2>3, <2>4, StepCached
<1> QED BY <1>1, <1>2, StepInfo

\* Every step keeps Marked, when blocks that nobody asked for are dropped.
LEMMA StepMarked ==
  ASSUME ~StaleRequests, Placed, Marked, [Next]_vars
  PROVE  Marked'
<1> SUFFICES ASSUME NEW q \in Pieces, Held(q)' # NoObj,
                    HeldState(q)' \in {"CHECKING_SHA1", "CHECK_SHA1_OK"}
             PROVE  q \in downloading'
  BY DEF Marked
<1>1. ASSUME q \in downloading PROVE q \in downloading'
  BY <1>1, StepInfo, WrittenIsWrited, ResultHandled
<1>2. CASE Kept(q)
  BY <1>1, <1>2 DEF Kept, Marked
<1>3. CASE Written(q)
  BY <1>1, <1>3 DEF Written, Write
<1>4. CASE Checked(q)
  BY <1>1, <1>4 DEF Checked, Marked
<1>5. CASE ReadIn(q) \/ Saved(q)
  BY <1>5 DEF ReadIn, Saved
<1> QED BY <1>2, <1>3, <1>4, <1>5, StepCached

\* A piece in a pipeline is never announced or given to a peer again before it
\* comes out of it, unless blocks were asked of several peers
\* (BitCache.cpp:76-81, BitDownloadDispatcher.cpp:178).
THEOREM NeverRedispatched ==
  ASSUME ~StaleRequests
  PROVE  Spec => []NotRedispatched
<1>1. Announced /\ Marked => NotRedispatched
  BY DEF Announced, Marked, NotRedispatched, Held, HeldState, Cached
<1>2. Init => Placed /\ Announced /\ Marked
  <2>1. Init => Announced /\ Marked
    BY DEF Init, Announced, Marked, Held
  <2> QED BY <2>1, InitPlaced
<1>3. Placed /\ Announced /\ Marked /\ [Next]_vars => (Placed /\ Announced /\ Marked)'
  BY StepPlaced, StepAnnounced, StepMarked
<1> QED BY <1>1, <1>2, <1>3, PTL DEF Spec

-----------------------------------------------------------------------------
(* The cache goes back to its maximum. *)

\* FreeCachePiece leaves no more WRITED pieces than the maximum.
LEMMA FreeFits ==
  ASSUME Placed, FreeCachePiece
  PROVE  Cardinality(WritedPieces') <= MaxCache
<1>t. /\ IsFiniteSet(Pieces) /\ MaxCache \in Nat
      /\ cache_piece \in [Pieces -> Objs \cup {NoObj}] /\ NoObj \notin Objs
  BY ConstantsAssumption DEF Placed, TypeOK, PiecesType
<1>1. PICK gone \in Evictions :
        LET freed == {cache_piece[p] : p \in gone} IN
        /\ cache_piece' = [p \in Pieces |-> IF p \in gone THEN NoObj ELSE cache_piece[p]]
        /\ state' = [o \in Objs |-> IF o \in freed THEN "NOT_CHECKED" ELSE state[o]]
  BY DEF FreeCachePiece
<1>2. WritedPieces' \subseteq WritedPieces \ gone
  <2> SUFFICES ASSUME NEW q \in WritedPieces' PROVE q \in WritedPieces \ gone
    OBVIOUS
  <2>1. q \in Pieces /\ cache_piece'[q] # NoObj /\ state'[cache_piece'[q]] = "WRITED"
    BY DEF WritedPieces, Cached
  <2>2. q \notin gone /\ cache_piece'[q] = cache_piece[q] /\ cache_piece[q] \in Objs
    BY <1>t, <1>1, <2>1
  <2>3. state[cache_piece[q]] = "WRITED"
    BY <1>1, <2>1, <2>2
  <2> QED BY <2>1, <2>2, <2>3, <1>t DEF WritedPieces, Cached
<1>3. /\ IsFiniteSet(WritedPieces) /\ IsFiniteSet(Cached) /\ IsFiniteSet(WritedPieces')
      /\ WritedPieces \ gone \subseteq Cached \ gone
  BY <1>t, FS_Subset DEF WritedPieces, Cached
<1>4. /\ IsFiniteSet(WritedPieces \ gone) /\ IsFiniteSet(Cached \ gone)
  BY <1>3, FS_Subset
<1>5. /\ Cardinality(WritedPieces') <= Cardinality(WritedPieces \ gone)
      /\ Cardinality(WritedPieces \ gone) <= Cardinality(Cached \ gone)
      /\ Cardinality(WritedPieces \ gone) <= Cardinality(Cached)
      /\ Cardinality(WritedPieces') \in Nat /\ Cardinality(WritedPieces \ gone) \in Nat
      /\ Cardinality(Cached) \in Nat /\ Cardinality(Cached \ gone) \in Nat
  BY <1>2, <1>3, <1>4, FS_Subset, FS_CardinalityType
<1>6. CASE Cardinality(Cached) <= MaxCache
  BY <1>t, <1>5, <1>6
<1>7. CASE Cardinality(Cached \ gone) = MaxCache
  BY <1>t, <1>5, <1>7
<1>8. CASE gone = WritedPieces
  <2>1. WritedPieces' = {}
    BY <1>2, <1>8
  <2> QED BY <1>t, <2>1, FS_EmptySet
<1> QED BY <1>1, <1>6, <1>7, <1>8 DEF Evictions

\* Between two passes no step makes a piece WRITED.
LEMMA StepFits ==
  ASSUME Placed, CacheFits, [Next]_vars
  PROVE  CacheFits'
<1> SUFFICES ASSUME phase' = "net" PROVE Cardinality(WritedPieces') <= MaxCache
  BY DEF CacheFits
<1>1. CASE ~FreeCachePiece
  <2>1. phase = "net" /\ ~ProcessAsyncReadOps /\ ~ProcessAsyncWritePiece
    BY ZenonT(60), <1>1 DEF Next, Peers, MarkDownloading, Write, ReadNow, AsyncReadBlock, Cache,
       ProcessCache, ProcessAsyncReadOps, ProcessAsyncCheckPiece, CompleteAsyncCheckPiece,
       ProcessAsyncWritePiece, Io, IoWake, IoSwap, CompleteOperation, CollectResult, Sha,
       ShaWake, ShaSwap, CalculateSha1, ShaPublish, Destroy, StopSha1Calc, StopFileService,
       Join, Gone, vars
  <2>2. WritedPieces' \subseteq WritedPieces
    <3> SUFFICES ASSUME NEW q \in Pieces, Held(q)' # NoObj, HeldState(q)' = "WRITED"
                 PROVE  q \in WritedPieces
      BY DEF WritedPieces, Cached, Held, HeldState
    <3>1. Kept(q)
      BY <2>1, StepCached DEF Written, ReadIn, Checked, Saved
    <3> QED BY <3>1 DEF Kept, WritedPieces, Cached, Held, HeldState
  <2>3. IsFiniteSet(WritedPieces) /\ MaxCache \in Nat
    BY ConstantsAssumption, FS_Subset DEF WritedPieces, Cached
  <2>4. Cardinality(WritedPieces) <= MaxCache
    BY <2>1 DEF CacheFits
  <2>5. /\ IsFiniteSet(WritedPieces') /\ Cardinality(WritedPieces') <= Cardinality(WritedPieces)
    BY <2>2, <2>3, FS_Subset
  <2>6. Cardinality(WritedPieces') \in Nat /\ Cardinality(WritedPieces) \in Nat
    BY <2>3, <2>5, FS_CardinalityType
  <2> QED BY <2>3, <2>4, <2>5, <2>6
<1>2. CASE FreeCachePiece
  BY <1>2, FreeFits
<1> QED BY <1>1, <1>2

\* However many pieces reads and downloads brought in during a pass, no more than
\* the maximum of those that may leave are in memory after it (BitCache.cpp:263-277).
THEOREM CacheAlwaysFits == Spec => []CacheFits
<1>1. Init => Placed /\ CacheFits
  <2> SUFFICES ASSUME Init PROVE CacheFits
    BY InitPlaced
  <2>1. WritedPieces = {}
    BY DEF Init, WritedPieces, Cached
  <2> QED BY <2>1, FS_EmptySet, ConstantsAssumption DEF CacheFits
<1>2. Placed /\ CacheFits /\ [Next]_vars => (Placed /\ CacheFits)'
  BY StepPlaced, StepFits
<1> QED BY <1>1, <1>2, PTL DEF Spec

-----------------------------------------------------------------------------
(* One read of a piece at a time. *)

\* Piece p is being read into instance o.
Reading(p, o) ==
  Has(operations, "READ", p, o) \/ Has(io_batch, "READ", p, o) \/ read_res[p] = o

\* A piece is read while somebody waits for it, into one instance.
Shared ==
  \A p \in Pieces :
    /\ async_read_ops[p] = {} => \A o \in Objs : ~Reading(p, o)
    /\ async_read_ops[p] # {} => \E o \in Objs : Reading(p, o)
    /\ \A o, u \in Objs : Reading(p, o) /\ Reading(p, u) => o = u

\* What a step must keep for one piece.
LEMMA SharedKept ==
  ASSUME Shared, NEW p \in Pieces, async_read_ops'[p] = async_read_ops[p],
         \A o \in Objs : Reading(p, o)' <=> Reading(p, o)
  PROVE  /\ async_read_ops'[p] = {} => \A o \in Objs : ~Reading(p, o)'
         /\ async_read_ops'[p] # {} => \E o \in Objs : Reading(p, o)'
         /\ \A o, u \in Objs : Reading(p, o)' /\ Reading(p, u)' => o = u
BY DEF Shared

\* Every step keeps it.
LEMMA StepShared ==
  ASSUME Placed, Shared, [Next]_vars
  PROVE  Shared'
<1>t. /\ TypeOK /\ operations \in Seq(Operation) /\ io_batch \in Seq(Operation)
      /\ read_res \in [Pieces -> Objs \cup {NoObj}] /\ NoObj \notin Objs
      /\ async_read_ops \in [Pieces -> SUBSET (Readers \X Ranges)]
  BY ConstantsAssumption DEF Placed, TypeOK, FileType, IoType, ReadsType
<1>1. ASSUME UNCHANGED async_read_ops,
             \A q \in Pieces, o \in Objs : Reading(q, o)' <=> Reading(q, o)
      PROVE  Shared'
  BY <1>1, SharedKept DEF Shared
<1>2. ASSUME UNCHANGED <<async_read_ops, operations, io_batch, read_res>>
      PROVE  Shared'
  BY <1>1, <1>2 DEF Reading
<1>3. ASSUME NEW p \in Pieces, NEW r \in Readers, NEW b \in Ranges \cup {Beyond},
             AsyncReadBlock(r, p, b)
      PROVE  Shared'
  <2>1. /\ UNCHANGED <<io_batch, read_res>>
        /\ async_read_ops' = [async_read_ops EXCEPT ![p] = @ \cup {<<r, b>>}]
    BY <1>3 DEF AsyncReadBlock, ioVars
  <2>2. CASE ~FirstReader(p)
    <3>1. operations' = operations /\ async_read_ops[p] # {}
      BY <1>3, <2>2 DEF AsyncReadBlock, FirstReader
    <3>2. \A q, o : Reading(q, o)' <=> Reading(q, o)
      BY <2>1, <3>1 DEF Reading
    <3>3. \A q \in Pieces : async_read_ops'[q] = {} <=> async_read_ops[q] = {}
      BY <1>t, <2>1, <3>1
    <3> QED BY <3>2, <3>3 DEF Shared
  <2>3. CASE FirstReader(p)
    <3>1. PICK new \in FetchNewPiece : QueueOps("READ", p, new[1])
      BY <1>3, <2>3 DEF AsyncReadBlock
    <3> DEFINE n == new[1]
    <3>2. n \in Objs /\ operations' = operations \o OpsOf("READ", p, n)
      BY <3>1, FetchIsFree DEF QueueOps
    <3> HIDE DEF n
    <3>3. \A q \in Pieces, o \in Objs :
            Has(operations, "READ", q, o)' <=> Has(operations, "READ", q, o) \/ (q = p /\ o = n)
      BY <1>t, <3>2, HasOps, HasQueued
    <3>4. \A q \in Pieces, o \in Objs : Reading(q, o)' <=> Reading(q, o) \/ (q = p /\ o = n)
      BY <2>1, <3>3 DEF Reading
    <3>5. \A o \in Objs : ~Reading(p, o)
      BY <2>3 DEF Shared, FirstReader
    <3>6. \A q \in Pieces : IF q = p THEN async_read_ops'[q] # {}
                                     ELSE async_read_ops'[q] = async_read_ops[q]
      BY <1>t, <2>1
    <3> QED BY <3>2, <3>4, <3>5, <3>6 DEF Shared
  <2> QED BY <2>2, <2>3
<1>4. ASSUME ProcessAsyncReadOps PROVE Shared'
  <2>1. /\ UNCHANGED <<operations, io_batch>>
        /\ \A q \in Pieces : /\ read_res'[q] = NoObj
                             /\ async_read_ops'[q] = IF read_res[q] # NoObj THEN {}
                                                                       ELSE async_read_ops[q]
    BY <1>4 DEF ProcessAsyncReadOps, ioVars
  <2> SUFFICES ASSUME NEW q \in Pieces
               PROVE  /\ async_read_ops'[q] = {} => \A o \in Objs : ~Reading(q, o)'
                      /\ async_read_ops'[q] # {} => \E o \in Objs : Reading(q, o)'
                      /\ \A o, u \in Objs : Reading(q, o)' /\ Reading(q, u)' => o = u
    BY DEF Shared
  <2>2. CASE read_res[q] = NoObj
    <3>1. \A o \in Objs : Reading(q, o)' <=> Reading(q, o)
      BY <1>t, <2>1, <2>2 DEF Reading
    <3> QED BY <2>1, <2>2, <3>1, SharedKept
  <2>3. CASE read_res[q] # NoObj
    <3>1. \A o \in Objs : ~Reading(q, o)'
      <4> SUFFICES ASSUME NEW o \in Objs, Reading(q, o)' PROVE FALSE
        OBVIOUS
      <4>1. Has(operations, "READ", q, o) \/ Has(io_batch, "READ", q, o)
        BY <1>t, <2>1 DEF Reading
      <4>2. o = read_res[q]
        BY <1>t, <2>3, <4>1 DEF Shared, Reading
      <4> QED BY <4>1, <4>2 DEF Placed, ReadsApart
    <3> QED BY <2>1, <2>3, <3>1
  <2> QED BY <2>2, <2>3
<1>5. ASSUME CompleteAsyncCheckPiece PROVE Shared'
  <2>1. UNCHANGED <<async_read_ops, io_batch, read_res>>
    BY <1>5 DEF CompleteAsyncCheckPiece, readVars, ioVars
  <2>2. operations' = operations
          \/ \E p \in Pieces, o \in Objs : operations' = operations \o OpsOf("WRITE", p, o)
    BY <1>5, FirstResult DEF CompleteAsyncCheckPiece, QueueOps
  <2>3. ASSUME NEW p \in Pieces, NEW o \in Objs, operations' = operations \o OpsOf("WRITE", p, o),
               NEW q, NEW u
        PROVE  Has(operations, "READ", q, u)' <=> Has(operations, "READ", q, u)
    <3>1. Has(operations', "READ", q, u) => Has(operations, "READ", q, u)
      BY <1>t, <2>3, HasOps
    <3>2. Has(operations, "READ", q, u) => Has(operations', "READ", q, u)
      BY <1>t, <2>3, HasQueued
    <3> QED BY <3>1, <3>2
  <2>4. \A q, u : Has(operations, "READ", q, u)' <=> Has(operations, "READ", q, u)
    BY <2>2, <2>3
  <2> QED BY <1>1, <2>1, <2>4 DEF Reading
<1>6. ASSUME IoSwap PROVE Shared'
  <2>1. io_batch = <<>> /\ io_batch' = operations /\ operations' = <<>>
          /\ UNCHANGED <<async_read_ops, read_res>>
    BY <1>6, <1>t DEF IoSwap, TypeOK, IoType, readVars
  <2>2. \A q, o : /\ ~Has(io_batch, "READ", q, o) /\ ~Has(operations, "READ", q, o)'
                  /\ (Has(io_batch, "READ", q, o)' <=> Has(operations, "READ", q, o))
    BY <2>1, HasNone
  <2> QED BY <1>1, <2>1, <2>2 DEF Reading
<1>7. ASSUME CollectResult PROVE Shared'
  <2> DEFINE ReadsOf(p) == {i \in DOMAIN io_batch :
                              io_batch[i].op = "READ" /\ io_batch[i].piece = p}
  <2>1. /\ UNCHANGED <<async_read_ops, operations>> /\ io_batch' = <<>>
        /\ read_res' = [p \in Pieces |->
              IF read_res[p] = NoObj /\ ReadsOf(p) # {}
                THEN io_batch[CHOOSE i \in ReadsOf(p) : TRUE].obj ELSE read_res[p]]
    BY <1>7 DEF CollectResult, Collected, BatchOf, readVars
  <2>2. \A q, o : ~Has(io_batch, "READ", q, o)'
    BY <2>1, HasNone
  <2>3. ASSUME NEW q \in Pieces, NEW o \in Objs
        PROVE  Reading(q, o)' <=> Reading(q, o)
    <3>1. CASE ReadsOf(q) = {}
      <4>1. ~Has(io_batch, "READ", q, o)
        BY <3>1 DEF Has, Range
      <4> HIDE DEF ReadsOf
      <4>2. read_res'[q] = read_res[q]
        BY <2>1, <3>1
      <4> QED BY <2>1, <2>2, <4>1, <4>2 DEF Reading
    <3>2. CASE ReadsOf(q) # {}
      <4> DEFINE i == CHOOSE i \in ReadsOf(q) : TRUE
      <4>1. i \in ReadsOf(q)
        BY <3>2
      <4>2. i \in DOMAIN io_batch /\ io_batch[i].op = "READ" /\ io_batch[i].piece = q
        BY <4>1
      <4>3. read_res'[q] = IF read_res[q] = NoObj THEN io_batch[i].obj ELSE read_res[q]
        <5> HIDE DEF ReadsOf
        <5> QED BY <2>1, <3>2
      <4> HIDE DEF i, ReadsOf
      <4>4. io_batch[i] \in Range(io_batch)
        BY <4>2 DEF Range
      <4>5. io_batch[i].obj \in Objs
        <5>1. io_batch[i] \in Operation
          BY <1>t, <4>4, RangeOfSeq
        <5> QED BY <5>1 DEF Operation
      <4>6. Reading(q, io_batch[i].obj)
        BY <4>2, <4>4 DEF Reading, Has
      <4>7. \A u \in Objs : Reading(q, u) => u = io_batch[i].obj
        BY <4>5, <4>6 DEF Shared
      <4>8. read_res'[q] = io_batch[i].obj
        <5>1. read_res[q] # NoObj => Reading(q, read_res[q]) /\ read_res[q] \in Objs
          BY <1>t DEF Reading
        <5> QED BY <4>3, <4>7, <5>1
      <4>9. Reading(q, o) <=> o = io_batch[i].obj
        BY <4>6, <4>7
      <4>10. Reading(q, o)' <=> o = io_batch[i].obj
        <5>1. Has(operations, "READ", q, o)' => o = io_batch[i].obj
          BY <2>1, <4>7 DEF Reading
        <5> QED BY <2>2, <4>8, <5>1 DEF Reading
      <4> QED BY <4>9, <4>10
    <3> QED BY <3>1, <3>2
  <2> QED BY <1>1, <2>1, <2>3
<1>8. ASSUME Peers PROVE Shared'
  <2>1. ASSUME NEW p \in Pieces, NEW r \in Readers, NEW b \in Ranges \cup {Beyond},
               ReadNow(r, p, b)
        PROVE  Shared'
    BY <1>2, <2>1 DEF ReadNow, fileVars, ioVars
  <2>2. ASSUME NEW p \in Pieces, NEW b \in Blocks, NEW v \in {"good", "bad"}, Write(p, b, v)
        PROVE  Shared'
    BY <1>2, <2>2 DEF Write, readVars, fileVars, ioVars
  <2>3. ASSUME NEW p \in Pieces, MarkDownloading(p)
        PROVE  Shared'
    BY <1>2, <2>3 DEF MarkDownloading, readVars, fileVars, ioVars
  <2> QED BY <1>3, <1>8, <2>1, <2>2, <2>3 DEF Peers
<1>9. CASE \/ ProcessCache \/ ProcessAsyncCheckPiece \/ ProcessAsyncWritePiece \/ FreeCachePiece
           \/ IoWake \/ CompleteOperation \/ Sha \/ Destroy \/ Gone \/ UNCHANGED vars
  BY <1>2, <1>9 DEF ProcessCache, ProcessAsyncCheckPiece, ProcessAsyncWritePiece, FreeCachePiece,
     IoWake, CompleteOperation, Sha, ShaWake, ShaSwap, CalculateSha1, ShaPublish, Destroy,
     StopSha1Calc, StopFileService, Join, Gone, vars, readVars, fileVars, ioVars
<1> QED BY <1>4, <1>5, <1>6, <1>7, <1>8, <1>9 DEF Next, Cache, Io

\* Nobody waits and nothing is read at first.
LEMMA InitShared == Init => Shared
BY HasNone, ConstantsAssumption DEF Init, Shared, Reading

\* However many peers ask for blocks of a piece that is not cached, and whenever,
\* it is read once for all of them, and not at all when nobody waits any more
\* (BitCache.cpp:129-160).
THEOREM ReadsAlwaysShared == Spec => []ReadsAreShared
<1>1. Placed /\ Shared => ReadsAreShared
  <2> SUFFICES ASSUME Placed, Shared, NEW p \in Pieces
               PROVE  LET reading == {o \in Objs :
                            \/ \E i \in DOMAIN operations :
                                 operations[i].op = "READ" /\ operations[i].piece = p /\ operations[i].obj = o
                            \/ \E i \in DOMAIN io_batch :
                                 io_batch[i].op = "READ" /\ io_batch[i].piece = p /\ io_batch[i].obj = o
                            \/ read_res[p] = o}
                      IN  Cardinality(reading) = IF async_read_ops[p] = {} THEN 0 ELSE 1
    BY DEF ReadsAreShared
  <2> DEFINE reading == {o \in Objs :
                            \/ \E i \in DOMAIN operations :
                                 operations[i].op = "READ" /\ operations[i].piece = p /\ operations[i].obj = o
                            \/ \E i \in DOMAIN io_batch :
                                 io_batch[i].op = "READ" /\ io_batch[i].piece = p /\ io_batch[i].obj = o
                            \/ read_res[p] = o}
  <2>1. reading = {o \in Objs : Reading(p, o)}
    BY DEF Reading, Has, Range
  <2>2. ASSUME async_read_ops[p] = {} PROVE Cardinality(reading) = 0
    <3>1. reading = {}
      BY <2>1, <2>2 DEF Shared
    <3> HIDE DEF reading
    <3> QED BY <3>1, FS_EmptySet
  <2>3. ASSUME async_read_ops[p] # {} PROVE Cardinality(reading) = 1
    <3>1. PICK o \in Objs : Reading(p, o)
      BY <2>3 DEF Shared
    <3>2. reading = {o}
      BY <2>1, <3>1 DEF Shared
    <3> HIDE DEF reading
    <3> QED BY <3>2, FS_Singleton
  <2> HIDE DEF reading
  <2>4. Cardinality(reading) = IF async_read_ops[p] = {} THEN 0 ELSE 1
    BY <2>2, <2>3
  <2> QED BY <2>4 DEF reading
<1>2. Placed /\ Shared /\ [Next]_vars => (Placed /\ Shared)'
  BY StepPlaced, StepShared
<1> QED BY InitPlaced, InitShared, <1>1, <1>2, PTL DEF Spec

-----------------------------------------------------------------------------
(* A read tells the truth. *)

\* The operations that read a piece into an instance, in a queue, cover it.
WholeReads(s) ==
  \A p \in Pieces, o \in Objs : Has(s, "READ", p, o) =>
    \A b \in Blocks : \E x \in Range(s) :
      x.op = "READ" /\ x.piece = p /\ x.obj = o /\ b \in x.blocks

\* Only pieces that are announced are read, and what was read is good.
ReadsGood ==
  /\ WholeReads(operations) /\ WholeReads(io_batch)
  /\ \A p \in Pieces, o \in Objs : Reading(p, o) => p \in downloaded
  /\ \A i \in DOMAIN io_batch : i < io_pos /\ io_batch[i].op = "READ" =>
       \A b \in io_batch[i].blocks : data[io_batch[i].obj][b] = "good"
  /\ \A p \in Pieces : read_res[p] # NoObj => Verified(read_res[p])

\* So is a cached piece that passed its hash or was read.
CacheGood ==
  \A q \in Pieces : Held(q) # NoObj /\ HeldState(q) \in {"CHECK_SHA1_OK", "WRITED"}
                      => Verified(Held(q))

\* Queueing the operations of a piece leaves every piece's reads complete.
LEMMA WholeReadsOps ==
  ASSUME NEW s \in Seq(Operation), WholeReads(s), NEW kind \in {"READ", "WRITE"},
         NEW p \in Pieces, NEW o \in Objs
  PROVE  WholeReads(s \o OpsOf(kind, p, o))
<1> DEFINE t == s \o OpsOf(kind, p, o)
<1>1. Range(t) = Range(s) \cup Range(OpsOf(kind, p, o))
  BY OpsOfType, RangeConcatenation
<1> SUFFICES ASSUME NEW q \in Pieces, NEW u \in Objs, Has(t, "READ", q, u), NEW b \in Blocks
             PROVE  \E x \in Range(t) :
                      x.op = "READ" /\ x.piece = q /\ x.obj = u /\ b \in x.blocks
  BY DEF WholeReads
<1>2. CASE Has(s, "READ", q, u)
  <2>1. PICK x \in Range(s) : x.op = "READ" /\ x.piece = q /\ x.obj = u /\ b \in x.blocks
    BY <1>2 DEF WholeReads
  <2> QED BY <1>1, <2>1
<1>3. CASE "READ" = kind /\ q = p /\ u = o
  <2>1. PICK x \in Range(OpsOf(kind, p, o)) :
          x.op = kind /\ x.piece = p /\ x.obj = o /\ b \in x.blocks
    BY OpsOfCovers
  <2> QED BY <1>1, <1>3, <2>1
<1> QED BY <1>2, <1>3, HasOps

\* An instance that a piece is read into is changed by the file thread only.
LEMMA ReadingUntouched ==
  ASSUME Placed, [Next]_vars, ~CompleteOperation,
         NEW p \in Pieces, NEW o \in Objs, Reading(p, o)
  PROVE  data'[o] = data[o]
<1>t. /\ data \in [Objs -> Content] /\ NoObj \notin Objs
  BY ConstantsAssumption DEF Placed, TypeOK, PiecesType
<1>a. \A q \in Pieces : cache_piece[q] # o
  BY DEF Placed, ReadsApart, Reading
<1>f. \A u : Free(u) => u # o
  BY DEF Free, Reading
<1>1. ASSUME NEW q \in Pieces, NEW b \in Blocks, NEW v \in {"good", "bad"}, Write(q, b, v)
      PROVE  data'[o] = data[o]
  <2>1. PICK u \in Objs, c \in [Pieces -> Objs \cup {NoObj}], d \in Content :
          Free(u) /\ WriteInto(u, d, q, b, v)
    BY <1>1, WriteTarget
  <2>2. u # o /\ \E d2 : data' = [data EXCEPT ![u] = d2]
    BY <1>f, <2>1 DEF WriteInto
  <2> QED BY <1>t, <2>2
<1>2. ASSUME NEW q \in Pieces, NEW r \in Readers, NEW b \in Ranges \cup {Beyond},
             AsyncReadBlock(r, q, b)
      PROVE  data'[o] = data[o]
  <2>1. CASE FirstReader(q)
    <3>1. PICK new \in FetchNewPiece : data' = [data EXCEPT ![new[1]] = Zeros]
      BY <1>2, <2>1 DEF AsyncReadBlock
    <3>2. new[1] # o
      BY <1>f, FetchIsFree
    <3> QED BY <1>t, <3>1, <3>2
  <2>2. CASE ~FirstReader(q)
    BY <1>2, <2>2 DEF AsyncReadBlock, pieceVars
  <2> QED BY <2>1, <2>2
<1>3. ASSUME Peers PROVE data'[o] = data[o]
  BY <1>1, <1>2, <1>3 DEF Peers, MarkDownloading, ReadNow, pieceVars
<1>4. ASSUME CompleteAsyncCheckPiece PROVE data'[o] = data[o]
  <2> DEFINE u == cache_piece[sha_list[1][1]]
  <2>1. u # o /\ u \in Objs
    BY <1>4, <1>a, FirstResult
  <2>2. data' = data \/ data' = [data EXCEPT ![u] = Zeros]
    BY <1>4 DEF CompleteAsyncCheckPiece
  <2> HIDE DEF u
  <2> QED BY <1>t, <2>1, <2>2
<1>5. ASSUME FreeCachePiece PROVE data'[o] = data[o]
  <2>1. PICK gone \in SUBSET WritedPieces :
        LET freed == {cache_piece[q] : q \in gone} IN
        data' = [x \in Objs |-> IF x \in freed THEN Zeros ELSE data[x]]
    BY <1>5 DEF FreeCachePiece, Evictions
  <2>2. \A q \in gone : cache_piece[q] # o
    BY <1>a DEF WritedPieces, Cached
  <2> QED BY <1>t, <2>1, <2>2
<1>6. ASSUME \/ ProcessCache \/ ProcessAsyncReadOps \/ ProcessAsyncCheckPiece
             \/ ProcessAsyncWritePiece \/ IoWake \/ IoSwap \/ CollectResult
             \/ Sha \/ Destroy \/ Gone \/ UNCHANGED vars
      PROVE  data' = data
  BY <1>6 DEF ProcessCache, ProcessAsyncReadOps, ProcessAsyncCheckPiece,
              ProcessAsyncWritePiece, IoWake, IoSwap, CollectResult, Sha, ShaWake, ShaSwap,
              CalculateSha1, ShaPublish, Destroy, StopSha1Calc, StopFileService, Join, Gone,
              vars, pieceVars
<1> QED BY <1>3, <1>4, <1>5, <1>6 DEF Next, Cache, Io

\* Steps that leave the batch of the file thread alone.
LEMMA ReadsStayGood ==
  ASSUME Placed, ReadsGood, [Next]_vars, ~CompleteOperation,
         downloaded \subseteq downloaded', UNCHANGED <<io_batch, io_pos>>,
         WholeReads(operations'),
         \A p \in Pieces, o \in Objs :
           Has(operations', "READ", p, o) => Has(operations, "READ", p, o) \/ p \in downloaded,
         \A p \in Pieces : read_res'[p] \in {read_res[p], NoObj}
  PROVE  ReadsGood'
<1>t. /\ io_batch \in Seq(Operation) /\ NoObj \notin Objs
      /\ read_res \in [Pieces -> Objs \cup {NoObj}]
  BY ConstantsAssumption DEF Placed, TypeOK, IoType, FileType
<1>1. \A p \in Pieces, o \in Objs : Reading(p, o)' => p \in downloaded'
  BY <1>t DEF ReadsGood, Reading
<1>2. ASSUME NEW i \in DOMAIN io_batch, i < io_pos, io_batch[i].op = "READ",
             NEW b \in io_batch[i].blocks
      PROVE  data'[io_batch[i].obj][b] = "good"
  <2>1. io_batch[i] \in Operation /\ io_batch[i] \in Range(io_batch)
    BY <1>t, ElementOfSeq, LenProperties DEF Range
  <2>2. /\ io_batch[i].piece \in Pieces /\ io_batch[i].obj \in Objs
        /\ Reading(io_batch[i].piece, io_batch[i].obj)
    BY <1>2, <2>1 DEF Operation, Reading, Has
  <2>3. data'[io_batch[i].obj] = data[io_batch[i].obj]
    BY <2>2, ReadingUntouched
  <2> QED BY <1>2, <2>3 DEF ReadsGood
<1>3. ASSUME NEW p \in Pieces, read_res'[p] # NoObj PROVE Verified(read_res[p])'
  <2>1. read_res'[p] = read_res[p] /\ read_res[p] \in Objs /\ Reading(p, read_res[p])
    BY <1>t, <1>3 DEF Reading
  <2>2. data'[read_res[p]] = data[read_res[p]] /\ Verified(read_res[p])
    BY <1>t, <2>1, ReadingUntouched DEF ReadsGood
  <2> QED BY <2>1, <2>2 DEF Verified
<1> QED BY <1>1, <1>2, <1>3 DEF ReadsGood

\* What is announced stays so.
LEMMA DownloadedStays ==
  ASSUME [Next]_vars
  PROVE  downloaded \subseteq downloaded'
<1>1. CASE Peers
  BY <1>1 DEF Peers, MarkDownloading, Write, ReadNow, AsyncReadBlock, infoVars
<1>2. CASE Cache
  BY <1>2 DEF Cache, ProcessCache, ProcessAsyncReadOps, ProcessAsyncCheckPiece,
     CompleteAsyncCheckPiece, ProcessAsyncWritePiece, FreeCachePiece, infoVars
<1>3. CASE Io \/ Sha \/ Destroy \/ Gone \/ UNCHANGED vars
  BY <1>3 DEF Io, IoWake, IoSwap, CompleteOperation, CollectResult, Sha, ShaWake, ShaSwap,
     CalculateSha1, ShaPublish, Destroy, StopSha1Calc, StopFileService, Join, Gone, vars,
     infoVars
<1> QED BY <1>1, <1>2, <1>3 DEF Next

\* The main thread queues a read of an announced piece only.
LEMMA MainReadsGood ==
  ASSUME Placed, ReadsGood, Peers \/ Cache
  PROVE  ReadsGood'
<1>t. /\ operations \in Seq(Operation) /\ read_res \in [Pieces -> Objs \cup {NoObj}]
      /\ WholeReads(operations)
  BY DEF Placed, TypeOK, FileType, ReadsGood
<1>1. [Next]_vars /\ ~CompleteOperation /\ UNCHANGED <<io_batch, io_pos>>
  <2>1. UNCHANGED <<io_batch, io_pos>>
    BY DEF Peers, MarkDownloading, Write, ReadNow, AsyncReadBlock, Cache, ProcessCache,
       ProcessAsyncReadOps, ProcessAsyncCheckPiece, CompleteAsyncCheckPiece,
       ProcessAsyncWritePiece, FreeCachePiece, ioVars
  <2>2. ~CompleteOperation
    BY <2>1 DEF CompleteOperation, Placed, TypeOK, IoType
  <2> QED BY <2>1, <2>2 DEF Next
<1>2. \/ operations' = operations
      \/ \E p \in downloaded, o \in Objs : operations' = operations \o OpsOf("READ", p, o)
      \/ \E p \in Pieces, o \in Objs : operations' = operations \o OpsOf("WRITE", p, o)
  <2>1. ASSUME NEW p \in Pieces, NEW r \in Readers, NEW b \in Ranges \cup {Beyond},
               AsyncReadBlock(r, p, b)
        PROVE  \/ operations' = operations
               \/ \E q \in downloaded, o \in Objs : operations' = operations \o OpsOf("READ", q, o)
    BY <2>1, FetchIsFree DEF AsyncReadBlock, QueueOps, Readable
  <2>2. CASE Peers
    BY <2>1, <2>2 DEF Peers, MarkDownloading, Write, ReadNow, fileVars
  <2>3. CASE CompleteAsyncCheckPiece
    BY <2>3, FirstResult DEF CompleteAsyncCheckPiece, QueueOps
  <2>4. CASE \/ ProcessCache \/ ProcessAsyncReadOps \/ ProcessAsyncCheckPiece
             \/ ProcessAsyncWritePiece \/ FreeCachePiece
    BY <2>4 DEF ProcessCache, ProcessAsyncReadOps, ProcessAsyncCheckPiece,
       ProcessAsyncWritePiece, FreeCachePiece, fileVars
  <2> QED BY <2>2, <2>3, <2>4 DEF Cache
<1>3. downloaded \subseteq Pieces
  BY DEF Placed, TypeOK, InfoType
<1>4. WholeReads(operations')
  BY <1>t, <1>2, <1>3, WholeReadsOps
<1>5. ASSUME NEW p \in Pieces, NEW o \in Objs, Has(operations', "READ", p, o)
      PROVE  Has(operations, "READ", p, o) \/ p \in downloaded
  <2>1. CASE operations' = operations
    BY <1>5, <2>1
  <2>2. ASSUME NEW q \in downloaded, NEW u \in Objs, operations' = operations \o OpsOf("READ", q, u)
        PROVE  Has(operations, "READ", p, o) \/ p \in downloaded
    <3>1. q \in Pieces /\ Has(operations \o OpsOf("READ", q, u), "READ", p, o)
      BY <1>3, <1>5, <2>2
    <3>2. Has(operations, "READ", p, o) \/ p = q
      BY <1>t, <3>1, HasOps
    <3> QED BY <3>2
  <2>3. ASSUME NEW q \in Pieces, NEW u \in Objs, operations' = operations \o OpsOf("WRITE", q, u)
        PROVE  Has(operations, "READ", p, o)
    <3>1. Has(operations \o OpsOf("WRITE", q, u), "READ", p, o)
      BY <1>5, <2>3
    <3> QED BY <1>t, <3>1, HasOps
  <2> QED BY <1>2, <2>1, <2>2, <2>3
<1>6. \A p \in Pieces : read_res'[p] \in {read_res[p], NoObj}
  <2>1. CASE ProcessAsyncReadOps
    BY <2>1 DEF ProcessAsyncReadOps
  <2>2. CASE ~ProcessAsyncReadOps
    BY <2>2 DEF Peers, MarkDownloading, Write, ReadNow, AsyncReadBlock, Cache, ProcessCache,
       ProcessAsyncCheckPiece, CompleteAsyncCheckPiece, ProcessAsyncWritePiece,
       FreeCachePiece, fileVars
  <2> QED BY <2>1, <2>2
<1> QED BY <1>1, <1>4, <1>5, <1>6, DownloadedStays, ReadsStayGood

\* The file thread reads good bytes: those of a piece that is in its files.
LEMMA ExecutedReadsGood ==
  ASSUME Failing = {}, Placed, DiskGood, ReadsGood, CompleteOperation
  PROVE  ReadsGood'
<1> DEFINE x == io_batch[io_pos]
<1>t. /\ io_batch \in Seq(Operation) /\ data \in [Objs -> Content]
      /\ read_res \in [Pieces -> Objs \cup {NoObj}] /\ io_pos \in Nat
  BY DEF Placed, TypeOK, PiecesType, IoType, FileType
<1>l. /\ Len(io_batch) \in Nat /\ DOMAIN io_batch = 1 .. Len(io_batch)
      /\ \A i \in DOMAIN io_batch : io_batch[i] \in Operation /\ io_batch[i] \in Range(io_batch)
  <2>1. Len(io_batch) \in Nat /\ DOMAIN io_batch = 1 .. Len(io_batch)
    BY <1>t, LenProperties
  <2> QED BY <1>t, <2>1, ElementOfSeq DEF Range
<1>1. /\ io_pos \in DOMAIN io_batch /\ io_pos' = io_pos + 1
      /\ UNCHANGED <<operations, io_batch, read_res, downloaded>>
  BY <1>l DEF CompleteOperation, fileVars, infoVars, Placed, TypeOK, IoType
<1>2. x \in Operation /\ x.piece \in Pieces /\ x.obj \in Objs /\ x.blocks \subseteq Blocks
  BY <1>l, <1>1 DEF Operation
<1>3. \/ x.op # "READ" /\ data' = data
      \/ /\ x.op = "READ"
         /\ data' = [data EXCEPT ![x.obj] =
                      [b \in Blocks |-> IF b \in x.blocks THEN disk[x.piece][b]
                                                          ELSE data[x.obj][b]]]
  BY DEF CompleteOperation
<1>4. x.op = "READ" => OnDisk(x.piece)
  <2>1. x.op = "READ" => Reading(x.piece, x.obj)
    BY <1>l, <1>1 DEF Has, Reading
  <2> QED BY <1>2, <2>1 DEF ReadsGood, DiskGood
<1> HIDE DEF x
<1>5. \A o \in Objs, b \in Blocks : data[o][b] = "good" => data'[o][b] = "good"
  <2>1. CASE x.op = "READ"
    <3>1. \A o \in Objs : o # x.obj => data'[o] = data[o]
      BY <1>t, <1>3, <2>1
    <3>2. \A b \in Blocks : data'[x.obj][b] = IF b \in x.blocks THEN disk[x.piece][b]
                                                             ELSE data[x.obj][b]
      BY <1>t, <1>2, <1>3, <2>1
    <3> QED BY <1>4, <2>1, <3>1, <3>2 DEF OnDisk
  <2>2. CASE x.op # "READ"
    BY <1>3, <2>2
  <2> QED BY <2>1, <2>2
<1>6. x.op = "READ" => \A b \in x.blocks : data'[x.obj][b] = "good"
  BY <1>t, <1>2, <1>3, <1>4 DEF OnDisk
<1>7. ASSUME NEW i \in DOMAIN io_batch, i < io_pos', io_batch[i].op = "READ",
             NEW b \in io_batch[i].blocks
      PROVE  data'[io_batch[i].obj][b] = "good"
  <2>1. io_batch[i].obj \in Objs /\ b \in Blocks
    BY <1>l, <1>7 DEF Operation
  <2>2. CASE i = io_pos
    BY <1>6, <1>7, <2>2 DEF x
  <2>3. CASE i < io_pos
    BY <1>5, <1>7, <2>1, <2>3 DEF ReadsGood
  <2> QED BY <1>t, <1>l, <1>1, <1>7, <2>2, <2>3
<1>8. ASSUME NEW p \in Pieces, read_res[p] # NoObj PROVE Verified(read_res[p])'
  <2>1. read_res[p] \in Objs /\ Verified(read_res[p])
    BY <1>t, <1>8 DEF ReadsGood
  <2> QED BY <1>1, <1>5, <2>1 DEF Verified
<1>9. \A p \in Pieces, o \in Objs : Reading(p, o)' => p \in downloaded'
  BY <1>1 DEF ReadsGood, Reading
<1> QED BY <1>1, <1>7, <1>8, <1>9 DEF ReadsGood

\* What it hands over, all of it executed, is good.
LEMMA CollectedReadsGood ==
  ASSUME Placed, ReadsGood, CollectResult
  PROVE  ReadsGood'
<1> DEFINE ReadsOf(p) == {i \in DOMAIN io_batch :
                            io_batch[i].op = "READ" /\ io_batch[i].piece = p}
<1>t. /\ io_batch \in Seq(Operation) /\ io_pos \in Nat
      /\ read_res \in [Pieces -> Objs \cup {NoObj}]
  BY DEF Placed, TypeOK, IoType, FileType
<1>l. /\ Len(io_batch) \in Nat /\ DOMAIN io_batch = 1 .. Len(io_batch)
      /\ \A i \in DOMAIN io_batch : io_batch[i] \in Operation /\ io_batch[i] \in Range(io_batch)
  <2>1. Len(io_batch) \in Nat /\ DOMAIN io_batch = 1 .. Len(io_batch)
    BY <1>t, LenProperties
  <2> QED BY <1>t, <2>1, ElementOfSeq DEF Range
<1>1. /\ UNCHANGED <<operations, data, downloaded>> /\ io_batch' = <<>> /\ io_pos > Len(io_batch)
      /\ read_res' = [p \in Pieces |->
            IF read_res[p] = NoObj /\ ReadsOf(p) # {}
              THEN io_batch[CHOOSE i \in ReadsOf(p) : TRUE].obj ELSE read_res[p]]
  BY DEF CollectResult, Collected, BatchOf, pieceVars, infoVars
<1>2. \A q, o : ~Has(io_batch, "READ", q, o)'
  BY <1>1, HasNone
<1>3. ASSUME NEW p \in Pieces, read_res'[p] # read_res[p]
      PROVE  /\ Has(io_batch, "READ", p, read_res'[p]) /\ read_res'[p] \in Objs
             /\ Verified(read_res'[p])
  <2>1. CASE ReadsOf(p) = {}
    <3> HIDE DEF ReadsOf
    <3> QED BY <1>1, <1>3, <2>1
  <2>2. CASE ReadsOf(p) # {}
    <3> DEFINE i == CHOOSE i \in ReadsOf(p) : TRUE
               o == io_batch[i].obj
    <3>1. i \in ReadsOf(p)
      BY <2>2
    <3>2. i \in DOMAIN io_batch /\ io_batch[i].op = "READ" /\ io_batch[i].piece = p
      BY <3>1
    <3>3. read_res'[p] = o
      <4> HIDE DEF ReadsOf
      <4> QED BY <1>1, <1>3
    <3> HIDE DEF i, ReadsOf
    <3>4. o \in Objs /\ Has(io_batch, "READ", p, o)
      BY <1>l, <3>2 DEF Has, Operation
    <3>5. ASSUME NEW b \in Blocks PROVE data[o][b] = "good"
      <4>1. PICK x \in Range(io_batch) :
              x.op = "READ" /\ x.piece = p /\ x.obj = o /\ b \in x.blocks
        BY <3>4 DEF ReadsGood, WholeReads
      <4>2. PICK j \in DOMAIN io_batch : x = io_batch[j]
        BY DEF Range
      <4>3. j < io_pos
        BY <1>t, <1>l, <1>1
      <4> QED BY <4>1, <4>2, <4>3 DEF ReadsGood
    <3> QED BY <3>3, <3>4, <3>5 DEF Verified
  <2> QED BY <2>1, <2>2
<1> HIDE DEF ReadsOf
<1>4. ASSUME NEW p \in Pieces, NEW o \in Objs, Reading(p, o)'
      PROVE  p \in downloaded'
  <2>1. Has(operations, "READ", p, o) \/ Has(io_batch, "READ", p, o) \/ read_res[p] = o
    BY <1>1, <1>2, <1>3, <1>4 DEF Reading
  <2> QED BY <1>1, <2>1 DEF ReadsGood, Reading
<1>5. ASSUME NEW p \in Pieces, read_res'[p] # NoObj PROVE Verified(read_res[p])'
  <2>1. Verified(read_res'[p])
    BY <1>3, <1>5 DEF ReadsGood
  <2> QED BY <1>1, <2>1 DEF Verified
<1>6. WholeReads(io_batch') /\ DOMAIN io_batch' = {}
  <2>1. WholeReads(io_batch')
    BY <1>1, HasNone DEF WholeReads
  <2> QED BY <1>1, <2>1
<1> QED BY <1>1, <1>4, <1>5, <1>6 DEF ReadsGood

\* Every step keeps what is read good.
LEMMA StepReadsGood ==
  ASSUME Failing = {}, Placed, DiskGood, ReadsGood, [Next]_vars
  PROVE  ReadsGood'
<1>1. CASE IoSwap
  <2>1. /\ io_batch = <<>> /\ io_batch' = operations /\ operations' = <<>> /\ io_pos' = 1
        /\ UNCHANGED <<data, read_res, downloaded>>
    BY <1>1 DEF IoSwap, Placed, TypeOK, IoType, pieceVars, infoVars
  <2>2. WholeReads(operations') /\ WholeReads(io_batch')
    BY <2>1, HasNone DEF WholeReads, ReadsGood
  <2>3. \A p, o : Reading(p, o)' => Reading(p, o)
    BY <2>1, HasNone DEF Reading
  <2>4. \A i \in DOMAIN io_batch' : ~(i < io_pos')
    <3>1. operations \in Seq(Operation)
      BY DEF Placed, TypeOK, FileType
    <3> QED BY <2>1, <3>1, LenProperties
  <2> QED BY <2>1, <2>2, <2>3, <2>4 DEF ReadsGood, Verified
<1>2. CASE IoWake \/ Sha \/ Destroy \/ Gone \/ UNCHANGED vars
  <2>1. UNCHANGED <<operations, io_batch, io_pos, read_res, downloaded, data>>
    BY <1>2 DEF IoWake, Sha, ShaWake, ShaSwap, CalculateSha1, ShaPublish, Destroy,
       StopSha1Calc, StopFileService, Join, Gone, vars, pieceVars, infoVars, fileVars, ioVars
  <2> QED BY <2>1 DEF ReadsGood, Reading, Verified
<1> QED BY <1>1, <1>2, MainReadsGood, ExecutedReadsGood, CollectedReadsGood DEF Next, Io

\* Every step keeps the cached pieces that passed their hash good.
LEMMA StepCacheGood ==
  ASSUME Placed, ReadsGood, CacheGood, [Next]_vars
  PROVE  CacheGood'
<1> SUFFICES ASSUME NEW q \in Pieces, Held(q)' # NoObj,
                    HeldState(q)' \in {"CHECK_SHA1_OK", "WRITED"}
             PROVE  Verified(Held(q))'
  BY DEF CacheGood
<1>1. CASE Kept(q)
  <2>1. /\ q \in Cached /\ state[cache_piece[q]] \in {"CHECK_SHA1_OK", "WRITED"}
        /\ cache_piece'[q] = cache_piece[q]
    BY <1>1 DEF Kept, Held, HeldState, Cached
  <2>2. data'[cache_piece[q]] = data[cache_piece[q]]
    BY <2>1, StepKeepsBytes
  <2>3. Verified(cache_piece[q])
    BY <2>1 DEF CacheGood, Held, HeldState, Cached
  <2> QED BY <2>1, <2>2, <2>3 DEF Held, Verified
<1>2. CASE Written(q)
  BY <1>2 DEF Written
<1>3. CASE ReadIn(q)
  <2>1. data' = data /\ Held(q)' = read_res[q] /\ Verified(read_res[q])
    BY <1>3 DEF ReadIn, ProcessAsyncReadOps, ReadsGood
  <2> QED BY <2>1 DEF Held, Verified
<1>4. CASE Checked(q)
  <2>1. /\ CompleteAsyncCheckPiece /\ q = sha_list[1][1] /\ sha_list[1][2]
        /\ Held(q)' = Held(q)
    BY <1>4 DEF Checked
  <2>2. \A b \in Blocks : data[cache_piece[q]][b] = "good"
    BY <2>1, FirstResult
  <2>3. data' = data
    BY <2>1 DEF CompleteAsyncCheckPiece
  <2> QED BY <2>1, <2>2, <2>3 DEF Held, Verified
<1>5. CASE Saved(q)
  <2>1. data' = data /\ Held(q)' = Held(q)
    BY <1>5 DEF Saved, ProcessAsyncWritePiece
  <2>2. Verified(Held(q))
    BY <1>5, <2>1 DEF Saved, CacheGood
  <2> QED BY <2>1, <2>2 DEF Held, Verified
<1> QED BY <1>1, <1>2, <1>3, <1>4, <1>5, StepCached

\* No step answers a reader with bytes that are not good.
LEMMA StepReadsTrue ==
  ASSUME Placed, Announced, CacheGood, ReadsGood, ReadSuccessIsTrue, [Next]_vars
  PROVE  ReadSuccessIsTrue'
<1> SUFFICES ASSUME NEW r \in Readers PROVE answer'[r] # "garbage"
  BY DEF ReadSuccessIsTrue
<1>t. /\ answer \in [Readers -> {"none", "waiting", "refused", "verified", "garbage", "outside"}]
      /\ answer[r] # "garbage"
  BY DEF Placed, TypeOK, ReadsType, ReadSuccessIsTrue
<1>1. ASSUME NEW p \in Pieces, NEW s \in Readers, NEW b \in Ranges \cup {Beyond},
             ReadNow(s, p, b)
      PROVE  answer'[r] # "garbage"
  <2>1. CASE answer' = [answer EXCEPT ![s] = "refused"]
    BY <1>t, <2>1
  <2>2. CASE /\ Readable(p, b) /\ cache_piece[p] # NoObj
             /\ answer' = [answer EXCEPT ![s] = Outcome(cache_piece[p], b)]
    <3>1. Verified(cache_piece[p]) /\ b \in Ranges
      BY <2>2 DEF Readable, Announced, CacheGood, Held, HeldState
    <3>2. Outcome(cache_piece[p], b) # "garbage"
      BY <3>1 DEF Outcome, Verified, Ranges
    <3> QED BY <1>t, <2>2, <3>2
  <2> QED BY <1>1, <2>1, <2>2 DEF ReadNow
<1>2. ASSUME NEW p \in Pieces, NEW s \in Readers, NEW b \in Ranges \cup {Beyond},
             AsyncReadBlock(s, p, b)
      PROVE  answer'[r] # "garbage"
  BY <1>t, <1>2 DEF AsyncReadBlock
<1>3. CASE Peers
  BY <1>t, <1>1, <1>2, <1>3 DEF Peers, MarkDownloading, Write, readVars
<1>4. CASE ProcessAsyncReadOps
  <2> DEFINE read == {p \in Pieces : read_res[p] # NoObj}
             w == CHOOSE w \in Waiting(read) : w[2][1] = r
  <2>1. answer'[r] = IF \E x \in Waiting(read) : x[2][1] = r
                       THEN Outcome(read_res[w[1]], w[2][2]) ELSE answer[r]
    BY <1>4 DEF ProcessAsyncReadOps
  <2>2. ASSUME \E x \in Waiting(read) : x[2][1] = r
        PROVE  Outcome(read_res[w[1]], w[2][2]) # "garbage"
    <3>1. w \in Waiting(read)
      BY <2>2
    <3>2. w \in read \X (Readers \X Ranges) /\ w[2] \in async_read_ops[w[1]]
      BY <3>1 DEF Waiting
    <3>3. w[1] \in read /\ w[2][2] \in Ranges
      BY <3>2
    <3>4. Verified(read_res[w[1]])
      BY <3>3 DEF ReadsGood
    <3> QED BY <3>3, <3>4 DEF Outcome, Verified, Ranges
  <2> HIDE DEF w
  <2> QED BY <1>t, <2>1, <2>2
<1>5. CASE \/ ProcessCache \/ ProcessAsyncCheckPiece \/ CompleteAsyncCheckPiece
           \/ ProcessAsyncWritePiece \/ FreeCachePiece \/ Io \/ Sha \/ Destroy \/ Gone
           \/ UNCHANGED vars
  <2>1. answer' = answer
    BY <1>5 DEF ProcessCache, ProcessAsyncCheckPiece, CompleteAsyncCheckPiece,
       ProcessAsyncWritePiece, FreeCachePiece, Io, IoWake, IoSwap, CompleteOperation,
       CollectResult, Sha, ShaWake, ShaSwap, CalculateSha1, ShaPublish, Destroy,
       StopSha1Calc, StopFileService, Join, Gone, vars, readVars
  <2> QED BY <1>t, <2>1
<1> QED BY <1>3, <1>4, <1>5 DEF Next, Cache

\* A callback that is told its read succeeded gets bytes that the metainfo's hash
\* covers, from the cache or from the files, whatever was recycled meanwhile, when
\* the disk does not fail (BitCache.h:27), except for a range whose begin + length
\* wraps: BitCache.cpp:36 lets it pass, and it is answered "outside".
THEOREM ReadsTellTheTruth ==
  ASSUME Failing = {}
  PROVE  Spec => []ReadSuccessIsTrue
<1> DEFINE Inv == Placed /\ DiskGood /\ Announced /\ ReadsGood /\ CacheGood /\ ReadSuccessIsTrue
<1>1. Init => Inv
  <2> SUFFICES ASSUME Init
               PROVE  DiskGood /\ Announced /\ ReadsGood /\ CacheGood /\ ReadSuccessIsTrue
    BY InitPlaced
  <2>1. WholeReads(<<>>) /\ Whole(<<>>) /\ DOMAIN <<>> = {}
    BY HasNone DEF Whole, WholeReads
  <2>2. DiskGood
    BY <2>1 DEF Init, DiskGood
  <2>3. ReadsGood
    BY <2>1, HasNone, ConstantsAssumption DEF Init, ReadsGood, Reading
  <2>4. Announced /\ CacheGood /\ ReadSuccessIsTrue
    BY DEF Init, Announced, CacheGood, ReadSuccessIsTrue, Held
  <2> QED BY <2>2, <2>3, <2>4
<1>2. Inv /\ [Next]_vars => Inv'
  BY StepPlaced, StepDisk, StepAnnounced, StepReadsGood, StepCacheGood, StepReadsTrue
<1>3. Inv => ReadSuccessIsTrue
  OBVIOUS
<1> QED BY <1>1, <1>2, <1>3, PTL DEF Spec

=============================================================================
