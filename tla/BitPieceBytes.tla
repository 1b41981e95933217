--------------------------- MODULE BitPieceBytes ----------------------------
(***************************************************************************)
(* The bytes of a piece, from the blocks a peer sends to the files: the    *)
(* written ranges of BitPiece, and the file operations into which          *)
(* FileService::AddOperation splits a piece.  A byte of the torrent is its *)
(* number; a file is a function from positions to bytes.                   *)
(***************************************************************************)
EXTENDS BitLayout, FiniteSetsExt, SequencesExt

CONSTANTS
  BlockLength,   \* request_block_size
  FileLengths,   \* lengths a file may have
  MaxFiles       \* bound

\* The download asks for whole blocks.
ASSUME BytesAssumption ==
  /\ BlockLength \in Nat \ {0} /\ PieceLength \in Nat \ {0} /\ PieceLength % BlockLength = 0
  /\ FileLengths \subseteq Nat /\ MaxFiles \in Nat

NoByte == -1

VARIABLES
  file_size_,   \* lengths of the files, or <<>> before a torrent is open
  piece,  \* the piece that is followed
  data_,        \* its bytes
  writed_,      \* the ranges [first, second)
  state,        \* "open", "receiving", "splitting", "done" or "undefined"
  op,           \* what AddOperation is at: pos_in_piece, file_index, pos_in_file, left
  disk          \* the files

byteVars == <<file_size_, piece, data_, writed_, state, op, disk>>

NoOp == [pos_in_piece |-> 0, file_index |-> 0, pos_in_file |-> 0, left |-> 0]
Total == Boundaries(file_size_)[Len(file_size_)]

-----------------------------------------------------------------------------
(* BitPiece.                                                               *)

NoMerge(w, cur) == w
MergeNextWriteBlock(w, cur) ==
  IF cur < Len(w) /\ w[cur].second = w[cur + 1].first
    THEN RemoveAt([w EXCEPT ![cur].second = w[cur + 1].second], cur + 1) ELSE w

\* The loop stops at the first range it can do something with.
MarkWriteBlock(w, b, e) ==
  LET stop == {i \in DOMAIN w : \/ w[i].first <= b /\ w[i].second >= e
                                \/ w[i].first = e \/ w[i].second = b \/ e < w[i].first}
      i == IF stop = {} THEN Len(w) + 1 ELSE Min(stop)
  IN  IF i \notin DOMAIN w THEN Append(w, [first |-> b, second |-> e])
      ELSE IF w[i].first <= b /\ w[i].second >= e THEN w
      ELSE IF w[i].first = e THEN [w EXCEPT ![i].first = b]
      ELSE IF w[i].second = b THEN MergeNextWriteBlock([w EXCEPT ![i].second = e], i)
      ELSE InsertAt(w, i, [first |-> b, second |-> e])

IsComplete(w) == w # <<>> /\ w[1].first = 0 /\ w[1].second = PieceLength

-----------------------------------------------------------------------------
(* FileService.                                                            *)

file_boundary_ == Boundaries(file_size_)
GetPieceByteRange == <<piece * PieceLength, (piece + 1) * PieceLength>>

\* std::upper_bound over the boundaries, as the number of a file.
UpperBound(byte) == Cardinality({i \in DOMAIN file_size_ : file_boundary_[i] <= byte}) + 1
GetFileIndexRange == <<UpperBound(GetPieceByteRange[1]), UpperBound(GetPieceByteRange[2] - 1)>>

BytesInit ==
  /\ file_size_ = <<>> /\ piece = 0 /\ state = "open"
  /\ data_ = [b \in 0 .. PieceLength - 1 |-> NoByte] /\ writed_ = <<>>
  /\ op = NoOp /\ disk = <<>>

PrepareFiles ==
  /\ state = "open"
  /\ \E n \in 1 .. MaxFiles : file_size_' \in [1 .. n -> FileLengths]
  /\ LET total == Boundaries(file_size_')[Len(file_size_')]
     IN  total > 0 /\ piece' \in 0 .. (total - 1) \div PieceLength
  /\ disk' = [i \in DOMAIN file_size_' |-> [p \in 0 .. file_size_'[i] - 1 |-> NoByte]]
  /\ state' = "receiving"
  /\ UNCHANGED <<data_, writed_, op>>

\* WriteBlock of a block that was requested; the complete piece goes on to its file.
WriteBlock(begin) ==
  /\ state = "receiving"
  /\ begin + BlockLength <= PieceLength
  /\ data_' = [b \in DOMAIN data_ |->
                 IF b \in begin .. begin + BlockLength - 1 THEN piece * PieceLength + b ELSE data_[b]]
  /\ writed_' = MarkWriteBlock(writed_, begin, begin + BlockLength)
  /\ LET first == GetFileIndexRange[1]
     IN  IF IsComplete(writed_')
           THEN /\ state' = "splitting"
                /\ op' = [pos_in_piece |-> 0, file_index |-> first, left |-> PieceLength,
                          pos_in_file |-> GetPieceByteRange[1] - file_boundary_[first - 1]]
           ELSE UNCHANGED <<state, op>>
  /\ UNCHANGED <<file_size_, piece, disk>>

\* One turn of AddOperation's loop, and the operation it adds.  An index past the
\* last file reads past the end of file_size_: what follows is undefined.
AddOperation ==
  /\ state = "splitting" /\ op.file_index <= GetFileIndexRange[2]
  /\ IF op.file_index > Len(file_size_) THEN state' = "undefined" /\ UNCHANGED <<op, disk>>
     ELSE LET file == op.file_index
              bytes == Min({op.left, file_size_[file] - op.pos_in_file})
          IN  /\ disk' = [disk EXCEPT ![file] = [p \in DOMAIN @ |->
                            IF p \in op.pos_in_file .. op.pos_in_file + bytes - 1
                              THEN data_[op.pos_in_piece + (p - op.pos_in_file)] ELSE @[p]]]
              /\ op' = [pos_in_piece |-> op.pos_in_piece + bytes, file_index |-> file + 1,
                        pos_in_file |-> 0, left |-> op.left - bytes]
              /\ UNCHANGED state
  /\ UNCHANGED <<file_size_, piece, data_, writed_>>
OperationsAdded ==
  /\ state = "splitting" /\ op.file_index > GetFileIndexRange[2]
  /\ state' = "done"
  /\ UNCHANGED <<file_size_, piece, data_, writed_, op, disk>>

BytesNext == \/ PrepareFiles \/ AddOperation \/ OperationsAdded
             \/ \E k \in 0 .. PieceLength \div BlockLength - 1 : WriteBlock(k * BlockLength)

BytesSpec == BytesInit /\ [][BytesNext]_byteVars

-----------------------------------------------------------------------------
(* Properties.                                                             *)

\* In whatever order the blocks come, and however often, the ranges cover what was
\* written, apart from each other and in order, so that the piece is complete with
\* its last block and not before.  Split over the files, empty ones among them,
\* every byte of a complete piece goes to its place and nowhere else.  The last
\* piece of a torrent whose length is no multiple of PieceLength, and only that
\* piece, leads past the last file.
BytesPlaced ==
  LET inside(b) == \E r \in ToSet(writed_) : r.first <= b /\ b < r.second
      whole == GetPieceByteRange[2] <= Total
  IN  /\ \A b \in DOMAIN data_ : inside(b) <=> data_[b] # NoByte
      /\ \A i \in 1 .. Len(writed_) - 1 : writed_[i].second < writed_[i + 1].first
      /\ state = "receiving" => \E b \in DOMAIN data_ : data_[b] = NoByte
      /\ state = "undefined" => ~whole
      /\ state = "done" =>
           /\ whole
           /\ \A i \in DOMAIN disk : \A p \in DOMAIN disk[i] :
                LET b == file_boundary_[i - 1] + p
                IN  disk[i][p] = IF b \div PieceLength = piece THEN b ELSE NoByte
=============================================================================
