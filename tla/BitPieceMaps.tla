---------------------------- MODULE BitPieceMaps ----------------------------
(***************************************************************************)
(* BitPieceMap, the maps of BitDownloadingInfo, and the search of          *)
(* LinearPieceIndexSearcher: halves of a range of bytes, recomputed in the *)
(* searcher's own result map, which keeps what earlier searches left.      *)
(* A map is the set of its bits.                                           *)
(***************************************************************************)
EXTENDS BitLayout, FiniteSetsExt

CONSTANTS
  PieceCount,
  Bits,        \* bits of a byte, 8 in the code
  Torrents,    \* sequences of files, with length and is_download
  PeerMaps     \* bit fields the peers have sent, spare bits included

map_size_ == (PieceCount + Bits - 1) \div Bits
AllBits == 0 .. map_size_ * Bits - 1

VARIABLES
  files,              \* GetFilesInfo, or <<>> before the torrent is open
  need_download_, downloaded_, downloading_,
  result_piece_map_,  \* of the searcher
  candidate,          \* map of the peer the search is for
  begin, end,         \* the bytes that are left to search
  search,             \* "idle", "searching", "found" or "not_found"
  found_index         \* what the search found

mapVars == <<files, need_download_, downloaded_, downloading_>>
searchVars == <<result_piece_map_, candidate, begin, end, search, found_index>>
pieceMapVars == <<mapVars, searchVars>>

-----------------------------------------------------------------------------
(* BitPieceMap.                                                            *)

MarkPiece(map, p) == map \cup ({p} \cap AllBits)
UnMarkPiece(map, p) == map \ {p}
InBytes(map, b, e) == {p \in map : p \div Bits >= b /\ p \div Bits < e}
\* Difference, Intersection and Union write the bytes from b to e of the result.
StoreOver(result, map, b, e) == result \cup InBytes(map, b, e)
Store(result, map, b, e) == (result \ InBytes(result, b, e)) \cup InBytes(map, b, e)
IsEqual(map1, map2, b, e) == b # e /\ InBytes(map1, b, e) = InBytes(map2, b, e)

-----------------------------------------------------------------------------
FileBegin(torrent, i) == Boundaries([j \in DOMAIN torrent |-> torrent[j].length])[i - 1]

\* UpdateNeedDownload: from the piece of the first byte to the last one's.
NeedOf(i) ==
  LET file_end == FileBegin(files', i) + files'[i].length
  IN  (FileBegin(files', i) \div PieceLength) .. (file_end + PieceLength - 1) \div PieceLength - 1

MapsInit ==
  /\ files = <<>> /\ need_download_ = {} /\ downloaded_ = {} /\ downloading_ = {}
  /\ result_piece_map_ = {} /\ candidate = {}
  /\ begin = 0 /\ end = 0 /\ search = "idle" /\ found_index = 0

Open ==
  /\ files = <<>>
  /\ files' \in Torrents
  /\ need_download_' = UNION {NeedOf(i) \cap AllBits : i \in {j \in DOMAIN files' : files'[j].is_download}}
  /\ UNCHANGED <<downloaded_, downloading_, searchVars>>

Search ==
  /\ files # <<>> /\ search = "idle"
  /\ candidate' \in PeerMaps
  /\ search' = "searching" /\ begin' = 0 /\ end' = map_size_
  /\ UNCHANGED <<mapVars, result_piece_map_, found_index>>

Halve ==
  /\ search = "searching" /\ begin < end
  /\ LET half == (begin + end) \div 2
         middle == IF half = begin THEN begin + 1 ELSE half
         union == Store(result_piece_map_, downloaded_ \cup downloading_, begin, middle)
         difference == Store(union, need_download_ \ union, begin, middle)
         result == Store(difference, difference \cap candidate, begin, middle)
     IN  /\ result_piece_map_' = result
         /\ IF IsEqual(result, {}, begin, middle)
              THEN begin' = middle /\ UNCHANGED end
              ELSE end' = (IF end = middle THEN middle - 1 ELSE middle) /\ UNCHANGED begin
  /\ UNCHANGED <<mapVars, candidate, search, found_index>>

\* SearchPieceIndex: the first bit of the byte.
SearchReturns ==
  /\ search = "searching" /\ begin >= end
  /\ LET found == InBytes(result_piece_map_, begin, begin + 1)
     IN  IF begin # map_size_ /\ found # {}
           THEN search' = "found" /\ found_index' = Min(found)
           ELSE search' = "not_found" /\ UNCHANGED found_index
  /\ UNCHANGED <<mapVars, result_piece_map_, candidate, begin, end>>

\* DispatchNewRequest.
Dispatch ==
  /\ search \in {"found", "not_found"}
  /\ downloading_' = IF search = "found" /\ found_index < PieceCount
                       THEN MarkPiece(downloading_, found_index) ELSE downloading_
  /\ search' = "idle" /\ candidate' = {} /\ begin' = 0 /\ end' = 0 /\ found_index' = 0
  /\ UNCHANGED <<files, need_download_, downloaded_, result_piece_map_>>

MarkDownloadComplete(p) ==
  /\ search = "idle" /\ p \in downloading_
  /\ downloading_' = UnMarkPiece(downloading_, p) /\ downloaded_' = MarkPiece(downloaded_, p)
  /\ UNCHANGED <<files, need_download_, searchVars>>
DownloadingFailed(p) ==
  /\ search = "idle" /\ p \in downloading_
  /\ downloading_' = UnMarkPiece(downloading_, p)
  /\ UNCHANGED <<files, need_download_, downloaded_, searchVars>>

MapsNext == \/ Open \/ Search \/ Halve \/ SearchReturns \/ Dispatch
        \/ \E p \in downloading_ : MarkDownloadComplete(p) \/ DownloadingFailed(p)

MapsSpec == MapsInit /\ [][MapsNext]_pieceMapVars

-----------------------------------------------------------------------------
(* Properties.                                                             *)

\* Pieces that hold a byte of a file that is to be downloaded.
Touched ==
  {p \in 0 .. PieceCount - 1 :
     \E i \in DOMAIN files : \E b \in 0 .. files[i].length - 1 :
       files[i].is_download
         /\ (FileBegin(files, i) + b) \div PieceLength = p}

\* The search by halves, over a result map that is stale outside the bytes it has
\* computed, returns the first piece that is touched by a wanted file, is neither
\* downloaded nor being downloaded, and that the peer has, and returns none only
\* if there is none: a spare bit a peer has set is never taken for a piece, and no
\* piece is dispatched twice or passed over for good.
SearchFindsFirst ==
  LET wanted == (Touched \ (downloaded_ \cup downloading_)) \cap candidate
  IN  /\ search = "found" => wanted # {} /\ found_index = Min(wanted)
      /\ search = "not_found" => wanted = {}
      /\ downloaded_ \cap downloading_ = {}
=============================================================================
