----------------------------- MODULE BitMetainfo ----------------------------
(***************************************************************************)
(* The bencode reader and what is made of it: a torrent file becomes a     *)
(* BitData with its files selected, a tracker's answer becomes peers and   *)
(* an interval.  A buffer is a sequence of characters, of which each key   *)
(* ("announce", "info", ...) is one; the reader's iterator is an index.    *)
(***************************************************************************)
EXTENDS Integers, FiniteSetsExt, SequencesExt

CONSTANTS
  Characters,      \* of buffers
  HashSize,        \* characters of a hash in "pieces", 20 in the code
  PeerSize,        \* characters of a peer in "peers", 6 in the code
  Objects,         \* what torrent files and answers are made of
  TorrentFiles,    \* what torrent files may hold, some of Objects
  TrackerAnswers   \* what trackers may answer, some of Objects

VARIABLES
  source,    \* "none", or whose buffer is read: "torrent" or "tracker"
  written,   \* the object that was written to the buffer
  buffer,    \* streambuf_, all that was written or the beginning of it
  bitdata,   \* the BitData of the task, or Nothing, or Refused after an exception
  answer     \* peers and interval of the response, or Nothing, or Refused

metainfoVars == <<source, written, buffer, bitdata, answer>>

Nothing == [type |-> "nothing"]
Refused == [type |-> "refused"]
\* What a step leaves behind if it reads the one element of the set, or throws.
Made(set) == IF set = {} THEN {Refused} ELSE set

-----------------------------------------------------------------------------
(* Bencode as it is written.  An object has its contents, and as raw the   *)
(* characters it is written as, which the code knows by srcbufbegin_ and   *)
(* srcbufend_.  A dictionary is a sequence of pairs, for a file may repeat *)
(* a key; a numeral may begin with zeros.                                  *)

Digits == <<"0", "1", "2", "3", "4", "5", "6", "7", "8", "9">>
IsNumeral(s) == s # <<>> /\ Range(s) \subseteq Range(Digits)
Value(digits) ==
  FoldLeft(LAMBDA n, c : n * 10 + SelectInSeq(Digits, LAMBDA d : d = c) - 1, 0, digits)

Str(length, s) == [type |-> "string", string |-> s, raw |-> length \o <<":">> \o s]
Num(numeral) ==
  [type |-> "integer", number |-> Value(numeral), raw |-> <<"i">> \o numeral \o <<"e">>]
BList(items) ==
  [type |-> "list", items |-> items,
   raw |-> <<"l">> \o FlattenSeq([i \in DOMAIN items |-> items[i].raw]) \o <<"e">>]
Dict(pairs) ==
  [type |-> "dictionary", pairs |-> pairs,
   raw |-> <<"d">> \o FlattenSeq([i \in DOMAIN pairs |-> pairs[i][1].raw \o pairs[i][2].raw]) \o <<"e">>]

StringObjects == {o \in Objects : o.type = "string"}
IsObject(o) ==
  /\ o.raw \in Seq(Characters)
  /\ \/ /\ o.type = "string" /\ o.string \in Seq(Characters) \ {<<>>}
        /\ \E n \in 1 .. Len(o.raw) :
             LET length == SubSeq(o.raw, 1, n)
             IN  IsNumeral(length) /\ Value(length) = Len(o.string) /\ o = Str(length, o.string)
     \/ /\ o.type = "integer"
        /\ LET numeral == SubSeq(o.raw, 2, Len(o.raw) - 1)
           IN  IsNumeral(numeral) /\ o = Num(numeral)
     \/ o.type = "list" /\ o.items \in Seq(Objects) /\ o = BList(o.items)
     \/ o.type = "dictionary" /\ o.pairs \in Seq(StringObjects \X Objects) /\ o = Dict(o.pairs)

\* The reader refuses an empty string, so none is written.
ASSUME MetainfoAssumption ==
  /\ Range(Digits) \cup {":", "i", "l", "d", "e"} \subseteq Characters
  /\ \A o \in Objects : IsObject(o)
  /\ TorrentFiles \subseteq Objects /\ TrackerAnswers \subseteq Objects

-----------------------------------------------------------------------------
(* The reader.  What it returns is the set of what it has read, as value,  *)
(* and where it stopped, as end; the set is empty if it throws.            *)

Raw(b, p, end) == SubSeq(b, p, end - 1)

\* From p on, where the digits end.
DigitsEnd(b, p) == Min({q \in p .. Len(b) + 1 : q > Len(b) \/ b[q] \notin Range(Digits)})

\* BenString: the length, which may not be 0, a colon, and that many characters.
BenString(b, p) ==
  LET colon == DigitsEnd(b, p)
      length == Value(SubSeq(b, p, colon - 1))
      end == colon + length + 1
  IN  IF colon <= Len(b) /\ b[colon] = ":" /\ length \in 1 .. Len(b) - colon
        THEN {[value |-> [type |-> "string", string |-> Raw(b, colon + 1, end), raw |-> Raw(b, p, end)],
               end |-> end]}
        ELSE {}

\* BenInteger: up to the next "e"; the number is what digits it begins with.
BenInteger(b, p) ==
  {[value |-> [type |-> "integer", number |-> Value(SubSeq(b, p + 1, Min({DigitsEnd(b, p + 1), e}) - 1)),
               raw |-> Raw(b, p, e + 1)],
    end |-> e + 1] :
     e \in {q \in p + 1 .. Len(b) : b[q] = "e" /\ \A r \in p + 1 .. q - 1 : b[r] # "e"}}

\* After the last object of a list there is an "e", or the buffer has ended.
Closed(b, p) == {[items |-> <<>>, end |-> Min({p, Len(b)}) + 1]}
Close(b, p) == IF p > Len(b) THEN {} ELSE Closed(b, p)

\* GetBenObject at p, where Items[q][kind] are the items of a list or a dictionary
\* from q on, up to its "e".
ObjectAt(b, Items, p) ==
  IF p > Len(b) THEN {}
  ELSE CASE b[p] = "i" -> BenInteger(b, p)
         [] b[p] = "l" ->
              {[value |-> [type |-> "list", items |-> l.items, raw |-> Raw(b, p, l.end)], end |-> l.end] :
                 l \in Items[p + 1]["list"]}
         [] b[p] = "d" ->
              {[value |-> [type |-> "dictionary", pairs |-> d.items, raw |-> Raw(b, p, d.end)],
                end |-> d.end] : d \in Items[p + 1]["dictionary"]}
         [] OTHER -> BenString(b, p)

\* BenList and BenDictionary read object after object, and a string before each.
ItemAt(b, Items, kind, p) ==
  IF kind = "list" THEN ObjectAt(b, Items, p)
  ELSE UNION {{[value |-> <<key.value, o.value>>, end |-> o.end] : o \in ObjectAt(b, Items, key.end)} :
                key \in BenString(b, p)}
ItemsAt(b, Items, kind, p) ==
  IF p > Len(b) \/ b[p] = "e" THEN Close(b, p)
  ELSE UNION {{[items |-> <<item.value>> \o rest.items, end |-> rest.end] :
                 rest \in Items[item.end][kind]} :
                item \in ItemAt(b, Items, kind, p)}

BenItems(b) ==
  LET Items[p \in 1 .. Len(b) + 1] ==
        [kind \in {"list", "dictionary"} |-> ItemsAt(b, Items, kind, p)]
  IN  Items

GetBenObject(b) == {o.value : o \in ObjectAt(b, BenItems(b), 1)}

-----------------------------------------------------------------------------
(* MetainfoFile and TrackerResponse.  A pointer that may be 0 is a set of  *)
(* at most one object.                                                     *)

\* benmap_.insert keeps the first value of a key.
BenMap(dic, key) ==
  {dic.pairs[i][2] : i \in {n \in DOMAIN dic.pairs :
     dic.pairs[n][1].string = <<key>> /\ \A m \in 1 .. n - 1 : dic.pairs[m][1].string # <<key>>}}
ValueBenTypeCast(dic, key, type) == {v \in BenMap(dic, key) : v.type = type}
The(pointer) == CHOOSE object \in pointer : TRUE
AllElementPtr(items, type) == SelectSeq(items, LAMBDA v : v.type = type)
StringsOf(items) ==
  LET strings == AllElementPtr(items, "string")
  IN  [i \in DOMAIN strings |-> strings[i].string]

\* PrepareBasicData.
IsTorrent(dic) ==
  /\ dic.type = "dictionary"
  /\ ValueBenTypeCast(dic, "announce", "string") # {}
  /\ \E info \in ValueBenTypeCast(dic, "info", "dictionary") :
       \E pieces \in ValueBenTypeCast(info, "pieces", "string") :
         Len(pieces.string) % HashSize = 0

\* What is no torrent makes the constructor throw.
MetainfoFile == {dic \in GetBenObject(buffer) : IsTorrent(dic)}

\* GetAnnounce: every string of every list of the announce-list, if there is one.
GetAnnounce(dic) ==
  LET annlist == ValueBenTypeCast(dic, "announce-list", "list")
      vl == AllElementPtr(The(annlist).items, "list")
  IN  IF annlist = {} THEN <<The(ValueBenTypeCast(dic, "announce", "string")).string>>
      ELSE FlattenSeq([i \in DOMAIN vl |-> StringsOf(vl[i].items)])

NumberOf(dic, key) ==
  LET number == ValueBenTypeCast(dic, key, "integer")
  IN  IF number = {} THEN 0 ELSE The(number).number
Name(info) ==
  LET name == ValueBenTypeCast(info, "name", "string")
  IN  IF name = {} THEN <<>> ELSE The(name).string
GetTheFile(info) == <<[length |-> NumberOf(info, "length"), path |-> <<Name(info)>>]>>

\* Without the entries that lack a length or a path.
GetFileList(info) ==
  LET fs == ValueBenTypeCast(info, "files", "list")
      files == SelectSeq(AllElementPtr(The(fs).items, "dictionary"), LAMBDA file :
                 /\ ValueBenTypeCast(file, "length", "integer") # {}
                 /\ ValueBenTypeCast(file, "path", "list") # {})
      Path(file) == StringsOf(The(ValueBenTypeCast(file, "path", "list")).items)
  IN  IF fs = {} THEN <<>>
      ELSE [i \in DOMAIN files |-> [length |-> NumberOf(files[i], "length"),
                                    path |-> <<Name(info)>> \o Path(files[i])]]

IsSingleFile(info) == ValueBenTypeCast(info, "length", "integer") # {}
GetFiles(info) == IF IsSingleFile(info) THEN GetTheFile(info) ELSE GetFileList(info)

PiecesCount(info) == Len(The(ValueBenTypeCast(info, "pieces", "string")).string) \div HashSize
GetRawInfoValue(info) == info.raw

-----------------------------------------------------------------------------
(* BitData, and what BitNewTaskCreator::CreateTask makes of it.            *)

\* No file is selected at first.
PrepareDownloadFiles(info) ==
  LET files == GetFiles(info)
  IN  [total_size_ |-> 0,
       download_files_ |-> [i \in DOMAIN files |->
          [file_path |-> files[i].path, length |-> files[i].length, is_download |-> FALSE]]]

DoSelectFile(selected, i, download) ==
  LET length == selected.download_files_[i].length
  IN  IF selected.download_files_[i].is_download = download THEN selected
      ELSE [selected EXCEPT !.download_files_[i].is_download = download,
                            !.total_size_ = IF download THEN @ + length ELSE @ - length]
SelectAllFile(selected, download) ==
  FoldLeft(LAMBDA s, i : DoSelectFile(s, i, download), selected,
           [i \in DOMAIN selected.download_files_ |-> i])

\* With every file selected.
BitData(dic) ==
  LET info == The(ValueBenTypeCast(dic, "info", "dictionary"))
  IN  [type |-> "bitdata", announce |-> GetAnnounce(dic),
       piece_length_ |-> NumberOf(info, "piece length"), piece_count_ |-> PiecesCount(info),
       info_data |-> GetRawInfoValue(info),
       selected |-> SelectAllFile(PrepareDownloadFiles(info), TRUE)]

-----------------------------------------------------------------------------
MetainfoInit == /\ source = "none" /\ written = Nothing /\ buffer = <<>>
                /\ bitdata = Nothing /\ answer = Nothing

\* A file on the disk, whole or cut off.
BenTypesStreamBuf ==
  /\ source = "none" /\ source' = "torrent"
  /\ written' \in TorrentFiles
  /\ \E n \in 0 .. Len(written'.raw) : buffer' = SubSeq(written'.raw, 1, n)
  /\ UNCHANGED <<bitdata, answer>>

CreateTask ==
  /\ source = "torrent" /\ bitdata = Nothing
  /\ bitdata' \in Made({BitData(dic) : dic \in MetainfoFile})
  /\ UNCHANGED <<source, written, buffer, answer>>

\* The body of a response, which an unpacked response has at least one byte of,
\* is no longer than its Content-Length.
Body ==
  /\ source = "none" /\ source' = "tracker"
  /\ written' \in TrackerAnswers
  /\ \E n \in 1 .. Len(written'.raw) : buffer' = SubSeq(written'.raw, 1, n)
  /\ UNCHANGED <<bitdata, answer>>

\* GetPeerInfo, of as many peers as are there as a whole.
PeerInfo(s) == [i \in 1 .. Len(s) \div PeerSize |-> SubSeq(s, (i - 1) * PeerSize + 1, i * PeerSize)]

\* TrackerResponse: what is not a dictionary has neither a failure nor an interval.
TrackerResponse(dic) ==
  LET peers == ValueBenTypeCast(dic, "peers", "string")
  IN  IF dic.type # "dictionary" THEN [type |-> "answer", interval |-> 0, peers |-> <<>>]
      ELSE IF ValueBenTypeCast(dic, "failure reason", "string") # {} THEN Refused
      ELSE [type |-> "answer", interval |-> NumberOf(dic, "interval"),
            peers |-> IF peers = {} THEN <<>> ELSE PeerInfo(The(peers).string)]

\* BitTrackerConnection::ProcessProtocol; a failure or an exception changes nothing.
ProcessProtocol ==
  /\ source = "tracker" /\ answer = Nothing
  /\ answer' \in Made({TrackerResponse(dic) : dic \in GetBenObject(buffer)})
  /\ UNCHANGED <<source, written, buffer, bitdata>>

MetainfoNext == BenTypesStreamBuf \/ CreateTask \/ Body \/ ProcessProtocol

MetainfoSpec == MetainfoInit /\ [][MetainfoNext]_metainfoVars

-----------------------------------------------------------------------------
(* Properties.                                                             *)

\* A buffer is read as the object that was written to it, and a buffer that is cut
\* off anywhere is refused as a whole (BenTypes.cpp:43-181), so no task, peer or
\* interval comes of it; what the info hash is taken of is the first info dictionary
\* as it was written, whatever its order and its unknown or repeated keys.
ReadAsWritten ==
  source # "none" =>
    /\ GetBenObject(buffer) = IF buffer = written.raw THEN {written} ELSE {}
    /\ buffer # written.raw => bitdata \in {Nothing, Refused} /\ answer \in {Nothing, Refused}
    /\ bitdata.type = "bitdata" =>
         \E i \in DOMAIN written.pairs :
           /\ written.pairs[i][1].string = <<"info">>
           /\ \A j \in 1 .. i - 1 : written.pairs[j][1].string # <<"info">>
           /\ bitdata.info_data = written.pairs[i][2].raw
=============================================================================
