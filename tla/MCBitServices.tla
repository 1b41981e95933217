--------------------------- MODULE MCBitServices ----------------------------
(***************************************************************************)
(* The parts below the connections and the cache, each on its own: a       *)
(* behaviour is one of `unit`, and the state of the others stands still.   *)
(* They meet only in calls that the modules themselves take as inputs.     *)
(***************************************************************************)
EXTENDS BitCompletions, BitTimers, BitBuffers, BitPieceMaps, BitPieceBytes, BitStreams, BitMetainfo

CONSTANTS Trackers

VARIABLES
  unit,
  main, address, np, timer, updates, resolver_list, data, result_list,
  event, exit_flag, thread

Decimal(n) ==
  (IF n < 10 THEN <<>> ELSE <<Digits[n \div 10 + 1]>>) \o <<Digits[(n % 10) + 1]>>
S(s) == Str(Decimal(Len(s)), s)
I(n) == Num(Decimal(n))
L(items) == BList(items)
D(pairs) == Dict(pairs)
Of(key, v) == <<S(<<key>>), v>>
Maybe(entry) == {<<>>, <<entry>>}

TheFile(length, path) == D(<<Of("path", L(<<S(path), I(1)>>)), Of("length", I(length))>>)
Infos ==
  {D(<<Of("piece length", I(4))>> \o layout \o pieces) :
     layout \in {<<Of("length", I(12)), Of("name", S(<<"n", "1">>))>>,
                <<Of("files", L(<<TheFile(3, <<"a">>), D(<<Of("length", I(0))>>), TheFile(5, <<"e">>)>>))>>,
                <<Of("name", S(<<"n">>)), Of("files", I(0))>>},
     pieces \in {<<>>, <<Of("pieces", S(<<"l", "d", "e">>))>>,
                <<Of("pieces", S(<<"i", "1", "e", ":", "d", "e", "2", "l", "x", "x">>))>>}}
\* Files in one piece or several, with keys that are missing, repeated or of
\* another type, and answers likewise; hashes of two characters, peers of three.
MetaTorrents ==
  {D(Append(announce \o list, Of("info", info)) \o last) :
     announce \in {<<>>, <<Of("announce", S(<<"t">>))>>},
     list \in Maybe(Of("announce-list", L(<<Num(<<"0", "7">>), L(<<S(<<"t">>), I(2), S(<<"u">>)>>)>>))),
     info \in Infos,
     last \in {<<>>, <<Of("info", I(3))>>}}
    \cup {L(<<S(<<"a">>), D(<<>>)>>), I(40)}
MetaAnswers ==
  {D(failure \o interval \o peers) :
     failure \in Maybe(Of("failure reason", S(<<"f">>))),
     interval \in Maybe(Of("interval", I(30))),
     peers \in {<<>>, <<Of("peers", S(<<"1", "e", "i", "2", "e", "d", "3">>))>>,
               <<Of("peers", L(<<D(<<Of("port", I(9))>>)>>))>>}}
    \cup {L(<<>>)}

RECURSIVE Parts(_)
Parts(o) ==
  {o} \cup CASE o.type = "list" -> UNION {Parts(item) : item \in Range(o.items)}
             [] o.type = "dictionary" ->
                  UNION {Parts(pair[1]) \cup Parts(pair[2]) : pair \in Range(o.pairs)}
             [] OTHER -> {}
MetaCharacters == STRING
MetaObjects == UNION {Parts(o) : o \in MetaTorrents \cup MetaAnswers}

Tracker == INSTANCE BitTracker

\* Five pieces of four bytes, the first and the last with bytes of files nobody
\* wants; maps of three bytes of two bits, so that bit 5 is spare.
File(length, is_download) == [length |-> length, is_download |-> is_download]
MapsTorrents == {<<File(5, FALSE), File(12, TRUE), File(3, FALSE)>>}
MapsPeers == {0 .. 5, {0, 3, 5}, {2, 4}}

trackerVars == <<main, address, np, timer, updates, resolver_list, data, result_list,
                 event, exit_flag, thread>>
vars == <<unit, trackerVars, completionVars, timerVars, bufferVars, streamVars, pieceMapVars, byteVars,
          metainfoVars>>

Init ==
  /\ unit \in {"tracker", "completions", "timers", "buffers", "streams", "maps", "bytes", "metainfo"}
  /\ Tracker!Init /\ CompletionsInit /\ TimersInit /\ BuffersInit
  /\ StreamsInit /\ MapsInit /\ BytesInit /\ MetainfoInit

Only(u) ==
  /\ unit = u
  /\ UNCHANGED unit
  /\ IF u = "tracker" THEN TRUE ELSE UNCHANGED trackerVars
  /\ IF u = "completions" THEN TRUE ELSE UNCHANGED completionVars
  /\ IF u = "timers" THEN TRUE ELSE UNCHANGED timerVars
  /\ IF u = "buffers" THEN TRUE ELSE UNCHANGED bufferVars
  /\ IF u = "streams" THEN TRUE ELSE UNCHANGED streamVars
  /\ IF u = "maps" THEN TRUE ELSE UNCHANGED pieceMapVars
  /\ IF u = "bytes" THEN TRUE ELSE UNCHANGED byteVars
  /\ IF u = "metainfo" THEN TRUE ELSE UNCHANGED metainfoVars

Next ==
  \/ Only("tracker") /\ Tracker!Next
  \/ Only("completions") /\ CompletionsNext
  \/ Only("timers") /\ TimersNext
  \/ Only("buffers") /\ BuffersNext
  \/ Only("streams") /\ StreamsNext
  \/ Only("maps") /\ MapsNext
  \/ Only("bytes") /\ BytesNext
  \/ Only("metainfo") /\ MetainfoNext

Spec == Init /\ [][Next]_vars /\ (unit = "tracker" => Tracker!Fairness)

-----------------------------------------------------------------------------
(* The properties of the parts, each stated with its reasons in the module  *)
(* of the part.                                                            *)

\* A tracker with an address is tried again after every end of a connection.
TrackerKeepsTrying == Tracker!TrackerKeepsTrying
\* Every asked address is answered, and the resolve thread is joined.
ResolveAnswered == Tracker!ResolveAnswered
=============================================================================
