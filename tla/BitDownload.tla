---------------------------- MODULE BitDownload ----------------------------
(***************************************************************************)
(* Who asks which peer for which block: BitDownloadDispatcher, the request *)
(* lists of every BitPeerConnection and their time-outs, and the observers *)
(* of BitDownloadingInfo that hear of finished and failed pieces.          *)
(*                                                                         *)
(* Everything here runs on the main thread, so a handler is one step.  The *)
(* exception is a notification: it calls its observers one after another   *)
(* in the order of their addresses (a std::set of pointers), which no code *)
(* chooses, and each observer acts on what the earlier ones left behind.   *)
(*                                                                         *)
(* The cache, the hash and the file thread are module BitCache; here a     *)
(* piece whose blocks have all come is verifying until it is completed or  *)
(* failed.  Every piece lies in one file, so each is counted once.         *)
(***************************************************************************)
EXTENDS BitRequestList, Functions

CONSTANTS
  Peers,           \* the connections
  PieceCount,      \* pieces_count_
  BlockCount,      \* block_count_
  MaxOutstanding,  \* max_outstanding_requests
  EndLeft,         \* end mode begins when no more pieces than this are left
  Misbehave,       \* of "choke", "drop", "timeout", "rehandshake", "rebitfield":
                   \* what may happen besides
  MaxFails         \* bound on the pieces whose hash does not match

ASSUME ConstantsAssumption ==
  /\ PieceCount \in Nat /\ BlockCount \in Nat \ {0} /\ MaxOutstanding \in Nat \ {0}
  /\ EndLeft \in Nat /\ MaxFails \in Nat
  /\ Misbehave \subseteq {"choke", "drop", "timeout", "rehandshake", "rebitfield"}
  /\ Peers \cap {"updater", "dispatcher"} = {}

Pieces == 0 .. PieceCount - 1
Blocks == 1 .. BlockCount
Request == Pieces \X Blocks

VARIABLES
  scattered,     \* scattered_request_
  endMode,       \* end_downloading_mode_
  downloading,   \* BitDownloadingInfo::downloading_
  downloaded,    \* BitDownloadingInfo::downloaded_
  counted,       \* BitData::downloaded_, in pieces
  got,           \* got[p]: the blocks of p in its NOT_CHECKED cache piece
  verifying,     \* the pieces being hashed or written
  fails,         \* pieces failed so far, only to bound the model
  on,            \* the connections that have shaken hands and are observers
  has,           \* has[c]: c's BitPeerData::piece_map_
  interested,    \* connection_state_.am_interested
  choking,       \* connection_state_.peer_choking
  wait,          \* wait_request_
  requesting,    \* requesting_list_
  timeOuts,      \* time_out_list_: the elements of requesting_list_ that are timed
  notice         \* the notification under way and the observers it has not reached

listVars == <<scattered, downloading, wait, requesting, timeOuts>>
infoVars == <<endMode, downloaded, counted>>
cacheVars == <<got, verifying, fails>>
connVars == <<on, has, interested, choking>>
vars == <<scattered, endMode, downloading, downloaded, counted, got, verifying,
          fails, on, has, interested, choking, wait, requesting, timeOuts, notice>>

NoNotice == [kind |-> "none", piece |-> 0, left |-> {}]
Quiet == notice.kind = "none"

\* Whether n pieces are the whole download; what BitData::IsDownloadComplete tests.
MoreThanFinished(n) == n > PieceCount
Finished(n) == n >= PieceCount
IsDownloadComplete == Finished(counted)

-----------------------------------------------------------------------------
(* Request lists.  A handler is computed on a record of the lists it may   *)
(* change, in the order of the code's calls.  A timer holds an iterator: an *)
(* element of requesting_list_, found again when the timer fires.          *)

Lists == [scattered |-> scattered, downloading |-> downloading,
          wait |-> wait, requesting |-> requesting, timeOuts |-> timeOuts]

SetLists(lists) ==
  \E d \in {lists} :
    /\ scattered' = d.scattered /\ downloading' = d.downloading
    /\ wait' = d.wait /\ requesting' = d.requesting /\ timeOuts' = d.timeOuts

\* DispatchScatteredRequest: the first block_count_ scattered requests c can
\* serve go to the end of its waiting list; in end mode they stay, at the end.
DispatchScattered(d, c, h) ==
  LET s == d.scattered
      served == {i \in DOMAIN s : s[i][1] \in h}
      first == {i \in served : Cardinality({j \in served : j <= i}) <= BlockCount}
      dispatched == Pick(s, first)
      rest == Pick(s, DOMAIN s \ first)
  IN  [d EXCEPT !.wait[c] = @ \o dispatched,
                !.scattered = IF endMode THEN rest \o dispatched ELSE rest]

\* ScatterRequestPiece: all requests of a piece.
RequestsOf(p) == [b \in Blocks |-> <<p, b>>]

\* LinearPieceIndexSearcher::Search, all files being selected: the pieces of h
\* nobody has begun, of which it finds the smallest index.
Candidates(d, h) == {p \in Pieces \cap h : p \notin downloaded \cup d.downloading}
Search(d, h) ==
  CHOOSE p \in Candidates(d, h) : \A q \in Candidates(d, h) : p <= q

\* DispatchNewRequest.
DispatchNew(d, c, h) ==
  LET p == Search(d, h)
      d1 == [d EXCEPT !.downloading = @ \cup {p}]
  IN  IF Candidates(d, h) = {} THEN d
      ELSE IF endMode
        THEN DispatchScattered([d1 EXCEPT !.scattered = @ \o RequestsOf(p)], c, h)
        ELSE [d1 EXCEPT !.wait[c] = @ \o RequestsOf(p)]

DispatchRequestList(d, c, h) ==
  LET d1 == IF d.scattered # <<>> THEN DispatchScattered(d, c, h) ELSE d
  IN  IF Len(d1.wait[c]) < BlockCount THEN DispatchNew(d1, c, h) ELSE d1

\* RequestTimeouter: a timer for each request that is posted, for as long as it is
\* in requesting_list_.
ApplyTimeOut(d, c, posted) == [d EXCEPT !.timeOuts[c] = @ \o posted]
CancelTimeOut(d, c, r) == [d EXCEPT !.timeOuts[c] = EraseFirst(@, r)]
Reset(d, c) == [d EXCEPT !.timeOuts[c] = <<>>]

\* How many requests may be posted when n are outstanding.
FullRoom(n) == IF n < MaxOutstanding THEN MaxOutstanding ELSE 0
Room(n) == MaxOutstanding - n

\* BitPeerConnection::RequestPieceBlock, when c has the pieces h and i and ch
\* are its am_interested and peer_choking.
RequestPieceBlock(d, c, h, i, ch) ==
  IF ~i \/ ch \/ Len(d.requesting[c]) >= MaxOutstanding THEN d
  ELSE LET d1 == IF d.wait[c] = <<>> THEN DispatchRequestList(d, c, h) ELSE d
           room == Room(Len(d1.requesting[c]))
           n == IF Len(d1.wait[c]) < room THEN Len(d1.wait[c]) ELSE room
           posted == SubSeq(d1.wait[c], 1, n)
       IN  ApplyTimeOut([d1 EXCEPT !.requesting[c] = @ \o posted,
                                   !.wait[c] = SubSeq(@, n + 1, Len(@))], c, posted)

\* In end mode every request that is returned is erased.
ReturnErased(s, l) == IF endMode THEN s ELSE s \o l

\* ReturnRequest for the elements of l, one after another, to the scattered
\* requests s: in end mode one that is scattered already is erased.
ReturnRequests(s, l) ==
  IF endMode
    THEN s \o Pick(l, {i \in DOMAIN l : /\ l[i] \notin Range(s)
                                        /\ \A j \in 1 .. i - 1 : l[j] # l[i]})
    ELSE s \o l

\* The waiting requests are forgotten, or not looked at.
ReturnRequesting(d, c) ==
  [d EXCEPT !.scattered = ReturnRequests(@, d.requesting[c]),
            !.requesting[c] = <<>>, !.timeOuts[c] = <<>>, !.wait[c] = <<>>]
ReturnKeepsWait(d, c) ==
  [d EXCEPT !.scattered = ReturnRequests(@, d.requesting[c]),
            !.requesting[c] = <<>>, !.timeOuts[c] = <<>>]

\* Every request of both lists goes back; the timers go on.
ReturnWithoutReset(d, c) ==
  [d EXCEPT !.scattered = ReturnRequests(@, d.requesting[c] \o d.wait[c]),
            !.requesting[c] = <<>>, !.wait[c] = <<>>]

\* ReturnAllRequests: the outstanding requests, then the waiting ones; Reset.
ReturnAll(d, c) == Reset(ReturnWithoutReset(d, c), c)

\* What a finished piece p leaves of a list.
Without(s, p) == Pick(s, {i \in DOMAIN s : s[i][1] # p})

\* DeleteOutStandingRequest: its timer goes, then the request.
DeleteOutStanding(d, c, r) ==
  [CancelTimeOut(d, c, r) EXCEPT !.requesting[c] = EraseFirst(@, r)]

\* RequestPieceBlock of connection c as it is.
Ask(d, c) == RequestPieceBlock(d, c, has[c], interested[c], choking[c])

-----------------------------------------------------------------------------
Init ==
  /\ scattered = <<>> /\ endMode = FALSE
  /\ downloading = {} /\ downloaded = {} /\ counted = 0
  /\ got = [p \in Pieces |-> {}] /\ verifying = {} /\ fails = 0
  /\ on = {}
  /\ has = [c \in Peers |-> {}]
  /\ interested = [c \in Peers |-> FALSE]
  /\ choking = [c \in Peers |-> TRUE]
  /\ wait = [c \in Peers |-> <<>>] /\ requesting = [c \in Peers |-> <<>>]
  /\ timeOuts = [c \in Peers |-> <<>>]
  /\ notice = NoNotice

-----------------------------------------------------------------------------
(* Messages and time-outs of one connection. *)

\* ProcessHandshake: PreparePeerData, then OnHandshake makes c an observer and
\* sends INTERESTED.  A peer may repeat it: its piece map starts afresh.
Handshake(c) ==
  /\ Quiet
  /\ c \notin on \/ "rehandshake" \in Misbehave
  /\ on' = on \cup {c}
  /\ has' = [has EXCEPT ![c] = {}]
  /\ interested' = [interested EXCEPT ![c] = @ \/ ~IsDownloadComplete]
  /\ UNCHANGED <<listVars, infoVars, cacheVars, choking, notice>>

\* ProcessHave; before the handshake it would drop the connection.
Have(c, p) ==
  /\ Quiet /\ c \in on
  /\ has' = [has EXCEPT ![c] = @ \cup {p}]
  /\ SetLists(RequestPieceBlock(Lists, c, has'[c], interested[c], choking[c]))
  /\ UNCHANGED <<infoVars, cacheVars, on, interested, choking, notice>>

\* ProcessBitfield: MarkPieceFromBitfield replaces the map, whenever it comes.
Bitfield(c, h) ==
  /\ Quiet /\ c \in on
  /\ has[c] = {} \/ "rebitfield" \in Misbehave
  /\ has' = [has EXCEPT ![c] = h]
  /\ SetLists(RequestPieceBlock(Lists, c, h, interested[c], choking[c]))
  /\ UNCHANGED <<infoVars, cacheVars, on, interested, choking, notice>>

\* ProcessChoke(true): everything asked of c goes back to the dispatcher.
Choke(c) ==
  /\ Quiet /\ "choke" \in Misbehave /\ ~choking[c]
  /\ choking' = [choking EXCEPT ![c] = TRUE]
  /\ SetLists(ReturnAll(Lists, c))
  /\ UNCHANGED <<infoVars, cacheVars, on, has, interested, notice>>

\* ProcessChoke(false).
Unchoke(c) ==
  /\ Quiet
  /\ choking' = [choking EXCEPT ![c] = FALSE]
  /\ SetLists(RequestPieceBlock(Lists, c, has[c], interested[c], FALSE))
  /\ UNCHANGED <<infoVars, cacheVars, on, has, interested, notice>>

\* BitCache::Write of block r, seen from here: it is dropped when the piece is
\* downloaded or verifying, and the last block of a piece starts its check.
CacheWrite(r) ==
  LET p == r[1]
      blocks == got[p] \cup {r[2]}
  IN  IF p \in downloaded \cup verifying THEN UNCHANGED <<got, verifying>>
      ELSE IF blocks = Blocks
        THEN /\ got' = [got EXCEPT ![p] = {}]
             /\ verifying' = verifying \cup {p}
        ELSE got' = [got EXCEPT ![p] = blocks] /\ UNCHANGED verifying

\* ProcessPiece with a block that was asked for: its first request is deleted,
\* the cache gets the block, and c is asked for more.
ReceivePiece(c) ==
  /\ Quiet
  /\ \E r \in Range(requesting[c]) :
       /\ SetLists(Ask(DeleteOutStanding(Lists, c, r), c))
       /\ CacheWrite(r)
  /\ UNCHANGED <<infoVars, fails, connVars, notice>>

\* ProcessPiece with a block that was not asked for, or no longer is.
UnaskedPiece(c) ==
  /\ Quiet /\ c \in on
  /\ SetLists(Ask(Lists, c))
  /\ UNCHANGED <<infoVars, cacheVars, connVars, notice>>

\* The request is returned first.
RequestTimeOutReturnsFirst(c, r) ==
  /\ Quiet /\ "timeout" \in Misbehave /\ r \in Range(timeOuts[c])
  /\ SetLists(Ask([DeleteOutStanding(Lists, c, r) EXCEPT !.scattered = ReturnRequests(@, <<r>>)], c))
  /\ UNCHANGED <<infoVars, cacheVars, connVars, notice>>

\* RequestTimeOut of any outstanding request, as timers due in one pass come in the
\* order of their addresses: first new blocks are asked for, so that the one that
\* timed out is not among them, then it is returned.
RequestTimeOut(c, r) ==
  /\ Quiet /\ "timeout" \in Misbehave /\ r \in Range(timeOuts[c])
  /\ LET d == Ask(DeleteOutStanding(Lists, c, r), c)
     IN  SetLists([d EXCEPT !.scattered = ReturnRequests(@, <<r>>)])
  /\ UNCHANGED <<infoVars, cacheVars, connVars, notice>>

\* DropConnection and ~BitPeerConnection: the observer is removed and the
\* requests are returned.  What connects again is a new connection.
DropConnection(c) ==
  /\ Quiet /\ "drop" \in Misbehave
  /\ on' = on \ {c}
  /\ has' = [has EXCEPT ![c] = {}]
  /\ interested' = [interested EXCEPT ![c] = FALSE]
  /\ choking' = [choking EXCEPT ![c] = TRUE]
  /\ SetLists(ReturnAll(Lists, c))
  /\ UNCHANGED <<infoVars, cacheVars, notice>>

-----------------------------------------------------------------------------
(* Notifications. *)

MarkDownloadComplete(p) ==
  /\ Quiet /\ p \in verifying
  /\ verifying' = verifying \ {p}
  /\ downloading' = downloading \ {p}
  /\ downloaded' = downloaded \cup {p}
  /\ notice' = [kind |-> "complete", piece |-> p,
                left |-> {"updater", "dispatcher"} \cup on]
  /\ UNCHANGED <<scattered, wait, requesting, timeOuts, endMode, counted, got, fails,
                 connVars>>

\* The hash does not match: the cache has cleared the piece, and
\* BitDownloadingInfo::DownloadingFailed tells the connections.
DownloadingFailed(p) ==
  /\ Quiet /\ p \in verifying /\ fails < MaxFails
  /\ fails' = fails + 1
  /\ verifying' = verifying \ {p}
  /\ downloading' = downloading \ {p}
  /\ notice' = IF on = {} THEN NoNotice
               ELSE [kind |-> "failed", piece |-> p, left |-> on]
  /\ UNCHANGED <<scattered, wait, requesting, timeOuts, infoVars, got, connVars>>

\* Observer o has been called.
Reached(o) ==
  /\ o \in notice.left
  /\ notice' = IF notice.left = {o} THEN NoNotice
               ELSE [notice EXCEPT !.left = @ \ {o}]

\* BitTask::Complete on every connection: none stays interested and all their
\* requests are cancelled, without going back to the dispatcher.
Complete ==
  /\ interested' = [c \in Peers |-> FALSE]
  /\ wait' = [c \in Peers |-> <<>>]
  /\ requesting' = [c \in Peers |-> <<>>]
  /\ timeOuts' = [c \in Peers |-> <<>>]

\* DownloadedUpdater::CompleteNewPiece; the last piece stops the task.
NotifyUpdater ==
  /\ Reached("updater")
  /\ counted' = counted + 1
  /\ IF Finished(counted + 1) THEN Complete
                              ELSE UNCHANGED <<interested, wait, requesting, timeOuts>>
  /\ UNCHANGED <<scattered, downloading, endMode, downloaded, cacheVars, on, has,
                 choking>>

\* What EnterEndDownloadMode finds: it looks at how much has been counted so far.
EnterEndDownloadMode == PieceCount - counted <= EndLeft

\* BitDownloadDispatcher::CompleteNewPiece; DeleteScatteredRequest in end mode.
NotifyDispatcher ==
  /\ Reached("dispatcher")
  /\ IF endMode
       THEN scattered' = Without(scattered, notice.piece) /\ UNCHANGED endMode
       ELSE endMode' = EnterEndDownloadMode /\ UNCHANGED scattered
  /\ UNCHANGED <<downloading, wait, requesting, timeOuts, downloaded, counted, cacheVars,
                 connVars>>

\* BitPeerConnection::CompleteNewPiece: in end mode the piece's requests are
\* cancelled and new ones may be made.
NotifyPeerComplete(c) ==
  /\ notice.kind = "complete" /\ Reached(c)
  /\ IF endMode
       THEN SetLists(Ask([Lists EXCEPT !.requesting[c] = Without(@, notice.piece),
                                       !.timeOuts[c] = Without(@, notice.piece),
                                       !.wait[c] = Without(@, notice.piece)], c))
       ELSE UNCHANGED listVars
  /\ UNCHANGED <<infoVars, cacheVars, connVars>>

\* The connections do nothing about a failed piece.
NotifyPeerFailedIgnored(c) ==
  /\ notice.kind = "failed" /\ Reached(c)
  /\ UNCHANGED <<listVars, infoVars, cacheVars, connVars>>

\* BitPeerConnection::DownloadingFailed.
NotifyPeerFailed(c) ==
  /\ notice.kind = "failed" /\ Reached(c)
  /\ SetLists(Ask(Lists, c))
  /\ UNCHANGED <<infoVars, cacheVars, connVars>>

-----------------------------------------------------------------------------
Check(p) == MarkDownloadComplete(p) \/ DownloadingFailed(p)

Notify == NotifyUpdater \/ NotifyDispatcher
            \/ \E c \in Peers : NotifyPeerComplete(c) \/ NotifyPeerFailed(c)

Next ==
  \/ \E c \in Peers :
       \/ Handshake(c) \/ Choke(c) \/ Unchoke(c) \/ ReceivePiece(c)
       \/ UnaskedPiece(c) \/ DropConnection(c)
       \/ \E r \in Range(timeOuts[c]) : RequestTimeOut(c, r)
       \/ \E p \in Pieces : Have(c, p)
       \/ \E h \in SUBSET Pieces : Bitfield(c, h)
  \/ \E p \in Pieces : Check(p)
  \/ Notify

Spec == Init /\ [][Next]_vars

\* What a good peer does sooner or later.
Serve(c) ==
  \/ c \notin on /\ Handshake(c)
  \/ choking[c] /\ Unchoke(c)
  \/ \E p \in Pieces : p \notin has[c] /\ Have(c, p)
  \/ ReceivePiece(c)

\* Peers that are asked answer, and announce once what they have; the main loop
\* goes on, so checks end and notifications are delivered.
Fairness ==
  /\ \A c \in Peers : WF_vars(Serve(c))
  /\ WF_vars(\E p \in Pieces : Check(p)) /\ WF_vars(Notify)

FairSpec == Spec /\ Fairness

-----------------------------------------------------------------------------
(* What must hold. *)

Notice ==
  [kind : {"none", "complete", "failed"}, piece : Pieces \cup {0},
   left : SUBSET ({"updater", "dispatcher"} \cup Peers)]

\* The types; no more pieces are counted than there are.
TypeOK ==
  /\ scattered \in Seq(Request) /\ endMode \in BOOLEAN
  /\ downloading \in SUBSET Pieces /\ downloaded \in SUBSET Pieces
  /\ counted \in 0 .. PieceCount
  /\ got \in [Pieces -> SUBSET Blocks] /\ verifying \in SUBSET Pieces /\ fails \in Nat
  /\ on \in SUBSET Peers /\ has \in [Peers -> SUBSET Pieces]
  /\ interested \in [Peers -> BOOLEAN] /\ choking \in [Peers -> BOOLEAN]
  /\ wait \in [Peers -> Seq(Request)] /\ requesting \in [Peers -> Seq(Request)]
  /\ timeOuts \in [Peers -> Seq(Request)]
  /\ notice \in Notice

\* The blocks that still have to come for the pieces being downloaded.
Missing == {r \in Request : /\ r[1] \in downloading \ verifying
                            /\ r[2] \notin got[r[1]]}

\* The places that hold request r.
At(s, r) == {i \in DOMAIN s : s[i] = r}
Places(r) ==
  {<<"scattered", "dispatcher", i>> : i \in At(scattered, r)}
    \cup UNION {{<<"wait", c, i>> : i \in At(wait[c], r)}
                \cup {<<"requesting", c, i>> : i \in At(requesting[c], r)} : c \in Peers}

\* Until end mode a missing block is in exactly one place, the scattered
\* requests or one list of one connection, and nothing else is in any: choking,
\* time-outs, drops and failed hashes neither lose nor duplicate a request.
BlocksConserved ==
  ~endMode /\ ~IsDownloadComplete =>
    \A r \in Request : IF r \in Missing THEN \E place \in Places(r) : Places(r) = {place}
                                        ELSE Places(r) = {}

\* In end mode requests are duplicated, but none that is missing is lost.
NoBlockLost == ~IsDownloadComplete => \A r \in Missing : Places(r) # {}

\* A connection never has more than max_outstanding_requests, however often it
\* is asked to request, and its waiting list stays below two pieces.
OutstandingBounded ==
  \A c \in Peers : /\ Len(requesting[c]) <= MaxOutstanding
                   /\ Len(wait[c]) < 2 * BlockCount

\* A request is timed while it is outstanding and no longer, however it comes to an
\* end: served, timed out, cancelled, or given back with all others.  A timer that
\* outlived its request would splice from requesting_list_ an element that is in
\* another list or gone (BitPeerConnection.cpp:613), a request without one would
\* wait for a silent peer forever.
RequestsTimed == \A c \in Peers : timeOuts[c] = requesting[c]

\* A connection that may not request (gone, choked by the peer or not
\* interested) holds no request that another could serve.
SilentHoldNothing ==
  \A c \in Peers : (c \notin on \/ choking[c] \/ ~interested[c])
                     => wait[c] = <<>> /\ requesting[c] = <<>>

\* Once every piece is counted they are all downloaded, and no connection is
\* interested or requests anything ever after, though it shakes hands again or
\* the notification of the last piece reaches it later (BitTask.cpp:27-29).
CompleteIsQuiet ==
  counted = PieceCount =>
    /\ downloaded = Pieces
    /\ \A c \in Peers : ~interested[c] /\ requesting[c] = <<>> /\ wait[c] = <<>>

\* A request that timed out is not the one that is sent next to the same peer
\* in the same step (the comment at BitPeerConnection.cpp:619), unless end mode
\* lets it be scattered and outstanding at once.
TimedOutIsNotAskedAgain ==
  [][\A c \in Peers : \A r \in Range(timeOuts[c]) :
       (RequestTimeOut(c, r) /\ ~endMode) => r \notin Range(requesting'[c])]_vars

\* With peers that serve what they are asked, all pieces are downloaded.
DownloadFinishes == <>(downloaded = Pieces /\ IsDownloadComplete)

\* "end downloading mode, every peer will request every left piece"
\* (BitDownloadDispatcher.h:77): a missing block is there for every peer.
EveryPeerMayRequest == endMode /\ Quiet => \A r \in Missing : r \in Range(scattered)

\* "it maybe cancel all requests, so we need request new ones"
\* (BitPeerConnection.cpp:215): what a finished piece had requested is gone.
CancelledStaysCancelled ==
  endMode /\ Quiet => \A c \in Peers, r \in Request :
    r[1] \in downloaded => r \notin Range(requesting[c])

=============================================================================
