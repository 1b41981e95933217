------------------------------ MODULE BitPeers ------------------------------
(***************************************************************************)
(* The life of a BitPeerConnection: created from listen info or accepted,  *)
(* handed over from NewPeersHost to the TaskPeers of its task, told of     *)
(* pieces as an observer, dropped and destroyed; and BitNetProcessor under *)
(* it, whose operations complete after the connection may be gone.         *)
(*                                                                         *)
(* A handler runs to its end on the main thread, so it is one step, except *)
(* that each message of a receive and each observer of a notification is   *)
(* one, and so is each turn of the two loops that create connections and   *)
(* that complete them, with nothing between.  Calls nest: a send that fails *)
(* closes the processor, which may tell the connection, which leaves its   *)
(* owner, which may hold the last reference.  They are operators on a      *)
(* record of everything they can change (World), called in the order of    *)
(* the code.  luck is how many asynchronous calls of the step Winsock      *)
(* accepts before it refuses the others, held the connections a local      *)
(* shared_ptr keeps alive during the step.                                 *)
(***************************************************************************)
EXTENDS Naturals, FiniteSets

CONSTANTS
  Conns,          \* room for BitPeerConnection objects and their processors
  Infos,          \* the PeerListenInfo trackers may name
  NoInfo,         \* of an accepted connection
  Updater,        \* BitTask::downloaded_updater_
  MinPeerCount,   \* NormalPeerCreateStrategy::min_peer_count_
  MaxSends,       \* bound on the sends of a connection under way
  MaxMessages,    \* bound on the messages that arrive at once
  MaxPieces       \* bound on the pieces that complete, the last ends the task

ASSUME ConstantsAssumption ==
  /\ NoInfo \notin Infos
  /\ Updater \notin Conns
  /\ {MinPeerCount, MaxSends, MaxMessages, MaxPieces} \subseteq Nat

VARIABLES
  conn,        \* conn[c]: a BitPeerConnection and its BitNetProcessor
  newPeers,    \* NewPeersHost::new_peers_
  peers,       \* TaskPeers::peers_
  observers,   \* BitDownloadingInfo::observers_
  notice,      \* the observers a notification under way has not reached
  inbox,       \* inbox[c]: messages of the last receive still to be processed
  create,      \* the connections that CreateTaskPeer still has to make
  stopping,    \* the connections that BitTask::Complete has not reached
  unused,      \* BitData::unused_peers_
  used,        \* BitData::used_peers_
  creating,    \* create_peers_timer_ is in the timer queue
  pieces,      \* pieces completed so far
  absentUse    \* functions that used an object not there, in the last step

vars == <<conn, newPeers, peers, observers, notice, inbox, create, stopping,
          unused, used, creating, pieces, absentUse>>

Gone == [alive |-> FALSE, np |-> FALSE, owner |-> "host", data |-> FALSE,
         shaken |-> FALSE, based |-> FALSE, timers |-> FALSE, to |-> NoInfo,
         opening |-> FALSE, connecting |-> FALSE, receiving |-> FALSE,
         sends |-> 0, attached |-> FALSE]

\* A connection of either constructor, its processor attached to it.
Accepted == [Gone EXCEPT !.alive = TRUE, !.np = TRUE, !.attached = TRUE,
                         !.connecting = TRUE, !.timers = TRUE]
Created(i) == [Gone EXCEPT !.alive = TRUE, !.np = TRUE, !.attached = TRUE,
                           !.owner = "task", !.data = TRUE, !.to = i]

\* Operations whose handlers are still to come.
Outstanding(s) == s.opening \/ s.receiving \/ s.sends > 0

World == [conn |-> conn, newPeers |-> newPeers, peers |-> peers,
          observers |-> observers, absentUse |-> {}, luck |-> 0, held |-> {}]
Lucky(n) == [World EXCEPT !.luck = n]

\* How many calls of a step may be accepted: none, some or all of them.
Luck == {0, 1, 2, 4}

\* A processor that is neither referred to by a connection nor by an operation
\* is destroyed; its room can be used again.
Room(s) == IF ~s.alive /\ ~Outstanding(s) THEN Gone ELSE s

SetWorld(w) ==
  /\ \A c \in Conns : w.conn[c].sends <= MaxSends
  /\ conn' = [c \in Conns |-> Room(w.conn[c])]
  /\ newPeers' = w.newPeers /\ peers' = w.peers /\ observers' = w.observers
  /\ absentUse' = w.absentUse

-----------------------------------------------------------------------------
(* BitPeerConnection and its owners, seen from inside a handler.           *)

\* The function goes on with an object it supposes to be there.
Need(w, there, function) ==
  IF there THEN w ELSE [w EXCEPT !.absentUse = @ \cup {function}]
\* The same after a call that may destroy the connection.
Continue(w, c, function) == Need(w, w.conn[c].alive, function)

\* ~BitPeerConnection, when nobody holds it any more: ClearTimers and
\* ClearNetProcessor; no callback, as the processor is detached.
Release(w, c) ==
  IF c \in w.newPeers \cup w.peers \cup w.held THEN w
  ELSE [w EXCEPT !.conn[c] = [@ EXCEPT !.alive = FALSE, !.timers = FALSE,
          !.np = FALSE, !.attached = FALSE, !.connecting = FALSE]]

\* NotifyConnectionDrop of the owner.
NotifyTaskDrop(w, c) ==
  IF w.conn[c].owner = "task" THEN [w EXCEPT !.peers = @ \ {c}]
  ELSE [w EXCEPT !.newPeers = @ \ {c}]
RemoveDownloadingInfoObserver(w, c) == [w EXCEPT !.observers = @ \ {c}]
NotifyConnectionDrop(w, c) ==
  IF w.conn[c].owner = "task"
    THEN [RemoveDownloadingInfoObserver(w, c) EXCEPT !.peers = @ \ {c}]
    ELSE [w EXCEPT !.newPeers = @ \ {c}]

\* DropConnection: ClearNetProcessor, then the owner lets go of c.
ClearNetProcessor(w, c) ==
  [w EXCEPT !.conn[c] = [@ EXCEPT !.np = FALSE, !.attached = FALSE,
                                  !.connecting = FALSE]]
DropConnection(w, c) ==
  Release(NotifyConnectionDrop(ClearNetProcessor(w, c), c), c)

\* BitNetProcessor::Close; OnDisconnect of an attached connection drops it.
CloseAtOnce(w, c) ==
  LET w1 == [w EXCEPT !.conn[c].connecting = FALSE]
  IN  IF w1.conn[c].attached THEN DropConnection(w1, c) ELSE w1
Close(w, c) ==
  LET w1 == [w EXCEPT !.conn[c].connecting = FALSE]
      s == w1.conn[c]
  IN  IF s.sends = 0 /\ ~s.receiving /\ s.attached THEN DropConnection(w1, c)
      ELSE w1

Spend(w) == [w EXCEPT !.luck = @ - 1]

\* BitNetProcessor::Send.
Send(w, c) ==
  IF ~w.conn[c].connecting THEN w
  ELSE IF w.luck = 0 THEN Close(w, c)
  ELSE [Spend(w) EXCEPT !.conn[c].sends = @ + 1]

\* BitNetProcessor::Receive, with no receive under way.
ReceiveOrNot(w, c) ==
  IF ~w.conn[c].connecting \/ w.luck = 0 THEN w
  ELSE [Spend(w) EXCEPT !.conn[c].receiving = TRUE]
Receive(w, c) ==
  IF ~w.conn[c].connecting THEN w
  ELSE IF w.luck = 0 THEN Close(w, c)
  ELSE [Spend(w) EXCEPT !.conn[c].receiving = TRUE]

\* A Send function of BitPeerConnection: it ends with SetKeepAliveTimer.
SendMessage(w, c, function) == Continue(Send(w, c), c, function)

\* None, one or two of them, as the requests and cancels of one call; of more,
\* each does what the second does.
SendOne(w, c) == SendMessage(w, c, "SendMessage")
SendMessages(w, c, n) ==
  CASE n = 0 -> w [] n = 1 -> SendOne(w, c) [] n = 2 -> SendOne(SendOne(w, c), c)

-----------------------------------------------------------------------------
(* Messages.                                                               *)

\* TaskPeers::NotifyHandshakeOk, of the owner c has now.
AddDownloadingInfoObserver(w, c) == [w EXCEPT !.observers = @ \cup {c}]
SetPeerConnectionBaseData(w, c) == [w EXCEPT !.conn[c].based = TRUE]
NotifyHandshakeOk(w, c) ==
  IF w.conn[c].owner = "task"
    THEN SetPeerConnectionBaseData(AddDownloadingInfoObserver(w, c), c) ELSE w

\* OnHandshake, after PreparePeerData: the bitfield, and interest while the
\* download is not complete.
PreparePeerData(w, c) == [w EXCEPT !.conn[c].shaken = TRUE]
OnHandshake(w, c) ==
  LET w1 == NotifyHandshakeOk(PreparePeerData(w, c), c)
  IN  SendMessages(w1, c, IF pieces < MaxPieces THEN 2 ELSE 1)

\* NewPeersHost::NotifyInfoHash for a hash the controller knows: AttachPeer and
\* the end of hosting.
AttachStillHosted(w, c) ==
  [w EXCEPT !.peers = @ \cup {c}, !.conn[c] = [@ EXCEPT !.owner = "task", !.data = TRUE]]
AttachSameOwner(w, c) ==
  [w EXCEPT !.peers = @ \cup {c}, !.newPeers = @ \ {c}, !.conn[c].data = TRUE]
AttachPeer(w, c) ==
  [w EXCEPT !.peers = @ \cup {c}, !.newPeers = @ \ {c},
            !.conn[c] = [@ EXCEPT !.owner = "task", !.data = TRUE]]

\* ProcessHandshake with the hash of a task, or with another one, after which
\* ProcessProtocol still looks at its net_processor_.
KnownHandshake(w, c) ==
  IF w.conn[c].data THEN OnHandshake(w, c)
  ELSE OnHandshake(SendMessage(AttachPeer(w, c), c, "SendHandshake"), c)
UnknownHandshake(w, c) == Continue(DropConnection(w, c), c, "ProcessProtocol")

\* ProcessMessage.  A message it refuses drops c; "answered" stands for those
\* that make c send something (INTERESTED an UNCHOKE, UNCHOKE and HAVE requests);
\* REQUEST and PIECE use what is there only after the handshake; the others do
\* nothing here, as if they had not come.
Messages == {"handshake", "unknown", "refused", "answered", "request", "piece"}
ProcessProtocol(w, c, m) ==
  LET s == w.conn[c]
  IN  IF ~s.attached THEN w ELSE
      CASE m = "handshake" -> KnownHandshake(w, c)
        [] m = "unknown" -> UnknownHandshake(w, c)
        [] m = "refused" -> DropConnection(w, c)
        [] m = "answered" -> SendOne(w, c)
        [] m = "request" -> Need(w, s.based, "PendingUploadRequest")
        [] m = "piece" ->
             LET w1 == Need(w, s.data, "ProcessPiece")
             IN  IF s.shaken THEN SendOne(w1, c) ELSE w1

-----------------------------------------------------------------------------
Init ==
  /\ conn = [c \in Conns |-> Gone]
  /\ newPeers = {} /\ peers = {} /\ observers = {Updater} /\ notice = {}
  /\ inbox = [c \in Conns |-> 0] /\ create = 0 /\ stopping = {}
  /\ unused = {} /\ used = {} /\ creating = TRUE
  /\ pieces = 0 /\ absentUse = {}

\* No handler is half way through.
Quiet == notice = {} /\ create = 0 /\ stopping = {} /\ \A c \in Conns : inbox[c] = 0
loopVars == <<create, stopping>>
listVars == <<unused, used, creating, pieces>>
dataVars == <<inbox, loopVars, listVars>>

\* AddPeerListenInfo, for a peer a tracker names.
AddAnyListenInfo(i) ==
  /\ Quiet
  /\ unused' = unused \cup {i}
  /\ UNCHANGED <<conn, newPeers, peers, observers, notice, inbox, loopVars, used,
                 creating, pieces>>
  /\ absentUse' = {}
AddPeerListenInfo(i) ==
  /\ Quiet
  /\ unused' = IF i \in used THEN unused ELSE unused \cup {i}
  /\ UNCHANGED <<conn, newPeers, peers, observers, notice, inbox, loopVars, used,
                 creating, pieces>>
  /\ absentUse' = {}
\* AcceptHandler of a successful accept; it holds the new connection until it
\* returns.
AcceptHandler(c) ==
  /\ Quiet /\ conn[c] = Gone
  /\ \E luck \in Luck :
       LET w == [Lucky(luck) EXCEPT !.conn[c] = Accepted,
                                    !.newPeers = @ \cup {c}, !.held = {c}]
       IN  SetWorld(Release([Receive(w, c) EXCEPT !.held = {}], c))
  /\ UNCHANGED <<notice, dataVars>>

\* CreatePeerCount of NormalPeerCreateStrategy.
CreatePeerCount(current, n) ==
  IF current < MinPeerCount \/ n <= MinPeerCount \div 10 THEN n
  ELSE IF n <= MinPeerCount \div 5 THEN n \div 2
  ELSE IF n <= MinPeerCount \div 2 THEN n \div 5
  ELSE n \div 10

\* One turn of CreateTaskPeer's loop: AddPeer and Connect, which holds the new
\* connection; a refused AsyncConnect closes it.
Connect(w, c, ok) == IF ok THEN [w EXCEPT !.conn[c].opening = TRUE] ELSE Close(w, c)
CreatePeer(w, c, i, ok) ==
  LET w1 == [w EXCEPT !.conn[c] = Created(i), !.peers = @ \cup {c}, !.held = {c}]
  IN  Release([Connect(w1, c, ok) EXCEPT !.held = {}], c)

\* OnTimer of create_peers_timer_, while there is room for the connections ...
OnTimer ==
  /\ Quiet /\ creating
  /\ create' = CreatePeerCount(Cardinality(peers), Cardinality(unused))
  /\ create' <= Cardinality({c \in Conns : conn[c] = Gone})
  /\ UNCHANGED <<conn, newPeers, peers, observers, notice, inbox, stopping, listVars>>
  /\ absentUse' = {}

\* ... and the loop of CreateTaskPeer.  The connections are made for the smallest
\* elements of unused_peers_, here for any, in any objects.
CreateTaskPeer(c, i) ==
  /\ create > 0 /\ conn[c] = Gone /\ i \in unused
  /\ \E ok \in BOOLEAN : SetWorld(CreatePeer(World, c, i, ok))
  /\ create' = create - 1
  /\ unused' = unused \ {i} /\ used' = used \cup {i}
  /\ UNCHANGED <<notice, inbox, stopping, creating, pieces>>

\* ConnectHandler.  OnConnect arms the timers and sends the handshake.
ConnectWithoutTimers(w, c) ==
  IF ~w.conn[c].attached THEN w ELSE SendMessage(w, c, "SendHandshake")
OnConnect(w, c) ==
  IF ~w.conn[c].attached THEN w
  ELSE SendMessage([w EXCEPT !.conn[c].timers = TRUE], c, "SendHandshake")
ConnectHandler(c) ==
  /\ Quiet /\ conn[c].opening
  /\ \E luck \in Luck :
       LET w == [Lucky(luck) EXCEPT !.conn[c].opening = FALSE]
       IN  \/ SetWorld(Close(w, c))
           \/ SetWorld(Receive(OnConnect([w EXCEPT !.conn[c].connecting = TRUE], c), c))
  /\ UNCHANGED <<notice, dataVars>>

\* ReceiveHandler: the next receive is under way before StreamDataArrive looks
\* at the data, which may complete a few messages.
NextReceive(w, c) == Receive(w, c)
ReceiveHandler(c) ==
  /\ Quiet /\ conn[c].receiving
  /\ \/ /\ SetWorld(Close([World EXCEPT !.conn[c].receiving = FALSE], c))
        /\ UNCHANGED inbox
     \/ \E luck \in {0, 1}, n \in 0 .. MaxMessages :
          /\ SetWorld(NextReceive([Lucky(luck) EXCEPT !.conn[c].receiving = FALSE], c))
          /\ inbox' = [inbox EXCEPT ![c] = n]
  /\ UNCHANGED <<notice, loopVars, listVars>>
StreamDataArrive(c) ==
  /\ inbox[c] > 0
  /\ \E luck \in Luck, m \in Messages : SetWorld(ProcessProtocol(Lucky(luck), c, m))
  /\ inbox' = [inbox EXCEPT ![c] = @ - 1]
  /\ UNCHANGED <<notice, loopVars, listVars>>

\* SendHandler.
SendHandler(c) ==
  /\ Quiet /\ conn[c].sends > 0
  /\ LET w == [World EXCEPT !.conn[c].sends = @ - 1]
     IN  SetWorld(w) \/ SetWorld(Close(w, c))
  /\ UNCHANGED <<notice, dataVars>>

\* Whatever makes a connection send on its own: keep_alive_timer_, a request
\* that timed out, a block read for it.
SendsOnItsOwn(c) ==
  /\ Quiet /\ conn[c].alive /\ conn[c].timers
  /\ \E luck \in Luck : SetWorld(SendOne(Lucky(luck), c))
  /\ UNCHANGED <<notice, dataVars>>

\* disconnect_timer_ calls DropConnection.
DisconnectTimer(c) ==
  /\ Quiet /\ conn[c].timers
  /\ SetWorld(DropConnection(World, c))
  /\ UNCHANGED <<notice, dataVars>>

-----------------------------------------------------------------------------
(* Notifications.  The observers are called one after another, and none    *)
(* may leave the set that is being walked through.                         *)

MarkDownloadComplete ==
  /\ Quiet /\ pieces < MaxPieces
  /\ pieces' = pieces + 1
  /\ notice' = observers
  /\ UNCHANGED <<conn, newPeers, peers, observers, inbox, loopVars, unused, used, creating>>
  /\ absentUse' = {}

\* The updater does nothing when it is told of a failure.
DownloadingFailed ==
  /\ Quiet /\ pieces < MaxPieces
  /\ notice' = observers \ {Updater}
  /\ UNCHANGED <<conn, newPeers, peers, observers, dataVars>>
  /\ absentUse' = {}

\* CompleteNewPiece and DownloadingFailed of a connection: HAVE, cancels and
\* requests, or nothing.
ConnectionNotified(c) ==
  /\ c \in notice /\ stopping = {}
  /\ \E luck \in Luck, n \in 0 .. 2 : SetWorld(SendMessages(Lucky(luck), c, n))
  /\ notice' = notice \ {c}
  /\ UNCHANGED dataVars

\* The updater; the last piece completes the task, and no more connections are
\* made.
DownloadedUpdater ==
  /\ Updater \in notice /\ stopping = {}
  /\ notice' = notice \ {Updater}
  /\ IF pieces = MaxPieces THEN stopping' = peers /\ creating' = FALSE
                           ELSE UNCHANGED <<stopping, creating>>
  /\ UNCHANGED <<conn, newPeers, peers, observers, inbox, create, unused, used, pieces>>
  /\ absentUse' = {}

\* BitTask::Complete: every connection that has shaken hands sends
\* NOT INTERESTED, in a walk through peers_.
Complete(c) ==
  /\ c \in stopping
  /\ IF conn[c].shaken THEN \E luck \in {0, 1} : SetWorld(SendOne(Lucky(luck), c))
                       ELSE SetWorld(World)
  /\ stopping' = stopping \ {c}
  /\ UNCHANGED <<notice, inbox, create, listVars>>

Next ==
  \/ OnTimer \/ MarkDownloadComplete \/ DownloadingFailed \/ DownloadedUpdater
  \/ \E i \in Infos : AddPeerListenInfo(i)
  \/ \E c \in Conns :
       \/ AcceptHandler(c) \/ ConnectHandler(c) \/ ReceiveHandler(c)
       \/ StreamDataArrive(c) \/ SendHandler(c) \/ SendsOnItsOwn(c) \/ DisconnectTimer(c)
       \/ ConnectionNotified(c) \/ Complete(c)
       \/ \E i \in Infos : CreateTaskPeer(c, i)

Spec == Init /\ [][Next]_vars

-----------------------------------------------------------------------------
(* Properties.                                                             *)

Connection ==
  [alive : BOOLEAN, np : BOOLEAN, owner : {"host", "task"}, data : BOOLEAN,
   shaken : BOOLEAN, based : BOOLEAN, timers : BOOLEAN, to : Infos \cup {NoInfo},
   opening : BOOLEAN, connecting : BOOLEAN, receiving : BOOLEAN,
   sends : Nat, attached : BOOLEAN]

\* The types; no handler of a send runs more often than there were sends.
TypeOK ==
  /\ conn \in [Conns -> Connection]
  /\ newPeers \in SUBSET Conns /\ peers \in SUBSET Conns
  /\ observers \in SUBSET (Conns \cup {Updater}) /\ notice \in SUBSET (Conns \cup {Updater})
  /\ inbox \in [Conns -> Nat] /\ create \in Nat /\ stopping \in SUBSET Conns
  /\ unused \in SUBSET Infos /\ used \in SUBSET Infos
  /\ creating \in BOOLEAN /\ pieces \in Nat

\* Between two handlers a connection exists exactly while the owner it would
\* tell of its end holds it, and nobody else does; it then has its processor,
\* which knows it.  An object in neither set would never be destroyed in time,
\* one in both, or in the wrong one, would be kept by the set it is not erased
\* from (NotifyInfoHash moves it, NotifyConnectionDrop erases it).
OneOwner ==
  \A c \in Conns :
    /\ c \in newPeers <=> conn[c].alive /\ conn[c].owner = "host"
    /\ c \in peers <=> conn[c].alive /\ conn[c].owner = "task"
    /\ conn[c].alive <=> conn[c].np
    /\ conn[c].np <=> conn[c].attached

\* The raw pointers a notification follows are to live connections that the task
\* holds, that have shaken hands and have their dispatchers; the walks through
\* observers_ and peers_ that are under way have only elements left that are still
\* in the set, so no iterator becomes invalid (BitDownloadingInfo.cpp:30, BitTask.cpp:193).
ObserversAttached ==
  /\ notice \subseteq observers /\ stopping \subseteq peers
  /\ \A c \in observers \ {Updater} :
       c \in peers /\ conn[c].alive /\ conn[c].shaken /\ conn[c].based

\* Between two handlers a processor that can send has a receive under way.
\* Nothing else keeps the sends of a notification, of BitTask::Complete or of a
\* timer from dropping the connection at once, in the middle of a walk through
\* observers_ or peers_ and before SetKeepAliveTimer.
ConnectedReceives == \A c \in Conns : conn[c].connecting => conn[c].receiving

\* The only places that use an object which is not there: SendHandshake of
\* OnConnect, refused before the first receive (SetKeepAliveTimer of a destroyed
\* connection); ProcessProtocol after a handshake with a foreign hash (it reads
\* net_processor_ of a destroyed connection); a REQUEST or a PIECE that comes
\* before the handshake.  No other send, timer, notification or message does.
AbsentUsesAreKnown ==
  absentUse \subseteq {"SendHandshake", "ProcessProtocol", "PendingUploadRequest", "ProcessPiece"}

\* A peer a tracker names is connected to at most once at a time, whatever the
\* tracker repeats: it is in one of the two sets, and of the connections made
\* for listen info no two are for the same.
NoDoubleConnect ==
  /\ unused \cap used = {}
  /\ \A c \in Conns : conn[c].alive /\ conn[c].to # NoInfo => conn[c].to \in used
  /\ \A c, d \in Conns : c # d /\ conn[c].alive /\ conn[d].alive /\ conn[c].to = conn[d].to
                         => conn[c].to = NoInfo

\* A connection whose processor is closed will leave its owner.  OnDisconnect
\* comes only from a Close with no operation under way: when the last receive
\* succeeds after Close, or the last send completes after the receive failed,
\* nobody calls it, and disconnect_timer_, which no message sets anew from then
\* on, is all there is.  It is armed in whatever order the operations end.
Closed(c) == conn[c].alive /\ ~conn[c].connecting /\ ~conn[c].opening
ClosedLeave == \A c \in Conns : Closed(c) => conn[c].timers

-----------------------------------------------------------------------------
(* The refinement.                                                         *)

\* The stages of PeerLife, from who holds and who observes.
life == [c \in Conns |->
  IF ~conn[c].alive THEN IF Outstanding(conn[c]) THEN "draining" ELSE "free"
  ELSE IF c \in observers THEN "joined"
  ELSE IF c \in newPeers THEN "hosted" ELSE "attached"]

\* The connections of a task live as PeerLife says: they go from host to task to
\* the observers and never back, the room of a dropped one is free only
\* when its operations are over, and a notification reaches everyone
\* who is joined, none of whom leaves before it has ended.
Life == INSTANCE PeerLife WITH told <- notice \ {Updater}
LifeSpec == Life!Spec
=============================================================================
