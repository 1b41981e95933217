--------------------------- MODULE BitPeersProofs ---------------------------
(***************************************************************************)
(* Proofs about BitPeers, for every number of connections, of peers that   *)
(* trackers name, and for every bound.                                     *)
(*                                                                         *)
(* First what the nested calls of a handler do to a record of the world:   *)
(* each lemma says which fields a function changes.  Then the inductive    *)
(* invariant, one step per handler.                                        *)
(***************************************************************************)
EXTENDS BitPeers, FiniteSetTheorems, TLAPS

\* The functions that may use an object that is not there.
Known == {"SendHandshake", "ProcessProtocol", "PendingUploadRequest", "ProcessPiece"}

Worlds ==
  [conn : [Conns -> Connection], newPeers : SUBSET Conns, peers : SUBSET Conns,
   observers : SUBSET (Conns \cup {Updater}), absentUse : SUBSET Known,
   luck : Nat, held : SUBSET Conns]

\* A destroyed connection; its operations go on.
Dead(s) == [s EXCEPT !.alive = FALSE, !.timers = FALSE, !.np = FALSE,
                     !.attached = FALSE, !.connecting = FALSE]

\* Nobody but its owner holds c.
OwnerHolds(w, c) ==
  /\ c \in w.newPeers => w.conn[c].owner = "host"
  /\ c \in w.peers => w.conn[c].owner = "task"
  /\ c \in w.observers => w.conn[c].owner = "task"

\* x is w without c, which is destroyed.
Dropped(w, x, c) ==
  /\ x.conn = [w.conn EXCEPT ![c] = Dead(w.conn[c])]
  /\ x.newPeers = w.newPeers \ {c} /\ x.peers = w.peers \ {c}
  /\ x.observers = w.observers \ {c}
  /\ x.luck = w.luck /\ x.held = w.held /\ x.absentUse = w.absentUse

\* Fields of a connection with some of them changed are still of their types.
LEMMA DeadType ==
  ASSUME NEW s \in Connection
  PROVE  /\ Dead(s) \in Connection
         /\ Dead(s).alive = FALSE /\ Dead(s).np = FALSE /\ Dead(s).attached = FALSE
         /\ Dead(s).timers = FALSE /\ Dead(s).connecting = FALSE
         /\ Dead(s).to = s.to /\ Dead(s).owner = s.owner /\ Dead(s).opening = s.opening
         /\ Dead(s).receiving = s.receiving /\ Dead(s).sends = s.sends
         /\ Dead(s).shaken = s.shaken
BY DEF Dead, Connection

\* DropConnection of a connection that only its owner holds destroys it, takes it
\* from the owner and the observers, and changes nothing else.
LEMMA DropConnectionEffect ==
  ASSUME NEW w \in Worlds, NEW c \in Conns, c \notin w.held, OwnerHolds(w, c)
  PROVE  DropConnection(w, c) \in Worlds /\ Dropped(w, DropConnection(w, c), c)
<1> DEFINE s == [w.conn[c] EXCEPT !.np = FALSE, !.attached = FALSE, !.connecting = FALSE]
           w1 == ClearNetProcessor(w, c)
           w2 == NotifyConnectionDrop(w1, c)
<1>0. w.conn \in [Conns -> Connection] /\ w.conn[c] \in Connection
  BY DEF Worlds
<1>1. s \in Connection /\ s.owner = w.conn[c].owner
  BY <1>0 DEF Connection
<1>2. /\ w1 \in Worlds /\ w1.conn = [w.conn EXCEPT ![c] = s]
      /\ w1.newPeers = w.newPeers /\ w1.peers = w.peers /\ w1.observers = w.observers
      /\ w1.luck = w.luck /\ w1.held = w.held /\ w1.absentUse = w.absentUse
  <2> HIDE DEF s
  <2>1. [w.conn EXCEPT ![c] = s] \in [Conns -> Connection]
    BY <1>0, <1>1
  <2>2. w1 = [w EXCEPT !.conn = [w.conn EXCEPT ![c] = s]]
    BY DEF ClearNetProcessor, Worlds, s
  <2> HIDE DEF w1
  <2> QED BY <2>1, <2>2 DEF Worlds
<1> HIDE DEF s, w1
<1>3. w1.conn[c] = s
  BY <1>0, <1>2
<1>4. /\ w2 \in Worlds /\ w2.conn = w1.conn
      /\ w2.newPeers = w.newPeers \ {c} /\ w2.peers = w.peers \ {c}
      /\ w2.observers = w.observers \ {c}
      /\ w2.luck = w.luck /\ w2.held = w.held /\ w2.absentUse = w.absentUse
  <2>1. CASE s.owner = "task"
    <3>1. c \notin w.newPeers /\ w.newPeers \ {c} = w.newPeers
      BY <1>1, <2>1 DEF OwnerHolds
    <3>2. w2 = [w1 EXCEPT !.observers = w1.observers \ {c}, !.peers = w1.peers \ {c}]
      BY <1>2, <1>3, <2>1 DEF NotifyConnectionDrop, RemoveDownloadingInfoObserver, Worlds
    <3> HIDE DEF w2
    <3> QED BY <1>2, <3>1, <3>2 DEF Worlds
  <2>2. CASE s.owner # "task"
    <3>1. w.peers \ {c} = w.peers /\ w.observers \ {c} = w.observers
      BY <1>1, <2>2 DEF OwnerHolds
    <3>2. w2 = [w1 EXCEPT !.newPeers = w1.newPeers \ {c}]
      BY <1>2, <1>3, <2>2 DEF NotifyConnectionDrop, Worlds
    <3> HIDE DEF w2
    <3> QED BY <1>2, <3>1, <3>2 DEF Worlds
  <2> QED BY <2>1, <2>2
<1> HIDE DEF w2
<1>5. DropConnection(w, c) = [w2 EXCEPT !.conn[c] =
         [@ EXCEPT !.alive = FALSE, !.timers = FALSE, !.np = FALSE, !.attached = FALSE,
                   !.connecting = FALSE]]
  <2>1. c \notin w2.newPeers \cup w2.peers \cup w2.held
    BY <1>4
  <2>2. DropConnection(w, c) = Release(w2, c)
    BY DEF DropConnection, w1, w2
  <2> QED BY <2>1, <2>2 DEF Release
<1>6. [s EXCEPT !.alive = FALSE, !.timers = FALSE, !.np = FALSE, !.attached = FALSE,
                !.connecting = FALSE] = Dead(w.conn[c])
  BY <1>0 DEF s, Dead, Connection
<1>7. DropConnection(w, c) = [w2 EXCEPT !.conn = [w.conn EXCEPT ![c] = Dead(w.conn[c])]]
  <2>1. w2.conn = [w.conn EXCEPT ![c] = s]
    BY <1>2, <1>4
  <2>2. w2.conn[c] = s
    BY <1>3, <1>4
  <2>3. DropConnection(w, c) = [w2 EXCEPT !.conn = [w2.conn EXCEPT ![c] =
                                 Dead(w.conn[c])]]
    BY <1>4, <1>5, <1>6, <2>2 DEF Worlds
  <2>4. [w2.conn EXCEPT ![c] = Dead(w.conn[c])] = [w.conn EXCEPT ![c] = Dead(w.conn[c])]
    BY <1>0, <2>1
  <2> QED BY <2>3, <2>4
<1>8. [w.conn EXCEPT ![c] = Dead(w.conn[c])] \in [Conns -> Connection]
  BY <1>0, DeadType
<1> QED BY <1>4, <1>7, <1>8 DEF Dropped, Worlds

-----------------------------------------------------------------------------
\* x differs from w only in the connection c, which is s in it, and in luck.
Changed(w, x, c, s) ==
  /\ x \in Worlds /\ x.conn = [w.conn EXCEPT ![c] = s]
  /\ x.newPeers = w.newPeers /\ x.peers = w.peers /\ x.observers = w.observers
  /\ x.held = w.held /\ x.absentUse = w.absentUse

Stopped(s) == [s EXCEPT !.connecting = FALSE]
Sending(s) == [s EXCEPT !.sends = @ + 1]
Receiving(s) == [s EXCEPT !.receiving = TRUE]

\* Three changes of one connection that keep its type.
LEMMA ConnectionTypes ==
  ASSUME NEW s \in Connection
  PROVE  /\ Stopped(s) \in Connection /\ Sending(s) \in Connection
         /\ Receiving(s) \in Connection
<1>1. Stopped(s) \in Connection
  BY DEF Stopped, Connection
<1>2. Sending(s) \in Connection
  BY DEF Sending, Connection
<1>3. Receiving(s) \in Connection
  BY DEF Receiving, Connection
<1> QED BY <1>1, <1>2, <1>3

\* A world in which one connection is exchanged.
LEMMA ChangeOne ==
  ASSUME NEW w \in Worlds, NEW c \in Conns, NEW s \in Connection
  PROVE  Changed(w, [w EXCEPT !.conn[c] = s], c, s)
<1>1. [w.conn EXCEPT ![c] = s] \in [Conns -> Connection]
  BY DEF Worlds
<1> QED BY <1>1 DEF Changed, Worlds

\* One that spends an accepted call at that.
LEMMA SpendOne ==
  ASSUME NEW w \in Worlds, w.luck # 0
  PROVE  /\ Spend(w) \in Worlds /\ Spend(w).conn = w.conn
         /\ Spend(w).newPeers = w.newPeers /\ Spend(w).peers = w.peers
         /\ Spend(w).observers = w.observers /\ Spend(w).held = w.held
         /\ Spend(w).absentUse = w.absentUse
<1>1. w.luck - 1 \in Nat
  BY DEF Worlds
<1> QED BY <1>1 DEF Spend, Worlds

\* Close destroys the connection when no operation of it is under way, and
\* otherwise leaves it to the handlers that are still to come.
LEMMA CloseEffect ==
  ASSUME NEW w \in Worlds, NEW c \in Conns, c \notin w.held, OwnerHolds(w, c)
  PROVE  LET s == w.conn[c]
             x == Close(w, c)
         IN  IF s.sends = 0 /\ ~s.receiving /\ s.attached
               THEN x \in Worlds /\ Dropped(w, x, c)
               ELSE Changed(w, x, c, Stopped(s))
<1> DEFINE w1 == [w EXCEPT !.conn[c].connecting = FALSE]
           t == Stopped(w.conn[c])
<1>0. w.conn \in [Conns -> Connection] /\ w.conn[c] \in Connection /\ t \in Connection
  BY ConnectionTypes DEF Worlds
<1>1. w1 = [w EXCEPT !.conn[c] = t]
  BY <1>0 DEF Stopped, Worlds
<1>2. Changed(w, w1, c, t)
  BY <1>0, <1>1, ChangeOne
<1>3. w1.luck = w.luck
  BY DEF Worlds
<1>4. /\ w1.conn[c] = t /\ t.sends = w.conn[c].sends /\ t.receiving = w.conn[c].receiving
      /\ t.attached = w.conn[c].attached /\ t.owner = w.conn[c].owner /\ Dead(t) = Dead(w.conn[c])
  <2>1. w1.conn[c] = t
    BY <1>0, <1>2 DEF Changed
  <2> QED BY <1>0, <2>1 DEF Stopped, Dead, Connection
<1>5. Close(w, c) = IF t.sends = 0 /\ ~t.receiving /\ t.attached
                      THEN DropConnection(w1, c) ELSE w1
  BY <1>4 DEF Close
<1> HIDE DEF w1, t
<1>6. CASE t.sends = 0 /\ ~t.receiving /\ t.attached
  <2>1. c \notin w1.held /\ OwnerHolds(w1, c) /\ w1 \in Worlds
    BY <1>2, <1>4 DEF OwnerHolds, Changed
  <2>2. DropConnection(w1, c) \in Worlds /\ Dropped(w1, DropConnection(w1, c), c)
    BY <2>1, DropConnectionEffect
  <2>3. [w1.conn EXCEPT ![c] = Dead(t)] = [w.conn EXCEPT ![c] = Dead(w.conn[c])]
    BY <1>0, <1>2, <1>4 DEF Changed
  <2>4. Dropped(w, DropConnection(w1, c), c)
    BY <1>2, <1>3, <1>4, <2>2, <2>3 DEF Dropped, Changed
  <2> QED BY <1>4, <1>5, <1>6, <2>2, <2>4
<1>7. CASE ~(t.sends = 0 /\ ~t.receiving /\ t.attached)
  BY <1>2, <1>4, <1>5, <1>7 DEF t
<1> QED BY <1>6, <1>7

\* What the sends of a handler do to a connection that has a receive under way:
\* they change nothing but whether it can send, and how many sends are under way.
Calm(w, x, c) ==
  /\ x \in Worlds
  /\ x.newPeers = w.newPeers /\ x.peers = w.peers /\ x.observers = w.observers
  /\ x.held = w.held /\ x.absentUse = w.absentUse
  /\ \A d \in Conns \ {c} : x.conn[d] = w.conn[d]
  /\ x.conn[c] = [w.conn[c] EXCEPT !.connecting = x.conn[c].connecting,
                                   !.sends = x.conn[c].sends]
  /\ x.conn[c].connecting => w.conn[c].connecting
  /\ ~w.conn[c].connecting => x.conn[c].sends = w.conn[c].sends

\* c is connected only with a receive under way, and only its owner holds it.
Listening(w, c) ==
  /\ w.conn[c].connecting => w.conn[c].receiving
  /\ c \notin w.held /\ OwnerHolds(w, c)

\* The fields that a calm change keeps.
LEMMA CalmKeeps ==
  ASSUME NEW w \in Worlds, NEW c \in Conns, NEW x, Calm(w, x, c)
  PROVE  /\ x.conn[c] \in Connection
         /\ x.conn[c].alive = w.conn[c].alive /\ x.conn[c].np = w.conn[c].np
         /\ x.conn[c].owner = w.conn[c].owner /\ x.conn[c].data = w.conn[c].data
         /\ x.conn[c].shaken = w.conn[c].shaken /\ x.conn[c].based = w.conn[c].based
         /\ x.conn[c].timers = w.conn[c].timers /\ x.conn[c].to = w.conn[c].to
         /\ x.conn[c].opening = w.conn[c].opening
         /\ x.conn[c].receiving = w.conn[c].receiving
         /\ x.conn[c].attached = w.conn[c].attached
         /\ Listening(w, c) => Listening(x, c)
<1>1. w.conn[c] \in Connection /\ x.conn[c] \in Connection
  BY DEF Worlds, Calm
<1>2. x.conn[c] = [w.conn[c] EXCEPT !.connecting = x.conn[c].connecting,
                                    !.sends = x.conn[c].sends]
  BY DEF Calm
<1>3. /\ x.conn[c].alive = w.conn[c].alive /\ x.conn[c].np = w.conn[c].np
      /\ x.conn[c].owner = w.conn[c].owner /\ x.conn[c].data = w.conn[c].data
      /\ x.conn[c].shaken = w.conn[c].shaken /\ x.conn[c].based = w.conn[c].based
      /\ x.conn[c].timers = w.conn[c].timers /\ x.conn[c].to = w.conn[c].to
      /\ x.conn[c].opening = w.conn[c].opening
      /\ x.conn[c].receiving = w.conn[c].receiving
      /\ x.conn[c].attached = w.conn[c].attached
  BY <1>1, <1>2 DEF Connection
<1>4. Listening(w, c) => Listening(x, c)
  BY <1>3 DEF Calm, Listening, OwnerHolds
<1> QED BY <1>1, <1>3, <1>4

\* Calm changes add up to a calm change.
LEMMA CalmTransitive ==
  ASSUME NEW w \in Worlds, NEW c \in Conns, NEW x, Calm(w, x, c), NEW y, Calm(x, y, c)
  PROVE  Calm(w, y, c)
<1>1. w.conn[c] \in Connection
  BY DEF Worlds
<1>2. y.conn[c] = [w.conn[c] EXCEPT !.connecting = y.conn[c].connecting,
                                    !.sends = y.conn[c].sends]
  BY <1>1 DEF Calm, Connection
<1> QED BY <1>2 DEF Calm

\* No change at all is calm.
LEMMA CalmReflexive ==
  ASSUME NEW w \in Worlds, NEW c \in Conns
  PROVE  Calm(w, w, c)
<1>1. w.conn[c] \in Connection
  BY DEF Worlds
<1>2. w.conn[c] = [w.conn[c] EXCEPT !.connecting = w.conn[c].connecting,
                                    !.sends = w.conn[c].sends]
  BY <1>1 DEF Connection
<1> QED BY <1>2 DEF Calm

\* Stopping a connection, or adding a send to one that is connected, is calm.
LEMMA ChangedCalm ==
  ASSUME NEW w \in Worlds, NEW c \in Conns, NEW x,
         \/ Changed(w, x, c, Stopped(w.conn[c]))
         \/ Changed(w, x, c, Sending(w.conn[c])) /\ w.conn[c].connecting
  PROVE  Calm(w, x, c)
<1> DEFINE s == w.conn[c]
<1>1. s \in Connection /\ w.conn \in [Conns -> Connection]
  BY DEF Worlds
<1>2. CASE Changed(w, x, c, Stopped(s))
  <2>1. x.conn[c] = Stopped(s) /\ \A d \in Conns \ {c} : x.conn[d] = w.conn[d]
    BY <1>1, <1>2 DEF Changed
  <2>2. /\ Stopped(s) = [s EXCEPT !.connecting = Stopped(s).connecting,
                                  !.sends = Stopped(s).sends]
        /\ ~Stopped(s).connecting /\ Stopped(s).sends = s.sends
    BY <1>1 DEF Stopped, Connection
  <2> QED BY <1>2, <2>1, <2>2 DEF Changed, Calm
<1>3. CASE Changed(w, x, c, Sending(s)) /\ s.connecting
  <2>1. x.conn[c] = Sending(s) /\ \A d \in Conns \ {c} : x.conn[d] = w.conn[d]
    BY <1>1, <1>3 DEF Changed
  <2>2. Sending(s) = [s EXCEPT !.connecting = Sending(s).connecting,
                               !.sends = Sending(s).sends]
    BY <1>1 DEF Sending, Connection
  <2> QED BY <1>3, <2>1, <2>2 DEF Changed, Calm
<1> QED BY <1>2, <1>3

\* An accepted send is one more under way.
LEMMA SendAccepted ==
  ASSUME NEW w \in Worlds, NEW c \in Conns, w.conn[c].connecting, w.luck # 0
  PROVE  Changed(w, Send(w, c), c, Sending(w.conn[c]))
<1> DEFINE v == Spend(w)
<1>1. /\ v \in Worlds /\ v.conn = w.conn /\ w.conn \in [Conns -> Connection]
      /\ Sending(w.conn[c]) \in Connection
  BY SpendOne, ConnectionTypes DEF Worlds
<1>2. Send(w, c) = [v EXCEPT !.conn[c] = Sending(v.conn[c])]
  <2>1. Send(w, c) = [v EXCEPT !.conn[c].sends = @ + 1]
    BY DEF Send
  <2> HIDE DEF v
  <2> QED BY <1>1, <2>1 DEF Sending, Worlds
<1>3. Changed(v, Send(w, c), c, Sending(w.conn[c]))
  <2> HIDE DEF v
  <2> QED BY <1>1, <1>2, ChangeOne
<1> QED BY <1>1, <1>3, SpendOne DEF Changed

\* A send of a connection that listens is calm, whether it is accepted or not.
LEMMA SendCalm ==
  ASSUME NEW w \in Worlds, NEW c \in Conns, Listening(w, c)
  PROVE  Calm(w, Send(w, c), c)
<1>1. CASE ~w.conn[c].connecting
  BY <1>1, CalmReflexive DEF Send
<1>2. CASE w.conn[c].connecting /\ w.luck = 0
  <2>1. Send(w, c) = Close(w, c)
    BY <1>2 DEF Send
  <2>2. Changed(w, Close(w, c), c, Stopped(w.conn[c]))
    BY <1>2, CloseEffect DEF Listening
  <2> QED BY <2>1, <2>2, ChangedCalm
<1>3. CASE w.conn[c].connecting /\ w.luck # 0
  BY <1>3, SendAccepted, ChangedCalm
<1> QED BY <1>1, <1>2, <1>3

\* So are all functions that send, and they use nothing that is not there.
LEMMA SendMessageCalm ==
  ASSUME NEW w \in Worlds, NEW c \in Conns, Listening(w, c), w.conn[c].alive, NEW f
  PROVE  Calm(w, SendMessage(w, c, f), c)
<1>1. Calm(w, Send(w, c), c)
  BY SendCalm
<1>2. Send(w, c).conn[c].alive
  BY <1>1, CalmKeeps
<1> QED BY <1>1, <1>2 DEF SendMessage, Continue, Need

\* And one or two of them in a row.
LEMMA SendMessagesCalm ==
  ASSUME NEW w \in Worlds, NEW c \in Conns, Listening(w, c), w.conn[c].alive,
         NEW n \in 0 .. 2
  PROVE  /\ Calm(w, SendOne(w, c), c)
         /\ Calm(w, SendMessages(w, c, n), c)
<1>1. Calm(w, SendOne(w, c), c)
  BY SendMessageCalm DEF SendOne
<1>2. Calm(SendOne(w, c), SendOne(SendOne(w, c), c), c)
  <2>1. SendOne(w, c) \in Worlds /\ SendOne(w, c).conn[c].alive /\ Listening(SendOne(w, c), c)
    BY <1>1, CalmKeeps DEF Calm
  <2> QED BY <2>1, SendMessageCalm DEF SendOne
<1>3. Calm(w, SendOne(SendOne(w, c), c), c)
  BY <1>1, <1>2, CalmTransitive
<1>4. n = 0 \/ n = 1 \/ n = 2
  OBVIOUS
<1> QED BY <1>1, <1>3, <1>4, CalmReflexive DEF SendMessages

-----------------------------------------------------------------------------
(* The inductive invariant.                                                *)

\* Connection c between two handlers: exactly its owner holds it, it is told of
\* pieces exactly when it has shaken hands, it can send only with a receive under
\* way, and either its connect is under way or its timers are armed.
Sound(w, c) ==
  LET s == w.conn[c] IN
  /\ c \in w.newPeers <=> s.alive /\ s.owner = "host"
  /\ c \in w.peers <=> s.alive /\ s.owner = "task"
  /\ c \in w.observers <=> s.alive /\ s.shaken
  /\ s.np = s.alive /\ s.attached = s.alive
  /\ s.connecting => s.alive /\ s.receiving
  /\ s.alive => /\ s.data <=> s.owner = "task"
                /\ s.shaken => s.owner = "task" /\ s.based
                /\ s.opening \/ s.timers
  /\ s.timers => s.alive
  /\ s.opening => /\ s.alive /\ ~s.timers /\ ~s.shaken
                  /\ ~s.connecting /\ ~s.receiving /\ s.sends = 0

\* The peers that are connected to are taken from unused_peers_, each once.
ListenOnce ==
  /\ unused \cap used = {}
  /\ \A c \in Conns : conn[c].alive /\ conn[c].to # NoInfo => conn[c].to \in used
  /\ \A c, d \in Conns : c # d /\ conn[c].alive /\ conn[d].alive /\ conn[c].to = conn[d].to
                         => conn[c].to = NoInfo

\* The walks under way have only elements left that are still in their set, and
\* the walks, the loop of CreateTaskPeer and the messages of a receive exclude
\* each other.
Walks ==
  /\ notice \subseteq observers /\ stopping \subseteq peers
  /\ create > 0 => notice = {} /\ stopping = {}
  /\ \A c \in Conns : inbox[c] > 0 => /\ notice = {} /\ stopping = {} /\ create = 0
                                       /\ ~conn[c].opening

Inv ==
  /\ TypeOK
  /\ \A c \in Conns : Sound(World, c)
  /\ ListenOnce /\ IsFiniteSet(unused)
  /\ Walks
  /\ absentUse \subseteq Known

-----------------------------------------------------------------------------
(* What a handler of connection c makes of the world.                      *)

\* x is w for all the other connections.
Elsewhere(w, x, c) ==
  /\ x \in Worlds
  /\ \A d \in Conns \ {c} :
       /\ x.conn[d] = w.conn[d]
       /\ d \in x.newPeers <=> d \in w.newPeers
       /\ d \in x.peers <=> d \in w.peers
       /\ d \in x.observers <=> d \in w.observers
  /\ Updater \in x.observers <=> Updater \in w.observers

\* c is no other connection than before, and goes no way back.
Kept(w, x, c) ==
  /\ x.conn[c].alive => w.conn[c].alive /\ x.conn[c].to = w.conn[c].to
  /\ x.conn[c].alive /\ ~x.conn[c].shaken
       => ~w.conn[c].shaken /\ x.conn[c].owner = w.conn[c].owner
  /\ Outstanding(x.conn[c]) => w.conn[c].alive \/ Outstanding(w.conn[c])
  /\ x.conn[c].opening => w.conn[c].opening

Result(w, x, c) ==
  Elsewhere(w, x, c) /\ Kept(w, x, c) /\ Sound(x, c)

\* A world in which only c is exchanged is as before elsewhere.
LEMMA ChangedElsewhere ==
  ASSUME NEW w \in Worlds, NEW c \in Conns, NEW x, NEW s, Changed(w, x, c, s)
  PROVE  /\ Elsewhere(w, x, c) /\ x.conn[c] = s
         /\ x.newPeers = w.newPeers /\ x.peers = w.peers /\ x.observers = w.observers
         /\ x.held = w.held /\ x.absentUse = w.absentUse
BY DEF Changed, Elsewhere, Worlds

\* So is one that c has been dropped from.
LEMMA DroppedElsewhere ==
  ASSUME NEW w \in Worlds, NEW c \in Conns, NEW x \in Worlds, Dropped(w, x, c)
  PROVE  /\ Elsewhere(w, x, c) /\ x.conn[c] = Dead(w.conn[c])
         /\ c \notin x.newPeers /\ c \notin x.peers /\ c \notin x.observers
         /\ x.held = w.held /\ x.absentUse = w.absentUse
BY ConstantsAssumption DEF Dropped, Elsewhere, Worlds

\* And after one such change and another.
LEMMA ElsewhereTransitive ==
  ASSUME NEW c, NEW w, NEW x, NEW y, Elsewhere(w, x, c), Elsewhere(x, y, c)
  PROVE  Elsewhere(w, y, c)
BY DEF Elsewhere

\* A sound connection is held by its owner and nobody else.
LEMMA SoundListens ==
  ASSUME NEW w \in Worlds, NEW c \in Conns, Sound(w, c), w.held = {}
  PROVE  OwnerHolds(w, c) /\ Listening(w, c)
BY DEF Sound, OwnerHolds, Listening

\* A destroyed connection is sound when no connect of it is under way.
LEMMA DroppedSound ==
  ASSUME NEW w \in Worlds, NEW c \in Conns, NEW x \in Worlds, Dropped(w, x, c),
         ~w.conn[c].opening
  PROVE  /\ Sound(x, c) /\ ~x.conn[c].alive /\ ~x.conn[c].opening
         /\ Outstanding(x.conn[c]) => Outstanding(w.conn[c])
<1>1. w.conn[c] \in Connection
  BY DEF Worlds
<1>2. /\ x.conn[c] = Dead(w.conn[c])
      /\ c \notin x.newPeers /\ c \notin x.peers /\ c \notin x.observers
  BY DroppedElsewhere
<1>3. /\ x.conn[c].alive = FALSE /\ x.conn[c].np = FALSE /\ x.conn[c].attached = FALSE
      /\ x.conn[c].timers = FALSE /\ x.conn[c].connecting = FALSE
      /\ x.conn[c].opening = w.conn[c].opening
      /\ x.conn[c].receiving = w.conn[c].receiving /\ x.conn[c].sends = w.conn[c].sends
  BY <1>1, <1>2 DEF Dead, Connection
<1>4. Sound(x, c)
  BY <1>2, <1>3 DEF Sound
<1>5. Outstanding(x.conn[c]) => Outstanding(w.conn[c])
  BY <1>3 DEF Outstanding
<1> QED BY <1>3, <1>4, <1>5

\* Calm changes keep a connection sound.
LEMMA CalmResult ==
  ASSUME NEW w \in Worlds, NEW c \in Conns, Sound(w, c),
         NEW x, Calm(w, x, c)
  PROVE  Result(w, x, c)
<1>1. /\ x.conn[c].alive = w.conn[c].alive /\ x.conn[c].np = w.conn[c].np
      /\ x.conn[c].owner = w.conn[c].owner /\ x.conn[c].data = w.conn[c].data
      /\ x.conn[c].shaken = w.conn[c].shaken /\ x.conn[c].based = w.conn[c].based
      /\ x.conn[c].timers = w.conn[c].timers /\ x.conn[c].to = w.conn[c].to
      /\ x.conn[c].opening = w.conn[c].opening
      /\ x.conn[c].receiving = w.conn[c].receiving
      /\ x.conn[c].attached = w.conn[c].attached
  BY CalmKeeps
<1>2. Elsewhere(w, x, c)
  BY DEF Calm, Elsewhere
<1>3. Sound(x, c)
  BY <1>1 DEF Sound, Calm
<1>4. Kept(w, x, c)
  BY <1>1 DEF Sound, Calm, Kept, Outstanding
<1> QED BY <1>2, <1>3, <1>4 DEF Result

\* Every state is a world, whatever luck the step has.
LEMMA StateWorld ==
  ASSUME TypeOK, NEW n \in Nat
  PROVE  /\ World \in Worlds /\ Lucky(n) \in Worlds
         /\ World.held = {} /\ World.absentUse = {} /\ World.conn = conn
         /\ World.newPeers = newPeers /\ World.peers = peers /\ World.observers = observers
         /\ Lucky(n).held = {} /\ Lucky(n).absentUse = {} /\ Lucky(n).conn = conn
         /\ Lucky(n).newPeers = newPeers /\ Lucky(n).peers = peers
         /\ Lucky(n).observers = observers /\ Lucky(n).luck = n
BY DEF TypeOK, World, Lucky, Worlds

\* Luck makes no difference to the connections.
LEMMA LuckySound ==
  ASSUME TypeOK, NEW n \in Nat, NEW c \in Conns, Sound(World, c)
  PROVE  Sound(Lucky(n), c) /\ \A x : Result(Lucky(n), x, c) => Result(World, x, c)
BY StateWorld DEF Sound, Result, Elsewhere, Kept

-----------------------------------------------------------------------------
(* The handlers of BitNetProcessor's operations.                           *)

\* t is connection s after an operation of it has ended, or the connect has
\* succeeded: the same object, and what is left under way is known.
After(s, t) ==
  /\ t \in Connection
  /\ t.alive = s.alive /\ t.np = s.np /\ t.attached = s.attached
  /\ t.owner = s.owner /\ t.data = s.data /\ t.shaken = s.shaken /\ t.based = s.based
  /\ t.to = s.to
  /\ t.timers => t.alive
  /\ t.connecting => t.alive
  /\ ~t.opening
  /\ t.alive => t.timers \/ (t.sends = 0 /\ ~t.receiving)
  /\ Outstanding(t) => s.alive \/ Outstanding(s)

\* A connection that is left as the end of an operation finds it is sound, when it
\* listens or can no longer send.
LEMMA StillResult ==
  ASSUME NEW v \in Worlds, NEW c \in Conns, Sound(v, c),
         NEW t, After(v.conn[c], t), NEW w, Changed(v, w, c, t),
         t.connecting => t.receiving, t.alive => t.timers
  PROVE  Result(v, w, c)
<1>1. /\ Elsewhere(v, w, c) /\ w.conn[c] = t /\ w.absentUse = v.absentUse
      /\ w.newPeers = v.newPeers /\ w.peers = v.peers /\ w.observers = v.observers
  BY ChangedElsewhere
<1>2. Sound(w, c)
  BY <1>1 DEF Sound, After
<1>3. Kept(v, w, c)
  BY <1>1 DEF Kept, After
<1> QED BY <1>1, <1>2, <1>3 DEF Result

\* Close after the end of an operation, whatever else is under way.
LEMMA CloseResult ==
  ASSUME NEW v \in Worlds, NEW c \in Conns, Sound(v, c),
         v.held = {}, NEW t, After(v.conn[c], t), NEW w, Changed(v, w, c, t)
  PROVE  Result(v, Close(w, c), c)
<1> DEFINE s == v.conn[c]
           x == Close(w, c)
<1>1. /\ Elsewhere(v, w, c) /\ w.conn[c] = t /\ w \in Worlds
      /\ w.newPeers = v.newPeers /\ w.peers = v.peers /\ w.observers = v.observers
      /\ w.held = {} /\ w.absentUse = v.absentUse
  BY ChangedElsewhere DEF Elsewhere
<1>2. c \notin w.held /\ OwnerHolds(w, c)
  BY <1>1 DEF Sound, After, OwnerHolds
<1>3. CASE t.sends = 0 /\ ~t.receiving /\ t.attached
  <2>1. x \in Worlds /\ Dropped(w, x, c)
    BY <1>1, <1>2, <1>3, CloseEffect
  <2> HIDE DEF x
  <2>2. Elsewhere(w, x, c) /\ x.absentUse = w.absentUse
    BY <1>1, <2>1, DroppedElsewhere
  <2>3. /\ Sound(x, c) /\ ~x.conn[c].alive /\ ~x.conn[c].opening
        /\ (Outstanding(x.conn[c]) => Outstanding(t))
    BY <1>1, <2>1, DroppedSound DEF After
  <2>4. Elsewhere(v, x, c)
    BY <1>1, <2>2, ElsewhereTransitive
  <2>5. Kept(v, x, c)
    BY <2>3 DEF Kept, After
  <2> QED BY <1>1, <2>2, <2>3, <2>4, <2>5 DEF Result, x
<1>4. CASE ~(t.sends = 0 /\ ~t.receiving /\ t.attached)
  <2>1. Changed(w, x, c, Stopped(t))
    BY <1>1, <1>2, <1>4, CloseEffect
  <2> HIDE DEF x
  <2>2. [w.conn EXCEPT ![c] = Stopped(t)] = [v.conn EXCEPT ![c] = Stopped(t)]
    BY DEF Changed, Worlds
  <2>3. Changed(v, x, c, Stopped(t))
    BY <2>1, <2>2 DEF Changed
  <2>4. /\ Stopped(t) \in Connection /\ Stopped(t).connecting = FALSE
        /\ Stopped(t).alive = t.alive /\ Stopped(t).np = t.np
        /\ Stopped(t).attached = t.attached /\ Stopped(t).owner = t.owner
        /\ Stopped(t).data = t.data /\ Stopped(t).shaken = t.shaken
        /\ Stopped(t).based = t.based /\ Stopped(t).to = t.to
        /\ Stopped(t).timers = t.timers /\ Stopped(t).opening = t.opening
        /\ Stopped(t).sends = t.sends /\ Stopped(t).receiving = t.receiving
    BY DEF After, Stopped, Connection
  <2>5. After(s, Stopped(t))
    BY <2>4 DEF After, Outstanding
  <2>6. Stopped(t).alive => Stopped(t).timers
    BY <1>4, <2>4 DEF Sound, After
  <2> QED BY <2>3, <2>4, <2>5, <2>6, StillResult DEF x
<1> QED BY <1>3, <1>4

\* An accepted receive is under way.
LEMMA ReceiveAccepted ==
  ASSUME NEW w \in Worlds, NEW c \in Conns, w.conn[c].connecting, w.luck # 0
  PROVE  Changed(w, Receive(w, c), c, Receiving(w.conn[c]))
<1> DEFINE v == Spend(w)
<1>1. /\ v \in Worlds /\ v.conn = w.conn /\ w.conn \in [Conns -> Connection]
      /\ Receiving(w.conn[c]) \in Connection
  BY SpendOne, ConnectionTypes DEF Worlds
<1>2. Receive(w, c) = [v EXCEPT !.conn[c] = Receiving(v.conn[c])]
  <2>1. Receive(w, c) = [v EXCEPT !.conn[c].receiving = TRUE]
    BY DEF Receive
  <2> HIDE DEF v
  <2> QED BY <1>1, <2>1 DEF Receiving, Worlds
<1>3. Changed(v, Receive(w, c), c, Receiving(w.conn[c]))
  <2> HIDE DEF v
  <2> QED BY <1>1, <1>2, ChangeOne
<1> QED BY <1>1, <1>3, SpendOne DEF Changed

\* The next receive, with the timers armed: it is under way, or refused, or the
\* connection cannot receive any more.
LEMMA ReceiveResult ==
  ASSUME NEW v \in Worlds, NEW c \in Conns, Sound(v, c),
         v.held = {}, NEW t, After(v.conn[c], t), t.alive => t.timers,
         NEW w, Changed(v, w, c, t)
  PROVE  Result(v, Receive(w, c), c)
<1>0. w.conn[c] = t /\ w \in Worlds
  BY SMTT(30), ChangedElsewhere DEF Changed
<1>1. CASE ~t.connecting
  <2>1. Receive(w, c) = w
    BY <1>0, <1>1 DEF Receive
  <2> QED BY <1>1, <2>1, StillResult
<1>2. CASE t.connecting /\ w.luck = 0
  <2>1. Receive(w, c) = Close(w, c)
    BY <1>0, <1>2 DEF Receive
  <2> QED BY <2>1, CloseResult
<1>3. CASE t.connecting /\ w.luck # 0
  <2> DEFINE x == Receive(w, c)
             r == Receiving(t)
  <2>1. Changed(w, x, c, r)
    BY <1>0, <1>3, ReceiveAccepted
  <2> HIDE DEF x
  <2>2. [w.conn EXCEPT ![c] = r] = [v.conn EXCEPT ![c] = r]
    BY DEF Changed, Worlds
  <2>3. Changed(v, x, c, r)
    BY <2>1, <2>2 DEF Changed
  <2>4. /\ r \in Connection /\ r.connecting = t.connecting /\ r.receiving = TRUE
        /\ r.alive = t.alive /\ r.np = t.np
        /\ r.attached = t.attached /\ r.owner = t.owner
        /\ r.data = t.data /\ r.shaken = t.shaken
        /\ r.based = t.based /\ r.to = t.to
        /\ r.timers = t.timers /\ r.opening = t.opening /\ r.sends = t.sends
    BY DEF After, Receiving, Connection
  <2>5. After(v.conn[c], r)
    BY <1>3, <2>4 DEF After, Outstanding
  <2> HIDE DEF r
  <2> QED BY <1>3, <2>3, <2>4, <2>5, StillResult DEF After, x
<1> QED BY <1>1, <1>2, <1>3

\* A function that goes on with an object it supposes to be there, of those that
\* may be wrong in it.
LEMMA NeedResult ==
  ASSUME NEW v, NEW c \in Conns, NEW x, Result(v, x, c),
         NEW there \in BOOLEAN, NEW f \in Known
  PROVE  /\ Result(v, Need(x, there, f), c)
         /\ Need(x, there, f).conn = x.conn /\ Need(x, there, f).held = x.held
<1>1. CASE there
  BY <1>1 DEF Need
<1>2. CASE ~there
  <2>1. Need(x, there, f) = [x EXCEPT !.absentUse = x.absentUse \cup {f}] /\ x \in Worlds
    BY <1>2 DEF Need, Result, Elsewhere, Worlds
  <2> DEFINE y == [x EXCEPT !.absentUse = x.absentUse \cup {f}]
  <2>3. /\ y \in Worlds /\ y.conn = x.conn /\ y.held = x.held /\ y.newPeers = x.newPeers
        /\ y.peers = x.peers /\ y.observers = x.observers
        /\ y.absentUse = x.absentUse \cup {f}
    BY <2>1 DEF Worlds
  <2> HIDE DEF y
  <2>4. Elsewhere(v, y, c) /\ Kept(v, y, c)
    BY <2>3 DEF Result, Elsewhere, Kept
  <2>5. Sound(y, c)
    BY <2>3 DEF Result, Sound
  <2> QED BY <2>1, <2>3, <2>4, <2>5 DEF Result, y
<1> QED BY <1>1, <1>2

\* The connection that an operation of v's ends for, as the code writes it.
LEMMA EndOf ==
  ASSUME NEW v \in Worlds, NEW c \in Conns
  PROVE  /\ [v EXCEPT !.conn[c].receiving = FALSE]
              = [v EXCEPT !.conn[c] = [v.conn[c] EXCEPT !.receiving = FALSE]]
         /\ [v EXCEPT !.conn[c].sends = @ - 1]
              = [v EXCEPT !.conn[c] = [v.conn[c] EXCEPT !.sends = @ - 1]]
         /\ [v EXCEPT !.conn[c].opening = FALSE]
              = [v EXCEPT !.conn[c] = [v.conn[c] EXCEPT !.opening = FALSE]]
<1>1. v.conn[c] \in Connection /\ v.conn \in [Conns -> Connection]
  BY DEF Worlds
<1>2. [v EXCEPT !.conn[c].receiving = FALSE]
        = [v EXCEPT !.conn[c] = [v.conn[c] EXCEPT !.receiving = FALSE]]
  BY <1>1 DEF Worlds
<1>3. [v EXCEPT !.conn[c].sends = @ - 1]
        = [v EXCEPT !.conn[c] = [v.conn[c] EXCEPT !.sends = @ - 1]]
  BY <1>1 DEF Worlds
<1>4. [v EXCEPT !.conn[c].opening = FALSE]
        = [v EXCEPT !.conn[c] = [v.conn[c] EXCEPT !.opening = FALSE]]
  BY <1>1 DEF Worlds
<1> QED BY <1>2, <1>3, <1>4

\* What the three of them are after the end.
LEMMA EndAfter ==
  ASSUME NEW v \in Worlds, NEW c \in Conns, Sound(v, c)
  PROVE  LET s == v.conn[c] IN
         /\ s.receiving => After(s, [s EXCEPT !.receiving = FALSE])
         /\ s.sends > 0 => After(s, [s EXCEPT !.sends = @ - 1])
         /\ s.opening => After(s, [s EXCEPT !.opening = FALSE])
<1> DEFINE s == v.conn[c]
<1>0. s \in Connection
  BY DEF Worlds
<1>1. ASSUME s.receiving PROVE After(s, [s EXCEPT !.receiving = FALSE])
  BY <1>0, <1>1 DEF After, Sound, Connection, Outstanding
<1>2. ASSUME s.sends > 0 PROVE After(s, [s EXCEPT !.sends = @ - 1])
  <2>1. s.sends \in Nat /\ s.sends - 1 \in Nat
    BY <1>0, <1>2 DEF Connection
  <2> QED BY <1>0, <1>2, <2>1 DEF After, Sound, Connection, Outstanding
<1>3. ASSUME s.opening PROVE After(s, [s EXCEPT !.opening = FALSE])
  BY <1>0, <1>3 DEF After, Sound, Connection, Outstanding
<1> QED BY <1>1, <1>2, <1>3

\* After a receive the next one is under way, or the connection is closed.
LEMMA ReceiveHandlerResult ==
  ASSUME TypeOK, NEW c \in Conns, Sound(World, c), ReceiveHandler(c)
  PROVE  \E x : Result(World, x, c) /\ SetWorld(x)
<1> DEFINE t == [conn[c] EXCEPT !.receiving = FALSE]
<1>1. After(conn[c], t) /\ t \in Connection /\ (t.alive => t.timers)
  <2>1. conn[c].receiving /\ World.conn[c] = conn[c] /\ World \in Worlds /\ conn[c] \in Connection
    BY StateWorld DEF ReceiveHandler, TypeOK
  <2>2. After(conn[c], t)
    BY <2>1, EndAfter
  <2>3. (t.alive => t.timers)
    BY <2>1 DEF Sound, Connection
  <2> QED BY <2>2, <2>3 DEF After
<1>2. CASE SetWorld(Close([World EXCEPT !.conn[c].receiving = FALSE], c))
  <2> DEFINE v == World
             w == [v EXCEPT !.conn[c].receiving = FALSE]
  <2>1. v \in Worlds /\ v.conn[c] = conn[c] /\ v.held = {}
    BY StateWorld
  <2>2. Changed(v, w, c, t)
    <3> HIDE DEF v
    <3> QED BY <1>1, <2>1, EndOf, ChangeOne
  <2>3. Result(v, Close(w, c), c)
    <3> HIDE DEF v, w
    <3>1. Sound(v, c)
      BY DEF v
    <3> QED BY <1>1, <2>1, <2>2, <3>1, CloseResult
  <2> QED BY <1>2, <2>3
<1>3. ASSUME NEW luck \in {0, 1},
             SetWorld(NextReceive([Lucky(luck) EXCEPT !.conn[c].receiving = FALSE], c))
      PROVE  \E x : Result(World, x, c) /\ SetWorld(x)
  <2> DEFINE v == Lucky(luck)
             w == [v EXCEPT !.conn[c].receiving = FALSE]
  <2>0. luck \in Nat
    OBVIOUS
  <2>1. v \in Worlds /\ v.conn[c] = conn[c] /\ v.held = {} /\ Sound(v, c)
    BY <2>0, StateWorld, LuckySound
  <2>2. Changed(v, w, c, t)
    <3> HIDE DEF v
    <3> QED BY <1>1, <2>1, EndOf, ChangeOne
  <2>3. Result(v, Receive(w, c), c)
    <3> HIDE DEF v, w
    <3> QED BY <1>1, <2>1, <2>2, ReceiveResult
  <2>4. Result(World, Receive(w, c), c)
    <3> HIDE DEF w
    <3> QED BY <2>0, <2>3, LuckySound
  <2> QED BY <1>3, <2>4 DEF NextReceive
<1> QED BY <1>2, <1>3 DEF ReceiveHandler

\* A send that completes leaves the connection as it is, or closes it.
LEMMA SendHandlerResult ==
  ASSUME TypeOK, NEW c \in Conns, Sound(World, c), SendHandler(c)
  PROVE  \E x : Result(World, x, c) /\ SetWorld(x)
<1> DEFINE t == [conn[c] EXCEPT !.sends = @ - 1]
           v == World
           w == [v EXCEPT !.conn[c].sends = @ - 1]
<1>1. v \in Worlds /\ v.conn[c] = conn[c] /\ v.held = {} /\ conn[c].sends > 0
  BY StateWorld DEF SendHandler
<1>2. conn[c] \in Connection
  BY DEF TypeOK
<1>3. After(conn[c], t) /\ t \in Connection /\ (t.connecting => t.receiving)
      /\ (t.alive => t.timers)
  <2>1. After(conn[c], t)
    BY <1>1, EndAfter
  <2>2. (t.connecting => t.receiving) /\ (t.alive => t.timers)
    BY <1>1, <1>2 DEF Sound, Connection
  <2> QED BY <2>1, <2>2 DEF After
<1>4. Changed(v, w, c, t)
  <2> HIDE DEF v
  <2> QED BY <1>1, <1>3, EndOf, ChangeOne
<1>5. Result(v, w, c) /\ Result(v, Close(w, c), c)
  <2> HIDE DEF w
  <2> QED BY <1>1, <1>3, <1>4, CloseResult, StillResult
<1>6. SetWorld(w) \/ SetWorld(Close(w, c))
  BY DEF SendHandler
<1> QED BY <1>5, <1>6

\* DropConnection in a handler of a connection whose connect has ended.
LEMMA DropResult ==
  ASSUME NEW v \in Worlds, NEW c \in Conns, Sound(v, c), v.held = {}, ~v.conn[c].opening
  PROVE  Result(v, DropConnection(v, c), c)
<1> DEFINE x == DropConnection(v, c)
<1>1. x \in Worlds /\ Dropped(v, x, c)
  BY SoundListens, DropConnectionEffect DEF Listening
<1> HIDE DEF x
<1>2. Elsewhere(v, x, c)
  BY <1>1, DroppedElsewhere
<1>3. Sound(x, c) /\ ~x.conn[c].alive /\ ~x.conn[c].opening
      /\ (Outstanding(x.conn[c]) => Outstanding(v.conn[c]))
  BY <1>1, DroppedSound
<1> QED BY <1>2, <1>3 DEF Result, Kept, x

\* disconnect_timer_ destroys a connection that has it armed.
LEMMA DisconnectTimerResult ==
  ASSUME TypeOK, NEW c \in Conns, Sound(World, c), DisconnectTimer(c)
  PROVE  \E x : Result(World, x, c) /\ SetWorld(x)
<1>1. World \in Worlds /\ World.conn[c] = conn[c] /\ World.held = {} /\ conn[c].timers
  BY StateWorld DEF DisconnectTimer
<1>2. ~World.conn[c].opening
  BY <1>1 DEF Sound
<1>3. Result(World, DropConnection(World, c), c)
  BY <1>1, <1>2, DropResult
<1> QED BY <1>3 DEF DisconnectTimer

\* What a connection sends on its own, in a notification or when the task is
\* complete is calm.
LEMMA SendsResult ==
  ASSUME TypeOK, NEW c \in Conns, Sound(World, c), conn[c].alive,
         NEW luck \in Nat, NEW n \in 0 .. 2
  PROVE  /\ Result(World, SendMessages(Lucky(luck), c, n), c)
         /\ Calm(Lucky(luck), SendMessages(Lucky(luck), c, n), c)
         /\ Result(World, SendOne(Lucky(luck), c), c)
         /\ Calm(Lucky(luck), SendOne(Lucky(luck), c), c)
<1> DEFINE v == Lucky(luck)
<1>1. v \in Worlds /\ v.conn[c] = conn[c] /\ v.held = {} /\ Sound(v, c)
  BY StateWorld, LuckySound
<1>2. \A x : Result(v, x, c) => Result(World, x, c)
  BY LuckySound
<1> HIDE DEF v
<1>3. Listening(v, c)
  BY <1>1, SoundListens
<1>4. Calm(v, SendMessages(v, c, n), c) /\ Calm(v, SendOne(v, c), c)
  BY <1>1, <1>3, SendMessagesCalm
<1>5. Result(v, SendMessages(v, c, n), c) /\ Result(v, SendOne(v, c), c)
  BY <1>1, <1>4, CalmResult
<1> QED BY <1>2, <1>4, <1>5 DEF v

\* OnConnect of a connection whose connect has succeeded: its handshake is under
\* way, or it is destroyed, and then SendHandshake has used it after that.
LEMMA OnConnectResult ==
  ASSUME NEW v \in Worlds, NEW c \in Conns, Sound(v, c), v.held = {}, v.conn[c].opening,
         NEW w, w = [[v EXCEPT !.conn[c].opening = FALSE] EXCEPT !.conn[c].connecting = TRUE]
  PROVE  Result(v, Receive(OnConnect(w, c), c), c)
<1> DEFINE s == v.conn[c]
           t == [s EXCEPT !.opening = FALSE, !.connecting = TRUE, !.timers = TRUE]
           w1 == [v EXCEPT !.conn[c] = t]
<1>0. v.conn \in [Conns -> Connection] /\ s \in Connection
  BY DEF Worlds
<1>1. /\ t \in Connection /\ t.connecting /\ t.timers /\ ~t.opening /\ t.alive = s.alive
      /\ t.np = s.np /\ t.attached = s.attached /\ t.owner = s.owner /\ t.data = s.data
      /\ t.shaken = s.shaken /\ t.based = s.based /\ t.to = s.to
      /\ t.sends = 0 /\ ~t.receiving /\ t.alive /\ t.attached
  BY <1>0 DEF Sound, Connection
<1>2. After(s, t)
  BY <1>1 DEF After, Outstanding
<1>3. Changed(v, w1, c, t) /\ w1.conn[c] = t /\ w1.luck = v.luck /\ w1 \in Worlds
  <2>1. Changed(v, w1, c, t)
    BY <1>1, ChangeOne
  <2> QED BY <1>0, <2>1 DEF Changed, Worlds
<1>4. w.conn[c].attached /\ [w EXCEPT !.conn[c].timers = TRUE] = w1
  <2> DEFINE a == [s EXCEPT !.opening = FALSE]
             b == [a EXCEPT !.connecting = TRUE]
             va == [v EXCEPT !.conn = [v.conn EXCEPT ![c] = a]]
             vb == [v EXCEPT !.conn = [v.conn EXCEPT ![c] = b]]
  <2>1. [v EXCEPT !.conn[c].opening = FALSE] = va
    BY <1>0 DEF Worlds
  <2>2. va.conn = [v.conn EXCEPT ![c] = a] /\ vb.conn = [v.conn EXCEPT ![c] = b]
    BY DEF Worlds
  <2>3. w = [va EXCEPT !.conn = [va.conn EXCEPT ![c] = b]]
    <3>1. va.conn[c] = a
      BY <1>0, <2>2
    <3>2. w = [va EXCEPT !.conn[c].connecting = TRUE]
      BY <2>1
    <3> HIDE DEF va, a
    <3> QED BY <2>2, <3>1, <3>2
  <2>4. w = vb
    <3>1. [va.conn EXCEPT ![c] = b] = [v.conn EXCEPT ![c] = b]
      BY <1>0, <2>2
    <3> HIDE DEF a, b
    <3> QED BY <2>3, <3>1 DEF Worlds
  <2>5. w.conn[c] = b /\ b.attached = s.attached
    <3>1. b.attached = s.attached
      BY <1>0 DEF Connection
    <3>2. w.conn = [v.conn EXCEPT ![c] = b]
      BY <2>2, <2>4
    <3> HIDE DEF b
    <3> QED BY <1>0, <3>1, <3>2
  <2>6. t = [b EXCEPT !.timers = TRUE]
    BY <1>0 DEF Connection
  <2>7. [w EXCEPT !.conn[c].timers = TRUE] = [w EXCEPT !.conn = [w.conn EXCEPT ![c] = t]]
    <3> HIDE DEF b, t
    <3> QED BY <2>5, <2>6
  <2>8. [w.conn EXCEPT ![c] = t] = [v.conn EXCEPT ![c] = t]
    <3> HIDE DEF b, t
    <3> QED BY <1>0, <2>2, <2>4
  <2>9. [w EXCEPT !.conn[c].timers = TRUE] = w1
    <3> HIDE DEF b, t
    <3> QED BY <2>4, <2>7, <2>8 DEF Worlds
  <2> QED BY <1>1, <2>5, <2>9
<1>5. OnConnect(w, c) = Need(Send(w1, c), Send(w1, c).conn[c].alive, "SendHandshake")
  BY <1>4 DEF OnConnect, SendMessage, Continue
<1> HIDE DEF w1, t
<1>6. CASE w1.luck = 0
  <2> DEFINE x == Close(w1, c)
             y == Need(x, x.conn[c].alive, "SendHandshake")
  <2>1. Send(w1, c) = x
    BY <1>1, <1>3, <1>6 DEF Send
  <2>2. Result(v, x, c)
    BY <1>2, <1>3, CloseResult
  <2>3. x \in Worlds /\ x.conn[c] = Dead(t)
    <3>1. c \notin w1.held /\ OwnerHolds(w1, c)
      BY <1>1, <1>3 DEF Changed, OwnerHolds, Sound
    <3>2. x \in Worlds /\ Dropped(w1, x, c)
      BY <1>1, <1>3, <3>1, CloseEffect
    <3> HIDE DEF x
    <3> QED BY <1>3, <3>2, DroppedElsewhere
  <2>4. ~x.conn[c].connecting /\ x.conn[c].alive = FALSE
    <3> HIDE DEF x
    <3> QED BY <1>1, <2>3 DEF Dead, Connection
  <2>5. Result(v, y, c) /\ y.conn = x.conn
    <3> HIDE DEF x
    <3>1. "SendHandshake" \in Known /\ x.conn[c].alive \in BOOLEAN
      BY <2>4 DEF Known
    <3> QED BY <2>2, <3>1, NeedResult
  <2>6. Receive(y, c) = y
    <3> HIDE DEF y
    <3> QED BY <2>4, <2>5 DEF Receive
  <2> QED BY <1>5, <2>1, <2>5, <2>6
<1>7. CASE w1.luck # 0
  <2> DEFINE x == Send(w1, c)
             r == Sending(t)
  <2>1. Changed(w1, x, c, r)
    BY <1>1, <1>3, <1>7, SendAccepted
  <2> HIDE DEF x
  <2>2. [w1.conn EXCEPT ![c] = r] = [v.conn EXCEPT ![c] = r]
    BY <1>0, <1>3 DEF Changed
  <2>3. Changed(v, x, c, r)
    BY <1>3, <2>1, <2>2 DEF Changed
  <2>4. /\ r \in Connection /\ r.connecting /\ r.timers /\ ~r.opening /\ r.alive = s.alive
        /\ r.np = s.np /\ r.attached = s.attached /\ r.owner = s.owner /\ r.data = s.data
        /\ r.shaken = s.shaken /\ r.based = s.based /\ r.to = s.to /\ r.alive
    BY <1>1 DEF Sending, Connection
  <2> HIDE DEF r
  <2>5. After(s, r)
    BY <2>4 DEF After, Outstanding
  <2>6. x.conn[c] = r
    BY <2>3, ChangedElsewhere
  <2>7. OnConnect(w, c) = x
    BY <1>5, <2>4, <2>6 DEF Need, x
  <2>8. Result(v, Receive(x, c), c)
    BY <2>3, <2>4, <2>5, ReceiveResult
  <2> QED BY <2>7, <2>8
<1> QED BY <1>6, <1>7

\* ConnectHandler, of a connect that failed or succeeded.
LEMMA ConnectHandlerResult ==
  ASSUME TypeOK, NEW c \in Conns, Sound(World, c), ConnectHandler(c)
  PROVE  \E x : Result(World, x, c) /\ SetWorld(x)
<1>1. PICK luck \in Luck :
        LET w == [Lucky(luck) EXCEPT !.conn[c].opening = FALSE]
        IN  \/ SetWorld(Close(w, c))
            \/ SetWorld(Receive(OnConnect([w EXCEPT !.conn[c].connecting = TRUE], c), c))
  BY DEF ConnectHandler
<1> DEFINE v == Lucky(luck)
           t == [conn[c] EXCEPT !.opening = FALSE]
           w == [v EXCEPT !.conn[c].opening = FALSE]
           u == [w EXCEPT !.conn[c].connecting = TRUE]
<1>2. luck \in Nat
  BY DEF Luck
<1>3. v \in Worlds /\ v.conn[c] = conn[c] /\ v.held = {} /\ Sound(v, c) /\ conn[c].opening
  BY <1>2, StateWorld, LuckySound DEF ConnectHandler
<1>4. \A x : Result(v, x, c) => Result(World, x, c)
  BY <1>2, LuckySound
<1>5. SetWorld(Close(w, c)) \/ SetWorld(Receive(OnConnect(u, c), c))
  BY <1>1
<1>6. Result(v, Receive(OnConnect(u, c), c), c)
  <2> HIDE DEF v
  <2> QED BY <1>3, OnConnectResult
<1>7. Result(v, Close(w, c), c)
  <2>1. After(conn[c], t) /\ t \in Connection
    <3> HIDE DEF v
    <3>1. After(conn[c], t)
      BY <1>3, EndAfter
    <3> QED BY <3>1 DEF After
  <2>2. Changed(v, w, c, t)
    <3> HIDE DEF v
    <3> QED BY <1>3, <2>1, EndOf, ChangeOne
  <2> HIDE DEF v, w, t
  <2> QED BY <1>3, <2>1, <2>2, CloseResult
<1> HIDE DEF v, w, u
<1> QED BY <1>4, <1>5, <1>6, <1>7

-----------------------------------------------------------------------------
(* The messages.                                                           *)

\* Changes of one connection after another.
LEMMA ResultTransitive ==
  ASSUME NEW c, NEW v, NEW x, Result(v, x, c), NEW y, Result(x, y, c)
  PROVE  Result(v, y, c)
<1>1. Elsewhere(v, y, c)
  BY ElsewhereTransitive DEF Result
<1>2. Kept(v, y, c)
  BY DEF Result, Kept
<1> QED BY <1>1, <1>2 DEF Result

\* PreparePeerData and NotifyHandshakeOk make a connection of a task an observer
\* that has its dispatchers.
LEMMA PrepareEffect ==
  ASSUME NEW w \in Worlds, NEW c \in Conns, w.conn[c].owner = "task"
  PROVE  LET x == NotifyHandshakeOk(PreparePeerData(w, c), c)
             t == [w.conn[c] EXCEPT !.shaken = TRUE, !.based = TRUE]
         IN  /\ x \in Worlds /\ x.conn = [w.conn EXCEPT ![c] = t]
             /\ x.newPeers = w.newPeers /\ x.peers = w.peers
             /\ x.observers = w.observers \cup {c} /\ x.held = w.held
<1> DEFINE a == [w.conn[c] EXCEPT !.shaken = TRUE]
           t == [w.conn[c] EXCEPT !.shaken = TRUE, !.based = TRUE]
           w1 == PreparePeerData(w, c)
           x == NotifyHandshakeOk(w1, c)
<1>0. w.conn \in [Conns -> Connection] /\ w.conn[c] \in Connection
  BY DEF Worlds
<1>1. a \in Connection /\ a.owner = "task" /\ t = [a EXCEPT !.based = TRUE] /\ t \in Connection
  BY <1>0 DEF Connection
<1>2. Changed(w, w1, c, a)
  <2>1. w1 = [w EXCEPT !.conn[c] = a]
    BY DEF PreparePeerData
  <2> HIDE DEF w1, a
  <2> QED BY <1>1, <2>1, ChangeOne
<1>3. w1 \in Worlds /\ w1.conn = [w.conn EXCEPT ![c] = a] /\ w1.conn[c] = a
  BY <1>2, ChangedElsewhere DEF Changed
<1> HIDE DEF w1, a, t
<1>4. x = [[w1 EXCEPT !.observers = w1.observers \cup {c}] EXCEPT !.conn[c].based = TRUE]
  BY <1>1, <1>3 DEF NotifyHandshakeOk, SetPeerConnectionBaseData, AddDownloadingInfoObserver,
                    Worlds
<1> DEFINE w2 == [w1 EXCEPT !.observers = w1.observers \cup {c}]
<1>5. /\ w2 \in Worlds /\ w2.conn = w1.conn /\ w2.newPeers = w1.newPeers
      /\ w2.peers = w1.peers /\ w2.observers = w1.observers \cup {c} /\ w2.held = w1.held
  BY <1>3 DEF Worlds
<1> HIDE DEF w2
<1>6. x = [w2 EXCEPT !.conn[c] = t]
  BY <1>1, <1>3, <1>4, <1>5 DEF w2
<1> HIDE DEF x
<1>7. Changed(w2, x, c, t)
  BY <1>1, <1>5, <1>6, ChangeOne
<1>8. [w1.conn EXCEPT ![c] = t] = [w.conn EXCEPT ![c] = t]
  BY <1>0, <1>3
<1>9. /\ x \in Worlds /\ x.conn = [w.conn EXCEPT ![c] = t]
      /\ x.newPeers = w.newPeers /\ x.peers = w.peers
      /\ x.observers = w.observers \cup {c} /\ x.held = w.held
  BY <1>2, <1>5, <1>7, <1>8 DEF Changed
<1> QED BY <1>9 DEF t, x, w1

\* OnHandshake of a connection that its task holds: it joins, and its bitfield
\* and interest may be under way.
LEMMA OnHandshakeJoins ==
  ASSUME NEW w \in Worlds, NEW c \in Conns, Sound(w, c), w.held = {},
         w.conn[c].alive, w.conn[c].owner = "task", ~w.conn[c].opening
  PROVE  LET x == OnHandshake(w, c)
         IN  /\ Elsewhere(w, x, c) /\ Sound(x, c)
             /\ x.conn[c].shaken /\ x.conn[c].to = w.conn[c].to /\ ~x.conn[c].opening
<1> DEFINE v == NotifyHandshakeOk(PreparePeerData(w, c), c)
           t == [w.conn[c] EXCEPT !.shaken = TRUE, !.based = TRUE]
<1>0. w.conn \in [Conns -> Connection] /\ w.conn[c] \in Connection
  BY DEF Worlds
<1>1. /\ v \in Worlds /\ v.conn = [w.conn EXCEPT ![c] = t]
      /\ v.newPeers = w.newPeers /\ v.peers = w.peers
      /\ v.observers = w.observers \cup {c} /\ v.held = w.held
  BY PrepareEffect
<1> HIDE DEF v
<1>2. /\ t.shaken = TRUE /\ t.based = TRUE /\ t.alive = w.conn[c].alive
      /\ t.np = w.conn[c].np /\ t.attached = w.conn[c].attached
      /\ t.owner = w.conn[c].owner /\ t.data = w.conn[c].data
      /\ t.timers = w.conn[c].timers /\ t.to = w.conn[c].to
      /\ t.opening = w.conn[c].opening /\ t.connecting = w.conn[c].connecting
      /\ t.receiving = w.conn[c].receiving /\ t.sends = w.conn[c].sends
  BY <1>0 DEF Connection
<1>3. v.conn[c] = t /\ Elsewhere(w, v, c)
  BY <1>0, <1>1, ConstantsAssumption DEF Elsewhere
<1>4. Sound(v, c)
  BY <1>1, <1>2, <1>3 DEF Sound
<1> DEFINE x == OnHandshake(w, c)
<1>5. Calm(v, x, c)
  <2>1. \E n \in 0 .. 2 : x = SendMessages(v, c, n)
    <3>1. CASE pieces < MaxPieces
      BY <3>1 DEF OnHandshake, v
    <3>2. CASE ~(pieces < MaxPieces)
      BY <3>2 DEF OnHandshake, v
    <3> QED BY <3>1, <3>2
  <2> HIDE DEF x, t
  <2> QED BY ZenonT(60), <1>1, <1>2, <1>3, <1>4, <2>1, SoundListens, SendMessagesCalm
<1> HIDE DEF x, t
<1>6. Result(v, x, c)
  BY <1>1, <1>4, <1>5, CalmResult
<1>7. x.conn[c].shaken /\ x.conn[c].to = w.conn[c].to /\ ~x.conn[c].opening
  <2>0. v \in Worlds
    BY <1>1
  <2>1. /\ x.conn[c].shaken = v.conn[c].shaken /\ x.conn[c].to = v.conn[c].to
        /\ x.conn[c].opening = v.conn[c].opening
    BY <1>5, <2>0, CalmKeeps
  <2> QED BY <1>2, <1>3, <2>1
<1> QED BY <1>3, <1>6, <1>7, ElsewhereTransitive DEF Result, x

\* The same of a connection that its host holds: AttachPeer gives it to the task.
LEMMA AttachPeerEffect ==
  ASSUME NEW w \in Worlds, NEW c \in Conns, Sound(w, c), w.held = {},
         w.conn[c].alive, ~w.conn[c].data
  PROVE  LET x == AttachPeer(w, c)
         IN  /\ Elsewhere(w, x, c) /\ Sound(x, c) /\ x.held = {}
             /\ x.conn[c].alive /\ x.conn[c].owner = "task" /\ x.conn[c].data
             /\ x.conn[c].to = w.conn[c].to /\ x.conn[c].opening = w.conn[c].opening
<1> DEFINE s == w.conn[c]
           t == [s EXCEPT !.owner = "task", !.data = TRUE]
           x == AttachPeer(w, c)
<1>0. w.conn \in [Conns -> Connection] /\ s \in Connection
  BY DEF Worlds
<1>1. /\ t \in Connection /\ t.owner = "task" /\ t.data = TRUE /\ t.alive = s.alive
      /\ t.np = s.np /\ t.attached = s.attached
      /\ t.shaken = s.shaken /\ t.based = s.based /\ t.timers = s.timers /\ t.to = s.to
      /\ t.opening = s.opening /\ t.connecting = s.connecting
      /\ t.receiving = s.receiving /\ t.sends = s.sends
  BY <1>0 DEF Connection
<1>2. x = [w EXCEPT !.peers = w.peers \cup {c}, !.newPeers = w.newPeers \ {c},
                    !.conn = [w.conn EXCEPT ![c] = t]]
  BY DEF AttachPeer, Worlds
<1>3. [w.conn EXCEPT ![c] = t] \in [Conns -> Connection]
  BY <1>0, <1>1
<1> HIDE DEF t, x
<1>4. /\ x \in Worlds /\ x.conn = [w.conn EXCEPT ![c] = t]
      /\ x.peers = w.peers \cup {c} /\ x.newPeers = w.newPeers \ {c}
      /\ x.observers = w.observers /\ x.held = w.held
  BY <1>2, <1>3 DEF Worlds
<1>5. x.conn[c] = t /\ Elsewhere(w, x, c)
  BY <1>0, <1>4 DEF Elsewhere
<1>6. s.owner = "host" /\ ~s.shaken
  BY <1>0 DEF Sound, Connection
<1>7. Sound(x, c)
  BY <1>1, <1>4, <1>5, <1>6 DEF Sound
<1> QED BY <1>1, <1>4, <1>5, <1>7 DEF x

\* ProcessHandshake with the hash of a task.
LEMMA KnownHandshakeResult ==
  ASSUME NEW v \in Worlds, NEW c \in Conns, Sound(v, c), v.held = {},
         v.conn[c].alive, ~v.conn[c].opening
  PROVE  Result(v, KnownHandshake(v, c), c)
<1> DEFINE x == KnownHandshake(v, c)
<1>1. /\ Elsewhere(v, x, c) /\ Sound(x, c)
      /\ x.conn[c].shaken /\ x.conn[c].to = v.conn[c].to /\ ~x.conn[c].opening
  <2>1. CASE v.conn[c].data
    <3>1. v.conn[c].owner = "task" /\ x = OnHandshake(v, c)
      BY <2>1 DEF Sound, KnownHandshake
    <3> QED BY <3>1, OnHandshakeJoins
  <2>2. CASE ~v.conn[c].data
    <3> DEFINE a == AttachPeer(v, c)
               b == SendMessage(a, c, "SendHandshake")
    <3>1. /\ Elsewhere(v, a, c) /\ Sound(a, c) /\ a.held = {}
          /\ a.conn[c].alive /\ a.conn[c].owner = "task"
          /\ a.conn[c].to = v.conn[c].to /\ ~a.conn[c].opening
      BY <2>2, AttachPeerEffect
    <3>2. x = OnHandshake(b, c)
      BY <2>2 DEF KnownHandshake
    <3> HIDE DEF a, x
    <3>3. a \in Worlds
      BY <3>1 DEF Elsewhere
    <3>4. Calm(a, b, c)
      BY <3>1, <3>3, SoundListens, SendMessageCalm
    <3> HIDE DEF b
    <3>5. Result(a, b, c)
      BY <3>1, <3>3, <3>4, CalmResult
    <3>6. /\ b \in Worlds /\ b.held = {} /\ b.conn[c].alive /\ b.conn[c].owner = "task"
          /\ b.conn[c].to = v.conn[c].to /\ ~b.conn[c].opening
      <4>1. /\ b.conn[c].alive = a.conn[c].alive /\ b.conn[c].owner = a.conn[c].owner
            /\ b.conn[c].to = a.conn[c].to /\ b.conn[c].opening = a.conn[c].opening
        BY <3>3, <3>4, CalmKeeps
      <4> QED BY <3>1, <3>4, <4>1 DEF Calm
    <3>7. /\ Elsewhere(b, x, c) /\ Sound(x, c)
          /\ x.conn[c].shaken /\ x.conn[c].to = v.conn[c].to /\ ~x.conn[c].opening
      BY <3>2, <3>5, <3>6, OnHandshakeJoins DEF Result
    <3>8. Elsewhere(v, b, c)
      BY <3>1, <3>5, ElsewhereTransitive DEF Result
    <3> QED BY <3>7, <3>8, ElsewhereTransitive
  <2> QED BY <2>1, <2>2
<1> HIDE DEF x
<1>2. Kept(v, x, c)
  BY <1>1 DEF Kept
<1> QED BY <1>1, <1>2 DEF Result, x

\* ProcessProtocol on any message, of a connection whose connect has ended.
LEMMA ProcessProtocolResult ==
  ASSUME NEW v \in Worlds, NEW c \in Conns, Sound(v, c), v.held = {},
         ~v.conn[c].opening, NEW m \in Messages
  PROVE  Result(v, ProcessProtocol(v, c, m), c)
<1> DEFINE s == v.conn[c]
<1>0. s \in Connection /\ Listening(v, c)
  BY SoundListens DEF Worlds
<1>1. Result(v, v, c)
  <2>1. Calm(v, v, c)
    BY CalmReflexive
  <2> QED BY <2>1, CalmResult
<1>2. CASE ~s.attached
  <2>1. ProcessProtocol(v, c, m) = v
    BY <1>2 DEF ProcessProtocol
  <2> QED BY <1>1, <2>1
<1>3. CASE s.attached
  <2>0. s.alive
    BY <1>3 DEF Sound
  <2>1. CASE m = "handshake"
    <3>1. ProcessProtocol(v, c, m) = KnownHandshake(v, c)
      BY <1>3, <2>1 DEF ProcessProtocol
    <3> QED BY <2>0, <3>1, KnownHandshakeResult
  <2>2. CASE m = "unknown"
    <3> DEFINE x == DropConnection(v, c)
    <3>1. ProcessProtocol(v, c, m) = Need(x, x.conn[c].alive, "ProcessProtocol")
      BY <1>3, <2>2 DEF ProcessProtocol, UnknownHandshake, Continue
    <3>2. Result(v, x, c)
      BY DropResult
    <3> HIDE DEF x
    <3>3. x.conn[c].alive \in BOOLEAN
      BY <3>2 DEF Result, Elsewhere, Worlds, Connection
    <3> QED BY <3>1, <3>2, <3>3, NeedResult DEF Known
  <2>3. CASE m = "refused"
    <3>1. ProcessProtocol(v, c, m) = DropConnection(v, c)
      BY <1>3, <2>3 DEF ProcessProtocol
    <3> QED BY <3>1, DropResult
  <2>4. CASE m = "answered"
    <3>1. ProcessProtocol(v, c, m) = SendOne(v, c)
      BY <1>3, <2>4 DEF ProcessProtocol
    <3>2. Calm(v, SendOne(v, c), c)
      BY <1>0, <2>0, SendMessagesCalm
    <3> QED BY <3>1, <3>2, CalmResult
  <2>5. CASE m = "request"
    <3>1. ProcessProtocol(v, c, m) = Need(v, s.based, "PendingUploadRequest")
      BY <1>3, <2>5 DEF ProcessProtocol
    <3>2. s.based \in BOOLEAN
      BY <1>0 DEF Connection
    <3> QED BY <1>1, <3>1, <3>2, NeedResult DEF Known
  <2>6. CASE m = "piece"
    <3> DEFINE x == Need(v, s.data, "ProcessPiece")
    <3>1. ProcessProtocol(v, c, m) = IF s.shaken THEN SendOne(x, c) ELSE x
      BY <1>3, <2>6 DEF ProcessProtocol
    <3>2. s.data \in BOOLEAN
      BY <1>0 DEF Connection
    <3>3. Result(v, x, c) /\ x.conn = v.conn /\ x.held = v.held
      BY <1>1, <3>2, NeedResult DEF Known
    <3> HIDE DEF x
    <3>4. x \in Worlds /\ Sound(x, c) /\ x.held = {} /\ x.conn[c].alive
      BY <2>0, <3>3 DEF Result, Elsewhere
    <3>5. Result(x, SendOne(x, c), c)
      BY <3>4, SoundListens, SendMessagesCalm, CalmResult
    <3> QED BY <3>1, <3>3, <3>5, ResultTransitive
  <2> QED BY <2>1, <2>2, <2>3, <2>4, <2>5, <2>6 DEF Messages
<1> QED BY <1>2, <1>3

\* One message of a receive.
LEMMA StreamDataArriveResult ==
  ASSUME TypeOK, NEW c \in Conns, Sound(World, c), ~conn[c].opening, StreamDataArrive(c)
  PROVE  \E x : Result(World, x, c) /\ SetWorld(x)
<1>1. PICK luck \in Luck, m \in Messages : SetWorld(ProcessProtocol(Lucky(luck), c, m))
  BY DEF StreamDataArrive
<1> DEFINE v == Lucky(luck)
<1>2. luck \in Nat
  BY DEF Luck
<1>3. v \in Worlds /\ v.conn[c] = conn[c] /\ v.held = {} /\ Sound(v, c)
  BY <1>2, StateWorld, LuckySound
<1>4. \A x : Result(v, x, c) => Result(World, x, c)
  BY <1>2, LuckySound
<1>5. Result(v, ProcessProtocol(v, c, m), c)
  <2> HIDE DEF v
  <2> QED BY <1>3, ProcessProtocolResult
<1> HIDE DEF v
<1> QED BY <1>1, <1>4, <1>5 DEF v

-----------------------------------------------------------------------------
(* New connections.                                                        *)

\* c, of which there was nothing, is sound, and a connection it is only for i.
Begun(w, x, c, i) ==
  /\ Elsewhere(w, x, c) /\ Sound(x, c)
  /\ x.conn[c].alive => x.conn[c].to = i /\ ~x.conn[c].shaken
  /\ Outstanding(x.conn[c]) => x.conn[c].alive

\* Release of a connection whose owner still holds it.
LEMMA ReleaseOwned ==
  ASSUME NEW w, NEW c, c \in w.newPeers \cup w.peers
  PROVE  Release(w, c) = w
BY DEF Release

\* A connection that somebody holds while it is dropped is destroyed as soon as he
\* lets go of it, and the world is what it would be without him.
LEMMA HeldDrop ==
  ASSUME NEW w \in Worlds, NEW c \in Conns, w.held = {c}, OwnerHolds(w, c)
  PROVE  LET x == Release([DropConnection(w, c) EXCEPT !.held = {}], c)
         IN  x \in Worlds /\ Dropped([w EXCEPT !.held = {}], x, c)
<1> DEFINE v == [w EXCEPT !.held = {}]
           a == ClearNetProcessor(w, c)
           b == NotifyConnectionDrop(a, c)
<1>1. v \in Worlds /\ c \notin v.held /\ OwnerHolds(v, c)
  <2>1. /\ v \in Worlds /\ v.held = {} /\ v.conn = w.conn /\ v.newPeers = w.newPeers
        /\ v.peers = w.peers /\ v.observers = w.observers
    BY DEF Worlds
  <2> QED BY <2>1 DEF OwnerHolds
<1>2. ClearNetProcessor(v, c) = [a EXCEPT !.held = {}]
  BY DEF ClearNetProcessor, Worlds
<1>3. /\ DOMAIN a = DOMAIN w /\ a.held = w.held /\ a.newPeers = w.newPeers /\ a.peers = w.peers
      /\ a.observers = w.observers /\ a.luck = w.luck /\ a.absentUse = w.absentUse
      /\ a = [conn |-> a.conn, newPeers |-> a.newPeers, peers |-> a.peers,
              observers |-> a.observers, absentUse |-> a.absentUse, luck |-> a.luck,
              held |-> a.held]
  BY DEF ClearNetProcessor, Worlds
<1> HIDE DEF a, v
<1>4. NotifyConnectionDrop([a EXCEPT !.held = {}], c) = [b EXCEPT !.held = {}] /\ b.held = {c}
  BY <1>3 DEF NotifyConnectionDrop, RemoveDownloadingInfoObserver
<1>5. DropConnection(w, c) = b
  <2> HIDE DEF b
  <2>1. DropConnection(w, c) = Release(b, c)
    BY DEF DropConnection, a, b
  <2> QED BY <1>4, <2>1 DEF Release
<1> HIDE DEF b
<1>6. Release([DropConnection(w, c) EXCEPT !.held = {}], c) = DropConnection(v, c)
  BY <1>2, <1>4, <1>5 DEF DropConnection
<1> QED BY <1>1, <1>6, DropConnectionEffect DEF v

\* AcceptHandler: the connection is hosted, or its receive was refused and it is
\* gone as soon as AcceptHandler lets go of it.
LEMMA AcceptHandlerResult ==
  ASSUME TypeOK, NEW c \in Conns, Sound(World, c), AcceptHandler(c)
  PROVE  \E x : Begun(World, x, c, NoInfo) /\ SetWorld(x)
              /\ (x.conn[c].alive => x.conn[c].owner = "host")
<1>1. PICK luck \in Luck :
        LET w == [Lucky(luck) EXCEPT !.conn[c] = Accepted,
                                     !.newPeers = @ \cup {c}, !.held = {c}]
        IN  SetWorld(Release([Receive(w, c) EXCEPT !.held = {}], c))
  BY DEF AcceptHandler
<1> DEFINE v == Lucky(luck)
           w == [v EXCEPT !.conn[c] = Accepted, !.newPeers = @ \cup {c}, !.held = {c}]
           y == [Receive(w, c) EXCEPT !.held = {}]
           x == Release(y, c)
<1>2. luck \in Nat
  BY DEF Luck
<1>3. v \in Worlds /\ v.conn[c] = Gone /\ v.held = {} /\ Sound(v, c) /\ v.conn = conn
  BY <1>2, StateWorld, LuckySound DEF AcceptHandler
<1>4. /\ Accepted \in Connection /\ Accepted.alive = TRUE /\ Accepted.np = TRUE
      /\ Accepted.attached = TRUE /\ Accepted.connecting = TRUE /\ Accepted.timers = TRUE
      /\ Accepted.owner = "host" /\ Accepted.data = FALSE /\ Accepted.shaken = FALSE
      /\ Accepted.opening = FALSE /\ Accepted.receiving = FALSE /\ Accepted.sends = 0
      /\ Accepted.to = NoInfo
  BY DEF Accepted, Gone, Connection
<1>5. c \notin v.newPeers /\ c \notin v.peers /\ c \notin v.observers
  BY <1>3 DEF Sound, Gone
<1>6. /\ w \in Worlds /\ w.conn = [v.conn EXCEPT ![c] = Accepted]
      /\ w.newPeers = v.newPeers \cup {c} /\ w.peers = v.peers
      /\ w.observers = v.observers /\ w.held = {c} /\ w.absentUse = v.absentUse
      /\ w.luck = v.luck
  <2> HIDE DEF v
  <2> USE <1>3, <1>4
  <2>1. [v.conn EXCEPT ![c] = Accepted] \in [Conns -> Connection]
    BY DEF Worlds
  <2>2. w = [v EXCEPT !.conn = [v.conn EXCEPT ![c] = Accepted],
                      !.newPeers = v.newPeers \cup {c}, !.held = {c}]
    BY DEF Worlds
  <2> HIDE DEF w
  <2> QED BY <2>1, <2>2 DEF Worlds
<1>7. w.conn[c] = Accepted /\ Elsewhere(v, w, c)
  <2> HIDE DEF v, w
  <2> QED BY <1>3, <1>6 DEF Worlds, Elsewhere
<1> HIDE DEF v, w
<1>8. CASE w.luck # 0
  <2> DEFINE r == Receiving(Accepted)
  <2>1. Changed(w, Receive(w, c), c, r)
    BY <1>4, <1>6, <1>7, <1>8, ReceiveAccepted
  <2>2. /\ r \in Connection /\ r.alive = TRUE /\ r.np = TRUE
        /\ r.attached = TRUE /\ r.connecting = TRUE /\ r.timers = TRUE
        /\ r.owner = "host" /\ r.data = FALSE /\ r.shaken = FALSE
        /\ r.opening = FALSE /\ r.receiving = TRUE /\ r.to = NoInfo
    BY <1>4 DEF Receiving, Connection
  <2> HIDE DEF r
  <2> DEFINE z == Receive(w, c)
  <2>0. w \in Worlds /\ Changed(w, z, c, r)
    BY <1>6, <2>1
  <2> HIDE DEF z
  <2>3. /\ z \in Worlds /\ Elsewhere(w, z, c) /\ z.conn[c] = r
        /\ z.newPeers = w.newPeers /\ z.peers = w.peers /\ z.observers = w.observers
    BY <2>0, ChangedElsewhere DEF Changed
  <2>4. /\ y \in Worlds /\ y.conn = z.conn /\ y.newPeers = z.newPeers /\ y.peers = z.peers
        /\ y.observers = z.observers
    BY <2>3 DEF Worlds, z
  <2> HIDE DEF y
  <2>5. x = y
    <3>1. c \in y.newPeers \cup y.peers
      BY <1>6, <2>3, <2>4
    <3> QED BY <3>1, ReleaseOwned
  <2> HIDE DEF x
  <2>6. Elsewhere(v, y, c) /\ y.conn[c] = r
    BY <1>7, <2>3, <2>4 DEF Elsewhere
  <2>7. Sound(y, c)
    BY ZenonT(60), <1>5, <1>6, <2>2, <2>3, <2>4, <2>6 DEF Sound
  <2>8. Begun(v, y, c, NoInfo) /\ (y.conn[c].alive => y.conn[c].owner = "host")
    BY <2>2, <2>6, <2>7 DEF Begun
  <2>9. Begun(World, y, c, NoInfo)
    BY <1>2, <2>8, StateWorld DEF Begun, Elsewhere, v
  <2> QED BY <1>1, <2>5, <2>8, <2>9 DEF v, w, x, y

<1>9. CASE w.luck = 0
  <2> DEFINE t == Stopped(Accepted)
             w1 == [w EXCEPT !.conn[c] = t]
             u == [w1 EXCEPT !.held = {}]
  <2>1. /\ t \in Connection /\ t.owner = "host" /\ t.sends = 0 /\ ~t.receiving
        /\ t.attached /\ ~t.opening
    BY <1>4 DEF Stopped, Connection
  <2>2. t = [w.conn[c] EXCEPT !.connecting = FALSE]
    BY <1>7 DEF Stopped
  <2> HIDE DEF t
  <2>3. Changed(w, w1, c, t)
    BY <1>6, <2>1, ChangeOne
  <2>4. w1.conn[c] = t /\ w1 \in Worlds /\ w1.held = {c} /\ OwnerHolds(w1, c)
    <3>1. /\ w1.conn[c] = t /\ w1 \in Worlds /\ w1.held = {c} /\ w1.peers = w.peers
          /\ w1.observers = w.observers
      <4> HIDE DEF w1
      <4> QED BY <1>6, <2>3, ChangedElsewhere DEF Changed
    <3> HIDE DEF w1
    <3> QED BY <1>5, <1>6, <2>1, <3>1 DEF OwnerHolds
  <2>5. Receive(w, c) = DropConnection(w1, c)
    <3>1. Receive(w, c) = Close(w, c)
      BY <1>4, <1>7, <1>9 DEF Receive
    <3>2. w1 = [w EXCEPT !.conn[c].connecting = FALSE]
      BY <1>6, <2>2 DEF Worlds
    <3> HIDE DEF w1
    <3> QED BY <2>1, <2>4, <3>1, <3>2 DEF Close
  <2>6. u \in Worlds /\ u.conn = w1.conn /\ u.newPeers = w1.newPeers /\ u.peers = w1.peers
        /\ u.observers = w1.observers
    <3> HIDE DEF w1
    <3> QED BY <2>4 DEF Worlds
  <2>7. x \in Worlds /\ Dropped(u, x, c)
    <3> HIDE DEF w1
    <3> QED BY <2>4, <2>5, HeldDrop
  <2> HIDE DEF x, u
  <2>8. /\ Elsewhere(u, x, c) /\ Sound(x, c) /\ ~x.conn[c].alive
        /\ (Outstanding(x.conn[c]) => Outstanding(t))
    <3>1. u.conn[c] = t /\ ~u.conn[c].opening
      BY <2>1, <2>4, <2>6
    <3>2. Elsewhere(u, x, c)
      BY <2>6, <2>7, DroppedElsewhere
    <3>3. /\ Sound(x, c) /\ ~x.conn[c].alive
          /\ (Outstanding(x.conn[c]) => Outstanding(u.conn[c]))
      BY <2>6, <2>7, <3>1, DroppedSound
    <3> QED BY <3>1, <3>2, <3>3
  <2>9. Elsewhere(w, u, c)
    <3>1. Elsewhere(w, w1, c)
      BY <1>6, <2>3, ChangedElsewhere
    <3> HIDE DEF w1
    <3> QED BY <2>6, <3>1 DEF Elsewhere
  <2>10. Elsewhere(v, x, c)
    BY <1>7, <2>8, <2>9, ElsewhereTransitive
  <2>11. Begun(v, x, c, NoInfo)
    <3>1. ~Outstanding(t)
      BY <1>4, <2>1 DEF Outstanding
    <3> QED BY <2>8, <2>10, <3>1 DEF Begun
  <2>12. Begun(World, x, c, NoInfo)
    BY <1>2, <2>11, StateWorld DEF Begun, Elsewhere, v
  <2> QED BY <1>1, <2>8, <2>12 DEF v, w, x
<1> QED BY <1>8, <1>9

\* One turn of CreateTaskPeer: the connection is its task's and its connect is under
\* way, or it is gone again.
LEMMA CreateTaskPeerResult ==
  ASSUME TypeOK, NEW c \in Conns, NEW i \in Infos, Sound(World, c), CreateTaskPeer(c, i)
  PROVE  \E x : Begun(World, x, c, i) /\ SetWorld(x)
              /\ (x.conn[c].alive => x.conn[c].owner = "task")
<1>1. PICK ok \in BOOLEAN : SetWorld(CreatePeer(World, c, i, ok))
  BY DEF CreateTaskPeer
<1> DEFINE v == World
           n == Created(i)
           w == [v EXCEPT !.conn[c] = n, !.peers = @ \cup {c}, !.held = {c}]
           y == [Connect(w, c, ok) EXCEPT !.held = {}]
           x == Release(y, c)
<1>2. SetWorld(x)
  BY <1>1 DEF CreatePeer
<1>3. v \in Worlds /\ v.conn[c] = Gone /\ v.held = {} /\ Sound(v, c) /\ v.conn = conn
  BY StateWorld DEF CreateTaskPeer
<1>4. /\ n \in Connection /\ n.alive = TRUE /\ n.np = TRUE
      /\ n.attached = TRUE /\ n.connecting = FALSE /\ n.timers = FALSE
      /\ n.owner = "task" /\ n.data = TRUE /\ n.shaken = FALSE
      /\ n.opening = FALSE /\ n.receiving = FALSE /\ n.sends = 0 /\ n.to = i
  BY DEF Created, Gone, Connection
<1>5. c \notin v.newPeers /\ c \notin v.peers /\ c \notin v.observers
  BY <1>3 DEF Sound, Gone
<1>6. /\ w \in Worlds /\ w.conn = [v.conn EXCEPT ![c] = n]
      /\ w.peers = v.peers \cup {c} /\ w.newPeers = v.newPeers
      /\ w.observers = v.observers /\ w.held = {c} /\ w.absentUse = v.absentUse
  <2> HIDE DEF v, n
  <2> USE <1>3, <1>4
  <2>1. [v.conn EXCEPT ![c] = n] \in [Conns -> Connection]
    BY DEF Worlds
  <2>2. w = [v EXCEPT !.conn = [v.conn EXCEPT ![c] = n],
                      !.peers = v.peers \cup {c}, !.held = {c}]
    BY DEF Worlds
  <2> HIDE DEF w
  <2> QED BY <2>1, <2>2 DEF Worlds
<1>7. w.conn[c] = n /\ Elsewhere(v, w, c)
  <2> HIDE DEF v, w, n
  <2> QED BY <1>3, <1>6 DEF Worlds, Elsewhere
<1> HIDE DEF v, w, n
<1>8. CASE ok
  <2> DEFINE r == [n EXCEPT !.opening = TRUE]
             z == [w EXCEPT !.conn[c] = r]
  <2>1. /\ r \in Connection /\ r.alive = TRUE /\ r.np = TRUE
        /\ r.attached = TRUE /\ r.connecting = FALSE /\ r.timers = FALSE
        /\ r.owner = "task" /\ r.data = TRUE /\ r.shaken = FALSE
        /\ r.opening = TRUE /\ r.receiving = FALSE /\ r.sends = 0 /\ r.to = i
    BY <1>4 DEF Connection
  <2>2. Connect(w, c, ok) = z
    BY <1>6, <1>7, <1>8 DEF Connect, Worlds
  <2> HIDE DEF r
  <2>3. Changed(w, z, c, r)
    BY <1>6, <2>1, ChangeOne
  <2> HIDE DEF z
  <2>4. /\ z \in Worlds /\ Elsewhere(w, z, c) /\ z.conn[c] = r
        /\ z.newPeers = w.newPeers /\ z.peers = w.peers /\ z.observers = w.observers
    <3>1. w \in Worlds
      BY <1>6
    <3> QED BY <2>3, <3>1, ChangedElsewhere DEF Changed
  <2>5. /\ y \in Worlds /\ y.conn = z.conn /\ y.newPeers = z.newPeers /\ y.peers = z.peers
        /\ y.observers = z.observers
    <3>1. y = [z EXCEPT !.held = {}]
      BY <2>2
    <3> HIDE DEF y
    <3> QED BY <2>4, <3>1 DEF Worlds
  <2> HIDE DEF y
  <2>6. x = y
    <3>1. c \in y.newPeers \cup y.peers
      BY <1>6, <2>4, <2>5
    <3> QED BY <3>1, ReleaseOwned
  <2> HIDE DEF x
  <2>7. Elsewhere(v, y, c) /\ y.conn[c] = r
    BY <1>7, <2>4, <2>5 DEF Elsewhere
  <2>8. Sound(y, c)
    BY ZenonT(60), <1>5, <1>6, <2>1, <2>4, <2>5, <2>7 DEF Sound
  <2>9. Begun(v, y, c, i) /\ (y.conn[c].alive => y.conn[c].owner = "task")
    BY <2>1, <2>7, <2>8 DEF Begun
  <2> QED BY <1>2, <2>6, <2>9 DEF v
<1>9. CASE ~ok
  <2> DEFINE t == Stopped(n)
             w1 == [w EXCEPT !.conn[c] = t]
             u == [w1 EXCEPT !.held = {}]
  <2>1. /\ t \in Connection /\ t.owner = "task" /\ t.sends = 0 /\ ~t.receiving
        /\ t.attached /\ ~t.opening
    BY <1>4 DEF Stopped, Connection
  <2>2. t = [w.conn[c] EXCEPT !.connecting = FALSE]
    BY <1>7 DEF Stopped
  <2> HIDE DEF t
  <2>3. Changed(w, w1, c, t)
    BY <1>6, <2>1, ChangeOne
  <2>4. w1.conn[c] = t /\ w1 \in Worlds /\ w1.held = {c} /\ OwnerHolds(w1, c)
    <3>1. /\ w1.conn[c] = t /\ w1 \in Worlds /\ w1.held = {c} /\ w1.newPeers = w.newPeers
          /\ w1.observers = w.observers
      <4> HIDE DEF w1
      <4> QED BY <1>6, <2>3, ChangedElsewhere DEF Changed
    <3> HIDE DEF w1
    <3> QED BY <1>5, <1>6, <2>1, <3>1 DEF OwnerHolds
  <2>5. Connect(w, c, ok) = DropConnection(w1, c)
    <3>1. Connect(w, c, ok) = Close(w, c)
      BY <1>9 DEF Connect
    <3>2. w1 = [w EXCEPT !.conn[c].connecting = FALSE]
      BY <1>6, <2>2 DEF Worlds
    <3> HIDE DEF w1
    <3> QED BY <2>1, <2>4, <3>1, <3>2 DEF Close
  <2>6. u \in Worlds /\ u.conn = w1.conn /\ u.newPeers = w1.newPeers /\ u.peers = w1.peers
        /\ u.observers = w1.observers
    <3> HIDE DEF w1
    <3> QED BY <2>4 DEF Worlds
  <2>7. x \in Worlds /\ Dropped(u, x, c)
    <3> HIDE DEF w1
    <3> QED BY <2>4, <2>5, HeldDrop
  <2> HIDE DEF x, u
  <2>8. /\ Elsewhere(u, x, c) /\ Sound(x, c) /\ ~x.conn[c].alive
        /\ (Outstanding(x.conn[c]) => Outstanding(t))
    <3>1. u.conn[c] = t /\ ~u.conn[c].opening
      BY <2>1, <2>4, <2>6
    <3>2. Elsewhere(u, x, c)
      BY <2>6, <2>7, DroppedElsewhere
    <3>3. /\ Sound(x, c) /\ ~x.conn[c].alive
          /\ (Outstanding(x.conn[c]) => Outstanding(u.conn[c]))
      BY <2>6, <2>7, <3>1, DroppedSound
    <3> QED BY <3>1, <3>2, <3>3
  <2>9. Elsewhere(w, u, c)
    <3>1. Elsewhere(w, w1, c)
      BY <1>6, <2>3, ChangedElsewhere
    <3> HIDE DEF w1
    <3> QED BY <2>6, <3>1 DEF Elsewhere
  <2>10. Elsewhere(v, x, c)
    BY <1>7, <2>8, <2>9, ElsewhereTransitive
  <2>11. ~Outstanding(t)
    BY <1>4, <2>1 DEF Outstanding
  <2>12. Begun(v, x, c, i)
    BY <2>8, <2>10, <2>11 DEF Begun
  <2> QED BY <1>2, <2>8, <2>12 DEF v
<1> QED BY <1>8, <1>9

-----------------------------------------------------------------------------
(* From the world a handler leaves to the next state.                      *)

\* Room only forgets a destroyed connection that nothing refers to.
LEMMA RoomKeeps ==
  ASSUME NEW s \in Connection
  PROVE  /\ Room(s) \in Connection
         /\ Room(s).alive = s.alive
         /\ Outstanding(Room(s)) <=> Outstanding(s)
         /\ \/ Room(s) = s
            \/ Room(s) = Gone /\ ~s.alive /\ ~Outstanding(s)
<1>1. /\ Gone \in Connection /\ Gone.alive = FALSE /\ Gone.opening = FALSE
      /\ Gone.receiving = FALSE /\ Gone.sends = 0
  BY DEF Gone, Connection
<1>2. s.alive \in BOOLEAN
  BY DEF Connection
<1>3. CASE ~s.alive /\ ~Outstanding(s)
  <2>1. Room(s) = Gone /\ s.alive = FALSE
    BY <1>2, <1>3 DEF Room
  <2>2. ~Outstanding(Gone)
    BY <1>1 DEF Outstanding
  <2> QED BY <1>1, <1>3, <2>1, <2>2
<1>4. CASE s.alive \/ Outstanding(s)
  <2>1. Room(s) = s
    BY <1>2, <1>4 DEF Room
  <2> QED BY <2>1
<1> QED BY <1>3, <1>4

\* After a step on connection c every connection is sound, and the others are what
\* they were.
LEMMA WorldStep ==
  ASSUME TypeOK, \A d \in Conns : Sound(World, d), NEW c \in Conns,
         NEW x, Elsewhere(World, x, c), Sound(x, c), SetWorld(x)
  PROVE  /\ conn' \in [Conns -> Connection]
         /\ newPeers' \in SUBSET Conns /\ peers' \in SUBSET Conns
         /\ observers' \in SUBSET (Conns \cup {Updater})
         /\ absentUse' \subseteq Known
         /\ (\A d \in Conns : Sound(World, d))'
         /\ conn'[c] = Room(x.conn[c])
         /\ \A d \in Conns \ {c} : conn'[d] = Room(conn[d])
<1>1. x \in Worlds /\ x.conn \in [Conns -> Connection]
  BY DEF Elsewhere, Worlds
<1>2. /\ conn' = [d \in Conns |-> Room(x.conn[d])]
      /\ newPeers' = x.newPeers /\ peers' = x.peers /\ observers' = x.observers
      /\ absentUse' = x.absentUse
  BY DEF SetWorld
<1>3. conn' \in [Conns -> Connection]
  BY <1>1, <1>2, RoomKeeps
<1>4. \A d \in Conns \ {c} : x.conn[d] = conn[d]
  BY DEF Elsewhere, World
<1>5. ASSUME NEW d \in Conns PROVE Sound(World, d)'
  <2>1. Sound(x, d)
    <3>1. CASE d = c
      BY <3>1
    <3>2. CASE d # c
      <4>1. /\ x.conn[d] = World.conn[d]
            /\ d \in x.newPeers <=> d \in World.newPeers
            /\ d \in x.peers <=> d \in World.peers
            /\ d \in x.observers <=> d \in World.observers
        BY <3>2 DEF Elsewhere
      <4>2. Sound(World, d)
        OBVIOUS
      <4> QED BY <4>1, <4>2 DEF Sound
    <3> QED BY <3>1, <3>2
  <2>2. World' = [conn |-> conn', newPeers |-> newPeers', peers |-> peers',
                  observers |-> observers', absentUse |-> {}, luck |-> 0, held |-> {}]
    BY DEF World
  <2> DEFINE s == x.conn[d]
             r == conn'[d]
  <2>3. /\ s \in Connection /\ r = Room(s)
        /\ (World').conn[d] = r /\ (World').newPeers = x.newPeers
        /\ (World').peers = x.peers /\ (World').observers = x.observers
    BY <1>1, <1>2, <2>2
  <2> DEFINE W == World'
  <2> HIDE DEF s, r, W
  <2>4. /\ W.conn[d] = r /\ W.newPeers = x.newPeers
        /\ W.peers = x.peers /\ W.observers = x.observers
    BY <2>3 DEF W
  <2>5. CASE r = s
    BY <2>1, <2>4, <2>5 DEF Sound, s, W
  <2>6. CASE r = Gone /\ ~s.alive
    <3>1. /\ Gone.alive = FALSE /\ Gone.opening = FALSE /\ Gone.np = FALSE
          /\ Gone.attached = FALSE /\ Gone.connecting = FALSE /\ Gone.timers = FALSE
      BY DEF Gone
    <3>2. d \notin x.newPeers /\ d \notin x.peers /\ d \notin x.observers
      BY <2>1, <2>6 DEF Sound, s
    <3> QED BY <2>4, <2>6, <3>1, <3>2 DEF Sound, W
  <2> QED BY <2>3, <2>5, <2>6, RoomKeeps
<1>6. conn'[c] = Room(x.conn[c]) /\ \A d \in Conns \ {c} : conn'[d] = Room(conn[d])
  BY <1>2, <1>4
<1>7. /\ newPeers' \in SUBSET Conns /\ peers' \in SUBSET Conns
      /\ observers' \in SUBSET (Conns \cup {Updater}) /\ absentUse' \subseteq Known
  BY <1>1, <1>2 DEF Worlds
<1> QED BY <1>3, <1>5, <1>6, <1>7

\* The part of the invariant that is about the world.
WorldInv ==
  /\ conn \in [Conns -> Connection]
  /\ newPeers \in SUBSET Conns /\ peers \in SUBSET Conns
  /\ observers \in SUBSET (Conns \cup {Updater})
  /\ \A c \in Conns : Sound(World, c)
  /\ absentUse \subseteq Known

\* The connections keep what they are for, or end.
KeepTo == \A d \in Conns : conn'[d].alive => conn[d].alive /\ conn'[d].to = conn[d].to
KeepOpening == \A d \in Conns : conn'[d].opening => conn[d].opening

\* A handler of a connection that there is.
LEMMA ResultStep ==
  ASSUME Inv, NEW c \in Conns, NEW x, Result(World, x, c), SetWorld(x)
  PROVE  WorldInv' /\ KeepTo /\ KeepOpening
<1>0. TypeOK /\ \A d \in Conns : Sound(World, d)
  BY DEF Inv
<1>1. Elsewhere(World, x, c) /\ Sound(x, c) /\ Kept(World, x, c)
  BY DEF Result
<1>2. /\ WorldInv' /\ conn'[c] = Room(x.conn[c])
      /\ \A d \in Conns \ {c} : conn'[d] = Room(conn[d])
  BY <1>0, <1>1, WorldStep DEF WorldInv
<1>3. /\ Gone.alive = FALSE /\ Gone.opening = FALSE
      /\ World.conn = conn /\ x.conn[c] \in Connection /\ conn \in [Conns -> Connection]
  BY <1>0, <1>1 DEF Gone, World, Elsewhere, Worlds, TypeOK
<1>4. ASSUME NEW d \in Conns
      PROVE  /\ conn'[d].alive => conn[d].alive /\ conn'[d].to = conn[d].to
             /\ conn'[d].opening => conn[d].opening
  <2>1. CASE d = c
    <3>1. \/ conn'[d] = x.conn[c]
          \/ conn'[d] = Gone
      BY <1>2, <1>3, <2>1, RoomKeeps
    <3> QED BY <1>1, <1>3, <2>1, <3>1 DEF Kept
  <2>2. CASE d # c
    <3>1. \/ conn'[d] = conn[d]
          \/ conn'[d] = Gone
      <4>1. conn'[d] = Room(conn[d]) /\ conn[d] \in Connection
        BY <1>2, <1>3, <2>2
      <4> QED BY <4>1, RoomKeeps
    <3> QED BY <1>3, <3>1
  <2> QED BY <2>1, <2>2
<1> QED BY <1>2, <1>4 DEF KeepTo, KeepOpening

\* A step that makes a new connection.
LEMMA BegunStep ==
  ASSUME Inv, NEW c \in Conns, NEW i, NEW x, Begun(World, x, c, i), SetWorld(x)
  PROVE  /\ WorldInv'
         /\ conn'[c].alive => conn'[c].to = i
         /\ \A d \in Conns \ {c} : /\ conn'[d].alive => conn[d].alive /\ conn'[d].to = conn[d].to
                                   /\ conn'[d].opening => conn[d].opening
<1>0. TypeOK /\ \A d \in Conns : Sound(World, d)
  BY DEF Inv
<1>1. Elsewhere(World, x, c) /\ Sound(x, c) /\ (x.conn[c].alive => x.conn[c].to = i)
  BY DEF Begun
<1>2. /\ WorldInv' /\ conn'[c] = Room(x.conn[c])
      /\ \A d \in Conns \ {c} : conn'[d] = Room(conn[d])
  BY <1>0, <1>1, WorldStep DEF WorldInv
<1>3. /\ Gone.alive = FALSE /\ Gone.opening = FALSE
      /\ x.conn[c] \in Connection /\ conn \in [Conns -> Connection]
  BY <1>0, <1>1 DEF Gone, Elsewhere, Worlds, TypeOK
<1>4. conn'[c].alive => conn'[c].to = i
  <2>1. \/ conn'[c] = x.conn[c]
        \/ conn'[c] = Gone
    BY <1>2, <1>3, RoomKeeps
  <2> QED BY <1>1, <1>3, <2>1
<1>5. ASSUME NEW d \in Conns \ {c}
      PROVE  /\ conn'[d].alive => conn[d].alive /\ conn'[d].to = conn[d].to
             /\ conn'[d].opening => conn[d].opening
  <2>1. conn'[d] = Room(conn[d]) /\ conn[d] \in Connection
    BY <1>2, <1>3
  <2>2. \/ conn'[d] = conn[d]
        \/ conn'[d] = Gone
    BY <2>1, RoomKeeps
  <2> QED BY <1>3, <2>2
<1> QED BY <1>2, <1>4, <1>5

\* A step that leaves the world alone.
LEMMA SameWorld ==
  ASSUME Inv, UNCHANGED <<conn, newPeers, peers, observers>>, absentUse' = {}
  PROVE  WorldInv' /\ KeepTo /\ KeepOpening
<1>1. World' = World
  BY DEF World
<1>2. (\A d \in Conns : Sound(World, d))'
  BY <1>1 DEF Inv, Sound
<1> QED BY <1>2 DEF Inv, TypeOK, WorldInv, KeepTo, KeepOpening

\* Connections made for listen info are for what is in use, each for another.
LEMMA ListenKept ==
  ASSUME ListenOnce, KeepTo, used \subseteq used', unused' \cap used' = {}
  PROVE  ListenOnce'
BY DEF ListenOnce, KeepTo

\* Between two handlers nothing is under way that a step could disturb.
LEMMA QuietWalks ==
  ASSUME Quiet, KeepOpening, UNCHANGED <<notice, loopVars>>,
         \A d \in Conns : inbox'[d] > 0 => inbox[d] > 0 \/ ~conn[d].opening
  PROVE  Walks'
<1>1. \A d \in Conns : ~(inbox[d] > 0)
  BY DEF Quiet
<1> QED BY <1>1 DEF Quiet, KeepOpening, Walks, loopVars

\* The steps of one connection between two handlers, of which only the messages of
\* a receive have to be looked at.
LEMMA HandlerStep ==
  ASSUME Inv, Quiet, NEW c \in Conns, NEW x, Result(World, x, c), SetWorld(x),
         UNCHANGED <<notice, loopVars, listVars>>,
         inbox' \in [Conns -> Nat],
         \A d \in Conns : inbox'[d] > 0 => inbox[d] > 0 \/ ~conn[d].opening
  PROVE  Inv'
<1>1. WorldInv' /\ KeepTo /\ KeepOpening
  BY ResultStep
<1>2. ListenOnce'
  BY <1>1, ListenKept DEF Inv, listVars, ListenOnce
<1>3. Walks'
  BY <1>1, QuietWalks
<1>4. TypeOK'
  BY <1>1 DEF Inv, TypeOK, WorldInv, loopVars, listVars
<1> QED BY <1>1, <1>2, <1>3, <1>4 DEF Inv, WorldInv, listVars

\* The invariant holds at first.
LEMMA InitInv == Init => Inv
<1> SUFFICES ASSUME Init PROVE Inv
  OBVIOUS
<1>1. Gone \in Connection /\ Gone.alive = FALSE /\ Gone.np = FALSE /\ Gone.attached = FALSE
      /\ Gone.connecting = FALSE /\ Gone.timers = FALSE /\ Gone.opening = FALSE
  BY DEF Gone, Connection
<1>2. TypeOK
  BY <1>1 DEF Init, TypeOK
<1>3. \A c \in Conns : Sound(World, c)
  BY <1>1, ConstantsAssumption DEF Init, World, Sound
<1>4. ListenOnce
  BY <1>1 DEF Init, ListenOnce
<1>5. Walks
  BY DEF Init, Walks
<1>6. IsFiniteSet(unused)
  BY FS_EmptySet DEF Init
<1> QED BY <1>2, <1>3, <1>4, <1>5, <1>6 DEF Inv, Init

\* How many connections the strategy asks for is a number.
LEMMA CreatePeerCountType ==
  ASSUME NEW current, NEW n \in Nat
  PROVE  CreatePeerCount(current, n) \in Nat
<1>1. n \div 2 \in Nat /\ n \div 5 \in Nat /\ n \div 10 \in Nat
  OBVIOUS
<1> QED BY <1>1 DEF CreatePeerCount

\* The invariant is kept by the steps that are not of one connection ...
LEMMA ListStep ==
  ASSUME Inv,
         \/ OnTimer \/ MarkDownloadComplete \/ DownloadingFailed \/ DownloadedUpdater
         \/ \E i \in Infos : AddPeerListenInfo(i)
  PROVE  Inv'
<1> USE DEF loopVars, listVars, dataVars
<1>1. TypeOK /\ ListenOnce /\ Walks /\ IsFiniteSet(unused)
  BY DEF Inv
<1>2. CASE OnTimer
  <2>1. UNCHANGED <<conn, newPeers, peers, observers>> /\ absentUse' = {}
    BY <1>2 DEF OnTimer
  <2>2. WorldInv' /\ KeepTo /\ KeepOpening
    BY <2>1, SameWorld
  <2>3. create' \in Nat
    <3>1. Cardinality(unused) \in Nat
      BY <1>1, FS_CardinalityType
    <3> QED BY <1>2, <3>1, CreatePeerCountType DEF OnTimer
  <2>4. ListenOnce'
    BY <1>1, <1>2, <2>2, ListenKept DEF OnTimer, ListenOnce
  <2>5. Walks'
    BY <1>2 DEF OnTimer, Quiet, Walks
  <2>6. TypeOK'
    BY <1>1, <1>2, <2>2, <2>3 DEF OnTimer, TypeOK, WorldInv
  <2> QED BY <1>1, <1>2, <2>2, <2>4, <2>5, <2>6 DEF Inv, WorldInv, OnTimer
<1>3. CASE MarkDownloadComplete
  <2>1. UNCHANGED <<conn, newPeers, peers, observers>> /\ absentUse' = {}
    BY <1>3 DEF MarkDownloadComplete
  <2>2. WorldInv' /\ KeepTo /\ KeepOpening
    BY <2>1, SameWorld
  <2>3. ListenOnce'
    BY <1>1, <1>3, <2>2, ListenKept DEF MarkDownloadComplete, ListenOnce
  <2>4. Walks'
    BY <1>3 DEF MarkDownloadComplete, Quiet, Walks
  <2>5. TypeOK'
    BY <1>1, <1>3, <2>2 DEF MarkDownloadComplete, TypeOK, WorldInv
  <2> QED BY <1>1, <1>3, <2>2, <2>3, <2>4, <2>5 DEF Inv, WorldInv, MarkDownloadComplete
<1>4. CASE DownloadingFailed
  <2>1. UNCHANGED <<conn, newPeers, peers, observers>> /\ absentUse' = {}
    BY <1>4 DEF DownloadingFailed
  <2>2. WorldInv' /\ KeepTo /\ KeepOpening
    BY <2>1, SameWorld
  <2>3. ListenOnce'
    BY <1>1, <1>4, <2>2, ListenKept DEF DownloadingFailed, ListenOnce
  <2>4. Walks'
    BY <1>4 DEF DownloadingFailed, Quiet, Walks
  <2>5. TypeOK'
    BY <1>1, <1>4, <2>2 DEF DownloadingFailed, TypeOK, WorldInv
  <2> QED BY <1>1, <1>4, <2>2, <2>3, <2>4, <2>5 DEF Inv, WorldInv, DownloadingFailed
<1>5. CASE DownloadedUpdater
  <2>1. UNCHANGED <<conn, newPeers, peers, observers>> /\ absentUse' = {}
    BY <1>5 DEF DownloadedUpdater
  <2>2. WorldInv' /\ KeepTo /\ KeepOpening
    BY <2>1, SameWorld
  <2>3. ListenOnce'
    BY <1>1, <1>5, <2>2, ListenKept DEF DownloadedUpdater, ListenOnce
  <2>4. stopping' \subseteq peers /\ notice' \subseteq notice /\ notice # {}
    BY <1>1, <1>5 DEF DownloadedUpdater, Walks
  <2>5. Walks'
    BY <1>1, <1>5, <2>4 DEF DownloadedUpdater, Walks
  <2>6. TypeOK'
    BY <1>1, <1>5, <2>2 DEF DownloadedUpdater, TypeOK, WorldInv
  <2> QED BY <1>1, <1>5, <2>2, <2>3, <2>5, <2>6 DEF Inv, WorldInv, DownloadedUpdater
<1>6. ASSUME NEW i \in Infos, AddPeerListenInfo(i) PROVE Inv'
  <2>1. UNCHANGED <<conn, newPeers, peers, observers>> /\ absentUse' = {}
    BY <1>6 DEF AddPeerListenInfo
  <2>2. WorldInv' /\ KeepTo /\ KeepOpening
    BY <2>1, SameWorld
  <2>3. ListenOnce'
    BY <1>1, <1>6, <2>2, ListenKept DEF AddPeerListenInfo, ListenOnce
  <2>4. Walks'
    BY <1>1, <1>6 DEF AddPeerListenInfo, Quiet, Walks
  <2>5. TypeOK'
    BY <1>1, <1>6, <2>2 DEF AddPeerListenInfo, TypeOK, WorldInv
  <2>6. IsFiniteSet(unused')
    <3>1. unused' = unused \/ unused' = unused \cup {i}
      BY <1>6 DEF AddPeerListenInfo
    <3> QED BY <1>1, <3>1, FS_AddElement
  <2> QED BY <1>1, <1>6, <2>2, <2>3, <2>4, <2>5, <2>6 DEF Inv, WorldInv
<1> QED BY <1>2, <1>3, <1>4, <1>5, <1>6

\* The steps of a walk through the observers or the connections of the task: only
\* sends, which keep both sets.
LEMMA CalmStep ==
  ASSUME Inv, NEW c \in Conns, NEW luck \in Nat, NEW x, Calm(Lucky(luck), x, c), SetWorld(x)
  PROVE  /\ Result(World, x, c)
         /\ observers' = observers /\ peers' = peers
<1>1. TypeOK /\ Sound(World, c)
  BY DEF Inv
<1>2. /\ Lucky(luck) \in Worlds /\ Sound(Lucky(luck), c)
      /\ Lucky(luck).peers = peers /\ Lucky(luck).observers = observers
  BY <1>1, StateWorld, LuckySound
<1>3. Result(Lucky(luck), x, c)
  <2> DEFINE v == Lucky(luck)
  <2>1. v \in Worlds /\ Sound(v, c) /\ Calm(v, x, c)
    BY <1>2
  <2> HIDE DEF v
  <2>2. Result(v, x, c)
    BY <2>1, CalmResult
  <2> QED BY <2>2 DEF v
<1>4. Result(World, x, c)
  BY <1>1, <1>3, LuckySound
<1>5. x.observers = observers /\ x.peers = peers
  BY <1>2 DEF Calm
<1> QED BY <1>4, <1>5 DEF SetWorld

\* A turn of a walk keeps the invariant.
LEMMA WalkStep ==
  ASSUME Inv, NEW c \in Conns, NEW luck \in Nat, NEW x, Calm(Lucky(luck), x, c), SetWorld(x),
         notice # {} \/ stopping # {},
         notice' \subseteq notice, stopping' \subseteq stopping,
         UNCHANGED <<inbox, create, listVars>>
  PROVE  Inv'
<1>1. WorldInv' /\ KeepTo /\ KeepOpening /\ observers' = observers /\ peers' = peers
  BY CalmStep, ResultStep
<1>2. ListenOnce'
  BY <1>1, ListenKept DEF Inv, listVars, ListenOnce
<1>3. Walks'
  BY <1>1 DEF Inv, Walks
<1>4. TypeOK'
  BY <1>1 DEF Inv, TypeOK, WorldInv, listVars
<1> QED BY <1>1, <1>2, <1>3, <1>4 DEF Inv, WorldInv, listVars

\* ... and by those that are.
LEMMA ConnStep ==
  ASSUME Inv, NEW c \in Conns,
         \/ AcceptHandler(c) \/ ConnectHandler(c) \/ ReceiveHandler(c)
         \/ StreamDataArrive(c) \/ SendHandler(c) \/ SendsOnItsOwn(c) \/ DisconnectTimer(c)
         \/ ConnectionNotified(c) \/ Complete(c)
         \/ \E i \in Infos : CreateTaskPeer(c, i)
  PROVE  Inv'
<1>0. TypeOK /\ Sound(World, c) /\ ListenOnce /\ Walks /\ IsFiniteSet(unused)
  BY DEF Inv
<1>a. conn[c] \in Connection /\ World.conn[c] = conn[c]
  BY <1>0 DEF TypeOK, World
<1>b. Luck \subseteq Nat
  BY DEF Luck
<1>1. CASE AcceptHandler(c)
  <2>1. PICK x : Begun(World, x, c, NoInfo) /\ SetWorld(x)
    BY <1>0, <1>1, AcceptHandlerResult
  <2>2. /\ WorldInv'
        /\ conn'[c].alive => conn'[c].to = NoInfo
        /\ \A d \in Conns \ {c} : /\ conn'[d].alive => conn[d].alive /\ conn'[d].to = conn[d].to
                                  /\ conn'[d].opening => conn[d].opening
    BY <2>1, BegunStep
  <2>3. ListenOnce'
    BY <1>0, <1>1, <2>2 DEF AcceptHandler, dataVars, listVars, ListenOnce
  <2>4. Walks'
    <3>0. Quiet
      BY <1>1 DEF AcceptHandler
    <3>1. \A d \in Conns : ~(inbox[d] > 0)
      BY <3>0 DEF Quiet
    <3>2. /\ notice = {} /\ stopping = {} /\ create = 0
          /\ UNCHANGED <<notice, stopping, create, inbox>>
      BY <1>1 DEF AcceptHandler, Quiet, dataVars, loopVars
    <3> QED BY <3>1, <3>2 DEF Walks
  <2>5. TypeOK'
    BY <1>0, <1>1, <2>2 DEF AcceptHandler, TypeOK, WorldInv, dataVars, loopVars, listVars
  <2> QED BY <1>0, <1>1, <2>2, <2>3, <2>4, <2>5
          DEF Inv, WorldInv, AcceptHandler, dataVars, listVars
<1>2. CASE ConnectHandler(c)
  <2>1. PICK x : Result(World, x, c) /\ SetWorld(x)
    BY <1>0, <1>2, ConnectHandlerResult
  <2>2. Quiet /\ UNCHANGED <<notice, inbox, loopVars, listVars>>
    BY <1>2 DEF ConnectHandler, dataVars
  <2>3. inbox' \in [Conns -> Nat]
    BY <1>0, <2>2 DEF TypeOK
  <2> QED BY <2>1, <2>2, <2>3, HandlerStep
<1>3. CASE ReceiveHandler(c)
  <2>1. PICK x : Result(World, x, c) /\ SetWorld(x)
    BY <1>0, <1>3, ReceiveHandlerResult
  <2>2. Quiet /\ UNCHANGED <<notice, loopVars, listVars>>
    BY <1>3 DEF ReceiveHandler
  <2>3. inbox' = inbox \/ \E n \in 0 .. MaxMessages : inbox' = [inbox EXCEPT ![c] = n]
    BY <1>3 DEF ReceiveHandler
  <2>4. inbox \in [Conns -> Nat] /\ 0 .. MaxMessages \subseteq Nat
    BY <1>0 DEF TypeOK
  <2>5. inbox' \in [Conns -> Nat]
    BY <2>3, <2>4
  <2>6. ~conn[c].opening
    BY <1>0, <1>3, <1>a DEF ReceiveHandler, Sound
  <2>7. \A d \in Conns : inbox'[d] > 0 => inbox[d] > 0 \/ ~conn[d].opening
    BY <2>3, <2>4, <2>6
  <2> QED BY <2>1, <2>2, <2>5, <2>7, HandlerStep
<1>4. CASE StreamDataArrive(c)
  <2>1. inbox[c] > 0 /\ UNCHANGED <<notice, loopVars, listVars>>
    BY <1>4 DEF StreamDataArrive
  <2>2. ~conn[c].opening /\ notice = {} /\ stopping = {} /\ create = 0
    BY <1>0, <2>1 DEF Walks
  <2>3. PICK x : Result(World, x, c) /\ SetWorld(x)
    BY <1>0, <1>4, <2>2, StreamDataArriveResult
  <2>4. WorldInv' /\ KeepTo /\ KeepOpening
    BY <2>3, ResultStep
  <2>5. ListenOnce'
    BY <1>0, <2>1, <2>4, ListenKept DEF listVars, ListenOnce
  <2>6. inbox \in [Conns -> Nat] /\ inbox' = [inbox EXCEPT ![c] = inbox[c] - 1]
    BY <1>0, <1>4 DEF StreamDataArrive, TypeOK
  <2>7. inbox' \in [Conns -> Nat] /\ \A d \in Conns : inbox'[d] > 0 => inbox[d] > 0
    BY <2>1, <2>6
  <2>8. Walks'
    BY <1>0, <2>1, <2>2, <2>4, <2>7 DEF Walks, KeepOpening, loopVars
  <2>9. TypeOK'
    BY <1>0, <2>1, <2>4, <2>7 DEF TypeOK, WorldInv, loopVars, listVars
  <2> QED BY <1>0, <2>1, <2>4, <2>5, <2>8, <2>9 DEF Inv, WorldInv, listVars
<1>5. CASE SendHandler(c)
  <2>1. PICK x : Result(World, x, c) /\ SetWorld(x)
    BY <1>0, <1>5, SendHandlerResult
  <2>2. Quiet /\ UNCHANGED <<notice, inbox, loopVars, listVars>>
    BY <1>5 DEF SendHandler, dataVars
  <2>3. inbox' \in [Conns -> Nat]
    BY <1>0, <2>2 DEF TypeOK
  <2> QED BY <2>1, <2>2, <2>3, HandlerStep
<1>6. CASE SendsOnItsOwn(c)
  <2>1. PICK luck \in Luck : SetWorld(SendOne(Lucky(luck), c))
    BY <1>6 DEF SendsOnItsOwn
  <2>2. luck \in Nat /\ 0 \in 0 .. 2 /\ conn[c].alive
    BY <1>6, <1>b DEF SendsOnItsOwn
  <2>3. Result(World, SendOne(Lucky(luck), c), c)
    BY <1>0, <2>2, SendsResult
  <2>4. Quiet /\ UNCHANGED <<notice, inbox, loopVars, listVars>>
    BY <1>6 DEF SendsOnItsOwn, dataVars
  <2>5. inbox' \in [Conns -> Nat]
    BY <1>0, <2>4 DEF TypeOK
  <2> QED BY <2>1, <2>3, <2>4, <2>5, HandlerStep
<1>7. CASE DisconnectTimer(c)
  <2>1. PICK x : Result(World, x, c) /\ SetWorld(x)
    BY <1>0, <1>7, DisconnectTimerResult
  <2>2. Quiet /\ UNCHANGED <<notice, inbox, loopVars, listVars>>
    BY <1>7 DEF DisconnectTimer, dataVars
  <2>3. inbox' \in [Conns -> Nat]
    BY <1>0, <2>2 DEF TypeOK
  <2> QED BY <2>1, <2>2, <2>3, HandlerStep
<1>8. CASE ConnectionNotified(c)
  <2>1. PICK luck \in Luck, n \in 0 .. 2 : SetWorld(SendMessages(Lucky(luck), c, n))
    BY <1>8 DEF ConnectionNotified
  <2>2. /\ c \in notice /\ notice' = notice \ {c} /\ UNCHANGED <<inbox, create, stopping, listVars>>
    BY <1>8 DEF ConnectionNotified, dataVars, loopVars
  <2>3. conn[c].alive
    BY <1>0, <1>a, <2>2 DEF Walks, Sound, World
  <2>4. luck \in Nat
    BY <1>b
  <2>5. Calm(Lucky(luck), SendMessages(Lucky(luck), c, n), c)
    BY <1>0, <2>3, <2>4, SendsResult
  <2>6. notice # {} /\ notice' \subseteq notice /\ stopping' \subseteq stopping
    BY <2>2
  <2> QED BY <2>1, <2>2, <2>4, <2>5, <2>6, WalkStep
<1>9. CASE Complete(c)
  <2>1. /\ c \in stopping /\ stopping' = stopping \ {c}
        /\ UNCHANGED <<notice, inbox, create, listVars>>
    BY <1>9 DEF Complete
  <2>2. conn[c].alive
    BY <1>0, <1>a, <2>1 DEF Walks, Sound, World
  <2>3. \E luck \in Nat : \E x : Calm(Lucky(luck), x, c) /\ SetWorld(x)
    <3>1. CASE conn[c].shaken
      <4>1. PICK luck \in {0, 1} : SetWorld(SendOne(Lucky(luck), c))
        BY <1>9, <3>1 DEF Complete
      <4>2. luck \in Nat /\ 0 \in 0 .. 2
        OBVIOUS
      <4>3. Calm(Lucky(luck), SendOne(Lucky(luck), c), c)
        BY <1>0, <2>2, <4>2, SendsResult
      <4> QED BY <4>1, <4>2, <4>3
    <3>2. CASE ~conn[c].shaken
      <4>1. SetWorld(Lucky(0))
        <5>1. SetWorld(World)
          BY <1>9, <3>2 DEF Complete
        <5>2. Lucky(0) = World
          BY DEF Lucky, World
        <5> QED BY <5>1, <5>2
      <4>2. 0 \in Nat
        OBVIOUS
      <4>3. Lucky(0) \in Worlds
        BY <1>0, <4>2, StateWorld
      <4>4. Calm(Lucky(0), Lucky(0), c)
        BY <4>3, CalmReflexive
      <4> QED BY <4>1, <4>2, <4>4
    <3> QED BY <3>1, <3>2
  <2>4. stopping # {} /\ notice' \subseteq notice /\ stopping' \subseteq stopping
    BY <2>1
  <2> QED BY <2>1, <2>3, <2>4, WalkStep
<1>10. ASSUME NEW i \in Infos, CreateTaskPeer(c, i) PROVE Inv'
  <2>1. PICK x : Begun(World, x, c, i) /\ SetWorld(x)
    BY <1>0, <1>10, CreateTaskPeerResult
  <2>2. /\ WorldInv'
        /\ conn'[c].alive => conn'[c].to = i
        /\ \A d \in Conns \ {c} : /\ conn'[d].alive => conn[d].alive /\ conn'[d].to = conn[d].to
                                  /\ conn'[d].opening => conn[d].opening
    BY <2>1, BegunStep
  <2>3. /\ create > 0 /\ i \in unused /\ create' = create - 1
        /\ unused' = unused \ {i} /\ used' = used \cup {i}
        /\ UNCHANGED <<notice, inbox, stopping, creating, pieces>>
    BY <1>10 DEF CreateTaskPeer
  <2>4. ListenOnce'
    <3>1. unused' \cap used' = {}
      BY <1>0, <2>3 DEF ListenOnce
    <3>2. ASSUME NEW d \in Conns, conn'[d].alive, conn'[d].to # NoInfo
          PROVE  conn'[d].to \in used' /\ (d # c => conn'[d].to # i)
      <4>1. CASE d = c
        BY <2>2, <2>3, <3>2, <4>1
      <4>2. CASE d # c
        <5>1. conn'[d].to = conn[d].to /\ conn[d].to \in used
          BY <1>0, <2>2, <3>2, <4>2 DEF ListenOnce
        <5>2. i \notin used
          BY <1>0, <2>3 DEF ListenOnce
        <5> QED BY <2>3, <4>2, <5>1, <5>2
      <4> QED BY <4>1, <4>2
    <3>3. ASSUME NEW d \in Conns, NEW e \in Conns, d # e, conn'[d].alive, conn'[e].alive,
                 conn'[d].to = conn'[e].to, conn'[d].to # NoInfo
          PROVE  FALSE
      <4>1. CASE d # c /\ e # c
        BY <1>0, <2>2, <3>3, <4>1 DEF ListenOnce
      <4>2. CASE d = c
        BY <2>2, <3>2, <3>3, <4>2
      <4>3. CASE e = c
        BY <2>2, <3>2, <3>3, <4>3
      <4> QED BY <4>1, <4>2, <4>3
    <3> QED BY <3>1, <3>2, <3>3 DEF ListenOnce
  <2>5. create \in Nat /\ create - 1 \in Nat
    BY <1>0, <2>3 DEF TypeOK
  <2>6. Walks'
    BY <1>0, <2>3, <2>5 DEF Walks, TypeOK
  <2>7. TypeOK'
    BY <1>0, <2>2, <2>3, <2>5 DEF TypeOK, WorldInv
  <2>8. IsFiniteSet(unused')
    BY <1>0, <2>3, FS_RemoveElement
  <2> QED BY <1>0, <2>2, <2>3, <2>4, <2>6, <2>7, <2>8 DEF Inv, WorldInv
<1> QED BY <1>1, <1>2, <1>3, <1>4, <1>5, <1>6, <1>7, <1>8, <1>9, <1>10

\* The invariant is inductive.
LEMMA InvStep == Inv /\ [Next]_vars => Inv'
<1> SUFFICES ASSUME Inv, [Next]_vars PROVE Inv'
  OBVIOUS
<1>1. CASE UNCHANGED vars
  <2>1. World' = World
    BY <1>1 DEF vars, World
  <2> QED BY <1>1, <2>1 DEF vars, Inv, TypeOK, Sound, ListenOnce, Walks
<1>2. CASE Next
  BY <1>2, ListStep, ConnStep DEF Next
<1> QED BY <1>1, <1>2

\* Every reachable state has it.
THEOREM InvAlways == Spec => []Inv
BY InitInv, InvStep, PTL DEF Spec

-----------------------------------------------------------------------------
(* What the runs check, for every value of the constants.                  *)

\* The variables have their types: no send completes more often than it was made.
THEOREM TypeCorrect == Spec => []TypeOK
<1>1. Inv => TypeOK
  BY DEF Inv
<1> QED BY <1>1, InvAlways, PTL

\* A connection exists exactly while the one owner it would tell of its end holds it.
THEOREM OneOwnerHolds == Spec => []OneOwner
<1>1. Inv => OneOwner
  <2> SUFFICES ASSUME Inv, NEW c \in Conns
               PROVE  /\ c \in newPeers <=> conn[c].alive /\ conn[c].owner = "host"
                      /\ c \in peers <=> conn[c].alive /\ conn[c].owner = "task"
                      /\ conn[c].alive <=> conn[c].np
                      /\ conn[c].np <=> conn[c].attached
    BY DEF OneOwner
  <2>1. Sound(World, c)
    BY DEF Inv
  <2> QED BY <2>1 DEF Sound, World
<1> QED BY <1>1, InvAlways, PTL

\* The observers are live connections of the task that have shaken hands, and the
\* walks under way have no element left that has gone.
THEOREM ObserversStayAttached == Spec => []ObserversAttached
<1>1. Inv => ObserversAttached
  <2> SUFFICES ASSUME Inv PROVE ObserversAttached
    OBVIOUS
  <2>1. notice \subseteq observers /\ stopping \subseteq peers
    BY DEF Inv, Walks
  <2>2. ASSUME NEW c \in observers \ {Updater}
        PROVE  c \in peers /\ conn[c].alive /\ conn[c].shaken /\ conn[c].based
    <3>1. c \in Conns
      BY DEF Inv, TypeOK
    <3>2. Sound(World, c)
      BY <3>1 DEF Inv
    <3> QED BY <3>2 DEF Sound, World
  <2> QED BY <2>1, <2>2 DEF ObserversAttached
<1> QED BY <1>1, InvAlways, PTL

\* Between two handlers a processor that can send has a receive under way.
THEOREM ConnectedAlwaysReceives == Spec => []ConnectedReceives
<1>1. Inv => ConnectedReceives
  BY DEF Inv, Sound, World, ConnectedReceives
<1> QED BY <1>1, InvAlways, PTL

\* No function but the four uses a connection, or a part of one, that is not there.
THEOREM OnlyKnownAbsentUses == Spec => []AbsentUsesAreKnown
<1>1. Inv => AbsentUsesAreKnown
  BY DEF Inv, Known, AbsentUsesAreKnown
<1> QED BY <1>1, InvAlways, PTL

\* No peer is connected to twice at a time.
THEOREM NeverConnectedTwice == Spec => []NoDoubleConnect
<1>1. Inv => NoDoubleConnect
  BY DEF Inv, ListenOnce, NoDoubleConnect
<1> QED BY <1>1, InvAlways, PTL

\* A connection whose processor is closed has its disconnect timer armed.
THEOREM ClosedWillLeave == Spec => []ClosedLeave
<1>1. Inv => ClosedLeave
  BY DEF Inv, Sound, World, Closed, ClosedLeave
<1> QED BY <1>1, InvAlways, PTL

-----------------------------------------------------------------------------
(* The refinement of PeerLife.                                             *)

\* What a handler of connection c may make of the stages.
Moves(c) ==
  \/ life' = life
  \/ /\ life[c] \in {"hosted", "attached"}
     /\ life' = [life EXCEPT ![c] = "joined"]
  \/ /\ life[c] # "free"
     /\ \E stage \in {"draining", "free"} : life' = [life EXCEPT ![c] = stage]

\* The stage of one connection.
LEMMA StageOf ==
  ASSUME NEW c \in Conns
  PROVE  life[c] = IF ~conn[c].alive THEN IF Outstanding(conn[c]) THEN "draining" ELSE "free"
                   ELSE IF c \in observers THEN "joined"
                   ELSE IF c \in newPeers THEN "hosted" ELSE "attached"
BY DEF life

\* Room makes no difference to the stage, and a step elsewhere none either.
LEMMA StageElsewhere ==
  ASSUME Inv, NEW c \in Conns, NEW x, Elsewhere(World, x, c), Sound(x, c), SetWorld(x)
  PROVE  /\ \A d \in Conns \ {c} : life'[d] = life[d]
         /\ life' = [life EXCEPT ![c] = life'[c]]
         /\ conn'[c].alive = x.conn[c].alive
         /\ Outstanding(conn'[c]) <=> Outstanding(x.conn[c])
         /\ x.conn[c].alive => conn'[c] = x.conn[c]
<1>0. TypeOK /\ \A d \in Conns : Sound(World, d)
  BY DEF Inv
<1>1. conn'[c] = Room(x.conn[c]) /\ \A d \in Conns \ {c} : conn'[d] = Room(conn[d])
  BY <1>0, WorldStep
<1>2. x \in Worlds /\ x.conn[c] \in Connection
  BY DEF Elsewhere, Worlds
<1>3. ASSUME NEW d \in Conns \ {c} PROVE life'[d] = life[d]
  <2>1. conn'[d] = Room(conn[d]) /\ conn[d] \in Connection
    BY <1>0, <1>1 DEF TypeOK
  <2>2. conn'[d].alive = conn[d].alive /\ (Outstanding(conn'[d]) <=> Outstanding(conn[d]))
    BY <2>1, RoomKeeps
  <2>3. /\ d \in newPeers' <=> d \in newPeers
        /\ d \in observers' <=> d \in observers
    BY DEF SetWorld, Elsewhere, World
  <2>4. life'[d] = IF ~conn'[d].alive
                     THEN IF Outstanding(conn'[d]) THEN "draining" ELSE "free"
                   ELSE IF d \in observers' THEN "joined"
                   ELSE IF d \in newPeers' THEN "hosted" ELSE "attached"
    BY DEF life
  <2> QED BY <2>2, <2>3, <2>4, StageOf
<1>4. life' = [life EXCEPT ![c] = life'[c]]
  <2>1. DOMAIN life = Conns /\ life = [d \in Conns |-> life[d]]
    BY DEF life
  <2>2. life' = [d \in Conns |-> life'[d]]
    BY DEF life
  <2> HIDE DEF life
  <2> QED BY <1>3, <2>1, <2>2
<1>5. /\ conn'[c].alive = x.conn[c].alive
      /\ Outstanding(conn'[c]) <=> Outstanding(x.conn[c])
      /\ x.conn[c].alive => conn'[c] = x.conn[c]
  BY <1>1, <1>2, RoomKeeps
<1> QED BY <1>3, <1>4, <1>5

\* A handler of a connection moves no other, and moves it forward only.
LEMMA ResultMoves ==
  ASSUME Inv, NEW c \in Conns, NEW x, Result(World, x, c), SetWorld(x)
  PROVE  Moves(c)
<1>1. Elsewhere(World, x, c) /\ Sound(x, c) /\ Kept(World, x, c) /\ Sound(World, c)
  BY DEF Result, Inv
<1>2. /\ life' = [life EXCEPT ![c] = life'[c]]
      /\ conn'[c].alive = x.conn[c].alive
      /\ Outstanding(conn'[c]) <=> Outstanding(x.conn[c])
      /\ x.conn[c].alive => conn'[c] = x.conn[c]
  BY <1>1, StageElsewhere
<1>3. life'[c] = IF ~conn'[c].alive
                   THEN IF Outstanding(conn'[c]) THEN "draining" ELSE "free"
                 ELSE IF c \in observers' THEN "joined"
                 ELSE IF c \in newPeers' THEN "hosted" ELSE "attached"
  BY DEF life
<1>4. observers' = x.observers /\ newPeers' = x.newPeers
  BY DEF SetWorld
<1>5. /\ World.conn = conn /\ World.observers = observers /\ World.newPeers = newPeers
  BY DEF World
<1>6. DOMAIN life = Conns /\ life = [d \in Conns |-> life[d]]
  BY DEF life
<1>7. \/ life'[c] = life[c]
      \/ life[c] \in {"hosted", "attached"} /\ life'[c] = "joined"
      \/ life[c] # "free" /\ life'[c] \in {"draining", "free"}
  <2>1. CASE x.conn[c].alive /\ x.conn[c].shaken
    <3>1. life'[c] = "joined" /\ conn[c].alive
      BY <1>1, <1>2, <1>3, <1>4, <1>5, <2>1 DEF Sound, Kept
    <3>2. life[c] \in {"joined", "hosted", "attached"}
      BY <3>1, StageOf
    <3> QED BY <3>1, <3>2
  <2>2. CASE x.conn[c].alive /\ ~x.conn[c].shaken
    <3>1. /\ conn[c].alive /\ c \notin observers /\ c \notin observers' /\ conn'[c].alive
          /\ c \in newPeers' <=> c \in newPeers
      BY <1>1, <1>2, <1>4, <1>5, <2>2 DEF Sound, Kept
    <3> QED BY <1>3, <3>1, StageOf
  <2>3. CASE ~x.conn[c].alive
    <3>1. life'[c] \in {"draining", "free"} /\ ~conn'[c].alive
      BY <1>2, <1>3, <2>3
    <3>2. CASE life[c] # "free"
      BY <3>1, <3>2
    <3>3. CASE life[c] = "free"
      <4>1. ~conn[c].alive /\ ~Outstanding(conn[c])
        BY <3>3, StageOf
      <4>2. ~Outstanding(conn'[c])
        BY <1>1, <1>2, <1>5, <4>1 DEF Kept
      <4> QED BY <1>3, <3>1, <3>3, <4>2
    <3> QED BY <3>2, <3>3
  <2> QED BY <2>1, <2>2, <2>3
<1> HIDE DEF life
<1>8. CASE life'[c] = life[c]
  <2>1. life' = life
    BY <1>2, <1>6, <1>8
  <2> QED BY <2>1 DEF Moves
<1>9. CASE life[c] \in {"hosted", "attached"} /\ life'[c] = "joined"
  BY <1>2, <1>9 DEF Moves
<1>10. CASE life[c] # "free" /\ life'[c] \in {"draining", "free"}
  BY <1>2, <1>10 DEF Moves
<1> QED BY <1>7, <1>8, <1>9, <1>10

\* A turn of a walk moves nobody.
LEMMA CalmMoves ==
  ASSUME Inv, NEW c \in Conns, conn[c].alive, NEW luck \in Nat,
         NEW x, Calm(Lucky(luck), x, c), SetWorld(x)
  PROVE  life' = life
<1>1. Result(World, x, c) /\ observers' = observers
  BY CalmStep
<1>2. Elsewhere(World, x, c) /\ Sound(x, c)
  BY <1>1 DEF Result
<1>3. /\ \A d \in Conns \ {c} : life'[d] = life[d]
      /\ conn'[c].alive = x.conn[c].alive
  BY <1>2, StageElsewhere
<1>4. x.conn[c].alive /\ newPeers' = newPeers
  <2>1. /\ Lucky(luck) \in Worlds /\ Lucky(luck).conn = conn /\ Lucky(luck).newPeers = newPeers
    BY StateWorld DEF Inv
  <2> DEFINE v == Lucky(luck)
  <2>2. v \in Worlds /\ Calm(v, x, c) /\ v.conn = conn /\ v.newPeers = newPeers
    BY <2>1
  <2> HIDE DEF v
  <2>3. x.conn[c].alive = v.conn[c].alive /\ x.newPeers = v.newPeers
    BY <2>2, CalmKeeps DEF Calm
  <2> QED BY <2>2, <2>3 DEF SetWorld
<1>5. life'[c] = IF ~conn'[c].alive
                   THEN IF Outstanding(conn'[c]) THEN "draining" ELSE "free"
                 ELSE IF c \in observers' THEN "joined"
                 ELSE IF c \in newPeers' THEN "hosted" ELSE "attached"
  BY DEF life
<1>6. life'[c] = life[c]
  BY <1>1, <1>3, <1>4, <1>5, StageOf
<1>7. life = [d \in Conns |-> life[d]] /\ life' = [d \in Conns |-> life'[d]]
  BY DEF life
<1> HIDE DEF life
<1> QED BY <1>3, <1>6, <1>7

\* A new connection begins in the stage of its owner, or is gone at once.
LEMMA BegunMoves ==
  ASSUME Inv, NEW c \in Conns, conn[c] = Gone, NEW i, NEW x, Begun(World, x, c, i), SetWorld(x),
         NEW owner \in {"host", "task"}, x.conn[c].alive => x.conn[c].owner = owner
  PROVE  \/ life' = life
         \/ /\ life[c] = "free"
            /\ life' = [life EXCEPT ![c] = IF owner = "host" THEN "hosted" ELSE "attached"]
<1>1. /\ Elsewhere(World, x, c) /\ Sound(x, c)
      /\ x.conn[c].alive => ~x.conn[c].shaken
      /\ Outstanding(x.conn[c]) => x.conn[c].alive
  BY DEF Begun
<1>2. /\ life' = [life EXCEPT ![c] = life'[c]]
      /\ conn'[c].alive = x.conn[c].alive
      /\ Outstanding(conn'[c]) <=> Outstanding(x.conn[c])
  BY <1>1, StageElsewhere
<1>3. life'[c] = IF ~conn'[c].alive
                   THEN IF Outstanding(conn'[c]) THEN "draining" ELSE "free"
                 ELSE IF c \in observers' THEN "joined"
                 ELSE IF c \in newPeers' THEN "hosted" ELSE "attached"
  BY DEF life
<1>4. observers' = x.observers /\ newPeers' = x.newPeers
  BY DEF SetWorld
<1>5. life[c] = "free"
  <2>1. ~Gone.alive /\ ~Outstanding(Gone)
    BY DEF Gone, Outstanding
  <2> QED BY <2>1, StageOf
<1>6. CASE x.conn[c].alive
  <2>1. c \notin observers' /\ (c \in newPeers' <=> owner = "host") /\ conn'[c].alive
    BY <1>1, <1>2, <1>4, <1>6 DEF Sound
  <2>2. life'[c] = IF owner = "host" THEN "hosted" ELSE "attached"
    BY <1>3, <2>1
  <2> HIDE DEF life
  <2> QED BY <1>2, <1>5, <2>2
<1>7. CASE ~x.conn[c].alive
  <2>1. life'[c] = life[c]
    BY <1>1, <1>2, <1>3, <1>5, <1>7
  <2>2. life = [d \in Conns |-> life[d]] /\ DOMAIN life = Conns
    BY DEF life
  <2> HIDE DEF life
  <2> QED BY <1>2, <2>1, <2>2
<1> QED BY <1>6, <1>7

\* A move with no notification under way is a step of PeerLife.
LEMMA MovesImplement ==
  ASSUME NEW c \in Conns, Moves(c), notice = {}, notice' = {}
  PROVE  Life!Next \/ UNCHANGED <<life, notice \ {Updater}>>
<1> HIDE DEF life
<1>1. (notice \ {Updater})' = notice \ {Updater} /\ notice \ {Updater} = {}
  OBVIOUS
<1>2. CASE life' = life
  BY <1>1, <1>2
<1>3. CASE /\ life[c] \in {"hosted", "attached"}
           /\ life' = [life EXCEPT ![c] = "joined"]
  <2>1. Life!Join(c)
    BY <1>1, <1>3 DEF Life!Join
  <2> QED BY <2>1 DEF Life!Next
<1>4. CASE /\ life[c] # "free"
           /\ \E stage \in {"draining", "free"} : life' = [life EXCEPT ![c] = stage]
  <2>1. Life!Leave(c)
    BY <1>1, <1>4 DEF Life!Leave
  <2> QED BY <2>1 DEF Life!Next
<1> QED BY <1>2, <1>3, <1>4 DEF Moves

\* The same of a new connection.
LEMMA BeginImplements ==
  ASSUME NEW c \in Conns, notice = {}, notice' = {}, NEW owner \in {"host", "task"},
         \/ life' = life
         \/ /\ life[c] = "free"
            /\ life' = [life EXCEPT ![c] = IF owner = "host" THEN "hosted" ELSE "attached"]
  PROVE  Life!Next \/ UNCHANGED <<life, notice \ {Updater}>>
<1> HIDE DEF life
<1>1. (notice \ {Updater})' = notice \ {Updater} /\ notice \ {Updater} = {}
  OBVIOUS
<1>2. CASE life' = life
  BY <1>1, <1>2
<1>3. CASE life[c] = "free" /\ life' = [life EXCEPT ![c] = "hosted"]
  <2>1. Life!Begin(c, "hosted")
    BY <1>1, <1>3 DEF Life!Begin
  <2> QED BY <2>1 DEF Life!Next
<1>4. CASE life[c] = "free" /\ life' = [life EXCEPT ![c] = "attached"]
  <2>1. Life!Begin(c, "attached")
    BY <1>1, <1>4 DEF Life!Begin
  <2> QED BY <2>1 DEF Life!Next
<1> QED BY <1>2, <1>3, <1>4

\* A notification tells everyone who is joined.
LEMMA NotifyImplements ==
  ASSUME Inv, notice = {}, UNCHANGED <<conn, newPeers, observers>>,
         notice' \ {Updater} = observers \ {Updater}
  PROVE  Life!Next
<1>1. life' = life
  BY DEF life
<1>2. Life!Joined = observers \ {Updater}
  <2>1. ASSUME NEW c \in Conns PROVE life[c] = "joined" <=> c \in observers
    <3>1. c \in observers => conn[c].alive
      BY DEF Inv, Sound, World
    <3> QED BY <3>1, StageOf
  <2>2. observers \subseteq Conns \cup {Updater} /\ Updater \notin Conns
    BY ConstantsAssumption DEF Inv, TypeOK
  <2> HIDE DEF life
  <2> QED BY <2>1, <2>2 DEF Life!Joined
<1>3. Life!Notify
  <2> HIDE DEF life
  <2> QED BY <1>1, <1>2 DEF Life!Notify
<1> QED BY <1>3 DEF Life!Next

\* Every step is a step of PeerLife, or none.
LEMMA LifeStep == Inv /\ [Next]_vars => [Life!Next]_(Life!lifeVars)
<1> SUFFICES ASSUME Inv, [Next]_vars
             PROVE  Life!Next \/ UNCHANGED <<life, notice \ {Updater}>>
  BY DEF Life!lifeVars
<1>0. TypeOK /\ Walks /\ (\A c \in Conns : Sound(World, c))
  BY DEF Inv
<1>b. Luck \subseteq Nat
  BY DEF Luck
<1>1. CASE UNCHANGED vars
  BY <1>1 DEF vars, life
<1>2. CASE OnTimer
  BY <1>2 DEF OnTimer, life
<1>3. CASE MarkDownloadComplete
  <2>1. /\ notice = {} /\ notice' = observers /\ UNCHANGED <<conn, newPeers, observers>>
    BY <1>3 DEF MarkDownloadComplete, Quiet
  <2> QED BY <2>1, NotifyImplements
<1>4. CASE DownloadingFailed
  <2>1. /\ notice = {} /\ notice' = observers \ {Updater}
        /\ UNCHANGED <<conn, newPeers, observers>>
    BY <1>4 DEF DownloadingFailed, Quiet
  <2>2. notice' \ {Updater} = observers \ {Updater}
    BY <2>1
  <2> QED BY <2>1, <2>2, NotifyImplements
<1>5. CASE DownloadedUpdater
  <2>1. notice' = notice \ {Updater} /\ UNCHANGED <<conn, newPeers, observers>>
    BY <1>5 DEF DownloadedUpdater
  <2>2. notice' \ {Updater} = notice \ {Updater}
    BY <2>1
  <2>3. life' = life
    BY <2>1 DEF life
  <2> QED BY <2>2, <2>3
<1>6. ASSUME NEW i \in Infos, AddPeerListenInfo(i)
      PROVE  UNCHANGED <<life, notice \ {Updater}>>
  BY <1>6 DEF AddPeerListenInfo, life
<1>7. ASSUME NEW c \in Conns, AcceptHandler(c)
      PROVE  Life!Next \/ UNCHANGED <<life, notice \ {Updater}>>
  <2>1. PICK x : /\ Begun(World, x, c, NoInfo) /\ SetWorld(x)
                 /\ (x.conn[c].alive => x.conn[c].owner = "host")
    BY <1>0, <1>7, AcceptHandlerResult
  <2>2. conn[c] = Gone /\ notice = {} /\ notice' = {}
    BY <1>7 DEF AcceptHandler, Quiet
  <2>3. \/ life' = life
        \/ /\ life[c] = "free"
           /\ life' = [life EXCEPT ![c] = IF "host" = "host" THEN "hosted" ELSE "attached"]
    BY <2>1, <2>2, BegunMoves
  <2> QED BY <2>2, <2>3, BeginImplements
<1>8. ASSUME NEW c \in Conns, NEW i \in Infos, CreateTaskPeer(c, i)
      PROVE  Life!Next \/ UNCHANGED <<life, notice \ {Updater}>>
  <2>1. PICK x : /\ Begun(World, x, c, i) /\ SetWorld(x)
                 /\ (x.conn[c].alive => x.conn[c].owner = "task")
    BY <1>0, <1>8, CreateTaskPeerResult
  <2>2. conn[c] = Gone /\ notice = {} /\ notice' = {}
    BY <1>0, <1>8 DEF CreateTaskPeer, Walks
  <2>3. \/ life' = life
        \/ /\ life[c] = "free"
           /\ life' = [life EXCEPT ![c] = IF "task" = "host" THEN "hosted" ELSE "attached"]
    BY <2>1, <2>2, BegunMoves
  <2> QED BY <2>2, <2>3, BeginImplements
<1>9. ASSUME NEW c \in Conns,
             \/ ConnectHandler(c) \/ ReceiveHandler(c) \/ StreamDataArrive(c)
             \/ SendHandler(c) \/ SendsOnItsOwn(c) \/ DisconnectTimer(c)
      PROVE  Life!Next \/ UNCHANGED <<life, notice \ {Updater}>>
  <2>1. notice = {} /\ notice' = {}
    <3>1. CASE StreamDataArrive(c)
      BY <1>0, <3>1 DEF StreamDataArrive, Walks
    <3>2. CASE \/ ConnectHandler(c) \/ ReceiveHandler(c)
               \/ SendHandler(c) \/ SendsOnItsOwn(c) \/ DisconnectTimer(c)
      BY <3>2 DEF ConnectHandler, ReceiveHandler, SendHandler, SendsOnItsOwn, DisconnectTimer,
                  Quiet
    <3> QED BY <1>9, <3>1, <3>2
  <2>2. \E x : Result(World, x, c) /\ SetWorld(x)
    <3>1. CASE StreamDataArrive(c)
      <4>1. ~conn[c].opening
        BY <1>0, <3>1 DEF StreamDataArrive, Walks
      <4> QED BY <1>0, <3>1, <4>1, StreamDataArriveResult
    <3>2. CASE SendsOnItsOwn(c)
      <4>1. PICK luck \in Luck : SetWorld(SendOne(Lucky(luck), c))
        BY <3>2 DEF SendsOnItsOwn
      <4>2. luck \in Nat /\ 0 \in 0 .. 2 /\ conn[c].alive
        BY <3>2, <1>b DEF SendsOnItsOwn
      <4> QED BY <1>0, <4>1, <4>2, SendsResult
    <3>3. CASE ConnectHandler(c)
      BY <1>0, <3>3, ConnectHandlerResult
    <3>4. CASE ReceiveHandler(c)
      BY <1>0, <3>4, ReceiveHandlerResult
    <3>5. CASE SendHandler(c)
      BY <1>0, <3>5, SendHandlerResult
    <3>6. CASE DisconnectTimer(c)
      BY <1>0, <3>6, DisconnectTimerResult
    <3> QED BY <1>9, <3>1, <3>2, <3>3, <3>4, <3>5, <3>6
  <2>3. Moves(c)
    BY <2>2, ResultMoves
  <2> QED BY <2>1, <2>3, MovesImplement
<1>10. ASSUME NEW c \in Conns, ConnectionNotified(c) PROVE Life!Next
  <2>1. PICK luck \in Luck, n \in 0 .. 2 : SetWorld(SendMessages(Lucky(luck), c, n))
    BY <1>10 DEF ConnectionNotified
  <2>2. c \in notice /\ notice' = notice \ {c} /\ c # Updater
    BY <1>10, ConstantsAssumption DEF ConnectionNotified
  <2>3. conn[c].alive /\ luck \in Nat
    BY <1>0, <1>b, <2>2 DEF Walks, Sound, World
  <2>4. Calm(Lucky(luck), SendMessages(Lucky(luck), c, n), c)
    BY <1>0, <2>3, SendsResult
  <2>5. life' = life
    BY <2>1, <2>3, <2>4, CalmMoves
  <2>6. Life!Tell(c)
    <3> HIDE DEF life
    <3> QED BY <2>2, <2>5 DEF Life!Tell
  <2> QED BY <2>6 DEF Life!Next
<1>11. ASSUME NEW c \in Conns, Complete(c) PROVE UNCHANGED <<life, notice \ {Updater}>>
  <2>1. c \in stopping /\ notice' = notice
    BY <1>11 DEF Complete
  <2>2. conn[c].alive
    BY <1>0, <2>1 DEF Walks, Sound, World
  <2>3. life' = life
    <3>1. CASE conn[c].shaken
      <4>1. PICK luck \in {0, 1} : SetWorld(SendOne(Lucky(luck), c))
        BY <1>11, <3>1 DEF Complete
      <4>2. luck \in Nat /\ 0 \in 0 .. 2
        OBVIOUS
      <4>3. Calm(Lucky(luck), SendOne(Lucky(luck), c), c)
        BY <1>0, <2>2, <4>2, SendsResult
      <4> QED BY <2>2, <4>1, <4>2, <4>3, CalmMoves
    <3>2. CASE ~conn[c].shaken
      <4>1. SetWorld(World) /\ Lucky(0) = World
        BY <1>11, <3>2 DEF Complete, Lucky, World
      <4>2. 0 \in Nat
        OBVIOUS
      <4>3. Lucky(0) \in Worlds
        BY <1>0, <4>2, StateWorld
      <4>4. Calm(Lucky(0), Lucky(0), c)
        BY <4>3, CalmReflexive
      <4>5. SetWorld(Lucky(0))
        BY <4>1
      <4> QED BY <2>2, <4>2, <4>4, <4>5, CalmMoves
    <3> QED BY <3>1, <3>2
  <2> QED BY <2>1, <2>3
<1> QED BY <1>1, <1>2, <1>3, <1>4, <1>5, <1>6, <1>7, <1>8, <1>9, <1>10, <1>11 DEF Next

\* The connections of a task live as PeerLife says.
THEOREM ImplementsPeerLife == Spec => LifeSpec
<1>1. Init => Life!Init
  <2> SUFFICES ASSUME Init PROVE Life!Init
    OBVIOUS
  <2>1. notice \ {Updater} = {}
    BY DEF Init
  <2>2. ~Gone.alive /\ ~Outstanding(Gone)
    BY DEF Gone, Outstanding
  <2>3. life = [c \in Conns |-> "free"]
    BY <2>2 DEF Init, life
  <2> HIDE DEF life
  <2> QED BY <2>1, <2>3 DEF Life!Init
<1> QED BY <1>1, LifeStep, InvAlways, PTL DEF Spec, LifeSpec, Life!Spec
=============================================================================
