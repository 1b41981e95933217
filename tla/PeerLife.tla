------------------------------ MODULE PeerLife ------------------------------
(***************************************************************************)
(* What the peer connections of a task promise together, without sockets,  *)
(* buffers or messages: the stages a connection object goes through, when  *)
(* its room is free again, and who is told of a piece.                     *)
(***************************************************************************)
CONSTANT Conns

VARIABLES
  life,  \* the stage of each object
  told   \* the connections a notification under way has not reached yet

lifeVars == <<life, told>>

\* free: no object.  hosted: accepted, its task not known.  attached: the task
\* holds it, hands not shaken.  joined: it shares pieces and is told of them.
\* draining: dropped and destroyed, its operations still to complete.
Stages == {"free", "hosted", "attached", "joined", "draining"}

Joined == {c \in Conns : life[c] = "joined"}

Init == life = [c \in Conns |-> "free"] /\ told = {}

\* The object a peer is accepted with, or one a turn of the timer's loop makes.
Begin(c, stage) ==
  /\ told = {} /\ life[c] = "free"
  /\ life' = [life EXCEPT ![c] = stage]
  /\ UNCHANGED told

\* The handshake, never undone: no connection goes back to its host, and none
\* that is being told of a piece moves.
Join(c) ==
  /\ told = {} /\ life[c] \in {"hosted", "attached"}
  /\ life' = [life EXCEPT ![c] = "joined"]
  /\ UNCHANGED told

\* A connection leaves at once or after the last of its operations, and only
\* then is there room for another.
Leave(c) ==
  /\ told = {} /\ life[c] # "free"
  /\ \E stage \in {"draining", "free"} : life' = [life EXCEPT ![c] = stage]
  /\ UNCHANGED told

\* Everyone who is joined is told, each once.
Notify == told = {} /\ told' = Joined /\ UNCHANGED life
Tell(c) == c \in told /\ told' = told \ {c} /\ UNCHANGED life

Next ==
  \/ \E c \in Conns :
       \/ Begin(c, "hosted") \/ Begin(c, "attached")
       \/ Join(c) \/ Leave(c) \/ Tell(c)
  \/ Notify

Spec == Init /\ [][Next]_lifeVars
=============================================================================
