----------------------------- MODULE BitTracker -----------------------------
(***************************************************************************)
(* BitTrackerConnection with its reconnect_timer_ and BitNetProcessor, and *)
(* the ResolveService that finds the address of its host on a thread of    *)
(* its own, from BitTask's constructor to the end of the program, which an *)
(* exception may bring at any time.  Handlers, timer callbacks and the     *)
(* resolved addresses are taken one after another by the main thread.      *)
(***************************************************************************)
EXTENDS Naturals, FiniteSets

CONSTANT Trackers  \* the announce list of the torrent

VARIABLES
  main,           \* where the main thread is
  address,        \* host_address_
  np,             \* net_processor_
  timer,          \* reconnect_timer_ is in the timer queue
  updates,        \* BitTask::Complete is still to call UpdateTrackerInfo
  resolver_list,  \* the requests nobody has taken
  data,           \* those the resolve thread has taken
  result_list,    \* those it has answered
  event,          \* event_, an auto-reset event
  exit_flag,      \* thread_exit_flag_
  thread          \* where the resolve thread is

loopVars == <<address, np, timer, updates>>
threadVars == <<resolver_list, data, event, exit_flag, thread>>
trackerVars == <<main, loopVars, threadVars, result_list>>

None == [open |-> FALSE]
Processor == [open |-> TRUE, opening |-> TRUE, connecting |-> FALSE,
              receiving |-> FALSE, sends |-> 0]

\* A processor that is closed, and one for which no Close can come any more.
Closed(t) == np[t].open /\ ~np[t].opening /\ ~np[t].connecting
Stuck(t) == Closed(t) /\ ~np[t].receiving /\ np[t].sends = 0

-----------------------------------------------------------------------------
(* The tracker connection: operators on [np, timer, address] of a tracker. *)

State(t) == [np |-> np[t], timer |-> timer[t], address |-> address[t]]
Set(t, s) ==
  /\ np' = [np EXCEPT ![t] = s.np]
  /\ timer' = [timer EXCEPT ![t] = s.timer]
  /\ address' = [address EXCEPT ![t] = s.address]

\* ClearNetProcessor and StartReconnectTimer.
OnDisconnect(s) == [s EXCEPT !.np = None, !.timer = TRUE]

\* BitNetProcessor::Close, after which OnDisconnect may come.
Close(s) ==
  LET closed == [s EXCEPT !.np.connecting = FALSE]
  IN  IF s.np.receiving \/ s.np.sends > 0 THEN closed ELSE OnDisconnect(closed)

\* Connect of a new processor; ok tells whether AsyncConnect is accepted.
Connect(s, ok) ==
  IF ok THEN [s EXCEPT !.np = Processor]
        ELSE Close([s EXCEPT !.np = [Processor EXCEPT !.opening = FALSE]])
ConnectTracker(s, ok) ==
  IF s.np.open \/ s.address # "known" THEN s ELSE Connect(s, ok)

\* Send of the request, and Receive.
SendRequest(s, ok) == IF ok THEN [s EXCEPT !.np.sends = 1] ELSE Close(s)
Receive(s, ok) ==
  IF ~s.np.open \/ ~s.np.connecting THEN s
  ELSE IF ok THEN [s EXCEPT !.np.receiving = TRUE] ELSE Close(s)

\* A whole response: the connection closes its processor.
ProcessProtocol(s) == IF s.np.open THEN Close(s) ELSE s

ConnectThenClose(s, ok) == [ConnectTracker(s, ok) EXCEPT !.timer = FALSE]
ReconnectTimerCallback(s, ok) == ConnectTracker([s EXCEPT !.timer = FALSE], ok)

\* ResolveHandler; an address that was not found is an empty result.
ResolveHandler(s, found, ok) ==
  ConnectTracker([s EXCEPT !.address = IF found THEN "known" ELSE "none"], ok)

-----------------------------------------------------------------------------
Init ==
  /\ main = "creating"
  /\ address = [t \in Trackers |-> "unknown"]
  /\ np = [t \in Trackers |-> None]
  /\ timer = [t \in Trackers |-> FALSE]
  /\ updates = Trackers
  /\ resolver_list = {} /\ data = {} /\ result_list = {}
  /\ event = FALSE /\ exit_flag = FALSE /\ thread = "waiting"

\* CreateTrackerConnection: a connection for each tracker, whose constructor asks
\* for its address.  PrepareResolve puts the request into the list, RequestResolve
\* sets the event.
Asked == resolver_list \cup data \cup result_list
CreateTrackerConnection == IF Asked = Trackers THEN "running" ELSE "creating"
BitTrackerConnection(t) == main = "creating" /\ t \notin Asked
PrepareResolve(t) ==
  /\ BitTrackerConnection(t)
  /\ resolver_list' = resolver_list \cup {t}
  /\ main' = "requesting"
  /\ UNCHANGED <<loopVars, data, event, exit_flag, thread, result_list>>
RequestResolve ==
  /\ main = "requesting"
  /\ event' = TRUE
  /\ main' = CreateTrackerConnection
  /\ UNCHANGED <<loopVars, resolver_list, data, exit_flag, thread, result_list>>

\* ProcessResult: every answer, in one go, to its ResolveHandler.
ProcessResult ==
  /\ main = "running" /\ result_list # {}
  /\ \E known \in SUBSET result_list, ok \in SUBSET result_list :
       LET s == [t \in Trackers |->
             IF t \in result_list THEN ResolveHandler(State(t), t \in known, t \in ok)
                                  ELSE State(t)]
       IN  /\ np' = [t \in Trackers |-> s[t].np]
           /\ timer' = [t \in Trackers |-> s[t].timer]
           /\ address' = [t \in Trackers |-> s[t].address]
  /\ result_list' = {}
  /\ UNCHANGED <<main, updates, threadVars>>

\* The handlers of a processor the tracker connection still has.  One that the
\* connection has let go of has no operation left, or is destroyed with it.
Handler(t) == main = "running" /\ np[t].open /\ UNCHANGED <<main, updates, threadVars, result_list>>

ConnectHandler(t) ==
  /\ Handler(t) /\ np[t].opening
  /\ LET s == [State(t) EXCEPT !.np.opening = FALSE]
     IN  \/ Set(t, Close(s))
         \/ \E sent, received \in BOOLEAN :
              Set(t, Receive(SendRequest([s EXCEPT !.np.connecting = TRUE], sent), received))

ReceiveHandler(t) ==
  /\ Handler(t) /\ np[t].receiving
  /\ LET s == [State(t) EXCEPT !.np.receiving = FALSE]
     IN  \/ Set(t, Close(s))
         \/ \E ok \in BOOLEAN : \/ Set(t, Receive(s, ok))
                                \/ Set(t, ProcessProtocol(Receive(s, ok)))

SendHandler(t) ==
  /\ Handler(t) /\ np[t].sends > 0
  /\ LET s == [State(t) EXCEPT !.np.sends = 0]
     IN  Set(t, s) \/ Set(t, Close(s))

ReconnectTimer(t) ==
  /\ main = "running" /\ timer[t]
  /\ \E ok \in BOOLEAN : Set(t, ReconnectTimerCallback(State(t), ok))
  /\ UNCHANGED <<main, updates, threadVars, result_list>>

UpdateTrackerInfo(t) ==
  /\ main = "running" /\ t \in updates
  /\ \E ok \in BOOLEAN : Set(t, ConnectTracker(State(t), ok))
  /\ updates' = updates \ {t}
  /\ UNCHANGED <<main, threadVars, result_list>>

-----------------------------------------------------------------------------
(* The resolve thread, and the end of the service.                         *)

WaitForever ==
  /\ thread = "waiting" /\ event
  /\ event' = FALSE /\ thread' = "woken"
  /\ UNCHANGED <<main, loopVars, resolver_list, data, exit_flag, result_list>>
TakeRequests ==
  /\ thread = "woken"
  /\ IF exit_flag THEN thread' = "exited" /\ UNCHANGED <<resolver_list, data>>
     ELSE thread' = "resolving" /\ data' = resolver_list /\ resolver_list' = {}
  /\ UNCHANGED <<main, loopVars, event, exit_flag, result_list>>
ResolvedThenReset ==
  /\ thread = "resolving"
  /\ thread' = "waiting" /\ result_list' = result_list \cup data /\ data' = {} /\ event' = FALSE
  /\ UNCHANGED <<main, loopVars, resolver_list, exit_flag>>
Resolved ==
  /\ thread = "resolving"
  /\ thread' = "waiting" /\ result_list' = result_list \cup data /\ data' = {}
  /\ UNCHANGED <<main, loopVars, resolver_list, event, exit_flag>>

\* An exception ends main: the connections go first, with their timers and
\* processors, then the service, which stops its thread.
Stop ==
  /\ main = "running"
  /\ main' = "stopping"
  /\ np' = [t \in Trackers |-> None] /\ timer' = [t \in Trackers |-> FALSE]
  /\ UNCHANGED <<address, updates, threadVars, result_list>>
SetExitFlag ==
  /\ main = "stopping"
  /\ main' = "joining" /\ exit_flag' = TRUE
  /\ UNCHANGED <<loopVars, resolver_list, data, event, thread, result_list>>
SetExitEvent ==
  /\ main = "joining"
  /\ main' = "join" /\ event' = TRUE
  /\ UNCHANGED <<loopVars, resolver_list, data, exit_flag, thread, result_list>>
Join ==
  /\ main = "join" /\ thread = "exited"
  /\ main' = "stopped"
  /\ UNCHANGED <<loopVars, threadVars, result_list>>

Main == RequestResolve \/ ProcessResult \/ SetExitFlag \/ SetExitEvent \/ Join
          \/ \E t \in Trackers : PrepareResolve(t)
Thread == WaitForever \/ TakeRequests \/ Resolved

Next ==
  \/ Main \/ Thread \/ Stop
  \/ \E t \in Trackers :
       \/ ConnectHandler(t) \/ ReceiveHandler(t) \/ SendHandler(t)
       \/ ReconnectTimer(t) \/ UpdateTrackerInfo(t)

\* Both threads go on, timers come due, a connect is answered or times out, and
\* closing a socket ends what is under way on it.  Nothing makes a tracker that
\* has accepted the connection answer.
Fairness ==
  /\ WF_trackerVars(Main) /\ WF_trackerVars(Thread)
  /\ \A t \in Trackers :
       /\ WF_trackerVars(ReconnectTimer(t)) /\ WF_trackerVars(ConnectHandler(t))
       /\ WF_trackerVars(Closed(t) /\ ReceiveHandler(t))
       /\ WF_trackerVars(Closed(t) /\ SendHandler(t))

Spec == Init /\ [][Next]_trackerVars /\ Fairness

-----------------------------------------------------------------------------
(* Properties.                                                             *)

\* A tracker whose address is known is connected to again and again: whenever
\* there is no connection or a closed one, a new one is tried, after a refusal,
\* a failed connect, a lost connection or a response alike.  The exception is a
\* processor closed whose last operation ends well, as no Close follows it: the
\* connection then keeps it for good, with no timer, and is Stuck.
TrackerKeepsTrying ==
  \A t \in Trackers :
    (main = "running" /\ address[t] = "known" /\ (~np[t].open \/ Closed(t)))
      ~> (main # "running" \/ Stuck(t) \/ (np[t].open /\ np[t].opening))

\* No request is lost between PrepareResolve, the auto-reset event and the lists:
\* every tracker hears of its address, found or not, unless the program ends
\* before, and at the end the thread leaves and is joined.
ResolveAnswered ==
  /\ \A t \in Trackers :
       t \in Asked ~> (address[t] # "unknown" \/ main \in {"stopping", "joining", "join", "stopped"})
  /\ main = "stopping" ~> main = "stopped"
=============================================================================
