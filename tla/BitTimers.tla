----------------------------- MODULE BitTimers ------------------------------
(***************************************************************************)
(* TimerService: the TimerQueue, a std::set of pointers that Schedule walks *)
(* with the member iterator schedule_it_, and the callbacks, which add and *)
(* delete any timer and set any deadline while it walks.  Timers are       *)
(* numbers, so that they have the order of their addresses; the clock is   *)
(* GetTickCount, which wraps.                                              *)
(***************************************************************************)
EXTENDS Naturals, FiniteSets, FiniteSetsExt

CONSTANTS
  TimerCount,  \* the timers are 1..TimerCount
  ClockSize,   \* how many values the clock has, a DWORD: 2^32
  Delays,      \* what SetDeadline is called with
  MaxTime      \* bound: when the clock stops

Timers == 1 .. TimerCount
Wrap(n) == n % ClockSize
Invalid == ClockSize - 1  \* time_traits::invalid()

VARIABLES
  time,         \* milliseconds since the start, never wrapped
  timers_,      \* the queue
  deadline_,    \* deadline_[t]
  schedule_it_, \* the timer the iterator stands at, or End
  pass,         \* "idle", "walking", or "callback" of the current timer
  current,      \* the timer visited last in this pass: what was due then, and if it fired
  pass_time,    \* the time Schedule took as its now
  due,          \* due[t]: when t is to fire; Never has an epoch of its own
  unvisited     \* timers queued since the pass began and not visited yet

timerVars == <<time, timers_, deadline_, schedule_it_, pass, current, pass_time, due, unvisited>>

End == TimerCount + 1
Never == ClockSize * (MaxTime + 1)

Nobody == [timer |-> 0, due |-> Never, fired |-> FALSE]

\* The element of the set that follows t, or end().
Following(t, set) == Min({u \in set : u > t} \cup {End})

TimersInit ==
  /\ time = 0 /\ timers_ = {} /\ schedule_it_ = End
  /\ deadline_ = [t \in Timers |-> Invalid]
  /\ pass = "idle" /\ current = Nobody /\ pass_time = 0
  /\ due = [t \in Timers |-> Never] /\ unvisited = {}

Tick ==
  /\ time < MaxTime
  /\ time' = time + 1
  /\ UNCHANGED <<timers_, deadline_, schedule_it_, pass, current, pass_time, due, unvisited>>

-----------------------------------------------------------------------------
(* What a handler, or a callback in the middle of a pass, may call.        *)

Calls == pass # "walking"

SetDeadline(t, delay) ==
  /\ Calls
  /\ deadline_' = [deadline_ EXCEPT ![t] = Wrap(Wrap(time) + delay)]
  /\ due' = [due EXCEPT ![t] = time + delay]
  /\ UNCHANGED <<time, timers_, schedule_it_, pass, current, pass_time, unvisited>>

AddTimer(t) ==
  /\ Calls /\ t \notin timers_
  /\ timers_' = timers_ \cup {t}
  /\ UNCHANGED <<time, deadline_, schedule_it_, pass, current, pass_time, due, unvisited>>

\* The iterator is left at the node that is erased.
DelWithoutAdvance(t) ==
  /\ Calls /\ t \in timers_
  /\ timers_' = timers_ \ {t}
  /\ unvisited' = unvisited \ {t}
  /\ UNCHANGED <<time, deadline_, schedule_it_, pass, current, pass_time, due>>

DelTimer(t) ==
  /\ Calls /\ t \in timers_
  /\ schedule_it_' = IF schedule_it_ = t THEN Following(t, timers_) ELSE schedule_it_
  /\ timers_' = timers_ \ {t}
  /\ unvisited' = unvisited \ {t}
  /\ UNCHANGED <<time, deadline_, pass, current, pass_time, due>>

-----------------------------------------------------------------------------
(* TimerQueue::Schedule.                                                   *)

Schedule ==
  /\ pass = "idle"
  /\ pass_time' = time
  /\ schedule_it_' = Following(0, timers_)
  /\ pass' = "walking" /\ current' = Nobody /\ unvisited' = timers_
  /\ UNCHANGED <<time, timers_, deadline_, due>>

ScheduleTimer ==
  /\ pass = "walking" /\ schedule_it_ # End
  /\ LET t == schedule_it_
         fired == deadline_[t] <= Wrap(pass_time)
     IN  /\ current' = [timer |-> t, due |-> due[t], fired |-> fired]
         /\ schedule_it_' = Following(t, timers_)
         /\ pass' = IF fired THEN "callback" ELSE "walking"
         /\ unvisited' = unvisited \ {t}
  /\ UNCHANGED <<time, timers_, deadline_, pass_time, due>>

CallbackReturns ==
  /\ pass = "callback"
  /\ pass' = "walking"
  /\ UNCHANGED <<time, timers_, deadline_, schedule_it_, current, pass_time, due, unvisited>>

ScheduleReturns ==
  /\ pass = "walking" /\ schedule_it_ = End
  /\ pass' = "idle" /\ current' = Nobody /\ pass_time' = 0 /\ unvisited' = {}
  /\ UNCHANGED <<time, timers_, deadline_, schedule_it_, due>>

TimersNext ==
  \/ Tick
  \/ \E t \in Timers : AddTimer(t) \/ DelTimer(t) \/ \E delay \in Delays : SetDeadline(t, delay)
  \/ Schedule \/ ScheduleTimer \/ CallbackReturns \/ ScheduleReturns

TimersSpec == TimersInit /\ [][TimersNext]_timerVars

-----------------------------------------------------------------------------
(* Properties.                                                             *)

\* Times that no wrap of the clock separates.
SameEpoch(a, b) == a \div ClockSize = b \div ClockSize

\* Whatever the callbacks add, delete and set while Schedule walks the queue, its
\* iterator stands at a timer of the queue or at the end; it only goes forward, so
\* that no timer is visited twice in a pass and every pass ends; and it has still
\* before it every timer that was queued when the pass began and is not deleted.
\* A callback runs at its due time or later, and a timer that was passed by was
\* not due, unless the clock wrapped between the two: then a timer fires up to a
\* delay too early, or only after the next wrap.
TimersFire ==
  pass # "idle" =>
    /\ schedule_it_ \in timers_ \cup {End}
    /\ schedule_it_ > current.timer
    /\ \A t \in unvisited : t \in timers_ /\ t >= schedule_it_
    /\ SameEpoch(current.due, pass_time) => (current.fired <=> current.due <= pass_time)
=============================================================================
