------------------------- MODULE BitServicesProofs -------------------------
(***************************************************************************)
(* Three services below the connections whose proofs are arithmetic.       *)
(* The timers: why the walk of TimerQueue::Schedule stays valid and        *)
(* complete while the callbacks add, delete and set timers, and why a      *)
(* deadline that wraps is right within one epoch of the clock.  The        *)
(* buffers: why no two share a byte and no cell of a chunk is lost.  The   *)
(* maps: why the search by halves finds the first piece that is wanted.    *)
(* All for constants of any value.                                         *)
(***************************************************************************)
EXTENDS BitTimers, BitBuffers, BitPieceMaps, Integers, FiniteSetTheorems, WellFoundedInduction, TLAPS

-----------------------------------------------------------------------------
(* Numbers. *)

\* Division by a number that is not zero.
LEMMA Division ==
  ASSUME NEW n \in Nat, NEW k \in Nat \ {0}
  PROVE  n % k \in 0 .. k - 1 /\ n \div k \in Nat /\ n = k * (n \div k) + (n % k)
OBVIOUS

\* The same with names for the quotient and the rest.
LEMMA Quotient ==
  ASSUME NEW n \in Nat, NEW k \in Nat \ {0}
  PROVE  \E q \in Nat, r \in Nat : n \div k = q /\ n % k = r /\ r < k /\ n = k * q + r
<1>1. n % k \in 0 .. k - 1 /\ n \div k \in Nat /\ n = k * (n \div k) + (n % k)
  BY Division
<1>2. PICK q \in Nat : n \div k = q
  BY <1>1
<1>3. PICK r \in Nat : n % k = r
  BY <1>1
<1>4. r < k /\ n = k * q + r
  BY <1>1, <1>2, <1>3
<1> QED BY <1>2, <1>3, <1>4

\* The quotient and the remainder of a sum of multiples and a rest.
LEMMA OfSum ==
  ASSUME NEW q \in Nat, NEW r \in Nat, NEW k \in Nat \ {0}, r < k
  PROVE  (k * q + r) \div k = q /\ (k * q + r) % k = r
OBVIOUS

\* A set of numbers has a least one.
LEMMA LeastNumber ==
  ASSUME NEW S \in SUBSET Nat, S # {}
  PROVE  \E x \in S : \A y \in S : x <= y
<1> DEFINE R == {ss \in Nat \X Nat : ss[1] < ss[2]}
<1>1. OpToRel(<, Nat) = R
  BY DEF OpToRel
<1>2. IsWellFoundedOn(R, Nat)
  BY <1>1, NatLessThanWellFounded
<1>3. \A x, y \in Nat : y < x => <<y, x>> \in R
  OBVIOUS
<1> HIDE DEF R
<1>4. PICK x \in S : \A y \in S : <<y, x>> \notin R
  BY <1>2, WFMin
<1>5. \A y \in S : x <= y
  <2>1. \A y \in S : ~(y < x) /\ y \in Nat /\ x \in Nat
    BY <1>3, <1>4
  <2> QED BY <2>1
<1> QED BY <1>4, <1>5

\* The same with the name the models use.
LEMMA LeastOf ==
  ASSUME NEW S \in SUBSET Nat, S # {}
  PROVE  Min(S) \in S /\ \A y \in S : Min(S) <= y
<1>1. \E x \in S : \A y \in S : x <= y
  BY LeastNumber
<1> QED BY <1>1 DEF Min

-----------------------------------------------------------------------------
(* The timers.                                                             *)

\* What is assumed of the constants of the clock.
ClockAssumption ==
  /\ TimerCount \in Nat /\ MaxTime \in Nat
  /\ ClockSize \in Nat \ {0} /\ Delays \subseteq Nat

Types ==
  /\ time \in 0 .. MaxTime /\ pass_time \in 0 .. MaxTime
  /\ timers_ \in SUBSET Timers
  /\ deadline_ \in [Timers -> Nat] /\ due \in [Timers -> Nat]
  /\ pass \in {"idle", "walking", "callback"}
  /\ current \in [timer : 0 .. TimerCount, due : Nat, fired : BOOLEAN]

\* A deadline is the wrapped time the timer is due, or none was set.
Deadlines ==
  \A t \in Timers : deadline_[t] = Wrap(due[t]) \/ due[t] = Never

\* Where the iterator is, between passes too, and what is before it.
Walk ==
  /\ schedule_it_ \in timers_ \cup {End}
  /\ pass # "idle" => schedule_it_ > current.timer
  /\ \A t \in unvisited : t \in timers_ /\ t >= schedule_it_
  /\ pass = "idle" => schedule_it_ = End

\* The timer visited last was due if and only if it fired, within an epoch.
OnTime ==
  pass # "idle" /\ SameEpoch(current.due, pass_time) => (current.fired <=> current.due <= pass_time)

Inv == Types /\ Deadlines /\ Walk /\ OnTime

-----------------------------------------------------------------------------
(* The clock. *)

\* Whole epochs do not change what the clock shows.
LEMMA WholeEpochs ==
  ASSUME NEW a \in Nat, NEW q \in Nat, NEW k \in Nat \ {0}
  PROVE  (k * q + a) % k = a % k
<1> DEFINE p == a \div k
           r == a % k
<1>1. a = k * p + r /\ r \in Nat /\ r < k /\ p \in Nat
  BY Division
<1> HIDE DEF p, r
<1>2. k * q + a = k * (q + p) + r /\ q + p \in Nat
  BY <1>1
<1>3. (k * (q + p) + r) % k = r
  BY <1>1, <1>2, OfSum
<1> QED BY <1>2, <1>3 DEF r

\* SetDeadline adds a delay to a time that has wrapped: no harm is done.
LEMMA WrapTwice ==
  ASSUME ClockAssumption, NEW a \in Nat, NEW b \in Nat
  PROVE  Wrap(Wrap(a) + b) = Wrap(a + b)
<1> DEFINE k == ClockSize
           p == a \div k
           r == a % k
<1>1. a = k * p + r /\ r \in Nat /\ p \in Nat /\ k \in Nat \ {0}
  BY Division DEF ClockAssumption
<1> HIDE DEF k, p, r
<1>2. a + b = k * p + (r + b) /\ r + b \in Nat
  BY <1>1
<1>3. (k * p + (r + b)) % k = (r + b) % k
  BY <1>1, <1>2, WholeEpochs
<1> QED BY <1>2, <1>3 DEF Wrap, r, k

\* What the clock shows.
LEMMA WrapType ==
  ASSUME ClockAssumption, NEW n \in Nat
  PROVE  Wrap(n) \in Nat
BY Division DEF Wrap, ClockAssumption

\* Within an epoch remainders are ordered like the numbers.
LEMMA OrderOfRemainders ==
  ASSUME NEW a \in Nat, NEW b \in Nat, NEW k \in Nat \ {0}, a \div k = b \div k
  PROVE  a % k <= b % k <=> a <= b
OBVIOUS

\* A number is not less than its epoch.
LEMMA EpochBound ==
  ASSUME NEW n \in Nat, NEW k \in Nat \ {0}
  PROVE  n \div k \in Nat /\ n \div k <= n
OBVIOUS

\* Within an epoch the clock has the order of the times.
LEMMA WrapOrder ==
  ASSUME ClockAssumption, NEW a \in Nat, NEW b \in Nat, SameEpoch(a, b)
  PROVE  Wrap(a) <= Wrap(b) <=> a <= b
BY OrderOfRemainders DEF Wrap, SameEpoch, ClockAssumption

\* No time the clock comes to is in the epoch of Never.
LEMMA NeverIsLater ==
  ASSUME ClockAssumption, NEW n \in 0 .. MaxTime
  PROVE  ~SameEpoch(Never, n) /\ Never \in Nat
<1> DEFINE k == ClockSize
           m == MaxTime + 1
<1>1. k \in Nat \ {0} /\ n \in Nat /\ m \in Nat /\ n < m /\ 0 \in Nat /\ 0 < k
  BY DEF ClockAssumption
<1> HIDE DEF k, m
<1>2. k * m \in Nat /\ (k * m + 0) \div k = m /\ k * m + 0 = k * m
  BY <1>1, OfSum
<1>3. n \div k \in Nat /\ n \div k <= n
  BY <1>1, EpochBound
<1>4. n \div k # m
  BY <1>1, <1>3
<1> QED BY <1>2, <1>4 DEF SameEpoch, Never, k, m

-----------------------------------------------------------------------------
(* The queue. *)

\* The next timer of the queue: none lies between.
LEMMA FollowingIsNext ==
  ASSUME ClockAssumption, NEW set \in SUBSET Timers, NEW t \in 0 .. TimerCount
  PROVE  /\ Following(t, set) \in set \cup {End} /\ Following(t, set) > t
         /\ \A u \in set : u > t => u >= Following(t, set)
<1> DEFINE S == {u \in set : u > t} \cup {End}
<1>1. S \in SUBSET Nat /\ S # {} /\ \A u \in S : u > t
  <2>1. TimerCount \in Nat /\ t \in Nat /\ t <= TimerCount /\ End = TimerCount + 1
    BY DEF ClockAssumption, End
  <2>2. \A u \in set : u \in Nat
    BY <2>1 DEF Timers
  <2> QED BY <2>1, <2>2
<1>2. S \subseteq set \cup {End} /\ \A u \in set : u > t => u \in S
  OBVIOUS
<1>3. Following(t, set) = Min(S)
  BY DEF Following
<1> HIDE DEF S
<1>4. Min(S) \in S /\ \A y \in S : Min(S) <= y
  BY <1>1, LeastOf
<1>5. \A u \in set : u > t => u >= Min(S)
  <2> SUFFICES ASSUME NEW u \in set, u > t PROVE u >= Min(S)
    OBVIOUS
  <2>1. u \in S /\ Min(S) \in S
    BY <1>2, <1>4
  <2>2. u \in Nat /\ Min(S) \in Nat /\ Min(S) <= u
    BY <1>1, <1>4, <2>1
  <2> QED BY <2>2
<1> QED BY <1>1, <1>2, <1>3, <1>4, <1>5

-----------------------------------------------------------------------------
(* The steps. *)

\* At first the queue is empty, and no pass is under way.
LEMMA InitInv ==
  ASSUME ClockAssumption, TimersInit
  PROVE  Inv
<1>1. Never \in Nat /\ Invalid \in Nat
  <2>1. 0 \in 0 .. MaxTime
    BY DEF ClockAssumption
  <2> QED BY <2>1, NeverIsLater DEF Invalid, ClockAssumption
<1>2. Types
  BY <1>1 DEF TimersInit, Types, Nobody, ClockAssumption
<1>3. Deadlines /\ Walk /\ OnTime
  BY DEF TimersInit, Deadlines, Walk, OnTime
<1> QED BY <1>2, <1>3 DEF Inv

\* Every step keeps the types.
LEMMA StepTypes ==
  ASSUME ClockAssumption, Inv, [TimersNext]_timerVars
  PROVE  Types'
<1>t. Types /\ Walk
  BY DEF Inv
<1>n. Nobody \in [timer : 0 .. TimerCount, due : Nat, fired : BOOLEAN] /\ 0 \in 0 .. MaxTime
  <2>1. 0 \in 0 .. MaxTime /\ 0 \in 0 .. TimerCount
    BY DEF ClockAssumption
  <2> QED BY <2>1, NeverIsLater DEF Nobody
<1>1. CASE Tick
  BY <1>t, <1>1 DEF Tick, Types, ClockAssumption
<1>2. ASSUME NEW t \in Timers, AddTimer(t) \/ DelTimer(t) PROVE Types'
  BY <1>t, <1>2 DEF AddTimer, DelTimer, Types
<1>3. ASSUME NEW t \in Timers, NEW delay \in Delays, SetDeadline(t, delay) PROVE Types'
  <2>1. time \in Nat /\ delay \in Nat /\ Wrap(time) \in Nat
    BY <1>t, WrapType DEF Types, ClockAssumption
  <2>2. time + delay \in Nat /\ Wrap(Wrap(time) + delay) \in Nat
    BY <2>1, WrapType
  <2> QED BY <1>t, <1>3, <2>2 DEF SetDeadline, Types
<1>4. CASE Schedule \/ ScheduleReturns
  BY <1>t, <1>n, <1>4 DEF Schedule, ScheduleReturns, Types
<1>5. CASE ScheduleTimer
  <2> DEFINE u == schedule_it_
  <2>1. u \in Timers /\ u \in 0 .. TimerCount
    BY <1>t, <1>5 DEF ScheduleTimer, Walk, Types, Timers
  <2>2. current' = [timer |-> u, due |-> due[u], fired |-> deadline_[u] <= Wrap(pass_time)]
    BY <1>5 DEF ScheduleTimer
  <2>3. due[u] \in Nat
    BY <1>t, <2>1 DEF Types
  <2>4. (deadline_[u] <= Wrap(pass_time)) \in BOOLEAN
    OBVIOUS
  <2> HIDE DEF u
  <2>5. current' \in [timer : 0 .. TimerCount, due : Nat, fired : BOOLEAN]
    BY <2>1, <2>2, <2>3, <2>4
  <2> QED BY <1>t, <1>5, <2>5 DEF ScheduleTimer, Types
<1>6. CASE CallbackReturns
  BY <1>t, <1>6 DEF CallbackReturns, Types
<1>7. CASE UNCHANGED timerVars
  BY <1>t, <1>7 DEF timerVars, Types
<1> QED BY <1>1, <1>2, <1>3, <1>4, <1>5, <1>6, <1>7 DEF TimersNext

\* Only SetDeadline changes a deadline, and the time it is for.
LEMMA StepDeadlines ==
  ASSUME ClockAssumption, Inv, [TimersNext]_timerVars
  PROVE  Deadlines'
<1>t. Types /\ Deadlines
  BY DEF Inv
<1>1. CASE UNCHANGED <<deadline_, due>>
  BY <1>t, <1>1 DEF Deadlines, Wrap, Never
<1>2. ASSUME NEW t \in Timers, NEW delay \in Delays, SetDeadline(t, delay) PROVE Deadlines'
  <2>1. /\ time \in Nat /\ delay \in Nat
        /\ Wrap(Wrap(time) + delay) = Wrap(time + delay)
    BY <1>t, WrapTwice DEF Types, ClockAssumption
  <2>2. deadline_'[t] = Wrap(time + delay) /\ due'[t] = time + delay
    BY <1>t, <1>2, <2>1 DEF SetDeadline, Types
  <2>3. \A u \in Timers : u # t => deadline_'[u] = deadline_[u] /\ due'[u] = due[u]
    BY <1>t, <1>2 DEF SetDeadline, Types
  <2> QED BY <1>t, <2>2, <2>3 DEF Deadlines
<1>3. CASE UNCHANGED timerVars
  BY <1>1, <1>3 DEF timerVars
<1> QED
  BY <1>1, <1>2, <1>3
  DEF TimersNext, Tick, AddTimer, DelTimer, Schedule, ScheduleTimer, CallbackReturns, ScheduleReturns

\* The iterator goes forward only, past no timer of the queue.
LEMMA StepWalk ==
  ASSUME ClockAssumption, Inv, [TimersNext]_timerVars
  PROVE  Walk'
<1>t. /\ Types /\ Walk /\ timers_ \in SUBSET Timers /\ TimerCount \in Nat
      /\ \A t \in Timers : t \in Nat /\ t \in 0 .. TimerCount /\ t # End
      /\ schedule_it_ \in Nat /\ current.timer \in Nat
      /\ \A t \in unvisited : t \in Nat
  <2>1. Types /\ Walk /\ timers_ \in SUBSET Timers /\ TimerCount \in Nat
    BY DEF Inv, Types, ClockAssumption
  <2>2. /\ \A t \in Timers : t \in Nat /\ t \in 0 .. TimerCount /\ t # End
        /\ End \in Nat
    BY <2>1 DEF Timers, End
  <2>3. \A t \in timers_ : t \in Nat
    BY <2>1, <2>2
  <2>4. schedule_it_ \in Nat /\ \A t \in unvisited : t \in Nat
    BY <2>1, <2>2, <2>3 DEF Walk
  <2>5. current.timer \in Nat
    BY <2>1 DEF Types
  <2> QED BY <2>1, <2>2, <2>4, <2>5
<1>1. CASE UNCHANGED <<timers_, schedule_it_, pass, current, unvisited>>
  BY <1>t, <1>1 DEF Walk, End
<1>2. ASSUME NEW t \in Timers, AddTimer(t) PROVE Walk'
  BY <1>t, <1>2 DEF AddTimer, Walk, End
<1>3. ASSUME NEW t \in Timers, DelTimer(t) PROVE Walk'
  <2>1. /\ t \in timers_ /\ timers_' = timers_ \ {t} /\ unvisited' = unvisited \ {t}
        /\ schedule_it_' = IF schedule_it_ = t THEN Following(t, timers_) ELSE schedule_it_
        /\ UNCHANGED <<pass, current>>
    BY <1>3 DEF DelTimer
  <2>2. CASE schedule_it_ # t
    BY <1>t, <2>1, <2>2 DEF Walk, End
  <2>3. CASE schedule_it_ = t
    <3> DEFINE f == Following(t, timers_)
    <3>1. /\ f \in timers_ \cup {End} /\ f > t /\ \A u \in timers_ : u > t => u >= f
      BY <1>t, FollowingIsNext
    <3>2. f \in Nat /\ schedule_it_' = f /\ pass # "idle"
      <4>1. End \in Nat /\ \A u \in timers_ : u \in Nat
        BY <1>t DEF End
      <4>2. pass # "idle"
        BY <1>t, <2>3 DEF Walk
      <4> QED BY <2>1, <2>3, <3>1, <4>1, <4>2
    <3> HIDE DEF f
    <3>3. f \in timers_' \cup {End}
      BY <1>t, <2>1, <3>1
    <3>4. f > current.timer
      BY <1>t, <2>3, <3>1, <3>2 DEF Walk
    <3>5. ASSUME NEW u \in unvisited' PROVE u \in timers_' /\ u >= f
      <4>1. u \in timers_ /\ u # t /\ u >= t /\ u \in Nat
        BY <1>t, <2>1, <2>3 DEF Walk
      <4>2. u > t
        BY <1>t, <4>1
      <4> QED BY <2>1, <3>1, <4>1, <4>2
    <3> QED BY <2>1, <3>2, <3>3, <3>4, <3>5 DEF Walk, End
  <2> QED BY <2>2, <2>3
<1>4. CASE Schedule
  <2> DEFINE f == Following(0, timers_)
  <2>1. /\ f \in timers_ \cup {End} /\ f > 0 /\ \A u \in timers_ : u > 0 => u >= f
    <3>1. 0 \in 0 .. TimerCount
      BY <1>t
    <3> QED BY <1>t, <3>1, FollowingIsNext
  <2>2. /\ schedule_it_' = f /\ unvisited' = timers_ /\ timers_' = timers_
        /\ current'.timer = 0 /\ pass' = "walking"
    BY <1>4 DEF Schedule, Nobody
  <2>3. \A u \in timers_ : u > 0
    BY <1>t DEF Timers
  <2> HIDE DEF f
  <2> QED BY <2>1, <2>2, <2>3 DEF Walk, End
<1>5. CASE ScheduleTimer
  <2> DEFINE t == schedule_it_
             f == Following(t, timers_)
  <2>1. t \in timers_ /\ t \in 0 .. TimerCount /\ t \in Nat
    BY <1>t, <1>5 DEF ScheduleTimer, Walk
  <2>2. /\ f \in timers_ \cup {End} /\ f > t /\ \A u \in timers_ : u > t => u >= f
    BY <1>t, <2>1, FollowingIsNext
  <2>3. /\ schedule_it_' = f /\ unvisited' = unvisited \ {t} /\ timers_' = timers_
        /\ current'.timer = t /\ pass' \in {"walking", "callback"}
    BY <1>5 DEF ScheduleTimer
  <2>4. ASSUME NEW u \in unvisited' PROVE u \in timers_' /\ u >= f
    <3>1. u \in timers_ /\ u # t /\ u >= t /\ u \in Nat
      BY <1>t, <2>3 DEF Walk
    <3>2. u > t
      BY <2>1, <3>1
    <3> QED BY <2>2, <2>3, <3>1, <3>2
  <2> HIDE DEF t, f
  <2> QED BY <2>2, <2>3, <2>4 DEF Walk, End
<1>6. CASE CallbackReturns
  BY <1>t, <1>6 DEF CallbackReturns, Walk, End
<1>7. CASE ScheduleReturns
  BY <1>t, <1>7 DEF ScheduleReturns, Walk, End
<1>8. CASE UNCHANGED timerVars
  BY <1>1, <1>8 DEF timerVars
<1> QED BY <1>1, <1>2, <1>3, <1>4, <1>5, <1>6, <1>7, <1>8 DEF TimersNext, Tick, SetDeadline

\* What a timer did in the pass was right for the time of the pass.
LEMMA StepOnTime ==
  ASSUME ClockAssumption, Inv, [TimersNext]_timerVars
  PROVE  OnTime'
<1>t. /\ Types /\ Walk /\ Deadlines /\ OnTime
      /\ time \in 0 .. MaxTime /\ pass_time \in 0 .. MaxTime /\ pass_time \in Nat
  BY DEF Inv, Types, ClockAssumption
<1>1. CASE UNCHANGED <<pass, current, pass_time>>
  BY <1>t, <1>1 DEF OnTime, SameEpoch
<1>2. CASE Schedule
  <2>1. current'.due = Never /\ pass_time' \in 0 .. MaxTime
    BY <1>t, <1>2 DEF Schedule, Nobody, Never
  <2>2. ~SameEpoch(Never, pass_time')
    BY <2>1, NeverIsLater
  <2> QED BY <2>1, <2>2 DEF OnTime, SameEpoch
<1>3. CASE ScheduleTimer
  <2> DEFINE t == schedule_it_
  <2>1. t \in Timers /\ due[t] \in Nat
    BY <1>t, <1>3 DEF ScheduleTimer, Walk, Types
  <2>2. /\ current'.due = due[t] /\ (current'.fired <=> deadline_[t] <= Wrap(pass_time))
        /\ pass_time' = pass_time
    BY <1>3 DEF ScheduleTimer
  <2> HIDE DEF t
  <2>3. ASSUME SameEpoch(due[t], pass_time)
        PROVE  deadline_[t] <= Wrap(pass_time) <=> due[t] <= pass_time
    <3>1. due[t] # Never
      BY <1>t, <2>3, NeverIsLater
    <3>2. deadline_[t] = Wrap(due[t])
      BY <1>t, <2>1, <3>1 DEF Deadlines
    <3> QED BY <1>t, <2>1, <2>3, <3>2, WrapOrder
  <2> QED BY <2>2, <2>3 DEF OnTime, SameEpoch
<1>4. CASE CallbackReturns
  BY <1>t, <1>4 DEF CallbackReturns, OnTime, SameEpoch
<1>5. CASE ScheduleReturns
  BY <1>5 DEF ScheduleReturns, OnTime
<1>6. CASE UNCHANGED timerVars
  BY <1>1, <1>6 DEF timerVars
<1> QED
  BY <1>1, <1>2, <1>3, <1>4, <1>5, <1>6 DEF TimersNext, Tick, AddTimer, DelTimer, SetDeadline

\* The walk through the timers stays valid, goes forward and misses nobody, and a
\* timer fires at its due time or later but never before, within an epoch of the
\* clock (BasicTimerQueue::Schedule, DelTimer and BasicTimer::Schedule, SetDeadline
\* of src/timer).
THEOREM TimersAlwaysFire ==
  ASSUME ClockAssumption
  PROVE  TimersSpec => []TimersFire
<1>1. TimersInit => Inv
  BY InitInv
<1>2. Inv /\ [TimersNext]_timerVars => Inv'
  BY StepTypes, StepDeadlines, StepWalk, StepOnTime DEF Inv
<1>3. Inv => TimersFire
  BY DEF Inv, Walk, OnTime, TimersFire
<1> QED BY <1>1, <1>2, <1>3, PTL DEF TimersSpec

-----------------------------------------------------------------------------
(* The buffers.                                                            *)

\* What is assumed of DefaultBufferSizePolicy and of the sizes asked for: the
\* largest cell is a whole number of alignments, and there is a largest buffer.
BufferAssumption ==
  /\ MaxBufferSize \in Nat \ {0} /\ MaxNumPerChunk \in Nat \ {0}
  /\ AlignSize \in Nat \ {0} /\ MaxBufferSize % AlignSize = 0
  /\ Sizes \subseteq Nat \ {0} /\ \E m \in Sizes : \A s \in Sizes : m >= s
  /\ MaxLive \in Nat

Chunks == [buffersize_ : Nat \ {0}, maxnum_ : Nat \ {0}, buffers_ : Nat, first_ : Seq(Nat)]
Buffers == [data : Nat, len : Sizes]

\* The addresses where the cells of a chunk begin, and those a buffer owns.
Cells(c) == {c.buffers_ + k * c.buffersize_ : k \in 0 .. c.maxnum_ - 1}
Region(x) == x \div RegionSize

PoolTypes(pool, L) == pool \in Seq(Chunks) /\ IsFiniteSet(L) /\ L \subseteq Buffers

\* Chunks have the even regions for themselves, and fit into them.
Layout(pool) ==
  \A i \in DOMAIN pool :
    /\ pool[i].buffers_ = RegionSize * (2 * (i - 1))
    /\ pool[i].maxnum_ * pool[i].buffersize_ <= MaxBufferSize

\* The list first_ begins holds cells of its chunk, each once.
FreeLists(pool) ==
  \A i \in DOMAIN pool :
    IsInjective(pool[i].first_) /\ ToSet(pool[i].first_) \subseteq Cells(pool[i])

\* A big buffer has an odd region, a small one is a cell that is not free.
BigPlace(b) == BigThanMax(b.len) /\ \E n \in Nat : b.data = RegionSize * (2 * n + 1)
CellOf(pool, i, b) ==
  /\ pool[i].buffersize_ = GetUpBoundSize(b.len)
  /\ b.data \in Cells(pool[i]) /\ b.data \notin ToSet(pool[i].first_)
SmallPlace(pool, b) == ~BigThanMax(b.len) /\ \E i \in DOMAIN pool : CellOf(pool, i, b)
Places(pool, L) == \A b \in L : BigPlace(b) \/ SmallPlace(pool, b)

Unique(L) == \A b, c \in L : b.data = c.data => b = c

\* A cell that is not free is a live buffer.
NoneLost(pool, L) ==
  \A i \in DOMAIN pool : \A x \in Cells(pool[i]) :
    x \in ToSet(pool[i].first_) \/ \E b \in L : b.data = x

Good(pool, L) ==
  /\ PoolTypes(pool, L) /\ Layout(pool) /\ FreeLists(pool)
  /\ Places(pool, L) /\ Unique(L) /\ NoneLost(pool, L)

-----------------------------------------------------------------------------
(* Sizes and regions. *)

\* A region holds a chunk, and any buffer.
LEMMA RegionHolds ==
  ASSUME BufferAssumption
  PROVE  RegionSize \in Nat \ {0} /\ MaxBufferSize < RegionSize /\ \A s \in Sizes : s <= RegionSize
<1>1. PICK m \in Sizes : \A s \in Sizes : m >= s
  BY DEF BufferAssumption
<1>2. Max(Sizes) \in Sizes /\ \A s \in Sizes : Max(Sizes) >= s
  BY <1>1 DEF Max
<1>3. Max(Sizes) \in Nat \ {0} /\ MaxBufferSize \in Nat \ {0} /\ \A s \in Sizes : s \in Nat
  BY <1>2 DEF BufferAssumption
<1> QED BY <1>2, <1>3 DEF RegionSize

\* An address less than a region after the n-th is in the n-th.
LEMMA RegionOf ==
  ASSUME BufferAssumption, NEW n \in Nat, NEW e \in Nat, e < RegionSize
  PROVE  Region(RegionSize * n + e) = n /\ RegionSize * n \in Nat
<1> DEFINE r == RegionSize
<1>1. r \in Nat \ {0} /\ e < r
  BY RegionHolds
<1> HIDE DEF r
<1>2. (r * n + e) \div r = n /\ r * n \in Nat
  BY <1>1, OfSum
<1> QED BY <1>2 DEF Region, r

\* Cells are as far apart as they are long.
LEMMA Spacing ==
  ASSUME NEW a \in Nat, NEW b \in Nat, NEW s \in Nat, a < b
  PROVE  a * s \in Nat /\ b * s \in Nat /\ a * s + s <= b * s
<1> DEFINE d == b - (a + 1)
<1>1. d \in Nat /\ b = a + 1 + d
  OBVIOUS
<1> HIDE DEF d
<1>2. a * s \in Nat /\ d * s \in Nat
  BY <1>1
<1>3. b * s = a * s + s + d * s
  BY <1>1
<1> QED BY <1>2, <1>3

\* The next multiple of k after n, if n is none and is less than the multiple m.
LEMMA NextMultiple ==
  ASSUME NEW n \in Nat, NEW k \in Nat \ {0}, NEW m \in Nat, m % k = 0, n % k # 0, n <= m
  PROVE  (n \div k + 1) * k \in Nat /\ n < (n \div k + 1) * k /\ (n \div k + 1) * k <= m
<1>1. n % k \in 0 .. k - 1 /\ n \div k \in Nat /\ n = k * (n \div k) + (n % k)
  BY Division
<1>2. m \div k \in Nat /\ m = k * (m \div k) + (m % k)
  BY Division
<1>3. \E q \in Nat, r \in 1 .. k - 1 : q = n \div k /\ n = k * q + r
  <2>1. PICK q \in Nat : q = n \div k
    BY <1>1
  <2>2. PICK r \in 1 .. k - 1 : r = n % k
    BY <1>1
  <2>3. n = k * q + r
    BY <1>1, <2>1, <2>2
  <2> QED BY <2>1, <2>3
<1>4. \E p \in Nat : m = k * p
  BY <1>2
<1> SUFFICES ASSUME NEW q \in Nat, NEW r \in 1 .. k - 1, NEW p \in Nat,
                    q = n \div k, n = k * q + r, m = k * p
             PROVE  (q + 1) * k \in Nat /\ n < (q + 1) * k /\ (q + 1) * k <= m
  BY <1>3, <1>4
<1>5. (q + 1) * k = q * k + k /\ q * k \in Nat /\ k * q = q * k /\ k * p = p * k /\ p * k \in Nat
  OBVIOUS
<1>6. q < p
  <2> SUFFICES ASSUME p <= q PROVE FALSE
    OBVIOUS
  <2>1. CASE p = q
    BY <1>5, <2>1
  <2>2. CASE p < q
    <3>1. p * k + k <= q * k
      BY <2>2, Spacing
    <3> QED BY <1>5, <3>1
  <2> QED BY <2>1, <2>2
<1>7. q * k + k <= p * k
  BY <1>6, Spacing
<1> QED BY <1>5, <1>7

\* GetUpBoundSize does not shrink a size, and keeps what fits into a chunk.
LEMMA UpBound ==
  ASSUME BufferAssumption, NEW size \in Sizes, ~BigThanMax(size)
  PROVE  /\ GetUpBoundSize(size) \in Nat \ {0} /\ size <= GetUpBoundSize(size)
         /\ GetUpBoundSize(size) <= MaxBufferSize
<1>1. /\ size \in Nat \ {0} /\ AlignSize \in Nat \ {0} /\ MaxBufferSize \in Nat
      /\ MaxBufferSize % AlignSize = 0 /\ size <= MaxBufferSize
  BY DEF BufferAssumption, BigThanMax
<1>2. CASE size % AlignSize = 0
  BY <1>1, <1>2 DEF GetUpBoundSize
<1>3. CASE size % AlignSize # 0
  <2> DEFINE up == (size \div AlignSize + 1) * AlignSize
  <2>1. up \in Nat /\ size < up /\ up <= MaxBufferSize
    BY <1>1, <1>3, NextMultiple
  <2>2. GetUpBoundSize(size) = up
    BY <1>3 DEF GetUpBoundSize
  <2> HIDE DEF up
  <2> QED BY <1>1, <2>1, <2>2
<1> QED BY <1>2, <1>3

\* What a chunk of such cells has: some, that fit into it.
LEMMA NumPerChunk ==
  ASSUME BufferAssumption, NEW size \in Nat \ {0}, size <= MaxBufferSize
  PROVE  GetNumPerChunk(size) \in Nat \ {0} /\ GetNumPerChunk(size) * size <= MaxBufferSize
<1> DEFINE q == MaxBufferSize \div size
           S == {q, MaxNumPerChunk}
<1>1. q \in Nat /\ q * size <= MaxBufferSize /\ q # 0
  <2>1. MaxBufferSize \in Nat
    BY DEF BufferAssumption
  <2>2. q \in Nat /\ MaxBufferSize = size * q + (MaxBufferSize % size)
        /\ MaxBufferSize % size \in 0 .. size - 1
    BY <2>1, Division
  <2> HIDE DEF q
  <2>3. size * q = q * size /\ q * size \in Nat
    BY <2>2
  <2>4. q # 0
    <3> SUFFICES ASSUME q = 0 PROVE FALSE
      OBVIOUS
    <3>1. size * q = 0
      OBVIOUS
    <3> QED BY <2>1, <2>2, <3>1
  <2> QED BY <2>1, <2>2, <2>3, <2>4
<1> HIDE DEF q
<1>2. S \in SUBSET (Nat \ {0}) /\ S \in SUBSET Nat /\ S # {}
  BY <1>1 DEF BufferAssumption
<1>3. GetNumPerChunk(size) = Min(S)
  BY DEF GetNumPerChunk, q
<1>4. Min(S) \in S /\ \A y \in S : Min(S) <= y
  <2> HIDE DEF S
  <2> QED BY <1>2, LeastOf
<1>5. Min(S) \in Nat \ {0} /\ Min(S) <= q
  BY <1>2, <1>4
<1>6. Min(S) * size <= q * size
  <2> HIDE DEF S
  <2>1. PICK m \in Nat : m = Min(S)
    BY <1>5
  <2>2. CASE m = q
    BY <1>1, <2>1, <2>2
  <2>3. CASE m < q
    <3>1. m * size \in Nat /\ q * size \in Nat /\ m * size + size <= q * size
      BY <1>1, <2>3, Spacing
    <3> QED BY <2>1, <3>1
  <2> QED BY <1>1, <1>5, <2>1, <2>2, <2>3
<1> HIDE DEF S
<1>7. Min(S) * size \in Nat /\ q * size \in Nat /\ MaxBufferSize \in Nat
  BY <1>1, <1>5 DEF BufferAssumption
<1> QED BY <1>1, <1>3, <1>5, <1>6, <1>7

-----------------------------------------------------------------------------
(* Where bytes are. *)

\* The fields of a chunk of the pool.
LEMMA ChunkType ==
  ASSUME NEW pool \in Seq(Chunks), NEW i \in DOMAIN pool
  PROVE  /\ i \in Nat \ {0} /\ pool[i] \in Chunks /\ pool[i].first_ \in Seq(Nat)
         /\ pool[i].buffers_ \in Nat /\ pool[i].maxnum_ \in Nat \ {0}
         /\ pool[i].buffersize_ \in Nat \ {0}
<1>1. i \in Nat \ {0} /\ pool[i] \in Chunks
  OBVIOUS
<1> QED BY <1>1 DEF Chunks

\* The bytes of a chunk are in its region.
LEMMA ChunkBytes ==
  ASSUME BufferAssumption, NEW pool \in Seq(Chunks), Layout(pool), NEW i \in DOMAIN pool,
         NEW y \in Bytes(pool[i].buffers_, pool[i].maxnum_ * pool[i].buffersize_)
  PROVE  y \in Nat /\ Region(y) = 2 * (i - 1)
<1> DEFINE c == pool[i]
           span == c.maxnum_ * c.buffersize_
           e == y - c.buffers_
<1>1. c \in Chunks /\ i \in Nat \ {0}
  OBVIOUS
<1>2. c.buffers_ = RegionSize * (2 * (i - 1)) /\ span <= MaxBufferSize
  BY DEF Layout
<1>3. c.buffers_ \in Nat /\ span \in Nat
  <2>1. c.buffers_ \in Nat /\ c.maxnum_ \in Nat /\ c.buffersize_ \in Nat
    BY <1>1 DEF Chunks
  <2> QED BY <2>1
<1> HIDE DEF span, c
<1>4. y \in Nat /\ e \in Nat /\ e < span
  <2>1. y \in c.buffers_ .. c.buffers_ + span - 1
    BY DEF Bytes, c, span
  <2> QED BY <1>3, <2>1
<1>5. RegionSize \in Nat /\ MaxBufferSize \in Nat /\ MaxBufferSize < RegionSize
  BY RegionHolds DEF BufferAssumption
<1>6. 2 * (i - 1) \in Nat
  BY <1>1
<1>7. y = RegionSize * (2 * (i - 1)) + e
  BY <1>2, <1>3, <1>4
<1> HIDE DEF e
<1>8. e < RegionSize
  BY <1>2, <1>3, <1>4, <1>5
<1> QED BY <1>4, <1>6, <1>7, <1>8, RegionOf

\* The bytes of a cell are bytes of its chunk.
LEMMA CellBytes ==
  ASSUME BufferAssumption, NEW pool \in Seq(Chunks), Layout(pool), NEW i \in DOMAIN pool,
         NEW x \in Cells(pool[i]), NEW y \in Bytes(x, pool[i].buffersize_)
  PROVE  y \in Bytes(pool[i].buffers_, pool[i].maxnum_ * pool[i].buffersize_)
<1> DEFINE c == pool[i]
<1>1. c.buffers_ \in Nat /\ c.maxnum_ \in Nat \ {0} /\ c.buffersize_ \in Nat \ {0}
  BY ChunkType
<1>2. PICK k \in 0 .. c.maxnum_ - 1 : x = c.buffers_ + k * c.buffersize_
  BY DEF Cells
<1> HIDE DEF c
<1>3. k \in Nat /\ k < c.maxnum_
  BY <1>1, <1>2
<1>4. /\ k * c.buffersize_ \in Nat /\ c.maxnum_ * c.buffersize_ \in Nat
      /\ k * c.buffersize_ + c.buffersize_ <= c.maxnum_ * c.buffersize_
  BY <1>1, <1>3, Spacing
<1>5. y \in x .. x + c.buffersize_ - 1
  BY DEF Bytes, c
<1>6. PICK bs \in Nat, bb \in Nat, ks \in Nat, ms \in Nat :
        /\ bs = c.buffersize_ /\ bb = c.buffers_
        /\ ks = k * c.buffersize_ /\ ms = c.maxnum_ * c.buffersize_
  BY <1>1, <1>4
<1>7. y \in bb .. bb + ms - 1
  <2>1. x = bb + ks /\ ks + bs <= ms /\ y \in x .. x + bs - 1
    BY <1>2, <1>4, <1>5, <1>6, Zenon
  <2> QED BY <2>1
<1> QED BY <1>6, <1>7 DEF Bytes, c

\* A cell is longer than nothing: it begins with a byte of its own.
LEMMA CellRegion ==
  ASSUME BufferAssumption, NEW pool \in Seq(Chunks), Layout(pool), NEW i \in DOMAIN pool,
         NEW x \in Cells(pool[i])
  PROVE  x \in Nat /\ Region(x) = 2 * (i - 1)
<1>1. pool[i].buffers_ \in Nat /\ pool[i].maxnum_ \in Nat /\ pool[i].buffersize_ \in Nat \ {0}
  BY ChunkType
<1>2. PICK k \in 0 .. pool[i].maxnum_ - 1 : x = pool[i].buffers_ + k * pool[i].buffersize_
  BY DEF Cells
<1>3. x \in Nat
  <2>1. k \in Nat
    BY <1>1
  <2>2. k * pool[i].buffersize_ \in Nat
    BY <1>1, <2>1
  <2> QED BY <1>1, <1>2, <2>2
<1>4. x \in Bytes(x, pool[i].buffersize_)
  BY <1>1, <1>3 DEF Bytes
<1> QED BY <1>3, <1>4, CellBytes, ChunkBytes

\* Two cells of a chunk have no byte in common.
LEMMA CellsApart ==
  ASSUME NEW c \in Chunks, NEW x \in Cells(c), NEW y \in Cells(c), x # y
  PROVE  Bytes(x, c.buffersize_) \cap Bytes(y, c.buffersize_) = {}
<1> DEFINE s == c.buffersize_
           o == c.buffers_
<1>1. o \in Nat /\ s \in Nat \ {0} /\ c.maxnum_ \in Nat \ {0}
  BY DEF Chunks
<1>2. PICK k \in 0 .. c.maxnum_ - 1 : x = o + k * s
  BY DEF Cells
<1>3. PICK l \in 0 .. c.maxnum_ - 1 : y = o + l * s
  BY DEF Cells
<1> HIDE DEF s, o
<1>4. k \in Nat /\ l \in Nat /\ k # l
  BY <1>1, <1>2, <1>3
<1>5. k * s \in Nat /\ l * s \in Nat /\ (k * s + s <= l * s \/ l * s + s <= k * s)
  BY <1>1, <1>4, Spacing
<1>6. (x .. x + s - 1) \cap (y .. y + s - 1) = {}
  BY <1>1, <1>2, <1>3, <1>5
<1> QED BY <1>6 DEF Bytes, s

\* A big buffer is in its region too.
LEMMA BigBytes ==
  ASSUME BufferAssumption, NEW b \in Buffers, NEW n \in Nat, b.data = RegionSize * (2 * n + 1),
         NEW y \in Bytes(b.data, b.len)
  PROVE  y \in Nat /\ Region(y) = 2 * n + 1
<1> DEFINE e == y - b.data
           m == 2 * n + 1
<1>1. b.data \in Nat /\ b.len \in Sizes /\ b.len \in Nat
  BY DEF Buffers, BufferAssumption
<1>2. y \in Nat /\ e \in Nat /\ e < b.len /\ y = b.data + e
  BY <1>1 DEF Bytes
<1>3. b.len <= RegionSize /\ RegionSize \in Nat /\ m \in Nat
  BY <1>1, RegionHolds
<1> HIDE DEF e, m
<1>4. e < RegionSize
  BY <1>1, <1>2, <1>3
<1>5. y = RegionSize * m + e
  BY <1>2 DEF m
<1>6. Region(y) = m
  BY <1>2, <1>3, <1>4, <1>5, RegionOf
<1> QED BY <1>2, <1>6 DEF m

\* A buffer is at least a byte, the first.
LEMMA FirstByte ==
  ASSUME BufferAssumption, NEW b \in Buffers
  PROVE  b.data \in Nat /\ b.data \in Bytes(b.data, b.len)
<1>1. b.data \in Nat /\ b.len \in Nat \ {0}
  BY DEF Buffers, BufferAssumption
<1>2. b.data \in b.data .. b.data + b.len - 1
  BY <1>1
<1> QED BY <1>1, <1>2 DEF Bytes

\* A small buffer lies in its cell.
LEMMA SmallBytes ==
  ASSUME BufferAssumption, NEW pool \in Seq(Chunks), Layout(pool), NEW i \in DOMAIN pool,
         NEW b \in Buffers, ~BigThanMax(b.len), CellOf(pool, i, b)
  PROVE  /\ b.data \in Cells(pool[i]) /\ b.len <= pool[i].buffersize_
         /\ Bytes(b.data, b.len) \subseteq Bytes(b.data, pool[i].buffersize_)
         /\ \A y \in Bytes(b.data, b.len) : Region(y) = 2 * (i - 1)
<1>1. b.data \in Nat /\ b.len \in Sizes /\ b.len \in Nat
  BY DEF Buffers, BufferAssumption
<1>2. /\ pool[i].buffersize_ = GetUpBoundSize(b.len) /\ GetUpBoundSize(b.len) \in Nat
      /\ b.len <= GetUpBoundSize(b.len) /\ b.data \in Cells(pool[i])
  BY <1>1, UpBound DEF CellOf
<1>3. Bytes(b.data, b.len) \subseteq Bytes(b.data, pool[i].buffersize_)
  BY <1>1, <1>2 DEF Bytes
<1>4. \A y \in Bytes(b.data, b.len) : Region(y) = 2 * (i - 1)
  BY <1>2, <1>3, CellBytes, ChunkBytes
<1> QED BY <1>2, <1>3, <1>4

\* Even and odd regions, and regions of different chunks.
LEMMA Parity ==
  ASSUME NEW i \in Nat, NEW j \in Nat, NEW m \in Nat, NEW n \in Nat
  PROVE  /\ 2 * n + 1 # 2 * (i - 1)
         /\ 2 * (i - 1) = 2 * (j - 1) => i = j
         /\ 2 * m + 1 = 2 * n + 1 => m = n
OBVIOUS

\* Where the bytes of a live buffer are: in the odd region of a big one, or in the
\* cell of a small one.
LEMMA PlaceBytes ==
  ASSUME BufferAssumption, NEW pool, NEW L, Good(pool, L), NEW b \in L
  PROVE  \/ \E n \in Nat : b.data = RegionSize * (2 * n + 1)
                           /\ \A y \in Bytes(b.data, b.len) : Region(y) = 2 * n + 1
         \/ /\ ~BigThanMax(b.len)
            /\ \E i \in DOMAIN pool :
                 /\ CellOf(pool, i, b) /\ b.len <= pool[i].buffersize_
                 /\ Bytes(b.data, b.len) \subseteq Bytes(b.data, pool[i].buffersize_)
                 /\ \A y \in Bytes(b.data, b.len) : Region(y) = 2 * (i - 1)
<1>1. b \in Buffers /\ pool \in Seq(Chunks) /\ Layout(pool)
  BY DEF Good, PoolTypes
<1>2. BigPlace(b) \/ SmallPlace(pool, b)
  BY DEF Good, Places
<1>3. CASE BigPlace(b)
  <2>1. PICK n \in Nat : b.data = RegionSize * (2 * n + 1)
    BY <1>3 DEF BigPlace
  <2>2. \A y \in Bytes(b.data, b.len) : Region(y) = 2 * n + 1
    BY <1>1, <2>1, BigBytes
  <2> QED BY <2>1, <2>2
<1>4. CASE SmallPlace(pool, b)
  <2>1. PICK i \in DOMAIN pool : CellOf(pool, i, b)
    BY <1>4 DEF SmallPlace
  <2>2. ~BigThanMax(b.len)
    BY <1>4 DEF SmallPlace
  <2> QED BY <1>1, <2>1, <2>2, SmallBytes
<1> QED BY <1>2, <1>3, <1>4

\* A live buffer with a byte in a chunk is in a cell of that chunk.
LEMMA InChunk ==
  ASSUME BufferAssumption, NEW pool, NEW L, Good(pool, L), NEW b \in L, NEW i \in DOMAIN pool,
         NEW y \in Bytes(b.data, b.len), Region(y) = 2 * (i - 1)
  PROVE  /\ ~BigThanMax(b.len) /\ CellOf(pool, i, b) /\ b.len <= pool[i].buffersize_
         /\ Bytes(b.data, b.len) \subseteq Bytes(b.data, pool[i].buffersize_)
<1>1. pool \in Seq(Chunks) /\ \A j \in DOMAIN pool : j \in Nat
  BY ChunkType DEF Good, PoolTypes
<1>2. ASSUME NEW n \in Nat, Region(y) = 2 * n + 1 PROVE FALSE
  BY <1>1, <1>2, Parity
<1>3. \A j \in DOMAIN pool : Region(y) = 2 * (j - 1) => i = j
  BY <1>1, Parity
<1> QED BY <1>2, <1>3, PlaceBytes

\* What the theorem says of a pool follows from where the buffers are.
LEMMA GoodDisjoint ==
  ASSUME BufferAssumption, Good(bufferpool_, live)
  PROVE  BuffersDisjoint
<1> DEFINE pool == bufferpool_
<1>1. /\ pool \in Seq(Chunks) /\ Layout(pool) /\ FreeLists(pool) /\ Unique(live)
      /\ NoneLost(pool, live) /\ live \subseteq Buffers
  BY DEF Good, PoolTypes
<1>2. ASSUME NEW b \in live, NEW c \in live, b # c,
             NEW y \in Bytes(b.data, b.len) \cap Bytes(c.data, c.len)
      PROVE  FALSE
  <2>1. b.data # c.data
    BY <1>1, <1>2 DEF Unique
  <2>2. ASSUME NEW i \in DOMAIN pool, Region(y) = 2 * (i - 1) PROVE FALSE
    <3>1. /\ CellOf(pool, i, b) /\ Bytes(b.data, b.len) \subseteq Bytes(b.data, pool[i].buffersize_)
          /\ CellOf(pool, i, c) /\ Bytes(c.data, c.len) \subseteq Bytes(c.data, pool[i].buffersize_)
      BY <2>2, InChunk
    <3>2. Bytes(b.data, pool[i].buffersize_) \cap Bytes(c.data, pool[i].buffersize_) = {}
      BY <1>1, <2>1, <3>1, ChunkType, CellsApart DEF CellOf
    <3> QED BY <3>1, <3>2
  <2>3. PICK m \in Nat : b.data = RegionSize * (2 * m + 1) /\ Region(y) = 2 * m + 1
    BY <2>2, PlaceBytes
  <2>4. PICK n \in Nat : c.data = RegionSize * (2 * n + 1) /\ Region(y) = 2 * n + 1
    BY <2>2, PlaceBytes
  <2>5. m = n
    BY <2>3, <2>4, Parity
  <2> QED BY <2>1, <2>3, <2>4, <2>5
<1>3. ASSUME NEW i \in DOMAIN pool
      PROVE  LET c == pool[i]
                 cells == {c.buffers_ + k * c.buffersize_ : k \in 0 .. c.maxnum_ - 1}
                 used == {b \in live : Bytes(b.data, b.len)
                            \cap Bytes(c.buffers_, c.maxnum_ * c.buffersize_) # {}}
             IN  /\ \A b \in used : b.data \in cells \ ToSet(c.first_) /\ b.len <= c.buffersize_
                 /\ cells = ToSet(c.first_) \cup {b.data : b \in used}
                 /\ IsInjective(c.first_)
  <2> DEFINE c == pool[i]
             used == {b \in live : Bytes(b.data, b.len)
                        \cap Bytes(c.buffers_, c.maxnum_ * c.buffersize_) # {}}
  <2>1. ASSUME NEW b \in used
        PROVE  b.data \in Cells(c) \ ToSet(c.first_) /\ b.len <= c.buffersize_
    <3>1. PICK y \in Bytes(b.data, b.len) : y \in Bytes(c.buffers_, c.maxnum_ * c.buffersize_)
      OBVIOUS
    <3>2. Region(y) = 2 * (i - 1)
      BY <1>1, <3>1, ChunkBytes
    <3>3. CellOf(pool, i, b) /\ b.len <= c.buffersize_
      BY <3>2, InChunk
    <3> QED BY <3>3 DEF CellOf
  <2>2. ASSUME NEW x \in Cells(c), x \notin ToSet(c.first_)
        PROVE  \E b \in used : b.data = x
    <3>1. PICK b \in live : b.data = x
      BY <1>1, <2>2 DEF NoneLost
    <3>2. x \in Bytes(b.data, b.len) /\ x \in Nat
      BY <1>1, <3>1, FirstByte
    <3>3. x \in Bytes(x, c.buffersize_)
      <4>1. c.buffersize_ \in Nat \ {0}
        BY <1>1, ChunkType
      <4>2. x \in x .. x + c.buffersize_ - 1
        BY <3>2, <4>1
      <4> QED BY <4>2 DEF Bytes
    <3>4. x \in Bytes(c.buffers_, c.maxnum_ * c.buffersize_)
      BY <1>1, <3>3, CellBytes
    <3> QED BY <3>1, <3>2, <3>4
  <2>3. IsInjective(c.first_) /\ ToSet(c.first_) \subseteq Cells(c)
    BY <1>1 DEF FreeLists
  <2> HIDE DEF used
  <2>4. Cells(c) = ToSet(c.first_) \cup {b.data : b \in used}
    BY <2>1, <2>2, <2>3
  <2> QED BY <2>1, <2>3, <2>4 DEF Cells, used
<1> QED BY <1>2, <1>3 DEF BuffersDisjoint

-----------------------------------------------------------------------------
(* The lists of free cells. *)

\* Taking the head of a list without repetitions.
LEMMA PopFree ==
  ASSUME NEW s \in Seq(Nat), s # <<>>, IsInjective(s)
  PROVE  /\ Head(s) \in ToSet(s) /\ Tail(s) \in Seq(Nat) /\ IsInjective(Tail(s))
         /\ ToSet(Tail(s)) = ToSet(s) \ {Head(s)}
<1>1. /\ Len(s) \in Nat \ {0} /\ DOMAIN s = 1 .. Len(s) /\ Head(s) = s[1] /\ Tail(s) \in Seq(Nat)
      /\ DOMAIN Tail(s) = 1 .. Len(s) - 1 /\ \A i \in DOMAIN Tail(s) : Tail(s)[i] = s[i + 1]
  OBVIOUS
<1>2. \A i, j \in DOMAIN s : s[i] = s[j] => i = j
  BY DEF IsInjective
<1>3. \A i \in DOMAIN Tail(s) : i + 1 \in DOMAIN s /\ i + 1 # 1 /\ i \in Nat
  BY <1>1
<1>4. IsInjective(Tail(s))
  <2>1. ASSUME NEW i \in DOMAIN Tail(s), NEW j \in DOMAIN Tail(s), Tail(s)[i] = Tail(s)[j]
        PROVE  i = j
    <3>1. i + 1 = j + 1
      BY <1>1, <1>2, <1>3, <2>1
    <3> QED BY <1>3, <3>1
  <2> QED BY <2>1 DEF IsInjective
<1>5. ASSUME NEW x \in ToSet(s), x # Head(s) PROVE x \in ToSet(Tail(s))
  <2>1. PICK i \in DOMAIN s : x = s[i]
    BY <1>5 DEF ToSet
  <2>2. i \in Nat /\ i # 1 /\ i >= 1 /\ i <= Len(s)
    BY <1>1, <1>5, <2>1
  <2>3. i - 1 \in DOMAIN Tail(s) /\ (i - 1) + 1 = i
    BY <1>1, <2>2
  <2>4. Tail(s)[i - 1] = x
    BY <1>1, <2>1, <2>3
  <2> QED BY <2>3, <2>4 DEF ToSet
<1>6. ASSUME NEW x \in ToSet(Tail(s)) PROVE x \in ToSet(s) /\ x # Head(s)
  <2>1. PICK i \in DOMAIN Tail(s) : x = Tail(s)[i]
    BY DEF ToSet
  <2>2. x = s[i + 1] /\ i + 1 \in DOMAIN s /\ i + 1 # 1 /\ 1 \in DOMAIN s
    BY <1>1, <1>3, <2>1
  <2>3. s[i + 1] # s[1]
    BY <1>2, <2>2
  <2> QED BY <1>1, <2>2, <2>3 DEF ToSet
<1>7. Head(s) \in ToSet(s)
  BY <1>1 DEF ToSet
<1> QED BY <1>1, <1>4, <1>5, <1>6, <1>7

\* Putting a new head on it.
LEMMA PushFree ==
  ASSUME NEW s \in Seq(Nat), NEW x \in Nat, x \notin ToSet(s), IsInjective(s)
  PROVE  /\ <<x>> \o s \in Seq(Nat) /\ IsInjective(<<x>> \o s)
         /\ ToSet(<<x>> \o s) = ToSet(s) \cup {x}
<1> DEFINE t == <<x>> \o s
<1>1. /\ Len(s) \in Nat /\ DOMAIN s = 1 .. Len(s) /\ t \in Seq(Nat) /\ DOMAIN t = 1 .. Len(s) + 1
      /\ t[1] = x /\ \A i \in 1 .. Len(s) : t[i + 1] = s[i]
  OBVIOUS
<1> HIDE DEF t
<1>2. \A i \in DOMAIN t : i = 1 \/ (i - 1 \in DOMAIN s /\ t[i] = s[i - 1])
  <2> SUFFICES ASSUME NEW i \in DOMAIN t, i # 1
               PROVE  i - 1 \in DOMAIN s /\ t[i] = s[i - 1]
    OBVIOUS
  <2>1. i - 1 \in 1 .. Len(s) /\ (i - 1) + 1 = i
    BY <1>1
  <2> QED BY <1>1, <2>1
<1>3. \A i \in DOMAIN s : i + 1 \in DOMAIN t /\ t[i + 1] = s[i]
  BY <1>1
<1>4. \A i \in DOMAIN s : s[i] # x
  BY DEF ToSet
<1>5. \A i, j \in DOMAIN s : s[i] = s[j] => i = j
  BY DEF IsInjective
<1>6. IsInjective(t)
  <2>1. ASSUME NEW i \in DOMAIN t, NEW j \in DOMAIN t, t[i] = t[j] PROVE i = j
    <3>1. CASE i = 1 /\ j = 1
      BY <3>1
    <3>2. CASE i # 1 /\ j # 1
      <4>1. /\ i - 1 \in DOMAIN s /\ t[i] = s[i - 1]
            /\ j - 1 \in DOMAIN s /\ t[j] = s[j - 1]
        BY <1>2, <2>1, <3>2, Zenon
      <4>2. i - 1 = j - 1
        BY <1>5, <2>1, <4>1, Zenon
      <4>3. i \in Int /\ j \in Int
        BY <1>1, <2>1
      <4> QED BY <4>2, <4>3
    <3>3. CASE i = 1 /\ j # 1
      BY <1>1, <1>2, <1>4, <2>1, <3>3
    <3>4. CASE i # 1 /\ j = 1
      BY <1>1, <1>2, <1>4, <2>1, <3>4
    <3> QED BY <3>1, <3>2, <3>3, <3>4
  <2> QED BY <2>1 DEF IsInjective
<1>7. ToSet(t) = ToSet(s) \cup {x}
  <2>1. ASSUME NEW i \in DOMAIN t PROVE t[i] \in ToSet(s) \cup {x}
    BY <1>1, <1>2 DEF ToSet
  <2>2. x \in ToSet(t)
    <3>1. 1 \in DOMAIN t
      BY <1>1
    <3> QED BY <1>1, <3>1 DEF ToSet
  <2>3. ToSet(s) \subseteq ToSet(t)
    BY <1>3 DEF ToSet
  <2> QED BY <2>1, <2>2, <2>3 DEF ToSet
<1> QED BY <1>1, <1>6, <1>7 DEF t

WithList(pool, i, f) == [pool EXCEPT ![i].first_ = f]

\* Only the list of one chunk changes.
LEMMA NewList ==
  ASSUME NEW pool \in Seq(Chunks), NEW i \in DOMAIN pool, NEW f \in Seq(Nat)
  PROVE  LET p == WithList(pool, i, f) IN
         /\ p \in Seq(Chunks) /\ DOMAIN p = DOMAIN pool /\ p[i].first_ = f
         /\ \A j \in DOMAIN pool : j # i => p[j] = pool[j]
         /\ \A j \in DOMAIN pool :
              /\ p[j].buffersize_ = pool[j].buffersize_ /\ p[j].maxnum_ = pool[j].maxnum_
              /\ p[j].buffers_ = pool[j].buffers_ /\ Cells(p[j]) = Cells(pool[j])
         /\ Layout(pool) => Layout(p)
<1> DEFINE c == [pool[i] EXCEPT !.first_ = f]
           p == WithList(pool, i, f)
<1>1. pool[i] \in Chunks
  BY ChunkType
<1>2. c \in Chunks /\ c.first_ = f
  BY <1>1 DEF Chunks
<1>3. c.buffersize_ = pool[i].buffersize_ /\ c.maxnum_ = pool[i].maxnum_ /\ c.buffers_ = pool[i].buffers_
  BY <1>1 DEF Chunks
<1>4. p = [pool EXCEPT ![i] = c]
  BY DEF WithList
<1> HIDE DEF c, p
<1>5. p \in Seq(Chunks) /\ DOMAIN p = DOMAIN pool /\ p[i] = c
      /\ \A j \in DOMAIN pool : j # i => p[j] = pool[j]
  BY <1>2, <1>4
<1>6. \A j \in DOMAIN pool :
        /\ p[j].buffersize_ = pool[j].buffersize_ /\ p[j].maxnum_ = pool[j].maxnum_
        /\ p[j].buffers_ = pool[j].buffers_
  BY <1>3, <1>5
<1>7. \A j \in DOMAIN pool : Cells(p[j]) = Cells(pool[j])
  BY <1>6 DEF Cells
<1>8. Layout(pool) => Layout(p)
  BY <1>5, <1>6 DEF Layout
<1> QED BY <1>2, <1>5, <1>6, <1>7, <1>8 DEF p

-----------------------------------------------------------------------------
(* The steps: each leaves every buffer in its place and loses no cell. *)

\* A live buffer whose data is a cell is small, and is there.
LEMMA InCell ==
  ASSUME BufferAssumption, NEW pool, NEW L, Good(pool, L), NEW b \in L, NEW i \in DOMAIN pool,
         b.data \in Cells(pool[i])
  PROVE  ~BigThanMax(b.len) /\ CellOf(pool, i, b)
<1>1. b \in Buffers /\ pool \in Seq(Chunks) /\ Layout(pool)
  BY DEF Good, PoolTypes
<1>2. b.data \in Bytes(b.data, b.len) /\ Region(b.data) = 2 * (i - 1)
  BY <1>1, FirstByte, CellRegion
<1> QED BY <1>2, InChunk

\* Chunk::Allocate: the first free cell is nobody's.
LEMMA TakeCell ==
  ASSUME BufferAssumption, NEW pool, NEW L, Good(pool, L), NEW i \in DOMAIN pool,
         pool[i].first_ # <<>>, NEW size \in Sizes, ~BigThanMax(size),
         pool[i].buffersize_ = GetUpBoundSize(size)
  PROVE  Good([pool EXCEPT ![i].first_ = Tail(@)],
              L \cup {[data |-> Head(pool[i].first_), len |-> size]})
<1> DEFINE s == pool[i].first_
           p == [pool EXCEPT ![i].first_ = Tail(s)]
           x == Head(s)
           new == [data |-> x, len |-> size]
           M == L \cup {new}
<1>1. /\ pool \in Seq(Chunks) /\ Layout(pool) /\ FreeLists(pool) /\ Places(pool, L)
      /\ Unique(L) /\ NoneLost(pool, L) /\ L \subseteq Buffers /\ IsFiniteSet(L)
  BY DEF Good, PoolTypes
<1>2. s \in Seq(Nat) /\ s # <<>> /\ IsInjective(s) /\ ToSet(s) \subseteq Cells(pool[i])
  BY <1>1, ChunkType DEF FreeLists
<1>3. /\ x \in ToSet(s) /\ Tail(s) \in Seq(Nat) /\ IsInjective(Tail(s))
      /\ ToSet(Tail(s)) = ToSet(s) \ {x}
  BY <1>2, PopFree
<1>4. x \in Nat /\ x \in Cells(pool[i])
  BY <1>1, <1>2, <1>3, CellRegion
<1>5. /\ p \in Seq(Chunks) /\ DOMAIN p = DOMAIN pool /\ p[i].first_ = Tail(s)
      /\ \A j \in DOMAIN pool : j # i => p[j] = pool[j]
      /\ \A j \in DOMAIN pool :
           p[j].buffersize_ = pool[j].buffersize_ /\ Cells(p[j]) = Cells(pool[j])
      /\ Layout(p)
  <2> DEFINE f == Tail(s)
  <2>1. p = WithList(pool, i, f) /\ f \in Seq(Nat)
    BY <1>3 DEF WithList
  <2> HIDE DEF f, p
  <2>2. /\ p \in Seq(Chunks) /\ DOMAIN p = DOMAIN pool /\ p[i].first_ = f
        /\ \A j \in DOMAIN pool : j # i => p[j] = pool[j]
        /\ \A j \in DOMAIN pool :
             p[j].buffersize_ = pool[j].buffersize_ /\ Cells(p[j]) = Cells(pool[j])
        /\ Layout(p)
    BY <1>1, <2>1, NewList
  <2> QED BY <2>2 DEF f
<1> HIDE DEF s, p, x
<1>6. \A b \in L : b.data # x
  <2> SUFFICES ASSUME NEW b \in L, b.data = x PROVE FALSE
    OBVIOUS
  <2>1. CellOf(pool, i, b)
    BY <1>4, InCell
  <2> QED BY <1>3, <2>1 DEF CellOf, s
<1>7. PoolTypes(p, M)
  <2>1. new \in Buffers
    BY <1>4 DEF Buffers
  <2>2. IsFiniteSet(M)
    BY <1>1, FS_AddElement
  <2> QED BY <1>1, <1>5, <2>1, <2>2 DEF PoolTypes
<1>8. FreeLists(p)
  <2> SUFFICES ASSUME NEW j \in DOMAIN pool
               PROVE  IsInjective(p[j].first_) /\ ToSet(p[j].first_) \subseteq Cells(p[j])
    BY <1>5 DEF FreeLists
  <2>1. CASE j = i
    BY <1>2, <1>3, <1>5, <2>1
  <2>2. CASE j # i
    BY <1>1, <1>5, <2>2 DEF FreeLists
  <2> QED BY <2>1, <2>2
<1>9. \A j \in DOMAIN pool : ToSet(p[j].first_) \subseteq ToSet(pool[j].first_)
  BY <1>3, <1>5 DEF s
<1>10. Places(p, M)
  <2>1. SmallPlace(p, new)
    <3>1. CellOf(p, i, new)
      BY <1>3, <1>4, <1>5 DEF CellOf
    <3> QED BY <1>5, <3>1 DEF SmallPlace
  <2>2. ASSUME NEW b \in L PROVE BigPlace(b) \/ SmallPlace(p, b)
    <3>1. SmallPlace(pool, b) => SmallPlace(p, b)
      BY <1>5, <1>9 DEF SmallPlace, CellOf
    <3> QED BY <1>1, <3>1 DEF Places
  <2> QED BY <2>1, <2>2 DEF Places
<1>11. Unique(M)
  BY <1>1, <1>6 DEF Unique
<1>12. NoneLost(p, M)
  <2> SUFFICES ASSUME NEW j \in DOMAIN pool, NEW y \in Cells(pool[j]), y \notin ToSet(p[j].first_)
               PROVE  \E b \in M : b.data = y
    BY <1>5 DEF NoneLost
  <2>1. CASE y \in ToSet(pool[j].first_)
    <3>1. y = x
      BY <1>3, <1>5, <2>1 DEF s
    <3>2. new \in M /\ new.data = x
      OBVIOUS
    <3> QED BY <3>1, <3>2
  <2>2. CASE y \notin ToSet(pool[j].first_)
    BY <1>1, <2>2 DEF NoneLost
  <2> QED BY <2>1, <2>2
<1>13. Good(p, M)
  BY <1>5, <1>7, <1>8, <1>10, <1>11, <1>12 DEF Good
<1> QED BY <1>13 DEF p, x, s

\* A new chunk has only free cells, and the next even region.
LEMMA AddChunk ==
  ASSUME BufferAssumption, NEW L, Good(bufferpool_, L), NEW size \in Nat \ {0}, size <= MaxBufferSize
  PROVE  /\ Good(Append(bufferpool_, NewChunk(size)), L)
         /\ NewChunk(size).first_ # <<>> /\ NewChunk(size).buffersize_ = size
<1> DEFINE pool == bufferpool_
           c == NewChunk(size)
           num == GetNumPerChunk(size)
           o == ChunkRegion
           n == Len(pool)
           p == Append(pool, c)
<1>1. /\ pool \in Seq(Chunks) /\ Layout(pool) /\ FreeLists(pool) /\ Places(pool, L)
      /\ Unique(L) /\ NoneLost(pool, L) /\ PoolTypes(pool, L)
  BY DEF Good, PoolTypes
<1>2. num \in Nat \ {0} /\ num * size <= MaxBufferSize
  BY NumPerChunk
<1>3. n \in Nat /\ o \in Nat /\ o = RegionSize * (2 * n)
  <2>1. n \in Nat /\ RegionSize \in Nat
    BY <1>1, RegionHolds
  <2>2. RegionSize * 2 * n = RegionSize * (2 * n) /\ RegionSize * (2 * n) \in Nat
    BY <2>1
  <2> QED BY <2>1, <2>2 DEF ChunkRegion
<1>4. /\ c.buffersize_ = size /\ c.maxnum_ = num /\ c.buffers_ = o
      /\ c.first_ = [i \in 1 .. num |-> o + (i - 1) * size]
      /\ c = [buffersize_ |-> c.buffersize_, maxnum_ |-> c.maxnum_, buffers_ |-> c.buffers_,
              first_ |-> c.first_]
  BY DEF NewChunk
<1> HIDE DEF o, num, c, n
<1>5. \A i \in 1 .. num : (i - 1) * size \in Nat /\ i - 1 \in 0 .. num - 1
  <2> SUFFICES ASSUME NEW i \in 1 .. num PROVE (i - 1) * size \in Nat /\ i - 1 \in 0 .. num - 1
    OBVIOUS
  <2>1. i - 1 \in Nat /\ i - 1 \in 0 .. num - 1
    BY <1>2
  <2> QED BY <2>1
<1>6. c.first_ \in Seq(Nat) /\ DOMAIN c.first_ = 1 .. num
  <2>1. c.first_ \in [1 .. num -> Nat]
    BY <1>3, <1>4, <1>5
  <2> QED BY <1>2, <2>1
<1>7. c \in Chunks
  BY <1>2, <1>3, <1>4, <1>6 DEF Chunks
<1>8. c.first_ # <<>>
  BY <1>2, <1>6
<1>9. IsInjective(c.first_)
  <2>1. ASSUME NEW i \in 1 .. num, NEW j \in 1 .. num, i # j PROVE c.first_[i] # c.first_[j]
    <3>1. i - 1 \in Nat /\ j - 1 \in Nat /\ (i - 1 < j - 1 \/ j - 1 < i - 1)
      BY <1>2, <2>1
    <3>2. (i - 1) * size + size <= (j - 1) * size \/ (j - 1) * size + size <= (i - 1) * size
      BY <3>1, Spacing
    <3>3. c.first_[i] = o + (i - 1) * size /\ c.first_[j] = o + (j - 1) * size
      BY <1>4
    <3> QED BY <1>3, <1>5, <3>2, <3>3
  <2> QED BY <1>6, <2>1 DEF IsInjective
<1>10. ToSet(c.first_) = Cells(c)
  <2>1. ASSUME NEW i \in 1 .. num PROVE c.first_[i] \in Cells(c)
    BY <1>4, <1>5 DEF Cells
  <2>2. ASSUME NEW k \in 0 .. num - 1 PROVE o + k * size \in ToSet(c.first_)
    <3>1. k + 1 \in 1 .. num /\ (k + 1) - 1 = k
      BY <1>2
    <3>2. c.first_[k + 1] = o + k * size
      BY <1>4, <3>1
    <3> QED BY <1>6, <3>1, <3>2 DEF ToSet
  <2> QED BY <1>4, <1>6, <2>1, <2>2 DEF ToSet, Cells
<1>11. /\ p \in Seq(Chunks) /\ DOMAIN p = DOMAIN pool \cup {n + 1} /\ p[n + 1] = c
       /\ \A i \in DOMAIN pool : p[i] = pool[i]
  BY <1>1, <1>7 DEF n
<1> HIDE DEF p
<1>12. Layout(p)
  <2>1. c.buffers_ = RegionSize * (2 * ((n + 1) - 1)) /\ c.maxnum_ * c.buffersize_ <= MaxBufferSize
    BY <1>2, <1>3, <1>4
  <2> QED BY <1>1, <1>11, <2>1 DEF Layout
<1>13. FreeLists(p)
  BY <1>1, <1>9, <1>10, <1>11 DEF FreeLists
<1>14. Places(p, L)
  <2>1. ASSUME NEW b \in L, SmallPlace(pool, b) PROVE SmallPlace(p, b)
    BY <1>11, <2>1 DEF SmallPlace, CellOf
  <2> QED BY <1>1, <2>1 DEF Places
<1>15. NoneLost(p, L)
  BY <1>1, <1>10, <1>11 DEF NoneLost
<1>16. PoolTypes(p, L)
  BY <1>1, <1>11 DEF PoolTypes
<1> QED BY <1>1, <1>4, <1>8, <1>12, <1>13, <1>14, <1>15, <1>16, <1>11 DEF Good, p, c

\* Among more odd regions than there are buffers one is free.
LEMMA FreeRegion ==
  ASSUME BufferAssumption, live \subseteq Buffers, IsFiniteSet(live), Cardinality(live) < MaxLive
  PROVE  \E n \in Nat : /\ BigRegion = RegionSize * (2 * n + 1)
                        /\ \A b \in live : Region(b.data) # 2 * n + 1
<1> DEFINE N == 0 .. MaxLive
           Odd == {2 * n + 1 : n \in N}
           D == {b.data \div RegionSize : b \in live}
           f == [b \in live |-> b.data \div RegionSize]
           g == [n \in N |-> 2 * n + 1]
<1>1. IsFiniteSet(D) /\ Cardinality(D) <= Cardinality(live)
  <2>1. f \in Surjection(live, D)
    BY DEF Surjection
  <2> HIDE DEF f, D
  <2> QED BY <2>1, FS_Surjection
<1>2. IsFiniteSet(N) /\ Cardinality(N) = MaxLive + 1 /\ MaxLive \in Nat
  <2>1. MaxLive \in Nat /\ 0 \in Int /\ MaxLive \in Int /\ ~(0 > MaxLive)
    BY DEF BufferAssumption
  <2>2. IsFiniteSet(N) /\ Cardinality(N) = MaxLive - 0 + 1
    BY <2>1, FS_Interval
  <2> QED BY <2>1, <2>2
<1>3. Odd \ D # {}
  <2> SUFFICES ASSUME Odd \subseteq D PROVE FALSE
    OBVIOUS
  <2>1. g \in Injection(N, D)
    <3>1. \A n \in N : g[n] \in Odd
      OBVIOUS
    <3>2. g \in [N -> D]
      <4> HIDE DEF N, D
      <4> QED BY <3>1
    <3>3. \A m, n \in N : g[m] = g[n] => m = n
      BY <1>2
    <3> HIDE DEF g, N, D
    <3> QED BY <3>2, <3>3 DEF Injection, IsInjective
  <2> HIDE DEF g, N, D
  <2>2. Cardinality(N) <= Cardinality(D)
    BY <1>1, <2>1, FS_Injection
  <2>3. Cardinality(D) \in Nat /\ Cardinality(live) \in Nat
    BY <1>1, FS_CardinalityType
  <2> QED BY <1>1, <1>2, <2>2, <2>3
<1>4. Odd \ D \in SUBSET Nat
  BY <1>2
<1>5. BigRegion = RegionSize * Min(Odd \ D)
  BY DEF BigRegion
<1>6. Min(Odd \ D) \in Odd \ D
  <2> HIDE DEF Odd, D
  <2> QED BY <1>3, <1>4, LeastOf
<1>7. PICK n \in N : Min(Odd \ D) = 2 * n + 1
  <2> HIDE DEF D
  <2> QED BY <1>6
<1>8. n \in Nat
  BY <1>2
<1>9. ASSUME NEW b \in live PROVE Region(b.data) # 2 * n + 1
  <2>1. b.data \div RegionSize \in D
    OBVIOUS
  <2> HIDE DEF D, Odd
  <2> QED BY <1>6, <1>7, <2>1 DEF Region
<1> HIDE DEF D, Odd
<1> QED BY <1>5, <1>7, <1>8, <1>9

\* A buffer that is too big for a chunk gets a region for itself.
LEMMA TakeRegion ==
  ASSUME BufferAssumption, Good(bufferpool_, live), Cardinality(live) < MaxLive,
         NEW size \in Sizes, BigThanMax(size)
  PROVE  Good(bufferpool_, live \cup {[data |-> BigRegion, len |-> size]})
<1> DEFINE new == [data |-> BigRegion, len |-> size]
           M == live \cup {new}
<1>1. /\ PoolTypes(bufferpool_, live) /\ Layout(bufferpool_) /\ FreeLists(bufferpool_)
      /\ Places(bufferpool_, live) /\ Unique(live) /\ NoneLost(bufferpool_, live)
  BY DEF Good
<1>2. PICK n \in Nat : /\ BigRegion = RegionSize * (2 * n + 1)
                       /\ \A b \in live : Region(b.data) # 2 * n + 1
  BY <1>1, FreeRegion DEF PoolTypes
<1>3. 2 * n + 1 \in Nat /\ 0 \in Nat /\ RegionSize \in Nat /\ 0 < RegionSize
  BY RegionHolds
<1>4. BigRegion \in Nat /\ Region(BigRegion) = 2 * n + 1
  <2>1. Region(RegionSize * (2 * n + 1) + 0) = 2 * n + 1 /\ RegionSize * (2 * n + 1) \in Nat
    BY <1>3, RegionOf
  <2>2. RegionSize * (2 * n + 1) + 0 = RegionSize * (2 * n + 1)
    BY <2>1
  <2> QED BY <1>2, <2>1, <2>2
<1>5. PoolTypes(bufferpool_, M)
  <2>1. new \in Buffers
    BY <1>4 DEF Buffers
  <2>2. IsFiniteSet(M)
    BY <1>1, FS_AddElement DEF PoolTypes
  <2> QED BY <1>1, <2>1, <2>2 DEF PoolTypes
<1>6. Places(bufferpool_, M)
  <2>1. BigPlace(new)
    BY <1>2 DEF BigPlace
  <2> QED BY <1>1, <2>1 DEF Places
<1>7. Unique(M)
  <2>1. \A b \in live : b.data # new.data
    BY <1>2, <1>4
  <2> QED BY <1>1, <2>1 DEF Unique
<1>8. NoneLost(bufferpool_, M)
  BY <1>1 DEF NoneLost
<1> QED BY <1>1, <1>5, <1>6, <1>7, <1>8 DEF Good

\* Chunk::Deallocate: the cell of a small buffer is free again, and only it.
LEMMA GiveCell ==
  ASSUME BufferAssumption, NEW pool, NEW L, Good(pool, L), NEW b \in L, NEW i \in DOMAIN pool,
         CellOf(pool, i, b), ~BigThanMax(b.len)
  PROVE  Good([pool EXCEPT ![i].first_ = <<b.data>> \o @], L \ {b})
<1> DEFINE s == pool[i].first_
           x == b.data
           f == <<x>> \o s
           p == [pool EXCEPT ![i].first_ = f]
           M == L \ {b}
<1>1. /\ pool \in Seq(Chunks) /\ Layout(pool) /\ FreeLists(pool) /\ Places(pool, L)
      /\ Unique(L) /\ NoneLost(pool, L) /\ L \subseteq Buffers /\ IsFiniteSet(L)
  BY DEF Good, PoolTypes
<1>2. s \in Seq(Nat) /\ IsInjective(s) /\ ToSet(s) \subseteq Cells(pool[i])
  BY <1>1, ChunkType DEF FreeLists
<1>3. x \in Nat /\ x \in Cells(pool[i]) /\ x \notin ToSet(s)
  <2>1. x \in Nat
    BY <1>1 DEF Buffers
  <2> QED BY <2>1 DEF CellOf
<1> HIDE DEF s, x
<1>4. f \in Seq(Nat) /\ IsInjective(f) /\ ToSet(f) = ToSet(s) \cup {x}
  BY <1>2, <1>3, PushFree
<1>5. p = WithList(pool, i, f)
  BY DEF WithList
<1> HIDE DEF f, p
<1>6. /\ p \in Seq(Chunks) /\ DOMAIN p = DOMAIN pool /\ p[i].first_ = f
      /\ \A j \in DOMAIN pool : j # i => p[j] = pool[j]
      /\ \A j \in DOMAIN pool :
           p[j].buffersize_ = pool[j].buffersize_ /\ Cells(p[j]) = Cells(pool[j])
      /\ Layout(p)
  BY <1>1, <1>4, <1>5, NewList
<1>7. PoolTypes(p, M)
  <2>1. IsFiniteSet(M) /\ M \subseteq Buffers
    BY <1>1, FS_RemoveElement
  <2> QED BY <1>6, <2>1 DEF PoolTypes
<1>8. FreeLists(p)
  <2> SUFFICES ASSUME NEW j \in DOMAIN pool
               PROVE  IsInjective(p[j].first_) /\ ToSet(p[j].first_) \subseteq Cells(p[j])
    BY <1>6 DEF FreeLists
  <2>1. CASE j = i
    BY <1>2, <1>3, <1>4, <1>6, <2>1
  <2>2. CASE j # i
    BY <1>1, <1>6, <2>2 DEF FreeLists
  <2> QED BY <2>1, <2>2
<1>9. \A j \in DOMAIN pool : ToSet(p[j].first_) \subseteq ToSet(pool[j].first_) \cup {x}
  BY <1>4, <1>6 DEF s
<1>10. \A j \in DOMAIN pool : ToSet(pool[j].first_) \subseteq ToSet(p[j].first_)
  BY <1>4, <1>6 DEF s
<1>11. \A c \in M : c.data # x
  BY <1>1 DEF Unique, x
<1>12. Places(p, M)
  <2> SUFFICES ASSUME NEW c \in M, SmallPlace(pool, c) PROVE SmallPlace(p, c)
    BY <1>1 DEF Places
  <2>1. PICK j \in DOMAIN pool : CellOf(pool, j, c)
    BY DEF SmallPlace
  <2>2. CellOf(p, j, c)
    BY <1>6, <1>9, <1>11, <2>1 DEF CellOf
  <2> QED BY <1>6, <2>2 DEF SmallPlace
<1>13. Unique(M)
  BY <1>1 DEF Unique
<1>14. NoneLost(p, M)
  <2> SUFFICES ASSUME NEW j \in DOMAIN pool, NEW y \in Cells(pool[j]), y \notin ToSet(p[j].first_)
               PROVE  \E c \in M : c.data = y
    BY <1>6 DEF NoneLost
  <2>1. PICK c \in L : c.data = y
    BY <1>1, <1>10 DEF NoneLost
  <2>2. c # b
    <3> SUFFICES ASSUME c = b PROVE FALSE
      OBVIOUS
    <3>1. y = x /\ j \in Nat /\ i \in Nat
      BY <1>1, <2>1, ChunkType DEF x
    <3>2. Region(y) = 2 * (j - 1) /\ Region(y) = 2 * (i - 1)
      BY <1>1, <1>3, <3>1, CellRegion
    <3>3. j = i
      BY <3>1, <3>2, Parity
    <3> QED BY <1>4, <1>6, <3>1, <3>3
  <2> QED BY <2>1, <2>2
<1>15. Good(p, M)
  BY <1>6, <1>7, <1>8, <1>12, <1>13, <1>14 DEF Good
<1> QED BY <1>15 DEF p, f, s, x

\* A big buffer leaves no cell behind.
LEMMA GiveRegion ==
  ASSUME BufferAssumption, NEW pool, NEW L, Good(pool, L), NEW b \in L, BigThanMax(b.len)
  PROVE  Good(pool, L \ {b})
<1>1. /\ PoolTypes(pool, L) /\ Layout(pool) /\ FreeLists(pool) /\ Places(pool, L) /\ Unique(L)
      /\ NoneLost(pool, L)
  BY DEF Good
<1>2. PoolTypes(pool, L \ {b})
  BY <1>1, FS_RemoveElement DEF PoolTypes
<1>3. \A i \in DOMAIN pool : b.data \notin Cells(pool[i])
  BY InCell
<1>4. NoneLost(pool, L \ {b})
  BY <1>1, <1>3 DEF NoneLost
<1>5. Places(pool, L \ {b}) /\ Unique(L \ {b})
  BY <1>1 DEF Places, Unique
<1> QED BY <1>1, <1>2, <1>4, <1>5 DEF Good

\* GetBuffer keeps every buffer in its place.
LEMMA AllocateGood ==
  ASSUME BufferAssumption, Good(bufferpool_, live), NEW size \in Sizes, Allocate(size)
  PROVE  Good(bufferpool_, live)'
<1> DEFINE room == {i \in EqualRange(size) : bufferpool_[i].first_ # <<>>}
           up == GetUpBoundSize(size)
           pool == Append(bufferpool_, NewChunk(up))
           n == Len(pool)
<1>1. Cardinality(live) < MaxLive
  BY DEF Allocate
<1>2. CASE BigThanMax(size)
  <2>1. live' = live \cup {[data |-> BigRegion, len |-> size]} /\ bufferpool_' = bufferpool_
    BY <1>2 DEF Allocate
  <2> QED BY <1>1, <1>2, <2>1, TakeRegion
<1>3. CASE ~BigThanMax(size) /\ room # {}
  <2> DEFINE i == Min(room)
  <2>1. room \in SUBSET Nat
    BY ChunkType DEF Good, PoolTypes, EqualRange
  <2>2. i \in room
    <3> HIDE DEF room
    <3> QED BY <1>3, <2>1, LeastOf
  <2>3. AllocateIn(bufferpool_, i, size)
    BY <1>3 DEF Allocate
  <2> HIDE DEF i
  <2>4. i \in DOMAIN bufferpool_ /\ bufferpool_[i].first_ # <<>> /\ bufferpool_[i].buffersize_ = up
    BY <2>2 DEF EqualRange
  <2> HIDE DEF up, room
  <2>5. Good([bufferpool_ EXCEPT ![i].first_ = Tail(@)],
             live \cup {[data |-> Head(bufferpool_[i].first_), len |-> size]})
    BY <1>3, <2>4, TakeCell DEF up
  <2> QED BY <2>3, <2>5 DEF AllocateIn
<1>4. CASE ~BigThanMax(size) /\ room = {}
  <2>1. up \in Nat \ {0} /\ up <= MaxBufferSize
    BY <1>4, UpBound
  <2>2. Good(pool, live) /\ NewChunk(up).first_ # <<>> /\ NewChunk(up).buffersize_ = up
    <3> HIDE DEF up
    <3> QED BY <2>1, AddChunk
  <2>3. n \in DOMAIN pool /\ pool[n] = NewChunk(up)
    <3>1. bufferpool_ \in Seq(Chunks)
      BY DEF Good, PoolTypes
    <3>2. Len(bufferpool_) \in Nat /\ n = Len(bufferpool_) + 1 /\ DOMAIN pool = 1 .. n
          /\ pool[n] = NewChunk(up)
      BY <3>1
    <3> HIDE DEF n, pool
    <3> QED BY <3>2
  <2>4. AllocateIn(pool, n, size)
    BY <1>4 DEF Allocate
  <2> HIDE DEF pool, n, room
  <2>5. Good([pool EXCEPT ![n].first_ = Tail(@)],
             live \cup {[data |-> Head(pool[n].first_), len |-> size]})
    BY <1>4, <2>2, <2>3, TakeCell
  <2> QED BY <2>4, <2>5 DEF AllocateIn
<1> QED BY <1>2, <1>3, <1>4

\* FreeBuffer finds the chunk of a small buffer, and leaves the others.
LEMMA DeallocateGood ==
  ASSUME BufferAssumption, Good(bufferpool_, live), NEW b \in live, Deallocate(b)
  PROVE  Good(bufferpool_, live)'
<1> DEFINE chunks == {i \in EqualRange(b.len) : IsChunkBuffer(bufferpool_[i], b.data)}
<1>1. bufferpool_ \in Seq(Chunks) /\ Layout(bufferpool_) /\ b \in Buffers
  BY DEF Good, PoolTypes
<1>2. live' = live \ {b}
  BY DEF Deallocate
<1>3. CASE BigThanMax(b.len)
  <2>1. bufferpool_' = bufferpool_
    BY <1>3 DEF Deallocate
  <2> QED BY <1>2, <1>3, <2>1, GiveRegion
<1>4. CASE ~BigThanMax(b.len)
  <2>1. PICK i \in DOMAIN bufferpool_ : CellOf(bufferpool_, i, b)
    BY <1>4 DEF Good, Places, BigPlace, SmallPlace
  <2>2. i \in chunks
    <3> DEFINE c == bufferpool_[i]
    <3>1. b.data \in Nat /\ b.data \in Bytes(b.data, c.buffersize_)
      <4>1. c.buffersize_ \in Nat \ {0} /\ b.data \in Nat
        BY <1>1, ChunkType, FirstByte
      <4>2. b.data \in b.data .. b.data + c.buffersize_ - 1
        BY <4>1
      <4> QED BY <4>1, <4>2 DEF Bytes
    <3>2. b.data \in Bytes(c.buffers_, c.maxnum_ * c.buffersize_)
      BY <1>1, <2>1, <3>1, CellBytes DEF CellOf
    <3>3. c.buffers_ \in Nat /\ c.maxnum_ * c.buffersize_ \in Nat
      <4>1. c.buffers_ \in Nat /\ c.maxnum_ \in Nat /\ c.buffersize_ \in Nat
        BY <1>1, ChunkType
      <4> QED BY <4>1
    <3>4. IsChunkBuffer(c, b.data)
      <4> DEFINE span == c.maxnum_ * c.buffersize_
                 base == c.buffers_
      <4>1. b.data \in base .. base + span - 1
        BY <3>2 DEF Bytes
      <4> HIDE DEF span, base
      <4>2. base \in Nat /\ span \in Nat
        BY <3>3 DEF span, base
      <4>3. b.data >= base /\ b.data < base + span
        BY <3>1, <4>1, <4>2
      <4> QED BY <4>3 DEF IsChunkBuffer, span, base
    <3> QED BY <2>1, <3>4 DEF EqualRange, CellOf
  <2>3. ASSUME NEW j \in chunks PROVE j = i
    <3> DEFINE c == bufferpool_[j]
               span == c.maxnum_ * c.buffersize_
               base == c.buffers_
    <3>1. j \in DOMAIN bufferpool_ /\ b.data >= base /\ b.data < base + span /\ b.data \in Nat
      BY <1>1, FirstByte DEF EqualRange, IsChunkBuffer
    <3>2. base \in Nat /\ span \in Nat
      <4>1. c.buffers_ \in Nat /\ c.maxnum_ \in Nat /\ c.buffersize_ \in Nat
        BY <1>1, <3>1, ChunkType
      <4> QED BY <4>1
    <3>3. b.data \in base .. base + span - 1
      <4> HIDE DEF base, span
      <4> QED BY <3>1, <3>2
    <3>4. b.data \in Bytes(c.buffers_, c.maxnum_ * c.buffersize_)
      BY <3>3 DEF Bytes
    <3>5. Region(b.data) = 2 * (j - 1)
      BY <1>1, <3>1, <3>4, ChunkBytes
    <3>6. Region(b.data) = 2 * (i - 1)
      BY <1>1, <2>1, CellRegion DEF CellOf
    <3>7. i \in Nat /\ j \in Nat
      BY <1>1, <3>1, ChunkType
    <3> HIDE DEF chunks
    <3> QED BY <3>5, <3>6, <3>7, Parity
  <2>4. chunks = {i} /\ Min(chunks) = i
    <3> HIDE DEF chunks
    <3>1. chunks = {i}
      BY <2>2, <2>3
    <3>2. chunks \in SUBSET Nat /\ chunks # {}
      BY <1>1, <3>1, ChunkType
    <3>3. Min(chunks) \in chunks
      BY <3>2, LeastOf
    <3> QED BY <3>1, <3>3
  <2>5. bufferpool_' = [bufferpool_ EXCEPT ![Min(chunks)].first_ = <<b.data>> \o @]
    BY <1>4, <2>4 DEF Deallocate
  <2> HIDE DEF chunks
  <2>6. bufferpool_' = [bufferpool_ EXCEPT ![i].first_ = <<b.data>> \o @]
    BY <2>4, <2>5
  <2>7. Good([bufferpool_ EXCEPT ![i].first_ = <<b.data>> \o @], live \ {b})
    BY <1>4, <2>1, GiveCell
  <2> QED BY <1>2, <2>6, <2>7
<1> QED BY <1>3, <1>4

\* No two live buffers share a byte and no cell of a chunk is lost or handed out
\* twice, in whatever order buffers of whatever sizes come and go, for chunks of
\* any size (FixedBufferAllocator::Allocate, Deallocate and Chunk of buffer/Buffer.h).
THEOREM BuffersAlwaysDisjoint ==
  ASSUME BufferAssumption
  PROVE  BuffersSpec => []BuffersDisjoint
<1>1. BuffersInit => Good(bufferpool_, live)
  <2> SUFFICES ASSUME BuffersInit PROVE Good(bufferpool_, live)
    OBVIOUS
  <2>1. bufferpool_ = <<>> /\ live = {} /\ bufferpool_ \in Seq(Chunks) /\ DOMAIN bufferpool_ = {}
    BY DEF BuffersInit
  <2>2. IsFiniteSet(live)
    BY <2>1, FS_EmptySet
  <2> QED BY <2>1, <2>2 DEF Good, PoolTypes, Layout, FreeLists, Places, Unique, NoneLost
<1>2. Good(bufferpool_, live) /\ [BuffersNext]_bufferVars => Good(bufferpool_, live)'
  <2> SUFFICES ASSUME Good(bufferpool_, live), [BuffersNext]_bufferVars
               PROVE  Good(bufferpool_, live)'
    OBVIOUS
  <2>1. CASE GetBuffer
    BY <2>1, AllocateGood DEF GetBuffer
  <2>2. CASE FreeBuffer
    BY <2>2, DeallocateGood DEF FreeBuffer
  <2>3. CASE UNCHANGED bufferVars
    BY <2>3 DEF bufferVars
  <2> QED BY <2>1, <2>2, <2>3 DEF BuffersNext
<1>3. Good(bufferpool_, live) => BuffersDisjoint
  BY GoodDisjoint
<1> QED BY <1>1, <1>2, <1>3, PTL DEF BuffersSpec

-----------------------------------------------------------------------------
(* The layout of files. *)

\* The recursive definition of Boundaries, up to the end of file n.
Adds(b, lengths, n) ==
  b = [i \in 0 .. n |-> IF i = 0 THEN 0 ELSE b[i - 1] + lengths[i]]

\* Such a function exists up to every n: the least n without one is not 0, and is
\* not the successor of another.
LEMMA AddsExist ==
  ASSUME NEW lengths \in Seq(Nat), NEW n \in 0 .. Len(lengths)
  PROVE  \E b \in [0 .. n -> Nat] : Adds(b, lengths, n)
<1> DEFINE Bad == {m \in 0 .. Len(lengths) : ~ \E b \in [0 .. m -> Nat] : Adds(b, lengths, m)}
<1> SUFFICES ASSUME Bad # {} PROVE FALSE
  OBVIOUS
<1>1. Bad \in SUBSET Nat
  OBVIOUS
<1>2. PICK m \in Bad : \A y \in Bad : m <= y
  <2> HIDE DEF Bad
  <2> QED BY <1>1, LeastNumber
<1>3. m \in 0 .. Len(lengths) /\ ~ \E b \in [0 .. m -> Nat] : Adds(b, lengths, m)
  OBVIOUS
<1>4. CASE m = 0
  <2> DEFINE b == [i \in 0 .. 0 |-> 0]
  <2>1. b \in [0 .. 0 -> Nat] /\ Adds(b, lengths, 0)
    BY DEF Adds
  <2> QED BY <1>3, <1>4, <2>1
<1>5. CASE m # 0
  <2>1. m \in 1 .. Len(lengths) /\ m - 1 \in 0 .. Len(lengths) /\ m \in Nat /\ m - 1 < m
    BY <1>3, <1>5
  <2>2. m - 1 \notin Bad
    <3> HIDE DEF Bad
    <3> QED BY <1>2, <2>1
  <2>3. PICK b \in [0 .. m - 1 -> Nat] : Adds(b, lengths, m - 1)
    BY <2>1, <2>2
  <2> DEFINE c == [i \in 0 .. m |-> IF i = m THEN b[m - 1] + lengths[m] ELSE b[i]]
  <2>4. lengths[m] \in Nat /\ b[m - 1] \in Nat
    BY <2>1
  <2>5. c \in [0 .. m -> Nat]
    BY <2>1, <2>4
  <2>6. \A i \in 0 .. m - 1 : b[i] = IF i = 0 THEN 0 ELSE b[i - 1] + lengths[i]
    BY <2>3 DEF Adds
  <2>7. ASSUME NEW i \in 0 .. m PROVE c[i] = IF i = 0 THEN 0 ELSE c[i - 1] + lengths[i]
    <3>1. CASE i = m
      BY <2>1, <3>1
    <3>2. CASE i # m
      BY <2>1, <2>6, <3>2
    <3> QED BY <3>1, <3>2
  <2> HIDE DEF c
  <2>8. Adds(c, lengths, m)
    BY <2>5, <2>7 DEF Adds
  <2> QED BY <1>3, <2>5, <2>8
<1> QED BY <1>4, <1>5

\* The files lie one after the other.
LEMMA BoundariesAdd ==
  ASSUME NEW lengths \in Seq(Nat)
  PROVE  /\ Boundaries(lengths) \in [0 .. Len(lengths) -> Nat]
         /\ Boundaries(lengths)[0] = 0
         /\ \A i \in 1 .. Len(lengths) : Boundaries(lengths)[i] = Boundaries(lengths)[i - 1] + lengths[i]
<1> DEFINE n == Len(lengths)
           B == Boundaries(lengths)
<1>1. B = CHOOSE b : Adds(b, lengths, n)
  BY DEF Boundaries, Adds
<1>2. n \in 0 .. Len(lengths) /\ n \in Nat
  OBVIOUS
<1>3. PICK c \in [0 .. n -> Nat] : Adds(c, lengths, n)
  BY <1>2, AddsExist
<1>4. Adds(B, lengths, n)
  BY <1>1, <1>3
<1> HIDE DEF B
<1>5. \A i \in 0 .. n : B[i] = IF i = 0 THEN 0 ELSE B[i - 1] + lengths[i]
  BY <1>4 DEF Adds
<1>6. DOMAIN B = 0 .. n /\ B = [i \in 0 .. n |-> B[i]]
  BY <1>4 DEF Adds
<1>7. \A i \in 0 .. n : B[i] \in Nat
  <2> DEFINE Bad == {i \in 0 .. n : B[i] \notin Nat}
  <2> SUFFICES ASSUME Bad # {} PROVE FALSE
    OBVIOUS
  <2>1. Bad \in SUBSET Nat
    OBVIOUS
  <2>2. PICK m \in Bad : \A y \in Bad : m <= y
    <3> HIDE DEF Bad
    <3> QED BY <2>1, LeastNumber
  <2>3. m \in 0 .. n /\ B[m] \notin Nat
    OBVIOUS
  <2>4. m # 0
    BY <1>2, <1>5, <2>3
  <2>5. m - 1 \in 0 .. n /\ m - 1 < m /\ m \in 1 .. n
    BY <1>2, <2>3, <2>4
  <2>6. m - 1 \notin Bad
    <3> HIDE DEF Bad
    <3> QED BY <2>2, <2>5
  <2>7. B[m - 1] \in Nat /\ lengths[m] \in Nat
    BY <2>5, <2>6
  <2> QED BY <1>5, <2>3, <2>4, <2>7
<1>8. B[0] = 0 /\ \A i \in 1 .. n : B[i] = B[i - 1] + lengths[i]
  BY <1>2, <1>5
<1> QED BY <1>6, <1>7, <1>8 DEF B

\* A later file ends no earlier.
LEMMA BoundariesGrow ==
  ASSUME NEW lengths \in Seq(Nat), NEW i \in 0 .. Len(lengths), NEW j \in 0 .. Len(lengths), i <= j
  PROVE  Boundaries(lengths)[i] <= Boundaries(lengths)[j]
<1> DEFINE n == Len(lengths)
           B == Boundaries(lengths)
           Bad == {k \in 0 .. n : i <= k /\ ~(B[i] <= B[k])}
<1> SUFFICES ASSUME Bad # {} PROVE FALSE
  OBVIOUS
<1>1. /\ B \in [0 .. n -> Nat] /\ n \in Nat
      /\ \A k \in 1 .. n : B[k] = B[k - 1] + lengths[k]
  BY BoundariesAdd
<1> HIDE DEF B
<1>2. PICK m \in Bad : \A y \in Bad : m <= y
  <2>1. Bad \in SUBSET Nat
    OBVIOUS
  <2> HIDE DEF Bad
  <2> QED BY <2>1, LeastNumber
<1>3. m \in 0 .. n /\ i <= m /\ ~(B[i] <= B[m])
  OBVIOUS
<1>4. i # m
  <2>1. B[i] \in Nat
    BY <1>1
  <2> QED BY <1>3, <2>1
<1>5. m \in 1 .. n /\ m - 1 \in 0 .. n /\ i <= m - 1 /\ m - 1 < m
  BY <1>1, <1>3, <1>4
<1>6. m - 1 \notin Bad
  <2> HIDE DEF Bad
  <2> QED BY <1>2, <1>5
<1>7. B[i] <= B[m - 1] /\ B[m] = B[m - 1] + lengths[m]
  BY <1>1, <1>5, <1>6
<1>8. lengths[m] \in Nat /\ B[m - 1] \in Nat /\ B[i] \in Nat
  <2>1. lengths[m] \in Nat
    BY <1>5
  <2>2. B[m - 1] \in Nat /\ B[i] \in Nat
    BY <1>1, <1>5
  <2> QED BY <2>1, <2>2
<1> QED BY <1>3, <1>7, <1>8

-----------------------------------------------------------------------------
(* The piece maps and the search.                                          *)

\* What is assumed of the constants, and of a torrent: its files lie within its
\* pieces, and a file that is wanted is not empty.
MapAssumption ==
  /\ PieceCount \in Nat /\ PieceLength \in Nat \ {0} /\ Bits \in Nat \ {0}
  /\ Torrents \subseteq Seq([length : Nat, is_download : BOOLEAN])
  /\ \A t \in Torrents :
       /\ FileBegin(t, Len(t) + 1) <= PieceCount * PieceLength
       /\ \A i \in DOMAIN t : t[i].is_download => t[i].length # 0

Wanted == (need_download_ \ (downloaded_ \cup downloading_)) \cap candidate

\* The map of wanted pieces is that of the files, and no piece is both downloaded
\* and being downloaded.
Maps ==
  /\ need_download_ = Touched /\ need_download_ \subseteq AllBits
  /\ downloaded_ \cap downloading_ = {}
  /\ files = <<>> => search = "idle"

\* Nothing wanted is before `begin`; between it and `end` there is something, or
\* nobody has found anything yet; and the byte the loop ends at is up to date.
Halving ==
  /\ begin \in Nat /\ end \in Nat /\ begin <= end /\ end <= map_size_
  /\ \A p \in Wanted : p \div Bits >= begin
  /\ begin < end => end = map_size_ \/ InBytes(Wanted, begin, end) # {}
  /\ begin >= end => begin = map_size_
       \/ /\ InBytes(result_piece_map_, begin, begin + 1) = InBytes(Wanted, begin, begin + 1)
          /\ InBytes(Wanted, begin, begin + 1) # {}

Found ==
  /\ search = "searching" => Halving
  /\ search = "found" => Wanted # {} /\ found_index = Min(Wanted)
  /\ search = "not_found" => Wanted = {}

MapInv == Maps /\ Found

\* The bits of the map and its bytes.
LEMMA MapSize ==
  ASSUME MapAssumption
  PROVE  map_size_ \in Nat /\ PieceCount <= map_size_ * Bits /\ map_size_ * Bits \in Nat
         /\ AllBits \subseteq Nat /\ \A p \in AllBits : p \div Bits \in Nat /\ p \div Bits < map_size_
<1> DEFINE n == PieceCount + Bits - 1
           m == map_size_
<1>1. n \in Nat /\ Bits \in Nat \ {0} /\ PieceCount \in Nat
  BY DEF MapAssumption
<1>2. n % Bits \in 0 .. Bits - 1 /\ m \in Nat /\ n = Bits * m + (n % Bits)
  <2> HIDE DEF n
  <2>1. n % Bits \in 0 .. Bits - 1 /\ n \div Bits \in Nat /\ n = Bits * (n \div Bits) + (n % Bits)
    BY <1>1, Division
  <2> QED BY <2>1 DEF map_size_, n
<1>3. PieceCount = n - Bits + 1
  BY <1>1
<1> HIDE DEF n, m
<1>4. Bits * m = m * Bits /\ m * Bits \in Nat
  BY <1>1, <1>2
<1>5. PieceCount <= m * Bits
  BY <1>1, <1>2, <1>3, <1>4
<1>6. AllBits = 0 .. m * Bits - 1
  BY DEF AllBits, m
<1>7. ASSUME NEW p \in 0 .. m * Bits - 1 PROVE p \in Nat /\ p \div Bits \in Nat /\ p \div Bits < m
  <2>1. p \in Nat /\ p < m * Bits
    BY <1>4
  <2>3. PICK q \in Nat, r \in Nat : p \div Bits = q /\ p = Bits * q + r
    BY <1>1, <2>1, Quotient
  <2>4. CASE m <= q
    <3>1. m * Bits <= q * Bits /\ q * Bits \in Nat /\ Bits * q = q * Bits
      <4>1. CASE m = q
        BY <1>1, <1>4, <2>3, <4>1
      <4>2. CASE m < q
        BY <1>1, <1>2, <2>3, <4>2, Spacing
      <4> QED BY <1>2, <2>3, <2>4, <4>1, <4>2
    <3> QED BY <1>4, <2>1, <2>3, <3>1
  <2> QED BY <1>2, <2>1, <2>3, <2>4
<1> QED BY <1>2, <1>4, <1>5, <1>6, <1>7 DEF m

\* The quotient is monotone.
LEMMA Monotone ==
  ASSUME NEW a \in Nat, NEW b \in Nat, NEW k \in Nat \ {0}, a <= b
  PROVE  a \div k <= b \div k /\ a \div k \in Nat /\ b \div k \in Nat
OBVIOUS

\* A file's pieces: from the one of its first byte to the one of its last.
LEMMA Pieces ==
  ASSUME NEW o \in Nat, NEW l \in Nat \ {0}, NEW k \in Nat \ {0}
  PROVE  (o \div k) .. (o + l + k - 1) \div k - 1 = {(o + b) \div k : b \in 0 .. l - 1}
<1>1. (o + l + k - 1) \div k - 1 = (o + l - 1) \div k
  <2>1. PICK m \in Nat : m = o + l - 1
    OBVIOUS
  <2>2. PICK q \in Nat, r \in Nat : m \div k = q /\ r < k /\ m = k * q + r
    BY <2>1, Quotient
  <2>5. k * (q + 1) = k * q + k /\ k * q \in Nat
    OBVIOUS
  <2>6. o + l + k - 1 = k * (q + 1) + r
    BY <2>1, <2>2, <2>5
  <2>7. (k * (q + 1) + r) \div k = q + 1
    BY <2>2, OfSum
  <2> QED BY <2>1, <2>2, <2>6, <2>7
<1>2. ASSUME NEW b \in 0 .. l - 1
      PROVE  (o + b) \div k \in (o \div k) .. (o + l - 1) \div k
  <2>1. o + b \in Nat /\ o + l - 1 \in Nat /\ o <= o + b /\ o + b <= o + l - 1
    OBVIOUS
  <2>2. o \div k <= (o + b) \div k /\ (o + b) \div k <= (o + l - 1) \div k
    BY <2>1, Monotone
  <2>3. o \div k \in Nat /\ (o + b) \div k \in Nat /\ (o + l - 1) \div k \in Nat
    BY <2>1, Monotone
  <2> QED BY <2>2, <2>3
<1>3. ASSUME NEW p \in (o \div k) .. (o + l - 1) \div k
      PROVE  \E b \in 0 .. l - 1 : (o + b) \div k = p
  <2>1. PICK m \in Nat : m = o + l - 1
    OBVIOUS
  <2>2. /\ m % k \in 0 .. k - 1 /\ m \div k \in Nat /\ m = k * (m \div k) + (m % k)
        /\ o % k \in 0 .. k - 1 /\ o \div k \in Nat /\ o = k * (o \div k) + (o % k)
    BY <2>1, Division
  <2>3. p \in Nat /\ o \div k <= p /\ p <= m \div k
    BY <2>1, <2>2
  <2>4. CASE p = o \div k
    <3>1. 0 \in 0 .. l - 1 /\ o + 0 = o
      OBVIOUS
    <3> QED BY <2>4, <3>1
  <2>5. CASE p # o \div k
    <3>1. PICK q \in Nat, u \in Nat : o \div k = q /\ u < k /\ o = k * q + u
      BY Quotient
    <3>2. PICK v \in Nat, w \in Nat : m \div k = v /\ m = k * v + w
      BY <2>1, Quotient
    <3>q. q < p /\ p <= v
      BY <2>3, <2>5, <3>1, <3>2
    <3>3. q * k + k <= p * k
      BY <2>3, <3>q, Spacing
    <3>4. p * k <= v * k
      <4>1. CASE p = v
        BY <4>1
      <4>2. CASE p < v
        BY <2>3, <4>2, Spacing
      <4> QED BY <2>3, <3>q, <4>1, <4>2
    <3>5. q * k = k * q /\ p * k = k * p /\ v * k = k * v /\ k * p \in Nat /\ k * q \in Nat
          /\ k * v \in Nat
      BY <2>3
    <3>6. o < k * p /\ k * p <= m
      BY <3>1, <3>2, <3>3, <3>4, <3>5
    <3>7. PICK b \in 0 .. l - 1 : b = k * p - o
      BY <2>1, <3>5, <3>6
    <3>8. o + b = k * p + 0
      BY <3>5, <3>7
    <3>9. (k * p + 0) \div k = p
      BY <2>3, OfSum
    <3> QED BY <3>8, <3>9
  <2> QED BY <2>4, <2>5
<1> QED BY <1>1, <1>2, <1>3

\* A file lies within the pieces of its torrent.
LEMMA FileWithin ==
  ASSUME MapAssumption, NEW t \in Torrents, NEW i \in DOMAIN t
  PROVE  /\ FileBegin(t, i) \in Nat /\ t[i].length \in Nat
         /\ FileBegin(t, i) + t[i].length <= PieceCount * PieceLength
<1> DEFINE lengths == [j \in DOMAIN t |-> t[j].length]
           n == Len(t)
           B == Boundaries(lengths)
<1>1. /\ t \in Seq([length : Nat, is_download : BOOLEAN]) /\ n \in Nat /\ DOMAIN t = 1 .. n
      /\ B[n] <= PieceCount * PieceLength /\ PieceCount * PieceLength \in Nat
  <2>1. t \in Seq([length : Nat, is_download : BOOLEAN]) /\ PieceCount * PieceLength \in Nat
    BY DEF MapAssumption
  <2>2. n \in Nat /\ DOMAIN t = 1 .. n /\ (n + 1) - 1 = n
    BY <2>1
  <2>3. FileBegin(t, n + 1) = B[n]
    BY <2>2 DEF FileBegin
  <2> QED BY <2>1, <2>2, <2>3 DEF MapAssumption
<1>2. lengths \in Seq(Nat) /\ Len(lengths) = n /\ \A j \in 1 .. n : lengths[j] = t[j].length
  <2>1. \A j \in 1 .. n : t[j].length \in Nat
    <3> SUFFICES ASSUME NEW j \in 1 .. n PROVE t[j].length \in Nat
      OBVIOUS
    <3> DEFINE Files == [length : Nat, is_download : BOOLEAN]
    <3>1. t \in Seq(Files) /\ j \in 1 .. Len(t)
      BY <1>1
    <3> HIDE DEF Files
    <3>2. t[j] \in Files
      BY <3>1
    <3> QED BY <3>2 DEF Files
  <2>2. lengths \in [1 .. n -> Nat]
    BY <1>1, <2>1
  <2> QED BY <1>1, <2>2
<1>3. FileBegin(t, i) = B[i - 1] /\ t[i].length = lengths[i]
  BY <1>1, <1>2 DEF FileBegin
<1> HIDE DEF lengths, B, n
<1>4. /\ B \in [0 .. n -> Nat]
      /\ \A j \in 1 .. n : B[j] = B[j - 1] + lengths[j]
  BY <1>2, BoundariesAdd DEF B
<1>5. i \in 1 .. n /\ i \in 0 .. n /\ n \in 0 .. n /\ i <= n /\ i - 1 \in 0 .. n
  BY <1>1
<1>6. B[i] <= B[n]
  BY <1>2, <1>5, BoundariesGrow DEF B
<1>7. B[i - 1] \in Nat /\ B[i] \in Nat /\ B[n] \in Nat /\ lengths[i] \in Nat
  BY <1>2, <1>4, <1>5
<1>8. B[i - 1] + lengths[i] = B[i]
  BY <1>4, <1>5
<1> QED BY <1>1, <1>3, <1>6, <1>7, <1>8

\* What UpdateNeedDownload marks for a file that is wanted.
LEMMA FilePieces ==
  ASSUME MapAssumption, NEW t \in Torrents, NEW i \in DOMAIN t, t[i].is_download
  PROVE  /\ (FileBegin(t, i) \div PieceLength)
              .. (FileBegin(t, i) + t[i].length + PieceLength - 1) \div PieceLength - 1
            = {(FileBegin(t, i) + b) \div PieceLength : b \in 0 .. t[i].length - 1}
         /\ \A b \in 0 .. t[i].length - 1 :
              (FileBegin(t, i) + b) \div PieceLength \in (0 .. PieceCount - 1) \cap AllBits
<1>1. PICK o \in Nat, l \in Nat \ {0}, k \in Nat \ {0}, n \in Nat :
        /\ o = FileBegin(t, i) /\ l = t[i].length /\ k = PieceLength /\ n = PieceCount
        /\ o + l <= n * k
  BY FileWithin DEF MapAssumption
<1>2. (o \div k) .. (o + l + k - 1) \div k - 1 = {(o + b) \div k : b \in 0 .. l - 1}
  BY Pieces
<1>3. ASSUME NEW b \in 0 .. l - 1 PROVE (o + b) \div k \in (0 .. n - 1) \cap AllBits
  <2>1. PICK m \in Nat : m = o + b
    OBVIOUS
  <2>2. PICK q \in Nat, r \in Nat : m \div k = q /\ r < k /\ m = k * q + r
    BY <2>1, Quotient
  <2>3. q < n
    <3> SUFFICES ASSUME n <= q PROVE FALSE
      OBVIOUS
    <3>1. n * k <= q * k
      <4>1. CASE n = q
        BY <4>1
      <4>2. CASE n < q
        BY <4>2, Spacing
      <4> QED BY <4>1, <4>2
    <3>2. q * k = k * q /\ k * q \in Nat /\ n * k \in Nat
      OBVIOUS
    <3>3. m < n * k
      BY <1>1, <2>1, <3>2
    <3> QED BY <2>2, <3>1, <3>2, <3>3
  <2>4. n <= map_size_ * Bits /\ map_size_ * Bits \in Nat
    BY <1>1, MapSize
  <2>5. q \in 0 .. map_size_ * Bits - 1
    <3>1. PICK z \in Nat : z = map_size_ * Bits
      BY <2>4
    <3> QED BY <2>3, <2>4, <3>1
  <2> QED BY <2>1, <2>2, <2>3, <2>5 DEF AllBits
<1> QED BY <1>1, <1>2, <1>3

\* UpdateNeedDownload marks the pieces of the wanted files.
LEMMA OpenMaps ==
  ASSUME MapAssumption, Maps, Open
  PROVE  Maps'
<1> DEFINE W == {j \in DOMAIN files' : files'[j].is_download}
<1>1. files' \in Torrents /\ need_download_' = UNION {NeedOf(i) \cap AllBits : i \in W}
  BY DEF Open
<1>2. /\ search = "idle" /\ search' = search /\ downloaded_' = downloaded_
      /\ downloading_' = downloading_ /\ downloaded_ \cap downloading_ = {}
  BY DEF Open, Maps, searchVars
<1>3. ASSUME NEW i \in W
      PROVE  /\ NeedOf(i) = {(FileBegin(files', i) + b) \div PieceLength : b \in 0 .. files'[i].length - 1}
             /\ \A b \in 0 .. files'[i].length - 1 :
                  (FileBegin(files', i) + b) \div PieceLength \in (0 .. PieceCount - 1) \cap AllBits
  <2>1. i \in DOMAIN files' /\ files'[i].is_download
    OBVIOUS
  <2>2. NeedOf(i) = (FileBegin(files', i) \div PieceLength)
          .. (FileBegin(files', i) + files'[i].length + PieceLength - 1) \div PieceLength - 1
    BY DEF NeedOf
  <2> HIDE DEF W
  <2> QED BY <1>1, <2>1, <2>2, FilePieces
<1>4. Touched' = {p \in 0 .. PieceCount - 1 : \E i \in DOMAIN files' :
                    \E b \in 0 .. files'[i].length - 1 :
                      files'[i].is_download /\ (FileBegin(files', i) + b) \div PieceLength = p}
  BY DEF Touched
<1>5. need_download_' = Touched'
  <2>1. ASSUME NEW p \in need_download_' PROVE p \in Touched'
    <3>1. PICK i \in W : p \in NeedOf(i)
      BY <1>1
    <3>2. PICK b \in 0 .. files'[i].length - 1 : p = (FileBegin(files', i) + b) \div PieceLength
      BY <1>3, <3>1
    <3>3. p \in 0 .. PieceCount - 1
      BY <1>3, <3>2
    <3> QED BY <1>4, <3>2, <3>3
  <2>2. ASSUME NEW p \in Touched' PROVE p \in need_download_'
    <3>1. PICK i \in W : \E b \in 0 .. files'[i].length - 1 :
                           p = (FileBegin(files', i) + b) \div PieceLength
      BY <1>4, <2>2
    <3>2. PICK b \in 0 .. files'[i].length - 1 : p = (FileBegin(files', i) + b) \div PieceLength
      BY <3>1
    <3>3. p \in NeedOf(i) \cap AllBits
      BY <1>3, <3>2
    <3> QED BY <1>1, <3>3
  <2> QED BY <2>1, <2>2
<1>6. need_download_' \subseteq AllBits
  BY <1>1
<1> QED BY <1>2, <1>5, <1>6 DEF Maps, AllBits, map_size_

-----------------------------------------------------------------------------
(* The search. *)

\* What is written to a range of bytes is what is there afterwards.
LEMMA StoreThere ==
  ASSUME NEW r, NEW m, NEW b, NEW e
  PROVE  InBytes(Store(r, m, b, e), b, e) = InBytes(m, b, e)
BY DEF Store, InBytes

\* Union, difference and intersection of the range, as a turn of the loop does them.
Computed(r, u, need, cand, b, e) ==
  LET union == Store(r, u, b, e)
      difference == Store(union, need \ union, b, e)
  IN  Store(difference, difference \cap cand, b, e)

\* Whatever was in the range of the result map before, it holds what is wanted.
LEMMA RangeComputed ==
  ASSUME NEW r, NEW u, NEW need, NEW cand, NEW b, NEW e
  PROVE  InBytes(Computed(r, u, need, cand, b, e), b, e) = InBytes((need \ u) \cap cand, b, e)
<1> DEFINE union == Store(r, u, b, e)
           difference == Store(union, need \ union, b, e)
           result == Store(difference, difference \cap cand, b, e)
<1>1. InBytes(union, b, e) = InBytes(u, b, e)
  BY StoreThere
<1>2. InBytes(difference, b, e) = InBytes(need \ union, b, e)
  <2> HIDE DEF union
  <2> QED BY StoreThere
<1>3. InBytes(result, b, e) = InBytes(difference \cap cand, b, e)
  <2> HIDE DEF difference
  <2> QED BY StoreThere
<1> HIDE DEF union, difference, result
<1>4. InBytes(result, b, e) = InBytes((need \ u) \cap cand, b, e)
  BY <1>1, <1>2, <1>3 DEF InBytes
<1> QED BY <1>4 DEF Computed, union, difference, result

\* The bytes of what is wanted.
LEMMA WantedBytes ==
  ASSUME MapAssumption, Maps
  PROVE  \A p \in Wanted : p \in Nat /\ p \div Bits \in Nat /\ p \div Bits < map_size_
BY MapSize DEF Maps, Wanted

\* One turn of the loop.
LEMMA HalveKeeps ==
  ASSUME MapAssumption, Maps, Halving, Halve
  PROVE  Halving'
<1> DEFINE half == (begin + end) \div 2
           middle == IF half = begin THEN begin + 1 ELSE half
           union == Store(result_piece_map_, downloaded_ \cup downloading_, begin, middle)
           difference == Store(union, need_download_ \ union, begin, middle)
           result == Store(difference, difference \cap candidate, begin, middle)
           M == map_size_
<1>1. /\ begin \in Nat /\ end \in Nat /\ begin < end /\ end <= M /\ M \in Nat
      /\ \A p \in Wanted : p \div Bits >= begin
      /\ end = M \/ InBytes(Wanted, begin, end) # {}
  BY MapSize DEF Halving, Halve
<1>2. middle \in Nat /\ begin < middle /\ middle <= end /\ (middle = end => end = begin + 1)
  <2>1. half \in Nat /\ begin <= half /\ half < end
    BY <1>1
  <2> HIDE DEF half
  <2> QED BY <1>1, <2>1
<1>3. /\ result_piece_map_' = result
      /\ IF IsEqual(result, {}, begin, middle)
           THEN begin' = middle /\ end' = end
           ELSE end' = (IF end = middle THEN middle - 1 ELSE middle) /\ begin' = begin
  BY DEF Halve
<1>4. InBytes(result, begin, middle) = InBytes(Wanted, begin, middle)
  <2>1. result = Computed(result_piece_map_, downloaded_ \cup downloading_, need_download_,
                          candidate, begin, middle)
    BY DEF Computed
  <2> HIDE DEF middle, result
  <2> QED BY <2>1, RangeComputed DEF Wanted
<1>5. Wanted' = Wanted /\ M' = M
  BY DEF Halve, Wanted, mapVars, map_size_
<1>6. IsEqual(result, {}, begin, middle) <=> InBytes(Wanted, begin, middle) = {}
  <2> HIDE DEF result, middle
  <2>1. begin # middle /\ InBytes({}, begin, middle) = {}
    BY <1>1, <1>2 DEF InBytes
  <2> QED BY <1>4, <2>1 DEF IsEqual
<1>7. \A p \in Wanted : p \div Bits \in Nat /\ p \div Bits < M
  BY WantedBytes
<1> HIDE DEF half, middle, union, difference, result, M
<1>8. CASE InBytes(Wanted, begin, middle) = {}
  <2>1. begin' = middle /\ end' = end
    BY <1>3, <1>6, <1>8
  <2>2. \A p \in Wanted : p \div Bits >= middle
    BY <1>1, <1>2, <1>7, <1>8 DEF InBytes
  <2>3. end = M \/ InBytes(Wanted, middle, end) # {}
    <3> SUFFICES ASSUME NEW p \in InBytes(Wanted, begin, end) PROVE p \in InBytes(Wanted, middle, end)
      BY <1>1
    <3> QED BY <2>2 DEF InBytes
  <2>4. middle >= end => middle = M
    <3> SUFFICES ASSUME middle = end, end # M PROVE FALSE
      BY <1>1, <1>2
    <3>1. PICK p \in InBytes(Wanted, middle, end) : TRUE
      BY <2>3
    <3>2. p \in Wanted /\ p \div Bits >= end /\ p \div Bits < end
      BY <3>1 DEF InBytes
    <3> QED BY <1>1, <1>7, <3>2
  <2> QED BY <1>1, <1>2, <1>5, <2>1, <2>2, <2>3, <2>4 DEF Halving, InBytes, M
<1>9. CASE InBytes(Wanted, begin, middle) # {} /\ end = middle
  <2>1. begin' = begin /\ end' = begin /\ middle = begin + 1
    BY <1>1, <1>2, <1>3, <1>6, <1>9
  <2>2. InBytes(result_piece_map_', begin, begin + 1) = InBytes(Wanted, begin, begin + 1)
        /\ InBytes(Wanted, begin, begin + 1) # {}
    BY <1>3, <1>4, <1>9, <2>1
  <2> QED BY <1>1, <1>5, <2>1, <2>2 DEF Halving, InBytes, M
<1>10. CASE InBytes(Wanted, begin, middle) # {} /\ end # middle
  <2>1. begin' = begin /\ end' = middle
    BY <1>3, <1>6, <1>10
  <2> QED BY <1>1, <1>2, <1>5, <1>10, <2>1 DEF Halving, InBytes, M
<1> QED BY <1>8, <1>9, <1>10

\* The first bit of the first byte that holds something wanted is the first of all.
LEMMA FirstWanted ==
  ASSUME NEW W, NEW n \in Nat, Bits \in Nat \ {0},
         \A p \in W : p \in Nat /\ p \div Bits \in Nat /\ p \div Bits >= n,
         InBytes(W, n, n + 1) # {}
  PROVE  Min(InBytes(W, n, n + 1)) = Min(W)
<1> DEFINE F == InBytes(W, n, n + 1)
           f == Min(F)
           w == Min(W)
<1>1. F \in SUBSET Nat /\ W \in SUBSET Nat /\ F # {} /\ F \subseteq W /\ W # {}
      /\ \A p \in W : p \in F <=> p \div Bits = n
  BY DEF InBytes
<1>2. f \in F /\ \A p \in F : f <= p
  <2> HIDE DEF F
  <2> QED BY <1>1, LeastOf
<1>3. w \in W /\ \A p \in W : w <= p
  BY <1>1, LeastOf
<1> HIDE DEF F, f, w
<1>4. f \in Nat /\ w \in Nat /\ w <= f
  BY <1>1, <1>2, <1>3
<1>5. w \div Bits <= f \div Bits
  BY <1>4, Monotone
<1>6. f \div Bits = n /\ w \div Bits >= n /\ w \div Bits \in Nat
  BY <1>1, <1>2, <1>3
<1>7. w \in F
  BY <1>1, <1>3, <1>5, <1>6
<1>8. f <= w
  BY <1>2, <1>7
<1> QED BY <1>4, <1>8 DEF F, f, w

\* The end of the loop, and what SearchPieceIndex takes from the byte it ends at.
LEMMA ReturnsKeeps ==
  ASSUME MapAssumption, Maps, Halving, SearchReturns
  PROVE  Found'
<1> DEFINE found == InBytes(result_piece_map_, begin, begin + 1)
<1>1. /\ begin \in Nat /\ begin >= end /\ Bits \in Nat \ {0} /\ map_size_ \in Nat
      /\ \A p \in Wanted : p \in Nat /\ p \div Bits \in Nat /\ p \div Bits >= begin
                           /\ p \div Bits < map_size_
  BY MapSize, WantedBytes DEF Halving, SearchReturns, MapAssumption
<1>2. Wanted' = Wanted
  BY DEF SearchReturns, Wanted, mapVars
<1>3. CASE begin = map_size_
  <2>1. Wanted = {}
    BY <1>1, <1>3
  <2>2. search' = "not_found"
    BY <1>3 DEF SearchReturns
  <2> QED BY <1>2, <2>1, <2>2 DEF Found
<1>4. CASE begin # map_size_
  <2>1. found = InBytes(Wanted, begin, begin + 1) /\ found # {}
    BY <1>1, <1>4 DEF Halving
  <2>2. search' = "found" /\ found_index' = Min(found)
    BY <1>4, <2>1 DEF SearchReturns
  <2>3. Min(found) = Min(Wanted)
    <3> HIDE DEF found
    <3>1. InBytes(Wanted, begin, begin + 1) # {}
      BY <2>1
    <3> QED BY <1>1, <2>1, <3>1, FirstWanted
  <2>4. Wanted # {}
    BY <2>1 DEF InBytes
  <2> HIDE DEF found
  <2> QED BY <1>2, <2>2, <2>3, <2>4 DEF Found
<1> QED BY <1>3, <1>4

\* Every step keeps the maps, and what the search has found of them.
LEMMA MapStep ==
  ASSUME MapAssumption, MapInv, [MapsNext]_pieceMapVars
  PROVE  MapInv'
<1>1. Maps /\ Found
  BY DEF MapInv
<1>2. ASSUME UNCHANGED files PROVE Touched' = Touched
  BY <1>2 DEF Touched
<1>3. AllBits' = AllBits
  BY DEF AllBits, map_size_
<1>4. CASE Open
  <2>1. Maps'
    BY <1>1, <1>4, OpenMaps
  <2>2. search' = "idle"
    BY <1>1, <1>4 DEF Open, Maps, searchVars
  <2> QED BY <2>1, <2>2 DEF MapInv, Found
<1>5. CASE Search
  <2>1. UNCHANGED mapVars /\ search' = "searching" /\ begin' = 0 /\ end' = map_size_ /\ files # <<>>
    BY <1>5 DEF Search
  <2>2. Maps'
    BY <1>1, <1>2, <1>3, <2>1 DEF Maps, mapVars
  <2>3. map_size_ \in Nat /\ map_size_' = map_size_
    BY MapSize DEF map_size_
  <2>4. \A p \in Wanted' : p \div Bits >= 0
    <3>1. \A p \in Wanted' : p \in AllBits
      BY <1>3, <2>2 DEF Wanted, Maps
    <3>2. \A p \in Wanted' : p \div Bits \in Nat
      BY <3>1, MapSize
    <3> QED BY <3>2
  <2>5. Halving'
    BY <2>1, <2>3, <2>4 DEF Halving
  <2> QED BY <2>1, <2>2, <2>5 DEF MapInv, Found
<1>6. CASE Halve
  <2>1. UNCHANGED mapVars /\ search' = search /\ search = "searching"
    BY <1>6 DEF Halve
  <2>2. Maps'
    BY <1>1, <1>2, <1>3, <2>1 DEF Maps, mapVars
  <2>3. Halving'
    BY <1>1, <1>6, <2>1, HalveKeeps DEF Found
  <2> QED BY <2>1, <2>2, <2>3 DEF MapInv, Found
<1>7. CASE SearchReturns
  <2>1. UNCHANGED mapVars /\ search = "searching"
    BY <1>7 DEF SearchReturns
  <2>2. Maps'
    BY <1>1, <1>2, <1>3, <2>1 DEF Maps, mapVars
  <2>3. Found'
    BY <1>1, <1>7, <2>1, ReturnsKeeps DEF Found
  <2> QED BY <2>2, <2>3 DEF MapInv
<1>8. CASE Dispatch
  <2>1. /\ search' = "idle" /\ files' = files /\ need_download_' = need_download_
        /\ downloaded_' = downloaded_
        /\ downloading_' = IF search = "found" /\ found_index < PieceCount
                             THEN MarkPiece(downloading_, found_index) ELSE downloading_
    BY <1>8 DEF Dispatch
  <2>2. search = "found" => found_index \notin downloaded_
    <3> SUFFICES ASSUME search = "found" PROVE found_index \notin downloaded_
      OBVIOUS
    <3>1. Wanted # {} /\ found_index = Min(Wanted) /\ Wanted \in SUBSET Nat
      BY <1>1, WantedBytes DEF Found
    <3>2. found_index \in Wanted
      BY <3>1, LeastOf
    <3> QED BY <3>2 DEF Wanted
  <2>3. downloaded_' \cap downloading_' = {}
    <3>1. CASE search = "found" /\ found_index < PieceCount
      BY <1>1, <2>1, <2>2, <3>1 DEF Maps, MarkPiece
    <3>2. CASE ~(search = "found" /\ found_index < PieceCount)
      BY <1>1, <2>1, <3>2 DEF Maps
    <3> QED BY <3>1, <3>2
  <2>4. Maps'
    BY <1>1, <1>2, <1>3, <2>1, <2>3 DEF Maps
  <2> QED BY <2>1, <2>4 DEF MapInv, Found
<1>9. CASE \E p \in downloading_ : MarkDownloadComplete(p) \/ DownloadingFailed(p)
  <2>1. PICK p \in downloading_ : MarkDownloadComplete(p) \/ DownloadingFailed(p)
    BY <1>9
  <2>2. /\ search = "idle" /\ search' = search /\ files' = files
        /\ need_download_' = need_download_ /\ downloading_' = downloading_ \ {p}
        /\ downloaded_' \subseteq downloaded_ \cup {p}
    BY <2>1 DEF MarkDownloadComplete, DownloadingFailed, UnMarkPiece, MarkPiece, searchVars
  <2>3. Maps'
    BY <1>1, <1>2, <1>3, <2>2 DEF Maps
  <2> QED BY <2>2, <2>3 DEF MapInv, Found
<1>10. CASE UNCHANGED pieceMapVars
  <2>1. UNCHANGED mapVars /\ UNCHANGED searchVars
    BY <1>10 DEF pieceMapVars
  <2>2. Maps'
    BY <1>1, <1>2, <1>3, <2>1 DEF Maps, mapVars, searchVars
  <2>3. Found'
    BY <1>1, <2>1 DEF Found, Halving, Wanted, InBytes, map_size_, mapVars, searchVars
  <2> QED BY <2>2, <2>3 DEF MapInv
<1> QED BY <1>4, <1>5, <1>6, <1>7, <1>8, <1>9, <1>10 DEF MapsNext

\* The search by halves finds the first piece that a wanted file touches, that is
\* neither downloaded nor being downloaded and that the peer has, and finds none only
\* if there is none, for any torrents, maps of peers and numbers of pieces
\* (LinearPieceIndexSearcher::Search, BitPieceMap and BitDownloadingInfo of src/core).
THEOREM SearchAlwaysFindsFirst ==
  ASSUME MapAssumption
  PROVE  MapsSpec => []SearchFindsFirst
<1>1. MapsInit => MapInv
  <2> SUFFICES ASSUME MapsInit PROVE MapInv
    OBVIOUS
  <2>1. Touched = {}
    BY DEF MapsInit, Touched
  <2> QED BY <2>1 DEF MapsInit, MapInv, Maps, Found
<1>2. MapInv /\ [MapsNext]_pieceMapVars => MapInv'
  BY MapStep
<1>3. MapInv => SearchFindsFirst
  <2> SUFFICES ASSUME MapInv PROVE SearchFindsFirst
    OBVIOUS
  <2>1. Wanted = (Touched \ (downloaded_ \cup downloading_)) \cap candidate
    BY DEF MapInv, Maps, Wanted
  <2> QED BY <2>1 DEF MapInv, Maps, Found, SearchFindsFirst
<1> QED BY <1>1, <1>2, <1>3, PTL DEF MapsSpec
=============================================================================
