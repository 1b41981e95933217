------------------------ MODULE BitCompletionsProofs ------------------------
(***************************************************************************)
(* Why the count of an OverlappedInvoker, which no lock protects, is right *)
(* whatever the service threads do, for any number of operations and for   *)
(* as many threads as one WaitForMultipleObjects can wait for.             *)
(*                                                                         *)
(* The argument: a thread destroys its local invoker before it unlocks the *)
(* mutex under which it copied the invoker into completion_status_; and    *)
(* the main thread takes the copies out under the same mutex.  So while a  *)
(* local is destroyed its copy is still there and the count is 2, and once *)
(* the main thread has a copy it is the only one.                          *)
(***************************************************************************)
EXTENDS BitCompletions, SequenceTheorems, FiniteSetTheorems, TLAPS

\* What is assumed of the constants.  With more threads than one call can wait
\* for, Shutdown does not wait and the service goes while they run.
ServiceAssumption ==
  /\ NoOne \notin Operations /\ NoOne \notin Threads
  /\ IsFiniteSet(Threads) /\ Cardinality(Threads) <= MAXIMUM_WAIT_OBJECTS

WorkerSteps == {"get", "lock", "local", "release", "unlock", "exited"}
LoopSteps == {"run", "invoke", "only", "release", "wait", "gone"}

Types ==
  /\ operation \in [Operations -> {"none", "pending", "completed", "deleted"}]
  /\ port \in SUBSET Operations
  /\ worker \in [Threads -> [pc : WorkerSteps, op : Operations \cup {NoOne}]]
  /\ count \in [Operations -> Nat] /\ invoked \in [Operations -> {0, 1}]
  /\ completion_status_ \in Seq(Operations) /\ completion \in Seq(Operations)
  /\ mutex \in Threads \cup {NoOne} /\ loop.pc \in LoopSteps

Distinct(s) == \A i, j \in DOMAIN s : s[i] = s[j] => i = j

\* The copies the main thread has: where its loop is says which of them it has
\* invoked, and which one it is destroying.
Copies ==
  /\ loop.pc = "invoke" => loop.op \in 1 .. Len(completion)
  /\ loop.pc \in {"run", "wait", "gone"} => completion = <<>>
  /\ loop.pc = "release" => completion # <<>>
  /\ loop.pc = "gone" => \A h \in Threads : worker[h].pc = "exited"
  /\ Distinct(completion_status_) /\ Distinct(completion)
  /\ \A i \in DOMAIN completion :
       /\ invoked[completion[i]] = IF loop.pc = "invoke" /\ i >= loop.op THEN 0 ELSE 1
       /\ operation[completion[i]] =
            IF loop.pc = "release" /\ i = 1 THEN "deleted" ELSE "completed"

\* A thread at an operation is the only one there; it has a local invoker only
\* while it has the mutex, and then the vector has the copy.
Workers ==
  /\ \A h \in Threads :
       /\ mutex = h <=> worker[h].pc \in {"local", "release", "unlock"}
       /\ worker[h].op = NoOne <=> worker[h].pc \in {"get", "exited"}
       /\ worker[h].op # NoOne => operation[worker[h].op] = "completed" /\ worker[h].op \notin port
       /\ mutex = h => worker[h].op \in ToSet(completion_status_)
  /\ \A h, g \in Threads : worker[h].op = worker[g].op /\ worker[h].op # NoOne => h = g

\* No thread has come as far as to make an invoker of o.
Early(o) ==
  \/ operation[o] \in {"none", "pending"} \/ o \in port
  \/ \E h \in Threads : worker[h].op = o /\ worker[h].pc = "lock"

\* A thread has a local invoker of o.
Local(o) == \E h \in Threads : worker[h].op = o /\ worker[h].pc \in {"local", "release"}

One(b) == IF b THEN 1 ELSE 0

\* The count is right, and an invoker is in one place at a time, in this order.
Counted(o) ==
  /\ count[o] = One(Local(o)) + One(o \in ToSet(completion_status_)) + One(o \in ToSet(completion))
  /\ o \in port => operation[o] = "completed"
  /\ Early(o) => o \notin ToSet(completion_status_) \cup ToSet(completion) /\ invoked[o] = 0
  /\ o \in ToSet(completion_status_) =>
       o \notin ToSet(completion) /\ operation[o] = "completed" /\ invoked[o] = 0
  /\ invoked[o] = 1 => operation[o] = "deleted" \/ o \in ToSet(completion)

Inv == Types /\ Copies /\ Workers /\ \A o \in Operations : Counted(o)

-----------------------------------------------------------------------------
(* Sequences. *)

\* The empty sequence has no elements.
LEMMA SetOfEmpty == ToSet(<<>>) = {}
BY DEF ToSet

\* The elements after an Append.
LEMMA SetOfAppend ==
  ASSUME NEW S, NEW s \in Seq(S), NEW x \in S
  PROVE  /\ ToSet(Append(s, x)) = ToSet(s) \cup {x}
         /\ (Distinct(s) /\ x \notin ToSet(s) => Distinct(Append(s, x)))
<1> DEFINE n == Len(s)
           t == Append(s, x)
<1>1. /\ n \in Nat /\ DOMAIN s = 1 .. n /\ DOMAIN t = 1 .. n + 1
      /\ \A i \in 1 .. n : t[i] = s[i]
      /\ t[n + 1] = x
  BY LenProperties, AppendProperties
<1> HIDE DEF n, t
<1>2. \A i \in DOMAIN t : i \in DOMAIN s \/ i = n + 1
  BY <1>1
<1>3. \A i \in DOMAIN s : i \in DOMAIN t /\ n + 1 \in DOMAIN t /\ t[i] = s[i]
  BY <1>1
<1>4. n + 1 \in DOMAIN t
  BY <1>1
<1>5. \A y : y \in ToSet(t) <=> y \in ToSet(s) \/ y = x
  BY <1>1, <1>2, <1>3, <1>4 DEF ToSet
<1>6. ToSet(t) = ToSet(s) \cup {x}
  BY <1>5
<1>7. ASSUME Distinct(s), x \notin ToSet(s) PROVE Distinct(t)
  <2> SUFFICES ASSUME NEW i \in DOMAIN t, NEW j \in DOMAIN t, t[i] = t[j] PROVE i = j
    BY DEF Distinct
  <2>1. \A k \in DOMAIN s : t[k] # x
    BY <1>3, <1>7 DEF ToSet
  <2> QED BY <1>1, <1>2, <1>3, <1>7, <2>1 DEF Distinct
<1> QED BY <1>6, <1>7 DEF t

\* The elements of the tail of a sequence that repeats none.
LEMMA SetOfTail ==
  ASSUME NEW S, NEW s \in Seq(S), s # <<>>, Distinct(s)
  PROVE  /\ ToSet(Tail(s)) = ToSet(s) \ {Head(s)} /\ Distinct(Tail(s))
         /\ Head(s) \in ToSet(s) /\ Head(s) = s[1]
         /\ \A i \in DOMAIN Tail(s) : i + 1 \in DOMAIN s /\ Tail(s)[i] = s[i + 1] /\ i + 1 # 1
<1> DEFINE n == Len(s)
           t == Tail(s)
<1>1. /\ n \in Nat \ {0} /\ DOMAIN s = 1 .. n /\ DOMAIN t = 1 .. n - 1
      /\ \A i \in 1 .. n - 1 : t[i] = s[i + 1]
      /\ Head(s) = s[1]
  BY LenProperties, HeadTailProperties, EmptySeq
<1> HIDE DEF n, t
<1>2. /\ 1 \in DOMAIN s
      /\ \A i \in DOMAIN t : i + 1 \in DOMAIN s /\ t[i] = s[i + 1] /\ i + 1 # 1
      /\ \A i \in DOMAIN s : i # 1 => i - 1 \in DOMAIN t /\ t[i - 1] = s[i]
  BY <1>1
<1>3. \A y : y \in ToSet(t) <=> y \in ToSet(s) /\ y # s[1]
  <2>1. ASSUME NEW y \in ToSet(t) PROVE y \in ToSet(s) /\ y # s[1]
    <3>1. PICK i \in DOMAIN t : y = t[i]
      BY DEF ToSet
    <3> QED BY <1>2, <3>1 DEF ToSet, Distinct
  <2>2. ASSUME NEW y \in ToSet(s), y # s[1] PROVE y \in ToSet(t)
    <3>1. PICK i \in DOMAIN s : y = s[i]
      BY DEF ToSet
    <3>2. i - 1 \in DOMAIN t /\ t[i - 1] = y
      BY <1>2, <2>2, <3>1
    <3> QED BY <3>2 DEF ToSet
  <2> QED BY <2>1, <2>2
<1>4. ToSet(t) = ToSet(s) \ {Head(s)}
  BY <1>1, <1>3
<1>5. Distinct(t)
  <2> SUFFICES ASSUME NEW i \in DOMAIN t, NEW j \in DOMAIN t, t[i] = t[j] PROVE i = j
    BY DEF Distinct
  <2>1. i + 1 = j + 1
    BY <1>2 DEF Distinct
  <2> QED BY <1>1, <2>1
<1>6. Head(s) \in ToSet(s)
  BY <1>1, <1>2 DEF ToSet
<1> QED BY <1>1, <1>2, <1>4, <1>5, <1>6 DEF t

-----------------------------------------------------------------------------
(* The types. *)

\* What goes to a thread.
LEMMA GoesType ==
  ASSUME Types, NEW h \in Threads, NEW pc \in WorkerSteps, NEW o \in Operations \cup {NoOne},
         Goes(h, pc, o)
  PROVE  /\ worker' \in [Threads -> [pc : WorkerSteps, op : Operations \cup {NoOne}]]
         /\ worker'[h].pc = pc /\ worker'[h].op = o
         /\ \A g \in Threads : g # h => worker'[g] = worker[g]
BY DEF Types, Goes

\* The operation of a thread that is not at one is NoOne.
LEMMA AtOperation ==
  ASSUME Types, Workers, NEW h \in Threads, worker[h].pc \notin {"get", "exited"}
  PROVE  worker[h].op \in Operations
BY DEF Types, Workers

\* Every step keeps the types.
LEMMA StepTypes ==
  ASSUME ServiceAssumption, Inv, [CompletionsNext]_completionVars
  PROVE  Types'
<1>t. /\ Types /\ Copies /\ Workers /\ \A o \in Operations : Counted(o)
      /\ completion \in Seq(Operations) /\ completion_status_ \in Seq(Operations)
  BY DEF Inv, Types
<1>1. ASSUME NEW o \in Operations, AsyncOperation(o) \/ OperationCompletes(o) PROVE Types'
  BY <1>t, <1>1 DEF AsyncOperation, OperationCompletes, Types
<1>2. ASSUME NEW h \in Threads, GetQueuedCompletionStatus(h) PROVE Types'
  <2>1. \E pc \in WorkerSteps, o \in Operations \cup {NoOne} : Goes(h, pc, o)
    BY <1>t, <1>2 DEF GetQueuedCompletionStatus, Types, WorkerSteps
  <2>2. port' \in SUBSET Operations
    BY <1>t, <1>2 DEF GetQueuedCompletionStatus, Types
  <2>3. worker' \in [Threads -> [pc : WorkerSteps, op : Operations \cup {NoOne}]]
    BY <1>t, <2>1, GoesType
  <2> QED BY <1>t, <1>2, <2>2, <2>3 DEF GetQueuedCompletionStatus, Types
<1>3. ASSUME NEW h \in Threads, AddNewCompletionStatus(h) PROVE Types'
  <2>1. worker[h].op \in Operations
    BY <1>t, <1>3, AtOperation DEF AddNewCompletionStatus
  <2>2. completion_status_' \in Seq(Operations)
    BY <1>t, <1>3, <2>1, AppendProperties DEF AddNewCompletionStatus
  <2>3. worker' \in [Threads -> [pc : WorkerSteps, op : Operations \cup {NoOne}]]
    BY <1>t, <1>3, <2>1, GoesType DEF AddNewCompletionStatus, WorkerSteps
  <2> QED BY <1>t, <1>3, <2>1, <2>2, <2>3 DEF AddNewCompletionStatus, Types
<1>4. ASSUME NEW h \in Threads, LocalIsOnly(h) \/ ReleaseLocal(h) \/ Unlock(h) PROVE Types'
  <2>1. worker[h].op \in Operations
    BY <1>t, <1>4, AtOperation DEF LocalIsOnly, ReleaseLocal, Unlock
  <2>2. worker' \in [Threads -> [pc : WorkerSteps, op : Operations \cup {NoOne}]]
    BY <1>t, <1>4, <2>1, GoesType DEF LocalIsOnly, ReleaseLocal, Unlock, WorkerSteps
  <2>3. count' \in [Operations -> Nat]
    <3>1. ReleaseLocal(h) => count[worker[h].op] - 1 \in Nat
      <4>1. ReleaseLocal(h) => Local(worker[h].op)
        BY DEF ReleaseLocal, Local
      <4>2. ReleaseLocal(h) => count[worker[h].op] >= 1
        BY <1>t, <2>1, <4>1 DEF Counted, One
      <4> QED BY <1>t, <2>1, <4>2 DEF Types
    <3> QED BY <1>t, <1>4, <2>1, <3>1 DEF LocalIsOnly, ReleaseLocal, Unlock, Types
  <2> QED BY <1>t, <1>4, <2>1, <2>2, <2>3 DEF LocalIsOnly, ReleaseLocal, Unlock, Types
<1>5. ASSUME SwapCompletions PROVE Types'
  <2>1. loop'.pc = "invoke" /\ completion_status_' \in Seq(Operations)
    BY <1>5, EmptySeq DEF SwapCompletions
  <2> QED BY <1>t, <1>5, <2>1 DEF SwapCompletions, Types, LoopSteps
<1>6. ASSUME Invoke PROVE Types'
  <2> DEFINE o == completion[loop.op]
  <2>1. loop.op \in DOMAIN completion /\ o \in Operations
    BY <1>t, <1>6, LenProperties, ElementOfSeq DEF Invoke, Copies
  <2>2. invoked[o] = 0
    <3>1. loop.op \in Nat
      BY <1>t, <2>1, LenProperties
    <3> QED BY <1>t, <1>6, <2>1, <3>1 DEF Invoke, Copies
  <2>3. invoked' = [invoked EXCEPT ![o] = 1]
    BY <1>6, <2>2, <1>t, <2>1 DEF Invoke, Types
  <2>4. loop'.pc \in LoopSteps
    BY <1>6, <1>t DEF Invoke, At, Types, LoopSteps
  <2> HIDE DEF o
  <2> QED BY <1>t, <1>6, <2>1, <2>3, <2>4 DEF Invoke, Types
<1>7. ASSUME CopyIsOnly PROVE Types'
  <2>1. loop'.pc \in LoopSteps
    BY <1>7 DEF CopyIsOnly, At, LoopSteps
  <2>2. operation' \in [Operations -> {"none", "pending", "completed", "deleted"}]
    BY <1>t, <1>7 DEF CopyIsOnly, Types
  <2> QED BY <1>t, <1>7, <2>1, <2>2 DEF CopyIsOnly, Types
<1>8. ASSUME ReleaseCopy PROVE Types'
  <2>1. completion # <<>> /\ Distinct(completion)
    BY <1>t, <1>8 DEF ReleaseCopy, Copies
  <2>2. Head(completion) \in Operations /\ completion' \in Seq(Operations)
    BY <1>t, <1>8, <2>1, HeadTailProperties DEF ReleaseCopy
  <2>3. count[Head(completion)] - 1 \in Nat
    <3>1. Head(completion) \in ToSet(completion)
      BY <1>t, <2>1, SetOfTail
    <3> DEFINE o == Head(completion)
    <3>2. /\ One(o \in ToSet(completion)) = 1
          /\ One(Local(o)) \in {0, 1} /\ One(o \in ToSet(completion_status_)) \in {0, 1}
      BY <3>1 DEF One
    <3>3. count[o] = One(Local(o)) + One(o \in ToSet(completion_status_))
                        + One(o \in ToSet(completion))
      BY <1>t, <2>2 DEF Counted
    <3> QED BY <3>2, <3>3
  <2>4. loop'.pc \in LoopSteps
    BY <1>8 DEF ReleaseCopy, At, LoopSteps
  <2> QED BY <1>t, <1>8, <2>2, <2>3, <2>4 DEF ReleaseCopy, Types
<1>9. ASSUME Shutdown \/ Destroy PROVE Types'
  <2>1. loop'.pc \in LoopSteps
    BY <1>9 DEF Shutdown, Destroy, At, LoopSteps
  <2>2. completion_status_' \in Seq(Operations)
    BY <1>t, <1>9, EmptySeq DEF Shutdown, Destroy
  <2> QED BY <1>t, <1>9, <2>1, <2>2 DEF Shutdown, Destroy, Types
<1>10. CASE UNCHANGED completionVars
  BY <1>t, <1>10 DEF completionVars, Types
<1> QED BY <1>1, <1>2, <1>3, <1>4, <1>5, <1>6, <1>7, <1>8, <1>9, <1>10 DEF CompletionsNext

-----------------------------------------------------------------------------
(* Where the invokers are. *)

\* An operation whose invoker the main thread has is at no thread and not in the
\* port any more, and its count is 1.
LEMMA MainHasLast ==
  ASSUME ServiceAssumption, Inv, NEW o \in Operations, o \in ToSet(completion)
  PROVE  /\ count[o] = 1 /\ o \notin port /\ o \notin ToSet(completion_status_)
         /\ ~Early(o) /\ ~Local(o) /\ \A h \in Threads : worker[h].op # o
<1>1. Types /\ Workers /\ Counted(o)
  BY DEF Inv
<1>2. o \notin ToSet(completion_status_) /\ ~Early(o)
  BY <1>1 DEF Counted
<1>3. ASSUME NEW h \in Threads, worker[h].op = o PROVE FALSE
  <2>1. worker[h].pc \in {"lock", "local", "release", "unlock"}
    <3>1. o # NoOne
      BY DEF ServiceAssumption
    <3> QED BY <1>1, <1>3, <3>1 DEF Types, Workers, WorkerSteps
  <2>2. worker[h].pc # "lock"
    BY <1>2, <1>3 DEF Early
  <2>3. mutex = h
    BY <1>1, <2>1, <2>2 DEF Workers
  <2> QED BY <1>1, <1>2, <1>3, <2>3 DEF Workers
<1>4. ~Local(o)
  BY <1>3 DEF Local
<1>5. count[o] = 1
  BY <1>1, <1>2, <1>4 DEF Counted, One
<1> QED BY <1>2, <1>3, <1>4, <1>5 DEF Early

\* While a thread has a local invoker the count is 2: it never deletes.
LEMMA LocalIsNotLast ==
  ASSUME Inv, NEW h \in Threads, worker[h].pc \in {"local", "release"}
  PROVE  /\ worker[h].op \in Operations /\ count[worker[h].op] = 2 /\ mutex = h
         /\ worker[h].op \in ToSet(completion_status_)
<1> DEFINE o == worker[h].op
<1>1. Types /\ Workers
  BY DEF Inv
<1>2. o \in Operations /\ mutex = h /\ o \in ToSet(completion_status_)
  BY <1>1, AtOperation DEF Workers
<1>3. Counted(o) /\ Local(o)
  BY <1>2 DEF Inv, Local
<1>4. o \notin ToSet(completion)
  BY <1>2, <1>3 DEF Counted
<1>5. count[o] = 2
  BY <1>2, <1>3, <1>4 DEF Counted, One
<1> QED BY <1>2, <1>5

\* The head of the copies, when one is destroyed: it is the last, and is deleted.
LEMMA HeadCopy ==
  ASSUME ServiceAssumption, Inv, completion # <<>>
  PROVE  /\ Head(completion) \in Operations /\ count[Head(completion)] = 1
         /\ Head(completion) \in ToSet(completion) /\ Head(completion) = completion[1]
         /\ ToSet(Tail(completion)) = ToSet(completion) \ {Head(completion)}
         /\ Distinct(Tail(completion))
         /\ \A i \in DOMAIN Tail(completion) :
              i + 1 \in DOMAIN completion /\ Tail(completion)[i] = completion[i + 1] /\ i + 1 # 1
<1>1. completion \in Seq(Operations) /\ Distinct(completion)
  BY DEF Inv, Types, Copies
<1>2. Head(completion) \in Operations /\ Head(completion) \in ToSet(completion)
  BY <1>1, HeadTailProperties, SetOfTail
<1> QED BY <1>1, <1>2, SetOfTail, MainHasLast

\* Nobody but the main thread changes its copies.
LEMMA CopiesKept ==
  ASSUME Inv, UNCHANGED <<loop, completion, invoked>>, Distinct(completion_status_'),
         \A o \in ToSet(completion) : operation'[o] = operation[o],
         loop.pc = "gone" => \A h \in Threads : worker'[h].pc = "exited"
  PROVE  Copies'
<1>1. Copies
  BY DEF Inv
<1>2. \A i \in DOMAIN completion : operation'[completion[i]] = operation[completion[i]]
  BY DEF ToSet
<1> QED BY <1>1, <1>2 DEF Copies

\* Every step keeps the copies in their order.
LEMMA StepCopies ==
  ASSUME ServiceAssumption, Inv, [CompletionsNext]_completionVars
  PROVE  Copies'
<1>t. /\ Types /\ Copies /\ Workers /\ \A o \in Operations : Counted(o)
      /\ completion \in Seq(Operations) /\ completion_status_ \in Seq(Operations)
      /\ Distinct(completion_status_) /\ Distinct(completion)
      /\ Len(completion) \in Nat /\ DOMAIN completion = 1 .. Len(completion)
      /\ \A i \in DOMAIN completion : completion[i] \in Operations
  <2>1. completion \in Seq(Operations)
    BY DEF Inv, Types
  <2> QED BY <2>1, LenProperties, ElementOfSeq DEF Inv, Types, Copies
<1>1. ASSUME NEW o \in Operations, AsyncOperation(o) \/ OperationCompletes(o) PROVE Copies'
  <2>1. Early(o)
    BY <1>1 DEF AsyncOperation, OperationCompletes, Early
  <2>2. o \notin ToSet(completion)
    BY <2>1, MainHasLast
  <2>3. \A u \in ToSet(completion) : u \in Operations /\ u # o
    BY <1>t, <2>2 DEF ToSet
  <2>4. \A u \in Operations : u # o => operation'[u] = operation[u]
    BY <1>t, <1>1 DEF AsyncOperation, OperationCompletes, Types
  <2> QED BY <1>t, <1>1, <2>3, <2>4, CopiesKept DEF AsyncOperation, OperationCompletes, Copies
<1>2. ASSUME NEW h \in Threads,
             \/ GetQueuedCompletionStatus(h) \/ AddNewCompletionStatus(h) \/ LocalIsOnly(h)
             \/ ReleaseLocal(h) \/ Unlock(h)
      PROVE  Copies'
  <2>1. /\ UNCHANGED <<loop, completion, invoked>>
        /\ worker[h].pc # "exited"
    BY <1>2 DEF GetQueuedCompletionStatus, AddNewCompletionStatus, LocalIsOnly, ReleaseLocal, Unlock
  <2>2. operation' = operation
    <3>1. LocalIsOnly(h) => operation' = operation
      BY LocalIsNotLast DEF LocalIsOnly
    <3> QED BY <1>2, <3>1 DEF GetQueuedCompletionStatus, AddNewCompletionStatus, ReleaseLocal, Unlock
  <2>3. Distinct(completion_status_')
    <3>1. ASSUME AddNewCompletionStatus(h) PROVE Distinct(completion_status_')
      <4>1. worker[h].op \in Operations /\ Early(worker[h].op)
        BY <1>t, <3>1, AtOperation DEF AddNewCompletionStatus, Early
      <4>2. worker[h].op \notin ToSet(completion_status_)
        BY <1>t, <4>1 DEF Counted
      <4> QED BY <1>t, <3>1, <4>1, <4>2, SetOfAppend DEF AddNewCompletionStatus
    <3> QED BY <1>t, <1>2, <3>1 DEF GetQueuedCompletionStatus, LocalIsOnly, ReleaseLocal, Unlock
  <2> QED BY <1>t, <2>1, <2>2, <2>3, CopiesKept DEF Copies
<1>3. ASSUME SwapCompletions PROVE Copies'
  <2>1. /\ completion' = completion_status_ /\ completion_status_' = <<>>
        /\ completion_status_ # <<>> /\ loop' = [pc |-> "invoke", op |-> 1]
        /\ UNCHANGED <<operation, invoked>>
    BY <1>3 DEF SwapCompletions
  <2>2. 1 \in 1 .. Len(completion_status_)
    BY <1>t, <2>1, EmptySeq
  <2>3. \A i \in DOMAIN completion_status_ :
          /\ i >= 1 /\ invoked[completion_status_[i]] = 0
          /\ operation[completion_status_[i]] = "completed"
    <3> SUFFICES ASSUME NEW i \in DOMAIN completion_status_
                 PROVE  /\ i >= 1 /\ invoked[completion_status_[i]] = 0
                        /\ operation[completion_status_[i]] = "completed"
      OBVIOUS
    <3>1. i >= 1 /\ completion_status_[i] \in Operations
      BY <1>t, LenProperties, ElementOfSeq
    <3>2. completion_status_[i] \in ToSet(completion_status_)
      BY DEF ToSet
    <3> QED BY <1>t, <3>1, <3>2 DEF Counted
  <2>4. Distinct(<<>>)
    BY DEF Distinct
  <2> QED BY <1>t, <2>1, <2>2, <2>3, <2>4 DEF Copies
<1>4. ASSUME Invoke PROVE Copies'
  <2> DEFINE k == loop.op
             o == completion[k]
  <2>1. k \in 1 .. Len(completion) /\ o \in Operations /\ invoked[o] = 0
    BY <1>t, <1>4 DEF Invoke, Copies
  <2>2. /\ invoked' = [invoked EXCEPT ![o] = 1]
        /\ UNCHANGED <<operation, worker, completion, completion_status_>>
    BY <1>4, <1>t, <2>1 DEF Invoke, Types
  <2>3. loop' = IF k = Len(completion) THEN At("only") ELSE [loop EXCEPT !.op = k + 1]
    BY <1>4 DEF Invoke
  <2>4. /\ loop.pc = "invoke"
        /\ (k = Len(completion) => loop'.pc = "only")
        /\ (k # Len(completion) => loop'.pc = "invoke" /\ loop'.op = k + 1)
    <3>1. loop.pc = "invoke" /\ (k = Len(completion) => loop'.pc = "only")
      BY <1>4, <2>3 DEF Invoke, At
    <3>2. k # Len(completion) => loop'.pc = "invoke" /\ loop'.op = k + 1
      BY <1>4 DEF Invoke, Types
    <3> QED BY <3>1, <3>2
  <2> HIDE DEF k, o
  <2>5. \A i \in DOMAIN completion :
          invoked'[completion[i]] = IF loop'.pc = "invoke" /\ i >= loop'.op THEN 0 ELSE 1
    <3> SUFFICES ASSUME NEW i \in DOMAIN completion
                 PROVE  invoked'[completion[i]] = IF loop'.pc = "invoke" /\ i >= loop'.op THEN 0 ELSE 1
      OBVIOUS
    <3>1. i \in Nat /\ i <= Len(completion) /\ k \in Nat
      BY <1>t, <2>1
    <3>2. CASE i = k
      <4>1. invoked'[completion[i]] = 1
        BY <1>t, <2>1, <2>2, <3>2 DEF Types, o
      <4> QED BY <2>4, <3>1, <3>2, <4>1
    <3>3. CASE i # k
      <4>1. completion[i] # o
        BY <1>t, <2>1, <3>3 DEF Distinct, o
      <4>2. invoked'[completion[i]] = invoked[completion[i]]
        BY <1>t, <2>2, <4>1 DEF Types
      <4>3. invoked[completion[i]] = IF i >= k THEN 0 ELSE 1
        BY <1>t, <2>4 DEF Copies, k
      <4>4. (loop'.pc = "invoke" /\ i >= loop'.op) <=> i >= k
        BY <2>1, <2>4, <3>1, <3>3
      <4> QED BY <4>2, <4>3, <4>4
    <3> QED BY <3>2, <3>3
  <2>6. \A i \in DOMAIN completion : operation[completion[i]] = "completed"
    BY <1>t, <2>4 DEF Copies
  <2>7. completion # <<>> /\ (loop'.pc = "invoke" => loop'.op \in 1 .. Len(completion))
    <3>1. Len(<<>>) = 0
      BY EmptySeq
    <3>2. completion # <<>>
      BY <1>t, <2>1, <3>1
    <3>3. Len(completion) \in Nat
      BY <1>t
    <3>4. loop'.pc = "invoke" => k # Len(completion) /\ loop'.op = k + 1
      BY <2>4
    <3>5. loop'.pc = "invoke" => loop'.op \in 1 .. Len(completion)
      BY <2>1, <3>3, <3>4
    <3> QED BY <3>2, <3>5
  <2> QED BY <1>t, <2>2, <2>4, <2>5, <2>6, <2>7 DEF Copies
<1>5. ASSUME CopyIsOnly PROVE Copies'
  <2>1. loop.pc = "only" /\ UNCHANGED <<worker, completion, completion_status_, invoked>>
    BY <1>5 DEF CopyIsOnly
  <2>2. CASE completion = <<>>
    BY <1>t, <1>5, <2>1, <2>2 DEF CopyIsOnly, Copies, At
  <2>3. CASE completion # <<>>
    <3>1. /\ Head(completion) = completion[1] /\ count[Head(completion)] = 1
          /\ Head(completion) \in Operations
      BY <2>3, HeadCopy
    <3>2. operation' = [operation EXCEPT ![Head(completion)] = "deleted"] /\ loop' = At("release")
      BY <1>5, <2>3, <3>1 DEF CopyIsOnly
    <3>3. \A i \in DOMAIN completion :
            /\ invoked[completion[i]] = 1
            /\ operation'[completion[i]] = IF i = 1 THEN "deleted" ELSE "completed"
      <4> SUFFICES ASSUME NEW i \in DOMAIN completion
                   PROVE  /\ invoked[completion[i]] = 1
                          /\ operation'[completion[i]] = IF i = 1 THEN "deleted" ELSE "completed"
        OBVIOUS
      <4>1. invoked[completion[i]] = 1 /\ operation[completion[i]] = "completed"
        BY <1>t, <2>1 DEF Copies
      <4>2. 1 \in DOMAIN completion
        BY <1>t, <2>3, EmptySeq
      <4>3. completion[i] = completion[1] <=> i = 1
        BY <1>t, <4>2 DEF Distinct
      <4> QED BY <1>t, <3>1, <3>2, <4>1, <4>3 DEF Types
    <3>4. loop'.pc = "release"
      BY <3>2 DEF At
    <3> QED BY <1>t, <2>1, <2>3, <3>3, <3>4 DEF Copies
  <2> QED BY <2>2, <2>3
<1>6. ASSUME ReleaseCopy PROVE Copies'
  <2>1. /\ loop.pc = "release" /\ loop'.pc = "only" /\ completion # <<>>
        /\ completion' = Tail(completion)
        /\ UNCHANGED <<worker, operation, completion_status_, invoked>>
    BY <1>t, <1>6 DEF ReleaseCopy, At, Copies
  <2>2. /\ Distinct(completion')
        /\ \A i \in DOMAIN completion' : i + 1 \in DOMAIN completion
               /\ completion'[i] = completion[i + 1] /\ i + 1 # 1
    BY <2>1, HeadCopy
  <2>3. \A i \in DOMAIN completion : i # 1 =>
          invoked[completion[i]] = 1 /\ operation[completion[i]] = "completed"
    BY <1>t, <2>1 DEF Copies
  <2>4. \A i \in DOMAIN completion' :
          invoked[completion'[i]] = 1 /\ operation[completion'[i]] = "completed"
    BY <2>2, <2>3
  <2> QED BY <1>t, <2>1, <2>2, <2>4 DEF Copies
<1>7. ASSUME Shutdown PROVE Copies'
  BY <1>t, <1>7 DEF Shutdown, Copies, At
<1>8. ASSUME Destroy PROVE Copies'
  <2>1. /\ \A h \in Threads : worker[h].pc = "exited"
        /\ completion = <<>> /\ loop'.pc = "gone" /\ completion_status_' = <<>>
        /\ UNCHANGED <<worker, completion, invoked>>
    <3>1. Cardinality(Threads) \in Nat /\ ~(Cardinality(Threads) > MAXIMUM_WAIT_OBJECTS)
      BY FS_CardinalityType DEF ServiceAssumption, MAXIMUM_WAIT_OBJECTS
    <3> QED BY <1>t, <1>8, <3>1 DEF Destroy, Copies, At
  <2>2. Distinct(<<>>) /\ DOMAIN completion = {}
    BY <2>1 DEF Distinct
  <2> QED BY <2>1, <2>2 DEF Copies
<1>9. CASE UNCHANGED completionVars
  BY <1>t, <1>9 DEF completionVars, Copies
<1> QED BY <1>1, <1>2, <1>3, <1>4, <1>5, <1>6, <1>7, <1>8, <1>9 DEF CompletionsNext

\* What the first half of the destruction of a copy does to the operations.
LEMMA CopyOutcome ==
  ASSUME CopyIsOnly
  PROVE  \/ operation' = operation
         \/ /\ completion # <<>>
            /\ operation' = [operation EXCEPT ![Head(completion)] = "deleted"]
<1>1. CASE completion = <<>>
  BY <1>1 DEF CopyIsOnly
<1>2. CASE completion # <<>> /\ count[Head(completion)] = 1
  BY <1>2 DEF CopyIsOnly
<1>3. CASE completion # <<>> /\ count[Head(completion)] # 1
  BY <1>3 DEF CopyIsOnly
<1> QED BY <1>1, <1>2, <1>3

\* Every step keeps the threads apart, and their locals under the mutex.
LEMMA StepWorkers ==
  ASSUME ServiceAssumption, Inv, [CompletionsNext]_completionVars
  PROVE  Workers'
<1>t. /\ Types /\ Copies /\ Workers /\ \A o \in Operations : Counted(o)
      /\ completion_status_ \in Seq(Operations)
      /\ NoOne \notin Operations /\ NoOne \notin Threads
  BY DEF Inv, Types, ServiceAssumption
<1>1. ASSUME UNCHANGED <<mutex, worker, port>>,
             \A o \in ToSet(completion_status_) : o \in ToSet(completion_status_'),
             \A h \in Threads : worker[h].op # NoOne => operation'[worker[h].op] = "completed"
      PROVE  Workers'
  BY <1>t, <1>1 DEF Workers
<1>2. ASSUME NEW o \in Operations, AsyncOperation(o) PROVE Workers'
  <2>1. \A h \in Threads : worker[h].op # NoOne =>
          worker[h].op \in Operations /\ operation[worker[h].op] = "completed"
    BY <1>t DEF Types, Workers
  <2>2. \A u \in Operations : operation[u] = "completed" => operation'[u] = "completed"
    BY <1>t, <1>2 DEF AsyncOperation, Types
  <2> QED BY <1>1, <1>2, <2>1, <2>2 DEF AsyncOperation
<1>3. ASSUME NEW o \in Operations, OperationCompletes(o) PROVE Workers'
  <2>1. \A h \in Threads : worker[h].op # NoOne =>
          /\ worker[h].op \in Operations /\ operation[worker[h].op] = "completed"
          /\ worker[h].op \notin port
    BY <1>t DEF Types, Workers
  <2>2. \A u \in Operations : operation[u] = "completed" =>
          operation'[u] = "completed" /\ (u \in port' => u \in port)
    BY <1>t, <1>3 DEF OperationCompletes, Types
  <2> QED BY <1>t, <1>3, <2>1, <2>2 DEF OperationCompletes, Workers
<1>4. ASSUME NEW h \in Threads, GetQueuedCompletionStatus(h) PROVE Workers'
  <2>1. worker[h].pc = "get" /\ UNCHANGED <<operation, mutex, completion_status_>> /\ mutex # h
    BY <1>t, <1>4 DEF GetQueuedCompletionStatus, Workers
  <2>2. ASSUME NEW o \in port, port' = port \ {o}, Goes(h, "lock", o) PROVE Workers'
    <3>1. /\ worker'[h].pc = "lock" /\ worker'[h].op = o /\ o \in Operations
          /\ \A g \in Threads : g # h => worker'[g] = worker[g]
      BY <1>t, <2>2, GoesType DEF Types, WorkerSteps
    <3>2. operation[o] = "completed" /\ \A g \in Threads : worker[g].op # o
      BY <1>t, <2>2, <3>1 DEF Counted, Workers
    <3> QED BY <1>t, <2>1, <2>2, <3>1, <3>2 DEF Workers
  <2>3. ASSUME port' = port, Goes(h, "exited", NoOne) PROVE Workers'
    <3>1. /\ worker'[h].pc = "exited" /\ worker'[h].op = NoOne
          /\ \A g \in Threads : g # h => worker'[g] = worker[g]
      BY <1>t, <2>3, GoesType DEF Types, WorkerSteps
    <3> QED BY <1>t, <2>1, <2>3, <3>1 DEF Workers
  <2> QED BY <1>4, <2>2, <2>3 DEF GetQueuedCompletionStatus
<1>5. ASSUME NEW h \in Threads, AddNewCompletionStatus(h) PROVE Workers'
  <2> DEFINE o == worker[h].op
  <2>1. /\ worker[h].pc = "lock" /\ mutex = NoOne /\ mutex' = h /\ o \in Operations
        /\ UNCHANGED <<operation, port>>
    BY <1>t, <1>5, AtOperation DEF AddNewCompletionStatus
  <2>2. /\ worker'[h].pc = "local" /\ worker'[h].op = o
        /\ \A g \in Threads : g # h => worker'[g] = worker[g]
    BY <1>t, <1>5, <2>1, GoesType DEF AddNewCompletionStatus, WorkerSteps
  <2>3. ToSet(completion_status_') = ToSet(completion_status_) \cup {o}
    BY <1>t, <1>5, <2>1, SetOfAppend DEF AddNewCompletionStatus
  <2>4. \A g \in Threads : worker[g].pc \notin {"local", "release", "unlock"}
    BY <1>t, <2>1 DEF Workers
  <2> QED BY <1>t, <2>1, <2>2, <2>3, <2>4 DEF Workers
<1>6. ASSUME NEW h \in Threads, NEW pc \in {"release", "unlock"}, Goes(h, pc, worker[h].op),
             worker[h].pc \in {"local", "release"},
             UNCHANGED <<operation, port, mutex, completion_status_>>
      PROVE  Workers'
  <2>1. worker[h].op \in Operations
    BY <1>6, LocalIsNotLast
  <2>2. /\ worker'[h].pc = pc /\ worker'[h].op = worker[h].op
        /\ \A g \in Threads : g # h => worker'[g] = worker[g]
    BY <1>t, <1>6, <2>1, GoesType DEF WorkerSteps
  <2> QED BY <1>t, <1>6, <2>1, <2>2 DEF Workers
<1>7. ASSUME NEW h \in Threads, LocalIsOnly(h) \/ ReleaseLocal(h) PROVE Workers'
  <2>1. LocalIsOnly(h) => operation' = operation
    BY LocalIsNotLast DEF LocalIsOnly
  <2> QED BY <1>6, <1>7, <2>1 DEF LocalIsOnly, ReleaseLocal
<1>8. ASSUME NEW h \in Threads, Unlock(h) PROVE Workers'
  <2>1. worker[h].pc = "unlock" /\ mutex = h /\ mutex' = NoOne
        /\ UNCHANGED <<operation, port, completion_status_>>
    BY <1>t, <1>8 DEF Unlock, Workers
  <2>2. /\ worker'[h].pc = "get" /\ worker'[h].op = NoOne
        /\ \A g \in Threads : g # h => worker'[g] = worker[g]
    BY <1>t, <1>8, GoesType DEF Unlock, WorkerSteps
  <2>3. \A g \in Threads : g # h => worker[g].pc \notin {"local", "release", "unlock"}
    BY <1>t, <2>1 DEF Workers
  <2> QED BY <1>t, <2>1, <2>2, <2>3 DEF Workers
<1>9. ASSUME SwapCompletions PROVE Workers'
  BY <1>t, <1>9 DEF SwapCompletions, Workers
<1>10. ASSUME Invoke \/ ReleaseCopy \/ Shutdown PROVE Workers'
  BY <1>t, <1>10 DEF Invoke, ReleaseCopy, Shutdown, Workers
<1>11. ASSUME CopyIsOnly PROVE Workers'
  <2>1. UNCHANGED <<mutex, worker, port, completion_status_>>
    BY <1>11 DEF CopyIsOnly
  <2>2. \/ operation' = operation
        \/ /\ completion # <<>>
           /\ operation' = [operation EXCEPT ![Head(completion)] = "deleted"]
    BY <1>11, CopyOutcome
  <2>3. ASSUME NEW h \in Threads, worker[h].op # NoOne
        PROVE  operation'[worker[h].op] = "completed"
    <3>1. worker[h].op \in Operations /\ operation[worker[h].op] = "completed"
      BY <1>t, <2>3 DEF Types, Workers
    <3>2. completion # <<>> => worker[h].op # Head(completion)
      BY HeadCopy, MainHasLast
    <3> QED BY <1>t, <2>2, <3>1, <3>2 DEF Types
  <2> QED BY <1>1, <2>1, <2>3
<1>12. ASSUME Destroy PROVE Workers'
  <2>1. /\ \A h \in Threads : worker[h].pc = "exited"
        /\ UNCHANGED <<mutex, worker, port>>
    <3>1. Cardinality(Threads) \in Nat /\ ~(Cardinality(Threads) > MAXIMUM_WAIT_OBJECTS)
      BY FS_CardinalityType DEF ServiceAssumption, MAXIMUM_WAIT_OBJECTS
    <3> QED BY <1>t, <1>12, <3>1 DEF Destroy
  <2> QED BY <1>t, <2>1 DEF Workers
<1>13. CASE UNCHANGED completionVars
  BY <1>t, <1>13 DEF completionVars, Workers
<1> QED BY <1>2, <1>3, <1>4, <1>5, <1>7, <1>8, <1>9, <1>10, <1>11, <1>12, <1>13 DEF CompletionsNext

\* What a step must keep of an operation it is not about.
LEMMA CountedKept ==
  ASSUME NEW o \in Operations, Counted(o), count'[o] = count[o], invoked'[o] = invoked[o],
         operation'[o] = operation[o], o \in port' => o \in port,
         Local(o)' <=> Local(o), Early(o)' => Early(o),
         o \in ToSet(completion_status_') <=> o \in ToSet(completion_status_),
         o \in ToSet(completion') <=> o \in ToSet(completion)
  PROVE  Counted(o)'
BY DEF Counted, One

\* Every step keeps the counts.
LEMMA StepCounted ==
  ASSUME ServiceAssumption, Inv, [CompletionsNext]_completionVars, NEW o \in Operations
  PROVE  Counted(o)'
<1>t. /\ Types /\ Copies /\ Workers /\ Counted(o)
      /\ completion_status_ \in Seq(Operations) /\ completion \in Seq(Operations)
      /\ NoOne \notin Operations /\ NoOne \notin Threads
  BY DEF Inv, Types, ServiceAssumption
<1>1. ASSUME UNCHANGED <<worker, port, completion_status_, completion>>,
             operation'[o] = operation[o], count'[o] = count[o], invoked'[o] = invoked[o]
      PROVE  Counted(o)'
  BY <1>t, <1>1, CountedKept DEF Local, Early
<1>2. ASSUME NEW u \in Operations, AsyncOperation(u) \/ OperationCompletes(u) PROVE Counted(o)'
  <2>1. UNCHANGED <<worker, completion_status_, completion, count, invoked>>
    BY <1>2 DEF AsyncOperation, OperationCompletes
  <2>2. CASE u # o
    <3>1. operation'[o] = operation[o] /\ (o \in port' => o \in port)
      BY <1>t, <1>2, <2>2 DEF AsyncOperation, OperationCompletes, Types
    <3> QED BY <1>t, <2>1, <3>1, CountedKept DEF Local, Early
  <2>3. CASE u = o
    <3>2. o \notin ToSet(completion_status_) /\ o \notin ToSet(completion) /\ invoked[o] = 0
      BY <1>2, <1>t, <2>3 DEF Counted, AsyncOperation, OperationCompletes, Early
    <3>3. o \in port' => operation'[o] = "completed"
      BY <1>t, <1>2, <2>3 DEF AsyncOperation, OperationCompletes, Types, Counted
    <3>4. Local(o)' <=> Local(o)
      BY <2>1 DEF Local
    <3>5. /\ invoked'[o] = 0 /\ count'[o] = count[o]
          /\ o \notin ToSet(completion_status_') /\ o \notin ToSet(completion')
      BY <2>1, <3>2
    <3>6. count[o] = One(Local(o)) + One(FALSE) + One(FALSE)
      BY <1>t, <3>2 DEF Counted, One
    <3>7. count'[o] = One(Local(o)') + One(FALSE) + One(FALSE)
      BY <3>4, <3>5, <3>6 DEF One
    <3> QED BY <3>3, <3>5, <3>7 DEF Counted, One
  <2> QED BY <2>2, <2>3
<1>3. ASSUME NEW h \in Threads, NEW pc \in {"lock", "exited"}, NEW u \in port \cup {NoOne},
             worker[h].pc = "get", Goes(h, pc, u), port' = port \ {u}, (pc = "lock") <=> (u # NoOne),
             UNCHANGED <<operation, count, completion_status_, completion, invoked>>
      PROVE  Counted(o)'
  <2>1. /\ worker'[h].pc = pc /\ worker'[h].op = u
        /\ \A g \in Threads : g # h => worker'[g] = worker[g]
    BY <1>t, <1>3, GoesType DEF Types, WorkerSteps
  <2>2. Local(o)' <=> Local(o)
    BY <1>3, <2>1 DEF Local
  <2>3. Early(o)' => Early(o)
    BY <1>t, <1>3, <2>1 DEF Early
  <2> QED BY <1>t, <1>3, <2>2, <2>3, CountedKept
<1>4. ASSUME NEW h \in Threads, GetQueuedCompletionStatus(h) PROVE Counted(o)'
  <2>1. NoOne \notin port /\ port \ {NoOne} = port
    BY <1>t DEF Types
  <2>2. ASSUME NEW u \in port, port' = port \ {u}, Goes(h, "lock", u) PROVE Counted(o)'
    <3>1. u # NoOne
      BY <2>1
    <3> QED BY <1>3, <1>4, <2>2, <3>1 DEF GetQueuedCompletionStatus
  <2>3. ASSUME port' = port, Goes(h, "exited", NoOne) PROVE Counted(o)'
    BY <1>3, <1>4, <2>1, <2>3 DEF GetQueuedCompletionStatus
  <2> QED BY <1>4, <2>2, <2>3 DEF GetQueuedCompletionStatus
<1>5. ASSUME NEW h \in Threads, AddNewCompletionStatus(h) PROVE Counted(o)'
  <2> DEFINE u == worker[h].op
  <2>1. /\ worker[h].pc = "lock" /\ mutex = NoOne /\ u \in Operations
        /\ UNCHANGED <<operation, port, completion, invoked>>
        /\ count' = [count EXCEPT ![u] = 2]
    BY <1>t, <1>5, AtOperation DEF AddNewCompletionStatus
  <2>2. /\ worker'[h].pc = "local" /\ worker'[h].op = u
        /\ \A g \in Threads : g # h => worker'[g] = worker[g]
    BY <1>t, <1>5, <2>1, GoesType DEF AddNewCompletionStatus, WorkerSteps
  <2>3. ToSet(completion_status_') = ToSet(completion_status_) \cup {u}
    BY <1>t, <1>5, <2>1, SetOfAppend DEF AddNewCompletionStatus
  <2>4. Early(o)' => Early(o)
    BY <2>1, <2>2 DEF Early
  <2> HIDE DEF u
  <2>5. CASE o # u
    <3>1. Local(o)' <=> Local(o)
      BY <1>t, <2>1, <2>2, <2>5 DEF Local, u
    <3>2. count'[o] = count[o]
      BY <1>t, <2>1, <2>5 DEF Types
    <3> QED BY <1>t, <2>1, <2>3, <2>4, <2>5, <3>1, <3>2, CountedKept
  <2>6. CASE o = u
    <3>1. Early(o)
      BY <2>1, <2>6 DEF Early, u
    <3>2. operation[o] = "completed" /\ o \notin port
      BY <1>t, <2>1, <2>6 DEF Workers, u
    <3>3. ~Early(o)'
      <4> SUFFICES ASSUME NEW g \in Threads, worker'[g].op = o, worker'[g].pc = "lock" PROVE FALSE
        BY <2>1, <3>2 DEF Early
      <4>1. g # h /\ worker[g].op = o
        BY <2>2
      <4> QED BY <1>t, <2>1, <2>6, <4>1 DEF Workers, u
    <3>4. Local(o)'
      BY <2>2, <2>6 DEF Local
    <3>5. count'[o] = 2
      BY <1>t, <2>1, <2>6 DEF Types
    <3>6. invoked[o] = 0 /\ o \notin ToSet(completion) /\ o \in ToSet(completion_status_')
      BY <1>t, <2>3, <2>6, <3>1 DEF Counted
    <3> QED BY <2>1, <3>2, <3>3, <3>4, <3>5, <3>6 DEF Counted, One
  <2> QED BY <2>5, <2>6
<1>6. ASSUME NEW h \in Threads, LocalIsOnly(h) PROVE Counted(o)'
  <2>1. worker[h].pc = "local" /\ worker[h].op \in Operations /\ operation' = operation
        /\ UNCHANGED <<port, count, completion_status_, completion, invoked>>
    BY <1>6, LocalIsNotLast DEF LocalIsOnly
  <2>2. /\ worker'[h].pc = "release" /\ worker'[h].op = worker[h].op
        /\ \A g \in Threads : g # h => worker'[g] = worker[g]
    BY <1>t, <1>6, <2>1, GoesType DEF LocalIsOnly, WorkerSteps
  <2>3. (Local(o)' <=> Local(o)) /\ (Early(o)' => Early(o))
    BY <2>1, <2>2 DEF Local, Early
  <2> QED BY <1>t, <2>1, <2>3, CountedKept
<1>7. ASSUME NEW h \in Threads, ReleaseLocal(h) PROVE Counted(o)'
  <2> DEFINE u == worker[h].op
  <2>1. /\ worker[h].pc = "release" /\ u \in Operations /\ count[u] = 2 /\ mutex = h
        /\ UNCHANGED <<operation, port, completion_status_, completion, invoked>>
        /\ u \in ToSet(completion_status_)
    BY <1>7, LocalIsNotLast DEF ReleaseLocal
  <2>2. /\ worker'[h].pc = "unlock" /\ worker'[h].op = u
        /\ \A g \in Threads : g # h => worker'[g] = worker[g]
    BY <1>t, <1>7, <2>1, GoesType DEF ReleaseLocal, WorkerSteps
  <2>3. count' = [count EXCEPT ![u] = 1]
    BY <1>7, <1>t, <2>1 DEF ReleaseLocal, Types
  <2>4. Early(o)' => Early(o)
    BY <2>1, <2>2 DEF Early
  <2> HIDE DEF u
  <2>5. CASE o # u
    <3>1. Local(o)' <=> Local(o)
      BY <2>2, <2>5 DEF Local, u
    <3>2. count'[o] = count[o]
      BY <1>t, <2>3, <2>5 DEF Types
    <3> QED BY <1>t, <2>1, <2>4, <3>1, <3>2, CountedKept
  <2>6. CASE o = u
    <3>1. ~Local(o)'
      <4> SUFFICES ASSUME NEW g \in Threads, worker'[g].op = o,
                          worker'[g].pc \in {"local", "release"}
                   PROVE  FALSE
        BY DEF Local
      <4>1. g # h /\ worker[g].pc \in {"local", "release"}
        BY <2>2
      <4>2. mutex = g
        BY <1>t, <4>1 DEF Workers
      <4> QED BY <2>1, <4>1, <4>2
    <3>2. count'[o] = 1
      BY <1>t, <2>3, <2>6 DEF Types
    <3>3. o \in ToSet(completion_status_) /\ o \notin ToSet(completion)
      BY <1>t, <2>1, <2>6 DEF Counted
    <3> QED BY <1>t, <2>1, <2>4, <3>1, <3>2, <3>3 DEF Counted, One
  <2> QED BY <2>5, <2>6
<1>8. ASSUME NEW h \in Threads, Unlock(h) PROVE Counted(o)'
  <2>1. /\ worker[h].pc = "unlock"
        /\ UNCHANGED <<operation, port, count, completion_status_, completion, invoked>>
    BY <1>8 DEF Unlock
  <2>2. /\ worker'[h].pc = "get"
        /\ \A g \in Threads : g # h => worker'[g] = worker[g]
    BY <1>t, <1>8, GoesType DEF Unlock, WorkerSteps
  <2>3. (Local(o)' <=> Local(o)) /\ (Early(o)' => Early(o))
    BY <2>1, <2>2 DEF Local, Early
  <2> QED BY <1>t, <2>1, <2>3, CountedKept
<1>9. ASSUME SwapCompletions PROVE Counted(o)'
  <2>1. /\ mutex = NoOne /\ completion = <<>> /\ completion_status_' = <<>>
        /\ completion' = completion_status_
        /\ UNCHANGED <<operation, port, worker, count, invoked>>
    BY <1>t, <1>9 DEF SwapCompletions, Copies
  <2>2. o \notin ToSet(completion) /\ o \notin ToSet(completion_status_')
    BY <2>1, SetOfEmpty
  <2>3. o \in ToSet(completion') <=> o \in ToSet(completion_status_)
    BY <2>1
  <2>4. (Local(o)' <=> Local(o)) /\ (Early(o)' <=> Early(o))
    BY <2>1 DEF Local, Early
  <2> QED BY <1>t, <2>1, <2>2, <2>3, <2>4 DEF Counted, One
<1>10. ASSUME Invoke PROVE Counted(o)'
  <2> DEFINE u == completion[loop.op]
  <2>1. loop.op \in DOMAIN completion /\ u \in Operations
    BY <1>t, <1>10, LenProperties, ElementOfSeq DEF Invoke, Copies
  <2>2. /\ invoked' = [invoked EXCEPT ![u] = @ + 1]
        /\ UNCHANGED <<operation, port, worker, count, completion_status_, completion>>
    BY <1>10 DEF Invoke
  <2>3. u \in ToSet(completion)
    BY <2>1 DEF ToSet
  <2> HIDE DEF u
  <2>4. CASE o # u
    <3>1. invoked'[o] = invoked[o]
      BY <1>t, <2>2, <2>4 DEF Types
    <3> QED BY <1>1, <2>2, <3>1
  <2>5. CASE o = u
    <3>1. ~Early(o) /\ o \notin ToSet(completion_status_)
      BY <2>1, <2>3, <2>5, MainHasLast
    <3>2. (Local(o)' <=> Local(o)) /\ ~Early(o)'
      BY <2>2, <3>1 DEF Local, Early
    <3>3. /\ count'[o] = count[o] /\ (o \in port' => operation'[o] = "completed")
          /\ o \notin ToSet(completion_status_') /\ o \in ToSet(completion')
      BY <1>t, <2>2, <2>3, <2>5, <3>1 DEF Counted
    <3>4. count[o] = One(Local(o)) + One(FALSE) + One(TRUE)
      BY <1>t, <2>3, <2>5, <3>1 DEF Counted, One
    <3>5. count'[o] = One(Local(o)') + One(FALSE) + One(TRUE)
      BY <3>2, <3>3, <3>4 DEF One
    <3> QED BY <3>2, <3>3, <3>5 DEF Counted, One
  <2> QED BY <2>4, <2>5
<1>11. ASSUME CopyIsOnly PROVE Counted(o)'
  <2>1. UNCHANGED <<port, worker, count, completion_status_, completion, invoked>>
    BY <1>11 DEF CopyIsOnly
  <2>2. \/ operation' = operation
        \/ /\ completion # <<>>
           /\ operation' = [operation EXCEPT ![Head(completion)] = "deleted"]
    BY <1>11, CopyOutcome
  <2>3. CASE operation' = operation
    BY <1>1, <2>1, <2>3
  <2>4. CASE /\ completion # <<>> /\ o # Head(completion)
             /\ operation' = [operation EXCEPT ![Head(completion)] = "deleted"]
    BY <1>t, <1>1, <2>1, <2>4 DEF Types
  <2>5. CASE /\ completion # <<>> /\ o = Head(completion)
             /\ operation' = [operation EXCEPT ![Head(completion)] = "deleted"]
    <3>1. o \in ToSet(completion) /\ o \notin port /\ o \notin ToSet(completion_status_) /\ ~Early(o)
      BY <2>5, HeadCopy, MainHasLast
    <3>2. operation'[o] = "deleted"
      BY <1>t, <2>5 DEF Types
    <3>3. (Local(o)' <=> Local(o)) /\ ~Early(o)'
      BY <2>1, <3>1, <3>2 DEF Local, Early
    <3>4. /\ count'[o] = count[o] /\ o \notin port'
          /\ o \notin ToSet(completion_status_') /\ o \in ToSet(completion')
      BY <2>1, <3>1
    <3>5. count[o] = One(Local(o)) + One(FALSE) + One(TRUE)
      BY <1>t, <3>1 DEF Counted, One
    <3>6. count'[o] = One(Local(o)') + One(FALSE) + One(TRUE)
      BY <3>3, <3>4, <3>5 DEF One
    <3> QED BY <3>2, <3>3, <3>4, <3>6 DEF Counted, One
  <2> QED BY <2>2, <2>3, <2>4, <2>5
<1>12. ASSUME ReleaseCopy PROVE Counted(o)'
  <2> DEFINE u == Head(completion)
  <2>1. /\ completion # <<>> /\ loop.pc = "release"
        /\ count' = [count EXCEPT ![u] = @ - 1] /\ completion' = Tail(completion)
        /\ UNCHANGED <<operation, port, worker, completion_status_, invoked>>
    BY <1>t, <1>12 DEF ReleaseCopy, Copies
  <2>2. /\ u \in Operations /\ u \in ToSet(completion) /\ count[u] = 1 /\ u = completion[1]
        /\ ToSet(completion') = ToSet(completion) \ {u}
    BY <2>1, HeadCopy
  <2>3. (Local(o)' <=> Local(o)) /\ (Early(o)' <=> Early(o))
    BY <2>1 DEF Local, Early
  <2>4. operation[u] = "deleted"
    <3>1. 1 \in DOMAIN completion
      BY <1>t, <2>1, LenProperties, EmptySeq
    <3> QED BY <1>t, <2>1, <2>2, <3>1 DEF Copies
  <2> HIDE DEF u
  <2>5. CASE o # u
    <3>1. count'[o] = count[o]
      BY <1>t, <2>1, <2>5 DEF Types
    <3> QED BY <1>t, <2>1, <2>2, <2>3, <2>5, <3>1, CountedKept
  <2>6. CASE o = u
    <3>1. o \notin port /\ o \notin ToSet(completion_status_) /\ ~Early(o) /\ ~Local(o)
      BY <2>2, <2>6, MainHasLast
    <3>2. count'[o] = 0
      BY <1>t, <2>1, <2>2, <2>6 DEF Types
    <3>3. o \notin ToSet(completion')
      BY <2>2, <2>6
    <3> QED BY <2>1, <2>3, <2>4, <2>6, <3>1, <3>2, <3>3 DEF Counted, One
  <2> QED BY <2>5, <2>6
<1>13. ASSUME Shutdown PROVE Counted(o)'
  BY <1>1, <1>13 DEF Shutdown
<1>14. ASSUME Destroy PROVE Counted(o)'
  <2>1. /\ \A h \in Threads : worker[h].pc = "exited"
        /\ completion = <<>> /\ completion_status_' = <<>>
        /\ count' = [u \in Operations |-> 0]
        /\ operation' = [u \in Operations |-> IF u \in ToSet(completion_status_) THEN "deleted"
                                                                              ELSE operation[u]]
        /\ UNCHANGED <<port, worker, completion, invoked>>
    <3>1. Cardinality(Threads) \in Nat /\ ~(Cardinality(Threads) > MAXIMUM_WAIT_OBJECTS)
      BY FS_CardinalityType DEF ServiceAssumption, MAXIMUM_WAIT_OBJECTS
    <3> QED BY <1>t, <1>14, <3>1 DEF Destroy, Copies
  <2>2. ~Local(o)' /\ count'[o] = 0
    BY <2>1 DEF Local
  <2>3. o \notin ToSet(completion) /\ o \notin ToSet(completion') /\ o \notin ToSet(completion_status_')
    BY <2>1, SetOfEmpty
  <2>4. Early(o)' => Early(o)
    BY <2>1 DEF Early
  <2>5. o \in port => o \notin ToSet(completion_status_)
    BY <1>t DEF Counted, Early
  <2> QED BY <1>t, <2>1, <2>2, <2>3, <2>4, <2>5 DEF Counted, One
<1>15. CASE UNCHANGED completionVars
  BY <1>1, <1>15 DEF completionVars
<1> QED BY <1>2, <1>4, <1>5, <1>6, <1>7, <1>8, <1>9, <1>10, <1>11, <1>12, <1>13, <1>14, <1>15 DEF CompletionsNext

-----------------------------------------------------------------------------
(* The theorem. *)

\* At first there is no invoker.
LEMMA InitInv ==
  ASSUME ServiceAssumption, CompletionsInit
  PROVE  Inv
<1>1. /\ completion_status_ = <<>> /\ completion = <<>> /\ port = {} /\ mutex = NoOne
      /\ \A h \in Threads : worker[h].pc = "get" /\ worker[h].op = NoOne
      /\ \A o \in Operations : operation[o] = "none" /\ count[o] = 0 /\ invoked[o] = 0
      /\ loop.pc = "run"
  BY DEF CompletionsInit, At
<1>2. /\ <<>> \in Seq(Operations) /\ ToSet(<<>>) = {} /\ DOMAIN <<>> = {} /\ Distinct(<<>>)
  BY EmptySeq, SetOfEmpty DEF Distinct
<1>3. Types
  BY <1>1, <1>2 DEF CompletionsInit, At, Types, WorkerSteps, LoopSteps
<1>4. Copies
  BY <1>1, <1>2 DEF Copies
<1>5. Workers
  <2>1. \A h \in Threads : mutex # h
    BY <1>1 DEF ServiceAssumption
  <2> QED BY <1>1, <2>1 DEF Workers
<1>6. ASSUME NEW o \in Operations PROVE Counted(o)
  <2>1. ~Local(o)
    BY <1>1 DEF Local
  <2> QED BY <1>1, <1>2, <2>1 DEF Counted, One
<1> QED BY <1>3, <1>4, <1>5, <1>6 DEF Inv

\* Every step keeps the invariant.
LEMMA StepInv ==
  ASSUME ServiceAssumption, Inv, [CompletionsNext]_completionVars
  PROVE  Inv'
BY StepTypes, StepCopies, StepWorkers, StepCounted DEF Inv

\* One thread at most has a local invoker of o.
LEMMA LocalsAreOne ==
  ASSUME ServiceAssumption, Workers, NEW o \in Operations
  PROVE  Cardinality({h \in Threads : worker[h].op = o /\ worker[h].pc \in {"local", "release"}})
           = One(Local(o))
<1> DEFINE H == {h \in Threads : worker[h].op = o /\ worker[h].pc \in {"local", "release"}}
<1>1. CASE Local(o)
  <2>1. PICK h \in Threads : worker[h].op = o /\ worker[h].pc \in {"local", "release"}
    BY <1>1 DEF Local
  <2>2. \A g \in Threads : worker[g].op = o => g = h
    BY <2>1 DEF Workers, ServiceAssumption
  <2>3. H = {h}
    BY <2>1, <2>2
  <2>4. Cardinality({h}) = 1
    BY FS_Singleton
  <2> QED BY <1>1, <2>3, <2>4 DEF One
<1>2. CASE ~Local(o)
  <2>1. H = {}
    BY <1>2 DEF Local
  <2>2. Cardinality({}) = 0
    BY FS_EmptySet
  <2> QED BY <1>2, <2>1, <2>2 DEF One
<1> QED BY <1>1, <1>2

\* What the invariant says of each operation.
LEMMA InvCompletions ==
  ASSUME ServiceAssumption, Inv
  PROVE  CompletionsOnce
<1>t. Types /\ Copies /\ Workers /\ \A o \in Operations : Counted(o)
  BY DEF Inv
<1> SUFFICES ASSUME NEW o \in Operations
             PROVE  /\ count[o] = Holders(o)
                    /\ invoked[o] <= 1
                    /\ invoked[o] = 1 => operation[o] \in {"completed", "deleted"}
                    /\ operation[o] = "deleted" /\ count[o] > 0 =>
                         count[o] = 1 /\ (loop.pc = "release" /\ Head(completion) = o)
                    /\ operation[o] = "completed" /\ invoked[o] = 1 => count[o] > 0
  BY DEF CompletionsOnce
<1>1. count[o] = Holders(o)
  BY <1>t, LocalsAreOne DEF Counted, Holders, One
<1>2. invoked[o] \in {0, 1}
  BY <1>t DEF Types
<1>3. ASSUME o \in ToSet(completion)
      PROVE  /\ operation[o] \in {"completed", "deleted"}
             /\ (operation[o] = "deleted" => loop.pc = "release" /\ Head(completion) = o)
             /\ count[o] = 1
  <2>1. PICK i \in DOMAIN completion : completion[i] = o
    BY <1>3 DEF ToSet
  <2>2. operation[o] = IF loop.pc = "release" /\ i = 1 THEN "deleted" ELSE "completed"
    BY <1>t, <2>1 DEF Copies
  <2>3. Head(completion) = completion[1]
    BY HeadCopy, SetOfEmpty, <1>3
  <2> QED BY <1>3, <2>1, <2>2, <2>3, MainHasLast
<1>4. invoked[o] = 1 => operation[o] \in {"completed", "deleted"}
  BY <1>t, <1>3 DEF Counted
<1>5. ASSUME operation[o] = "deleted", count[o] > 0 PROVE o \in ToSet(completion)
  <2>1. o \notin ToSet(completion_status_)
    BY <1>t, <1>5 DEF Counted
  <2>2. ~Local(o)
    BY <1>t, <1>5 DEF Local, Workers, ServiceAssumption
  <2>3. o \notin ToSet(completion) => count[o] = 0
    BY <1>t, <2>1, <2>2 DEF Counted, One
  <2> QED BY <1>5, <2>3
<1>6. ASSUME operation[o] = "completed", invoked[o] = 1 PROVE count[o] > 0
  <2>1. o \in ToSet(completion)
    BY <1>t, <1>6 DEF Counted
  <2> QED BY <1>3, <2>1
<1> QED BY <1>1, <1>2, <1>3, <1>4, <1>5, <1>6

\* The count of an operation is the number of its invokers: its handler is called
\* once and its Overlapped deleted after it, by the last invoker, for any number of
\* operations and up to 64 service threads (OverlappedInvoker and
\* IocpService of src/net/Overlapped.h and src/net/Iocp.h).
THEOREM CompletionsAlwaysOnce ==
  ASSUME ServiceAssumption
  PROVE  CompletionsSpec => []CompletionsOnce
<1>1. CompletionsInit => Inv
  BY InitInv
<1>2. Inv /\ [CompletionsNext]_completionVars => Inv'
  BY StepInv
<1>3. Inv => CompletionsOnce
  BY InvCompletions
<1> QED BY <1>1, <1>2, <1>3, PTL DEF CompletionsSpec
=============================================================================
