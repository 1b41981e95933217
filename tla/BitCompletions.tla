--------------------------- MODULE BitCompletions ---------------------------
(***************************************************************************)
(* IocpService: the operations the main thread starts, the service threads *)
(* that take their completions from the port, completion_status_ under its *)
(* mutex, and the OverlappedInvoker copies that share a count nobody       *)
(* protects: the last of them deletes the Overlapped of the operation.     *)
(* ~OverlappedInvoker looks at the count (Only) and ~RefCount lowers it,   *)
(* two steps between which another thread may come.                        *)
(***************************************************************************)
EXTENDS Naturals, FiniteSets, SequencesExt

CONSTANTS
  Operations,  \* the Overlapped objects
  Threads,     \* service_threads_
  NoOne        \* holder of the free mutex, or no operation

\* WaitForMultipleObjects refuses more handles than this and does not wait.
MAXIMUM_WAIT_OBJECTS == 64

VARIABLES
  operation,          \* operation[o]: how far the operation has come
  port,               \* the completions the port has for the threads
  exits,              \* the exit statuses Shutdown has posted
  worker,             \* worker[h]: what a service thread does, and for which operation
  count,              \* count[o]: *usecount_ of the invokers of o
  completion_status_, \* the copies in the vector
  completion,         \* those the main thread has swapped out
  mutex,              \* who has status_mutex_
  loop,               \* where the main thread is
  invoked             \* invoked[o]: how often the handler of o was called

completionVars == <<operation, port, exits, worker, count, completion_status_,
                    completion, mutex, loop, invoked>>

At(pc) == [pc |-> pc, op |-> NoOne]

CompletionsInit ==
  /\ operation = [o \in Operations |-> "none"]
  /\ port = {} /\ exits = 0
  /\ worker = [h \in Threads |-> At("get")]
  /\ count = [o \in Operations |-> 0]
  /\ completion_status_ = <<>> /\ completion = <<>>
  /\ mutex = NoOne /\ loop = At("run")
  /\ invoked = [o \in Operations |-> 0]

\* AsyncAccept, AsyncConnect, AsyncReceive and AsyncSend, called between two passes
\* and by handlers: one that is refused deletes its Overlapped and throws.
AsyncOperation(o) ==
  /\ loop.pc \in {"run", "invoke"} /\ operation[o] = "none"
  /\ \E outcome \in {"pending", "deleted"} : operation' = [operation EXCEPT ![o] = outcome]
  /\ UNCHANGED <<port, exits, worker, count, completion_status_, completion, mutex, loop, invoked>>

\* The kernel: in any order.
OperationCompletes(o) ==
  /\ operation[o] = "pending"
  /\ operation' = [operation EXCEPT ![o] = "completed"] /\ port' = port \cup {o}
  /\ UNCHANGED <<exits, worker, count, completion_status_, completion, mutex, loop, invoked>>

-----------------------------------------------------------------------------
(* Service threads: GetQueuedCompletionStatus, then AddNewCompletionStatus. *)

Goes(h, pc, o) == worker' = [worker EXCEPT ![h] = [pc |-> pc, op |-> o]]

GetQueuedCompletionStatus(h) ==
  /\ worker[h].pc = "get"
  /\ \/ \E o \in port : port' = port \ {o} /\ Goes(h, "lock", o) /\ UNCHANGED exits
     \/ exits > 0 /\ exits' = exits - 1 /\ Goes(h, "exited", NoOne) /\ UNCHANGED port
  /\ UNCHANGED <<operation, count, completion_status_, completion, mutex, loop, invoked>>

UnlockEarly(h) ==
  /\ worker[h].pc = "lock" /\ mutex = NoOne
  /\ LET o == worker[h].op
     IN  /\ completion_status_' = Append(completion_status_, o)
         /\ count' = [count EXCEPT ![o] = 2]
         /\ Goes(h, "local", o)
  /\ UNCHANGED <<operation, port, exits, completion, mutex, loop, invoked>>

\* The locker, the local invoker, and its copy in the vector.  A vector that grows
\* copies its other invokers and destroys the old ones, which leaves their counts as they
\* were: the mutex is held, and what the main thread handles is in this vector no more.
AddNewCompletionStatus(h) ==
  /\ worker[h].pc = "lock" /\ mutex = NoOne
  /\ LET o == worker[h].op
     IN  /\ completion_status_' = Append(completion_status_, o)
         /\ count' = [count EXCEPT ![o] = 2]
         /\ Goes(h, "local", o)
  /\ mutex' = h
  /\ UNCHANGED <<operation, port, exits, completion, loop, invoked>>

\* ~OverlappedInvoker of the local: Only, then the count.
LocalIsOnly(h) ==
  /\ worker[h].pc = "local"
  /\ operation' = IF count[worker[h].op] = 1
                    THEN [operation EXCEPT ![worker[h].op] = "deleted"] ELSE operation
  /\ Goes(h, "release", worker[h].op)
  /\ UNCHANGED <<port, exits, count, completion_status_, completion, mutex, loop, invoked>>
ReleaseLocal(h) ==
  /\ worker[h].pc = "release"
  /\ count' = [count EXCEPT ![worker[h].op] = @ - 1]
  /\ Goes(h, "unlock", worker[h].op)
  /\ UNCHANGED <<operation, port, exits, completion_status_, completion, mutex, loop, invoked>>

\* The locker goes out of scope after the invoker, which was declared after it.
Unlock(h) ==
  /\ worker[h].pc = "unlock"
  /\ mutex' = IF mutex = h THEN NoOne ELSE mutex
  /\ Goes(h, "get", NoOne)
  /\ UNCHANGED <<operation, port, exits, count, completion_status_, completion, loop, invoked>>

-----------------------------------------------------------------------------
(* The main thread: ProcessCompletionStatus, and Shutdown.                 *)

SwapCompletions ==
  /\ loop.pc = "run" /\ mutex = NoOne /\ completion_status_ # <<>>
  /\ completion' = completion_status_ /\ completion_status_' = <<>>
  /\ loop' = [pc |-> "invoke", op |-> 1]
  /\ UNCHANGED <<operation, port, exits, worker, count, mutex, invoked>>

Invoke ==
  /\ loop.pc = "invoke"
  /\ invoked' = [invoked EXCEPT ![completion[loop.op]] = @ + 1]
  /\ loop' = IF loop.op = Len(completion) THEN At("only") ELSE [loop EXCEPT !.op = @ + 1]
  /\ UNCHANGED <<operation, port, exits, worker, count, completion_status_, completion, mutex>>

\* ~vector destroys the invokers, each in two steps.
CopyIsOnly ==
  /\ loop.pc = "only"
  /\ IF completion = <<>> THEN loop' = At("run") /\ UNCHANGED operation
     ELSE /\ operation' = IF count[Head(completion)] = 1
                            THEN [operation EXCEPT ![Head(completion)] = "deleted"] ELSE operation
          /\ loop' = At("release")
  /\ UNCHANGED <<port, exits, worker, count, completion_status_, completion, mutex, invoked>>
ReleaseCopy ==
  /\ loop.pc = "release"
  /\ count' = [count EXCEPT ![Head(completion)] = @ - 1]
  /\ completion' = Tail(completion) /\ loop' = At("only")
  /\ UNCHANGED <<operation, port, exits, worker, completion_status_, mutex, invoked>>

\* Shutdown posts an exit for every thread and waits for all of them; then the
\* members go, with the completions nobody has processed.
Shutdown ==
  /\ loop.pc = "run"
  /\ exits' = Cardinality(Threads) /\ loop' = At("wait")
  /\ UNCHANGED <<operation, port, worker, count, completion_status_, completion, mutex, invoked>>
Destroy ==
  /\ loop.pc = "wait"
  /\ \/ Cardinality(Threads) > MAXIMUM_WAIT_OBJECTS
     \/ \A h \in Threads : worker[h].pc = "exited"
  /\ operation' = [o \in Operations |-> IF o \in ToSet(completion_status_) THEN "deleted" ELSE operation[o]]
  /\ count' = [o \in Operations |-> 0] /\ completion_status_' = <<>>
  /\ loop' = At("gone")
  /\ UNCHANGED <<port, exits, worker, completion, mutex, invoked>>

CompletionsNext ==
  \/ \E o \in Operations : AsyncOperation(o) \/ OperationCompletes(o)
  \/ \E h \in Threads :
       \/ GetQueuedCompletionStatus(h) \/ AddNewCompletionStatus(h) \/ LocalIsOnly(h)
       \/ ReleaseLocal(h) \/ Unlock(h)
  \/ SwapCompletions \/ Invoke \/ CopyIsOnly \/ ReleaseCopy \/ Shutdown \/ Destroy

CompletionsSpec == CompletionsInit /\ [][CompletionsNext]_completionVars

-----------------------------------------------------------------------------
(* Properties.                                                             *)

\* The invokers of o that exist: the local of a worker, the copy in the vector
\* of the service, the copy in the vector of the main thread.
Holders(o) ==
  Cardinality({h \in Threads : worker[h].op = o /\ worker[h].pc \in {"local", "release"}})
    + (IF o \in ToSet(completion_status_) THEN 1 ELSE 0)
    + (IF o \in ToSet(completion) THEN 1 ELSE 0)

\* The count is the number of invokers, though nothing but the order in which two
\* locals of AddNewCompletionStatus are declared protects it.  So the handler of
\* an operation is called once, never for one deleted, and the Overlapped is
\* deleted after it, exactly by the last invoker: none is used after that and
\* none is left behind, whatever the threads do, until the service goes.
CompletionsOnce ==
  \A o \in Operations :
    /\ count[o] = Holders(o)
    /\ invoked[o] <= 1
    /\ invoked[o] = 1 => operation[o] \in {"completed", "deleted"}
    /\ operation[o] = "deleted" /\ count[o] > 0 =>
         count[o] = 1 /\ (loop.pc = "release" /\ Head(completion) = o)
    /\ operation[o] = "completed" /\ invoked[o] = 1 => count[o] > 0
=============================================================================
