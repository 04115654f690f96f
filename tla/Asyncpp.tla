------------------------------- MODULE Asyncpp --------------------------------
(***************************************************************************)
(* cpp20/Coroutines/Asyncpp: coroutines on a main thread and one I/O       *)
(* thread.                                                                 *)
(*                                                                         *)
(* A co_await leaves a token in a queue and gives the main thread back.    *)
(* A token of the I/O queue is executed by the I/O thread, which then      *)
(* hands the right to resume to the main thread's queue; a token of the    *)
(* main thread's queue is executed, where it has a task, and resumed by    *)
(* the loop of the main thread.  Both queues are behind mutexes, so an     *)
(* enqueue or a dequeue is one step.  The polling sleeps of the two loops  *)
(* are stutters.                                                           *)
(*                                                                         *)
(* io/AsyncIoTask.cpp, which should hold the I/O queue, is a copy of       *)
(* AsyncTaskLoop.cpp; the queue is modelled from its uses, and its order,  *)
(* which nothing in the source settles, is left open: a set.               *)
(***************************************************************************)
EXTENDS FileSystem, Naturals, Sequences, FiniteSets

CONSTANTS Coroutines,
          Script,      \* the operations each coroutine awaits, in order
          Order,       \* the coroutines in the order main calls them
          Throwing,    \* operations that may throw
          None,        \* no coroutine, no token
          Nothing      \* an indeterminate value

ASSUME AsyncppAssumption ==
    /\ Script \in [Coroutines -> Seq(Ops)]
    /\ Order \in Seq(Coroutines)
    /\ \A i, j \in 1..Len(Order) : Order[i] = Order[j] => i = j
    /\ Throwing \subseteq Ops
    /\ None \notin Coroutines
    /\ Nothing \notin Values

Tokens == [co : Coroutines, at : Nat \ {0}, do : {"task", "resume"}]

ASSUME NoneAssumption == None \notin Tokens

VARIABLES
    cpc,          \* each coroutine: unborn, running, suspended or done
    awaits,       \* how many co_awaits it has reached
    result,       \* _taskResult of the Awaitable in its frame
    got,          \* history: the values its co_awaits have evaluated to
    mpc,          \* main(): boot, calling or loop
    called,       \* how many of Order main has called
    current,      \* the coroutine on the main thread's stack, or None
    suspending,   \* whether await_suspend is on that stack too
    event,        \* asyncEvent, the token the main loop handles, or None
    taskQueue,    \* _queue of AsyncTaskQueue
    ioTaskQueue,  \* the queue of I/O tasks
    opItem,       \* the token the I/O thread handles, or None
    directory,    \* the state of the disk
    terminated    \* an exception has ended the process

vars == <<cpc, awaits, result, got, mpc, called, current, suspending, event,
          taskQueue, ioTaskQueue, opItem, directory, terminated>>

frames == <<cpc, awaits, result, got>>
main == <<mpc, called, current, suspending, event>>
queues == <<taskQueue, ioTaskQueue>>

Init ==
    /\ cpc = [c \in Coroutines |-> "unborn"]
    /\ awaits = [c \in Coroutines |-> 0]
    /\ result = [c \in Coroutines |-> Nothing]
    /\ got = [c \in Coroutines |-> <<>>]
    /\ mpc = "boot"
    /\ called = 0
    /\ current = None
    /\ suspending = FALSE
    /\ event = None
    /\ taskQueue = <<>>
    /\ ioTaskQueue = {}
    /\ opItem = None
    /\ directory \in BOOLEAN
    /\ terminated = FALSE

\* The operation that token x awaits is executed by the thread that holds x.
Perform(x) ==
    LET op == Script[x.co][x.at]
    IN  /\ result' = [result EXCEPT ![x.co] = Value(op, directory)]
        /\ directory' = Effect(op, directory)

Performed(x) == [x EXCEPT !.do = "resume"]

-----------------------------------------------------------------------------
\* main.cpp:71: the I/O thread starts; until a coroutine runs it finds nothing.
StartIo ==
    /\ mpc = "boot"
    /\ mpc' = "calling"
    /\ UNCHANGED <<frames, called, current, suspending, event, queues, opItem, directory, terminated>>

\* main.cpp:74-75: a call runs the body up to its first co_await.
Call ==
    /\ mpc = "calling"
    /\ current = None
    /\ called < Len(Order)
    /\ LET c == Order[called + 1]
       IN  /\ current' = c
           /\ cpc' = [cpc EXCEPT ![c] = "running"]
    /\ called' = called + 1
    /\ UNCHANGED <<awaits, result, got, mpc, suspending, event, queues, opItem, directory, terminated>>

\* co_await: await_ready is false, the coroutine is suspended, and the
\* suspender enqueues its token: I/O operations in the one queue, functions
\* made asynchronous by asyncify alone in the other.
Await(c) ==
    /\ current = c /\ ~suspending
    /\ cpc[c] = "running"
    /\ awaits[c] < Len(Script[c])
    /\ awaits' = [awaits EXCEPT ![c] = @ + 1]
    /\ cpc' = [cpc EXCEPT ![c] = "suspended"]
    /\ suspending' = TRUE
    /\ LET x == [co |-> c, at |-> awaits[c] + 1, do |-> "task"]
       IN  IF Script[c][x.at] \in IoOps
           THEN ioTaskQueue' = ioTaskQueue \cup {x} /\ UNCHANGED taskQueue
           ELSE taskQueue' = Append(taskQueue, x) /\ UNCHANGED ioTaskQueue
    /\ UNCHANGED <<result, got, mpc, called, current, event, opItem, directory, terminated>>

\* await_suspend returns: control goes back to main() or to its loop.
Suspended ==
    /\ suspending
    /\ suspending' = FALSE
    /\ current' = None
    /\ UNCHANGED <<frames, mpc, called, event, queues, opItem, directory, terminated>>

\* The body ends; nothing suspends it any more and the frame is destroyed.
Return(c) ==
    /\ current = c /\ ~suspending
    /\ cpc[c] = "running"
    /\ awaits[c] = Len(Script[c])
    /\ cpc' = [cpc EXCEPT ![c] = "done"]
    /\ current' = None
    /\ UNCHANGED <<awaits, result, got, mpc, called, suspending, event, queues, opItem, directory, terminated>>

\* main.cpp:78.
EnterLoop ==
    /\ mpc = "calling"
    /\ current = None
    /\ called = Len(Order)
    /\ mpc' = "loop"
    /\ UNCHANGED <<frames, called, current, suspending, event, queues, opItem, directory, terminated>>

\* Mutant: the token stays in the queue.
DequeueKept ==
    /\ mpc = "loop" /\ current = None /\ event = None
    /\ taskQueue # <<>>
    /\ event' = taskQueue[Len(taskQueue)]
    /\ UNCHANGED <<frames, mpc, called, current, suspending, queues, opItem, directory, terminated>>

\* AsyncTaskQueue::dequeue: the task enqueued last, if any.
Dequeue ==
    /\ mpc = "loop" /\ current = None /\ event = None
    /\ taskQueue # <<>>
    /\ event' = taskQueue[Len(taskQueue)]
    /\ taskQueue' = SubSeq(taskQueue, 1, Len(taskQueue) - 1)
    /\ UNCHANGED <<frames, mpc, called, current, suspending, ioTaskQueue, opItem, directory, terminated>>

\* Asyncify.cpp:25,79: a handler with a task executes it first.
RunTask ==
    /\ event # None
    /\ event.do = "task"
    /\ Perform(event)
    /\ event' = Performed(event)
    /\ UNCHANGED <<cpc, awaits, got, mpc, called, current, suspending, queues, opItem, terminated>>

\* h.resume(): the body goes on with await_resume's value, on the main thread.
Resume ==
    /\ event # None
    /\ event.do = "resume"
    /\ cpc' = [cpc EXCEPT ![event.co] = "running"]
    /\ got' = [got EXCEPT ![event.co] = Append(@, result[event.co])]
    /\ current' = event.co
    /\ event' = None
    /\ UNCHANGED <<awaits, result, mpc, called, suspending, queues, opItem, directory, terminated>>

\* The task of the handler throws: nothing catches it below main.
TaskThrows ==
    /\ event # None
    /\ event.do = "task"
    /\ Script[event.co][event.at] \in Throwing
    /\ terminated' = TRUE
    /\ UNCHANGED <<frames, main, queues, opItem, directory>>

-----------------------------------------------------------------------------
\* AsyncIoLoop.cpp:32-35.
IoDequeue ==
    /\ opItem = None
    /\ \E x \in ioTaskQueue :
          /\ opItem' = x
          /\ ioTaskQueue' = ioTaskQueue \ {x}
    /\ UNCHANGED <<frames, main, taskQueue, directory, terminated>>

\* Mutant: the value is not stored in the Awaitable.
IoTaskUnstored ==
    /\ opItem # None
    /\ opItem.do = "task"
    /\ directory' = Effect(Script[opItem.co][opItem.at], directory)
    /\ opItem' = Performed(opItem)
    /\ UNCHANGED <<frames, main, queues, terminated>>

\* AsyncIoLoop.cpp:37: taskHandler() stores its value through a pointer into
\* the frame of the suspended coroutine.
IoTask ==
    /\ opItem # None
    /\ opItem.do = "task"
    /\ Perform(opItem)
    /\ opItem' = Performed(opItem)
    /\ UNCHANGED <<cpc, awaits, got, main, queues, terminated>>

\* Mutant: the I/O thread resumes the coroutine itself.
IoResume ==
    /\ opItem # None
    /\ opItem.do = "resume"
    /\ cpc' = [cpc EXCEPT ![opItem.co] = "running"]
    /\ got' = [got EXCEPT ![opItem.co] = Append(@, result[opItem.co])]
    /\ opItem' = None
    /\ UNCHANGED <<awaits, result, main, queues, directory, terminated>>

\* Mutant: the right to resume is dropped.
IoForget ==
    /\ opItem # None
    /\ opItem.do = "resume"
    /\ opItem' = None
    /\ UNCHANGED <<frames, main, queues, directory, terminated>>

\* AsyncIoLoop.cpp:39-42.
IoEnqueue ==
    /\ opItem # None
    /\ opItem.do = "resume"
    /\ taskQueue' = Append(taskQueue, opItem)
    /\ opItem' = None
    /\ UNCHANGED <<frames, main, ioTaskQueue, directory, terminated>>

\* taskHandler() throws: nothing catches it below the I/O thread's function.
IoTaskThrows ==
    /\ opItem # None
    /\ opItem.do = "task"
    /\ Script[opItem.co][opItem.at] \in Throwing
    /\ terminated' = TRUE
    /\ UNCHANGED <<frames, main, queues, opItem, directory>>

-----------------------------------------------------------------------------
MainThread ==
    /\ ~terminated
    /\ \/ StartIo \/ Call \/ Suspended \/ EnterLoop
       \/ \E c \in Coroutines : Await(c) \/ Return(c)
       \/ Dequeue \/ RunTask \/ Resume \/ TaskThrows

IoThread == ~terminated /\ (IoDequeue \/ IoTask \/ IoEnqueue \/ IoTaskThrows)

AllDone == \A i \in 1..Len(Order) : cpc[Order[i]] = "done"

\* The process has ended, or its loops poll empty queues for ever.
Idle == (terminated \/ (AllDone /\ mpc = "loop")) /\ UNCHANGED vars

Next == MainThread \/ IoThread \/ Idle

Spec == Init /\ [][Next]_vars

\* Both threads keep running.
FairSpec == Spec /\ WF_vars(MainThread) /\ WF_vars(IoThread)

-----------------------------------------------------------------------------
\* Every variable holds a value of its type; the main loop handles a token
\* only inside the loop, with no coroutine on its stack.
TypeOK ==
    /\ cpc \in [Coroutines -> {"unborn", "running", "suspended", "done"}]
    /\ awaits \in [Coroutines -> Nat]
    /\ result \in [Coroutines -> Values \cup {Nothing}]
    /\ got \in [Coroutines -> Seq(Values \cup {Nothing})]
    /\ mpc \in {"boot", "calling", "loop"}
    /\ called \in 0..Len(Order)
    /\ current \in Coroutines \cup {None}
    /\ suspending \in BOOLEAN
    /\ suspending => current # None
    /\ event \in Tokens \cup {None}
    /\ event # None => mpc = "loop" /\ current = None
    /\ taskQueue \in Seq(Tokens)
    /\ ioTaskQueue \subseteq {x \in Tokens : x.do = "task"}
    /\ opItem \in Tokens \cup {None}
    /\ directory \in BOOLEAN
    /\ terminated \in BOOLEAN

\* The tokens of c: in the queues and in the hands of the two threads.
Held == {event, opItem} \ {None}
Queued(c) == {i \in 1..Len(taskQueue) : taskQueue[i].co = c}
PlacesOf(c) ==
      Cardinality(Queued(c))
    + Cardinality({x \in ioTaskQueue : x.co = c})
    + (IF event # None /\ event.co = c THEN 1 ELSE 0)
    + (IF opItem # None /\ opItem.co = c THEN 1 ELSE 0)

\* A suspended coroutine is referred to by exactly one token, made by its last
\* co_await, and any other by none: no handle is resumed twice, none is lost,
\* and no thread stores a value into a frame that runs or has been destroyed.
OneToken ==
    /\ \A c \in Coroutines : PlacesOf(c) = IF cpc[c] = "suspended" THEN 1 ELSE 0
    /\ \A x \in Held \cup ioTaskQueue : x.at = awaits[x.co]
    /\ \A i \in 1..Len(taskQueue) : taskQueue[i].at = awaits[taskQueue[i].co]

\* Coroutine bodies run on the main thread only, one at a time, and none goes
\* on, nor is destroyed, while the await_suspend it called is still executing
\* inside its frame, although the I/O thread may have handled the token before.
MainThreadOnly ==
    /\ \A c \in Coroutines : cpc[c] = "running" => current = c /\ ~suspending
    /\ suspending => cpc[current] = "suspended"

\* Every coroutine comes to its end, unless an exception ends the process.
AllFinish == <>(AllDone \/ terminated)

Executed(c) == \E x \in Held \cup {taskQueue[i] : i \in 1..Len(taskQueue)} :
                  x.co = c /\ x.do = "resume"
Phase(c) ==
    CASE cpc[c] = "unborn" -> "idle"
      [] cpc[c] = "suspended" -> (IF Executed(c) THEN "executed" ELSE "awaiting")
      [] OTHER -> cpc[c]

AC == INSTANCE AwaitedCalls WITH phase <- [c \in Coroutines |-> Phase(c)]

\* The two threads and their queues keep the promise of co_await.
ImplementsAwaitedCalls == AC!Spec
==============================================================================
