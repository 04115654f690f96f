------------------------------ MODULE TaskPool -------------------------------
(***************************************************************************)
(* The thread pool of basic/thread/task-pool: TaskPool.h, TaskPool.cpp and *)
(* the way main.cpp drives it.  Worker threads run threadFunc; callers run *)
(* addTask and removeAllTasks; one of them, Owner, also runs init, stop    *)
(* and the destructor, as main() does.                                     *)
(*                                                                         *)
(* A step is what runs between two points at which another thread can      *)
(* observe or disturb the outcome: the acquisition of m_mutexList, each    *)
(* read and write of m_bRunning (which no lock protects), the atomic       *)
(* unlock-and-sleep of m_cv.wait, the two notifications and doIt().        *)
(***************************************************************************)
EXTENDS Naturals, Sequences, FiniteSets

CONSTANTS Threads,         \* the identities of the worker threads
          Callers,         \* the threads that use the pool
          Owner,           \* the caller that owns it
          Tasks,           \* the Task objects
          NULL,            \* the null Task*
          Nobody,          \* the mutex is free
          DefaultThreads,  \* init's default thread number (5 in the code)
          MaxEntries       \* bound on the length of m_taskList

ASSUME TaskPoolAssumption ==
    /\ Owner \in Callers
    /\ NULL \notin Tasks
    /\ Nobody \notin Threads
    /\ DefaultThreads \in Nat \ {0}
    /\ MaxEntries \in Nat

VARIABLES m_taskList,  \* the queue of (shared pointers to) tasks
          m_mutexList, \* its mutex: the worker that holds it, or Nobody
          m_bRunning,  \* the flag, as the owner has last written it
          bVisible,    \* the flag, as the other threads read it
          m_threads,   \* the thread objects, in creation order
          toSpawn,     \* threads init() has still to create
          joinNext,    \* index in m_threads of the thread stop() joins next
          wpc,         \* where each worker stands in threadFunc
          spTask,      \* the worker's local spTask
          cpc,         \* where each caller stands
          done,        \* history: the tasks whose doIt() has returned
          dropped      \* history: the tasks destroyed without having run

poolVars  == <<m_taskList, m_mutexList>>
flagVars  == <<m_bRunning, bVisible>>
ownerVars == <<m_threads, toSpawn, joinNext>>
histVars  == <<done, dropped>>
vars == <<m_taskList, m_mutexList, m_bRunning, bVisible, m_threads, toSpawn,
          joinNext, wpc, spTask, cpc, done, dropped>>

-----------------------------------------------------------------------------
Elements(s) == {s[i] : i \in 1..Len(s)}

\* The threads asleep in m_cv.wait, and those inside the critical section.
Blocked == {t \in Threads : wpc[t] = "blocked"}
Critical == {"empty?", "running?", "wait", "stop?", "take", "doIt"}

\* The tasks whose doIt() is running.
Active == {spTask[t] : t \in {u \in Threads : wpc[u] = "doIt"}}

\* A Task* that has not been given to the pool: addTask takes ownership.
Fresh(x) == x \notin Elements(m_taskList) \cup Active \cup done \cup dropped

Init ==
    /\ m_taskList = <<>>
    /\ m_mutexList = Nobody
    /\ m_bRunning = FALSE
    /\ bVisible = FALSE
    /\ m_threads = <<>>
    /\ toSpawn = 0
    /\ joinNext = 1
    /\ wpc = [t \in Threads |-> "none"]
    /\ spTask = [t \in Threads |-> NULL]
    /\ cpc = [c \in Callers |-> "idle"]
    /\ done = {}
    /\ dropped = {}

-----------------------------------------------------------------------------
(* The worker thread: threadFunc.                                          *)

\* Line 41: the guard locks m_mutexList at the top of the loop.
Lock(t) ==
    /\ wpc[t] = "loop"
    /\ m_mutexList = Nobody
    /\ m_mutexList' = t
    /\ wpc' = [wpc EXCEPT ![t] = "empty?"]
    /\ UNCHANGED <<m_taskList, flagVars, ownerVars, spTask, cpc, histVars>>

\* Line 42: the condition of the inner loop.
TestEmpty(t) ==
    /\ wpc[t] = "empty?"
    /\ wpc' = [wpc EXCEPT ![t] = IF m_taskList = <<>> THEN "running?" ELSE "stop?"]
    /\ UNCHANGED <<poolVars, flagVars, ownerVars, spTask, cpc, histVars>>

\* Line 44: leave the inner loop when the pool has been stopped.
TestRunning(t) ==
    /\ wpc[t] = "running?"
    /\ wpc' = [wpc EXCEPT ![t] = IF bVisible THEN "wait" ELSE "stop?"]
    /\ UNCHANGED <<poolVars, flagVars, ownerVars, spTask, cpc, histVars>>

\* Line 50: m_cv.wait releases the mutex and sleeps, in one step.
Wait(t) ==
    /\ wpc[t] = "wait"
    /\ wpc' = [wpc EXCEPT ![t] = "blocked"]
    /\ m_mutexList' = Nobody
    /\ UNCHANGED <<m_taskList, flagVars, ownerVars, spTask, cpc, histVars>>

\* Line 50: a condition variable may wake a thread that nobody notified.
SpuriousWakeup(t) ==
    /\ wpc[t] = "blocked"
    /\ wpc' = [wpc EXCEPT ![t] = "woken"]
    /\ UNCHANGED <<poolVars, flagVars, ownerVars, spTask, cpc, histVars>>

\* Line 50: m_cv.wait returns with the mutex held again.
Relock(t) ==
    /\ wpc[t] = "woken"
    /\ m_mutexList = Nobody
    /\ m_mutexList' = t
    /\ wpc' = [wpc EXCEPT ![t] = "empty?"]
    /\ UNCHANGED <<m_taskList, flagVars, ownerVars, spTask, cpc, histVars>>

\* Mutant: the second test of m_bRunning is forgotten.
TestStopForgotten(t) ==
    /\ wpc[t] = "stop?"
    /\ wpc' = [wpc EXCEPT ![t] = "take"]
    /\ UNCHANGED <<poolVars, flagVars, ownerVars, spTask, cpc, histVars>>

\* Line 53: the second test of m_bRunning; breaking out ends the thread and
\* the guard's destructor unlocks.
TestStop(t) ==
    /\ wpc[t] = "stop?"
    /\ IF bVisible
       THEN /\ wpc' = [wpc EXCEPT ![t] = "take"]
            /\ UNCHANGED m_mutexList
       ELSE /\ wpc' = [wpc EXCEPT ![t] = "exited"]
            /\ m_mutexList' = Nobody
    /\ UNCHANGED <<m_taskList, flagVars, ownerVars, spTask, cpc, histVars>>

\* Lines 56-60: front(), pop_front(); a null pointer goes back to the top of
\* the loop, releasing the guard, otherwise doIt() starts with the lock held.
TakeTask(t) ==
    /\ wpc[t] = "take"
    /\ m_taskList # <<>>
    /\ m_taskList' = Tail(m_taskList)
    /\ spTask' = [spTask EXCEPT ![t] = Head(m_taskList)]
    /\ IF Head(m_taskList) = NULL
       THEN /\ wpc' = [wpc EXCEPT ![t] = "loop"]
            /\ m_mutexList' = Nobody
       ELSE /\ wpc' = [wpc EXCEPT ![t] = "doIt"]
            /\ UNCHANGED m_mutexList
    /\ UNCHANGED <<flagVars, ownerVars, cpc, histVars>>

\* Lines 62-64: doIt() returns, spTask.reset() destroys the task, and the
\* guard's destructor unlocks at the end of the iteration.
FinishTask(t) ==
    /\ wpc[t] = "doIt"
    /\ done' = done \cup {spTask[t]}
    /\ spTask' = [spTask EXCEPT ![t] = NULL]
    /\ wpc' = [wpc EXCEPT ![t] = "loop"]
    /\ m_mutexList' = Nobody
    /\ UNCHANGED <<m_taskList, flagVars, ownerVars, cpc, dropped>>

-----------------------------------------------------------------------------
(* The callers: addTask and removeAllTasks.                                *)

\* Mutant: push_front instead of push_back.
AddTaskInFront(c, x) ==
    /\ cpc[c] = "idle"
    /\ x = NULL \/ Fresh(x)
    /\ Len(m_taskList) < MaxEntries
    /\ m_mutexList = Nobody
    /\ m_taskList' = <<x>> \o m_taskList
    /\ cpc' = [cpc EXCEPT ![c] = "notify"]
    /\ UNCHANGED <<m_mutexList, flagVars, ownerVars, wpc, spTask, histVars>>

\* Lines 84-91: the task is appended inside one critical section.
AddTask(c, x) ==
    /\ cpc[c] = "idle"
    /\ x = NULL \/ Fresh(x)
    /\ Len(m_taskList) < MaxEntries
    /\ m_mutexList = Nobody
    /\ m_taskList' = Append(m_taskList, x)
    /\ cpc' = [cpc EXCEPT ![c] = "notify"]
    /\ UNCHANGED <<m_mutexList, flagVars, ownerVars, wpc, spTask, histVars>>

\* Wake one sleeping thread, if there is one.
NotifyOne ==
    \/ /\ Blocked = {}
       /\ UNCHANGED wpc
    \/ \E t \in Blocked : wpc' = [wpc EXCEPT ![t] = "woken"]

\* Wake all of them.
NotifyAll ==
    wpc' = [t \in Threads |-> IF t \in Blocked THEN "woken" ELSE wpc[t]]

\* Mutant: addTask does not notify.
AddWithoutNotify(c) ==
    /\ cpc[c] = "notify"
    /\ cpc' = [cpc EXCEPT ![c] = "idle"]
    /\ UNCHANGED <<poolVars, flagVars, ownerVars, wpc, spTask, histVars>>

\* Line 93: the notification, after the lock has been released.
AddNotify(c) ==
    /\ cpc[c] = "notify"
    /\ NotifyOne
    /\ cpc' = [cpc EXCEPT ![c] = "idle"]
    /\ UNCHANGED <<poolVars, flagVars, ownerVars, spTask, histVars>>

\* Lines 96-106: every task still queued is destroyed.
RemoveAllTasks(c) ==
    /\ cpc[c] = "idle"
    /\ m_mutexList = Nobody
    /\ dropped' = dropped \cup (Elements(m_taskList) \ {NULL})
    /\ m_taskList' = <<>>
    /\ UNCHANGED <<m_mutexList, flagVars, ownerVars, wpc, spTask, cpc, done>>

-----------------------------------------------------------------------------
(* The owner: init, stop and the destructor.                               *)

Unused == {t \in Threads : wpc[t] = "none"}

\* Lines 23-26: a thread number that is not positive stands for the default.
\* The guard bounds the threads an instance can create.
InitPool(threadNum) ==
    LET n == IF threadNum = 0 THEN DefaultThreads ELSE threadNum
    IN  /\ cpc[Owner] = "idle"
        /\ n <= Cardinality(Unused)
        /\ m_bRunning' = TRUE
        /\ toSpawn' = n
        /\ cpc' = [cpc EXCEPT ![Owner] = "spawn"]
        /\ UNCHANGED <<poolVars, bVisible, m_threads, joinNext, wpc, spTask, histVars>>

\* Lines 28-33: one iteration creates a thread that runs at once and sees all
\* its creator wrote before.
Spawn(t) ==
    /\ cpc[Owner] = "spawn"
    /\ toSpawn > 0
    /\ bVisible = m_bRunning
    /\ wpc[t] = "none"
    /\ wpc' = [wpc EXCEPT ![t] = "loop"]
    /\ m_threads' = Append(m_threads, t)
    /\ toSpawn' = toSpawn - 1
    /\ UNCHANGED <<poolVars, flagVars, joinNext, spTask, cpc, histVars>>

InitReturns ==
    /\ cpc[Owner] = "spawn"
    /\ toSpawn = 0
    /\ cpc' = [cpc EXCEPT ![Owner] = "idle"]
    /\ UNCHANGED <<poolVars, flagVars, ownerVars, wpc, spTask, histVars>>

\* Line 71: the flag is written without the mutex.
StopFlag ==
    /\ cpc[Owner] = "idle"
    /\ m_bRunning' = FALSE
    /\ cpc' = [cpc EXCEPT ![Owner] = "stopNotify"]
    /\ UNCHANGED <<poolVars, bVisible, ownerVars, wpc, spTask, histVars>>

\* m_bRunning is a plain bool that threads read without synchronisation: the
\* write reaches them at some later moment.
FlagVisible ==
    /\ bVisible # m_bRunning
    /\ bVisible' = m_bRunning
    /\ UNCHANGED <<poolVars, m_bRunning, ownerVars, wpc, spTask, cpc, histVars>>

\* Mutant: notify_one instead of notify_all.
StopNotifyOne ==
    /\ cpc[Owner] = "stopNotify"
    /\ NotifyOne
    /\ joinNext' = 1
    /\ cpc' = [cpc EXCEPT ![Owner] = "join"]
    /\ UNCHANGED <<poolVars, flagVars, m_threads, toSpawn, spTask, histVars>>

\* Mutant: the join loop starts at the second thread.
StopNotifyOffByOne ==
    /\ cpc[Owner] = "stopNotify"
    /\ NotifyAll
    /\ joinNext' = 2
    /\ cpc' = [cpc EXCEPT ![Owner] = "join"]
    /\ UNCHANGED <<poolVars, flagVars, m_threads, toSpawn, spTask, histVars>>

\* Line 72.
StopNotify ==
    /\ cpc[Owner] = "stopNotify"
    /\ NotifyAll
    /\ joinNext' = 1
    /\ cpc' = [cpc EXCEPT ![Owner] = "join"]
    /\ UNCHANGED <<poolVars, flagVars, m_threads, toSpawn, spTask, histVars>>

\* Lines 75-79: join the next thread.  One that an earlier stop() joined is
\* not joinable and is skipped; it has exited, so the guard is the same.
StopJoin ==
    /\ cpc[Owner] = "join"
    /\ joinNext <= Len(m_threads)
    /\ wpc[m_threads[joinNext]] = "exited"
    /\ joinNext' = joinNext + 1
    /\ UNCHANGED <<poolVars, flagVars, m_threads, toSpawn, wpc, spTask, cpc, histVars>>

StopReturns ==
    /\ cpc[Owner] = "join"
    /\ joinNext > Len(m_threads)
    /\ cpc' = [cpc EXCEPT ![Owner] = "idle"]
    /\ UNCHANGED <<poolVars, flagVars, ownerVars, wpc, spTask, histVars>>

\* Lines 16-19: the destructor empties the queue; the members go after it.
\* As in main(), the owner has called stop() and nobody is using the pool.
Destroy ==
    /\ \A c \in Callers : cpc[c] = "idle"
    /\ \A i \in 1..Len(m_threads) : wpc[m_threads[i]] = "exited"
    /\ dropped' = dropped \cup (Elements(m_taskList) \ {NULL})
    /\ m_taskList' = <<>>
    /\ cpc' = [c \in Callers |-> "gone"]
    /\ UNCHANGED <<m_mutexList, flagVars, ownerVars, wpc, spTask, done>>

\* The program has ended.
Finished ==
    /\ \A c \in Callers : cpc[c] = "gone"
    /\ UNCHANGED vars

-----------------------------------------------------------------------------
ThreadFunc(t) ==
    \/ Lock(t) \/ TestEmpty(t) \/ TestRunning(t) \/ Wait(t) \/ Relock(t)
    \/ TestStop(t) \/ TakeTask(t) \/ FinishTask(t)

OwnerStep ==
    \/ \E t \in Threads : Spawn(t)
    \/ InitReturns \/ StopNotify \/ StopJoin \/ StopReturns

Next ==
    \/ \E t \in Threads : ThreadFunc(t) \/ SpuriousWakeup(t)
    \/ \E c \in Callers, x \in Tasks \cup {NULL} : AddTask(c, x)
    \/ \E c \in Callers : AddNotify(c) \/ RemoveAllTasks(c)
    \/ \E n \in 0..Cardinality(Threads) : InitPool(n)
    \/ OwnerStep
    \/ StopFlag
    \/ FlagVisible
    \/ Destroy
    \/ Finished

Spec == Init /\ [][Next]_vars

\* Threads keep running once created, a call that has begun goes on, and a
\* write reaches the other threads.  Nothing makes the callers call.
Fairness ==
    /\ \A t \in Threads : WF_vars(ThreadFunc(t))
    /\ \A c \in Callers : WF_vars(AddNotify(c))
    /\ WF_vars(OwnerStep)
    /\ WF_vars(FlagVisible)

FairSpec == Spec /\ Fairness

-----------------------------------------------------------------------------
(* The properties.                                                         *)

WorkerPoints == {"none", "loop", "blocked", "woken", "exited"} \cup Critical
CallerPoints == {"idle", "notify", "gone"}
OwnerPoints  == {"spawn", "stopNotify", "join"}

\* Every variable holds a value of its type; only the owner is inside init or
\* stop, and doIt() is never called through a null pointer.
TypeOK ==
    /\ m_taskList \in Seq(Tasks \cup {NULL})
    /\ m_mutexList \in Threads \cup {Nobody}
    /\ m_bRunning \in BOOLEAN
    /\ bVisible \in BOOLEAN
    /\ m_threads \in Seq(Threads)
    /\ toSpawn \in Nat
    /\ joinNext \in Nat \ {0}
    /\ wpc \in [Threads -> WorkerPoints]
    /\ spTask \in [Threads -> Tasks \cup {NULL}]
    /\ cpc \in [Callers -> CallerPoints \cup OwnerPoints]
    /\ \A c \in Callers : cpc[c] \in OwnerPoints => c = Owner
    /\ \A t \in Threads : wpc[t] = "doIt" => spTask[t] # NULL
    /\ done \in SUBSET Tasks
    /\ dropped \in SUBSET Tasks

\* The pool runs at most one doIt() at a time, whatever its number of threads,
\* and nobody else touches the list meanwhile: threadFunc calls doIt() before
\* the guard is destroyed, and every way out of the loop body unlocks.
MutexHeldInside ==
    \A t \in Threads : wpc[t] \in Critical <=> m_mutexList = t

\* front() is never called on an empty list.  The inner loop can also be left
\* with the list empty, because the pool was stopped; only the second read of
\* m_bRunning, made without protection of the flag, keeps that thread away.
NeverPopEmpty ==
    \A t \in Threads : wpc[t] = "take" => m_taskList # <<>>

\* A task is in one place only: waiting once, running on one thread, finished
\* or dropped.  Two threads never share one and none runs twice.
EachTaskOnce ==
    /\ \A i, j \in 1..Len(m_taskList) :
          m_taskList[i] = m_taskList[j] /\ i # j => m_taskList[i] = NULL
    /\ \A x \in Elements(m_taskList) : x \notin Active \cup done \cup dropped
    /\ Active \cap (done \cup dropped) = {}
    /\ done \cap dropped = {}

\* addTask notifies after it has unlocked, yet no wakeup is lost: if a task
\* waits while a thread sleeps, then another thread is awake and will look at
\* the list, or a notification is on its way, or the pool is being stopped.
NoSleepOnWork ==
    m_taskList # <<>> /\ Blocked # {} =>
        \/ \E t \in Threads : wpc[t] \notin {"none", "blocked", "exited"}
        \/ \E c \in Callers : cpc[c] = "notify"
        \/ ~m_bRunning

\* Once stop() has returned, and until init() is called again, no thread of
\* the pool is alive: nothing can touch the members the destructor destroys.
StoppedIsQuiet ==
    cpc[Owner] \in CallerPoints /\ ~m_bRunning =>
        \A t \in Threads : wpc[t] \in {"none", "exited"}

\* The pool is a work queue that handles one item at a time.
WQ == INSTANCE WorkQueue WITH
        Items <- Tasks, Blank <- NULL, Width <- 1,
        queue <- m_taskList, active <- Active

\* Tasks start in the order in which addTask appended them, one at a time,
\* each once, and leave the list unrun only when all of it is dropped.
ImplementsWorkQueue == WQ!Spec

\* A queued task is eventually run, unless it is dropped or the pool stopped.
QueuedTaskRuns ==
    \A x \in Tasks :
        x \in Elements(m_taskList) ~> x \in done \cup dropped \/ ~m_bRunning

\* stop() returns provided that, when the flag is visible and the notification
\* about to be sent, no thread stands between its test of m_bRunning and its
\* sleep in m_cv.wait.
StopReturnsUnlessRaced ==
    /\ cpc[Owner] = "stopNotify"
    /\ ~bVisible
    /\ \A t \in Threads : wpc[t] # "wait"
    ~> cpc[Owner] = "idle"

\* What the comment of line 74 says: stop() waits for all threads to exit, so
\* they all do and it returns.
StopReturnsAlways == cpc[Owner] = "join" ~> cpc[Owner] = "idle"
==============================================================================
