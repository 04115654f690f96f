---------------------------- MODULE CondVarQueue -----------------------------
(***************************************************************************)
(* basic/thread/cond-var.cpp: one producer and several consumers share the *)
(* list tasks, the mutex mymutex and the condition variable mycv.          *)
(*                                                                         *)
(* Everything the threads share is read and written with mymutex held, so  *)
(* a critical section that does not sleep is one step.  The exception is   *)
(* doTask(), which a consumer runs with the lock held and which takes time.*)
(* A task is the number the producer gave it: taskID.                      *)
(***************************************************************************)
EXTENDS Naturals, Sequences, FiniteSets

CONSTANTS Consumers,  \* the consumer threads
          Nobody,     \* the mutex is free
          None,       \* pTask is NULL
          MaxTasks    \* bound on the tasks the producer's endless loop makes

ASSUME CondVarQueueAssumption ==
    /\ Nobody \notin Consumers
    /\ None \notin Nat
    /\ MaxTasks \in Nat

VARIABLES tasks,    \* the list
          mymutex,  \* the consumer that holds the lock across steps, or Nobody
          cpc,      \* where each consumer stands
          pTask,    \* the consumer's local pTask
          ppc,      \* where the producer stands
          taskID,   \* the number of the producer's next task
          done      \* history: the tasks handled and deleted

vars == <<tasks, mymutex, cpc, pTask, ppc, taskID, done>>

TaskIDs == 0..(MaxTasks - 1)
Blocked == {c \in Consumers : cpc[c] = "blocked"}
Active == {pTask[c] : c \in {d \in Consumers : cpc[d] = "doTask"}}

Init ==
    /\ tasks = <<>>
    /\ mymutex = Nobody
    /\ cpc = [c \in Consumers |-> "loop"]
    /\ pTask = [c \in Consumers |-> None]
    /\ ppc = "produce"
    /\ taskID = 0
    /\ done = {}

-----------------------------------------------------------------------------
\* Mutant: the lock is not kept while the task is handled.
TakeUnlocked(c) ==
    /\ cpc[c] \in {"loop", "woken"}
    /\ mymutex = Nobody
    /\ tasks # <<>>
    /\ tasks' = Tail(tasks)
    /\ pTask' = [pTask EXCEPT ![c] = Head(tasks)]
    /\ cpc' = [cpc EXCEPT ![c] = "doTask"]
    /\ UNCHANGED <<mymutex, ppc, taskID, done>>

\* Lines 37-51: with the lock, a non-empty list: pop the front and handle it.
\* (new never returns NULL, so the NULL test of line 48 is always false.)
Take(c) ==
    /\ cpc[c] \in {"loop", "woken"}
    /\ mymutex = Nobody
    /\ tasks # <<>>
    /\ tasks' = Tail(tasks)
    /\ pTask' = [pTask EXCEPT ![c] = Head(tasks)]
    /\ mymutex' = c
    /\ cpc' = [cpc EXCEPT ![c] = "doTask"]
    /\ UNCHANGED <<ppc, taskID, done>>

\* Lines 37-43: with the lock, an empty list: wait unlocks and sleeps.
Sleep(c) ==
    /\ cpc[c] \in {"loop", "woken"}
    /\ mymutex = Nobody
    /\ tasks = <<>>
    /\ cpc' = [cpc EXCEPT ![c] = "blocked"]
    /\ UNCHANGED <<tasks, mymutex, pTask, ppc, taskID, done>>

\* Line 42: a wakeup nobody asked for.
SpuriousWakeup(c) ==
    /\ cpc[c] = "blocked"
    /\ cpc' = [cpc EXCEPT ![c] = "woken"]
    /\ UNCHANGED <<tasks, mymutex, pTask, ppc, taskID, done>>

\* Lines 51-54: doTask() returns, the task is deleted, the guard unlocks.
Finish(c) ==
    /\ cpc[c] = "doTask"
    /\ done' = done \cup {pTask[c]}
    /\ pTask' = [pTask EXCEPT ![c] = None]
    /\ mymutex' = Nobody
    /\ cpc' = [cpc EXCEPT ![c] = "loop"]
    /\ UNCHANGED <<tasks, ppc, taskID>>

\* Lines 66-73: a new task is appended in a critical section of its own.
Produce ==
    /\ ppc = "produce"
    /\ taskID < MaxTasks
    /\ mymutex = Nobody
    /\ tasks' = Append(tasks, taskID)
    /\ ppc' = "notify"
    /\ UNCHANGED <<mymutex, cpc, pTask, taskID, done>>

\* Mutant: no notification.
NotifyNobody ==
    /\ ppc = "notify"
    /\ taskID' = taskID + 1
    /\ ppc' = "produce"
    /\ UNCHANGED <<tasks, mymutex, cpc, pTask, done>>

\* Lines 76-81: after the unlock, one sleeping consumer is woken, if any.
Notify ==
    /\ ppc = "notify"
    /\ IF Blocked = {}
       THEN UNCHANGED cpc
       ELSE \E c \in Blocked : cpc' = [cpc EXCEPT ![c] = "woken"]
    /\ taskID' = taskID + 1
    /\ ppc' = "produce"
    /\ UNCHANGED <<tasks, mymutex, pTask, done>>

Consumer(c) == Take(c) \/ Sleep(c) \/ Finish(c)
Producer == Produce \/ Notify

Next ==
    \/ \E c \in Consumers : Consumer(c) \/ SpuriousWakeup(c)
    \/ Producer

Spec == Init /\ [][Next]_vars

\* Threads keep running.
FairSpec ==
    /\ Spec
    /\ \A c \in Consumers : WF_vars(Consumer(c))
    /\ WF_vars(Producer)

-----------------------------------------------------------------------------
\* Every variable holds a value of its type; the lock is held across steps
\* only by the consumer that handles a task, and pTask is set meanwhile.
TypeOK ==
    /\ tasks \in Seq(TaskIDs)
    /\ mymutex \in Consumers \cup {Nobody}
    /\ cpc \in [Consumers -> {"loop", "blocked", "woken", "doTask"}]
    /\ pTask \in [Consumers -> TaskIDs \cup {None}]
    /\ \A c \in Consumers : cpc[c] = "doTask" => mymutex = c /\ pTask[c] # None
    /\ ppc \in {"produce", "notify"}
    /\ taskID \in Nat
    /\ done \in SUBSET TaskIDs

\* No wakeup is lost although the producer notifies after it has unlocked: a
\* task waits while a consumer sleeps only if another consumer is awake, and
\* will look at the list again, or the notification is still to come.
NoSleepOnWork ==
    tasks # <<>> /\ Blocked # {} =>
        (\E c \in Consumers : cpc[c] # "blocked") \/ ppc = "notify"

\* The numbers in the list are consecutive and end with the producer's last:
\* nothing is lost, doubled or overtaken between push_back and pop_front.
Consecutive ==
    LET last == IF ppc = "notify" THEN taskID ELSE taskID - 1
    IN  \A i \in 1..Len(tasks) : tasks[i] + (Len(tasks) - i) = last

WQ == INSTANCE WorkQueue WITH
        Items <- TaskIDs, Blank <- None, Width <- 1,
        queue <- tasks, active <- Active, dropped <- {}

\* The program is a work queue of width one that drops nothing: doTask() runs
\* under the lock, so the five consumers never work in parallel.
ImplementsWorkQueue == WQ!Spec

\* Every task produced is handled.
TasksHandled == \A x \in TaskIDs : (taskID = x /\ ppc = "notify") ~> x \in done
==============================================================================
