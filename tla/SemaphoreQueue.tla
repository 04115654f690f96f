--------------------------- MODULE SemaphoreQueue ----------------------------
(***************************************************************************)
(* basic/thread/t-mutex/semaphore-thread.cpp: consumers wait on a counting *)
(* semaphore, look at the list without the mutex, pop the front with it    *)
(* and handle the task after releasing it; the producer appends with the   *)
(* mutex and posts the semaphore afterwards.                               *)
(*                                                                         *)
(* A critical section contains no sleep and is one step.  The unlocked     *)
(* tasks.empty() reads one pointer of the list head; that pointer changes  *)
(* in the middle of push_back and pop_front, both under the mutex, so the  *)
(* read sees the list either before or after the operation.                *)
(***************************************************************************)
EXTENDS Integers, Sequences, FiniteSets

CONSTANTS Consumers,  \* the consumer threads
          None,       \* no task in hand
          MaxTasks    \* bound on the tasks the producer's endless loop makes

ASSUME SemaphoreQueueAssumption ==
    /\ Consumers # {}
    /\ IsFiniteSet(Consumers)
    /\ None \notin Nat
    /\ MaxTasks \in Nat

VARIABLES tasks,        \* the list
          mysemaphore,  \* the value of the semaphore
          cpc,          \* where each consumer stands
          pTask,        \* the consumer's local pTask
          ppc,          \* where the producer stands
          taskID,       \* the number of the producer's next task
          done          \* history: the tasks handled and deleted

vars == <<tasks, mysemaphore, cpc, pTask, ppc, taskID, done>>

TaskIDs == 0..(MaxTasks - 1)

\* The consumers that have taken a unit of the semaphore and not yet a task.
Holders == {c \in Consumers : cpc[c] \in {"look", "take"}}
Active == {pTask[c] : c \in {d \in Consumers : cpc[d] = "doTask"}}

Init ==
    /\ tasks = <<>>
    /\ mysemaphore = 0
    /\ cpc = [c \in Consumers |-> "wait"]
    /\ pTask = [c \in Consumers |-> None]
    /\ ppc = "push"
    /\ taskID = 0
    /\ done = {}

-----------------------------------------------------------------------------
\* Lines 44-45: sem_wait.  One that a signal interrupts returns non-zero and
\* is called again: nothing changes.
SemWait(c) ==
    /\ cpc[c] = "wait"
    /\ mysemaphore > 0
    /\ mysemaphore' = mysemaphore - 1
    /\ cpc' = [cpc EXCEPT ![c] = "look"]
    /\ UNCHANGED <<tasks, pTask, ppc, taskID, done>>

\* Lines 47-48: the unlocked test; an empty list would cost the unit taken.
Look(c) ==
    /\ cpc[c] = "look"
    /\ cpc' = [cpc EXCEPT ![c] = IF tasks = <<>> THEN "wait" ELSE "take"]
    /\ UNCHANGED <<tasks, mysemaphore, pTask, ppc, taskID, done>>

\* Mutant: the newest task is taken.
TakeNewest(c) ==
    /\ cpc[c] = "take"
    /\ tasks # <<>>
    /\ tasks' = SubSeq(tasks, 1, Len(tasks) - 1)
    /\ pTask' = [pTask EXCEPT ![c] = tasks[Len(tasks)]]
    /\ cpc' = [cpc EXCEPT ![c] = "doTask"]
    /\ UNCHANGED <<mysemaphore, ppc, taskID, done>>

\* Lines 50-53: front() and pop_front() under the mutex, without looking again.
\* The guard is not in the code: on an empty list front() is undefined, and
\* NeverPopEmpty is the property that no consumer gets there.
Take(c) ==
    /\ cpc[c] = "take"
    /\ tasks # <<>>
    /\ tasks' = Tail(tasks)
    /\ pTask' = [pTask EXCEPT ![c] = Head(tasks)]
    /\ cpc' = [cpc EXCEPT ![c] = "doTask"]
    /\ UNCHANGED <<mysemaphore, ppc, taskID, done>>

\* Lines 55-56: doTask() outside the mutex, then the task is deleted.
Finish(c) ==
    /\ cpc[c] = "doTask"
    /\ done' = done \cup {pTask[c]}
    /\ pTask' = [pTask EXCEPT ![c] = None]
    /\ cpc' = [cpc EXCEPT ![c] = "wait"]
    /\ UNCHANGED <<tasks, mysemaphore, ppc, taskID>>

\* Mutant: the semaphore is posted twice.
PostTwice ==
    /\ ppc = "post"
    /\ mysemaphore' = mysemaphore + 2
    /\ taskID' = taskID + 1
    /\ ppc' = "push"
    /\ UNCHANGED <<tasks, cpc, pTask, done>>

\* Mutant: the semaphore is binary.
PostBinary ==
    /\ ppc = "post"
    /\ mysemaphore' = 1
    /\ taskID' = taskID + 1
    /\ ppc' = "push"
    /\ UNCHANGED <<tasks, cpc, pTask, done>>

\* Lines 69-76.
Push ==
    /\ ppc = "push"
    /\ taskID < MaxTasks
    /\ tasks' = Append(tasks, taskID)
    /\ ppc' = "post"
    /\ UNCHANGED <<mysemaphore, cpc, pTask, taskID, done>>

\* Lines 79-81.
Post ==
    /\ ppc = "post"
    /\ mysemaphore' = mysemaphore + 1
    /\ taskID' = taskID + 1
    /\ ppc' = "push"
    /\ UNCHANGED <<tasks, cpc, pTask, done>>

\* The bound on the tasks has been reached and all have been handled.
Exhausted ==
    /\ taskID = MaxTasks
    /\ done = TaskIDs
    /\ UNCHANGED vars

Consumer(c) == SemWait(c) \/ Look(c) \/ Take(c) \/ Finish(c)
Producer == Push \/ Post

Next == (\E c \in Consumers : Consumer(c)) \/ Producer \/ Exhausted

Spec == Init /\ [][Next]_vars

\* Each thread keeps running.
FairSpec ==
    /\ Spec
    /\ \A c \in Consumers : WF_vars(Consumer(c))
    /\ WF_vars(Producer)

-----------------------------------------------------------------------------
\* Every variable holds a value of its type, and a consumer that handles a
\* task has one.
TypeOK ==
    /\ tasks \in Seq(TaskIDs)
    /\ mysemaphore \in Nat
    /\ cpc \in [Consumers -> {"wait", "look", "take", "doTask"}]
    /\ pTask \in [Consumers -> TaskIDs \cup {None}]
    /\ \A c \in Consumers : cpc[c] = "doTask" => pTask[c] \in TaskIDs
    /\ ppc \in {"push", "post"}
    /\ taskID \in Nat
    /\ done \in SUBSET TaskIDs

\* The semaphore counts the tasks: what is in the list is promised to exactly
\* one unit of the semaphore, to a consumer that holds one, or to the unit the
\* producer is about to post.
UnitsMatchTasks ==
    mysemaphore + Cardinality(Holders) + (IF ppc = "post" THEN 1 ELSE 0) = Len(tasks)

\* The unlocked test of line 47 never finds the list empty, so no unit of the
\* semaphore is thrown away, and the unguarded front() of line 51 is never
\* called on an empty list, although other consumers pop in between.
NeverPopEmpty == Holders # {} => tasks # <<>>

WQ == INSTANCE WorkQueue WITH
        Items <- TaskIDs, Blank <- None, Width <- Cardinality(Consumers),
        queue <- tasks, active <- Active, dropped <- {}

\* The program is a work queue as wide as it has consumers: doTask() runs
\* outside the mutex, tasks start in order and may finish in any order.
ImplementsWorkQueue == WQ!Spec

\* Every task produced is handled.
TasksHandled == \A x \in TaskIDs : (taskID = x /\ ppc = "post") ~> x \in done
==============================================================================
