--------------------------- MODULE TaskPoolProofs ----------------------------
(***************************************************************************)
(* Proofs about TaskPool, for every number of threads, callers and tasks.  *)
(*                                                                         *)
(* None of the invariants of TaskPool is inductive alone.  IInv adds what  *)
(* their proofs need:                                                      *)
(*   - a thread that has found the list empty still finds it empty, since  *)
(*     it has held the mutex since then (EmptyInside);                     *)
(*   - a thread that reached the second test of the flag with an empty     *)
(*     list cannot see the flag set again, since init() sets it only when  *)
(*     no thread is alive (StopSeen and FlagFollows);                      *)
(*   - stop() has joined the threads before joinNext, and m_threads names  *)
(*     every thread ever created (ThreadsListed, JoinedExited).            *)
(***************************************************************************)
EXTENDS TaskPool, FiniteSetTheorems, TLAPS

Alive(t) == wpc[t] \notin {"none", "exited"}

EmptyInside ==
    \A t \in Threads : wpc[t] \in {"running?", "wait"} => m_taskList = <<>>

StopSeen ==
    \A t \in Threads : wpc[t] = "stop?" /\ m_taskList = <<>> => ~bVisible

FlagFollows ==
    m_bRunning /\ ~bVisible => \A t \in Threads : ~Alive(t)

OwnerFlag ==
    /\ cpc[Owner] = "spawn" => m_bRunning
    /\ cpc[Owner] \in {"stopNotify", "join"} => ~m_bRunning

ThreadsListed ==
    \A t \in Threads : wpc[t] # "none" =>
        \E i \in 1..Len(m_threads) : m_threads[i] = t

JoinedExited ==
    cpc[Owner] = "join" =>
        \A i \in 1..Len(m_threads) :
            i < joinNext => wpc[m_threads[i]] = "exited"

IInv ==
    /\ TypeOK
    /\ MutexHeldInside
    /\ EmptyInside
    /\ StopSeen
    /\ NeverPopEmpty
    /\ FlagFollows
    /\ OwnerFlag
    /\ ThreadsListed
    /\ JoinedExited
    /\ StoppedIsQuiet

-----------------------------------------------------------------------------
\* A new pool is well typed.
LEMMA TypeInit == Init => TypeOK
<1> SUFFICES ASSUME Init PROVE TypeOK
  OBVIOUS
<1> USE TaskPoolAssumption DEF Init, CallerPoints, OwnerPoints, WorkerPoints
<1>1. m_taskList \in Seq(Tasks \cup {NULL}) /\ m_threads \in Seq(Threads)
  OBVIOUS
<1>2. wpc \in [Threads -> WorkerPoints] /\ spTask \in [Threads -> Tasks \cup {NULL}]
  OBVIOUS
<1>3. cpc \in [Callers -> CallerPoints \cup OwnerPoints]
  OBVIOUS
<1>4. /\ \A c \in Callers : cpc[c] \in OwnerPoints => c = Owner
      /\ \A t \in Threads : wpc[t] = "doIt" => spTask[t] # NULL
  OBVIOUS
<1>5. m_mutexList \in Threads \cup {Nobody} /\ toSpawn \in Nat /\ joinNext \in Nat \ {0}
  OBVIOUS
<1>6. /\ m_bRunning \in BOOLEAN /\ bVisible \in BOOLEAN
      /\ done \in SUBSET Tasks /\ dropped \in SUBSET Tasks
  OBVIOUS
<1> QED
  BY <1>1, <1>2, <1>3, <1>4, <1>5, <1>6 DEF TypeOK

\* The step of TypeOK, one action at a time.
LEMMA TypeStep == TypeOK /\ [Next]_vars => TypeOK'
<1> USE TaskPoolAssumption DEF TypeOK, CallerPoints, OwnerPoints, WorkerPoints, Critical,
        poolVars, flagVars, ownerVars, histVars
<1> SUFFICES ASSUME TypeOK, [Next]_vars PROVE TypeOK'
  OBVIOUS
<1>1. ASSUME NEW t \in Threads, Lock(t) PROVE TypeOK'
  BY <1>1 DEF Lock
<1>2. ASSUME NEW t \in Threads, TestEmpty(t) PROVE TypeOK'
  BY <1>2 DEF TestEmpty
<1>3. ASSUME NEW t \in Threads, TestRunning(t) PROVE TypeOK'
  BY <1>3 DEF TestRunning
<1>4. ASSUME NEW t \in Threads, Wait(t) PROVE TypeOK'
  BY <1>4 DEF Wait
<1>5. ASSUME NEW t \in Threads, Relock(t) PROVE TypeOK'
  BY <1>5 DEF Relock
<1>6. ASSUME NEW t \in Threads, TestStop(t) PROVE TypeOK'
  BY <1>6 DEF TestStop
<1>7. ASSUME NEW t \in Threads, TakeTask(t) PROVE TypeOK'
  <2>1. /\ Head(m_taskList) \in Tasks \cup {NULL}
        /\ m_taskList' \in Seq(Tasks \cup {NULL})
    BY <1>7 DEF TakeTask
  <2>2. /\ spTask' = [spTask EXCEPT ![t] = Head(m_taskList)]
        /\ wpc' = [wpc EXCEPT ![t] = IF Head(m_taskList) = NULL THEN "loop" ELSE "doIt"]
    BY <1>7 DEF TakeTask
  <2>3. /\ spTask' \in [Threads -> Tasks \cup {NULL}]
        /\ wpc' \in [Threads -> WorkerPoints]
        /\ \A u \in Threads : wpc'[u] = "doIt" => spTask'[u] # NULL
    BY <2>1, <2>2
  <2>4. /\ m_mutexList' \in Threads \cup {Nobody}
        /\ UNCHANGED <<m_bRunning, bVisible, m_threads, toSpawn, joinNext, cpc, done, dropped>>
    BY <1>7 DEF TakeTask
  <2> QED
    BY <2>1, <2>3, <2>4
<1>8. ASSUME NEW t \in Threads, FinishTask(t) PROVE TypeOK'
  BY <1>8 DEF FinishTask
<1>9. ASSUME NEW t \in Threads, SpuriousWakeup(t) PROVE TypeOK'
  BY <1>9 DEF SpuriousWakeup
<1>10. ASSUME NEW c \in Callers, NEW x \in Tasks \cup {NULL}, AddTask(c, x) PROVE TypeOK'
  BY <1>10 DEF AddTask
<1>11. ASSUME NEW c \in Callers, AddNotify(c) PROVE TypeOK'
  BY <1>11 DEF AddNotify, NotifyOne, Blocked
<1>12. ASSUME NEW c \in Callers, RemoveAllTasks(c) PROVE TypeOK'
  <2>1. Elements(m_taskList) \ {NULL} \subseteq Tasks
    BY DEF Elements
  <2> QED
    BY <1>12, <2>1 DEF RemoveAllTasks
<1>13. ASSUME NEW n \in 0..Cardinality(Threads), InitPool(n) PROVE TypeOK'
  BY <1>13 DEF InitPool
<1>14. ASSUME NEW t \in Threads, Spawn(t) PROVE TypeOK'
  BY <1>14 DEF Spawn
<1>15. CASE InitReturns
  BY <1>15 DEF InitReturns
<1>16. CASE StopNotify
  BY <1>16 DEF StopNotify, NotifyAll
<1>17. CASE StopJoin
  BY <1>17 DEF StopJoin
<1>18. CASE StopReturns
  BY <1>18 DEF StopReturns
<1>19. CASE StopFlag
  BY <1>19 DEF StopFlag
<1>20. CASE FlagVisible
  BY <1>20 DEF FlagVisible
<1>21. CASE Destroy
  <2>1. Elements(m_taskList) \ {NULL} \subseteq Tasks
    BY DEF Elements
  <2> QED
    BY <1>21, <2>1 DEF Destroy
<1>22. CASE UNCHANGED vars
  BY <1>22 DEF vars
<1> QED
  BY <1>1, <1>2, <1>3, <1>4, <1>5, <1>6, <1>7, <1>8, <1>9, <1>10, <1>11, <1>12,
     <1>13, <1>14, <1>15, <1>16, <1>17, <1>18, <1>19, <1>20, <1>21, <1>22
     DEF Next, ThreadFunc, OwnerStep, Finished

\* Every reachable state of the pool is well typed.
THEOREM TypeCorrect == Spec => []TypeOK
<1>1. Init => TypeOK
  BY TypeInit
<1> QED
  BY <1>1, TypeStep, PTL DEF Spec

-----------------------------------------------------------------------------
\* The step of IInv.  The facts of a step about one thread t are first
\* collected for every action; each conjunct then follows from them.
LEMMA IInvInit == Init => IInv
<1> SUFFICES ASSUME Init PROVE IInv
  OBVIOUS
<1>1. TypeOK
  BY TypeInit
<1> QED
  BY <1>1, TaskPoolAssumption DEF Init, IInv, MutexHeldInside, EmptyInside, StopSeen,
     NeverPopEmpty, FlagFollows, OwnerFlag, ThreadsListed, JoinedExited,
     StoppedIsQuiet, Alive, Critical, CallerPoints

\* Every step of a thread or caller keeps the strengthened invariant.
LEMMA IInvStep == IInv /\ [Next]_vars => IInv'
<1> USE TaskPoolAssumption DEF poolVars, flagVars, ownerVars, histVars
<1> SUFFICES ASSUME IInv, [Next]_vars PROVE IInv'
  OBVIOUS
<1>0. TypeOK /\ TypeOK'
  BY TypeStep DEF IInv
<1> DEFINE Rest == /\ MutexHeldInside /\ EmptyInside /\ StopSeen /\ NeverPopEmpty
                   /\ FlagFollows /\ OwnerFlag /\ ThreadsListed /\ JoinedExited
                   /\ StoppedIsQuiet
<1> USE <1>0 DEF TypeOK, IInv, MutexHeldInside, EmptyInside, StopSeen, NeverPopEmpty,
        FlagFollows, OwnerFlag, ThreadsListed, JoinedExited, StoppedIsQuiet,
        Alive, Critical, CallerPoints, OwnerPoints, WorkerPoints
<1>1. ASSUME NEW t \in Threads, Lock(t) PROVE Rest'
  BY <1>1 DEF Lock
<1>2. ASSUME NEW t \in Threads, TestEmpty(t) PROVE Rest'
  BY <1>2 DEF TestEmpty
<1>3. ASSUME NEW t \in Threads, TestRunning(t) PROVE Rest'
  BY <1>3 DEF TestRunning
<1>4. ASSUME NEW t \in Threads, Wait(t) PROVE Rest'
  BY <1>4 DEF Wait
<1>5. ASSUME NEW t \in Threads, Relock(t) PROVE Rest'
  BY <1>5 DEF Relock
<1>6. ASSUME NEW t \in Threads, TestStop(t) PROVE Rest'
  BY <1>6 DEF TestStop
<1>7. ASSUME NEW t \in Threads, TakeTask(t) PROVE Rest'
  <2>1. \A u \in Threads : u # t => wpc[u] \notin Critical /\ wpc'[u] = wpc[u]
    BY <1>7 DEF TakeTask
  <2>2. wpc'[t] \in {"loop", "doIt"}
    BY <1>7 DEF TakeTask
  <2>3. MutexHeldInside'
    BY <1>7, <2>1 DEF TakeTask
  <2>4. EmptyInside' /\ StopSeen' /\ NeverPopEmpty'
    BY <2>1, <2>2
  <2>5. UNCHANGED <<flagVars, ownerVars, cpc>>
    BY <1>7 DEF TakeTask
  <2>6. wpc[t] = "take"
    BY <1>7 DEF TakeTask
  <2>7. FlagFollows' /\ OwnerFlag' /\ StoppedIsQuiet'
    BY <2>1, <2>2, <2>5, <2>6
  <2>8. ThreadsListed' /\ JoinedExited'
    BY <2>1, <2>2, <2>5, <2>6
  <2> QED
    BY <2>3, <2>4, <2>7, <2>8
<1>8. ASSUME NEW t \in Threads, FinishTask(t) PROVE Rest'
  BY <1>8 DEF FinishTask
<1>9. ASSUME NEW t \in Threads, SpuriousWakeup(t) PROVE Rest'
  BY <1>9 DEF SpuriousWakeup
<1>10. ASSUME NEW c \in Callers, NEW x \in Tasks \cup {NULL}, AddTask(c, x) PROVE Rest'
  BY <1>10 DEF AddTask
<1>11. ASSUME NEW c \in Callers, AddNotify(c) PROVE Rest'
  BY <1>11 DEF AddNotify, NotifyOne, Blocked
<1>12. ASSUME NEW c \in Callers, RemoveAllTasks(c) PROVE Rest'
  BY <1>12 DEF RemoveAllTasks
<1>13. ASSUME NEW n \in 0..Cardinality(Threads), InitPool(n) PROVE Rest'
  BY <1>13 DEF InitPool
<1>14. ASSUME NEW t \in Threads, Spawn(t) PROVE Rest'
  BY <1>14 DEF Spawn
<1>15. CASE InitReturns
  BY <1>15 DEF InitReturns
<1>16. CASE StopNotify
  BY <1>16 DEF StopNotify, NotifyAll, Blocked
<1>17. CASE StopJoin
  BY <1>17 DEF StopJoin
<1>18. CASE StopReturns
  BY <1>18 DEF StopReturns
<1>19. CASE StopFlag
  BY <1>19 DEF StopFlag
<1>20. CASE FlagVisible
  BY <1>20 DEF FlagVisible
<1>21. CASE Destroy
  BY <1>21 DEF Destroy
<1>22. CASE UNCHANGED vars
  BY <1>22 DEF vars
<1> QED
  BY <1>1, <1>2, <1>3, <1>4, <1>5, <1>6, <1>7, <1>8, <1>9, <1>10, <1>11, <1>12,
     <1>13, <1>14, <1>15, <1>16, <1>17, <1>18, <1>19, <1>20, <1>21, <1>22
     DEF Next, ThreadFunc, OwnerStep, Finished

\* The strengthened invariant holds in every reachable state.
THEOREM Inductive == Spec => []IInv
<1> QED
  BY IInvInit, IInvStep, PTL DEF Spec

-----------------------------------------------------------------------------
\* At most one thread is inside the critical section, hence at most one
\* doIt() runs, whatever the number of threads.
THEOREM MutualExclusion == Spec => []MutexHeldInside
<1>1. IInv => MutexHeldInside
  BY DEF IInv
<1> QED
  BY <1>1, Inductive, PTL

\* front() and pop_front() are never called on an empty list.
THEOREM PopSafe == Spec => []NeverPopEmpty
<1>1. IInv => NeverPopEmpty
  BY DEF IInv
<1> QED
  BY <1>1, Inductive, PTL

\* After stop() has returned no thread of the pool is alive.
THEOREM StopQuiet == Spec => []StoppedIsQuiet
<1>1. IInv => StoppedIsQuiet
  BY DEF IInv
<1> QED
  BY <1>1, Inductive, PTL

-----------------------------------------------------------------------------
\* No wakeup of addTask is lost.  A thread goes to sleep only with the list
\* empty; whoever makes it non-empty then owes a notification; and a thread
\* that exits has seen the flag down, which stays down while any is alive.
LEMMA NoSleepStep == IInv /\ NoSleepOnWork /\ [Next]_vars => NoSleepOnWork'
<1> USE TaskPoolAssumption DEF poolVars, flagVars, ownerVars, histVars
<1> SUFFICES ASSUME IInv, NoSleepOnWork, [Next]_vars PROVE NoSleepOnWork'
  OBVIOUS
<1>0. TypeOK /\ TypeOK'
  BY TypeStep DEF IInv
<1> USE <1>0 DEF TypeOK, NoSleepOnWork, Blocked, CallerPoints, OwnerPoints, WorkerPoints, Critical
<1>1. ASSUME NEW t \in Threads, Lock(t) PROVE NoSleepOnWork'
  BY <1>1 DEF Lock
<1>2. ASSUME NEW t \in Threads, TestEmpty(t) PROVE NoSleepOnWork'
  BY <1>2 DEF TestEmpty
<1>3. ASSUME NEW t \in Threads, TestRunning(t) PROVE NoSleepOnWork'
  BY <1>3 DEF TestRunning
<1>4. ASSUME NEW t \in Threads, Wait(t) PROVE NoSleepOnWork'
  BY <1>4 DEF Wait, IInv, EmptyInside
<1>5. ASSUME NEW t \in Threads, Relock(t) PROVE NoSleepOnWork'
  BY <1>5 DEF Relock
<1>6. ASSUME NEW t \in Threads, TestStop(t) PROVE NoSleepOnWork'
  <2>1. CASE bVisible
    <3>1. wpc'[t] = "take"
      BY <1>6, <2>1 DEF TestStop
    <3> QED
      BY <3>1
  <2>2. CASE ~bVisible
    <3>1. ~m_bRunning /\ m_bRunning' = m_bRunning
      BY <1>6, <2>2 DEF TestStop, IInv, FlagFollows, Alive
    <3> QED
      BY <3>1
  <2> QED
    BY <2>1, <2>2
<1>7. ASSUME NEW t \in Threads, TakeTask(t) PROVE NoSleepOnWork'
  <2>1. wpc'[t] \in {"loop", "doIt"}
    BY <1>7 DEF TakeTask
  <2> QED
    BY <2>1
<1>8. ASSUME NEW t \in Threads, FinishTask(t) PROVE NoSleepOnWork'
  BY <1>8 DEF FinishTask
<1>9. ASSUME NEW t \in Threads, SpuriousWakeup(t) PROVE NoSleepOnWork'
  BY <1>9 DEF SpuriousWakeup
<1>10. ASSUME NEW c \in Callers, NEW x \in Tasks \cup {NULL}, AddTask(c, x) PROVE NoSleepOnWork'
  BY <1>10 DEF AddTask
<1>11. ASSUME NEW c \in Callers, AddNotify(c) PROVE NoSleepOnWork'
  <2>1. CASE Blocked = {}
    BY <1>11, <2>1 DEF AddNotify, NotifyOne
  <2>2. ASSUME NEW t \in Blocked, wpc' = [wpc EXCEPT ![t] = "woken"] PROVE NoSleepOnWork'
    BY <2>2
  <2> QED
    BY <1>11, <2>1, <2>2 DEF AddNotify, NotifyOne
<1>12. ASSUME NEW c \in Callers, RemoveAllTasks(c) PROVE NoSleepOnWork'
  BY <1>12 DEF RemoveAllTasks
<1>13. ASSUME NEW n \in 0..Cardinality(Threads), InitPool(n) PROVE NoSleepOnWork'
  BY <1>13 DEF InitPool, IInv, StoppedIsQuiet
<1>14. ASSUME NEW t \in Threads, Spawn(t) PROVE NoSleepOnWork'
  BY <1>14 DEF Spawn
<1>15. CASE InitReturns
  BY <1>15 DEF InitReturns
<1>16. CASE StopNotify
  BY <1>16 DEF StopNotify, NotifyAll
<1>17. CASE StopJoin
  BY <1>17 DEF StopJoin
<1>18. CASE StopReturns
  BY <1>18 DEF StopReturns
<1>19. CASE StopFlag
  BY <1>19 DEF StopFlag
<1>20. CASE FlagVisible
  BY <1>20 DEF FlagVisible
<1>21. CASE Destroy
  BY <1>21 DEF Destroy
<1>22. CASE UNCHANGED vars
  BY <1>22 DEF vars
<1> QED
  BY <1>1, <1>2, <1>3, <1>4, <1>5, <1>6, <1>7, <1>8, <1>9, <1>10, <1>11, <1>12,
     <1>13, <1>14, <1>15, <1>16, <1>17, <1>18, <1>19, <1>20, <1>21, <1>22
     DEF Next, ThreadFunc, OwnerStep, Finished

\* A task never waits while every thread sleeps and no notification is due.
THEOREM NoLostWakeup == Spec => []NoSleepOnWork
<1>1. Init => NoSleepOnWork
  BY DEF Init, NoSleepOnWork
<1> QED
  BY <1>1, NoSleepStep, Inductive, PTL DEF Spec

-----------------------------------------------------------------------------
\* Which tasks are running depends only on who is in doIt() and with what.
LEMMA ActiveSame ==
    ASSUME UNCHANGED spTask,
           \A t \in Threads : wpc'[t] = "doIt" <=> wpc[t] = "doIt"
    PROVE  Active' = Active
BY DEF Active

\* A thread inside the critical section is alone in it.
LEMMA Alone ==
    ASSUME IInv, NEW t \in Threads, wpc[t] \in Critical, NEW u \in Threads, u # t
    PROVE  wpc[u] # "doIt"
BY DEF IInv, MutexHeldInside, Critical

\* Every step of the pool is a step of the abstract queue or changes nothing
\* the queue can see.
LEMMA RefinesStep == IInv /\ [Next]_vars => [WQ!Next]_(WQ!vars)
<1> USE DEF poolVars, flagVars, ownerVars, histVars
<1> SUFFICES ASSUME IInv, [Next]_vars PROVE [WQ!Next]_(WQ!vars)
  OBVIOUS
<1>0. TypeOK /\ TypeOK'
  BY TypeStep DEF IInv
<1> DEFINE Quiet == /\ UNCHANGED <<m_taskList, spTask, done, dropped>>
                    /\ \A t \in Threads : wpc'[t] = "doIt" <=> wpc[t] = "doIt"
<1>q. ASSUME Quiet PROVE UNCHANGED WQ!vars
  BY <1>q, ActiveSame DEF WQ!vars
<1>1. ASSUME NEW t \in Threads, Lock(t) PROVE Quiet
  BY <1>0, <1>1 DEF Lock, TypeOK
<1>2. ASSUME NEW t \in Threads, TestEmpty(t) PROVE Quiet
  BY <1>0, <1>2 DEF TestEmpty, TypeOK
<1>3. ASSUME NEW t \in Threads, TestRunning(t) PROVE Quiet
  BY <1>0, <1>3 DEF TestRunning, TypeOK
<1>4. ASSUME NEW t \in Threads, Wait(t) PROVE Quiet
  BY <1>0, <1>4 DEF Wait, TypeOK
<1>5. ASSUME NEW t \in Threads, Relock(t) PROVE Quiet
  BY <1>0, <1>5 DEF Relock, TypeOK
<1>6. ASSUME NEW t \in Threads, TestStop(t) PROVE Quiet
  BY <1>0, <1>6 DEF TestStop, TypeOK
<1>7. ASSUME NEW t \in Threads, TakeTask(t) PROVE WQ!Take
  <2>1. Active = {}
    BY <1>7, Alone DEF Active, TakeTask, Critical
  <2>2. CASE Head(m_taskList) = NULL
    <3>1. Active' = {}
      BY <1>0, <1>7, <2>2, Alone DEF Active, TakeTask, Critical, TypeOK
    <3> QED
      BY <1>7, <2>1, <2>2, <3>1 DEF TakeTask, WQ!Take
  <2>3. CASE Head(m_taskList) # NULL
    <3>1. Active' = {Head(m_taskList)}
      BY <1>0, <1>7, <2>3, Alone DEF Active, TakeTask, Critical, TypeOK
    <3>2. WQ!Cardinality(Active) < 1
      <4>1. Cardinality(Active) = 0
        BY <2>1, FS_EmptySet
      <4>2. WQ!Cardinality(Active) = Cardinality(Active)
        BY DEF WQ!Cardinality, Cardinality
      <4> QED
        BY <4>1, <4>2
    <3>3. Active' = Active \cup {Head(m_taskList)}
      BY <2>1, <3>1
    <3>4. m_taskList # <<>> /\ m_taskList' = Tail(m_taskList) /\ UNCHANGED <<done, dropped>>
      BY <1>7 DEF TakeTask
    <3> QED
      BY <2>3, <3>2, <3>3, <3>4 DEF WQ!Take
  <2> QED
    BY <2>2, <2>3
<1>8. ASSUME NEW t \in Threads, FinishTask(t) PROVE WQ!Complete(spTask[t])
  <2>1. Active = {spTask[t]}
    BY <1>8, Alone DEF Active, FinishTask, Critical
  <2>2. Active' = {}
    BY <1>0, <1>8, Alone DEF Active, FinishTask, Critical, TypeOK
  <2> QED
    BY <1>8, <2>1, <2>2 DEF FinishTask, WQ!Complete
<1>9. ASSUME NEW t \in Threads, SpuriousWakeup(t) PROVE Quiet
  BY <1>0, <1>9 DEF SpuriousWakeup, TypeOK
<1>10. ASSUME NEW c \in Callers, NEW x \in Tasks \cup {NULL}, AddTask(c, x) PROVE WQ!Submit(x)
  <2>1. Active' = Active
    BY <1>10, ActiveSame DEF AddTask
  <2>2. Fresh(x) => WQ!Fresh(x)
    BY DEF Fresh, WQ!Fresh, Elements, WQ!Elements
  <2> QED
    BY <1>10, <2>1, <2>2 DEF AddTask, WQ!Submit
<1>11. ASSUME NEW c \in Callers, AddNotify(c) PROVE Quiet
  BY <1>0, <1>11 DEF AddNotify, NotifyOne, Blocked, TypeOK
<1>12. ASSUME NEW c \in Callers, RemoveAllTasks(c) PROVE WQ!DropAll
  <2>1. Active' = Active
    BY <1>12, ActiveSame DEF RemoveAllTasks
  <2> QED
    BY <1>12, <2>1 DEF RemoveAllTasks, WQ!DropAll, Elements, WQ!Elements
<1>13. ASSUME NEW n \in 0..Cardinality(Threads), InitPool(n) PROVE Quiet
  BY <1>13 DEF InitPool
<1>14. ASSUME NEW t \in Threads, Spawn(t) PROVE Quiet
  BY <1>0, <1>14 DEF Spawn, TypeOK
<1>15. CASE InitReturns
  BY <1>15, <1>q DEF InitReturns
<1>16. CASE StopNotify
  <2>1. Quiet
    BY <1>0, <1>16 DEF StopNotify, NotifyAll, Blocked, TypeOK
  <2> QED
    BY <2>1, <1>q
<1>17. CASE StopJoin
  BY <1>17, <1>q DEF StopJoin
<1>18. CASE StopReturns
  BY <1>18, <1>q DEF StopReturns
<1>19. CASE StopFlag
  BY <1>19, <1>q DEF StopFlag
<1>20. CASE FlagVisible
  BY <1>20, <1>q DEF FlagVisible
<1>21. CASE Destroy
  <2>1. Active' = Active
    BY <1>21, ActiveSame DEF Destroy
  <2>2. WQ!DropAll
    BY <1>21, <2>1 DEF Destroy, WQ!DropAll, Elements, WQ!Elements
  <2> QED
    BY <2>2 DEF WQ!Next
<1>22. CASE UNCHANGED vars
  BY <1>22, <1>q DEF vars
<1>23. ASSUME NEW t \in Threads, ThreadFunc(t) PROVE [WQ!Next]_(WQ!vars)
  <2>1. ASSUME FinishTask(t) PROVE WQ!Next
    <3>1. spTask[t] \in Tasks
      BY <1>0, <2>1 DEF FinishTask, TypeOK
    <3> QED
      BY <1>8, <2>1, <3>1 DEF WQ!Next
  <2>2. ASSUME TakeTask(t) PROVE WQ!Next
    BY <1>7, <2>2 DEF WQ!Next
  <2> QED
    BY <1>1, <1>2, <1>3, <1>4, <1>5, <1>6, <1>23, <2>1, <2>2, <1>q DEF ThreadFunc
<1>24. ASSUME NEW c \in Callers, NEW x \in Tasks \cup {NULL}, AddTask(c, x) PROVE WQ!Next
  BY <1>10, <1>24 DEF WQ!Next
<1>25. ASSUME NEW c \in Callers, RemoveAllTasks(c) PROVE WQ!Next
  BY <1>12, <1>25 DEF WQ!Next
<1> QED
  BY <1>9, <1>11, <1>13, <1>14, <1>15, <1>16, <1>17, <1>18, <1>19, <1>20, <1>21,
     <1>22, <1>23, <1>24, <1>25, <1>q DEF Next, OwnerStep, Finished

\* The pool implements the abstract queue of width one: tasks start in the
\* order of the calls to addTask, one at a time and each at most once.
THEOREM Refinement == Spec => ImplementsWorkQueue
<1>1. Init => WQ!Init
  BY DEF Init, WQ!Init, Active
<1> QED
  BY <1>1, Inductive, RefinesStep, PTL DEF Spec, ImplementsWorkQueue, WQ!Spec

-----------------------------------------------------------------------------
\* The abstract queue counts as the pool does.
LEMMA SameFinite == \A S : WQ!IsFiniteSet(S) <=> IsFiniteSet(S)
BY DEF WQ!IsFiniteSet, IsFiniteSet

\* The abstract queue, at the width and with the state of the pool.  Every
\* operation of it keeps the types ...
LEMMA QueueTypeStep == WQ!TypeOK /\ [WQ!Next]_(WQ!vars) => WQ!TypeOK'
<1> USE SameFinite DEF WQ!TypeOK
<1> SUFFICES ASSUME WQ!TypeOK, [WQ!Next]_(WQ!vars) PROVE WQ!TypeOK'
  OBVIOUS
<1>0. IsFiniteSet(Active)
  BY SameFinite
<1>1. ASSUME NEW x \in Tasks \cup {NULL}, WQ!Submit(x) PROVE WQ!TypeOK'
  BY <1>1 DEF WQ!Submit
<1>2. CASE WQ!Take
  <2>1. Head(m_taskList) \in Tasks \cup {NULL} /\ m_taskList' \in Seq(Tasks \cup {NULL})
    BY <1>2 DEF WQ!Take
  <2>2. CASE Head(m_taskList) = NULL
    BY <1>2, <2>1, <2>2 DEF WQ!Take
  <2>3. CASE Head(m_taskList) # NULL
    <3>1. Active' = Active \cup {Head(m_taskList)}
      BY <1>2, <2>3 DEF WQ!Take
    <3>2. IsFiniteSet(Active \cup {Head(m_taskList)})
      BY <1>0, FS_AddElement
    <3> QED
      BY <1>2, <2>1, <2>3, <3>1, <3>2 DEF WQ!Take
  <2> QED
    BY <2>2, <2>3
<1>3. ASSUME NEW x \in Tasks, WQ!Complete(x) PROVE WQ!TypeOK'
  <2>1. IsFiniteSet(Active \ {x})
    BY <1>0, FS_RemoveElement
  <2> QED
    BY <1>3, <2>1 DEF WQ!Complete
<1>4. CASE WQ!DropAll
  BY <1>4 DEF WQ!DropAll, WQ!Elements
<1>5. CASE UNCHANGED WQ!vars
  BY <1>5 DEF WQ!vars
<1> QED
  BY <1>1, <1>2, <1>3, <1>4, <1>5 DEF WQ!Next

\* ... and keeps waiting, active, finished and dropped items apart.
LEMMA QueueOnceStep ==
    WQ!TypeOK /\ WQ!EachItemOnce /\ [WQ!Next]_(WQ!vars) => WQ!EachItemOnce'
<1> USE TaskPoolAssumption DEF WQ!TypeOK, WQ!EachItemOnce, WQ!Elements
<1> SUFFICES ASSUME WQ!TypeOK, WQ!EachItemOnce, [WQ!Next]_(WQ!vars)
             PROVE  WQ!EachItemOnce'
  OBVIOUS
<1>1. ASSUME NEW x \in Tasks \cup {NULL}, WQ!Submit(x) PROVE WQ!EachItemOnce'
  BY <1>1 DEF WQ!Submit, WQ!Fresh
<1>2. CASE WQ!Take
  BY <1>2 DEF WQ!Take
<1>3. ASSUME NEW x \in Tasks, WQ!Complete(x) PROVE WQ!EachItemOnce'
  BY <1>3 DEF WQ!Complete
<1>4. CASE WQ!DropAll
  BY <1>4 DEF WQ!DropAll
<1>5. CASE UNCHANGED WQ!vars
  BY <1>5 DEF WQ!vars
<1> QED
  BY <1>1, <1>2, <1>3, <1>4, <1>5 DEF WQ!Next

\* No task is run twice, shared by two threads, or both run and dropped: the
\* abstract queue's invariant, inherited step by step through the refinement.
THEOREM TasksOnce == Spec => []EachTaskOnce
<1> DEFINE Once == WQ!TypeOK /\ WQ!EachItemOnce
<1>1. Init => Once
  <2>1. Init => Active = {} /\ m_taskList = <<>> /\ done = {} /\ dropped = {}
    BY DEF Init, Active
  <2>2. WQ!IsFiniteSet({})
    BY FS_EmptySet DEF WQ!IsFiniteSet, IsFiniteSet
  <2> QED
    BY <2>1, <2>2 DEF WQ!TypeOK, WQ!EachItemOnce, WQ!Elements
<1>2. Once /\ IInv /\ [Next]_vars => Once'
  BY QueueTypeStep, QueueOnceStep, RefinesStep
<1>3. Once => EachTaskOnce
  BY DEF EachTaskOnce, WQ!EachItemOnce, Elements, WQ!Elements
<1> QED
  BY <1>1, <1>2, <1>3, Inductive, PTL DEF Spec

\* However many threads the pool has, they never run two tasks at a time: doIt
\* is called with the mutex held.
THEOREM OneTaskAtATime == Spec => []WQ!WidthRespected
<1>1. IInv => WQ!WidthRespected
  <2> SUFFICES ASSUME IInv PROVE WQ!Cardinality(Active) <= 1
    BY DEF WQ!WidthRespected
  <2>1. Cardinality(Active) <= 1
    <3>1. CASE Active = {}
      BY <3>1, FS_EmptySet
    <3>2. CASE Active # {}
      <4>1. PICK t \in Threads : wpc[t] = "doIt"
        BY <3>2 DEF Active
      <4>2. \A u \in Threads : wpc[u] = "doIt" => u = t
        BY <4>1, Alone DEF Critical
      <4>3. Active = {spTask[t]}
        BY <4>1, <4>2 DEF Active
      <4>4. Cardinality({spTask[t]}) = 1
        BY FS_Singleton
      <4> QED
        BY <4>3, <4>4
    <3> QED
      BY <3>1, <3>2
  <2> QED
    BY <2>1 DEF WQ!Cardinality, Cardinality
<1> QED
  BY <1>1, Inductive, PTL
==============================================================================
