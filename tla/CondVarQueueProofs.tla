-------------------------- MODULE CondVarQueueProofs --------------------------
(***************************************************************************)
(* Proofs about CondVarQueue, for every number of consumers and of tasks.  *)
(*                                                                         *)
(* NoSleepOnWork is inductive once the lock is known to be held across     *)
(* steps only by the consumer in doTask() (LockHeld).  The refinement also *)
(* needs that the producer's next number has never been used (NumbersUsed).*)
(***************************************************************************)
EXTENDS CondVarQueue, Integers, FiniteSetTheorems, TLAPS

LockHeld == \A c \in Consumers : cpc[c] = "doTask" <=> mymutex = c

\* The numbers given out so far: the producer increments taskID after the push.
Next_ID == IF ppc = "notify" THEN taskID + 1 ELSE taskID

NumbersUsed ==
    /\ \A i \in 1..Len(tasks) : tasks[i] < Next_ID
    /\ \A c \in Consumers : cpc[c] = "doTask" => pTask[c] < Next_ID
    /\ \A x \in done : x < Next_ID

IInv == TypeOK /\ LockHeld /\ NumbersUsed /\ NoSleepOnWork /\ Consecutive

-----------------------------------------------------------------------------
\* The threads start well typed.
LEMMA TypeInit == Init => TypeOK
<1> SUFFICES ASSUME Init PROVE TypeOK
  OBVIOUS
<1> USE CondVarQueueAssumption DEF Init, TypeOK
<1>1. tasks \in Seq(TaskIDs)
  OBVIOUS
<1>2. /\ cpc \in [Consumers -> {"loop", "blocked", "woken", "doTask"}]
      /\ pTask \in [Consumers -> TaskIDs \cup {None}]
  OBVIOUS
<1> QED
  BY <1>1, <1>2

\* Every step of a consumer or the producer keeps the types.
LEMMA TypeStep == TypeOK /\ [Next]_vars => TypeOK'
<1> USE CondVarQueueAssumption DEF TypeOK, TaskIDs
<1> SUFFICES ASSUME TypeOK, [Next]_vars PROVE TypeOK'
  OBVIOUS
<1>1. ASSUME NEW c \in Consumers, Take(c) PROVE TypeOK'
  BY <1>1 DEF Take
<1>2. ASSUME NEW c \in Consumers, Sleep(c) PROVE TypeOK'
  BY <1>2 DEF Sleep
<1>3. ASSUME NEW c \in Consumers, SpuriousWakeup(c) PROVE TypeOK'
  BY <1>3 DEF SpuriousWakeup
<1>4. ASSUME NEW c \in Consumers, Finish(c) PROVE TypeOK'
  BY <1>4 DEF Finish
<1>5. CASE Produce
  BY <1>5 DEF Produce
<1>6. CASE Notify
  BY <1>6 DEF Notify, Blocked
<1>7. CASE UNCHANGED vars
  BY <1>7 DEF vars
<1> QED
  BY <1>1, <1>2, <1>3, <1>4, <1>5, <1>6, <1>7 DEF Next, Consumer, Producer

\* Every reachable state is well typed.
THEOREM TypeCorrect == Spec => []TypeOK
BY TypeInit, TypeStep, PTL DEF Spec

-----------------------------------------------------------------------------
\* The strengthened invariant holds at the start.
LEMMA IInvInit == Init => IInv
<1> SUFFICES ASSUME Init PROVE IInv
  OBVIOUS
<1>1. TypeOK
  BY TypeInit
<1>2. LockHeld
  BY CondVarQueueAssumption DEF Init, LockHeld
<1>3. tasks = <<>> /\ Len(tasks) = 0 /\ done = {}
  BY DEF Init
<1>4. NumbersUsed /\ Consecutive
  BY <1>3 DEF Init, NumbersUsed, Consecutive
<1>5. NoSleepOnWork
  BY <1>3 DEF NoSleepOnWork
<1> QED
  BY <1>1, <1>2, <1>4, <1>5 DEF IInv

\* Appending the next number to consecutive numbers.
LEMMA AppendConsecutive ==
    ASSUME NEW s \in Seq(Nat), NEW n \in Nat,
           \A i \in 1..Len(s) : s[i] + (Len(s) - i) = n - 1
    PROVE  LET t == Append(s, n)
           IN  \A i \in 1..Len(t) : t[i] + (Len(t) - i) = n
<1> DEFINE t == Append(s, n)
<1>1. Len(t) = Len(s) + 1 /\ Len(s) \in Nat
  OBVIOUS
<1>2. ASSUME NEW i \in 1..Len(s) PROVE t[i] + (Len(t) - i) = n
  <2> DEFINE a == s[i]
             d == Len(s) - i
  <2>1. t[i] = a /\ a + d = n - 1
    OBVIOUS
  <2>2. a \in Int /\ d \in Int /\ n \in Int
    BY <1>1
  <2>3. Len(t) - i = d + 1
    BY <1>1
  <2> HIDE DEF t, a, d
  <2>4. a + (d + 1) = n
    BY <2>1, <2>2
  <2> QED
    BY <2>1, <2>3, <2>4
<1>3. t[Len(s) + 1] = n
  OBVIOUS
<1> HIDE DEF t
<1>4. ASSUME NEW i \in 1..Len(t) PROVE t[i] + (Len(t) - i) = n
  <2>1. CASE i \in 1..Len(s)
    BY <1>2, <2>1
  <2>2. CASE i = Len(s) + 1
    BY <1>1, <1>3, <2>2
  <2> QED
    BY <1>1, <2>1, <2>2
<1> QED
  BY <1>4 DEF t

\* Every step keeps the strengthened invariant.
LEMMA IInvStep == IInv /\ [Next]_vars => IInv'
<1> USE CondVarQueueAssumption
<1> SUFFICES ASSUME IInv, [Next]_vars PROVE IInv'
  OBVIOUS
<1>0. TypeOK /\ TypeOK'
  BY TypeStep DEF IInv
<1> DEFINE Rest == LockHeld /\ NumbersUsed /\ NoSleepOnWork /\ Consecutive
<1> USE <1>0 DEF TypeOK, TaskIDs, IInv, LockHeld, NumbersUsed, Next_ID, NoSleepOnWork,
        Consecutive, Blocked
<1>1. ASSUME NEW c \in Consumers, Take(c) PROVE Rest'
  <2>1. cpc'[c] = "doTask" /\ mymutex' = c
    BY <1>1 DEF Take
  <2>2. LockHeld'
    <3>1. mymutex = Nobody /\ \A d \in Consumers : d # c => cpc'[d] = cpc[d]
      BY <1>1 DEF Take
    <3>2. \A d \in Consumers : cpc[d] # "doTask"
      BY <3>1
    <3> QED
      BY <2>1, <3>1, <3>2
  <2>7. NoSleepOnWork'
    BY <2>1
  <2>3. /\ tasks # <<>> /\ tasks' = Tail(tasks)
        /\ UNCHANGED <<ppc, taskID, done>>
        /\ pTask' = [pTask EXCEPT ![c] = Head(tasks)]
        /\ \A d \in Consumers : d # c => cpc'[d] = cpc[d]
    BY <1>1 DEF Take
  <2>4. /\ Len(tasks') = Len(tasks) - 1
        /\ \A i \in 1..Len(tasks') : tasks'[i] = tasks[i + 1]
        /\ Head(tasks) = tasks[1] /\ 1 \in 1..Len(tasks)
    BY <2>3
  <2>5. NumbersUsed'
    BY <2>3, <2>4
  <2>6. Consecutive'
    BY <2>3, <2>4
  <2> QED
    BY <2>2, <2>5, <2>6, <2>7
<1>2. ASSUME NEW c \in Consumers, Sleep(c) PROVE Rest'
  BY <1>2 DEF Sleep
<1>3. ASSUME NEW c \in Consumers, SpuriousWakeup(c) PROVE Rest'
  BY <1>3 DEF SpuriousWakeup
<1>4. ASSUME NEW c \in Consumers, Finish(c) PROVE Rest'
  BY <1>4 DEF Finish
<1>5. CASE Produce
  <2>1. LockHeld' /\ NoSleepOnWork'
    BY <1>5 DEF Produce
  <2>2. /\ tasks' = Append(tasks, taskID) /\ ppc = "produce" /\ ppc' = "notify"
        /\ UNCHANGED <<cpc, pTask, taskID, done>>
    BY <1>5 DEF Produce
  <2>3. /\ Len(tasks') = Len(tasks) + 1
        /\ tasks'[Len(tasks) + 1] = taskID
        /\ \A i \in 1..Len(tasks) : tasks'[i] = tasks[i]
    BY <2>2
  <2>4. NumbersUsed'
    BY <2>2, <2>3
  <2>5. Consecutive'
    <3>1. \A i \in 1..Len(tasks) : tasks[i] + (Len(tasks) - i) = taskID - 1
      BY <2>2
    <3>2. tasks \in Seq(Nat)
      OBVIOUS
    <3>3. \A i \in 1..Len(tasks') : tasks'[i] + (Len(tasks') - i) = taskID
      BY <2>2, <3>1, <3>2, AppendConsecutive
    <3> QED
      BY <2>2, <3>3
  <2> QED
    BY <2>1, <2>4, <2>5
<1>6. CASE Notify
  <2>1. LockHeld' /\ NumbersUsed' /\ Consecutive'
    BY <1>6 DEF Notify
  <2>2. NoSleepOnWork'
    BY <1>6 DEF Notify
  <2> QED
    BY <2>1, <2>2
<1>7. CASE UNCHANGED vars
  BY <1>7 DEF vars
<1> QED
  BY <1>1, <1>2, <1>3, <1>4, <1>5, <1>6, <1>7 DEF Next, Consumer, Producer

\* The strengthened invariant holds in every reachable state.
THEOREM Inductive == Spec => []IInv
BY IInvInit, IInvStep, PTL DEF Spec

\* No wakeup of the producer is lost, for every number of consumers.
THEOREM NoLostWakeup == Spec => []NoSleepOnWork
<1>1. IInv => NoSleepOnWork
  BY DEF IInv
<1> QED
  BY <1>1, Inductive, PTL

\* Nothing is lost or overtaken inside the list.
THEOREM ListConsecutive == Spec => []Consecutive
<1>1. IInv => Consecutive
  BY DEF IInv
<1> QED
  BY <1>1, Inductive, PTL

-----------------------------------------------------------------------------
\* The tasks taken from the list so far are the numbers below Started.
Started == Next_ID - Len(tasks)

\* Tasks are finished in the order in which they were produced, and none is
\* passed over: a task in hand is the only number between those finished and
\* those still in the list.
HandledInOrder ==
    /\ mymutex = Nobody => done = 0..(Started - 1)
    /\ \A c \in Consumers :
          cpc[c] = "doTask" => pTask[c] = Started - 1 /\ done = 0..(Started - 2)

\* Every step keeps the order.
LEMMA OrderStep == IInv /\ HandledInOrder /\ [Next]_vars => HandledInOrder'
<1> USE CondVarQueueAssumption
<1> SUFFICES ASSUME IInv, HandledInOrder, [Next]_vars PROVE HandledInOrder'
  OBVIOUS
<1>0. /\ TypeOK /\ LockHeld /\ Consecutive
      /\ Len(tasks) \in Nat /\ Next_ID \in Nat /\ Started \in Int
  BY DEF IInv, TypeOK, Next_ID, Started
<1>1. ASSUME NEW c \in Consumers, Take(c) PROVE HandledInOrder'
  <2>1. /\ tasks # <<>> /\ mymutex = Nobody /\ mymutex' = c
        /\ tasks' = Tail(tasks)
        /\ pTask' = [pTask EXCEPT ![c] = Head(tasks)]
        /\ cpc' = [cpc EXCEPT ![c] = "doTask"]
        /\ UNCHANGED <<ppc, taskID, done>>
    BY <1>1 DEF Take
  <2>2. \A d \in Consumers : cpc[d] # "doTask"
    BY <1>0, <2>1 DEF LockHeld
  <2>3. Len(tasks') = Len(tasks) - 1 /\ Next_ID' = Next_ID
    BY <1>0, <2>1 DEF TypeOK, Next_ID
  <2>4. Started' = Started + 1
    BY <1>0, <2>3 DEF Started
  <2>5. Head(tasks) = Started
    <3>1. Head(tasks) = tasks[1] /\ 1 \in 1..Len(tasks) /\ tasks[1] \in Nat
      BY <1>0, <2>1 DEF TypeOK, TaskIDs
    <3>2. tasks[1] + (Len(tasks) - 1) = Next_ID - 1
      BY <1>0, <3>1 DEF Consecutive, Next_ID, TypeOK
    <3> QED
      BY <1>0, <3>1, <3>2 DEF Started
  <2>6. done = 0..(Started - 1)
    BY <2>1 DEF HandledInOrder
  <2>7. /\ mymutex' # Nobody
        /\ pTask'[c] = Started' - 1 /\ done' = 0..(Started' - 2)
    BY <1>0, <2>1, <2>4, <2>5, <2>6 DEF TypeOK
  <2>8. \A d \in Consumers : cpc'[d] = "doTask" => d = c
    BY <1>0, <2>1, <2>2 DEF TypeOK
  <2> QED
    BY <2>7, <2>8 DEF HandledInOrder
<1>2. ASSUME NEW c \in Consumers, Sleep(c) PROVE HandledInOrder'
  BY <1>0, <1>2 DEF Sleep, HandledInOrder, Started, Next_ID, TypeOK
<1>3. ASSUME NEW c \in Consumers, SpuriousWakeup(c) PROVE HandledInOrder'
  BY <1>0, <1>3 DEF SpuriousWakeup, HandledInOrder, Started, Next_ID, TypeOK
<1>4. ASSUME NEW c \in Consumers, Finish(c) PROVE HandledInOrder'
  <2>1. /\ cpc[c] = "doTask" /\ mymutex' = Nobody
        /\ cpc' = [cpc EXCEPT ![c] = "loop"]
        /\ done' = done \cup {pTask[c]}
        /\ UNCHANGED <<tasks, ppc, taskID>>
    BY <1>4 DEF Finish
  <2>2. Started' = Started
    BY <2>1 DEF Started, Next_ID
  <2>3. pTask[c] = Started - 1 /\ done = 0..(Started - 2)
    BY <2>1 DEF HandledInOrder
  <2>4. pTask[c] \in Nat
    BY <1>0, <2>1 DEF TypeOK, TaskIDs
  <2>5. done' = 0..(Started' - 1)
    BY <1>0, <2>1, <2>2, <2>3, <2>4
  <2>6. \A d \in Consumers : cpc'[d] # "doTask"
    BY <1>0, <2>1 DEF LockHeld, TypeOK
  <2> QED
    BY <2>5, <2>6 DEF HandledInOrder
<1>5. CASE Produce
  <2>1. Len(tasks') = Len(tasks) + 1 /\ Next_ID' = Next_ID + 1
    BY <1>0, <1>5 DEF Produce, Next_ID, TypeOK
  <2>2. Started' = Started
    BY <1>0, <2>1 DEF Started
  <2> QED
    BY <1>5, <2>2 DEF Produce, HandledInOrder
<1>6. CASE Notify
  <2>1. Started' = Started
    BY <1>6 DEF Notify, Started, Next_ID
  <2>2. \A d \in Consumers : cpc'[d] = "doTask" => cpc[d] = "doTask"
    BY <1>0, <1>6 DEF Notify, Blocked, TypeOK
  <2> QED
    BY <1>6, <2>1, <2>2 DEF Notify, HandledInOrder
<1>7. CASE UNCHANGED vars
  BY <1>7 DEF vars, HandledInOrder, Started, Next_ID
<1> QED
  BY <1>1, <1>2, <1>3, <1>4, <1>5, <1>6, <1>7 DEF Next, Consumer, Producer

\* The tasks finished are always the first ones produced, without a gap, for
\* every number of consumers: the lock held in doTask() keeps them in order.
THEOREM TasksInOrder == Spec => []HandledInOrder
<1>1. Init => HandledInOrder
  BY DEF Init, HandledInOrder, Started, Next_ID
<1> QED
  BY <1>1, OrderStep, Inductive, PTL DEF Spec

-----------------------------------------------------------------------------
\* Which tasks are handled depends only on who is in doTask and with what.
LEMMA ActiveSame ==
    ASSUME UNCHANGED pTask,
           \A c \in Consumers : cpc'[c] = "doTask" <=> cpc[c] = "doTask"
    PROVE  Active' = Active
BY DEF Active

\* Every step is a step of the abstract queue or is invisible to it.
LEMMA RefinesStep == IInv /\ [Next]_vars => [WQ!Next]_(WQ!vars)
<1> SUFFICES ASSUME IInv, [Next]_vars PROVE [WQ!Next]_(WQ!vars)
  OBVIOUS
<1>0. TypeOK /\ TypeOK' /\ LockHeld /\ NumbersUsed
  BY TypeStep DEF IInv
<1> USE CondVarQueueAssumption DEF WQ!vars
<1>1. ASSUME NEW c \in Consumers, Take(c) PROVE WQ!Next
  <2>1. Active = {}
    BY <1>0, <1>1 DEF Take, LockHeld, Active
  <2>2. Active' = {Head(tasks)}
    BY <1>0, <1>1 DEF Take, LockHeld, Active, TypeOK
  <2>3. WQ!Cardinality(Active) < 1
    <3>1. WQ!Cardinality(Active) = Cardinality(Active)
      BY DEF WQ!Cardinality, Cardinality
    <3> QED
      BY <2>1, <3>1, FS_EmptySet
  <2>4. Active' = Active \cup {Head(tasks)}
    BY <2>1, <2>2
  <2>5. tasks # <<>> /\ tasks' = Tail(tasks) /\ done' = done
    BY <1>1 DEF Take
  <2>6. Head(tasks) # None
    BY <1>0, <2>5 DEF TypeOK, TaskIDs
  <2>7. WQ!Take
    BY <2>3, <2>4, <2>5, <2>6 DEF WQ!Take
  <2> QED
    BY <2>7 DEF WQ!Next
<1>2. ASSUME NEW c \in Consumers, Sleep(c) PROVE UNCHANGED WQ!vars
  BY <1>0, <1>2, ActiveSame DEF Sleep, TypeOK
<1>3. ASSUME NEW c \in Consumers, SpuriousWakeup(c) PROVE UNCHANGED WQ!vars
  BY <1>0, <1>3, ActiveSame DEF SpuriousWakeup, TypeOK
<1>4. ASSUME NEW c \in Consumers, Finish(c) PROVE WQ!Next
  <2>1. Active = {pTask[c]}
    BY <1>0, <1>4 DEF Finish, LockHeld, Active
  <2>2. Active' = {}
    BY <1>0, <1>4 DEF Finish, LockHeld, Active, TypeOK
  <2>3. pTask[c] \in TaskIDs
    BY <1>0, <1>4 DEF Finish, TypeOK
  <2>4. WQ!Complete(pTask[c])
    BY <1>4, <2>1, <2>2 DEF Finish, WQ!Complete
  <2> QED
    BY <2>3, <2>4 DEF WQ!Next
<1>5. CASE Produce
  <2>1. Active' = Active /\ tasks' = Append(tasks, taskID) /\ done' = done
    BY <1>5, ActiveSame DEF Produce
  <2>2. taskID \in TaskIDs /\ ppc = "produce"
    BY <1>0, <1>5 DEF Produce, TypeOK, TaskIDs
  <2>3. \A i \in 1..Len(tasks) : tasks[i] # taskID
    BY <1>0, <2>2 DEF NumbersUsed, Next_ID, TypeOK, TaskIDs
  <2>4. taskID \notin done
    BY <1>0, <2>2 DEF NumbersUsed, Next_ID, TypeOK, TaskIDs
  <2>5. taskID \notin Active
    BY <1>0, <2>2 DEF NumbersUsed, Next_ID, TypeOK, TaskIDs, Active
  <2>6. WQ!Submit(taskID)
    BY <2>1, <2>3, <2>4, <2>5 DEF WQ!Submit, WQ!Fresh, WQ!Elements
  <2> QED
    BY <2>2, <2>6 DEF WQ!Next
<1>6. CASE Notify
  <2>1. /\ UNCHANGED <<tasks, pTask, done>>
        /\ \A c \in Consumers : cpc'[c] = "doTask" <=> cpc[c] = "doTask"
    BY <1>0, <1>6 DEF Notify, Blocked, TypeOK
  <2> QED
    BY <2>1, ActiveSame
<1>7. CASE UNCHANGED vars
  BY <1>7, ActiveSame DEF vars
<1> QED
  BY <1>1, <1>2, <1>3, <1>4, <1>5, <1>6, <1>7 DEF Next, Consumer, Producer

\* The program implements the abstract work queue of width one.
THEOREM Refinement == Spec => ImplementsWorkQueue
<1>1. Init => WQ!Init
  BY DEF Init, WQ!Init, Active
<1> QED
  BY <1>1, Inductive, RefinesStep, PTL DEF Spec, ImplementsWorkQueue, WQ!Spec
==============================================================================
