------------------------- MODULE SemaphoreQueueProofs -------------------------
(***************************************************************************)
(* Proofs about SemaphoreQueue, for every finite set of consumers and      *)
(* every number of tasks.                                                  *)
(*                                                                         *)
(* UnitsMatchTasks is inductive with the types alone, and the safety of    *)
(* the unguarded front() follows from it by counting: while a consumer     *)
(* holds a unit, the list cannot be empty.  The refinement of the abstract *)
(* queue needs in addition that the producer's next number is unused       *)
(* (NumbersUsed) and that no task is in two places (OnePlace).             *)
(***************************************************************************)
EXTENDS SemaphoreQueue, FiniteSetTheorems, TLAPS

IInv == TypeOK /\ UnitsMatchTasks

-----------------------------------------------------------------------------
\* The threads start well typed.
LEMMA TypeInit == Init => TypeOK
<1> SUFFICES ASSUME Init PROVE TypeOK
  OBVIOUS
<1> USE SemaphoreQueueAssumption DEF Init
<1>1. tasks \in Seq(TaskIDs) /\ mysemaphore \in Nat /\ taskID \in Nat
  OBVIOUS
<1>2. /\ cpc \in [Consumers -> {"wait", "look", "take", "doTask"}]
      /\ pTask \in [Consumers -> TaskIDs \cup {None}]
  OBVIOUS
<1>3. \A c \in Consumers : cpc[c] # "doTask"
  OBVIOUS
<1> QED
  BY <1>1, <1>2, <1>3 DEF TypeOK

\* Every step of a consumer or the producer keeps the types.
LEMMA TypeStep == TypeOK /\ [Next]_vars => TypeOK'
<1> USE SemaphoreQueueAssumption DEF TypeOK
<1> SUFFICES ASSUME TypeOK, [Next]_vars PROVE TypeOK'
  OBVIOUS
<1>1. ASSUME NEW c \in Consumers, SemWait(c) PROVE TypeOK'
  BY <1>1 DEF SemWait
<1>2. ASSUME NEW c \in Consumers, Look(c) PROVE TypeOK'
  BY <1>2 DEF Look
<1>3. ASSUME NEW c \in Consumers, Take(c) PROVE TypeOK'
  BY <1>3 DEF Take
<1>4. ASSUME NEW c \in Consumers, Finish(c) PROVE TypeOK'
  BY <1>4 DEF Finish
<1>5. CASE Push
  BY <1>5 DEF Push, TaskIDs
<1>6. CASE Post
  BY <1>6 DEF Post
<1>7. CASE UNCHANGED vars
  BY <1>7 DEF vars
<1> QED
  BY <1>1, <1>2, <1>3, <1>4, <1>5, <1>6, <1>7 DEF Next, Consumer, Producer, Exhausted

\* Every reachable state is well typed.
THEOREM TypeCorrect == Spec => []TypeOK
BY TypeInit, TypeStep, PTL DEF Spec

-----------------------------------------------------------------------------
\* The holders of units can be counted.
LEMMA HoldersFinite == IsFiniteSet(Holders) /\ Cardinality(Holders) \in Nat
<1>1. IsFiniteSet(Consumers) /\ Holders \subseteq Consumers
  BY SemaphoreQueueAssumption DEF Holders
<1>2. IsFiniteSet(Holders)
  BY <1>1, FS_Subset
<1> QED
  BY <1>2, FS_CardinalityType

\* A consumer that becomes a holder.
LEMMA HolderAdded ==
    ASSUME NEW c, c \notin Holders, Holders' = Holders \cup {c}
    PROVE  Cardinality(Holders') = Cardinality(Holders) + 1
BY HoldersFinite, FS_AddElement

\* A consumer that stops being a holder.
LEMMA HolderRemoved ==
    ASSUME NEW c, c \in Holders, Holders' = Holders \ {c}
    PROVE  Cardinality(Holders') = Cardinality(Holders) - 1
BY HoldersFinite, FS_RemoveElement

\* A consumer that holds a unit has a task waiting for it.
LEMMA HoldersMatter ==
    ASSUME UnitsMatchTasks, mysemaphore \in Nat, Holders # {}
    PROVE  tasks # <<>>
<1>1. Cardinality(Holders) # 0
  BY HoldersFinite, FS_EmptySet
<1> QED
  BY <1>1, HoldersFinite DEF UnitsMatchTasks

\* At the start there are neither units nor tasks.
LEMMA UnitsInit == Init => UnitsMatchTasks
<1> SUFFICES ASSUME Init PROVE UnitsMatchTasks
  OBVIOUS
<1>1. Holders = {}
  BY DEF Init, Holders
<1>2. Cardinality(Holders) = 0
  BY <1>1, FS_EmptySet
<1>3. Len(tasks) = 0 /\ mysemaphore = 0 /\ ppc = "push"
  BY DEF Init
<1> QED
  BY <1>2, <1>3 DEF UnitsMatchTasks

\* Every step moves a unit, or adds or removes one together with a task.
LEMMA UnitsStep == IInv /\ [Next]_vars => UnitsMatchTasks'
<1> SUFFICES ASSUME IInv, [Next]_vars PROVE UnitsMatchTasks'
  OBVIOUS
<1>0. TypeOK /\ UnitsMatchTasks
  BY DEF IInv
<1>01. /\ mysemaphore \in Nat /\ tasks \in Seq(TaskIDs) /\ Len(tasks) \in Nat
       /\ cpc \in [Consumers -> {"wait", "look", "take", "doTask"}]
  BY <1>0 DEF TypeOK
<1>1. ASSUME NEW c \in Consumers, SemWait(c) PROVE UnitsMatchTasks'
  <2>1. c \notin Holders /\ Holders' = Holders \cup {c}
    BY <1>01, <1>1 DEF SemWait, Holders
  <2>2. Cardinality(Holders') = Cardinality(Holders) + 1
    BY <2>1, HolderAdded
  <2>3. mysemaphore' = mysemaphore - 1 /\ UNCHANGED <<tasks, ppc>>
    BY <1>1 DEF SemWait
  <2> QED
    BY <1>0, <1>01, <2>2, <2>3, HoldersFinite DEF UnitsMatchTasks
<1>2. ASSUME NEW c \in Consumers, Look(c) PROVE UnitsMatchTasks'
  <2>1. c \in Holders
    BY <1>2 DEF Look, Holders
  <2>2. tasks # <<>>
    BY <1>0, <1>01, <2>1, HoldersMatter
  <2>3. Holders' = Holders
    BY <1>01, <1>2, <2>2 DEF Look, Holders
  <2> QED
    BY <1>0, <1>2, <2>3 DEF UnitsMatchTasks, Look
<1>3. ASSUME NEW c \in Consumers, Take(c) PROVE UnitsMatchTasks'
  <2>1. c \in Holders /\ Holders' = Holders \ {c}
    BY <1>01, <1>3 DEF Take, Holders
  <2>2. Cardinality(Holders') = Cardinality(Holders) - 1
    BY <2>1, HolderRemoved
  <2>3. UNCHANGED <<mysemaphore, ppc>>
    BY <1>3 DEF Take
  <2>4. Len(tasks') = Len(tasks) - 1
    BY <1>01, <1>3 DEF Take
  <2> QED
    BY <1>0, <1>01, <2>2, <2>3, <2>4, HoldersFinite DEF UnitsMatchTasks
<1>4. ASSUME NEW c \in Consumers, Finish(c) PROVE UnitsMatchTasks'
  <2>1. Holders' = Holders
    BY <1>01, <1>4 DEF Finish, Holders
  <2> QED
    BY <1>0, <1>4, <2>1 DEF UnitsMatchTasks, Finish
<1>5. CASE Push
  <2>1. Holders' = Holders
    BY <1>5 DEF Push, Holders
  <2>2. Len(tasks') = Len(tasks) + 1
    BY <1>01, <1>5 DEF Push
  <2>3. mysemaphore' = mysemaphore /\ ppc = "push" /\ ppc' = "post"
    BY <1>5 DEF Push
  <2> QED
    BY <1>0, <1>01, <2>1, <2>2, <2>3, HoldersFinite DEF UnitsMatchTasks
<1>6. CASE Post
  <2>1. Holders' = Holders
    BY <1>6 DEF Post, Holders
  <2>2. /\ mysemaphore' = mysemaphore + 1 /\ tasks' = tasks
        /\ ppc = "post" /\ ppc' = "push"
    BY <1>6 DEF Post
  <2> QED
    BY <1>0, <1>01, <2>1, <2>2, HoldersFinite DEF UnitsMatchTasks
<1>7. CASE UNCHANGED vars
  <2>1. Holders' = Holders
    BY <1>7 DEF vars, Holders
  <2> QED
    BY <1>0, <1>7, <2>1 DEF UnitsMatchTasks, vars
<1> QED
  BY <1>1, <1>2, <1>3, <1>4, <1>5, <1>6, <1>7 DEF Next, Consumer, Producer, Exhausted

\* Types and the count of units hold in every reachable state.
THEOREM Inductive == Spec => []IInv
<1>1. Init => IInv
  BY TypeInit, UnitsInit DEF IInv
<1>2. IInv /\ [Next]_vars => IInv'
  BY TypeStep, UnitsStep DEF IInv
<1> QED
  BY <1>1, <1>2, PTL DEF Spec

\* The semaphore, the units the consumers hold and the unit about to be posted
\* always add up to the length of the list.
THEOREM UnitsCounted == Spec => []UnitsMatchTasks
<1>1. IInv => UnitsMatchTasks
  BY DEF IInv
<1> QED
  BY <1>1, Inductive, PTL

\* front() is never called on an empty list and no unit is thrown away.
THEOREM PopSafe == Spec => []NeverPopEmpty
<1>1. IInv => NeverPopEmpty
  BY HoldersMatter DEF IInv, TypeOK, NeverPopEmpty
<1> QED
  BY <1>1, Inductive, PTL

-----------------------------------------------------------------------------
Busy == {c \in Consumers : cpc[c] = "doTask"}

\* The numbers given out so far: the producer increments taskID after the post.
Next_ID == IF ppc = "post" THEN taskID + 1 ELSE taskID

NumbersUsed ==
    /\ \A i \in 1..Len(tasks) : tasks[i] < Next_ID
    /\ \A c \in Busy : pTask[c] < Next_ID
    /\ \A x \in done : x < Next_ID

\* No task waits twice, is handled by two consumers, or both.
OnePlace ==
    /\ \A i, j \in 1..Len(tasks) : tasks[i] = tasks[j] => i = j
    /\ \A c, d \in Busy : pTask[c] = pTask[d] => c = d
    /\ \A i \in 1..Len(tasks), c \in Busy : tasks[i] # pTask[c]

PlacesInv == TypeOK /\ NumbersUsed /\ OnePlace

\* At the start no number has been used.
LEMMA PlacesInit == Init => PlacesInv
<1> SUFFICES ASSUME Init PROVE PlacesInv
  OBVIOUS
<1>1. Len(tasks) = 0 /\ Busy = {} /\ done = {}
  BY DEF Init, Busy
<1> QED
  BY <1>1, TypeInit DEF PlacesInv, NumbersUsed, OnePlace

\* Every step leaves each task in one place and the next number unused.
LEMMA PlacesStep == PlacesInv /\ [Next]_vars => PlacesInv'
<1> SUFFICES ASSUME PlacesInv, [Next]_vars PROVE NumbersUsed' /\ OnePlace'
  BY TypeStep DEF PlacesInv
<1>0. /\ TypeOK /\ NumbersUsed /\ OnePlace
      /\ taskID \in Nat /\ tasks \in Seq(Nat) /\ done \subseteq Nat
      /\ \A c \in Busy : pTask[c] \in Nat
  BY SemaphoreQueueAssumption DEF PlacesInv, TypeOK, TaskIDs, Busy
<1> USE <1>0 DEF NumbersUsed, OnePlace, Next_ID
<1>1. ASSUME NEW c \in Consumers, SemWait(c) \/ Look(c) PROVE NumbersUsed' /\ OnePlace'
  <2>1. Busy' = Busy
    BY <1>1 DEF SemWait, Look, Busy, TypeOK
  <2> QED
    BY <1>1, <2>1 DEF SemWait, Look
<1>2. ASSUME NEW c \in Consumers, Take(c) PROVE NumbersUsed' /\ OnePlace'
  <2>1. /\ tasks # <<>> /\ tasks' = Tail(tasks)
        /\ Len(tasks') = Len(tasks) - 1
        /\ \A i \in 1..Len(tasks') : tasks'[i] = tasks[i + 1]
        /\ Head(tasks) = tasks[1] /\ 1 \in 1..Len(tasks)
    BY <1>2 DEF Take
  <2>2. Busy' = Busy \cup {c} /\ c \notin Busy
    BY <1>2 DEF Take, Busy, TypeOK
  <2>3. pTask'[c] = tasks[1] /\ \A d \in Busy : pTask'[d] = pTask[d]
    BY <1>2, <2>1, <2>2 DEF Take, Busy, TypeOK
  <2>4. UNCHANGED <<ppc, taskID, done>>
    BY <1>2 DEF Take
  <2>5. NumbersUsed'
    BY <2>1, <2>2, <2>3, <2>4
  <2>6. \A i, j \in 1..Len(tasks') : tasks'[i] = tasks'[j] => i = j
    BY <2>1
  <2>7. \A d, e \in Busy' : pTask'[d] = pTask'[e] => d = e
    BY <2>1, <2>2, <2>3
  <2>8. \A i \in 1..Len(tasks'), d \in Busy' : tasks'[i] # pTask'[d]
    BY <2>1, <2>2, <2>3
  <2> QED
    BY <2>5, <2>6, <2>7, <2>8
<1>3. ASSUME NEW c \in Consumers, Finish(c) PROVE NumbersUsed' /\ OnePlace'
  <2>1. Busy' = Busy \ {c} /\ c \in Busy
    BY <1>3 DEF Finish, Busy, TypeOK
  <2>2. \A d \in Busy' : pTask'[d] = pTask[d]
    BY <1>3, <2>1 DEF Finish, Busy, TypeOK
  <2>3. UNCHANGED <<tasks, ppc, taskID>> /\ done' = done \cup {pTask[c]}
    BY <1>3 DEF Finish
  <2> QED
    BY <2>1, <2>2, <2>3
<1>4. CASE Push
  <2>1. /\ tasks' = Append(tasks, taskID)
        /\ Len(tasks') = Len(tasks) + 1
        /\ \A i \in 1..Len(tasks) : tasks'[i] = tasks[i]
        /\ tasks'[Len(tasks) + 1] = taskID
    BY <1>4 DEF Push
  <2>2. /\ UNCHANGED <<pTask, taskID, done>>
        /\ ppc = "push" /\ ppc' = "post" /\ Busy' = Busy
    BY <1>4 DEF Push, Busy
  <2>3. /\ \A i \in 1..Len(tasks) : tasks[i] \in Nat /\ tasks[i] < taskID
        /\ \A d \in Busy : pTask[d] < taskID
        /\ \A x \in done : x < taskID
    BY <2>2
  <2>4. NumbersUsed'
    BY <2>1, <2>2, <2>3
  <2>5. OnePlace'
    BY <2>1, <2>2, <2>3
  <2> QED
    BY <2>4, <2>5
<1>5. CASE Post
  <2>1. Busy' = Busy
    BY <1>5 DEF Post, Busy
  <2> QED
    BY <1>5, <2>1 DEF Post
<1>6. CASE UNCHANGED vars
  <2>1. Busy' = Busy
    BY <1>6 DEF vars, Busy
  <2> QED
    BY <1>6, <2>1 DEF vars
<1> QED
  BY <1>1, <1>2, <1>3, <1>4, <1>5, <1>6 DEF Next, Consumer, Producer, Exhausted

\* No task is in two places, for every number of consumers.
THEOREM TasksInOnePlace == Spec => []PlacesInv
BY PlacesInit, PlacesStep, PTL DEF Spec

-----------------------------------------------------------------------------
\* What is handled depends only on who is busy and with what.
LEMMA ActiveIsBusy ==
    /\ Active = {pTask[c] : c \in Busy}
    /\ Active' = {pTask'[c] : c \in Busy'}
BY DEF Active, Busy

\* While a consumer has not taken a task, the others leave room for it.
LEMMA RoomToTake ==
    ASSUME TypeOK, NEW c \in Consumers, c \notin Busy
    PROVE  Cardinality(Active) < Cardinality(Consumers)
<1> DEFINE f == [b \in Busy |-> pTask[b]]
<1>1. IsFiniteSet(Consumers) /\ Busy \in SUBSET Consumers
  BY SemaphoreQueueAssumption DEF Busy
<1>2. IsFiniteSet(Busy) /\ Cardinality(Busy) <= Cardinality(Consumers)
  BY <1>1, FS_Subset
<1>3. Cardinality(Busy) # Cardinality(Consumers)
  BY <1>1, FS_Subset
<1>4. f \in Surjection(Busy, Active)
  BY ActiveIsBusy DEF Surjection
<1>5. IsFiniteSet(Active) /\ Cardinality(Active) <= Cardinality(Busy)
  BY <1>2, <1>4, FS_Surjection
<1>6. /\ Cardinality(Active) \in Nat /\ Cardinality(Busy) \in Nat
      /\ Cardinality(Consumers) \in Nat
  BY <1>1, <1>2, <1>5, FS_CardinalityType
<1> QED
  BY <1>2, <1>3, <1>5, <1>6

\* Every step is a step of the abstract queue or is invisible to it.
LEMMA RefinesStep == PlacesInv /\ [Next]_vars => [WQ!Next]_(WQ!vars)
<1> SUFFICES ASSUME PlacesInv, [Next]_vars PROVE [WQ!Next]_(WQ!vars)
  OBVIOUS
<1>0. TypeOK /\ NumbersUsed /\ OnePlace
  BY DEF PlacesInv
<1> USE <1>0, SemaphoreQueueAssumption DEF WQ!vars
<1>1. ASSUME NEW c \in Consumers, SemWait(c) \/ Look(c) PROVE UNCHANGED WQ!vars
  <2>1. Busy' = Busy /\ UNCHANGED <<tasks, pTask, done>>
    BY <1>1 DEF SemWait, Look, Busy, TypeOK
  <2> QED
    BY <2>1, ActiveIsBusy
<1>2. ASSUME NEW c \in Consumers, Take(c) PROVE WQ!Next
  <2>1. Busy' = Busy \cup {c} /\ c \notin Busy
    BY <1>2 DEF Take, Busy, TypeOK
  <2>2. pTask'[c] = Head(tasks) /\ \A d \in Busy : pTask'[d] = pTask[d]
    BY <1>2, <2>1 DEF Take, Busy, TypeOK
  <2>3. Active' = Active \cup {Head(tasks)}
    BY <2>1, <2>2, ActiveIsBusy
  <2>4. /\ WQ!Cardinality(Active) = Cardinality(Active)
        /\ WQ!Cardinality(Active) < Cardinality(Consumers)
    BY <2>1, RoomToTake DEF WQ!Cardinality, Cardinality
  <2>5. tasks # <<>> /\ tasks' = Tail(tasks) /\ done' = done
    BY <1>2 DEF Take
  <2>6. Head(tasks) # None
    BY <2>5 DEF TypeOK, TaskIDs
  <2>7. WQ!Take
    BY <2>3, <2>4, <2>5, <2>6 DEF WQ!Take
  <2> QED
    BY <2>7 DEF WQ!Next
<1>3. ASSUME NEW c \in Consumers, Finish(c) PROVE WQ!Next
  <2>1. Busy' = Busy \ {c} /\ c \in Busy
    BY <1>3 DEF Finish, Busy, TypeOK
  <2>2. \A d \in Busy' : pTask'[d] = pTask[d]
    BY <1>3, <2>1 DEF Finish, Busy, TypeOK
  <2>3. \A d \in Busy' : pTask[d] # pTask[c]
    BY <2>1 DEF OnePlace
  <2>4. Active' = Active \ {pTask[c]} /\ pTask[c] \in Active
    BY <2>1, <2>2, <2>3, ActiveIsBusy
  <2>5. pTask[c] \in TaskIDs
    BY <2>1 DEF TypeOK, Busy
  <2>6. WQ!Complete(pTask[c])
    BY <1>3, <2>4 DEF Finish, WQ!Complete
  <2> QED
    BY <2>5, <2>6 DEF WQ!Next
<1>4. CASE Push
  <2>1. Busy' = Busy /\ UNCHANGED <<pTask, done>> /\ tasks' = Append(tasks, taskID)
    BY <1>4 DEF Push, Busy
  <2>2. Active' = Active
    BY <2>1, ActiveIsBusy
  <2>3. taskID \in TaskIDs /\ taskID \in Nat /\ Next_ID = taskID
    BY <1>4 DEF Push, TypeOK, TaskIDs, Next_ID
  <2>4. \A i \in 1..Len(tasks) : tasks[i] # taskID
    BY <2>3 DEF NumbersUsed, TypeOK, TaskIDs
  <2>5. taskID \notin done /\ taskID \notin Active
    BY <2>3, ActiveIsBusy DEF NumbersUsed, TypeOK, TaskIDs
  <2>6. WQ!Submit(taskID)
    BY <2>1, <2>2, <2>4, <2>5 DEF WQ!Submit, WQ!Fresh, WQ!Elements
  <2> QED
    BY <2>3, <2>6 DEF WQ!Next
<1>5. CASE Post
  <2>1. Busy' = Busy /\ UNCHANGED <<tasks, pTask, done>>
    BY <1>5 DEF Post, Busy
  <2> QED
    BY <2>1, ActiveIsBusy
<1>6. CASE UNCHANGED vars
  <2>1. Busy' = Busy /\ UNCHANGED <<tasks, pTask, done>>
    BY <1>6 DEF vars, Busy
  <2> QED
    BY <2>1, ActiveIsBusy
<1> QED
  BY <1>1, <1>2, <1>3, <1>4, <1>5, <1>6 DEF Next, Consumer, Producer, Exhausted

\* The program implements the abstract work queue, as wide as it has consumers.
THEOREM Refinement == Spec => ImplementsWorkQueue
<1>1. Init => WQ!Init
  BY DEF Init, WQ!Init, Active
<1> QED
  BY <1>1, TasksInOnePlace, RefinesStep, PTL DEF Spec, ImplementsWorkQueue, WQ!Spec
==============================================================================
