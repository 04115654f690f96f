---------------------------- MODULE AsyncppProofs -----------------------------
(***************************************************************************)
(* Proofs about Asyncpp, for every set of coroutines, every program of     *)
(* awaited operations and every order of calls.                            *)
(*                                                                         *)
(* MainThreadOnly is inductive together with the types: the main loop      *)
(* takes a token only when nothing is on its stack, and the I/O thread     *)
(* changes no coroutine's state.                                           *)
(***************************************************************************)
EXTENDS Asyncpp, FiniteSetTheorems, SequenceTheorems, TLAPS

\* An operation leaves the path present or absent.
LEMMA EffectType == \A op : \A b \in BOOLEAN : Effect(op, b) \in BOOLEAN
BY DEF Effect

\* An operation returns one of the values.
LEMMA ValueType == \A op : \A b \in BOOLEAN : Value(op, b) \in Values
BY DEF Value, Values

\* A token that has been executed is still a token.
LEMMA PerformedType == ASSUME NEW x \in Tokens PROVE Performed(x) \in Tokens
BY DEF Tokens, Performed

\* Executing a token keeps results and disk well typed.
LEMMA PerformType ==
    ASSUME TypeOK, NEW x \in Tokens, Perform(x)
    PROVE  /\ result' \in [Coroutines -> Values \cup {Nothing}]
           /\ directory' \in BOOLEAN
<1>1. directory \in BOOLEAN /\ result \in [Coroutines -> Values \cup {Nothing}]
  BY DEF TypeOK
<1>2. Value(Script[x.co][x.at], directory) \in Values
  BY <1>1, ValueType
<1>3. Effect(Script[x.co][x.at], directory) \in BOOLEAN
  BY <1>1, EffectType
<1> QED
  BY <1>1, <1>2, <1>3 DEF Perform

\* main() starts well typed.
LEMMA TypeInit == Init => TypeOK
<1> SUFFICES ASSUME Init PROVE TypeOK
  OBVIOUS
<1> USE AsyncppAssumption DEF Init
<1>1. /\ cpc \in [Coroutines -> {"unborn", "running", "suspended", "done"}]
      /\ awaits \in [Coroutines -> Nat]
      /\ result \in [Coroutines -> Values \cup {Nothing}]
      /\ got \in [Coroutines -> Seq(Values \cup {Nothing})]
  OBVIOUS
<1>2. taskQueue \in Seq(Tokens) /\ ioTaskQueue \subseteq {x \in Tokens : x.do = "task"}
  OBVIOUS
<1>3. called \in 0..Len(Order)
  OBVIOUS
<1> QED
  BY <1>1, <1>2, <1>3 DEF TypeOK

-----------------------------------------------------------------------------
\* Every step of either thread keeps the types.
LEMMA TypeStep == TypeOK /\ [Next]_vars => TypeOK'
<1> SUFFICES ASSUME TypeOK, [Next]_vars PROVE TypeOK'
  OBVIOUS
<1> USE AsyncppAssumption, NoneAssumption DEF frames, main, queues
<1>1. CASE StartIo
  BY <1>1 DEF StartIo, TypeOK
<1>2. CASE Call
  <2>1. Order[called + 1] \in Coroutines /\ called' \in 0..Len(Order)
    BY <1>2 DEF Call, TypeOK
  <2>2. /\ cpc' \in [Coroutines -> {"unborn", "running", "suspended", "done"}]
        /\ current' \in Coroutines
    BY <1>2, <2>1 DEF Call, TypeOK
  <2> QED
    BY <1>2, <2>1, <2>2 DEF Call, TypeOK
<1>3. ASSUME NEW c \in Coroutines, Await(c) PROVE TypeOK'
  <2> DEFINE x == [co |-> c, at |-> awaits[c] + 1, do |-> "task"]
  <2>1. x \in Tokens /\ x.do = "task"
    BY DEF TypeOK, Tokens
  <2> HIDE DEF x
  <2>2. /\ taskQueue' \in Seq(Tokens)
        /\ ioTaskQueue' \subseteq {y \in Tokens : y.do = "task"}
    <3>1. CASE ioTaskQueue' = ioTaskQueue \cup {x} /\ taskQueue' = taskQueue
      BY <2>1, <3>1 DEF TypeOK
    <3>2. CASE taskQueue' = Append(taskQueue, x) /\ ioTaskQueue' = ioTaskQueue
      BY <2>1, <3>2 DEF TypeOK
    <3> QED
      BY <1>3, <3>1, <3>2 DEF Await, x
  <2>3. /\ awaits' \in [Coroutines -> Nat]
        /\ cpc' \in [Coroutines -> {"unborn", "running", "suspended", "done"}]
    BY <1>3 DEF Await, TypeOK
  <2>4. suspending' = TRUE /\ current' = c /\ current = c /\ event' = event
    BY <1>3 DEF Await
  <2>5. /\ event' \in Tokens \cup {None} /\ current' \in Coroutines \cup {None}
        /\ event' # None => mpc = "loop" /\ current' = None
    BY <2>4 DEF TypeOK
  <2>6. UNCHANGED <<result, got, mpc, called, opItem, directory, terminated>>
    BY <1>3 DEF Await
  <2> QED
    BY <2>2, <2>3, <2>4, <2>5, <2>6 DEF TypeOK
<1>4. CASE Suspended
  BY <1>4 DEF Suspended, TypeOK
<1>5. ASSUME NEW c \in Coroutines, Return(c) PROVE TypeOK'
  BY <1>5 DEF Return, TypeOK
<1>6. CASE EnterLoop
  BY <1>6 DEF EnterLoop, TypeOK
<1>7. CASE Dequeue
  <2>1. taskQueue \in Seq(Tokens) /\ taskQueue # <<>>
    BY <1>7 DEF Dequeue, TypeOK
  <2>2. Len(taskQueue) \in 1..Len(taskQueue)
    BY <2>1
  <2>3. taskQueue[Len(taskQueue)] \in Tokens
    BY <2>1, <2>2
  <2>4. SubSeq(taskQueue, 1, Len(taskQueue) - 1) \in Seq(Tokens)
    BY <2>1
  <2> QED
    BY <1>7, <2>3, <2>4 DEF Dequeue, TypeOK
<1>8. CASE RunTask
  <2>1. event \in Tokens /\ event # None
    BY <1>8 DEF RunTask, TypeOK
  <2>2. event' \in Tokens /\ event' # None
    BY <1>8, <2>1, PerformedType DEF RunTask
  <2>3. result' \in [Coroutines -> Values \cup {Nothing}] /\ directory' \in BOOLEAN
    BY <1>8, <2>1, PerformType DEF RunTask
  <2> QED
    BY <1>8, <2>1, <2>2, <2>3 DEF RunTask, TypeOK
<1>9. CASE Resume
  <2>1. event.co \in Coroutines
    BY <1>9 DEF Resume, TypeOK, Tokens
  <2>2. got' \in [Coroutines -> Seq(Values \cup {Nothing})]
    BY <1>9, <2>1 DEF Resume, TypeOK
  <2>3. cpc' \in [Coroutines -> {"unborn", "running", "suspended", "done"}]
    BY <1>9 DEF Resume, TypeOK
  <2> QED
    BY <1>9, <2>1, <2>2, <2>3 DEF Resume, TypeOK
<1>10. CASE TaskThrows
  BY <1>10 DEF TaskThrows, TypeOK
<1>11. CASE IoDequeue
  BY <1>11 DEF IoDequeue, TypeOK
<1>12. CASE IoTask
  <2>1. opItem \in Tokens
    BY <1>12 DEF IoTask, TypeOK
  <2>2. opItem' \in Tokens
    BY <1>12, <2>1, PerformedType DEF IoTask
  <2>3. result' \in [Coroutines -> Values \cup {Nothing}] /\ directory' \in BOOLEAN
    BY <1>12, <2>1, PerformType DEF IoTask
  <2> QED
    BY <1>12, <2>2, <2>3 DEF IoTask, TypeOK
<1>13. CASE IoEnqueue
  <2>1. opItem \in Tokens
    BY <1>13 DEF IoEnqueue, TypeOK
  <2>2. taskQueue' \in Seq(Tokens)
    BY <1>13, <2>1 DEF IoEnqueue, TypeOK
  <2> QED
    BY <1>13, <2>2 DEF IoEnqueue, TypeOK
<1>14. CASE IoTaskThrows
  BY <1>14 DEF IoTaskThrows, TypeOK
<1>15. CASE UNCHANGED vars
  BY <1>15 DEF vars, TypeOK
<1> QED
  BY <1>1, <1>2, <1>3, <1>4, <1>5, <1>6, <1>7, <1>8, <1>9, <1>10, <1>11, <1>12,
     <1>13, <1>14, <1>15 DEF Next, MainThread, IoThread, Idle

\* Every reachable state is well typed.
THEOREM TypeCorrect == Spec => []TypeOK
BY TypeInit, TypeStep, PTL DEF Spec

-----------------------------------------------------------------------------
\* Only the main thread changes what runs, and only with an empty stack.
LEMMA MainStep == TypeOK /\ MainThreadOnly /\ [Next]_vars => MainThreadOnly'
<1> SUFFICES ASSUME TypeOK, MainThreadOnly, [Next]_vars PROVE MainThreadOnly'
  OBVIOUS
<1> USE AsyncppAssumption DEF frames, main, queues, MainThreadOnly
<1>0. /\ cpc \in [Coroutines -> {"unborn", "running", "suspended", "done"}]
      /\ suspending => current # None
      /\ event # None => current = None
      /\ current \in Coroutines \cup {None}
      /\ suspending \in BOOLEAN
  BY DEF TypeOK
<1>1. CASE StartIo
  BY <1>1 DEF StartIo
<1>2. CASE Call
  <2>1. ~suspending /\ \A c \in Coroutines : cpc[c] # "running"
    BY <1>0, <1>2 DEF Call
  <2> QED
    BY <1>0, <1>2, <2>1 DEF Call
<1>3. ASSUME NEW c \in Coroutines, Await(c) PROVE MainThreadOnly'
  BY <1>0, <1>3 DEF Await
<1>4. CASE Suspended
  BY <1>0, <1>4 DEF Suspended
<1>5. ASSUME NEW c \in Coroutines, Return(c) PROVE MainThreadOnly'
  BY <1>0, <1>5 DEF Return
<1>6. CASE EnterLoop
  BY <1>6 DEF EnterLoop
<1>7. CASE Dequeue
  BY <1>7 DEF Dequeue
<1>8. CASE RunTask
  BY <1>8 DEF RunTask
<1>9. CASE Resume
  <2>1. ~suspending /\ \A c \in Coroutines : cpc[c] # "running"
    BY <1>0, <1>9 DEF Resume
  <2> QED
    BY <1>0, <1>9, <2>1 DEF Resume
<1>10. CASE TaskThrows \/ IoTaskThrows
  BY <1>10 DEF TaskThrows, IoTaskThrows
<1>11. CASE IoDequeue \/ IoTask \/ IoEnqueue
  BY <1>11 DEF IoDequeue, IoTask, IoEnqueue
<1>12. CASE UNCHANGED vars
  BY <1>12 DEF vars
<1> QED
  BY <1>1, <1>2, <1>3, <1>4, <1>5, <1>6, <1>7, <1>8, <1>9, <1>10, <1>11, <1>12
     DEF Next, MainThread, IoThread, Idle

\* Coroutine bodies run on the main thread, one at a time, and never while the
\* await_suspend they called is still executing.
THEOREM BodiesOnMainThread == Spec => []MainThreadOnly
<1>1. Init => MainThreadOnly
  BY DEF Init, MainThreadOnly
<1> QED
  BY <1>1, TypeInit, TypeStep, MainStep, PTL DEF Spec

-----------------------------------------------------------------------------
Waiting == {taskQueue[i] : i \in 1..Len(taskQueue)}
AllTokens == Waiting \cup ioTaskQueue \cup Held

\* No coroutine has tokens in two places.
Apart ==
    /\ \A i, j \in 1..Len(taskQueue) : taskQueue[i].co = taskQueue[j].co => i = j
    /\ \A x, y \in ioTaskQueue : x.co = y.co => x = y
    /\ \A x \in Waiting, y \in ioTaskQueue \cup Held : x.co # y.co
    /\ \A x \in ioTaskQueue, y \in Held : x.co # y.co
    /\ event # None /\ opItem # None => event.co # opItem.co

\* Exactly the suspended coroutines have a token, which their last co_await made.
Referred ==
    /\ \A c \in Coroutines : cpc[c] = "suspended" <=> \E x \in AllTokens : x.co = c
    /\ \A x \in AllTokens : x.at = awaits[x.co]

\* The coroutines that main has yet to call have not started.
NotYetCalled == \A i \in 1..Len(Order) : i > called => cpc[Order[i]] = "unborn"

TokensInv == Apart /\ Referred /\ NotYetCalled

IInv == TypeOK /\ MainThreadOnly /\ TokensInv

\* The waiting tokens after an enqueue: one more, and still apart if it is of
\* another coroutine.
LEMMA Enqueued ==
    ASSUME TypeOK, NEW x \in Tokens, taskQueue' = Append(taskQueue, x)
    PROVE  /\ Waiting' = Waiting \cup {x}
           /\ Apart /\ (\A y \in Waiting : y.co # x.co) =>
                 \A i, j \in 1..Len(taskQueue') : taskQueue'[i].co = taskQueue'[j].co => i = j
<1> DEFINE n == Len(taskQueue)
<1>1. /\ n \in Nat
      /\ Len(taskQueue') = n + 1
      /\ \A i \in 1..n : taskQueue'[i] = taskQueue[i]
      /\ taskQueue'[n + 1] = x
  BY DEF TypeOK
<1>2. Waiting' = Waiting \cup {x}
  BY <1>1 DEF Waiting
<1>3. ASSUME Apart, \A y \in Waiting : y.co # x.co,
             NEW i \in 1..Len(taskQueue'), NEW j \in 1..Len(taskQueue'),
             taskQueue'[i].co = taskQueue'[j].co
      PROVE  i = j
  <2>1. \A k \in 1..Len(taskQueue') : k \in 1..n \/ k = n + 1
    BY <1>1
  <2>2. CASE i \in 1..n /\ j \in 1..n
    BY <1>1, <1>3, <2>2 DEF Apart
  <2>3. CASE i = n + 1 \/ j = n + 1
    <3>1. \A k \in 1..n : taskQueue'[k].co # x.co
      BY <1>1, <1>3 DEF Waiting
    <3> QED
      BY <1>1, <1>3, <2>1, <2>3, <3>1
  <2> QED
    BY <2>1, <2>2, <2>3
<1> QED
  BY <1>2, <1>3

\* The set of waiting tokens after a dequeue.
LEMMA Dequeued ==
    ASSUME TypeOK, Apart, Dequeue
    PROVE  /\ Len(taskQueue') = Len(taskQueue) - 1
           /\ \A i \in 1..Len(taskQueue') : taskQueue'[i] = taskQueue[i]
           /\ event' \in Waiting /\ event' \in Tokens /\ event' # None
           /\ Waiting' = Waiting \ {event'}
<1>1. /\ taskQueue \in Seq(Tokens) /\ taskQueue # <<>>
      /\ taskQueue' = SubSeq(taskQueue, 1, Len(taskQueue) - 1)
      /\ event' = taskQueue[Len(taskQueue)]
  BY DEF Dequeue, TypeOK
<1>a. Len(taskQueue) \in Nat \ {0}
  BY <1>1, EmptySeq
<1>b. \A i \in 1..(Len(taskQueue) - 1) : taskQueue[i] \in Tokens
  BY <1>1, <1>a
<1>2. /\ Len(taskQueue) \in Nat \ {0}
      /\ Len(taskQueue') = Len(taskQueue) - 1
      /\ \A i \in 1..Len(taskQueue') : taskQueue'[i] = taskQueue[i]
      /\ Len(taskQueue) \in 1..Len(taskQueue)
  <2> DEFINE m == Len(taskQueue) - 1
  <2>1. m \in Nat /\ 1 \in Int /\ m \in Int
    BY <1>a
  <2> HIDE DEF m
  <2>2. /\ Len(taskQueue') = IF 1 <= m THEN m - 1 + 1 ELSE 0
        /\ \A i \in 1..(m - 1 + 1) : taskQueue'[i] = taskQueue[1 + i - 1]
    BY <1>1, <1>b, <2>1, SubSeqProperties DEF m
  <2>3. Len(taskQueue') = m
    BY <2>1, <2>2
  <2>4. \A i \in 1..m : i \in 1..(m - 1 + 1) /\ 1 + i - 1 = i
    BY <2>1
  <2>5. \A i \in 1..m : taskQueue'[i] = taskQueue[i]
    BY <2>2, <2>4
  <2>6. Len(taskQueue) \in 1..Len(taskQueue)
    BY <1>a
  <2> QED
    BY <1>a, <2>3, <2>5, <2>6 DEF m
<1>3. event' \in Waiting /\ event' \in Tokens
  BY <1>1, <1>2 DEF Waiting
<1>4. \A i \in 1..Len(taskQueue) : taskQueue[i] = taskQueue[Len(taskQueue)] => i = Len(taskQueue)
  BY <1>2 DEF Apart
<1>5. Waiting' = Waiting \ {event'}
  BY <1>1, <1>2, <1>4 DEF Waiting
<1> QED
  BY <1>2, <1>3, <1>5, NoneAssumption

\* Main() starts without tokens.
LEMMA TokensInit == Init => TokensInv
<1> SUFFICES ASSUME Init PROVE TokensInv
  OBVIOUS
<1>1. Waiting = {} /\ ioTaskQueue = {} /\ Held = {} /\ Len(taskQueue) = 0
  BY DEF Init, Waiting, Held
<1>2. Apart /\ Referred
  BY <1>1 DEF Init, Apart, Referred, AllTokens
<1>3. NotYetCalled
  BY AsyncppAssumption DEF Init, NotYetCalled
<1> QED
  BY <1>2, <1>3 DEF TokensInv

\* A token that stays where it is, or moves, is still its coroutine's only one.
LEMMA TokensStep == IInv /\ [Next]_vars => TokensInv'
<1> SUFFICES ASSUME IInv, [Next]_vars PROVE TokensInv'
  OBVIOUS
<1>0. /\ TypeOK /\ MainThreadOnly /\ Apart /\ Referred /\ NotYetCalled /\ TypeOK'
      /\ cpc \in [Coroutines -> {"unborn", "running", "suspended", "done"}]
      /\ awaits \in [Coroutines -> Nat]
      /\ Waiting \subseteq Tokens /\ ioTaskQueue \subseteq Tokens /\ Held \subseteq Tokens
  BY TypeStep DEF IInv, TokensInv, TypeOK, Held, Waiting
<1>00. \A x \in Tokens : x.co \in Coroutines
  BY DEF Tokens
<1> USE <1>0, <1>00, AsyncppAssumption, NoneAssumption DEF frames, main, queues
<1> DEFINE SameTokens == UNCHANGED <<taskQueue, ioTaskQueue, event, opItem>>
<1>s. ASSUME SameTokens PROVE AllTokens' = AllTokens /\ Apart'
  BY <1>s DEF AllTokens, Waiting, Held, Apart
<1>1. CASE StartIo \/ Suspended \/ EnterLoop \/ TaskThrows \/ IoTaskThrows \/ UNCHANGED vars
  <2>1. SameTokens /\ UNCHANGED <<cpc, awaits, called>>
    BY <1>1 DEF StartIo, Suspended, EnterLoop, TaskThrows, IoTaskThrows, vars
  <2> QED
    BY <2>1, <1>s DEF TokensInv, Referred, NotYetCalled
<1>2. CASE Call
  <2> DEFINE c == Order[called + 1]
  <2>1. /\ SameTokens /\ UNCHANGED awaits /\ called' = called + 1
        /\ cpc' = [cpc EXCEPT ![c] = "running"]
        /\ called + 1 \in 1..Len(Order)
    BY <1>2 DEF Call, TypeOK
  <2>2. c \in Coroutines /\ cpc[c] = "unborn"
    BY <2>1 DEF NotYetCalled, TypeOK
  <2>3. \A i \in 1..Len(Order) : i > called' => Order[i] # c /\ i > called
    <3>1. \A i \in 1..Len(Order) : i > called' => i # called + 1 /\ i > called
      BY <2>1 DEF TypeOK
    <3> QED
      BY <2>1, <3>1
  <2> HIDE DEF c
  <2>4. NotYetCalled'
    BY <2>1, <2>3 DEF NotYetCalled
  <2>5. Referred'
    BY <2>1, <2>2, <1>s DEF Referred
  <2> QED
    BY <2>1, <2>4, <2>5, <1>s DEF TokensInv
<1>3. ASSUME NEW c \in Coroutines, Return(c) PROVE TokensInv'
  <2>1. /\ SameTokens /\ UNCHANGED <<awaits, called>>
        /\ cpc[c] = "running" /\ cpc' = [cpc EXCEPT ![c] = "done"]
    BY <1>3 DEF Return
  <2>2. Referred' /\ NotYetCalled'
    BY <2>1, <1>s DEF Referred, NotYetCalled
  <2> QED
    BY <2>1, <2>2, <1>s DEF TokensInv
<1>4. ASSUME NEW c \in Coroutines, Await(c) PROVE TokensInv'
  <2> DEFINE x == [co |-> c, at |-> awaits[c] + 1, do |-> "task"]
  <2>1. /\ cpc[c] = "running" /\ cpc' = [cpc EXCEPT ![c] = "suspended"]
        /\ awaits' = [awaits EXCEPT ![c] = @ + 1]
        /\ UNCHANGED <<event, opItem, called>>
        /\ Held' = Held
    BY <1>4 DEF Await, Held
  <2>2. x \in Tokens /\ x.co = c /\ x.at = awaits[c] + 1
    BY DEF Tokens
  <2>3. \A y \in AllTokens : y.co # c
    BY <2>1 DEF Referred
  <2>4. \/ /\ ioTaskQueue' = ioTaskQueue \cup {x}
           /\ taskQueue' = taskQueue
        \/ /\ taskQueue' = Append(taskQueue, x)
           /\ ioTaskQueue' = ioTaskQueue
    BY <1>4 DEF Await
  <2> HIDE DEF x
  <2>5. AllTokens' = AllTokens \cup {x} /\ Apart'
    <3>1. CASE ioTaskQueue' = ioTaskQueue \cup {x} /\ taskQueue' = taskQueue
      <4>1. Waiting' = Waiting
        BY <3>1 DEF Waiting
      <4> QED
        BY <2>1, <2>2, <2>3, <3>1, <4>1 DEF AllTokens, Apart
    <3>2. CASE taskQueue' = Append(taskQueue, x) /\ ioTaskQueue' = ioTaskQueue
      <4>1. \A y \in Waiting : y.co # x.co
        BY <2>2, <2>3 DEF AllTokens
      <4>2. /\ Waiting' = Waiting \cup {x}
            /\ \A i, j \in 1..Len(taskQueue') : taskQueue'[i].co = taskQueue'[j].co => i = j
        BY <2>2, <3>2, <4>1, Enqueued
      <4>3. \A y \in Waiting', z \in (ioTaskQueue \cup Held)' : y.co # z.co
        BY <2>1, <2>2, <2>3, <3>2, <4>2 DEF Apart, AllTokens
      <4> QED
        BY <2>1, <2>2, <2>3, <3>2, <4>2, <4>3 DEF AllTokens, Apart
    <3> QED
      BY <2>4, <3>1, <3>2
  <2>6. \A y \in AllTokens : y.co \in Coroutines
    BY DEF AllTokens
  <2>7. Referred' /\ NotYetCalled'
    BY <2>1, <2>2, <2>3, <2>5, <2>6 DEF Referred, NotYetCalled
  <2> QED
    BY <2>5, <2>7 DEF TokensInv
<1>5. CASE Dequeue
  <2>1. /\ Len(taskQueue') = Len(taskQueue) - 1
        /\ \A i \in 1..Len(taskQueue') : taskQueue'[i] = taskQueue[i]
        /\ event' \in Waiting /\ event' # None
        /\ Waiting' = Waiting \ {event'}
    BY <1>5, Dequeued
  <2>2. event = None /\ UNCHANGED <<cpc, awaits, called, ioTaskQueue, opItem>>
    BY <1>5 DEF Dequeue
  <2>3. Held' = Held \cup {event'} /\ Len(taskQueue) \in Nat
    BY <2>1, <2>2 DEF Held, TypeOK
  <2>4. AllTokens' = AllTokens
    BY <2>1, <2>2, <2>3 DEF AllTokens
  <2>5. \A x, y \in Waiting : x.co = y.co => x = y
    BY DEF Apart, Waiting
  <2>6. opItem' # None => event'.co # opItem'.co
    BY <2>1, <2>2, <2>3 DEF Apart, Held
  <2>7. \A i, j \in 1..Len(taskQueue') : taskQueue'[i].co = taskQueue'[j].co => i = j
    <3>1. \A i \in 1..Len(taskQueue') : i \in 1..Len(taskQueue) /\ taskQueue'[i] = taskQueue[i]
      BY <2>1, <2>3
    <3> QED
      BY <3>1 DEF Apart
  <2>8. /\ \A x \in Waiting', y \in (ioTaskQueue \cup Held)' : x.co # y.co
        /\ \A x \in ioTaskQueue', y \in Held' : x.co # y.co
    BY <2>1, <2>2, <2>3, <2>5 DEF Apart
  <2>9. Apart'
    BY <2>2, <2>6, <2>7, <2>8 DEF Apart
  <2> QED
    BY <2>2, <2>4, <2>9 DEF TokensInv, Referred, NotYetCalled
<1>6. ASSUME NEW x \in Held, Held' = (Held \ {x}) \cup {Performed(x)},
             UNCHANGED <<cpc, awaits, called, taskQueue, ioTaskQueue>>,
             \/ event = x /\ event' = Performed(x) /\ opItem' = opItem
             \/ opItem = x /\ opItem' = Performed(x) /\ event' = event
      PROVE  TokensInv'
  <2>1. Performed(x).co = x.co /\ Performed(x).at = x.at /\ Performed(x) \in Tokens /\ x # None
    BY PerformedType DEF Performed, Tokens, Held
  <2>2. Waiting' = Waiting
    BY <1>6 DEF Waiting
  <2>3. Apart'
    BY <1>6, <2>1, <2>2 DEF Apart, Held
  <2>4. \A c \in Coroutines :
            (\E y \in AllTokens' : y.co = c) <=> (\E y \in AllTokens : y.co = c)
    BY <1>6, <2>1, <2>2 DEF AllTokens
  <2>5. \A y \in AllTokens' : y \in AllTokens \/ y = Performed(x)
    BY <1>6, <2>2 DEF AllTokens
  <2>6. x \in AllTokens
    BY <1>6 DEF AllTokens
  <2>7. \A y \in AllTokens' : y.at = awaits'[y.co]
    BY <1>6, <2>1, <2>5, <2>6 DEF Referred
  <2>8. NotYetCalled'
    BY <1>6 DEF NotYetCalled
  <2>9. Referred'
    BY <1>6, <2>4, <2>7 DEF Referred
  <2> QED
    BY <2>3, <2>8, <2>9 DEF TokensInv
<1>7. CASE RunTask
  <2>1. /\ event \in Held /\ event' = Performed(event) /\ opItem' = opItem
        /\ UNCHANGED <<cpc, awaits, called, taskQueue, ioTaskQueue>>
    BY <1>7 DEF RunTask, Held
  <2>2. opItem # event
    BY <2>1 DEF Apart, Held
  <2>3. Performed(event) # None
    BY <2>1, PerformedType
  <2>4. Held' = (Held \ {event}) \cup {Performed(event)}
    BY <2>1, <2>2, <2>3 DEF Held
  <2> QED
    BY <1>6, <2>1, <2>4
<1>8. CASE IoTask
  <2>1. /\ opItem \in Held /\ opItem' = Performed(opItem) /\ event' = event
        /\ UNCHANGED <<cpc, awaits, called, taskQueue, ioTaskQueue>>
    BY <1>8 DEF IoTask, Held
  <2>2. opItem # event
    BY <2>1 DEF Apart, Held
  <2>3. Performed(opItem) # None
    BY <2>1, PerformedType
  <2>4. Held' = (Held \ {opItem}) \cup {Performed(opItem)}
    BY <2>1, <2>2, <2>3 DEF Held
  <2> QED
    BY <1>6, <2>1, <2>4
<1>9. CASE Resume
  <2>1. /\ event \in Held /\ event' = None
        /\ UNCHANGED <<awaits, called, taskQueue, ioTaskQueue, opItem>>
        /\ cpc' = [cpc EXCEPT ![event.co] = "running"]
    BY <1>9 DEF Resume, Held
  <2>2. opItem # event
    BY <2>1 DEF Apart, Held
  <2>3. Held' = Held \ {event} /\ Waiting' = Waiting
    BY <2>1, <2>2 DEF Held, Waiting
  <2>4. \A y \in (Held \ {event}) : y.co # event.co
    BY <2>1 DEF Apart, Held
  <2>5. AllTokens' = AllTokens \ {event} /\ \A y \in AllTokens' : y.co # event.co
    BY <2>1, <2>3, <2>4 DEF AllTokens, Apart
  <2>6. Apart'
    BY <2>1, <2>3 DEF Apart
  <2>7. event \in AllTokens /\ event.co \in Coroutines /\ cpc[event.co] = "suspended"
    BY <2>1 DEF AllTokens, Referred
  <2>8. Referred' /\ NotYetCalled'
    BY <2>1, <2>5, <2>7 DEF Referred, NotYetCalled
  <2> QED
    BY <2>6, <2>8 DEF TokensInv
<1>10. CASE IoDequeue
  <2>1. PICK x \in ioTaskQueue : opItem' = x /\ ioTaskQueue' = ioTaskQueue \ {x}
    BY <1>10 DEF IoDequeue
  <2>2. opItem = None /\ UNCHANGED <<cpc, awaits, called, taskQueue, event>>
    BY <1>10 DEF IoDequeue
  <2>3. Held' = Held \cup {x} /\ Waiting' = Waiting /\ x # None
    BY <2>1, <2>2 DEF Held, Waiting
  <2>4. AllTokens' = AllTokens
    BY <2>1, <2>3 DEF AllTokens
  <2>5. \A y \in Held : y.co # x.co
    BY <2>1 DEF Apart
  <2>6. event # None => event.co # x.co
    BY <2>5 DEF Held
  <2>7. /\ \A y \in Waiting', z \in (ioTaskQueue \cup Held)' : y.co # z.co
        /\ \A y \in ioTaskQueue', z \in Held' : y.co # z.co
    BY <2>1, <2>3 DEF Apart
  <2>8. Apart'
    BY <2>1, <2>2, <2>6, <2>7 DEF Apart
  <2> QED
    BY <2>2, <2>4, <2>8 DEF TokensInv, Referred, NotYetCalled
<1>11. CASE IoEnqueue
  <2>1. /\ opItem \in Held /\ opItem' = None /\ taskQueue' = Append(taskQueue, opItem)
        /\ UNCHANGED <<cpc, awaits, called, ioTaskQueue, event>>
    BY <1>11 DEF IoEnqueue, Held
  <2>2. Waiting' = Waiting \cup {opItem}
    BY <2>1, Enqueued
  <2>3. opItem # event
    BY <2>1 DEF Apart, Held
  <2>4. Held' = Held \ {opItem} /\ \A y \in Held' : y.co # opItem.co
    BY <2>1, <2>3 DEF Apart, Held
  <2>5. AllTokens' = AllTokens
    BY <2>1, <2>2, <2>4 DEF AllTokens
  <2>6. \A y \in Waiting : y.co # opItem.co
    BY <2>1 DEF Apart
  <2>8. \A i, j \in 1..Len(taskQueue') : taskQueue'[i].co = taskQueue'[j].co => i = j
    BY <2>1, <2>6, Enqueued
  <2>9. /\ \A y \in Waiting', z \in (ioTaskQueue \cup Held)' : y.co # z.co
        /\ \A y \in ioTaskQueue', z \in Held' : y.co # z.co
    BY <2>1, <2>2, <2>4 DEF Apart
  <2>10. Apart'
    BY <2>1, <2>8, <2>9 DEF Apart
  <2> QED
    BY <2>1, <2>5, <2>10 DEF TokensInv, Referred, NotYetCalled
<1> QED
  BY <1>1, <1>2, <1>3, <1>4, <1>5, <1>7, <1>8, <1>9, <1>10, <1>11
     DEF Next, MainThread, IoThread, Idle

\* The strengthened invariant holds in every reachable state.
THEOREM Inductive == Spec => []IInv
<1>1. Init => MainThreadOnly
  BY DEF Init, MainThreadOnly
<1>2. Init => IInv
  BY <1>1, TypeInit, TokensInit DEF IInv
<1>3. IInv /\ [Next]_vars => IInv'
  BY TypeStep, MainStep, TokensStep DEF IInv
<1> QED
  BY <1>2, <1>3, PTL DEF Spec

-----------------------------------------------------------------------------
\* A set with no two elements has one element or none.
LEMMA AtMostOne ==
    ASSUME NEW S, \A x, y \in S : x = y
    PROVE  Cardinality(S) = IF S = {} THEN 0 ELSE 1
<1>1. CASE S = {}
  BY <1>1, FS_EmptySet
<1>2. CASE S # {}
  <2>1. PICK x : S = {x}
    BY <1>2
  <2> QED
    BY <1>2, <2>1, FS_Singleton
<1> QED
  BY <1>1, <1>2

\* The tokens of a coroutine, counted place by place, are one or none.
LEMMA CountTokens == TypeOK /\ Apart /\ Referred => OneToken
<1> SUFFICES ASSUME TypeOK, Apart, Referred PROVE OneToken
  OBVIOUS
<1>1. ASSUME NEW c \in Coroutines
      PROVE  PlacesOf(c) = IF cpc[c] = "suspended" THEN 1 ELSE 0
  <2> DEFINE I == {x \in ioTaskQueue : x.co = c}
             e == event # None /\ event.co = c
             o == opItem # None /\ opItem.co = c
  <2>1. Cardinality(Queued(c)) = IF Queued(c) = {} THEN 0 ELSE 1
    <3>1. \A i, j \in Queued(c) : i = j
      BY DEF Queued, Apart
    <3> QED
      BY <3>1, AtMostOne
  <2>2. Cardinality(I) = IF I = {} THEN 0 ELSE 1
    <3>1. \A x, y \in I : x = y
      BY DEF Apart
    <3> QED
      BY <3>1, AtMostOne
  <2>3. e => event \in Held /\ event.co = c
    BY DEF Held
  <2>4. o => opItem \in Held /\ opItem.co = c
    BY DEF Held
  <2>5. Queued(c) # {} => \E x \in Waiting : x.co = c
    BY DEF Queued, Waiting
  <2>6. /\ Queued(c) # {} => I = {} /\ ~e /\ ~o
        /\ I # {} => ~e /\ ~o
        /\ ~(e /\ o)
    BY <2>3, <2>4, <2>5 DEF Apart
  <2>7. cpc[c] = "suspended" <=> (Queued(c) # {} \/ I # {} \/ e \/ o)
    BY DEF Referred, AllTokens, Waiting, Held, Queued
  <2>8. PlacesOf(c) = Cardinality(Queued(c)) + Cardinality(I)
                      + (IF e THEN 1 ELSE 0) + (IF o THEN 1 ELSE 0)
    BY DEF PlacesOf
  <2> HIDE DEF I, e, o
  <2> QED
    BY <2>1, <2>2, <2>6, <2>7, <2>8
<1>2. \A x \in Held \cup ioTaskQueue : x.at = awaits[x.co]
  BY DEF Referred, AllTokens
<1>3. \A i \in 1..Len(taskQueue) : taskQueue[i].at = awaits[taskQueue[i].co]
  BY DEF Referred, AllTokens, Waiting
<1> QED
  BY <1>1, <1>2, <1>3 DEF OneToken

\* No handle is resumed twice or lost, for every program of the coroutines.
THEOREM OneTokenEach == Spec => []OneToken
<1>1. IInv => OneToken
  BY CountTokens DEF IInv, TokensInv
<1> QED
  BY <1>1, Inductive, PTL

-----------------------------------------------------------------------------
\* The tokens whose operation has been executed.
Resumable == {x \in Held \cup Waiting : x.do = "resume"}

LEMMA ExecutedIs ==
    ASSUME NEW c
    PROVE  /\ Executed(c) <=> \E x \in Resumable : x.co = c
           /\ Executed(c)' <=> \E x \in Resumable' : x.co = c
BY DEF Executed, Resumable, Waiting

\* The phase of a coroutine depends on its state and on its resumable tokens.
LEMMA PhaseSame ==
    ASSUME NEW c \in Coroutines, cpc'[c] = cpc[c],
           (\E x \in Resumable' : x.co = c) <=> (\E x \in Resumable : x.co = c)
    PROVE  Phase(c)' = Phase(c)
BY ExecutedIs DEF Phase

phase == [c \in Coroutines |-> Phase(c)]

\* One coroutine changes its phase and the others keep theirs.
LEMMA PhaseChanges ==
    ASSUME NEW c \in Coroutines, NEW p, Phase(c)' = p,
           \A d \in Coroutines : d # c => Phase(d)' = Phase(d)
    PROVE  phase' = [phase EXCEPT ![c] = p]
BY DEF phase

\* The values and effects of the operations are the same in both modules.
LEMMA SameOps ==
    /\ \A op, d : AC!Value(op, d) = Value(op, d)
    /\ \A op, d : AC!Effect(op, d) = Effect(op, d)
BY DEF AC!Value, Value, AC!Effect, Effect

\* Between an execution and its resume, one thread has handed the token over.
LEMMA RefinesStep == IInv /\ [Next]_vars => [AC!Next]_(AC!vars)
<1> SUFFICES ASSUME IInv, [Next]_vars PROVE [AC!Next]_(AC!vars)
  OBVIOUS
<1>0. /\ TypeOK /\ MainThreadOnly /\ Apart /\ Referred /\ NotYetCalled
      /\ cpc \in [Coroutines -> {"unborn", "running", "suspended", "done"}]
      /\ Waiting \subseteq Tokens /\ ioTaskQueue \subseteq Tokens /\ Held \subseteq Tokens
      /\ \A x \in ioTaskQueue : x.do = "task"
  BY DEF IInv, TokensInv, TypeOK, Held, Waiting
<1>00. \A x \in Tokens : x.co \in Coroutines
  BY DEF Tokens
<1> USE <1>0, <1>00, AsyncppAssumption, NoneAssumption DEF frames, main, queues
<1>n. (\A c \in Coroutines : cpc[c] # "running") => AC!NobodyRuns
  BY DEF AC!NobodyRuns, Phase
<1>q. ASSUME UNCHANGED <<cpc, awaits, result, got, directory>>, Resumable' = Resumable
      PROVE  UNCHANGED AC!vars
  <2>1. \A c \in Coroutines : Phase(c)' = Phase(c)
    BY <1>q, PhaseSame
  <2> QED
    BY <1>q, <2>1 DEF AC!vars
<1>1. CASE StartIo \/ Suspended \/ EnterLoop \/ TaskThrows \/ IoTaskThrows \/ UNCHANGED vars
  <2>1. UNCHANGED <<cpc, awaits, result, got, directory, taskQueue, event, opItem>>
    BY <1>1 DEF StartIo, Suspended, EnterLoop, TaskThrows, IoTaskThrows, vars
  <2>2. Resumable' = Resumable
    BY <2>1 DEF Resumable, Waiting, Held
  <2> QED
    BY <2>1, <2>2, <1>q
<1>2. CASE Call
  <2>0. PICK c \in Coroutines : c = Order[called + 1] /\ cpc[c] = "unborn"
    BY <1>2 DEF Call, TypeOK, NotYetCalled
  <2>1. /\ UNCHANGED <<awaits, result, got, directory, taskQueue, event, opItem>>
        /\ cpc' = [cpc EXCEPT ![c] = "running"] /\ current = None
    BY <1>2, <2>0 DEF Call
  <2>3. Resumable' = Resumable
    BY <2>1 DEF Resumable, Waiting, Held
  <2>4. Phase(c) = "idle" /\ Phase(c)' = "running"
    BY <2>0, <2>1 DEF Phase
  <2>5. \A d \in Coroutines : d # c => Phase(d)' = Phase(d)
    BY <2>1, <2>3, PhaseSame
  <2>6. phase' = [phase EXCEPT ![c] = "running"]
    BY <2>4, <2>5, PhaseChanges
  <2>7. AC!NobodyRuns
    BY <2>1, <1>n DEF MainThreadOnly
  <2>8. AC!Start(c)
    BY <2>1, <2>4, <2>6, <2>7 DEF AC!Start, phase
  <2> QED
    BY <2>8 DEF AC!Next
<1>3. ASSUME NEW c \in Coroutines, Return(c) PROVE AC!Next
  <2>1. /\ UNCHANGED <<awaits, result, got, directory, taskQueue, event, opItem>>
        /\ cpc[c] = "running" /\ cpc' = [cpc EXCEPT ![c] = "done"]
        /\ awaits[c] = Len(Script[c])
    BY <1>3 DEF Return
  <2>2. Resumable' = Resumable
    BY <2>1 DEF Resumable, Waiting, Held
  <2>3. Phase(c) = "running" /\ Phase(c)' = "done"
    BY <2>1 DEF Phase
  <2>4. \A d \in Coroutines : d # c => Phase(d)' = Phase(d)
    BY <2>1, <2>2, PhaseSame
  <2>5. phase' = [phase EXCEPT ![c] = "done"]
    BY <2>3, <2>4, PhaseChanges
  <2>6. AC!Return(c)
    BY <2>1, <2>3, <2>5 DEF AC!Return, phase
  <2> QED
    BY <2>6 DEF AC!Next
<1>4. ASSUME NEW c \in Coroutines, Await(c) PROVE AC!Next
  <2> DEFINE x == [co |-> c, at |-> awaits[c] + 1, do |-> "task"]
  <2>1. /\ UNCHANGED <<result, got, directory, event, opItem>>
        /\ cpc[c] = "running" /\ cpc' = [cpc EXCEPT ![c] = "suspended"]
        /\ awaits[c] < Len(Script[c])
        /\ awaits' = [awaits EXCEPT ![c] = @ + 1]
        /\ taskQueue' = taskQueue \/ taskQueue' = Append(taskQueue, x)
    BY <1>4 DEF Await
  <2>2. x \in Tokens /\ x.do = "task"
    BY DEF Tokens, TypeOK
  <2> HIDE DEF x
  <2>3. Waiting' = Waiting \/ Waiting' = Waiting \cup {x}
    <3>1. CASE taskQueue' = taskQueue
      BY <3>1 DEF Waiting
    <3>2. CASE taskQueue' = Append(taskQueue, x)
      BY <2>2, <3>2, Enqueued
    <3> QED
      BY <2>1, <3>1, <3>2
  <2>4. Resumable' = Resumable
    BY <2>1, <2>2, <2>3 DEF Resumable, Held
  <2>5. ~\E y \in Resumable : y.co = c
    BY <2>1 DEF Resumable, Referred, AllTokens
  <2>6. Phase(c) = "running" /\ Phase(c)' = "awaiting"
    BY <2>1, <2>4, <2>5, ExecutedIs DEF Phase
  <2>7. \A d \in Coroutines : d # c => Phase(d)' = Phase(d)
    BY <2>1, <2>4, PhaseSame
  <2>8. phase' = [phase EXCEPT ![c] = "awaiting"]
    BY <2>6, <2>7, PhaseChanges
  <2>9. AC!Await(c)
    BY <2>1, <2>6, <2>8 DEF AC!Await, phase
  <2> QED
    BY <2>9 DEF AC!Next
<1>5. CASE Dequeue
  <2>1. event' \in Waiting /\ event' # None /\ Waiting' = Waiting \ {event'}
    BY <1>5, Dequeued
  <2>2. event = None /\ UNCHANGED <<cpc, awaits, result, got, directory, opItem>>
    BY <1>5 DEF Dequeue
  <2>3. Resumable' = Resumable
    BY <2>1, <2>2 DEF Resumable, Held
  <2> QED
    BY <2>2, <2>3, <1>q
<1>6. ASSUME NEW x \in Held, x.do = "task", Perform(x),
             Held' = (Held \ {x}) \cup {Performed(x)},
             UNCHANGED <<cpc, awaits, got, taskQueue>>
      PROVE  AC!Next
  <2> DEFINE c == x.co
  <2>1. /\ c \in Coroutines /\ cpc[c] = "suspended" /\ x.at = awaits[c]
        /\ Performed(x).co = c /\ Performed(x).do = "resume"
    BY <1>6 DEF Referred, AllTokens, Performed, Tokens
  <2>2. Resumable' = Resumable \cup {Performed(x)}
    BY <1>6, <2>1 DEF Resumable, Waiting
  <2>3. \A y \in Resumable : y.co # c
    BY <1>6 DEF Resumable, Apart, Held
  <2>4. Phase(c) = "awaiting" /\ Phase(c)' = "executed"
    BY <1>6, <2>1, <2>2, <2>3, ExecutedIs DEF Phase
  <2>5. \A d \in Coroutines : d # c => Phase(d)' = Phase(d)
    BY <1>6, <2>1, <2>2, PhaseSame
  <2>6. phase' = [phase EXCEPT ![c] = "executed"]
    BY <2>1, <2>4, <2>5, PhaseChanges
  <2>7. /\ result' = [result EXCEPT ![c] = AC!Value(Script[c][awaits[c]], directory)]
        /\ directory' = AC!Effect(Script[c][awaits[c]], directory)
    BY <1>6, <2>1, SameOps DEF Perform
  <2>8. AC!Execute(c)
    BY <1>6, <2>1, <2>4, <2>6, <2>7 DEF AC!Execute, phase
  <2> QED
    BY <2>1, <2>8 DEF AC!Next
<1>7. CASE RunTask
  <2>1. /\ event \in Held /\ event' = Performed(event) /\ opItem' = opItem
        /\ event.do = "task" /\ Perform(event)
        /\ UNCHANGED <<cpc, awaits, got, taskQueue>>
    BY <1>7 DEF RunTask, Held
  <2>2. opItem # event
    BY <2>1 DEF Apart, Held
  <2>3. Performed(event) # None
    BY <2>1, PerformedType
  <2>4. Held' = (Held \ {event}) \cup {Performed(event)}
    BY <2>1, <2>2, <2>3 DEF Held
  <2> QED
    BY <1>6, <2>1, <2>4
<1>8. CASE IoTask
  <2>1. /\ opItem \in Held /\ opItem' = Performed(opItem) /\ event' = event
        /\ opItem.do = "task" /\ Perform(opItem)
        /\ UNCHANGED <<cpc, awaits, got, taskQueue>>
    BY <1>8 DEF IoTask, Held
  <2>2. opItem # event
    BY <2>1 DEF Apart, Held
  <2>3. Performed(opItem) # None
    BY <2>1, PerformedType
  <2>4. Held' = (Held \ {opItem}) \cup {Performed(opItem)}
    BY <2>1, <2>2, <2>3 DEF Held
  <2> QED
    BY <1>6, <2>1, <2>4
<1>9. CASE Resume
  <2>0. PICK c \in Coroutines : c = event.co
    BY <1>9 DEF Resume, Held
  <2>1. /\ event \in Held /\ event' = None /\ event.do = "resume"
        /\ UNCHANGED <<awaits, result, taskQueue, opItem, directory>>
        /\ cpc' = [cpc EXCEPT ![c] = "running"]
        /\ got' = [got EXCEPT ![c] = Append(@, result[c])]
    BY <1>9, <2>0 DEF Resume, Held
  <2>2. c \in Coroutines /\ cpc[c] = "suspended" /\ event \in Resumable
    BY <2>0, <2>1 DEF Referred, AllTokens, Resumable
  <2>3. \A y \in Resumable : y # event => y.co # c
    BY <2>0, <2>1 DEF Resumable, Apart, Held
  <2>4. Resumable' = Resumable \ {event}
    <3>1. opItem # event
      BY <2>1 DEF Apart, Held
    <3>2. Held' = Held \ {event} /\ Waiting' = Waiting
      BY <2>1, <3>1 DEF Held, Waiting
    <3>3. event \notin Waiting
      BY <2>1 DEF Apart
    <3> QED
      BY <3>2, <3>3 DEF Resumable
  <2>5. Phase(c) = "executed" /\ Phase(c)' = "running"
    BY <2>0, <2>1, <2>2, ExecutedIs DEF Phase
  <2>6. \A d \in Coroutines : d # c => Phase(d)' = Phase(d)
    BY <2>0, <2>1, <2>2, <2>4, PhaseSame
  <2>7. phase' = [phase EXCEPT ![c] = "running"]
    BY <2>2, <2>5, <2>6, PhaseChanges
  <2>8. current = None
    BY <1>9 DEF Resume, TypeOK
  <2>9. AC!NobodyRuns
    BY <2>8, <1>n DEF MainThreadOnly
  <2>10. AC!Resume(c)
    BY <2>1, <2>2, <2>5, <2>7, <2>9 DEF AC!Resume, phase
  <2> QED
    BY <2>2, <2>10 DEF AC!Next
<1>10. CASE IoDequeue
  <2>1. PICK x \in ioTaskQueue : opItem' = x
    BY <1>10 DEF IoDequeue
  <2>2. opItem = None /\ UNCHANGED <<cpc, awaits, result, got, directory, taskQueue, event>>
    BY <1>10 DEF IoDequeue
  <2>3. Held' = Held \cup {x} /\ Waiting' = Waiting
    BY <2>1, <2>2 DEF Held, Waiting
  <2>4. Resumable' = Resumable
    BY <2>1, <2>3 DEF Resumable
  <2> QED
    BY <2>2, <2>4, <1>q
<1>11. CASE IoEnqueue
  <2>1. /\ opItem \in Held /\ opItem' = None /\ taskQueue' = Append(taskQueue, opItem)
        /\ UNCHANGED <<cpc, awaits, result, got, directory, event>>
    BY <1>11 DEF IoEnqueue, Held
  <2>2. Waiting' = Waiting \cup {opItem}
    BY <2>1, Enqueued
  <2>3. opItem # event
    BY <2>1 DEF Apart, Held
  <2>4. Held' = Held \ {opItem}
    BY <2>1, <2>3 DEF Held
  <2>5. Resumable' = Resumable
    BY <2>1, <2>2, <2>4 DEF Resumable
  <2> QED
    BY <2>1, <2>5, <1>q
<1> QED
  BY <1>1, <1>2, <1>3, <1>4, <1>5, <1>7, <1>8, <1>9, <1>10, <1>11
     DEF Next, MainThread, IoThread, Idle

\* The two threads and their queues keep the promise of co_await: an operation
\* is executed once, while its coroutine waits, and its value is delivered.
THEOREM Refinement == Spec => ImplementsAwaitedCalls
<1>1. Init => AC!Init
  <2>1. Init => \A c \in Coroutines : Phase(c) = "idle"
    BY DEF Init, Phase
  <2> QED
    BY <2>1 DEF Init, AC!Init
<1> QED
  BY <1>1, Inductive, RefinesStep, PTL DEF Spec, ImplementsAwaitedCalls, AC!Spec
==============================================================================
