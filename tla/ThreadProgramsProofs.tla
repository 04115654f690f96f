------------------------- MODULE ThreadProgramsProofs -------------------------
(***************************************************************************)
(* The small multi-threaded programs, for every number of turns.  Each has *)
(* an invariant of its own, over the labels its threads can be at together *)
(* and what they have made of the lock and the memory by then; a program's *)
(* tables are read entry by entry, and a step of a thread is the effect of *)
(* its entry (ReadLocks to Promises below).                                *)
(***************************************************************************)
EXTENDS ThreadPrograms, SequenceTheorems, TLAPS

\* What the threads share, typed as far as every program keeps it.
Cells == {"value", "temp", "success", "tid", "handle", "exited", "stopped", "turn", "done",
          "f1", "f2", "f3", "file", "dir", "leaf1", "leaf2", "leaf3"}
Mutexes == [writer : Threads \cup {"none"}, readers : SUBSET Threads,
            waiting : SUBSET Threads, alive : BOOLEAN]
Typed ==
    /\ pc \in [Threads -> Int]
    /\ reg = [t \in Threads |-> reg[t]]
    /\ turns \in [Threads -> Nat]
    /\ lock \in Mutexes
    /\ mem = [c \in Cells |-> mem[c]]
    /\ obj \in [Threads -> {"none", "joinable", "done", "detached"}]
    /\ over \in {"no", "exit", "terminate", "crash"}

-----------------------------------------------------------------------------
(* What each program keeps.                                                *)

\* The increments a writer has made, and where it stands.
Counted(t) == turns[t] + (IF pc[t] \in {4, 5} THEN 1 ELSE 0)
Writing(t) ==
    /\ pc[t] \in {-2} \cup 0..5
    /\ pc[t] = -2 => turns[t] = 0
    /\ pc[t] \in 1..5 => turns[t] < Loops
    /\ pc[t] = 0 => turns[t] = Loops
    /\ pc[t] \in {2, 3, 4} <=> lock.writer = t
    /\ pc[t] = 3 => reg[t] = mem.value

\* Main has made thread t at label n and joins it, once it has returned, at label k.
Managed(t, n, k) ==
    /\ pc["main"] <= n => obj[t] = "none"
    /\ pc["main"] \in (n + 1)..k => obj[t] = "joinable"
    /\ pc["main"] > k => pc[t] = 0
    /\ obj[t] = "none" => pc[t] = -2

\* A program whose main gives up when it cannot create a thread.
Strict == over \in {"no", "exit", "terminate"} /\ (over = "terminate" => failed # {})

\* Readers under an exclusive lock, and under a shared one.
Reading(t) ==
    /\ pc[t] \in {-2} \cup 0..5
    /\ pc[t] \in {2, 3} <=> lock.writer = t
    /\ pc[t] \in {3, 4} => reg[t] \in 0..Loops
Sharing(t) ==
    /\ pc[t] \in {-2} \cup 0..5
    /\ pc[t] \in {2, 3} <=> t \in lock.readers
    /\ lock.writer # t
    /\ pc[t] \in {3, 4} => reg[t] \in 0..Loops

Compared ==
    /\ Writing("t3")
    /\ mem.value = Counted("t3") /\ mem.temp \in 0..Loops
    /\ Strict
    /\ over = "no" =>
          /\ pc["main"] \in 1..10
          /\ Managed("t1", 1, 4) /\ Managed("t2", 2, 5) /\ Managed("t3", 3, 6)
          /\ pc["main"] \in 9..10 => reg["main"] = Loops

test_mutexInv ==
    /\ code = test_mutex /\ Typed
    /\ Reading("t1") /\ Reading("t2") /\ Compared
    /\ lock.readers = {}
    /\ over = "no" => (pc["main"] \in 8..9 <=> lock.writer = "main")

test_shared_mutexInv ==
    /\ code = test_shared_mutex /\ Typed
    /\ Sharing("t1") /\ Sharing("t2") /\ Compared
    /\ lock.writer # "main"

c11mutexInv ==
    /\ code = c11mutex /\ Typed
    /\ Writing("t1") /\ Writing("t2") /\ pc["t3"] = -2
    /\ lock.readers = {} /\ lock.writer # "main"
    /\ mem.value = Counted("t1") + Counted("t2")
    /\ Strict
    /\ over = "no" =>
          /\ pc["main"] \in 1..6
          /\ Managed("t1", 1, 3) /\ Managed("t2", 2, 4)
          /\ pc["main"] = 6 => reg["main"] = 2 * Loops

\* The workers of normal_mutex never return.
Working(t) ==
    /\ pc[t] \in {-2} \cup 1..7
    /\ pc[t] \in 2..5 <=> lock.writer = t
    /\ pc[t] = 3 => reg[t] = mem.value
    /\ pc[t] = 4 => mem.value = reg[t] + 1

normal_mutexInv ==
    /\ code = normal_mutex /\ Typed
    /\ Working("t1") /\ Working("t2") /\ Working("t3")
    /\ lock.readers = {} /\ lock.writer # "main"
    /\ mem.value \in Int
    /\ over \in {"no", "exit", "crash"}
    /\ over = "crash" => "create" \in failed
    /\ over = "no" =>
          /\ pc["main"] \in 1..7
          /\ pc["main"] <= 1 => obj["t1"] = "none"
          /\ pc["main"] <= 2 => obj["t2"] = "none"
          /\ pc["main"] <= 3 => obj["t3"] = "none"
          /\ pc["main"] > 1 => obj["t1"] = "joinable" \/ "create" \in failed
          /\ pc["main"] > 2 => obj["t2"] = "joinable" \/ "create" \in failed
          /\ pc["main"] > 3 => obj["t3"] = "joinable" \/ "create" \in failed
          /\ \A t \in {"t1", "t2", "t3"} : obj[t] = "none" => pc[t] = -2

\* A thread of the group, which main starts from label n on: nobody else can
\* have raised the flag main has cleared before it.
Reporting(t, n) ==
    /\ pc[t] \in {-2} \cup 1..5
    /\ pc[t] \in 2..4 <=> lock.writer = t
    /\ pc["main"] \in (n + 1)..(n + 4) /\ mem.success => pc[t] \in 3..5
    /\ pc["main"] >= n + 5 => pc[t] = 5
    /\ pc["main"] \in 1..(n + 1) => obj[t] = "none" /\ pc[t] = -2
    /\ pc["main"] > n + 1 => obj[t] = "joinable"

makesurethreadgroupInv ==
    /\ code = makesurethreadgroup /\ Typed
    /\ Reporting("t1", 1) /\ Reporting("t2", 7) /\ Reporting("t3", 13)
    /\ mem.success \in BOOLEAN
    /\ lock.readers = {}
    /\ pc["main"] \in {-1} \cup 1..19
    /\ pc["main"] \in {4, 5, 6, 10, 11, 12, 16, 17, 18} <=> lock.writer = "main"
    /\ Strict

test_two_lockInv ==
    /\ code = test_two_lock /\ Typed
    /\ pc["t1"] = -2 /\ pc["t2"] = -2 /\ pc["t3"] = -2
    /\ pc["main"] \in 0..3
    /\ over \in {"no", "exit"}

destroy_locked_mutexInv ==
    /\ code = destroy_locked_mutex /\ Typed
    /\ pc["t1"] = -2 /\ pc["t2"] = -2 /\ pc["t3"] = -2
    /\ over \in {"no", "exit"}
    /\ pc["main"] \in 0..4
    /\ pc["main"] \in 2..3 <=> lock.writer = "main"
    /\ pc["main"] \notin 2..3 => lock.writer = "none"
    /\ lock.readers = {}
    /\ pc["main"] = 0 <=> over = "exit"
    /\ lock.alive <=> over = "no"

\* What the thread has left in the file when it has returned.
FileLeft ==
    \/ mem.file = "new"
    \/ mem.file \in {"absent", "old"} /\ "fopen_w" \in failed
    \/ mem.file \in {"part", "empty"} /\ "fclose" \in failed
Filing ==
    /\ pc["t2"] = -2 /\ pc["t3"] = -2
    /\ pc["t1"] \in {-2} \cup 0..2
    /\ pc["t1"] \in {-2, 1} => mem.file \in {"absent", "old"}
    /\ pc["t1"] = 0 => FileLeft
    /\ Strict
    /\ over = "no" =>
          /\ pc["main"] \in 1..5
          /\ Managed("t1", 1, 2)
          /\ pc["main"] = 4 => mem.file # "absent"
          /\ pc["main"] = 5 => reg["main"] = mem.file /\ mem.file \notin {"absent", "empty"}
thread_joinInv == code = thread_join /\ Typed /\ Filing
std_thread_joinInv == code = std_thread_join /\ Typed /\ Filing

Alone1 == pc["t1"] \in {-2, 1} /\ pc["t2"] = -2 /\ pc["t3"] = -2

thread_get_idInv ==
    /\ code = thread_get_id /\ Typed /\ Alone1
    /\ over \in {"no", "exit", "crash"}
    /\ over = "crash" => "create" \in failed
    /\ over = "no" =>
          /\ pc["main"] \in 1..3
          /\ pc["main"] = 1 => obj["t1"] = "none"
          /\ pc["main"] > 1 => obj["t1"] = "joinable" \/ "create" \in failed

cpp11_thread_idInv ==
    /\ code = cpp11_thread_id /\ Typed /\ Alone1
    /\ Strict
    /\ over = "no" => pc["main"] \in 1..2 /\ (pc["main"] = 1 => obj["t1"] = "none")

funcInv ==
    /\ code = func /\ Typed /\ Alone1
    /\ over \in {"no", "exit", "terminate"}
    /\ over = "no" => pc["main"] \in 1..2

func_currentInv ==
    /\ code = func_current /\ Typed /\ Alone1
    /\ Strict
    /\ over = "no" => pc["main"] \in 1..3 /\ (pc["main"] = 1 => obj["t1"] = "none")

\* The handle is zero before the first Create, and again only after a failed one.
CThreadInv ==
    /\ code = CThread /\ Typed
    /\ pc["t1"] \in {-2} \cup 0..3 /\ pc["t2"] = -2 /\ pc["t3"] = -2
    /\ mem.exited \in BOOLEAN
    /\ pc["t1"] = 0 => mem.exited
    /\ obj["t1"] = "done" => pc["t1"] = 0
    /\ over \in {"no", "terminate", "crash"}
    /\ over = "terminate" => failed # {}
    /\ over = "no" =>
          /\ pc["main"] \in 1..8
          /\ pc["main"] = 3 => mem.handle = "zero"
          /\ pc["main"] = 7 => failed # {}
          /\ failed = {} /\ obj["t1"] # "none" => pc["main"] = 4 \/ mem.handle = "t1"

ThreadInv ==
    /\ code = Thread /\ Typed
    /\ pc["t1"] \in {-2, 0, 1} /\ pc["t2"] = -2 /\ pc["t3"] = -2
    /\ mem.stopped \in BOOLEAN
    /\ pc["t1"] = 1 => obj["t1"] = "joinable"
    /\ over \in {"no", "terminate"}
    /\ over = "no" =>
          /\ pc["main"] \in 1..6
          /\ pc["main"] = 3 => ~mem.stopped
          /\ mem.stopped /\ pc["main"] # 5 => pc["t1"] # 1

\* One of the threads, its directory and its promise.
Making(t, leaf, f) ==
    /\ pc[t] \in {-2, -1} \cup 0..5
    /\ mem[leaf] \in {"absent", "dir"}
    /\ mem[f] \in {"none", "value", "exception"}
    /\ pc[t] \in {0, 3} => mem[leaf] = "dir"
    /\ pc[t] = 0 => mem[f] = "value"
    /\ mem[f] = "value" => pc[t] = 0
    /\ pc[t] \in {-2} \cup 1..4 => mem[f] = "none"
    /\ pc[t] = 5 => mem[f] = "exception"
    /\ pc[t] \in 4..5 \/ mem[f] = "exception" => failed # {}
FutureFileSystemInv ==
    /\ code = FutureFileSystem /\ Typed
    /\ Making("t1", "leaf1", "f1") /\ Making("t2", "leaf2", "f2") /\ Making("t3", "leaf3", "f3")
    /\ Strict
    /\ over = "no" =>
          /\ pc["main"] \in 1..13
          /\ Managed("t1", 1, 10) /\ Managed("t2", 2, 11) /\ Managed("t3", 3, 12)
          /\ failed # {} => \E t \in {"t1", "t2", "t3"} : pc[t] \in 4..5
          /\ pc["main"] > 7 => mem.f1 = "value"
          /\ pc["main"] > 8 => mem.f2 = "value"
          /\ pc["main"] > 9 => mem.f3 = "value"
    /\ over = "exit" =>
          /\ failed = {}
          /\ mem.f1 = "value" /\ mem.f2 = "value" /\ mem.f3 = "value"

\* The coroutine and main take turns.
GeneratorInv ==
    /\ code = Generator /\ Typed
    /\ pc["t2"] = -2 /\ pc["t3"] = -2 /\ obj["t1"] = "none"
    /\ over \in {"no", "exit"}
    /\ over = "no" =>
          /\ pc["main"] \in 1..6 /\ pc["t1"] \in {-2} \cup 0..6
          /\ mem.done \in BOOLEAN /\ (mem.done <=> pc["t1"] \in {0, 6})
          /\ mem.turn \in {"t1", "main"}
          /\ pc["main"] = 1 <=> pc["t1"] = -2
          /\ pc["main"] \notin {1, 2} => mem.turn = "main"
          /\ pc["t1"] \notin {0, 3} => mem.turn = "t1"
          /\ pc["t1"] = 0 => mem.turn = "main" /\ pc["main"] \in {2, 3, 6}
          /\ pc["main"] = 6 => pc["t1"] = 0
          /\ pc["t1"] \in {-2} \cup 1..4 => turns["t1"] < Loops
          /\ pc["t1"] \in {0, 5, 6} => turns["t1"] = Loops
          /\ pc["t1"] = 2 => mem.value = turns["t1"]
          /\ pc["t1"] = 3 /\ pc["main"] \in 2..4 /\ mem.turn = "main" => mem.value = turns["t1"]
          /\ mem.temp = turns["t1"] + (IF \/ pc["t1"] = 4
                                          \/ pc["t1"] = 3 /\ (mem.turn = "t1" \/ pc["main"] = 5)
                                       THEN 1 ELSE 0)

\* Each program its own.
Kept ==
    /\ prog \in DOMAIN Table
    /\ prog = "test_shared_mutex" => test_shared_mutexInv
    /\ prog = "test_mutex" => test_mutexInv
    /\ prog = "c11mutex" => c11mutexInv
    /\ prog = "normal_mutex" => normal_mutexInv
    /\ prog = "makesurethreadgroup" => makesurethreadgroupInv
    /\ prog = "test_two_lock" => test_two_lockInv
    /\ prog = "destroy_locked_mutex" => destroy_locked_mutexInv
    /\ prog = "thread_join" => thread_joinInv
    /\ prog = "std_thread_join" => std_thread_joinInv
    /\ prog = "thread_get_id" => thread_get_idInv
    /\ prog = "cpp11_thread_id" => cpp11_thread_idInv
    /\ prog = "func" => funcInv
    /\ prog = "func_current" => func_currentInv
    /\ prog = "CThread" => CThreadInv
    /\ prog = "Thread" => ThreadInv
    /\ prog = "FutureFileSystem" => FutureFileSystemInv
    /\ prog = "Generator" => GeneratorInv

-----------------------------------------------------------------------------
(* What a thread does at an entry.                                         *)

Moves(t, label) ==
    /\ pc' = [pc EXCEPT ![t] = label]
    /\ over' = IF label = -1 THEN "terminate"
               ELSE IF label = 0 /\ t = "main" THEN "exit" ELSE over
    /\ UNCHANGED <<prog, code>>

LEMMA GotoIs == ASSUME NEW t, NEW label, Goto(t, label) PROVE Moves(t, label)
BY DEF Goto, Moves, Terminate

\* Which action an entry is.
LEMMA ByOp ==
    ASSUME NEW t, Execute(t)
    PROVE  LET op == Entry(t).op IN
           /\ Runs(t)
           /\ op = "read_lock" => acquireReadLock(t)
           /\ op = "write_lock" => acquireWriteLock(t)
           /\ op = "read_unlock" => unlockReadLock(t)
           /\ op = "write_unlock" => unlockWriteLock(t)
           /\ op = "cv_wait" => Wait(t)
           /\ op = "notify_all" => NotifyAll(t)
           /\ op = "destroy" => Destroy(t)
           /\ op = "load" => Load(t)
           /\ op \in {"store", "store_next", "store_turn", "print_next", "set", "garble"}
                 => Store(t)
           /\ op \in {"is", "await", "any", "print", "print_time", "report"} => Jump(t)
           /\ op = "again" => Again(t)
           /\ op = "create" => Create(t) \/ Error(t)
           /\ op = "call" => Create(t)
           /\ op \in {"join", "join_if"} => Join(t)
           /\ op \in {"drop", "detach"} => Drop(t)
           /\ op = "fopen_w" => OpenFile(t) \/ Error(t)
           /\ op = "fopen_r" => OpenFile(t) \/ Error(t)
           /\ op = "fread" => ReadFile(t) \/ Error(t)
           /\ op = "fclose" => CloseFile(t)
           /\ op = "mkdir" => MakeDirectory(t) \/ Error(t)
           /\ op = "set_value" => SetValue(t)
           /\ op = "set_exception" => SetException(t)
           /\ op \in {"wait", "get"} => Future(t)
           /\ op # "rest"
BY DEF Execute, acquireReadLock, acquireWriteLock, unlockReadLock, unlockWriteLock, Wait,
   NotifyAll,
       Destroy, Load, Store, Jump, Again, Create, Join, Drop, OpenFile, ReadFile, CloseFile,
       MakeDirectory, SetValue, SetException, Future, Error, At

\* What each entry does.
LEMMA ReadLocks ==
    ASSUME NEW t, Execute(t), Entry(t).op = "read_lock"
    PROVE  /\ lock.writer = "none"
           /\ lock' = [lock EXCEPT !.readers = @ \cup {t}]
           /\ Moves(t, Entry(t).next) /\ UNCHANGED <<reg, turns, mem, obj, failed>>
<1>1. acquireReadLock(t)
  BY ByOp
<1> QED
  BY <1>1, GotoIs DEF acquireReadLock, Held, Step

LEMMA WriteLocks ==
    ASSUME NEW t, Execute(t), Entry(t).op = "write_lock"
    PROVE  /\ lock.writer = "none" /\ lock.readers = {} /\ t \notin lock.waiting
           /\ lock' = [lock EXCEPT !.writer = t]
           /\ Moves(t, Entry(t).next) /\ UNCHANGED <<reg, turns, mem, obj, failed>>
<1>1. acquireWriteLock(t)
  BY ByOp
<1> QED
  BY <1>1, GotoIs DEF acquireWriteLock, Held, Step

LEMMA ReadUnlocks ==
    ASSUME NEW t, Execute(t), Entry(t).op = "read_unlock"
    PROVE  /\ lock' = [lock EXCEPT !.readers = @ \ {t}]
           /\ Moves(t, Entry(t).next) /\ UNCHANGED <<reg, turns, mem, obj, failed>>
<1>1. unlockReadLock(t)
  BY ByOp
<1> QED
  BY <1>1, GotoIs DEF unlockReadLock, Held, Step

LEMMA WriteUnlocks ==
    ASSUME NEW t, Execute(t), Entry(t).op = "write_unlock"
    PROVE  /\ lock' = [lock EXCEPT !.writer = "none"]
           /\ Moves(t, Entry(t).next) /\ UNCHANGED <<reg, turns, mem, obj, failed>>
<1>1. unlockWriteLock(t)
  BY ByOp
<1> QED
  BY <1>1, GotoIs DEF unlockWriteLock, Held, Step

LEMMA Waits ==
    ASSUME lock \in Mutexes, NEW t, Execute(t), Entry(t).op = "cv_wait"
    PROVE  /\ lock'.writer = "none" /\ lock'.readers = lock.readers
           /\ Moves(t, Entry(t).next) /\ UNCHANGED <<reg, turns, mem, obj, failed>>
<1>1. Wait(t)
  BY ByOp
<1>2. lock'.writer = "none" /\ lock'.readers = lock.readers
  BY <1>1 DEF Wait, Held, Mutexes
<1> QED
  BY <1>1, <1>2, GotoIs DEF Wait, Held, Step

LEMMA Notifies ==
    ASSUME NEW t, Execute(t), Entry(t).op = "notify_all"
    PROVE  /\ lock' = [lock EXCEPT !.waiting = {}]
           /\ Moves(t, Entry(t).next) /\ UNCHANGED <<reg, turns, mem, obj, failed>>
<1>1. NotifyAll(t)
  BY ByOp
<1> QED
  BY <1>1, GotoIs DEF NotifyAll, Held, Step

LEMMA Destroys ==
    ASSUME lock \in Mutexes, NEW t, Execute(t), Entry(t).op = "destroy"
    PROVE  /\ lock'.alive <=> lock.writer # "none" \/ lock.readers # {}
           /\ UNCHANGED <<lock.writer, lock.readers, lock.waiting>>
           /\ Moves(t, Entry(t).next) /\ UNCHANGED <<reg, turns, mem, obj, failed>>
<1>1. Destroy(t)
  BY ByOp
<1> DEFINE b == lock.writer # "none" \/ lock.readers # {}
<1>2. lock' = [lock EXCEPT !.alive = b]
  BY <1>1 DEF Destroy, Held
<1>3. Moves(t, Entry(t).next) /\ UNCHANGED <<reg, turns, mem, obj, failed>>
  BY <1>1, GotoIs DEF Destroy, Held, Step
<1> HIDE DEF b
<1>4. lock'.alive = b /\ UNCHANGED <<lock.writer, lock.readers, lock.waiting>>
  BY <1>2 DEF Mutexes
<1> QED
  BY <1>3, <1>4 DEF b

LEMMA Loads ==
    ASSUME NEW t, Execute(t), Entry(t).op = "load"
    PROVE  /\ Moves(t, Entry(t).next)
           /\ reg' = [reg EXCEPT ![t] = mem[Entry(t).arg]]
           /\ UNCHANGED <<turns, lock, mem, obj, failed>>
<1>1. Load(t)
  BY ByOp
<1> QED
  BY <1>1, GotoIs DEF Load, Step, Arg

LEMMA Writes ==
    ASSUME NEW t, Execute(t),
           Entry(t).op \in {"store", "store_next", "store_turn", "print_next", "set", "garble"}
    PROVE  Moves(t, Entry(t).next) /\ UNCHANGED <<reg, turns, lock, obj, failed>>
<1>1. Store(t)
  BY ByOp
<1> QED
  BY <1>1, GotoIs DEF Store, Step, Written

LEMMA Stores ==
    ASSUME NEW t, Execute(t), Entry(t).op = "store"
    PROVE  /\ mem' = [mem EXCEPT ![Entry(t).arg] = reg[t]]
           /\ Moves(t, Entry(t).next) /\ UNCHANGED <<reg, turns, lock, obj, failed>>
<1>1. Store(t)
  BY ByOp
<1> QED
  BY <1>1, Writes DEF Store, Written, Arg, At

LEMMA StoresNext ==
    ASSUME NEW t, Execute(t), Entry(t).op = "store_next"
    PROVE  /\ mem' = [mem EXCEPT ![Entry(t).arg] = reg[t] + 1]
           /\ Moves(t, Entry(t).next) /\ UNCHANGED <<reg, turns, lock, obj, failed>>
<1>1. Store(t)
  BY ByOp
<1> QED
  BY <1>1, Writes DEF Store, Written, Arg, At

LEMMA StoresTurn ==
    ASSUME NEW t, Execute(t), Entry(t).op = "store_turn"
    PROVE  /\ mem' = [mem EXCEPT ![Entry(t).arg] = turns[t]]
           /\ Moves(t, Entry(t).next) /\ UNCHANGED <<reg, turns, lock, obj, failed>>
<1>1. Store(t)
  BY ByOp
<1> QED
  BY <1>1, Writes DEF Store, Written, Arg, At

LEMMA PrintsNext ==
    ASSUME NEW t, Execute(t), Entry(t).op = "print_next"
    PROVE  /\ mem' = [mem EXCEPT !.temp = @ + 1]
           /\ Moves(t, Entry(t).next) /\ UNCHANGED <<reg, turns, lock, obj, failed>>
<1>1. Store(t)
  BY ByOp
<1> QED
  BY <1>1, Writes DEF Store, Written, Arg, At

LEMMA Garbles ==
    ASSUME NEW t, Execute(t), Entry(t).op = "garble"
    PROVE  /\ mem' = [mem EXCEPT ![Entry(t).arg] = mem'[Entry(t).arg]]
           /\ Moves(t, Entry(t).next) /\ UNCHANGED <<reg, turns, lock, obj, failed>>
<1>1. Store(t)
  BY ByOp
<1>2. DOMAIN mem = DOMAIN mem' /\ \A c \in DOMAIN mem : c # Entry(t).arg => mem'[c] = mem[c]
  BY <1>1 DEF Store, Written, Arg, At
<1> QED
  BY <1>1, <1>2, Writes DEF Store, Written, Arg, At

LEMMA Sets ==
    ASSUME mem = [c \in Cells |-> mem[c]], NEW t, Execute(t), Entry(t).op = "set",
           NEW c \in Cells, NEW v, DOMAIN Entry(t).arg = {c}, Entry(t).arg[c] = v
    PROVE  /\ mem' = [mem EXCEPT ![c] = v]
           /\ Moves(t, Entry(t).next) /\ UNCHANGED <<reg, turns, lock, obj, failed>>
<1>1. Store(t)
  BY ByOp
<1>2. mem' = [d \in DOMAIN mem |-> IF d \in DOMAIN Entry(t).arg THEN Entry(t).arg[d]
                                   ELSE mem[d]]
  BY <1>1 DEF Store, Written, Arg, At
<1>3. DOMAIN mem = Cells
  OBVIOUS
<1> QED
  BY <1>2, <1>3, Writes

LEMMA Jumps ==
    ASSUME NEW t, Execute(t),
           Entry(t).op \in {"is", "await", "any", "print", "print_time", "report"}
    PROVE  LET e == Entry(t) IN
           /\ UNCHANGED <<reg, turns, lock, mem, obj, failed>>
           /\ e.op = "is" => Moves(t, IF Matches(t) THEN e.next ELSE e.else)
           /\ e.op = "await" => Matches(t) /\ Moves(t, e.next)
           /\ e.op = "any" => \E label \in e.arg : Moves(t, label)
           /\ e.op \in {"print", "print_time", "report"} => Moves(t, e.next)
<1>1. Jump(t)
  BY ByOp
<1>2. UNCHANGED <<reg, turns, lock, mem, obj, failed>>
  BY <1>1 DEF Jump
<1> QED
  BY <1>1, <1>2, GotoIs DEF Jump, Step, Arg, At

LEMMA Turns ==
    ASSUME NEW t, Execute(t), Entry(t).op = "again"
    PROVE  /\ turns' = [turns EXCEPT ![t] = @ + 1]
           /\ Moves(t, IF turns[t] + 1 < Loops THEN Entry(t).next ELSE Entry(t).else)
           /\ UNCHANGED <<reg, lock, mem, obj, failed>>
<1>1. Again(t)
  BY ByOp
<1> QED
  BY <1>1, GotoIs DEF Again

LEMMA Creates ==
    ASSUME NEW t, Execute(t), Entry(t).op \in {"create", "call"}
    PROVE  LET e == Entry(t) IN
           /\ \/ /\ obj[e.arg] = "joinable" /\ pc' = pc /\ over' = "terminate" /\ obj' = obj
                 /\ failed' = failed
              \/ /\ obj[e.arg] # "joinable" /\ failed' = failed
                 /\ pc' = [pc EXCEPT ![t] = e.next, ![e.arg] = 1] /\ over' = over
                 /\ obj' = IF e.op = "create" THEN [obj EXCEPT ![e.arg] = "joinable"] ELSE obj
              \/ /\ e.op = "create" /\ failed' = failed \cup {"create"}
                 /\ Moves(t, e.else) /\ obj' = obj
           /\ UNCHANGED <<prog, code, reg, turns, lock, mem>>
<1>1. Create(t) \/ (Entry(t).op = "create" /\ Error(t))
  BY ByOp
<1>2. CASE Create(t)
  BY <1>2, ByOp DEF Create, Born, Arg, At
<1>3. CASE Entry(t).op = "create" /\ Error(t)
  <2>1. Moves(t, Entry(t).else) /\ failed' = failed \cup {"create"}
    BY <1>3, GotoIs DEF Error, Fail
  <2> QED
    BY <1>3, <2>1 DEF Error, Moves
<1> QED
  BY <1>1, <1>2, <1>3

LEMMA Joins ==
    ASSUME NEW t, Execute(t), Entry(t).op \in {"join", "join_if"}
    PROVE  LET e == Entry(t) IN
           /\ \/ /\ obj[e.arg] = "joinable" /\ pc[e.arg] = 0
                 /\ obj' = [obj EXCEPT ![e.arg] = "done"] /\ Moves(t, e.next)
              \/ obj[e.arg] # "joinable" /\ Moves(t, e.next) /\ obj' = obj
              \/ /\ e.op = "join" /\ obj[e.arg] # "joinable"
                 /\ over' = "crash" /\ UNCHANGED <<prog, code, pc, obj>>
           /\ UNCHANGED <<reg, turns, lock, mem, failed>>
<1>1. Join(t)
  BY ByOp
<1> QED
  BY <1>1, GotoIs DEF Join, Step, Arg, At

LEMMA Drops ==
    ASSUME NEW t, Execute(t), Entry(t).op \in {"drop", "detach"}
    PROVE  LET e == Entry(t) IN
           /\ e.op = "drop" => /\ Moves(t, IF obj[e.arg] = "joinable" THEN Terminate ELSE e.next)
                               /\ obj' = obj
           /\ e.op = "detach" => Moves(t, e.next) /\ obj' = [obj EXCEPT ![e.arg] = "detached"]
           /\ UNCHANGED <<reg, turns, lock, mem, failed>>
<1>1. Drop(t)
  BY ByOp
<1> QED
  BY <1>1, GotoIs DEF Drop, Step, Arg, At

LEMMA Files ==
    ASSUME NEW t, Execute(t), Entry(t).op \in {"fopen_w", "fopen_r", "fread", "fclose"}
    PROVE  LET e == Entry(t) IN
           /\ UNCHANGED <<turns, lock, obj>>
           /\ e.op # "fread" => reg' = reg
           /\ e.op = "fopen_w" =>
                 \/ mem' = [mem EXCEPT !.file = "empty"] /\ failed' = failed /\ Moves(t, e.next)
                 \/ mem' = mem /\ failed' = failed \cup {"fopen_w"} /\ Moves(t, e.else)
           /\ e.op = "fopen_r" =>
                 /\ mem' = mem
                 /\ \/ /\ failed' = failed
                       /\ Moves(t, IF mem.file = "absent" THEN e.else ELSE e.next)
                    \/ failed' = failed \cup {"fopen_r"} /\ Moves(t, e.else)
           /\ e.op = "fread" =>
                 /\ mem' = mem
                 /\ \/ /\ failed' = failed /\ reg' = [reg EXCEPT ![t] = mem.file]
                       /\ Moves(t, IF mem.file = "empty" THEN e.else ELSE e.next)
                    \/ reg' = reg /\ failed' = failed \cup {"fread"} /\ Moves(t, e.else)
           /\ e.op = "fclose" =>
                 /\ Moves(t, e.next)
                 /\ \E content \in {"new", "part", "empty"} :
                       /\ mem' = [mem EXCEPT !.file = content]
                       /\ failed' = IF content = "new" THEN failed ELSE failed \cup {"fclose"}
<1> DEFINE e == Entry(t)
<1>1. CASE e.op = "fclose"
  <2>1. CloseFile(t)
    BY <1>1, ByOp
  <2> QED
    BY <1>1, <2>1, GotoIs DEF CloseFile, Step
<1>2. CASE e.op = "fread" /\ ReadFile(t)
  BY <1>2, GotoIs DEF ReadFile
<1>3. CASE e.op \in {"fopen_w", "fopen_r"} /\ OpenFile(t)
  BY <1>3, GotoIs DEF OpenFile, Written, Step, At
<1>4. CASE e.op \in {"fopen_w", "fopen_r", "fread"} /\ Error(t)
  BY <1>4, GotoIs DEF Error, Fail
<1>5. e.op = "fread" => ReadFile(t) \/ Error(t)
  BY ByOp
<1>6. e.op \in {"fopen_w", "fopen_r"} => OpenFile(t) \/ Error(t)
  BY ByOp
<1> QED
  BY <1>1, <1>2, <1>3, <1>4, <1>5, <1>6

LEMMA Promises ==
    ASSUME NEW t, Execute(t),
           Entry(t).op \in {"mkdir", "set_value", "set_exception", "wait", "get"}
    PROVE  LET e == Entry(t)
               new == mem[e.arg] = "none" IN
           /\ UNCHANGED <<reg, turns, lock, obj>>
           /\ e.op # "mkdir" => failed' = failed
           /\ e.op = "mkdir" =>
                 \/ /\ mem[e.arg] # "file" /\ mem' = [mem EXCEPT ![e.arg] = "dir"]
                    /\ failed' = failed /\ Moves(t, e.next)
                 \/ mem' = mem /\ failed' = failed \cup {"mkdir"} /\ Moves(t, e.else)
           /\ e.op = "set_value" =>
                 /\ mem' = IF new THEN [mem EXCEPT ![e.arg] = "value"] ELSE mem
                 /\ Moves(t, IF new THEN e.next ELSE e.else)
           /\ e.op = "set_exception" =>
                 mem' = [mem EXCEPT ![e.arg] = "exception"] /\ Moves(t, e.next)
           /\ e.op \in {"wait", "get"} =>
                 /\ mem' = mem /\ ~new
                 /\ Moves(t, IF e.op = "get" /\ mem[e.arg] = "exception" THEN e.else ELSE e.next)
<1> DEFINE e == Entry(t)
<1>1. CASE e.op = "mkdir" /\ MakeDirectory(t)
  BY <1>1, GotoIs DEF MakeDirectory, Written, Step, Arg
<1>2. CASE e.op = "mkdir" /\ Error(t)
  BY <1>2, GotoIs DEF Error, Fail
<1>3. CASE e.op = "set_value"
  <2>1. SetValue(t)
    BY <1>3, ByOp
  <2> QED
    BY <1>3, <2>1, GotoIs DEF SetValue, Written, Arg
<1>4. CASE e.op = "set_exception"
  <2>1. SetException(t)
    BY <1>4, ByOp
  <2> QED
    BY <1>4, <2>1, GotoIs DEF SetException, Written, Arg, Step
<1>5. CASE e.op \in {"wait", "get"}
  <2>1. Future(t)
    BY <1>5, ByOp
  <2> QED
    BY <1>5, <2>1, GotoIs, ByOp DEF Future, Arg, At
<1>6. e.op = "mkdir" => MakeDirectory(t) \/ Error(t)
  BY ByOp
<1> QED
  BY <1>1, <1>2, <1>3, <1>4, <1>5, <1>6

\* What an entry asks of one cell.
LEMMA Matches_success ==
    ASSUME NEW t, NEW v, Entry(t).arg = [success |-> v] PROVE Matches(t) <=> mem.success = v
BY DEF Matches, Arg

LEMMA Matches_stopped ==
    ASSUME NEW t, NEW v, Entry(t).arg = [stopped |-> v] PROVE Matches(t) <=> mem.stopped = v
BY DEF Matches, Arg

LEMMA Matches_turn ==
    ASSUME NEW t, NEW v, Entry(t).arg = [turn |-> v] PROVE Matches(t) <=> mem.turn = v
BY DEF Matches, Arg

LEMMA Matches_done ==
    ASSUME NEW t, NEW v, Entry(t).arg = [done |-> v] PROVE Matches(t) <=> mem.done = v
BY DEF Matches, Arg

LEMMA Matches_handle ==
    ASSUME NEW t, NEW v, Entry(t).arg = [handle |-> v] PROVE Matches(t) <=> mem.handle = v
BY DEF Matches, Arg

LEMMA Wakeups ==
    ASSUME Typed, SpuriousWakeup
    PROVE  /\ lock'.writer = lock.writer /\ lock'.readers = lock.readers
           /\ lock'.alive <=> lock.alive
           /\ UNCHANGED <<prog, code, pc, reg, turns, mem, obj, failed, over>>
BY DEF SpuriousWakeup, Held, Typed, Mutexes

\* Where every program starts.
LEMMA Starts ==
    ASSUME Init
    PROVE  /\ code = Table[prog] /\ over = "no" /\ failed = {}
           /\ \A t \in Threads : /\ pc[t] = IF t = "main" THEN 1 ELSE -2
                                 /\ turns[t] = 0 /\ obj[t] = "none"
           /\ lock.writer = "none" /\ lock.readers = {} /\ lock.alive
           /\ mem.value = 0 /\ mem.temp = 0 /\ ~mem.success /\ mem.success \in BOOLEAN
           /\ mem.handle = "zero" /\ ~mem.exited /\ mem.exited \in BOOLEAN
           /\ ~mem.stopped /\ mem.stopped \in BOOLEAN
           /\ mem.turn = "t1" /\ ~mem.done /\ mem.done \in BOOLEAN
           /\ mem.f1 = "none" /\ mem.f2 = "none" /\ mem.f3 = "none"
           /\ mem.leaf1 = "absent" /\ mem.leaf2 = "absent" /\ mem.leaf3 = "absent"
           /\ mem.file \in {"absent", "old"}
<1>1. mem \in Memory(prog)
  BY DEF Init
<1>2. /\ mem.value = 0 /\ mem.temp = 0 /\ mem.success \in {FALSE}
      /\ mem.handle = "zero" /\ mem.exited \in {FALSE}
      /\ mem.stopped \in {FALSE}
      /\ mem.turn = "t1" /\ mem.done \in {FALSE}
      /\ mem.f1 = "none" /\ mem.f2 = "none" /\ mem.f3 = "none"
      /\ mem.leaf1 = "absent" /\ mem.leaf2 = "absent" /\ mem.leaf3 = "absent"
      /\ mem.file \in {"absent", "old"}
  BY <1>1 DEF Memory
<1>3. lock.writer = "none" /\ lock.readers = {} /\ lock.alive
  BY DEF Init
<1>4. /\ code = Table[prog] /\ over = "no" /\ failed = {}
      /\ \A t \in Threads : /\ pc[t] = IF t = "main" THEN 1 ELSE -2
                            /\ turns[t] = 0 /\ obj[t] = "none"
  BY DEF Init, Unborn
<1> QED
  BY <1>2, <1>3, <1>4

-----------------------------------------------------------------------------
(* Every step keeps the types.                                             *)

LEMMA TypedStep ==
    ASSUME Typed, NEW t \in Threads, Execute(t),
           Entry(t).next \in Int, Entry(t).else \in Int,
           Entry(t).op = "any" => Entry(t).arg \subseteq Int
    PROVE  Typed'
<1> DEFINE Plain == UNCHANGED <<reg, turns, mem, obj>>
<1>1. ASSUME NEW n \in Int, Moves(t, n)
      PROVE  pc' \in [Threads -> Int] /\ over' \in {"no", "exit", "terminate", "crash"}
  BY <1>1 DEF Typed, Moves
<1>2. ASSUME NEW n \in Int, Goto(t, n)
      PROVE  pc' \in [Threads -> Int] /\ over' \in {"no", "exit", "terminate", "crash"}
  BY <1>1, <1>2, GotoIs
<1>3. Step(t) => pc' \in [Threads -> Int] /\ over' \in {"no", "exit", "terminate", "crash"}
  BY <1>2 DEF Step
<1>4. CASE acquireReadLock(t) \/ acquireWriteLock(t) \/ unlockReadLock(t) \/ unlockWriteLock(t)
           \/ Wait(t) \/ NotifyAll(t) \/ Destroy(t)
  <2>1. Step(t) /\ UNCHANGED <<reg, turns, mem, obj>>
    BY <1>4 DEF acquireReadLock, acquireWriteLock, unlockReadLock, unlockWriteLock, Wait,
       NotifyAll, Destroy, Held
  <2>2. lock' \in Mutexes
    <3>1. lock \in Mutexes
      BY DEF Typed
    <3>2. CASE acquireReadLock(t) \/ acquireWriteLock(t) \/ unlockReadLock(t) \/ unlockWriteLock(t)
      BY <3>1, <3>2 DEF acquireReadLock, acquireWriteLock, unlockReadLock, unlockWriteLock,
         Held, Mutexes
    <3>3. CASE Wait(t)
      BY <3>1, <3>3 DEF Wait, Held, Mutexes
    <3>4. CASE NotifyAll(t)
      BY <3>1, <3>4 DEF NotifyAll, Held, Mutexes
    <3>5. CASE Destroy(t)
      <4> DEFINE b == lock.writer # "none" \/ lock.readers # {}
      <4>1. lock' = [lock EXCEPT !.alive = b] /\ b \in BOOLEAN
        BY <3>5 DEF Destroy, Held
      <4> HIDE DEF b
      <4> QED
        BY <3>1, <4>1 DEF Mutexes
    <3> QED
      BY <1>4, <3>2, <3>3, <3>4, <3>5
  <2> QED
    BY <1>3, <2>1, <2>2 DEF Typed
<1>5. CASE Load(t)
  BY <1>3, <1>5 DEF Load, Typed
<1>6. CASE Store(t)
  <2>1. Step(t) /\ UNCHANGED <<reg, turns, lock, obj>>
    BY <1>6 DEF Store, Written
  <2>2. mem' = [c \in Cells |-> mem'[c]]
    BY <1>6 DEF Store, Written, Typed
  <2> QED
    BY <1>3, <2>1, <2>2 DEF Typed
<1>7. CASE Jump(t)
  <2>1. UNCHANGED <<reg, turns, lock, mem, obj>>
    BY <1>7 DEF Jump
  <2>2. \E n \in Int : Goto(t, n)
    BY <1>7 DEF Jump, Step, At, Arg
  <2> QED
    BY <1>2, <2>1, <2>2 DEF Typed
<1>8. CASE Again(t)
  <2>1. \E n \in Int : Goto(t, n)
    BY <1>8 DEF Again
  <2>2. turns' \in [Threads -> Nat]
    BY <1>8 DEF Again, Typed
  <2> QED
    BY <1>2, <1>8, <2>1, <2>2 DEF Again, Typed
<1>9. CASE Create(t)
  <2>1. pc' \in [Threads -> Int] /\ over' \in {"no", "exit", "terminate", "crash"}
    BY <1>9 DEF Create, Born, Typed
  <2> QED
    BY <1>9, <2>1 DEF Create, Typed
<1>10. CASE Join(t)
  <2>1. pc' \in [Threads -> Int] /\ over' \in {"no", "exit", "terminate", "crash"}
    BY <1>3, <1>10 DEF Join, Typed
  <2>2. obj' \in [Threads -> {"none", "joinable", "done", "detached"}]
    BY <1>10 DEF Join, Typed
  <2> QED
    BY <1>10, <2>1, <2>2 DEF Join, Typed
<1>11. CASE Drop(t)
  <2>1. \E n \in Int : Goto(t, n)
    BY <1>11 DEF Drop, Step, Terminate
  <2> QED
    BY <1>2, <1>11, <2>1 DEF Drop, Typed
<1>12. CASE OpenFile(t)
  <2>1. \E n \in Int : Goto(t, n)
    BY <1>12 DEF OpenFile, Step
  <2> QED
    BY <1>2, <1>12, <2>1 DEF OpenFile, Written, Typed
<1>13. CASE ReadFile(t)
  <2>1. \E n \in Int : Goto(t, n)
    BY <1>13 DEF ReadFile
  <2> QED
    BY <1>2, <1>13, <2>1 DEF ReadFile, Typed
<1>14. CASE CloseFile(t)
  BY <1>3, <1>14 DEF CloseFile, Typed
<1>15. CASE MakeDirectory(t)
  BY <1>3, <1>15 DEF MakeDirectory, Written, Typed
<1>16. CASE SetValue(t)
  <2>1. \E n \in Int : Goto(t, n)
    BY <1>16 DEF SetValue
  <2> QED
    BY <1>2, <1>16, <2>1 DEF SetValue, Written, Typed
<1>17. CASE SetException(t)
  BY <1>3, <1>17 DEF SetException, Written, Typed
<1>18. CASE Future(t)
  <2>1. \E n \in Int : Goto(t, n)
    BY <1>18 DEF Future
  <2> QED
    BY <1>2, <1>18, <2>1 DEF Future, Typed
<1>19. CASE Error(t)
  <2>1. \E n \in Int : Goto(t, n)
    BY <1>19 DEF Error, Fail
  <2> QED
    BY <1>2, <1>19, <2>1 DEF Error, Typed
<1> QED
  BY <1>4, <1>5, <1>6, <1>7, <1>8, <1>9, <1>10, <1>11, <1>12, <1>13, <1>14, <1>15, <1>16, <1>17,
     <1>18, <1>19 DEF Execute

LEMMA TypedWakeup == Typed /\ SpuriousWakeup => Typed'
<1> SUFFICES ASSUME Typed, SpuriousWakeup PROVE Typed'
  OBVIOUS
<1>1. lock \in Mutexes /\ lock' \in Mutexes
  BY DEF SpuriousWakeup, Held, Typed, Mutexes
<1> QED
  BY <1>1 DEF SpuriousWakeup, Held, Typed

LEMMA TypedInit == Init => Typed
<1> SUFFICES ASSUME Init PROVE Typed
  OBVIOUS
<1>1. mem = [c \in Cells |-> mem[c]]
  BY DEF Init, Memory, Cells
<1>2. lock \in Mutexes
  BY DEF Init, Mutexes
<1>3. pc \in [Threads -> Int] /\ reg = [t \in Threads |-> reg[t]]
  BY DEF Init, Unborn
<1> QED
  BY <1>1, <1>2, <1>3 DEF Init, Typed

-----------------------------------------------------------------------------
(* The tables, entry by entry.                                             *)

IsTuple(s, n) == s = [i \in 1..n |-> s[i]]
IsJoined(r, s, n, u, m) ==
    /\ IsTuple(r, n + m)
    /\ \A i \in 1..(n + m) : r[i] = IF i <= n THEN s[i] ELSE u[i - n]

LEMMA JoinedIs ==
    ASSUME NEW n \in Nat, NEW m \in Nat, NEW s, NEW u, IsTuple(s, n), IsTuple(u, m)
    PROVE  IsJoined(s \o u, s, n, u, m)
<1> DEFINE T == {s[i] : i \in 1..n} \cup {u[i] : i \in 1..m}
<1>1. s \in Seq(T) /\ Len(s) = n
  BY DEF IsTuple
<1>2. u \in Seq(T) /\ Len(u) = m
  BY DEF IsTuple
<1> HIDE DEF T
<1>3. s \o u \in Seq(T) /\ Len(s \o u) = n + m
  BY <1>1, <1>2
<1>4. \A i \in 1..(n + m) : (s \o u)[i] = IF i <= n THEN s[i] ELSE u[i - n]
  BY <1>1, <1>2
<1> QED
  BY <1>1, <1>3, <1>4 DEF IsTuple, IsJoined

LEMMA WriterIs ==
    LET r == Writer(increment) IN
    /\ r[1] = Do("write_lock", "m", 2)
    /\ r[2] = Do("load", "value", 3)
    /\ r[3] = Do("store_next", "value", 4)
    /\ r[4] = Do("write_unlock", "m", 5)
    /\ r[5] = Or("again", "none", 1, 0)
<1> DEFINE s == increment
           u == <<Or("again", "none", 1, 0)>>
           r == s \o u
<1>s.
      /\ s[1] = Do("write_lock", "m", 2)
      /\ s[2] = Do("load", "value", 3)
      /\ s[3] = Do("store_next", "value", 4)
      /\ s[4] = Do("write_unlock", "m", 5)
  BY DEF increment
<1>u. u[1] = Or("again", "none", 1, 0)
  OBVIOUS
<1>1. IsTuple(s, 4) /\ IsTuple(u, 1)
  BY DEF IsTuple, increment
<1>2. 1 \in Nat /\ 4 \in Nat
  OBVIOUS
<1> HIDE DEF s, u
<1>3. IsJoined(r, s, 4, u, 1)
  BY <1>1, <1>2, JoinedIs, Zenon
<1> HIDE DEF r
<1>4.
      /\ r[1] = s[1] /\ r[2] = s[2] /\ r[3] = s[3] /\ r[4] = s[4] /\ r[5] = u[1]
  BY <1>3 DEF IsJoined, IsTuple
<1>5. Writer(increment) = r
  BY Zenon DEF r, s, u, Writer
<1> QED
  BY <1>4, <1>5, <1>s, <1>u

LEMMA ReaderIs ==
    LET r == Reader(get) IN
    /\ r[1] = Do("read_lock", "m", 2)
    /\ r[2] = Do("load", "value", 3)
    /\ r[3] = Do("read_unlock", "m", 4)
    /\ r[4] = Do("store", "temp", 5)
    /\ r[5] = Or("again", "none", 1, 0)
<1> DEFINE s == get
           u == <<Do("store", "temp", 5), Or("again", "none", 1, 0)>>
           r == s \o u
<1>s.
      /\ s[1] = Do("read_lock", "m", 2)
      /\ s[2] = Do("load", "value", 3)
      /\ s[3] = Do("read_unlock", "m", 4)
  BY DEF get
<1>u.
      /\ u[1] = Do("store", "temp", 5)
      /\ u[2] = Or("again", "none", 1, 0)
  OBVIOUS
<1>1. IsTuple(s, 3) /\ IsTuple(u, 2)
  BY DEF IsTuple, get
<1>2. 2 \in Nat /\ 3 \in Nat
  OBVIOUS
<1> HIDE DEF s, u
<1>3. IsJoined(r, s, 3, u, 2)
  BY <1>1, <1>2, JoinedIs, Zenon
<1> HIDE DEF r
<1>4.
      /\ r[1] = s[1] /\ r[2] = s[2] /\ r[3] = s[3] /\ r[4] = u[1] /\ r[5] = u[2]
  BY <1>3 DEF IsJoined, IsTuple
<1>5. Reader(get) = r
  BY Zenon DEF r, s, u, Reader
<1> QED
  BY <1>4, <1>5, <1>s, <1>u

LEMMA ExclusiveReaderIs ==
    LET r == Reader(get_exclusive) IN
    /\ r[1] = Do("write_lock", "m", 2)
    /\ r[2] = Do("load", "value", 3)
    /\ r[3] = Do("write_unlock", "m", 4)
    /\ r[4] = Do("store", "temp", 5)
    /\ r[5] = Or("again", "none", 1, 0)
<1> DEFINE s == get_exclusive
           u == <<Do("store", "temp", 5), Or("again", "none", 1, 0)>>
           r == s \o u
<1>s.
      /\ s[1] = Do("write_lock", "m", 2)
      /\ s[2] = Do("load", "value", 3)
      /\ s[3] = Do("write_unlock", "m", 4)
  BY DEF get_exclusive
<1>u.
      /\ u[1] = Do("store", "temp", 5)
      /\ u[2] = Or("again", "none", 1, 0)
  OBVIOUS
<1>1. IsTuple(s, 3) /\ IsTuple(u, 2)
  BY DEF IsTuple, get_exclusive
<1>2. 2 \in Nat /\ 3 \in Nat
  OBVIOUS
<1> HIDE DEF s, u
<1>3. IsJoined(r, s, 3, u, 2)
  BY <1>1, <1>2, JoinedIs, Zenon
<1> HIDE DEF r
<1>4.
      /\ r[1] = s[1] /\ r[2] = s[2] /\ r[3] = s[3] /\ r[4] = u[1] /\ r[5] = u[2]
  BY <1>3 DEF IsJoined, IsTuple
<1>5. Reader(get_exclusive) = r
  BY Zenon DEF r, s, u, Reader
<1> QED
  BY <1>4, <1>5, <1>s, <1>u

LEMMA test_shared_mutexMain ==
    LET r == test_shared_mutex["main"] IN
    /\ r[1] = Or("create", "t1", 2, -1)
    /\ r[2] = Or("create", "t2", 3, -1)
    /\ r[3] = Or("create", "t3", 4, -1)
    /\ r[4] = Do("join", "t1", 5)
    /\ r[5] = Do("join", "t2", 6)
    /\ r[6] = Do("join", "t3", 7)
    /\ r[7] = Do("read_lock", "m", 8)
    /\ r[8] = Do("load", "value", 9)
    /\ r[9] = Do("read_unlock", "m", 10)
    /\ r[10] = Do("report", "none", 0)
<1> DEFINE s == ForAll("create", <<"t1", "t2", "t3">>, 1, Throws)
           u == ForAll("join", <<"t1", "t2", "t3">>, 4, Ignored)
           v == [k \in 1..3 |-> Do(get[k].op, get[k].arg, k + 7)]
           w == <<Do("report", "none", 0)>>
           p == s \o u
           q == p \o v
           r == q \o w
<1>s.
      /\ s[1] = Or("create", "t1", 2, -1)
      /\ s[2] = Or("create", "t2", 3, -1)
      /\ s[3] = Or("create", "t3", 4, -1)
  BY DEF ForAll, Throws, Do, Or, Terminate
<1>u.
      /\ u[1] = Do("join", "t1", 5)
      /\ u[2] = Do("join", "t2", 6)
      /\ u[3] = Do("join", "t3", 7)
  BY DEF ForAll, Ignored, Do, Or
<1>v.
      /\ v[1] = Do("read_lock", "m", 8)
      /\ v[2] = Do("load", "value", 9)
      /\ v[3] = Do("read_unlock", "m", 10)
  BY DEF get, Do, Or
<1>w. w[1] = Do("report", "none", 0)
  OBVIOUS
<1>1. IsTuple(s, 3) /\ IsTuple(u, 3) /\ IsTuple(v, 3) /\ IsTuple(w, 1)
  BY DEF IsTuple, ForAll, Throws, Do, Or, Terminate, Ignored, get
<1>2. 1 \in Nat /\ 3 \in Nat /\ 6 \in Nat /\ 9 \in Nat
  OBVIOUS
<1> HIDE DEF s, u, v, w
<1>3. IsJoined(p, s, 3, u, 3)
  BY <1>1, <1>2, JoinedIs, Zenon
<1>4. IsTuple(p, 6)
  BY <1>3 DEF IsJoined
<1>5. IsJoined(q, p, 6, v, 3)
  BY <1>1, <1>2, <1>4, JoinedIs, Zenon
<1>6. IsTuple(q, 9)
  BY <1>5 DEF IsJoined
<1>7. IsJoined(r, q, 9, w, 1)
  BY <1>1, <1>2, <1>6, JoinedIs, Zenon
<1> HIDE DEF p, q, r
<1>8.
      /\ r[1] = s[1] /\ r[2] = s[2] /\ r[3] = s[3] /\ r[4] = u[1] /\ r[5] = u[2]
      /\ r[6] = u[3] /\ r[7] = v[1] /\ r[8] = v[2] /\ r[9] = v[3] /\ r[10] = w[1]
  BY <1>3, <1>5, <1>7 DEF IsJoined, IsTuple
<1>9. test_shared_mutex["main"] = r
  BY Zenon DEF r, p, q, s, u, v, w, test_shared_mutex, Comparison
<1> QED
  BY <1>8, <1>9, <1>s, <1>u, <1>v, <1>w

LEMMA test_mutexMain ==
    LET r == test_mutex["main"] IN
    /\ r[1] = Or("create", "t1", 2, -1)
    /\ r[2] = Or("create", "t2", 3, -1)
    /\ r[3] = Or("create", "t3", 4, -1)
    /\ r[4] = Do("join", "t1", 5)
    /\ r[5] = Do("join", "t2", 6)
    /\ r[6] = Do("join", "t3", 7)
    /\ r[7] = Do("write_lock", "m", 8)
    /\ r[8] = Do("load", "value", 9)
    /\ r[9] = Do("write_unlock", "m", 10)
    /\ r[10] = Do("report", "none", 0)
<1> DEFINE s == ForAll("create", <<"t1", "t2", "t3">>, 1, Throws)
           u == ForAll("join", <<"t1", "t2", "t3">>, 4, Ignored)
           v == [k \in 1..3 |-> Do(get_exclusive[k].op, get_exclusive[k].arg, k + 7)]
           w == <<Do("report", "none", 0)>>
           p == s \o u
           q == p \o v
           r == q \o w
<1>s.
      /\ s[1] = Or("create", "t1", 2, -1)
      /\ s[2] = Or("create", "t2", 3, -1)
      /\ s[3] = Or("create", "t3", 4, -1)
  BY DEF ForAll, Throws, Do, Or, Terminate
<1>u.
      /\ u[1] = Do("join", "t1", 5)
      /\ u[2] = Do("join", "t2", 6)
      /\ u[3] = Do("join", "t3", 7)
  BY DEF ForAll, Ignored, Do, Or
<1>v.
      /\ v[1] = Do("write_lock", "m", 8)
      /\ v[2] = Do("load", "value", 9)
      /\ v[3] = Do("write_unlock", "m", 10)
  BY DEF get_exclusive, Do, Or
<1>w. w[1] = Do("report", "none", 0)
  OBVIOUS
<1>1. IsTuple(s, 3) /\ IsTuple(u, 3) /\ IsTuple(v, 3) /\ IsTuple(w, 1)
  BY DEF IsTuple, ForAll, Throws, Do, Or, Terminate, Ignored, get_exclusive
<1>2. 1 \in Nat /\ 3 \in Nat /\ 6 \in Nat /\ 9 \in Nat
  OBVIOUS
<1> HIDE DEF s, u, v, w
<1>3. IsJoined(p, s, 3, u, 3)
  BY <1>1, <1>2, JoinedIs, Zenon
<1>4. IsTuple(p, 6)
  BY <1>3 DEF IsJoined
<1>5. IsJoined(q, p, 6, v, 3)
  BY <1>1, <1>2, <1>4, JoinedIs, Zenon
<1>6. IsTuple(q, 9)
  BY <1>5 DEF IsJoined
<1>7. IsJoined(r, q, 9, w, 1)
  BY <1>1, <1>2, <1>6, JoinedIs, Zenon
<1> HIDE DEF p, q, r
<1>8.
      /\ r[1] = s[1] /\ r[2] = s[2] /\ r[3] = s[3] /\ r[4] = u[1] /\ r[5] = u[2]
      /\ r[6] = u[3] /\ r[7] = v[1] /\ r[8] = v[2] /\ r[9] = v[3] /\ r[10] = w[1]
  BY <1>3, <1>5, <1>7 DEF IsJoined, IsTuple
<1>9. test_mutex["main"] = r
  BY Zenon DEF r, p, q, s, u, v, w, test_mutex, Comparison
<1> QED
  BY <1>8, <1>9, <1>s, <1>u, <1>v, <1>w

LEMMA c11mutexMain ==
    LET r == c11mutex["main"] IN
    /\ r[1] = Or("create", "t1", 2, -1)
    /\ r[2] = Or("create", "t2", 3, -1)
    /\ r[3] = Do("join", "t1", 4)
    /\ r[4] = Do("join", "t2", 5)
    /\ r[5] = Do("load", "value", 6)
    /\ r[6] = Do("report", "none", 0)
<1> DEFINE s == ForAll("create", <<"t1", "t2">>, 1, Throws)
           u == ForAll("join", <<"t1", "t2">>, 3, Ignored)
           v == <<Do("load", "value", 6), Do("report", "none", 0)>>
           p == s \o u
           r == p \o v
<1>s.
      /\ s[1] = Or("create", "t1", 2, -1)
      /\ s[2] = Or("create", "t2", 3, -1)
  BY DEF ForAll, Throws, Do, Or, Terminate
<1>u.
      /\ u[1] = Do("join", "t1", 4)
      /\ u[2] = Do("join", "t2", 5)
  BY DEF ForAll, Ignored, Do, Or
<1>v.
      /\ v[1] = Do("load", "value", 6)
      /\ v[2] = Do("report", "none", 0)
  OBVIOUS
<1>1. IsTuple(s, 2) /\ IsTuple(u, 2) /\ IsTuple(v, 2)
  BY DEF IsTuple, ForAll, Throws, Do, Or, Terminate, Ignored
<1>2. 2 \in Nat /\ 4 \in Nat
  OBVIOUS
<1> HIDE DEF s, u, v
<1>3. IsJoined(p, s, 2, u, 2)
  BY <1>1, <1>2, JoinedIs, Zenon
<1>4. IsTuple(p, 4)
  BY <1>3 DEF IsJoined
<1>5. IsJoined(r, p, 4, v, 2)
  BY <1>1, <1>2, <1>4, JoinedIs, Zenon
<1> HIDE DEF p, r
<1>6.
      /\ r[1] = s[1] /\ r[2] = s[2] /\ r[3] = u[1] /\ r[4] = u[2] /\ r[5] = v[1]
      /\ r[6] = v[2]
  BY <1>3, <1>5 DEF IsJoined, IsTuple
<1>7. c11mutex["main"] = r
  BY Zenon DEF r, p, s, u, v, c11mutex
<1> QED
  BY <1>6, <1>7, <1>s, <1>u, <1>v

LEMMA normal_mutexMain ==
    LET r == normal_mutex["main"] IN
    /\ r[1] = Do("create", "t1", 2)
    /\ r[2] = Do("create", "t2", 3)
    /\ r[3] = Do("create", "t3", 4)
    /\ r[4] = Do("join", "t1", 5)
    /\ r[5] = Do("join", "t2", 6)
    /\ r[6] = Do("join", "t3", 7)
    /\ r[7] = Do("destroy", "m", 0)
<1> DEFINE s == ForAll("create", <<"t1", "t2", "t3">>, 1, Ignored)
           u == ForAll("join", <<"t1", "t2", "t3">>, 4, Ignored)
           v == <<Do("destroy", "m", 0)>>
           p == s \o u
           r == p \o v
<1>s.
      /\ s[1] = Do("create", "t1", 2)
      /\ s[2] = Do("create", "t2", 3)
      /\ s[3] = Do("create", "t3", 4)
  BY DEF ForAll, Ignored, Do, Or
<1>u.
      /\ u[1] = Do("join", "t1", 5)
      /\ u[2] = Do("join", "t2", 6)
      /\ u[3] = Do("join", "t3", 7)
  BY DEF ForAll, Ignored, Do, Or
<1>v. v[1] = Do("destroy", "m", 0)
  OBVIOUS
<1>1. IsTuple(s, 3) /\ IsTuple(u, 3) /\ IsTuple(v, 1)
  BY DEF IsTuple, ForAll, Ignored, Do, Or
<1>2. 1 \in Nat /\ 3 \in Nat /\ 6 \in Nat
  OBVIOUS
<1> HIDE DEF s, u, v
<1>3. IsJoined(p, s, 3, u, 3)
  BY <1>1, <1>2, JoinedIs, Zenon
<1>4. IsTuple(p, 6)
  BY <1>3 DEF IsJoined
<1>5. IsJoined(r, p, 6, v, 1)
  BY <1>1, <1>2, <1>4, JoinedIs, Zenon
<1> HIDE DEF p, r
<1>6.
      /\ r[1] = s[1] /\ r[2] = s[2] /\ r[3] = s[3] /\ r[4] = u[1] /\ r[5] = u[2]
      /\ r[6] = u[3] /\ r[7] = v[1]
  BY <1>3, <1>5 DEF IsJoined, IsTuple
<1>7. normal_mutex["main"] = r
  BY Zenon DEF r, p, s, u, v, normal_mutex
<1> QED
  BY <1>6, <1>7, <1>s, <1>u, <1>v

LEMMA makesurethreadgroupMain ==
    LET r == makesurethreadgroup["main"] IN
    /\ r[1] = Do("set", [success |-> FALSE], 2)
    /\ r[2] = Or("create", "t1", 3, -1)
    /\ r[3] = Do("write_lock", "m", 4)
    /\ r[4] = Or("is", [success |-> TRUE], 6, 5)
    /\ r[5] = Do("cv_wait", "m", 3)
    /\ r[6] = Do("write_unlock", "m", 7)
    /\ r[7] = Do("set", [success |-> FALSE], 8)
    /\ r[8] = Or("create", "t2", 9, -1)
    /\ r[9] = Do("write_lock", "m", 10)
    /\ r[10] = Or("is", [success |-> TRUE], 12, 11)
    /\ r[11] = Do("cv_wait", "m", 9)
    /\ r[12] = Do("write_unlock", "m", 13)
    /\ r[13] = Do("set", [success |-> FALSE], 14)
    /\ r[14] = Or("create", "t3", 15, -1)
    /\ r[15] = Do("write_lock", "m", 16)
    /\ r[16] = Or("is", [success |-> TRUE], 18, 17)
    /\ r[17] = Do("cv_wait", "m", 15)
    /\ r[18] = Do("write_unlock", "m", 19)
    /\ r[19] = Do("join", "t1", 20)
    /\ r[20] = Do("join", "t2", 21)
    /\ r[21] = Do("join", "t3", 22)
<1> DEFINE s == StartUp("t1", 1)
           u == StartUp("t2", 7)
           v == StartUp("t3", 13)
           w == ForAll("join", <<"t1", "t2", "t3">>, 19, Ignored)
           p == s \o u
           q == p \o v
           r == q \o w
<1>s.
      /\ s[1] = Do("set", [success |-> FALSE], 2)
      /\ s[2] = Or("create", "t1", 3, -1)
      /\ s[3] = Do("write_lock", "m", 4)
      /\ s[4] = Or("is", [success |-> TRUE], 6, 5)
      /\ s[5] = Do("cv_wait", "m", 3)
      /\ s[6] = Do("write_unlock", "m", 7)
  BY DEF StartUp, Do, Or, Terminate
<1>u.
      /\ u[1] = Do("set", [success |-> FALSE], 8)
      /\ u[2] = Or("create", "t2", 9, -1)
      /\ u[3] = Do("write_lock", "m", 10)
      /\ u[4] = Or("is", [success |-> TRUE], 12, 11)
      /\ u[5] = Do("cv_wait", "m", 9)
      /\ u[6] = Do("write_unlock", "m", 13)
  BY DEF StartUp, Do, Or, Terminate
<1>v.
      /\ v[1] = Do("set", [success |-> FALSE], 14)
      /\ v[2] = Or("create", "t3", 15, -1)
      /\ v[3] = Do("write_lock", "m", 16)
      /\ v[4] = Or("is", [success |-> TRUE], 18, 17)
      /\ v[5] = Do("cv_wait", "m", 15)
      /\ v[6] = Do("write_unlock", "m", 19)
  BY DEF StartUp, Do, Or, Terminate
<1>w.
      /\ w[1] = Do("join", "t1", 20)
      /\ w[2] = Do("join", "t2", 21)
      /\ w[3] = Do("join", "t3", 22)
  BY DEF ForAll, Ignored, Do, Or
<1>1. IsTuple(s, 6) /\ IsTuple(u, 6) /\ IsTuple(v, 6) /\ IsTuple(w, 3)
  BY DEF IsTuple, StartUp, Do, Or, Terminate, ForAll, Ignored
<1>2. 3 \in Nat /\ 6 \in Nat /\ 12 \in Nat /\ 18 \in Nat
  OBVIOUS
<1> HIDE DEF s, u, v, w
<1>3. IsJoined(p, s, 6, u, 6)
  BY <1>1, <1>2, JoinedIs, Zenon
<1>4. IsTuple(p, 12)
  BY <1>3 DEF IsJoined
<1>5. IsJoined(q, p, 12, v, 6)
  BY <1>1, <1>2, <1>4, JoinedIs, Zenon
<1>6. IsTuple(q, 18)
  BY <1>5 DEF IsJoined
<1>7. IsJoined(r, q, 18, w, 3)
  BY <1>1, <1>2, <1>6, JoinedIs, Zenon
<1> HIDE DEF p, q, r
<1>8.
      /\ r[1] = s[1] /\ r[2] = s[2] /\ r[3] = s[3] /\ r[4] = s[4] /\ r[5] = s[5]
      /\ r[6] = s[6] /\ r[7] = u[1] /\ r[8] = u[2] /\ r[9] = u[3] /\ r[10] = u[4]
      /\ r[11] = u[5] /\ r[12] = u[6] /\ r[13] = v[1] /\ r[14] = v[2] /\ r[15] = v[3]
      /\ r[16] = v[4] /\ r[17] = v[5] /\ r[18] = v[6] /\ r[19] = w[1] /\ r[20] = w[2]
      /\ r[21] = w[3]
  BY <1>3, <1>5, <1>7 DEF IsJoined, IsTuple
<1>9. makesurethreadgroup["main"] = r
  BY Zenon DEF r, p, q, s, u, v, w, makesurethreadgroup
<1> QED
  BY <1>8, <1>9, <1>s, <1>u, <1>v, <1>w

LEMMA thread_joinMain ==
    LET r == thread_join["main"] IN
    /\ r[1] = Or("create", "t1", 2, 0)
    /\ r[2] = Do("join", "t1", 3)
    /\ r[3] = Or("fopen_r", "file", 4, 0)
    /\ r[4] = Or("fread", "file", 5, 0)
    /\ r[5] = Do("print_time", "none", 0)
<1> DEFINE s == <<Or("create", "t1", 2, 0), Do("join", "t1", 3)>>
           u == ReadTime
           r == s \o u
<1>s.
      /\ s[1] = Or("create", "t1", 2, 0)
      /\ s[2] = Do("join", "t1", 3)
  OBVIOUS
<1>u.
      /\ u[1] = Or("fopen_r", "file", 4, 0)
      /\ u[2] = Or("fread", "file", 5, 0)
      /\ u[3] = Do("print_time", "none", 0)
  BY DEF ReadTime
<1>1. IsTuple(s, 2) /\ IsTuple(u, 3)
  BY DEF IsTuple, ReadTime
<1>2. 2 \in Nat /\ 3 \in Nat
  OBVIOUS
<1> HIDE DEF s, u
<1>3. IsJoined(r, s, 2, u, 3)
  BY <1>1, <1>2, JoinedIs, Zenon
<1> HIDE DEF r
<1>4.
      /\ r[1] = s[1] /\ r[2] = s[2] /\ r[3] = u[1] /\ r[4] = u[2] /\ r[5] = u[3]
  BY <1>3 DEF IsJoined, IsTuple
<1>5. thread_join["main"] = r
  BY Zenon DEF r, s, u, thread_join, With
<1> QED
  BY <1>4, <1>5, <1>s, <1>u

LEMMA std_thread_joinMain ==
    LET r == std_thread_join["main"] IN
    /\ r[1] = Or("create", "t1", 2, -1)
    /\ r[2] = Do("join", "t1", 3)
    /\ r[3] = Or("fopen_r", "file", 4, 0)
    /\ r[4] = Or("fread", "file", 5, 0)
    /\ r[5] = Do("print_time", "none", 0)
<1> DEFINE s == <<Or("create", "t1", 2, Terminate), Do("join", "t1", 3)>>
           u == ReadTime
           r == s \o u
<1>s.
      /\ s[1] = Or("create", "t1", 2, -1)
      /\ s[2] = Do("join", "t1", 3)
  BY DEF Terminate
<1>u.
      /\ u[1] = Or("fopen_r", "file", 4, 0)
      /\ u[2] = Or("fread", "file", 5, 0)
      /\ u[3] = Do("print_time", "none", 0)
  BY DEF ReadTime
<1>1. IsTuple(s, 2) /\ IsTuple(u, 3)
  BY DEF IsTuple, Terminate, ReadTime
<1>2. 2 \in Nat /\ 3 \in Nat
  OBVIOUS
<1> HIDE DEF s, u
<1>3. IsJoined(r, s, 2, u, 3)
  BY <1>1, <1>2, JoinedIs, Zenon
<1> HIDE DEF r
<1>4.
      /\ r[1] = s[1] /\ r[2] = s[2] /\ r[3] = u[1] /\ r[4] = u[2] /\ r[5] = u[3]
  BY <1>3 DEF IsJoined, IsTuple
<1>5. std_thread_join["main"] = r
  BY Zenon DEF r, s, u, std_thread_join, With
<1> QED
  BY <1>4, <1>5, <1>s, <1>u

LEMMA CThreadMain ==
    LET r == CThread["main"] IN
    /\ r[1] = Do("any", {2, 5, 8}, 0)
    /\ r[2] = Or("is", [handle |-> "zero"], 3, 1)
    /\ r[3] = Or("create", "t1", 4, 7)
    /\ r[4] = Do("set", [handle |-> "t1"], 1)
    /\ r[5] = Or("is", [handle |-> "zero"], 1, 6)
    /\ r[6] = Do("join", "t1", 1)
    /\ r[7] = Do("garble", "handle", 1)
    /\ r[8] = Do("rest", "none", 8)
<1> DEFINE s == <<Do("any", {2, 5, 8}, 0)>>
           u == CThread_Create(1)
           v == CThread_Join(1)
           w == <<Do("garble", "handle", 1), Do("rest", "none", 8)>>
           p == s \o u
           q == p \o v
           r == q \o w
<1>s. s[1] = Do("any", {2, 5, 8}, 0)
  OBVIOUS
<1>u.
      /\ u[1] = Or("is", [handle |-> "zero"], 3, 1)
      /\ u[2] = Or("create", "t1", 4, 7)
      /\ u[3] = Do("set", [handle |-> "t1"], 1)
  BY DEF CThread_Create
<1>v.
      /\ v[1] = Or("is", [handle |-> "zero"], 1, 6)
      /\ v[2] = Do("join", "t1", 1)
  BY DEF CThread_Join
<1>w.
      /\ w[1] = Do("garble", "handle", 1)
      /\ w[2] = Do("rest", "none", 8)
  OBVIOUS
<1>1. IsTuple(s, 1) /\ IsTuple(u, 3) /\ IsTuple(v, 2) /\ IsTuple(w, 2)
  BY DEF IsTuple, CThread_Create, CThread_Join
<1>2. 1 \in Nat /\ 2 \in Nat /\ 3 \in Nat /\ 4 \in Nat /\ 6 \in Nat
  OBVIOUS
<1> HIDE DEF s, u, v, w
<1>3. IsJoined(p, s, 1, u, 3)
  BY <1>1, <1>2, JoinedIs, Zenon
<1>4. IsTuple(p, 4)
  BY <1>3 DEF IsJoined
<1>5. IsJoined(q, p, 4, v, 2)
  BY <1>1, <1>2, <1>4, JoinedIs, Zenon
<1>6. IsTuple(q, 6)
  BY <1>5 DEF IsJoined
<1>7. IsJoined(r, q, 6, w, 2)
  BY <1>1, <1>2, <1>6, JoinedIs, Zenon
<1> HIDE DEF p, q, r
<1>8.
      /\ r[1] = s[1] /\ r[2] = u[1] /\ r[3] = u[2] /\ r[4] = u[3] /\ r[5] = v[1]
      /\ r[6] = v[2] /\ r[7] = w[1] /\ r[8] = w[2]
  BY <1>3, <1>5, <1>7 DEF IsJoined, IsTuple
<1>9. CThread["main"] = r
  BY Zenon DEF r, p, q, s, u, v, w, CThread, With
<1> QED
  BY <1>8, <1>9, <1>s, <1>u, <1>v, <1>w

LEMMA ThreadMain ==
    LET r == Thread["main"] IN
    /\ r[1] = Do("any", {2, 4, 6}, 0)
    /\ r[2] = Do("set", [stopped |-> FALSE], 3)
    /\ r[3] = Or("create", "t1", 1, -1)
    /\ r[4] = Do("set", [stopped |-> TRUE], 5)
    /\ r[5] = Do("join_if", "t1", 1)
    /\ r[6] = Do("rest", "none", 6)
<1> DEFINE s == <<Do("any", {2, 4, 6}, 0)>>
           u == Start(1)
           v == Stop(1)
           w == <<Do("rest", "none", 6)>>
           p == s \o u
           q == p \o v
           r == q \o w
<1>s. s[1] = Do("any", {2, 4, 6}, 0)
  OBVIOUS
<1>u.
      /\ u[1] = Do("set", [stopped |-> FALSE], 3)
      /\ u[2] = Or("create", "t1", 1, -1)
  BY DEF Start, Terminate
<1>v.
      /\ v[1] = Do("set", [stopped |-> TRUE], 5)
      /\ v[2] = Do("join_if", "t1", 1)
  BY DEF Stop
<1>w. w[1] = Do("rest", "none", 6)
  OBVIOUS
<1>1. IsTuple(s, 1) /\ IsTuple(u, 2) /\ IsTuple(v, 2) /\ IsTuple(w, 1)
  BY DEF IsTuple, Start, Terminate, Stop
<1>2. 1 \in Nat /\ 2 \in Nat /\ 3 \in Nat /\ 5 \in Nat
  OBVIOUS
<1> HIDE DEF s, u, v, w
<1>3. IsJoined(p, s, 1, u, 2)
  BY <1>1, <1>2, JoinedIs, Zenon
<1>4. IsTuple(p, 3)
  BY <1>3 DEF IsJoined
<1>5. IsJoined(q, p, 3, v, 2)
  BY <1>1, <1>2, <1>4, JoinedIs, Zenon
<1>6. IsTuple(q, 5)
  BY <1>5 DEF IsJoined
<1>7. IsJoined(r, q, 5, w, 1)
  BY <1>1, <1>2, <1>6, JoinedIs, Zenon
<1> HIDE DEF p, q, r
<1>8.
      /\ r[1] = s[1] /\ r[2] = u[1] /\ r[3] = u[2] /\ r[4] = v[1] /\ r[5] = v[2]
      /\ r[6] = w[1]
  BY <1>3, <1>5, <1>7 DEF IsJoined, IsTuple
<1>9. Thread["main"] = r
  BY Zenon DEF r, p, q, s, u, v, w, Thread, With
<1> QED
  BY <1>8, <1>9, <1>s, <1>u, <1>v, <1>w

LEMMA FutureFileSystemMain ==
    LET r == FutureFileSystem["main"] IN
    /\ r[1] = Or("create", "t1", 2, -1)
    /\ r[2] = Or("create", "t2", 3, -1)
    /\ r[3] = Or("create", "t3", 4, -1)
    /\ r[4] = Do("wait", "f1", 5)
    /\ r[5] = Do("wait", "f2", 6)
    /\ r[6] = Do("wait", "f3", 7)
    /\ r[7] = Or("get", "f1", 8, -1)
    /\ r[8] = Or("get", "f2", 9, -1)
    /\ r[9] = Or("get", "f3", 10, -1)
    /\ r[10] = Do("join", "t1", 11)
    /\ r[11] = Do("join", "t2", 12)
    /\ r[12] = Do("join", "t3", 13)
    /\ r[13] = Do("report", "none", 0)
<1> DEFINE s == ForAll("create", <<"t1", "t2", "t3">>, 1, Throws)
           u == ForAll("wait", <<"f1", "f2", "f3">>, 4, Ignored)
           v == ForAll("get", <<"f1", "f2", "f3">>, 7, Throws)
           w == ForAll("join", <<"t1", "t2", "t3">>, 10, Ignored)
           z == <<Do("report", "none", 0)>>
           p == s \o u
           q == p \o v
           x == q \o w
           r == x \o z
<1>s.
      /\ s[1] = Or("create", "t1", 2, -1)
      /\ s[2] = Or("create", "t2", 3, -1)
      /\ s[3] = Or("create", "t3", 4, -1)
  BY DEF ForAll, Throws, Do, Or, Terminate
<1>u.
      /\ u[1] = Do("wait", "f1", 5)
      /\ u[2] = Do("wait", "f2", 6)
      /\ u[3] = Do("wait", "f3", 7)
  BY DEF ForAll, Ignored, Do, Or
<1>v.
      /\ v[1] = Or("get", "f1", 8, -1)
      /\ v[2] = Or("get", "f2", 9, -1)
      /\ v[3] = Or("get", "f3", 10, -1)
  BY DEF ForAll, Throws, Do, Or, Terminate
<1>w.
      /\ w[1] = Do("join", "t1", 11)
      /\ w[2] = Do("join", "t2", 12)
      /\ w[3] = Do("join", "t3", 13)
  BY DEF ForAll, Ignored, Do, Or
<1>z. z[1] = Do("report", "none", 0)
  OBVIOUS
<1>1. IsTuple(s, 3) /\ IsTuple(u, 3) /\ IsTuple(v, 3) /\ IsTuple(w, 3) /\ IsTuple(z, 1)
  BY DEF IsTuple, ForAll, Throws, Do, Or, Terminate, Ignored
<1>2. 1 \in Nat /\ 3 \in Nat /\ 6 \in Nat /\ 9 \in Nat /\ 12 \in Nat
  OBVIOUS
<1> HIDE DEF s, u, v, w, z
<1>3. IsJoined(p, s, 3, u, 3)
  BY <1>1, <1>2, JoinedIs, Zenon
<1>4. IsTuple(p, 6)
  BY <1>3 DEF IsJoined
<1>5. IsJoined(q, p, 6, v, 3)
  BY <1>1, <1>2, <1>4, JoinedIs, Zenon
<1>6. IsTuple(q, 9)
  BY <1>5 DEF IsJoined
<1>7. IsJoined(x, q, 9, w, 3)
  BY <1>1, <1>2, <1>6, JoinedIs, Zenon
<1>8. IsTuple(x, 12)
  BY <1>7 DEF IsJoined
<1>9. IsJoined(r, x, 12, z, 1)
  BY <1>1, <1>2, <1>8, JoinedIs, Zenon
<1> HIDE DEF p, q, x, r
<1>10.
      /\ r[1] = s[1] /\ r[2] = s[2] /\ r[3] = s[3] /\ r[4] = u[1] /\ r[5] = u[2]
      /\ r[6] = u[3] /\ r[7] = v[1] /\ r[8] = v[2] /\ r[9] = v[3] /\ r[10] = w[1]
      /\ r[11] = w[2] /\ r[12] = w[3] /\ r[13] = z[1]
  BY <1>3, <1>5, <1>7, <1>9 DEF IsJoined, IsTuple
<1>11. FutureFileSystem["main"] = r
  BY Zenon DEF r, p, q, x, s, u, v, w, z, FutureFileSystem
<1> QED
  BY <1>10, <1>11, <1>s, <1>u, <1>v, <1>w, <1>z

-----------------------------------------------------------------------------
(* The loops that several programs share.                                  *)

LEMMA WriterEntries ==
    ASSUME NEW t, code[t] = Writer(increment)
    PROVE  LET e == Entry(t) IN
           /\ pc[t] = 1 => e.op = "write_lock" /\ e.next = 2 /\ e.else = 2
           /\ pc[t] = 2 => e.op = "load" /\ e.arg = "value" /\ e.next = 3 /\ e.else = 3
           /\ pc[t] = 3 => e.op = "store_next" /\ e.arg = "value" /\ e.next = 4 /\ e.else = 4
           /\ pc[t] = 4 => e.op = "write_unlock" /\ e.next = 5 /\ e.else = 5
           /\ pc[t] = 5 => e.op = "again" /\ e.next = 1 /\ e.else = 0
BY WriterIs DEF Entry, Do, Or

LEMMA ReaderEntries ==
    ASSUME NEW t, code[t] = Reader(get)
    PROVE  LET e == Entry(t) IN
           /\ pc[t] = 1 => e.op = "read_lock" /\ e.next = 2 /\ e.else = 2
           /\ pc[t] = 2 => e.op = "load" /\ e.arg = "value" /\ e.next = 3 /\ e.else = 3
           /\ pc[t] = 3 => e.op = "read_unlock" /\ e.next = 4 /\ e.else = 4
           /\ pc[t] = 4 => e.op = "store" /\ e.arg = "temp" /\ e.next = 5 /\ e.else = 5
           /\ pc[t] = 5 => e.op = "again" /\ e.next = 1 /\ e.else = 0
BY ReaderIs DEF Entry, Do, Or

LEMMA ExclusiveEntries ==
    ASSUME NEW t, code[t] = Reader(get_exclusive)
    PROVE  LET e == Entry(t) IN
           /\ pc[t] = 1 => e.op = "write_lock" /\ e.next = 2 /\ e.else = 2
           /\ pc[t] = 2 => e.op = "load" /\ e.arg = "value" /\ e.next = 3 /\ e.else = 3
           /\ pc[t] = 3 => e.op = "write_unlock" /\ e.next = 4 /\ e.else = 4
           /\ pc[t] = 4 => e.op = "store" /\ e.arg = "temp" /\ e.next = 5 /\ e.else = 5
           /\ pc[t] = 5 => e.op = "again" /\ e.next = 1 /\ e.else = 0
BY ExclusiveReaderIs DEF Entry, Do, Or

-----------------------------------------------------------------------------
(* test_shared_mutex: two readers together and a writer.                   *)

LEMMA test_shared_mutexEntries ==
    ASSUME NEW t, code[t] = test_shared_mutex["main"]
    PROVE  LET e == Entry(t) IN
           /\ pc[t] = 1 => e.op = "create" /\ e.arg = "t1" /\ e.next = 2 /\ e.else = -1
           /\ pc[t] = 2 => e.op = "create" /\ e.arg = "t2" /\ e.next = 3 /\ e.else = -1
           /\ pc[t] = 3 => e.op = "create" /\ e.arg = "t3" /\ e.next = 4 /\ e.else = -1
           /\ pc[t] = 4 => e.op = "join" /\ e.arg = "t1" /\ e.next = 5 /\ e.else = 5
           /\ pc[t] = 5 => e.op = "join" /\ e.arg = "t2" /\ e.next = 6 /\ e.else = 6
           /\ pc[t] = 6 => e.op = "join" /\ e.arg = "t3" /\ e.next = 7 /\ e.else = 7
           /\ pc[t] = 7 => e.op = "read_lock" /\ e.next = 8 /\ e.else = 8
           /\ pc[t] = 8 => e.op = "load" /\ e.arg = "value" /\ e.next = 9 /\ e.else = 9
           /\ pc[t] = 9 => e.op = "read_unlock" /\ e.next = 10 /\ e.else = 10
           /\ pc[t] = 10 => e.op = "report" /\ e.next = 0 /\ e.else = 0
BY test_shared_mutexMain DEF Entry, Do, Or

LEMMA test_shared_mutexStep ==
    ASSUME test_shared_mutexInv, NEW t \in Threads, Execute(t)
    PROVE  test_shared_mutexInv'
<1>1. /\ pc \in [Threads -> Int] /\ turns \in [Threads -> Nat] /\ lock \in Mutexes
      /\ reg = [u \in Threads |-> reg[u]] /\ mem = [c \in Cells |-> mem[c]]
      /\ obj \in [Threads -> {"none", "joinable", "done", "detached"}]
      /\ over = "no" /\ pc[t] > 0
  BY ByOp DEF test_shared_mutexInv, Typed, Runs
<1>2. /\ code["main"] = test_shared_mutex["main"] /\ code["t1"] = Reader(get)
      /\ code["t2"] = Reader(get) /\ code["t3"] = Writer(increment)
  BY DEF test_shared_mutexInv, test_shared_mutex, Comparison
<1>3. CASE t = "main"
  <2>0. Typed'
    <3>1. pc[t] \in 1..10
      BY <1>1, <1>3 DEF test_shared_mutexInv, Sharing, Compared, Counted, Writing, Managed,
         Strict, Mutexes
    <3>2. Entry(t).next \in Int /\ Entry(t).else \in Int /\ Entry(t).op # "any"
      BY <1>2, <1>3, <3>1, test_shared_mutexEntries
    <3> QED
      BY <3>2, TypedStep DEF test_shared_mutexInv
  <2>1. CASE pc[t] = 1
    <3>1. /\ Entry(t).op = "create" /\ Entry(t).arg = "t1" /\ Entry(t).next = 2
          /\ Entry(t).else = -1
      BY <1>2, <1>3, <2>1, test_shared_mutexEntries
    <3> QED
      BY <1>1, <1>3, <2>1, <2>0, <3>1, Creates, LoopsAssumption DEF test_shared_mutexInv,
         Moves, Sharing, Compared, Counted, Writing, Managed, Strict, Mutexes, Threads, Cells
  <2>2. CASE pc[t] = 2
    <3>1. /\ Entry(t).op = "create" /\ Entry(t).arg = "t2" /\ Entry(t).next = 3
          /\ Entry(t).else = -1
      BY <1>2, <1>3, <2>2, test_shared_mutexEntries
    <3> QED
      BY <1>1, <1>3, <2>2, <2>0, <3>1, Creates, LoopsAssumption DEF test_shared_mutexInv,
         Moves, Sharing, Compared, Counted, Writing, Managed, Strict, Mutexes, Threads, Cells
  <2>3. CASE pc[t] = 3
    <3>1. /\ Entry(t).op = "create" /\ Entry(t).arg = "t3" /\ Entry(t).next = 4
          /\ Entry(t).else = -1
      BY <1>2, <1>3, <2>3, test_shared_mutexEntries
    <3> QED
      BY <1>1, <1>3, <2>3, <2>0, <3>1, Creates, LoopsAssumption DEF test_shared_mutexInv,
         Moves, Sharing, Compared, Counted, Writing, Managed, Strict, Mutexes, Threads, Cells
  <2>4. CASE pc[t] = 4
    <3>1. Entry(t).op = "join" /\ Entry(t).arg = "t1" /\ Entry(t).next = 5 /\ Entry(t).else = 5
      BY <1>2, <1>3, <2>4, test_shared_mutexEntries
    <3> QED
      BY <1>1, <1>3, <2>4, <2>0, <3>1, Joins, LoopsAssumption DEF test_shared_mutexInv, Moves,
         Sharing, Compared, Counted, Writing, Managed, Strict, Mutexes, Threads, Cells
  <2>5. CASE pc[t] = 5
    <3>1. Entry(t).op = "join" /\ Entry(t).arg = "t2" /\ Entry(t).next = 6 /\ Entry(t).else = 6
      BY <1>2, <1>3, <2>5, test_shared_mutexEntries
    <3> QED
      BY <1>1, <1>3, <2>5, <2>0, <3>1, Joins, LoopsAssumption DEF test_shared_mutexInv, Moves,
         Sharing, Compared, Counted, Writing, Managed, Strict, Mutexes, Threads, Cells
  <2>6. CASE pc[t] = 6
    <3>1. Entry(t).op = "join" /\ Entry(t).arg = "t3" /\ Entry(t).next = 7 /\ Entry(t).else = 7
      BY <1>2, <1>3, <2>6, test_shared_mutexEntries
    <3> QED
      BY <1>1, <1>3, <2>6, <2>0, <3>1, Joins, LoopsAssumption DEF test_shared_mutexInv, Moves,
         Sharing, Compared, Counted, Writing, Managed, Strict, Mutexes, Threads, Cells
  <2>7. CASE pc[t] = 7
    <3>1. Entry(t).op = "read_lock" /\ Entry(t).next = 8 /\ Entry(t).else = 8
      BY <1>2, <1>3, <2>7, test_shared_mutexEntries
    <3> QED
      BY <1>1, <1>3, <2>7, <2>0, <3>1, ReadLocks, LoopsAssumption DEF test_shared_mutexInv,
         Moves, Sharing, Compared, Counted, Writing, Managed, Strict, Mutexes, Threads, Cells
  <2>8. CASE pc[t] = 8
    <3>1. /\ Entry(t).op = "load" /\ Entry(t).arg = "value" /\ Entry(t).next = 9
          /\ Entry(t).else = 9
      BY <1>2, <1>3, <2>8, test_shared_mutexEntries
    <3> QED
      BY <1>1, <1>3, <2>8, <2>0, <3>1, Loads, LoopsAssumption DEF test_shared_mutexInv, Moves,
         Sharing, Compared, Counted, Writing, Managed, Strict, Mutexes, Threads, Cells
  <2>9. CASE pc[t] = 9
    <3>1. Entry(t).op = "read_unlock" /\ Entry(t).next = 10 /\ Entry(t).else = 10
      BY <1>2, <1>3, <2>9, test_shared_mutexEntries
    <3> QED
      BY <1>1, <1>3, <2>9, <2>0, <3>1, ReadUnlocks, LoopsAssumption DEF test_shared_mutexInv,
         Moves, Sharing, Compared, Counted, Writing, Managed, Strict, Mutexes, Threads, Cells
  <2>10. CASE pc[t] = 10
    <3>1. Entry(t).op = "report" /\ Entry(t).next = 0 /\ Entry(t).else = 0
      BY <1>2, <1>3, <2>10, test_shared_mutexEntries
    <3> QED
      BY <1>1, <1>3, <2>10, <2>0, <3>1, Jumps, LoopsAssumption DEF test_shared_mutexInv, Moves,
         Sharing, Compared, Counted, Writing, Managed, Strict, Mutexes, Threads, Cells
  <2> QED
    BY <1>1, <1>3, <2>1, <2>2, <2>3, <2>4, <2>5, <2>6, <2>7, <2>8, <2>9, <2>10
       DEF test_shared_mutexInv, Sharing, Compared, Counted, Writing, Managed, Strict, Mutexes
<1>4. CASE t \in {"t1", "t2"}
  <2>0. Typed'
    <3>1. pc[t] \in 1..5
      BY <1>1, <1>4 DEF test_shared_mutexInv, Sharing, Compared, Counted, Writing, Managed,
         Strict, Mutexes
    <3>2. Entry(t).next \in Int /\ Entry(t).else \in Int /\ Entry(t).op # "any"
      BY <1>2, <1>4, <3>1, ReaderEntries
    <3> QED
      BY <3>2, TypedStep DEF test_shared_mutexInv
  <2>1. CASE pc[t] = 1
    <3>1. Entry(t).op = "read_lock" /\ Entry(t).next = 2 /\ Entry(t).else = 2
      BY <1>2, <1>4, <2>1, ReaderEntries
    <3> QED
      BY <1>1, <1>4, <2>1, <2>0, <3>1, ReadLocks, LoopsAssumption DEF test_shared_mutexInv,
         Moves, Sharing, Compared, Counted, Writing, Managed, Strict, Mutexes, Threads, Cells
  <2>2. CASE pc[t] = 2
    <3>1. /\ Entry(t).op = "load" /\ Entry(t).arg = "value" /\ Entry(t).next = 3
          /\ Entry(t).else = 3
      BY <1>2, <1>4, <2>2, ReaderEntries
    <3> QED
      BY <1>1, <1>4, <2>2, <2>0, <3>1, Loads, LoopsAssumption DEF test_shared_mutexInv, Moves,
         Sharing, Compared, Counted, Writing, Managed, Strict, Mutexes, Threads, Cells
  <2>3. CASE pc[t] = 3
    <3>1. Entry(t).op = "read_unlock" /\ Entry(t).next = 4 /\ Entry(t).else = 4
      BY <1>2, <1>4, <2>3, ReaderEntries
    <3> QED
      BY <1>1, <1>4, <2>3, <2>0, <3>1, ReadUnlocks, LoopsAssumption DEF test_shared_mutexInv,
         Moves, Sharing, Compared, Counted, Writing, Managed, Strict, Mutexes, Threads, Cells
  <2>4. CASE pc[t] = 4
    <3>1. /\ Entry(t).op = "store" /\ Entry(t).arg = "temp" /\ Entry(t).next = 5
          /\ Entry(t).else = 5
      BY <1>2, <1>4, <2>4, ReaderEntries
    <3>2. reg[t] \in 0..Loops
      BY <1>4, <2>4 DEF test_shared_mutexInv, Sharing
    <3>3. /\ mem' = [mem EXCEPT !.temp = reg[t]] /\ Moves(t, 5)
          /\ UNCHANGED <<reg, turns, lock, obj, failed>>
      BY <3>1, Stores
    <3>4. mem'.value = mem.value /\ mem'.temp \in 0..Loops
      BY <1>1, <3>2, <3>3 DEF Cells
    <3> QED
      BY <1>1, <1>4, <2>4, <2>0, <3>3, <3>4, LoopsAssumption DEF test_shared_mutexInv, Moves,
         Sharing, Compared, Counted, Writing, Managed, Strict, Mutexes, Threads, Cells
  <2>5. CASE pc[t] = 5
    <3>1. Entry(t).op = "again" /\ Entry(t).next = 1 /\ Entry(t).else = 0
      BY <1>2, <1>4, <2>5, ReaderEntries
    <3> QED
      BY <1>1, <1>4, <2>5, <2>0, <3>1, Turns, LoopsAssumption DEF test_shared_mutexInv, Moves,
         Sharing, Compared, Counted, Writing, Managed, Strict, Mutexes, Threads, Cells
  <2> QED
    BY <1>1, <1>4, <2>1, <2>2, <2>3, <2>4, <2>5 DEF test_shared_mutexInv, Sharing, Compared,
       Counted, Writing, Managed, Strict, Mutexes
<1>5. CASE t = "t3"
  <2>0. Typed'
    <3>1. pc[t] \in 1..5
      BY <1>1, <1>5 DEF test_shared_mutexInv, Sharing, Compared, Counted, Writing, Managed,
         Strict, Mutexes
    <3>2. Entry(t).next \in Int /\ Entry(t).else \in Int /\ Entry(t).op # "any"
      BY <1>2, <1>5, <3>1, WriterEntries
    <3> QED
      BY <3>2, TypedStep DEF test_shared_mutexInv
  <2>1. CASE pc[t] = 1
    <3>1. Entry(t).op = "write_lock" /\ Entry(t).next = 2 /\ Entry(t).else = 2
      BY <1>2, <1>5, <2>1, WriterEntries
    <3> QED
      BY <1>1, <1>5, <2>1, <2>0, <3>1, WriteLocks, LoopsAssumption DEF test_shared_mutexInv,
         Moves, Sharing, Compared, Counted, Writing, Managed, Strict, Mutexes, Threads, Cells
  <2>2. CASE pc[t] = 2
    <3>1. /\ Entry(t).op = "load" /\ Entry(t).arg = "value" /\ Entry(t).next = 3
          /\ Entry(t).else = 3
      BY <1>2, <1>5, <2>2, WriterEntries
    <3> QED
      BY <1>1, <1>5, <2>2, <2>0, <3>1, Loads, LoopsAssumption DEF test_shared_mutexInv, Moves,
         Sharing, Compared, Counted, Writing, Managed, Strict, Mutexes, Threads, Cells
  <2>3. CASE pc[t] = 3
    <3>1. /\ Entry(t).op = "store_next" /\ Entry(t).arg = "value" /\ Entry(t).next = 4
          /\ Entry(t).else = 4
      BY <1>2, <1>5, <2>3, WriterEntries
    <3>2. reg[t] = mem.value
      BY <1>5, <2>3 DEF test_shared_mutexInv, Sharing, Compared, Counted, Writing, Managed,
         Strict, Mutexes
    <3>3. /\ mem' = [mem EXCEPT !.value = mem.value + 1] /\ Moves(t, 4)
          /\ UNCHANGED <<reg, turns, lock, obj, failed>>
      BY <3>1, <3>2, StoresNext
    <3> QED
      BY <1>1, <1>5, <2>3, <2>0, <3>3, LoopsAssumption DEF test_shared_mutexInv, Moves,
         Sharing, Compared, Counted, Writing, Managed, Strict, Mutexes, Threads, Cells
  <2>4. CASE pc[t] = 4
    <3>1. Entry(t).op = "write_unlock" /\ Entry(t).next = 5 /\ Entry(t).else = 5
      BY <1>2, <1>5, <2>4, WriterEntries
    <3> QED
      BY <1>1, <1>5, <2>4, <2>0, <3>1, WriteUnlocks, LoopsAssumption DEF test_shared_mutexInv,
         Moves, Sharing, Compared, Counted, Writing, Managed, Strict, Mutexes, Threads, Cells
  <2>5. CASE pc[t] = 5
    <3>1. Entry(t).op = "again" /\ Entry(t).next = 1 /\ Entry(t).else = 0
      BY <1>2, <1>5, <2>5, WriterEntries
    <3> QED
      BY <1>1, <1>5, <2>5, <2>0, <3>1, Turns, LoopsAssumption DEF test_shared_mutexInv, Moves,
         Sharing, Compared, Counted, Writing, Managed, Strict, Mutexes, Threads, Cells
  <2> QED
    BY <1>1, <1>5, <2>1, <2>2, <2>3, <2>4, <2>5 DEF test_shared_mutexInv, Sharing, Compared,
       Counted, Writing, Managed, Strict, Mutexes
<1> QED
  BY <1>1, <1>3, <1>4, <1>5 DEF test_shared_mutexInv, Threads, Sharing, Compared, Counted,
     Writing, Managed, Strict, Mutexes

LEMMA test_shared_mutexWakeup ==
    ASSUME test_shared_mutexInv, SpuriousWakeup
    PROVE  test_shared_mutexInv'
BY TypedWakeup, Wakeups DEF test_shared_mutexInv, Sharing, Compared, Counted, Writing, Managed,
   Strict, Mutexes

LEMMA test_shared_mutexInit ==
    ASSUME Init, prog = "test_shared_mutex"
    PROVE  test_shared_mutexInv
BY TypedInit, Starts, LoopsAssumption DEF test_shared_mutexInv, Table, Threads, Sharing,
   Compared, Counted, Writing, Managed, Strict, Mutexes

LEMMA test_shared_mutexNext ==
    ASSUME test_shared_mutexInv, [Next]_vars
    PROVE  test_shared_mutexInv'
<1>1. CASE UNCHANGED vars
  BY <1>1 DEF vars, test_shared_mutexInv, Typed, Sharing, Compared, Counted, Writing, Managed,
     Strict
<1>2. CASE SpuriousWakeup
  BY <1>2, test_shared_mutexWakeup
<1>3. CASE \E t \in Threads : Execute(t)
  BY <1>3, test_shared_mutexStep
<1> QED
  BY <1>1, <1>2, <1>3 DEF Next

LEMMA test_shared_mutexShows ==
    ASSUME test_shared_mutexInv, prog = "test_shared_mutex"
    PROVE  ExactCounts /\ WholeResults /\ StartedInOrder
<1>1. ASSUME NEW t \in Threads, Runs(t)
      PROVE  /\ Entry(t).op \notin {"print", "print_time"}
              /\ (Entry(t).op = "report" => pc["main"] = 10)
  <2>1. /\ code["main"] = test_shared_mutex["main"] /\ code["t1"] = Reader(get)
        /\ code["t2"] = Reader(get) /\ code["t3"] = Writer(increment)
    BY DEF test_shared_mutexInv, test_shared_mutex, Comparison
  <2>2. CASE t = "main"
    BY <1>1, <2>1, <2>2, test_shared_mutexEntries DEF test_shared_mutexInv, Runs, Sharing,
       Compared, Counted, Writing, Managed, Strict, Mutexes
  <2>3. CASE t \in {"t1", "t2"}
    BY <1>1, <2>1, <2>3, ReaderEntries DEF test_shared_mutexInv, Runs, Sharing, Compared,
       Counted, Writing, Managed, Strict, Mutexes
  <2>4. CASE t = "t3"
    BY <1>1, <2>1, <2>4, WriterEntries DEF test_shared_mutexInv, Runs, Sharing, Compared,
       Counted, Writing, Managed, Strict, Mutexes
  <2> QED
    BY <1>1, <2>2, <2>3, <2>4 DEF test_shared_mutexInv, Threads, Runs, Sharing, Compared,
       Counted, Writing, Managed, Strict, Mutexes
<1>2. ExactCounts
  BY <1>1 DEF ExactCounts, At, Runs, Threads, test_shared_mutexInv, Sharing, Compared, Counted,
     Writing, Managed, Strict, Mutexes
<1>3. WholeResults
  BY <1>1 DEF WholeResults, At, Runs, Threads, test_shared_mutexInv, Sharing, Compared,
     Counted, Writing, Managed, Strict, Mutexes
<1>4. StartedInOrder
  BY <1>1 DEF StartedInOrder, At, Runs, Threads, test_shared_mutexInv, Sharing, Compared,
     Counted, Writing, Managed, Strict, Mutexes
<1> QED
  BY <1>2, <1>3, <1>4

-----------------------------------------------------------------------------
(* test_mutex: two readers and a writer, one at a time.                    *)

LEMMA test_mutexEntries ==
    ASSUME NEW t, code[t] = test_mutex["main"]
    PROVE  LET e == Entry(t) IN
           /\ pc[t] = 1 => e.op = "create" /\ e.arg = "t1" /\ e.next = 2 /\ e.else = -1
           /\ pc[t] = 2 => e.op = "create" /\ e.arg = "t2" /\ e.next = 3 /\ e.else = -1
           /\ pc[t] = 3 => e.op = "create" /\ e.arg = "t3" /\ e.next = 4 /\ e.else = -1
           /\ pc[t] = 4 => e.op = "join" /\ e.arg = "t1" /\ e.next = 5 /\ e.else = 5
           /\ pc[t] = 5 => e.op = "join" /\ e.arg = "t2" /\ e.next = 6 /\ e.else = 6
           /\ pc[t] = 6 => e.op = "join" /\ e.arg = "t3" /\ e.next = 7 /\ e.else = 7
           /\ pc[t] = 7 => e.op = "write_lock" /\ e.next = 8 /\ e.else = 8
           /\ pc[t] = 8 => e.op = "load" /\ e.arg = "value" /\ e.next = 9 /\ e.else = 9
           /\ pc[t] = 9 => e.op = "write_unlock" /\ e.next = 10 /\ e.else = 10
           /\ pc[t] = 10 => e.op = "report" /\ e.next = 0 /\ e.else = 0
BY test_mutexMain DEF Entry, Do, Or

LEMMA test_mutexStep == ASSUME test_mutexInv, NEW t \in Threads, Execute(t) PROVE test_mutexInv'
<1>1. /\ pc \in [Threads -> Int] /\ turns \in [Threads -> Nat] /\ lock \in Mutexes
      /\ reg = [u \in Threads |-> reg[u]] /\ mem = [c \in Cells |-> mem[c]]
      /\ obj \in [Threads -> {"none", "joinable", "done", "detached"}]
      /\ over = "no" /\ pc[t] > 0
  BY ByOp DEF test_mutexInv, Typed, Runs
<1>2. /\ code["main"] = test_mutex["main"] /\ code["t1"] = Reader(get_exclusive)
      /\ code["t2"] = Reader(get_exclusive) /\ code["t3"] = Writer(increment)
  BY DEF test_mutexInv, test_mutex, Comparison
<1>3. CASE t = "main"
  <2>0. Typed'
    <3>1. pc[t] \in 1..10
      BY <1>1, <1>3 DEF test_mutexInv, Reading, Compared, Counted, Writing, Managed, Strict,
         Mutexes
    <3>2. Entry(t).next \in Int /\ Entry(t).else \in Int /\ Entry(t).op # "any"
      BY <1>2, <1>3, <3>1, test_mutexEntries
    <3> QED
      BY <3>2, TypedStep DEF test_mutexInv
  <2>1. CASE pc[t] = 1
    <3>1. /\ Entry(t).op = "create" /\ Entry(t).arg = "t1" /\ Entry(t).next = 2
          /\ Entry(t).else = -1
      BY <1>2, <1>3, <2>1, test_mutexEntries
    <3> QED
      BY <1>1, <1>3, <2>1, <2>0, <3>1, Creates, LoopsAssumption DEF test_mutexInv, Moves,
         Reading, Compared, Counted, Writing, Managed, Strict, Mutexes, Threads, Cells
  <2>2. CASE pc[t] = 2
    <3>1. /\ Entry(t).op = "create" /\ Entry(t).arg = "t2" /\ Entry(t).next = 3
          /\ Entry(t).else = -1
      BY <1>2, <1>3, <2>2, test_mutexEntries
    <3> QED
      BY <1>1, <1>3, <2>2, <2>0, <3>1, Creates, LoopsAssumption DEF test_mutexInv, Moves,
         Reading, Compared, Counted, Writing, Managed, Strict, Mutexes, Threads, Cells
  <2>3. CASE pc[t] = 3
    <3>1. /\ Entry(t).op = "create" /\ Entry(t).arg = "t3" /\ Entry(t).next = 4
          /\ Entry(t).else = -1
      BY <1>2, <1>3, <2>3, test_mutexEntries
    <3> QED
      BY <1>1, <1>3, <2>3, <2>0, <3>1, Creates, LoopsAssumption DEF test_mutexInv, Moves,
         Reading, Compared, Counted, Writing, Managed, Strict, Mutexes, Threads, Cells
  <2>4. CASE pc[t] = 4
    <3>1. Entry(t).op = "join" /\ Entry(t).arg = "t1" /\ Entry(t).next = 5 /\ Entry(t).else = 5
      BY <1>2, <1>3, <2>4, test_mutexEntries
    <3> QED
      BY <1>1, <1>3, <2>4, <2>0, <3>1, Joins, LoopsAssumption DEF test_mutexInv, Moves,
         Reading, Compared, Counted, Writing, Managed, Strict, Mutexes, Threads, Cells
  <2>5. CASE pc[t] = 5
    <3>1. Entry(t).op = "join" /\ Entry(t).arg = "t2" /\ Entry(t).next = 6 /\ Entry(t).else = 6
      BY <1>2, <1>3, <2>5, test_mutexEntries
    <3> QED
      BY <1>1, <1>3, <2>5, <2>0, <3>1, Joins, LoopsAssumption DEF test_mutexInv, Moves,
         Reading, Compared, Counted, Writing, Managed, Strict, Mutexes, Threads, Cells
  <2>6. CASE pc[t] = 6
    <3>1. Entry(t).op = "join" /\ Entry(t).arg = "t3" /\ Entry(t).next = 7 /\ Entry(t).else = 7
      BY <1>2, <1>3, <2>6, test_mutexEntries
    <3> QED
      BY <1>1, <1>3, <2>6, <2>0, <3>1, Joins, LoopsAssumption DEF test_mutexInv, Moves,
         Reading, Compared, Counted, Writing, Managed, Strict, Mutexes, Threads, Cells
  <2>7. CASE pc[t] = 7
    <3>1. Entry(t).op = "write_lock" /\ Entry(t).next = 8 /\ Entry(t).else = 8
      BY <1>2, <1>3, <2>7, test_mutexEntries
    <3> QED
      BY <1>1, <1>3, <2>7, <2>0, <3>1, WriteLocks, LoopsAssumption DEF test_mutexInv, Moves,
         Reading, Compared, Counted, Writing, Managed, Strict, Mutexes, Threads, Cells
  <2>8. CASE pc[t] = 8
    <3>1. /\ Entry(t).op = "load" /\ Entry(t).arg = "value" /\ Entry(t).next = 9
          /\ Entry(t).else = 9
      BY <1>2, <1>3, <2>8, test_mutexEntries
    <3> QED
      BY <1>1, <1>3, <2>8, <2>0, <3>1, Loads, LoopsAssumption DEF test_mutexInv, Moves,
         Reading, Compared, Counted, Writing, Managed, Strict, Mutexes, Threads, Cells
  <2>9. CASE pc[t] = 9
    <3>1. Entry(t).op = "write_unlock" /\ Entry(t).next = 10 /\ Entry(t).else = 10
      BY <1>2, <1>3, <2>9, test_mutexEntries
    <3> QED
      BY <1>1, <1>3, <2>9, <2>0, <3>1, WriteUnlocks, LoopsAssumption DEF test_mutexInv, Moves,
         Reading, Compared, Counted, Writing, Managed, Strict, Mutexes, Threads, Cells
  <2>10. CASE pc[t] = 10
    <3>1. Entry(t).op = "report" /\ Entry(t).next = 0 /\ Entry(t).else = 0
      BY <1>2, <1>3, <2>10, test_mutexEntries
    <3> QED
      BY <1>1, <1>3, <2>10, <2>0, <3>1, Jumps, LoopsAssumption DEF test_mutexInv, Moves,
         Reading, Compared, Counted, Writing, Managed, Strict, Mutexes, Threads, Cells
  <2> QED
    BY <1>1, <1>3, <2>1, <2>2, <2>3, <2>4, <2>5, <2>6, <2>7, <2>8, <2>9, <2>10
       DEF test_mutexInv, Reading, Compared, Counted, Writing, Managed, Strict, Mutexes
<1>4. CASE t \in {"t1", "t2"}
  <2>0. Typed'
    <3>1. pc[t] \in 1..5
      BY <1>1, <1>4 DEF test_mutexInv, Reading, Compared, Counted, Writing, Managed, Strict,
         Mutexes
    <3>2. Entry(t).next \in Int /\ Entry(t).else \in Int /\ Entry(t).op # "any"
      BY <1>2, <1>4, <3>1, ExclusiveEntries
    <3> QED
      BY <3>2, TypedStep DEF test_mutexInv
  <2>1. CASE pc[t] = 1
    <3>1. Entry(t).op = "write_lock" /\ Entry(t).next = 2 /\ Entry(t).else = 2
      BY <1>2, <1>4, <2>1, ExclusiveEntries
    <3> QED
      BY <1>1, <1>4, <2>1, <2>0, <3>1, WriteLocks, LoopsAssumption DEF test_mutexInv, Moves,
         Reading, Compared, Counted, Writing, Managed, Strict, Mutexes, Threads, Cells
  <2>2. CASE pc[t] = 2
    <3>1. /\ Entry(t).op = "load" /\ Entry(t).arg = "value" /\ Entry(t).next = 3
          /\ Entry(t).else = 3
      BY <1>2, <1>4, <2>2, ExclusiveEntries
    <3> QED
      BY <1>1, <1>4, <2>2, <2>0, <3>1, Loads, LoopsAssumption DEF test_mutexInv, Moves,
         Reading, Compared, Counted, Writing, Managed, Strict, Mutexes, Threads, Cells
  <2>3. CASE pc[t] = 3
    <3>1. Entry(t).op = "write_unlock" /\ Entry(t).next = 4 /\ Entry(t).else = 4
      BY <1>2, <1>4, <2>3, ExclusiveEntries
    <3> QED
      BY <1>1, <1>4, <2>3, <2>0, <3>1, WriteUnlocks, LoopsAssumption DEF test_mutexInv, Moves,
         Reading, Compared, Counted, Writing, Managed, Strict, Mutexes, Threads, Cells
  <2>4. CASE pc[t] = 4
    <3>1. /\ Entry(t).op = "store" /\ Entry(t).arg = "temp" /\ Entry(t).next = 5
          /\ Entry(t).else = 5
      BY <1>2, <1>4, <2>4, ExclusiveEntries
    <3>2. reg[t] \in 0..Loops
      BY <1>4, <2>4 DEF test_mutexInv, Reading
    <3>3. /\ mem' = [mem EXCEPT !.temp = reg[t]] /\ Moves(t, 5)
          /\ UNCHANGED <<reg, turns, lock, obj, failed>>
      BY <3>1, Stores
    <3>4. mem'.value = mem.value /\ mem'.temp \in 0..Loops
      BY <1>1, <3>2, <3>3 DEF Cells
    <3> QED
      BY <1>1, <1>4, <2>4, <2>0, <3>3, <3>4, LoopsAssumption DEF test_mutexInv, Moves, Reading,
         Compared, Counted, Writing, Managed, Strict, Mutexes, Threads, Cells
  <2>5. CASE pc[t] = 5
    <3>1. Entry(t).op = "again" /\ Entry(t).next = 1 /\ Entry(t).else = 0
      BY <1>2, <1>4, <2>5, ExclusiveEntries
    <3> QED
      BY <1>1, <1>4, <2>5, <2>0, <3>1, Turns, LoopsAssumption DEF test_mutexInv, Moves,
         Reading, Compared, Counted, Writing, Managed, Strict, Mutexes, Threads, Cells
  <2> QED
    BY <1>1, <1>4, <2>1, <2>2, <2>3, <2>4, <2>5 DEF test_mutexInv, Reading, Compared, Counted,
       Writing, Managed, Strict, Mutexes
<1>5. CASE t = "t3"
  <2>0. Typed'
    <3>1. pc[t] \in 1..5
      BY <1>1, <1>5 DEF test_mutexInv, Reading, Compared, Counted, Writing, Managed, Strict,
         Mutexes
    <3>2. Entry(t).next \in Int /\ Entry(t).else \in Int /\ Entry(t).op # "any"
      BY <1>2, <1>5, <3>1, WriterEntries
    <3> QED
      BY <3>2, TypedStep DEF test_mutexInv
  <2>1. CASE pc[t] = 1
    <3>1. Entry(t).op = "write_lock" /\ Entry(t).next = 2 /\ Entry(t).else = 2
      BY <1>2, <1>5, <2>1, WriterEntries
    <3> QED
      BY <1>1, <1>5, <2>1, <2>0, <3>1, WriteLocks, LoopsAssumption DEF test_mutexInv, Moves,
         Reading, Compared, Counted, Writing, Managed, Strict, Mutexes, Threads, Cells
  <2>2. CASE pc[t] = 2
    <3>1. /\ Entry(t).op = "load" /\ Entry(t).arg = "value" /\ Entry(t).next = 3
          /\ Entry(t).else = 3
      BY <1>2, <1>5, <2>2, WriterEntries
    <3> QED
      BY <1>1, <1>5, <2>2, <2>0, <3>1, Loads, LoopsAssumption DEF test_mutexInv, Moves,
         Reading, Compared, Counted, Writing, Managed, Strict, Mutexes, Threads, Cells
  <2>3. CASE pc[t] = 3
    <3>1. /\ Entry(t).op = "store_next" /\ Entry(t).arg = "value" /\ Entry(t).next = 4
          /\ Entry(t).else = 4
      BY <1>2, <1>5, <2>3, WriterEntries
    <3>2. reg[t] = mem.value
      BY <1>5, <2>3 DEF test_mutexInv, Reading, Compared, Counted, Writing, Managed, Strict,
         Mutexes
    <3>3. /\ mem' = [mem EXCEPT !.value = mem.value + 1] /\ Moves(t, 4)
          /\ UNCHANGED <<reg, turns, lock, obj, failed>>
      BY <3>1, <3>2, StoresNext
    <3> QED
      BY <1>1, <1>5, <2>3, <2>0, <3>3, LoopsAssumption DEF test_mutexInv, Moves, Reading,
         Compared, Counted, Writing, Managed, Strict, Mutexes, Threads, Cells
  <2>4. CASE pc[t] = 4
    <3>1. Entry(t).op = "write_unlock" /\ Entry(t).next = 5 /\ Entry(t).else = 5
      BY <1>2, <1>5, <2>4, WriterEntries
    <3> QED
      BY <1>1, <1>5, <2>4, <2>0, <3>1, WriteUnlocks, LoopsAssumption DEF test_mutexInv, Moves,
         Reading, Compared, Counted, Writing, Managed, Strict, Mutexes, Threads, Cells
  <2>5. CASE pc[t] = 5
    <3>1. Entry(t).op = "again" /\ Entry(t).next = 1 /\ Entry(t).else = 0
      BY <1>2, <1>5, <2>5, WriterEntries
    <3> QED
      BY <1>1, <1>5, <2>5, <2>0, <3>1, Turns, LoopsAssumption DEF test_mutexInv, Moves,
         Reading, Compared, Counted, Writing, Managed, Strict, Mutexes, Threads, Cells
  <2> QED
    BY <1>1, <1>5, <2>1, <2>2, <2>3, <2>4, <2>5 DEF test_mutexInv, Reading, Compared, Counted,
       Writing, Managed, Strict, Mutexes
<1> QED
  BY <1>1, <1>3, <1>4, <1>5 DEF test_mutexInv, Threads, Reading, Compared, Counted, Writing,
     Managed, Strict, Mutexes

LEMMA test_mutexWakeup == ASSUME test_mutexInv, SpuriousWakeup PROVE test_mutexInv'
BY TypedWakeup, Wakeups DEF test_mutexInv, Reading, Compared, Counted, Writing, Managed,
   Strict, Mutexes

LEMMA test_mutexInit == ASSUME Init, prog = "test_mutex" PROVE test_mutexInv
BY TypedInit, Starts, LoopsAssumption DEF test_mutexInv, Table, Threads, Reading, Compared,
   Counted, Writing, Managed, Strict, Mutexes

LEMMA test_mutexNext == ASSUME test_mutexInv, [Next]_vars PROVE test_mutexInv'
<1>1. CASE UNCHANGED vars
  BY <1>1 DEF vars, test_mutexInv, Typed, Reading, Compared, Counted, Writing, Managed, Strict
<1>2. CASE SpuriousWakeup
  BY <1>2, test_mutexWakeup
<1>3. CASE \E t \in Threads : Execute(t)
  BY <1>3, test_mutexStep
<1> QED
  BY <1>1, <1>2, <1>3 DEF Next

LEMMA test_mutexShows ==
    ASSUME test_mutexInv, prog = "test_mutex"
    PROVE  ExactCounts /\ WholeResults /\ StartedInOrder
<1>1. ASSUME NEW t \in Threads, Runs(t)
      PROVE  /\ Entry(t).op \notin {"print", "print_time"}
              /\ (Entry(t).op = "report" => pc["main"] = 10)
  <2>1. /\ code["main"] = test_mutex["main"] /\ code["t1"] = Reader(get_exclusive)
        /\ code["t2"] = Reader(get_exclusive) /\ code["t3"] = Writer(increment)
    BY DEF test_mutexInv, test_mutex, Comparison
  <2>2. CASE t = "main"
    BY <1>1, <2>1, <2>2, test_mutexEntries DEF test_mutexInv, Runs, Reading, Compared, Counted,
       Writing, Managed, Strict, Mutexes
  <2>3. CASE t \in {"t1", "t2"}
    BY <1>1, <2>1, <2>3, ExclusiveEntries DEF test_mutexInv, Runs, Reading, Compared, Counted,
       Writing, Managed, Strict, Mutexes
  <2>4. CASE t = "t3"
    BY <1>1, <2>1, <2>4, WriterEntries DEF test_mutexInv, Runs, Reading, Compared, Counted,
       Writing, Managed, Strict, Mutexes
  <2> QED
    BY <1>1, <2>2, <2>3, <2>4 DEF test_mutexInv, Threads, Runs, Reading, Compared, Counted,
       Writing, Managed, Strict, Mutexes
<1>2. ExactCounts
  BY <1>1 DEF ExactCounts, At, Runs, Threads, test_mutexInv, Reading, Compared, Counted,
     Writing, Managed, Strict, Mutexes
<1>3. WholeResults
  BY <1>1 DEF WholeResults, At, Runs, Threads, test_mutexInv, Reading, Compared, Counted,
     Writing, Managed, Strict, Mutexes
<1>4. StartedInOrder
  BY <1>1 DEF StartedInOrder, At, Runs, Threads, test_mutexInv, Reading, Compared, Counted,
     Writing, Managed, Strict, Mutexes
<1> QED
  BY <1>2, <1>3, <1>4

-----------------------------------------------------------------------------
(* c11mutex: two writers.                                                  *)

LEMMA c11mutexEntries ==
    ASSUME NEW t, code[t] = c11mutex["main"]
    PROVE  LET e == Entry(t) IN
           /\ pc[t] = 1 => e.op = "create" /\ e.arg = "t1" /\ e.next = 2 /\ e.else = -1
           /\ pc[t] = 2 => e.op = "create" /\ e.arg = "t2" /\ e.next = 3 /\ e.else = -1
           /\ pc[t] = 3 => e.op = "join" /\ e.arg = "t1" /\ e.next = 4 /\ e.else = 4
           /\ pc[t] = 4 => e.op = "join" /\ e.arg = "t2" /\ e.next = 5 /\ e.else = 5
           /\ pc[t] = 5 => e.op = "load" /\ e.arg = "value" /\ e.next = 6 /\ e.else = 6
           /\ pc[t] = 6 => e.op = "report" /\ e.next = 0 /\ e.else = 0
BY c11mutexMain DEF Entry, Do, Or

LEMMA c11mutexStep == ASSUME c11mutexInv, NEW t \in Threads, Execute(t) PROVE c11mutexInv'
<1>1. /\ pc \in [Threads -> Int] /\ turns \in [Threads -> Nat] /\ lock \in Mutexes
      /\ reg = [u \in Threads |-> reg[u]] /\ mem = [c \in Cells |-> mem[c]]
      /\ obj \in [Threads -> {"none", "joinable", "done", "detached"}]
      /\ over = "no" /\ pc[t] > 0
  BY ByOp DEF c11mutexInv, Typed, Runs
<1>2. /\ code["main"] = c11mutex["main"] /\ code["t1"] = Writer(increment)
      /\ code["t2"] = Writer(increment)
  BY DEF c11mutexInv, c11mutex
<1>3. CASE t = "main"
  <2>0. Typed'
    <3>1. pc[t] \in 1..6
      BY <1>1, <1>3 DEF c11mutexInv, Counted, Writing, Managed, Strict, Mutexes
    <3>2. Entry(t).next \in Int /\ Entry(t).else \in Int /\ Entry(t).op # "any"
      BY <1>2, <1>3, <3>1, c11mutexEntries
    <3> QED
      BY <3>2, TypedStep DEF c11mutexInv
  <2>1. CASE pc[t] = 1
    <3>1. /\ Entry(t).op = "create" /\ Entry(t).arg = "t1" /\ Entry(t).next = 2
          /\ Entry(t).else = -1
      BY <1>2, <1>3, <2>1, c11mutexEntries
    <3> QED
      BY <1>1, <1>3, <2>1, <2>0, <3>1, Creates, LoopsAssumption DEF c11mutexInv, Moves,
         Counted, Writing, Managed, Strict, Mutexes, Threads, Cells
  <2>2. CASE pc[t] = 2
    <3>1. /\ Entry(t).op = "create" /\ Entry(t).arg = "t2" /\ Entry(t).next = 3
          /\ Entry(t).else = -1
      BY <1>2, <1>3, <2>2, c11mutexEntries
    <3> QED
      BY <1>1, <1>3, <2>2, <2>0, <3>1, Creates, LoopsAssumption DEF c11mutexInv, Moves,
         Counted, Writing, Managed, Strict, Mutexes, Threads, Cells
  <2>3. CASE pc[t] = 3
    <3>1. Entry(t).op = "join" /\ Entry(t).arg = "t1" /\ Entry(t).next = 4 /\ Entry(t).else = 4
      BY <1>2, <1>3, <2>3, c11mutexEntries
    <3> QED
      BY <1>1, <1>3, <2>3, <2>0, <3>1, Joins, LoopsAssumption DEF c11mutexInv, Moves, Counted,
         Writing, Managed, Strict, Mutexes, Threads, Cells
  <2>4. CASE pc[t] = 4
    <3>1. Entry(t).op = "join" /\ Entry(t).arg = "t2" /\ Entry(t).next = 5 /\ Entry(t).else = 5
      BY <1>2, <1>3, <2>4, c11mutexEntries
    <3> QED
      BY <1>1, <1>3, <2>4, <2>0, <3>1, Joins, LoopsAssumption DEF c11mutexInv, Moves, Counted,
         Writing, Managed, Strict, Mutexes, Threads, Cells
  <2>5. CASE pc[t] = 5
    <3>1. /\ Entry(t).op = "load" /\ Entry(t).arg = "value" /\ Entry(t).next = 6
          /\ Entry(t).else = 6
      BY <1>2, <1>3, <2>5, c11mutexEntries
    <3> QED
      BY <1>1, <1>3, <2>5, <2>0, <3>1, Loads, LoopsAssumption DEF c11mutexInv, Moves, Counted,
         Writing, Managed, Strict, Mutexes, Threads, Cells
  <2>6. CASE pc[t] = 6
    <3>1. Entry(t).op = "report" /\ Entry(t).next = 0 /\ Entry(t).else = 0
      BY <1>2, <1>3, <2>6, c11mutexEntries
    <3> QED
      BY <1>1, <1>3, <2>6, <2>0, <3>1, Jumps, LoopsAssumption DEF c11mutexInv, Moves, Counted,
         Writing, Managed, Strict, Mutexes, Threads, Cells
  <2> QED
    BY <1>1, <1>3, <2>1, <2>2, <2>3, <2>4, <2>5, <2>6 DEF c11mutexInv, Counted, Writing,
       Managed, Strict, Mutexes
<1>4. CASE t \in {"t1", "t2"}
  <2>0. Typed'
    <3>1. pc[t] \in 1..5
      BY <1>1, <1>4 DEF c11mutexInv, Counted, Writing, Managed, Strict, Mutexes
    <3>2. Entry(t).next \in Int /\ Entry(t).else \in Int /\ Entry(t).op # "any"
      BY <1>2, <1>4, <3>1, WriterEntries
    <3> QED
      BY <3>2, TypedStep DEF c11mutexInv
  <2>1. CASE pc[t] = 1
    <3>1. Entry(t).op = "write_lock" /\ Entry(t).next = 2 /\ Entry(t).else = 2
      BY <1>2, <1>4, <2>1, WriterEntries
    <3> QED
      BY <1>1, <1>4, <2>1, <2>0, <3>1, WriteLocks, LoopsAssumption DEF c11mutexInv, Moves,
         Counted, Writing, Managed, Strict, Mutexes, Threads, Cells
  <2>2. CASE pc[t] = 2
    <3>1. /\ Entry(t).op = "load" /\ Entry(t).arg = "value" /\ Entry(t).next = 3
          /\ Entry(t).else = 3
      BY <1>2, <1>4, <2>2, WriterEntries
    <3> QED
      BY <1>1, <1>4, <2>2, <2>0, <3>1, Loads, LoopsAssumption DEF c11mutexInv, Moves, Counted,
         Writing, Managed, Strict, Mutexes, Threads, Cells
  <2>3. CASE pc[t] = 3
    <3>1. /\ Entry(t).op = "store_next" /\ Entry(t).arg = "value" /\ Entry(t).next = 4
          /\ Entry(t).else = 4
      BY <1>2, <1>4, <2>3, WriterEntries
    <3>2. reg[t] = mem.value
      BY <1>4, <2>3 DEF c11mutexInv, Counted, Writing, Managed, Strict, Mutexes
    <3>3. /\ mem' = [mem EXCEPT !.value = mem.value + 1] /\ Moves(t, 4)
          /\ UNCHANGED <<reg, turns, lock, obj, failed>>
      BY <3>1, <3>2, StoresNext
    <3> QED
      BY <1>1, <1>4, <2>3, <2>0, <3>3, LoopsAssumption DEF c11mutexInv, Moves, Counted,
         Writing, Managed, Strict, Mutexes, Threads, Cells
  <2>4. CASE pc[t] = 4
    <3>1. Entry(t).op = "write_unlock" /\ Entry(t).next = 5 /\ Entry(t).else = 5
      BY <1>2, <1>4, <2>4, WriterEntries
    <3> QED
      BY <1>1, <1>4, <2>4, <2>0, <3>1, WriteUnlocks, LoopsAssumption DEF c11mutexInv, Moves,
         Counted, Writing, Managed, Strict, Mutexes, Threads, Cells
  <2>5. CASE pc[t] = 5
    <3>1. Entry(t).op = "again" /\ Entry(t).next = 1 /\ Entry(t).else = 0
      BY <1>2, <1>4, <2>5, WriterEntries
    <3> QED
      BY <1>1, <1>4, <2>5, <2>0, <3>1, Turns, LoopsAssumption DEF c11mutexInv, Moves, Counted,
         Writing, Managed, Strict, Mutexes, Threads, Cells
  <2> QED
    BY <1>1, <1>4, <2>1, <2>2, <2>3, <2>4, <2>5 DEF c11mutexInv, Counted, Writing, Managed,
       Strict, Mutexes
<1> QED
  BY <1>1, <1>3, <1>4 DEF c11mutexInv, Threads, Counted, Writing, Managed, Strict, Mutexes

LEMMA c11mutexWakeup == ASSUME c11mutexInv, SpuriousWakeup PROVE c11mutexInv'
BY TypedWakeup, Wakeups DEF c11mutexInv, Counted, Writing, Managed, Strict, Mutexes

LEMMA c11mutexInit == ASSUME Init, prog = "c11mutex" PROVE c11mutexInv
BY TypedInit, Starts, LoopsAssumption DEF c11mutexInv, Table, Threads, Counted, Writing,
   Managed, Strict, Mutexes

LEMMA c11mutexNext == ASSUME c11mutexInv, [Next]_vars PROVE c11mutexInv'
<1>1. CASE UNCHANGED vars
  BY <1>1 DEF vars, c11mutexInv, Typed, Counted, Writing, Managed, Strict
<1>2. CASE SpuriousWakeup
  BY <1>2, c11mutexWakeup
<1>3. CASE \E t \in Threads : Execute(t)
  BY <1>3, c11mutexStep
<1> QED
  BY <1>1, <1>2, <1>3 DEF Next

LEMMA c11mutexShows ==
    ASSUME c11mutexInv, prog = "c11mutex"
    PROVE  ExactCounts /\ WholeResults /\ StartedInOrder
<1>1. ASSUME NEW t \in Threads, Runs(t)
      PROVE  /\ Entry(t).op \notin {"print", "print_time"}
              /\ (Entry(t).op = "report" => pc["main"] = 6)
  <2>1. /\ code["main"] = c11mutex["main"] /\ code["t1"] = Writer(increment)
        /\ code["t2"] = Writer(increment)
    BY DEF c11mutexInv, c11mutex
  <2>2. CASE t = "main"
    BY <1>1, <2>1, <2>2, c11mutexEntries DEF c11mutexInv, Runs, Counted, Writing, Managed,
       Strict, Mutexes
  <2>3. CASE t \in {"t1", "t2"}
    BY <1>1, <2>1, <2>3, WriterEntries DEF c11mutexInv, Runs, Counted, Writing, Managed,
       Strict, Mutexes
  <2> QED
    BY <1>1, <2>2, <2>3 DEF c11mutexInv, Threads, Runs, Counted, Writing, Managed, Strict,
       Mutexes
<1>2. ExactCounts
  BY <1>1 DEF ExactCounts, At, Runs, Threads, c11mutexInv, Counted, Writing, Managed, Strict,
     Mutexes
<1>3. WholeResults
  BY <1>1 DEF WholeResults, At, Runs, Threads, c11mutexInv, Counted, Writing, Managed, Strict,
     Mutexes
<1>4. StartedInOrder
  BY <1>1 DEF StartedInOrder, At, Runs, Threads, c11mutexInv, Counted, Writing, Managed,
     Strict, Mutexes
<1> QED
  BY <1>2, <1>3, <1>4

-----------------------------------------------------------------------------
(* normal_mutex: three workers that never return.                          *)

LEMMA normal_mutexEntries ==
    ASSUME NEW t, code[t] = normal_mutex["main"]
    PROVE  LET e == Entry(t) IN
           /\ pc[t] = 1 => e.op = "create" /\ e.arg = "t1" /\ e.next = 2 /\ e.else = 2
           /\ pc[t] = 2 => e.op = "create" /\ e.arg = "t2" /\ e.next = 3 /\ e.else = 3
           /\ pc[t] = 3 => e.op = "create" /\ e.arg = "t3" /\ e.next = 4 /\ e.else = 4
           /\ pc[t] = 4 => e.op = "join" /\ e.arg = "t1" /\ e.next = 5 /\ e.else = 5
           /\ pc[t] = 5 => e.op = "join" /\ e.arg = "t2" /\ e.next = 6 /\ e.else = 6
           /\ pc[t] = 6 => e.op = "join" /\ e.arg = "t3" /\ e.next = 7 /\ e.else = 7
           /\ pc[t] = 7 => e.op = "destroy" /\ e.next = 0 /\ e.else = 0
BY normal_mutexMain DEF Entry, Do, Or

LEMMA WorkerEntries ==
    ASSUME NEW t, code[t] = worker_thread
    PROVE  LET e == Entry(t) IN
           /\ pc[t] = 1 => e.op = "write_lock" /\ e.next = 2 /\ e.else = 2
           /\ pc[t] = 2 => e.op = "load" /\ e.arg = "value" /\ e.next = 3 /\ e.else = 3
           /\ pc[t] = 3 => e.op = "store_next" /\ e.arg = "value" /\ e.next = 4 /\ e.else = 4
           /\ pc[t] = 4 => e.op = "print" /\ e.next = 5 /\ e.else = 5
           /\ pc[t] = 5 => e.op = "write_unlock" /\ e.next = 6 /\ e.else = 6
           /\ pc[t] = 6 => e.op = "again" /\ e.next = 1 /\ e.else = 7
           /\ pc[t] = 7 => e.op = "rest" /\ e.next = 7 /\ e.else = 7
BY DEF worker_thread, Entry, Do, Or, Terminate

LEMMA normal_mutexStep ==
    ASSUME normal_mutexInv, NEW t \in Threads, Execute(t)
    PROVE  normal_mutexInv'
<1>1. /\ pc \in [Threads -> Int] /\ turns \in [Threads -> Nat] /\ lock \in Mutexes
      /\ reg = [u \in Threads |-> reg[u]] /\ mem = [c \in Cells |-> mem[c]]
      /\ obj \in [Threads -> {"none", "joinable", "done", "detached"}]
      /\ over = "no" /\ pc[t] > 0
  BY ByOp DEF normal_mutexInv, Typed, Runs
<1>2. /\ code["main"] = normal_mutex["main"] /\ code["t1"] = worker_thread
      /\ code["t2"] = worker_thread /\ code["t3"] = worker_thread
  BY DEF normal_mutexInv, normal_mutex
<1>3. CASE t = "main"
  <2>0. Typed'
    <3>1. pc[t] \in 1..7
      BY <1>1, <1>3 DEF normal_mutexInv, Working, Mutexes
    <3>2. Entry(t).next \in Int /\ Entry(t).else \in Int /\ Entry(t).op # "any"
      BY <1>2, <1>3, <3>1, normal_mutexEntries
    <3> QED
      BY <3>2, TypedStep DEF normal_mutexInv
  <2>1. CASE pc[t] = 1
    <3>1. /\ Entry(t).op = "create" /\ Entry(t).arg = "t1" /\ Entry(t).next = 2
          /\ Entry(t).else = 2
      BY <1>2, <1>3, <2>1, normal_mutexEntries
    <3> QED
      BY <1>1, <1>3, <2>1, <2>0, <3>1, Creates DEF normal_mutexInv, Moves, Working, Mutexes,
         Threads, Cells
  <2>2. CASE pc[t] = 2
    <3>1. /\ Entry(t).op = "create" /\ Entry(t).arg = "t2" /\ Entry(t).next = 3
          /\ Entry(t).else = 3
      BY <1>2, <1>3, <2>2, normal_mutexEntries
    <3> QED
      BY <1>1, <1>3, <2>2, <2>0, <3>1, Creates DEF normal_mutexInv, Moves, Working, Mutexes,
         Threads, Cells
  <2>3. CASE pc[t] = 3
    <3>1. /\ Entry(t).op = "create" /\ Entry(t).arg = "t3" /\ Entry(t).next = 4
          /\ Entry(t).else = 4
      BY <1>2, <1>3, <2>3, normal_mutexEntries
    <3> QED
      BY <1>1, <1>3, <2>3, <2>0, <3>1, Creates DEF normal_mutexInv, Moves, Working, Mutexes,
         Threads, Cells
  <2>4. CASE pc[t] = 4
    <3>1. Entry(t).op = "join" /\ Entry(t).arg = "t1" /\ Entry(t).next = 5 /\ Entry(t).else = 5
      BY <1>2, <1>3, <2>4, normal_mutexEntries
    <3> QED
      BY <1>1, <1>3, <2>4, <2>0, <3>1, Joins DEF normal_mutexInv, Moves, Working, Mutexes,
         Threads, Cells
  <2>5. CASE pc[t] = 5
    <3>1. Entry(t).op = "join" /\ Entry(t).arg = "t2" /\ Entry(t).next = 6 /\ Entry(t).else = 6
      BY <1>2, <1>3, <2>5, normal_mutexEntries
    <3> QED
      BY <1>1, <1>3, <2>5, <2>0, <3>1, Joins DEF normal_mutexInv, Moves, Working, Mutexes,
         Threads, Cells
  <2>6. CASE pc[t] = 6
    <3>1. Entry(t).op = "join" /\ Entry(t).arg = "t3" /\ Entry(t).next = 7 /\ Entry(t).else = 7
      BY <1>2, <1>3, <2>6, normal_mutexEntries
    <3> QED
      BY <1>1, <1>3, <2>6, <2>0, <3>1, Joins DEF normal_mutexInv, Moves, Working, Mutexes,
         Threads, Cells
  <2>7. CASE pc[t] = 7
    <3>1. Entry(t).op = "destroy" /\ Entry(t).next = 0 /\ Entry(t).else = 0
      BY <1>2, <1>3, <2>7, normal_mutexEntries
    <3> QED
      BY <1>1, <1>3, <2>7, <2>0, <3>1, Destroys DEF normal_mutexInv, Moves, Working, Mutexes,
         Threads, Cells
  <2> QED
    BY <1>1, <1>3, <2>1, <2>2, <2>3, <2>4, <2>5, <2>6, <2>7 DEF normal_mutexInv, Working,
       Mutexes
<1>4. CASE t \in {"t1", "t2", "t3"}
  <2>0. Typed'
    <3>1. pc[t] \in 1..7
      BY <1>1, <1>4 DEF normal_mutexInv, Working, Mutexes
    <3>2. Entry(t).next \in Int /\ Entry(t).else \in Int /\ Entry(t).op # "any"
      BY <1>2, <1>4, <3>1, WorkerEntries
    <3> QED
      BY <3>2, TypedStep DEF normal_mutexInv
  <2>1. CASE pc[t] = 1
    <3>1. Entry(t).op = "write_lock" /\ Entry(t).next = 2 /\ Entry(t).else = 2
      BY <1>2, <1>4, <2>1, WorkerEntries
    <3> QED
      BY <1>1, <1>4, <2>1, <2>0, <3>1, WriteLocks DEF normal_mutexInv, Moves, Working, Mutexes,
         Threads, Cells
  <2>2. CASE pc[t] = 2
    <3>1. /\ Entry(t).op = "load" /\ Entry(t).arg = "value" /\ Entry(t).next = 3
          /\ Entry(t).else = 3
      BY <1>2, <1>4, <2>2, WorkerEntries
    <3> QED
      BY <1>1, <1>4, <2>2, <2>0, <3>1, Loads DEF normal_mutexInv, Moves, Working, Mutexes,
         Threads, Cells
  <2>3. CASE pc[t] = 3
    <3>1. /\ Entry(t).op = "store_next" /\ Entry(t).arg = "value" /\ Entry(t).next = 4
          /\ Entry(t).else = 4
      BY <1>2, <1>4, <2>3, WorkerEntries
    <3>2. reg[t] = mem.value
      BY <1>4, <2>3 DEF normal_mutexInv, Working, Mutexes
    <3>3. /\ mem' = [mem EXCEPT !.value = mem.value + 1] /\ Moves(t, 4)
          /\ UNCHANGED <<reg, turns, lock, obj, failed>>
      BY <3>1, <3>2, StoresNext
    <3> QED
      BY <1>1, <1>4, <2>3, <2>0, <3>3 DEF normal_mutexInv, Moves, Working, Mutexes, Threads,
         Cells
  <2>4. CASE pc[t] = 4
    <3>1. Entry(t).op = "print" /\ Entry(t).next = 5 /\ Entry(t).else = 5
      BY <1>2, <1>4, <2>4, WorkerEntries
    <3> QED
      BY <1>1, <1>4, <2>4, <2>0, <3>1, Jumps DEF normal_mutexInv, Moves, Working, Mutexes,
         Threads, Cells
  <2>5. CASE pc[t] = 5
    <3>1. Entry(t).op = "write_unlock" /\ Entry(t).next = 6 /\ Entry(t).else = 6
      BY <1>2, <1>4, <2>5, WorkerEntries
    <3> QED
      BY <1>1, <1>4, <2>5, <2>0, <3>1, WriteUnlocks DEF normal_mutexInv, Moves, Working,
         Mutexes, Threads, Cells
  <2>6. CASE pc[t] = 6
    <3>1. Entry(t).op = "again" /\ Entry(t).next = 1 /\ Entry(t).else = 7
      BY <1>2, <1>4, <2>6, WorkerEntries
    <3> QED
      BY <1>1, <1>4, <2>6, <2>0, <3>1, Turns DEF normal_mutexInv, Moves, Working, Mutexes,
         Threads, Cells
  <2>7. CASE pc[t] = 7
    <3>1. Entry(t).op = "rest" /\ Entry(t).next = 7 /\ Entry(t).else = 7
      BY <1>2, <1>4, <2>7, WorkerEntries
    <3> QED
      BY <3>1, ByOp
  <2> QED
    BY <1>1, <1>4, <2>1, <2>2, <2>3, <2>4, <2>5, <2>6, <2>7 DEF normal_mutexInv, Working,
       Mutexes
<1> QED
  BY <1>1, <1>3, <1>4 DEF normal_mutexInv, Threads, Working, Mutexes

LEMMA normal_mutexWakeup == ASSUME normal_mutexInv, SpuriousWakeup PROVE normal_mutexInv'
BY TypedWakeup, Wakeups DEF normal_mutexInv, Working, Mutexes

LEMMA normal_mutexInit == ASSUME Init, prog = "normal_mutex" PROVE normal_mutexInv
BY TypedInit, Starts, LoopsAssumption DEF normal_mutexInv, Table, Threads, Working, Mutexes

LEMMA normal_mutexNext == ASSUME normal_mutexInv, [Next]_vars PROVE normal_mutexInv'
<1>1. CASE UNCHANGED vars
  BY <1>1 DEF vars, normal_mutexInv, Typed, Working
<1>2. CASE SpuriousWakeup
  BY <1>2, normal_mutexWakeup
<1>3. CASE \E t \in Threads : Execute(t)
  BY <1>3, normal_mutexStep
<1> QED
  BY <1>1, <1>2, <1>3 DEF Next

LEMMA normal_mutexShows ==
    ASSUME normal_mutexInv, prog = "normal_mutex"
    PROVE  ExactCounts /\ WholeResults /\ StartedInOrder
<1>1. ASSUME NEW t \in Threads, Runs(t)
      PROVE  Entry(t).op # "print_time" /\ (Entry(t).op = "print" => mem.value = reg[t] + 1)
  <2>1. /\ code["main"] = normal_mutex["main"] /\ code["t1"] = worker_thread
        /\ code["t2"] = worker_thread /\ code["t3"] = worker_thread
    BY DEF normal_mutexInv, normal_mutex
  <2>2. CASE t = "main"
    BY <1>1, <2>1, <2>2, normal_mutexEntries DEF normal_mutexInv, Runs, Working, Mutexes
  <2>3. CASE t \in {"t1", "t2", "t3"}
    BY <1>1, <2>1, <2>3, WorkerEntries DEF normal_mutexInv, Runs, Working, Mutexes
  <2> QED
    BY <1>1, <2>2, <2>3 DEF normal_mutexInv, Threads, Runs, Working, Mutexes
<1>2. ExactCounts
  BY <1>1 DEF ExactCounts, At, Runs, Threads, normal_mutexInv, Working, Mutexes
<1>3. WholeResults
  BY <1>1 DEF WholeResults, At, Runs, Threads, normal_mutexInv, Working, Mutexes
<1>4. StartedInOrder
  BY <1>1 DEF StartedInOrder, At, Runs, Threads, normal_mutexInv, Working, Mutexes
<1> QED
  BY <1>2, <1>3, <1>4

-----------------------------------------------------------------------------
(* makesurethreadgroup: main waits for each thread in turn.                *)

LEMMA makesurethreadgroupEntries ==
    ASSUME NEW t, code[t] = makesurethreadgroup["main"]
    PROVE  LET e == Entry(t) IN
           /\ pc[t] = 1 => e.op = "set" /\ e.arg = [success |-> FALSE] /\ e.next = 2 /\ e.else = 2
           /\ pc[t] = 2 => e.op = "create" /\ e.arg = "t1" /\ e.next = 3 /\ e.else = -1
           /\ pc[t] = 3 => e.op = "write_lock" /\ e.next = 4 /\ e.else = 4
           /\ pc[t] = 4 => e.op = "is" /\ e.arg = [success |-> TRUE] /\ e.next = 6 /\ e.else = 5
           /\ pc[t] = 5 => e.op = "cv_wait" /\ e.next = 3 /\ e.else = 3
           /\ pc[t] = 6 => e.op = "write_unlock" /\ e.next = 7 /\ e.else = 7
           /\ pc[t] = 7 => e.op = "set" /\ e.arg = [success |-> FALSE] /\ e.next = 8 /\ e.else = 8
           /\ pc[t] = 8 => e.op = "create" /\ e.arg = "t2" /\ e.next = 9 /\ e.else = -1
           /\ pc[t] = 9 => e.op = "write_lock" /\ e.next = 10 /\ e.else = 10
           /\ pc[t] = 10 => e.op = "is" /\ e.arg = [success |-> TRUE] /\ e.next = 12 /\ e.else = 11
           /\ pc[t] = 11 => e.op = "cv_wait" /\ e.next = 9 /\ e.else = 9
           /\ pc[t] = 12 => e.op = "write_unlock" /\ e.next = 13 /\ e.else = 13
           /\ pc[t] = 13 => e.op = "set" /\ e.arg = [success |-> FALSE] /\ e.next = 14 /\ e.else = 14
           /\ pc[t] = 14 => e.op = "create" /\ e.arg = "t3" /\ e.next = 15 /\ e.else = -1
           /\ pc[t] = 15 => e.op = "write_lock" /\ e.next = 16 /\ e.else = 16
           /\ pc[t] = 16 => e.op = "is" /\ e.arg = [success |-> TRUE] /\ e.next = 18 /\ e.else = 17
           /\ pc[t] = 17 => e.op = "cv_wait" /\ e.next = 15 /\ e.else = 15
           /\ pc[t] = 18 => e.op = "write_unlock" /\ e.next = 19 /\ e.else = 19
           /\ pc[t] = 19 => e.op = "join" /\ e.arg = "t1" /\ e.next = 20 /\ e.else = 20
           /\ pc[t] = 20 => e.op = "join" /\ e.arg = "t2" /\ e.next = 21 /\ e.else = 21
           /\ pc[t] = 21 => e.op = "join" /\ e.arg = "t3" /\ e.next = 22 /\ e.else = 22
<1> DEFINE yes == TRUE
           no == FALSE
           e == Entry(t)
<1>1. LET r == makesurethreadgroup["main"] IN
      /\ r[1] = Do("set", [success |-> no], 2)
      /\ r[2] = Or("create", "t1", 3, -1)
      /\ r[3] = Do("write_lock", "m", 4)
      /\ r[4] = Or("is", [success |-> yes], 6, 5)
      /\ r[5] = Do("cv_wait", "m", 3)
      /\ r[6] = Do("write_unlock", "m", 7)
      /\ r[7] = Do("set", [success |-> no], 8)
      /\ r[8] = Or("create", "t2", 9, -1)
      /\ r[9] = Do("write_lock", "m", 10)
      /\ r[10] = Or("is", [success |-> yes], 12, 11)
      /\ r[11] = Do("cv_wait", "m", 9)
      /\ r[12] = Do("write_unlock", "m", 13)
      /\ r[13] = Do("set", [success |-> no], 14)
      /\ r[14] = Or("create", "t3", 15, -1)
      /\ r[15] = Do("write_lock", "m", 16)
      /\ r[16] = Or("is", [success |-> yes], 18, 17)
      /\ r[17] = Do("cv_wait", "m", 15)
      /\ r[18] = Do("write_unlock", "m", 19)
      /\ r[19] = Do("join", "t1", 20)
      /\ r[20] = Do("join", "t2", 21)
      /\ r[21] = Do("join", "t3", 22)
  BY makesurethreadgroupMain
<1> HIDE DEF yes, no
<1>2.
      /\ pc[t] = 1 => e.op = "set" /\ e.arg = [success |-> no] /\ e.next = 2 /\ e.else = 2
      /\ pc[t] = 2 => e.op = "create" /\ e.arg = "t1" /\ e.next = 3 /\ e.else = -1
      /\ pc[t] = 3 => e.op = "write_lock" /\ e.next = 4 /\ e.else = 4
      /\ pc[t] = 4 => e.op = "is" /\ e.arg = [success |-> yes] /\ e.next = 6 /\ e.else = 5
      /\ pc[t] = 5 => e.op = "cv_wait" /\ e.next = 3 /\ e.else = 3
      /\ pc[t] = 6 => e.op = "write_unlock" /\ e.next = 7 /\ e.else = 7
      /\ pc[t] = 7 => e.op = "set" /\ e.arg = [success |-> no] /\ e.next = 8 /\ e.else = 8
      /\ pc[t] = 8 => e.op = "create" /\ e.arg = "t2" /\ e.next = 9 /\ e.else = -1
      /\ pc[t] = 9 => e.op = "write_lock" /\ e.next = 10 /\ e.else = 10
      /\ pc[t] = 10 => e.op = "is" /\ e.arg = [success |-> yes] /\ e.next = 12 /\ e.else = 11
      /\ pc[t] = 11 => e.op = "cv_wait" /\ e.next = 9 /\ e.else = 9
      /\ pc[t] = 12 => e.op = "write_unlock" /\ e.next = 13 /\ e.else = 13
      /\ pc[t] = 13 => e.op = "set" /\ e.arg = [success |-> no] /\ e.next = 14 /\ e.else = 14
      /\ pc[t] = 14 => e.op = "create" /\ e.arg = "t3" /\ e.next = 15 /\ e.else = -1
      /\ pc[t] = 15 => e.op = "write_lock" /\ e.next = 16 /\ e.else = 16
      /\ pc[t] = 16 => e.op = "is" /\ e.arg = [success |-> yes] /\ e.next = 18 /\ e.else = 17
      /\ pc[t] = 17 => e.op = "cv_wait" /\ e.next = 15 /\ e.else = 15
      /\ pc[t] = 18 => e.op = "write_unlock" /\ e.next = 19 /\ e.else = 19
      /\ pc[t] = 19 => e.op = "join" /\ e.arg = "t1" /\ e.next = 20 /\ e.else = 20
      /\ pc[t] = 20 => e.op = "join" /\ e.arg = "t2" /\ e.next = 21 /\ e.else = 21
      /\ pc[t] = 21 => e.op = "join" /\ e.arg = "t3" /\ e.next = 22 /\ e.else = 22
  BY <1>1 DEF Entry, Do, Or
<1> QED
  BY <1>2 DEF yes, no

LEMMA ReporterEntries ==
    ASSUME NEW t, code[t] = thread_func
    PROVE  LET e == Entry(t) IN
           /\ pc[t] = 1 => e.op = "write_lock" /\ e.next = 2 /\ e.else = 2
           /\ pc[t] = 2 => e.op = "set" /\ e.arg = [success |-> TRUE] /\ e.next = 3 /\ e.else = 3
           /\ pc[t] = 3 => e.op = "notify_all" /\ e.next = 4 /\ e.else = 4
           /\ pc[t] = 4 => e.op = "write_unlock" /\ e.next = 5 /\ e.else = 5
           /\ pc[t] = 5 => e.op = "rest" /\ e.next = 5 /\ e.else = 5
<1> DEFINE yes == TRUE
           no == FALSE
           e == Entry(t)
<1>1. LET r == thread_func IN
      /\ r[1] = Do("write_lock", "m", 2)
      /\ r[2] = Do("set", [success |-> yes], 3)
      /\ r[3] = Do("notify_all", "none", 4)
      /\ r[4] = Do("write_unlock", "m", 5)
      /\ r[5] = Do("rest", "none", 5)
  BY DEF thread_func, Terminate
<1> HIDE DEF yes, no
<1>2.
      /\ pc[t] = 1 => e.op = "write_lock" /\ e.next = 2 /\ e.else = 2
      /\ pc[t] = 2 => e.op = "set" /\ e.arg = [success |-> yes] /\ e.next = 3 /\ e.else = 3
      /\ pc[t] = 3 => e.op = "notify_all" /\ e.next = 4 /\ e.else = 4
      /\ pc[t] = 4 => e.op = "write_unlock" /\ e.next = 5 /\ e.else = 5
      /\ pc[t] = 5 => e.op = "rest" /\ e.next = 5 /\ e.else = 5
  BY <1>1 DEF Entry, Do, Or
<1> QED
  BY <1>2 DEF yes, no

LEMMA makesurethreadgroupStep ==
    ASSUME makesurethreadgroupInv, NEW t \in Threads, Execute(t)
    PROVE  makesurethreadgroupInv'
<1>1. /\ pc \in [Threads -> Int] /\ turns \in [Threads -> Nat] /\ lock \in Mutexes
      /\ reg = [u \in Threads |-> reg[u]] /\ mem = [c \in Cells |-> mem[c]]
      /\ obj \in [Threads -> {"none", "joinable", "done", "detached"}]
      /\ over = "no" /\ pc[t] > 0
  BY ByOp DEF makesurethreadgroupInv, Typed, Runs
<1>2. /\ code["main"] = makesurethreadgroup["main"] /\ code["t1"] = thread_func
      /\ code["t2"] = thread_func /\ code["t3"] = thread_func
  BY DEF makesurethreadgroupInv, makesurethreadgroup
<1>3. CASE t = "main"
  <2>0. Typed'
    <3>1. pc[t] \in 1..21
      BY <1>1, <1>3 DEF makesurethreadgroupInv, Reporting, Strict, Mutexes
    <3>2. Entry(t).next \in Int /\ Entry(t).else \in Int /\ Entry(t).op # "any"
      BY <1>2, <1>3, <3>1, makesurethreadgroupEntries
    <3> QED
      BY <3>2, TypedStep DEF makesurethreadgroupInv
  <2>1. CASE pc[t] = 1
    <3>1. /\ Entry(t).op = "set" /\ Entry(t).arg = [success |-> FALSE] /\ Entry(t).next = 2
          /\ Entry(t).else = 2
      BY <1>2, <1>3, <2>1, makesurethreadgroupEntries
    <3>2. /\ mem' = [mem EXCEPT !.success = FALSE] /\ Moves(t, 2)
          /\ UNCHANGED <<reg, turns, lock, obj, failed>>
      BY <1>1, <3>1, Sets DEF Cells
    <3> QED
      BY <1>1, <1>3, <2>1, <2>0, <3>2 DEF makesurethreadgroupInv, Moves, Reporting, Strict,
         Mutexes, Threads, Cells
  <2>2. CASE pc[t] = 2
    <3>1. /\ Entry(t).op = "create" /\ Entry(t).arg = "t1" /\ Entry(t).next = 3
          /\ Entry(t).else = -1
      BY <1>2, <1>3, <2>2, makesurethreadgroupEntries
    <3> QED
      BY <1>1, <1>3, <2>2, <2>0, <3>1, Creates DEF makesurethreadgroupInv, Moves, Reporting,
         Strict, Mutexes, Threads, Cells
  <2>3. CASE pc[t] = 3
    <3>1. Entry(t).op = "write_lock" /\ Entry(t).next = 4 /\ Entry(t).else = 4
      BY <1>2, <1>3, <2>3, makesurethreadgroupEntries
    <3> QED
      BY <1>1, <1>3, <2>3, <2>0, <3>1, WriteLocks DEF makesurethreadgroupInv, Moves, Reporting,
         Strict, Mutexes, Threads, Cells
  <2>4. CASE pc[t] = 4
    <3>1. /\ Entry(t).op = "is" /\ Entry(t).arg = [success |-> TRUE] /\ Entry(t).next = 6
          /\ Entry(t).else = 5
      BY <1>2, <1>3, <2>4, makesurethreadgroupEntries
    <3>2. Matches(t) <=> mem.success = TRUE
      BY <3>1, Matches_success
    <3> QED
      BY <1>1, <1>3, <2>4, <2>0, <3>1, <3>2, Jumps DEF makesurethreadgroupInv, Moves,
         Reporting, Strict, Mutexes, Threads, Cells
  <2>5. CASE pc[t] = 5
    <3>1. Entry(t).op = "cv_wait" /\ Entry(t).next = 3 /\ Entry(t).else = 3
      BY <1>2, <1>3, <2>5, makesurethreadgroupEntries
    <3> QED
      BY <1>1, <1>3, <2>5, <2>0, <3>1, Waits DEF makesurethreadgroupInv, Moves, Reporting,
         Strict, Mutexes, Threads, Cells
  <2>6. CASE pc[t] = 6
    <3>1. Entry(t).op = "write_unlock" /\ Entry(t).next = 7 /\ Entry(t).else = 7
      BY <1>2, <1>3, <2>6, makesurethreadgroupEntries
    <3> QED
      BY <1>1, <1>3, <2>6, <2>0, <3>1, WriteUnlocks DEF makesurethreadgroupInv, Moves,
         Reporting, Strict, Mutexes, Threads, Cells
  <2>7. CASE pc[t] = 7
    <3>1. /\ Entry(t).op = "set" /\ Entry(t).arg = [success |-> FALSE] /\ Entry(t).next = 8
          /\ Entry(t).else = 8
      BY <1>2, <1>3, <2>7, makesurethreadgroupEntries
    <3>2. /\ mem' = [mem EXCEPT !.success = FALSE] /\ Moves(t, 8)
          /\ UNCHANGED <<reg, turns, lock, obj, failed>>
      BY <1>1, <3>1, Sets DEF Cells
    <3> QED
      BY <1>1, <1>3, <2>7, <2>0, <3>2 DEF makesurethreadgroupInv, Moves, Reporting, Strict,
         Mutexes, Threads, Cells
  <2>8. CASE pc[t] = 8
    <3>1. /\ Entry(t).op = "create" /\ Entry(t).arg = "t2" /\ Entry(t).next = 9
          /\ Entry(t).else = -1
      BY <1>2, <1>3, <2>8, makesurethreadgroupEntries
    <3> QED
      BY <1>1, <1>3, <2>8, <2>0, <3>1, Creates DEF makesurethreadgroupInv, Moves, Reporting,
         Strict, Mutexes, Threads, Cells
  <2>9. CASE pc[t] = 9
    <3>1. Entry(t).op = "write_lock" /\ Entry(t).next = 10 /\ Entry(t).else = 10
      BY <1>2, <1>3, <2>9, makesurethreadgroupEntries
    <3> QED
      BY <1>1, <1>3, <2>9, <2>0, <3>1, WriteLocks DEF makesurethreadgroupInv, Moves, Reporting,
         Strict, Mutexes, Threads, Cells
  <2>10. CASE pc[t] = 10
    <3>1. /\ Entry(t).op = "is" /\ Entry(t).arg = [success |-> TRUE] /\ Entry(t).next = 12
          /\ Entry(t).else = 11
      BY <1>2, <1>3, <2>10, makesurethreadgroupEntries
    <3>2. Matches(t) <=> mem.success = TRUE
      BY <3>1, Matches_success
    <3> QED
      BY <1>1, <1>3, <2>10, <2>0, <3>1, <3>2, Jumps DEF makesurethreadgroupInv, Moves,
         Reporting, Strict, Mutexes, Threads, Cells
  <2>11. CASE pc[t] = 11
    <3>1. Entry(t).op = "cv_wait" /\ Entry(t).next = 9 /\ Entry(t).else = 9
      BY <1>2, <1>3, <2>11, makesurethreadgroupEntries
    <3> QED
      BY <1>1, <1>3, <2>11, <2>0, <3>1, Waits DEF makesurethreadgroupInv, Moves, Reporting,
         Strict, Mutexes, Threads, Cells
  <2>12. CASE pc[t] = 12
    <3>1. Entry(t).op = "write_unlock" /\ Entry(t).next = 13 /\ Entry(t).else = 13
      BY <1>2, <1>3, <2>12, makesurethreadgroupEntries
    <3> QED
      BY <1>1, <1>3, <2>12, <2>0, <3>1, WriteUnlocks DEF makesurethreadgroupInv, Moves,
         Reporting, Strict, Mutexes, Threads, Cells
  <2>13. CASE pc[t] = 13
    <3>1. /\ Entry(t).op = "set" /\ Entry(t).arg = [success |-> FALSE] /\ Entry(t).next = 14
          /\ Entry(t).else = 14
      BY <1>2, <1>3, <2>13, makesurethreadgroupEntries
    <3>2. /\ mem' = [mem EXCEPT !.success = FALSE] /\ Moves(t, 14)
          /\ UNCHANGED <<reg, turns, lock, obj, failed>>
      BY <1>1, <3>1, Sets DEF Cells
    <3> QED
      BY <1>1, <1>3, <2>13, <2>0, <3>2 DEF makesurethreadgroupInv, Moves, Reporting, Strict,
         Mutexes, Threads, Cells
  <2>14. CASE pc[t] = 14
    <3>1. /\ Entry(t).op = "create" /\ Entry(t).arg = "t3" /\ Entry(t).next = 15
          /\ Entry(t).else = -1
      BY <1>2, <1>3, <2>14, makesurethreadgroupEntries
    <3> QED
      BY <1>1, <1>3, <2>14, <2>0, <3>1, Creates DEF makesurethreadgroupInv, Moves, Reporting,
         Strict, Mutexes, Threads, Cells
  <2>15. CASE pc[t] = 15
    <3>1. Entry(t).op = "write_lock" /\ Entry(t).next = 16 /\ Entry(t).else = 16
      BY <1>2, <1>3, <2>15, makesurethreadgroupEntries
    <3> QED
      BY <1>1, <1>3, <2>15, <2>0, <3>1, WriteLocks DEF makesurethreadgroupInv, Moves,
         Reporting, Strict, Mutexes, Threads, Cells
  <2>16. CASE pc[t] = 16
    <3>1. /\ Entry(t).op = "is" /\ Entry(t).arg = [success |-> TRUE] /\ Entry(t).next = 18
          /\ Entry(t).else = 17
      BY <1>2, <1>3, <2>16, makesurethreadgroupEntries
    <3>2. Matches(t) <=> mem.success = TRUE
      BY <3>1, Matches_success
    <3> QED
      BY <1>1, <1>3, <2>16, <2>0, <3>1, <3>2, Jumps DEF makesurethreadgroupInv, Moves,
         Reporting, Strict, Mutexes, Threads, Cells
  <2>17. CASE pc[t] = 17
    <3>1. Entry(t).op = "cv_wait" /\ Entry(t).next = 15 /\ Entry(t).else = 15
      BY <1>2, <1>3, <2>17, makesurethreadgroupEntries
    <3> QED
      BY <1>1, <1>3, <2>17, <2>0, <3>1, Waits DEF makesurethreadgroupInv, Moves, Reporting,
         Strict, Mutexes, Threads, Cells
  <2>18. CASE pc[t] = 18
    <3>1. Entry(t).op = "write_unlock" /\ Entry(t).next = 19 /\ Entry(t).else = 19
      BY <1>2, <1>3, <2>18, makesurethreadgroupEntries
    <3> QED
      BY <1>1, <1>3, <2>18, <2>0, <3>1, WriteUnlocks DEF makesurethreadgroupInv, Moves,
         Reporting, Strict, Mutexes, Threads, Cells
  <2>19. CASE pc[t] = 19
    <3>1. /\ Entry(t).op = "join" /\ Entry(t).arg = "t1" /\ Entry(t).next = 20
          /\ Entry(t).else = 20
      BY <1>2, <1>3, <2>19, makesurethreadgroupEntries
    <3> QED
      BY <1>1, <1>3, <2>19, <2>0, <3>1, Joins DEF makesurethreadgroupInv, Moves, Reporting,
         Strict, Mutexes, Threads, Cells
  <2>20. CASE pc[t] = 20
    <3>1. /\ Entry(t).op = "join" /\ Entry(t).arg = "t2" /\ Entry(t).next = 21
          /\ Entry(t).else = 21
      BY <1>2, <1>3, <2>20, makesurethreadgroupEntries
    <3> QED
      BY <1>1, <1>3, <2>20, <2>0, <3>1, Joins DEF makesurethreadgroupInv, Moves, Reporting,
         Strict, Mutexes, Threads, Cells
  <2>21. CASE pc[t] = 21
    <3>1. /\ Entry(t).op = "join" /\ Entry(t).arg = "t3" /\ Entry(t).next = 22
          /\ Entry(t).else = 22
      BY <1>2, <1>3, <2>21, makesurethreadgroupEntries
    <3> QED
      BY <1>1, <1>3, <2>21, <2>0, <3>1, Joins DEF makesurethreadgroupInv, Moves, Reporting,
         Strict, Mutexes, Threads, Cells
  <2> QED
    BY <1>1, <1>3, <2>1, <2>2, <2>3, <2>4, <2>5, <2>6, <2>7, <2>8, <2>9, <2>10, <2>11, <2>12,
       <2>13, <2>14, <2>15, <2>16, <2>17, <2>18, <2>19, <2>20,
       <2>21 DEF makesurethreadgroupInv, Reporting, Strict, Mutexes
<1>4. CASE t \in {"t1", "t2", "t3"}
  <2>0. Typed'
    <3>1. pc[t] \in 1..5
      BY <1>1, <1>4 DEF makesurethreadgroupInv, Reporting, Strict, Mutexes
    <3>2. Entry(t).next \in Int /\ Entry(t).else \in Int /\ Entry(t).op # "any"
      BY <1>2, <1>4, <3>1, ReporterEntries
    <3> QED
      BY <3>2, TypedStep DEF makesurethreadgroupInv
  <2>1. CASE pc[t] = 1
    <3>1. Entry(t).op = "write_lock" /\ Entry(t).next = 2 /\ Entry(t).else = 2
      BY <1>2, <1>4, <2>1, ReporterEntries
    <3> QED
      BY <1>1, <1>4, <2>1, <2>0, <3>1, WriteLocks DEF makesurethreadgroupInv, Moves, Reporting,
         Strict, Mutexes, Threads, Cells
  <2>2. CASE pc[t] = 2
    <3>1. /\ Entry(t).op = "set" /\ Entry(t).arg = [success |-> TRUE] /\ Entry(t).next = 3
          /\ Entry(t).else = 3
      BY <1>2, <1>4, <2>2, ReporterEntries
    <3>2. /\ mem' = [mem EXCEPT !.success = TRUE] /\ Moves(t, 3)
          /\ UNCHANGED <<reg, turns, lock, obj, failed>>
      BY <1>1, <3>1, Sets DEF Cells
    <3> QED
      BY <1>1, <1>4, <2>2, <2>0, <3>2 DEF makesurethreadgroupInv, Moves, Reporting, Strict,
         Mutexes, Threads, Cells
  <2>3. CASE pc[t] = 3
    <3>1. Entry(t).op = "notify_all" /\ Entry(t).next = 4 /\ Entry(t).else = 4
      BY <1>2, <1>4, <2>3, ReporterEntries
    <3> QED
      BY <1>1, <1>4, <2>3, <2>0, <3>1, Notifies DEF makesurethreadgroupInv, Moves, Reporting,
         Strict, Mutexes, Threads, Cells
  <2>4. CASE pc[t] = 4
    <3>1. Entry(t).op = "write_unlock" /\ Entry(t).next = 5 /\ Entry(t).else = 5
      BY <1>2, <1>4, <2>4, ReporterEntries
    <3> QED
      BY <1>1, <1>4, <2>4, <2>0, <3>1, WriteUnlocks DEF makesurethreadgroupInv, Moves,
         Reporting, Strict, Mutexes, Threads, Cells
  <2>5. CASE pc[t] = 5
    <3>1. Entry(t).op = "rest" /\ Entry(t).next = 5 /\ Entry(t).else = 5
      BY <1>2, <1>4, <2>5, ReporterEntries
    <3> QED
      BY <3>1, ByOp
  <2> QED
    BY <1>1, <1>4, <2>1, <2>2, <2>3, <2>4, <2>5 DEF makesurethreadgroupInv, Reporting, Strict,
       Mutexes
<1> QED
  BY <1>1, <1>3, <1>4 DEF makesurethreadgroupInv, Threads, Reporting, Strict, Mutexes

LEMMA makesurethreadgroupWakeup ==
    ASSUME makesurethreadgroupInv, SpuriousWakeup
    PROVE  makesurethreadgroupInv'
BY TypedWakeup, Wakeups DEF makesurethreadgroupInv, Reporting, Strict, Mutexes

LEMMA makesurethreadgroupInit ==
    ASSUME Init, prog = "makesurethreadgroup"
    PROVE  makesurethreadgroupInv
BY TypedInit, Starts, LoopsAssumption DEF makesurethreadgroupInv, Table, Threads, Reporting,
   Strict, Mutexes

LEMMA makesurethreadgroupNext ==
    ASSUME makesurethreadgroupInv, [Next]_vars
    PROVE  makesurethreadgroupInv'
<1>1. CASE UNCHANGED vars
  BY <1>1 DEF vars, makesurethreadgroupInv, Typed, Reporting, Strict
<1>2. CASE SpuriousWakeup
  BY <1>2, makesurethreadgroupWakeup
<1>3. CASE \E t \in Threads : Execute(t)
  BY <1>3, makesurethreadgroupStep
<1> QED
  BY <1>1, <1>2, <1>3 DEF Next

LEMMA makesurethreadgroupShows ==
    ASSUME makesurethreadgroupInv, prog = "makesurethreadgroup"
    PROVE  ExactCounts /\ WholeResults /\ StartedInOrder
<1>1. ASSUME NEW t \in Threads, Runs(t)
      PROVE  Entry(t).op \notin {"print", "print_time"}
  <2>1. /\ code["main"] = makesurethreadgroup["main"] /\ code["t1"] = thread_func
        /\ code["t2"] = thread_func /\ code["t3"] = thread_func
    BY DEF makesurethreadgroupInv, makesurethreadgroup
  <2>2. CASE t = "main"
    BY <1>1, <2>1, <2>2, makesurethreadgroupEntries DEF makesurethreadgroupInv, Runs,
       Reporting, Strict, Mutexes
  <2>3. CASE t \in {"t1", "t2", "t3"}
    BY <1>1, <2>1, <2>3, ReporterEntries DEF makesurethreadgroupInv, Runs, Reporting, Strict,
       Mutexes
  <2> QED
    BY <1>1, <2>2, <2>3 DEF makesurethreadgroupInv, Threads, Runs, Reporting, Strict, Mutexes
<1>2. ExactCounts
  BY <1>1 DEF ExactCounts, At, Runs, Threads, makesurethreadgroupInv, Reporting, Strict, Mutexes
<1>3. WholeResults
  BY <1>1 DEF WholeResults, At, Runs, Threads, makesurethreadgroupInv, Reporting, Strict,
     Mutexes
<1>4. StartedInOrder
  BY <1>1 DEF StartedInOrder, At, Runs, Threads, makesurethreadgroupInv, Reporting, Strict,
     Mutexes
<1> QED
  BY <1>2, <1>3, <1>4

-----------------------------------------------------------------------------
(* test_two_lock: main locks twice.                                        *)

LEMMA test_two_lockEntries ==
    ASSUME NEW t, code[t] = test_two_lock["main"]
    PROVE  LET e == Entry(t) IN
           /\ pc[t] = 1 => e.op = "write_lock" /\ e.next = 2 /\ e.else = 2
           /\ pc[t] = 2 => e.op = "write_lock" /\ e.next = 3 /\ e.else = 3
           /\ pc[t] = 3 => e.op = "destroy" /\ e.next = 0 /\ e.else = 0
BY DEF test_two_lock, Alone, Entry, Do, Or, Terminate

LEMMA test_two_lockStep ==
    ASSUME test_two_lockInv, NEW t \in Threads, Execute(t)
    PROVE  test_two_lockInv'
<1>1. /\ pc \in [Threads -> Int] /\ turns \in [Threads -> Nat] /\ lock \in Mutexes
      /\ reg = [u \in Threads |-> reg[u]] /\ mem = [c \in Cells |-> mem[c]]
      /\ obj \in [Threads -> {"none", "joinable", "done", "detached"}]
      /\ over = "no" /\ pc[t] > 0
  BY ByOp DEF test_two_lockInv, Typed, Runs
<1>2. code["main"] = test_two_lock["main"]
  BY DEF test_two_lockInv, test_two_lock
<1>3. CASE t = "main"
  <2>0. Typed'
    <3>1. pc[t] \in 1..3
      BY <1>1, <1>3 DEF test_two_lockInv
    <3>2. Entry(t).next \in Int /\ Entry(t).else \in Int /\ Entry(t).op # "any"
      BY <1>2, <1>3, <3>1, test_two_lockEntries
    <3> QED
      BY <3>2, TypedStep DEF test_two_lockInv
  <2>1. CASE pc[t] = 1
    <3>1. Entry(t).op = "write_lock" /\ Entry(t).next = 2 /\ Entry(t).else = 2
      BY <1>2, <1>3, <2>1, test_two_lockEntries
    <3> QED
      BY <1>1, <1>3, <2>1, <2>0, <3>1, WriteLocks DEF test_two_lockInv, Moves, Threads, Cells
  <2>2. CASE pc[t] = 2
    <3>1. Entry(t).op = "write_lock" /\ Entry(t).next = 3 /\ Entry(t).else = 3
      BY <1>2, <1>3, <2>2, test_two_lockEntries
    <3> QED
      BY <1>1, <1>3, <2>2, <2>0, <3>1, WriteLocks DEF test_two_lockInv, Moves, Threads, Cells
  <2>3. CASE pc[t] = 3
    <3>1. Entry(t).op = "destroy" /\ Entry(t).next = 0 /\ Entry(t).else = 0
      BY <1>2, <1>3, <2>3, test_two_lockEntries
    <3> QED
      BY <1>1, <1>3, <2>3, <2>0, <3>1, Destroys DEF test_two_lockInv, Moves, Threads, Cells
  <2> QED
    BY <1>1, <1>3, <2>1, <2>2, <2>3 DEF test_two_lockInv
<1> QED
  BY <1>1, <1>3 DEF test_two_lockInv, Threads

LEMMA test_two_lockWakeup == ASSUME test_two_lockInv, SpuriousWakeup PROVE test_two_lockInv'
BY TypedWakeup, Wakeups DEF test_two_lockInv

LEMMA test_two_lockInit == ASSUME Init, prog = "test_two_lock" PROVE test_two_lockInv
BY TypedInit, Starts, LoopsAssumption DEF test_two_lockInv, Table, Threads

LEMMA test_two_lockNext == ASSUME test_two_lockInv, [Next]_vars PROVE test_two_lockInv'
<1>1. CASE UNCHANGED vars
  BY <1>1 DEF vars, test_two_lockInv, Typed
<1>2. CASE SpuriousWakeup
  BY <1>2, test_two_lockWakeup
<1>3. CASE \E t \in Threads : Execute(t)
  BY <1>3, test_two_lockStep
<1> QED
  BY <1>1, <1>2, <1>3 DEF Next

LEMMA test_two_lockShows ==
    ASSUME test_two_lockInv, prog = "test_two_lock"
    PROVE  ExactCounts /\ WholeResults /\ StartedInOrder
<1>1. ASSUME NEW t \in Threads, Runs(t)
      PROVE  Entry(t).op \notin {"print", "print_time"}
  <2>1. code["main"] = test_two_lock["main"]
    BY DEF test_two_lockInv, test_two_lock
  <2>2. CASE t = "main"
    BY <1>1, <2>1, <2>2, test_two_lockEntries DEF test_two_lockInv, Runs
  <2> QED
    BY <1>1, <2>2 DEF test_two_lockInv, Threads, Runs
<1>2. ExactCounts
  BY <1>1 DEF ExactCounts, At, Runs, Threads, test_two_lockInv
<1>3. WholeResults
  BY <1>1 DEF WholeResults, At, Runs, Threads, test_two_lockInv
<1>4. StartedInOrder
  BY <1>1 DEF StartedInOrder, At, Runs, Threads, test_two_lockInv
<1> QED
  BY <1>2, <1>3, <1>4

-----------------------------------------------------------------------------
(* destroy_locked_mutex: main destroys a mutex it holds, then once more.   *)

LEMMA destroy_locked_mutexEntries ==
    ASSUME NEW t, code[t] = destroy_locked_mutex["main"]
    PROVE  LET e == Entry(t) IN
           /\ pc[t] = 1 => e.op = "write_lock" /\ e.next = 2 /\ e.else = 2
           /\ pc[t] = 2 => e.op = "destroy" /\ e.next = 3 /\ e.else = 3
           /\ pc[t] = 3 => e.op = "write_unlock" /\ e.next = 4 /\ e.else = 4
           /\ pc[t] = 4 => e.op = "destroy" /\ e.next = 0 /\ e.else = 0
BY DEF destroy_locked_mutex, Alone, Entry, Do, Or, Terminate

LEMMA destroy_locked_mutexStep ==
    ASSUME destroy_locked_mutexInv, NEW t \in Threads, Execute(t)
    PROVE  destroy_locked_mutexInv'
<1>1. /\ pc \in [Threads -> Int] /\ turns \in [Threads -> Nat] /\ lock \in Mutexes
      /\ reg = [u \in Threads |-> reg[u]] /\ mem = [c \in Cells |-> mem[c]]
      /\ obj \in [Threads -> {"none", "joinable", "done", "detached"}]
      /\ over = "no" /\ pc[t] > 0
  BY ByOp DEF destroy_locked_mutexInv, Typed, Runs
<1>2. code["main"] = destroy_locked_mutex["main"]
  BY DEF destroy_locked_mutexInv, destroy_locked_mutex
<1>3. CASE t = "main"
  <2>0. Typed'
    <3>1. pc[t] \in 1..4
      BY <1>1, <1>3 DEF destroy_locked_mutexInv, Mutexes
    <3>2. Entry(t).next \in Int /\ Entry(t).else \in Int /\ Entry(t).op # "any"
      BY <1>2, <1>3, <3>1, destroy_locked_mutexEntries
    <3> QED
      BY <3>2, TypedStep DEF destroy_locked_mutexInv
  <2>1. CASE pc[t] = 1
    <3>1. Entry(t).op = "write_lock" /\ Entry(t).next = 2 /\ Entry(t).else = 2
      BY <1>2, <1>3, <2>1, destroy_locked_mutexEntries
    <3> QED
      BY <1>1, <1>3, <2>1, <2>0, <3>1, WriteLocks DEF destroy_locked_mutexInv, Moves, Mutexes,
         Threads, Cells
  <2>2. CASE pc[t] = 2
    <3>1. Entry(t).op = "destroy" /\ Entry(t).next = 3 /\ Entry(t).else = 3
      BY <1>2, <1>3, <2>2, destroy_locked_mutexEntries
    <3> QED
      BY <1>1, <1>3, <2>2, <2>0, <3>1, Destroys DEF destroy_locked_mutexInv, Moves, Mutexes,
         Threads, Cells
  <2>3. CASE pc[t] = 3
    <3>1. Entry(t).op = "write_unlock" /\ Entry(t).next = 4 /\ Entry(t).else = 4
      BY <1>2, <1>3, <2>3, destroy_locked_mutexEntries
    <3> QED
      BY <1>1, <1>3, <2>3, <2>0, <3>1, WriteUnlocks DEF destroy_locked_mutexInv, Moves,
         Mutexes, Threads, Cells
  <2>4. CASE pc[t] = 4
    <3>1. Entry(t).op = "destroy" /\ Entry(t).next = 0 /\ Entry(t).else = 0
      BY <1>2, <1>3, <2>4, destroy_locked_mutexEntries
    <3> QED
      BY <1>1, <1>3, <2>4, <2>0, <3>1, Destroys DEF destroy_locked_mutexInv, Moves, Mutexes,
         Threads, Cells
  <2> QED
    BY <1>1, <1>3, <2>1, <2>2, <2>3, <2>4 DEF destroy_locked_mutexInv, Mutexes
<1> QED
  BY <1>1, <1>3 DEF destroy_locked_mutexInv, Threads, Mutexes

LEMMA destroy_locked_mutexWakeup ==
    ASSUME destroy_locked_mutexInv, SpuriousWakeup
    PROVE  destroy_locked_mutexInv'
BY TypedWakeup, Wakeups DEF destroy_locked_mutexInv, Mutexes

LEMMA destroy_locked_mutexInit ==
    ASSUME Init, prog = "destroy_locked_mutex"
    PROVE  destroy_locked_mutexInv
BY TypedInit, Starts, LoopsAssumption DEF destroy_locked_mutexInv, Table, Threads, Mutexes

LEMMA destroy_locked_mutexNext ==
    ASSUME destroy_locked_mutexInv, [Next]_vars
    PROVE  destroy_locked_mutexInv'
<1>1. CASE UNCHANGED vars
  BY <1>1 DEF vars, destroy_locked_mutexInv, Typed
<1>2. CASE SpuriousWakeup
  BY <1>2, destroy_locked_mutexWakeup
<1>3. CASE \E t \in Threads : Execute(t)
  BY <1>3, destroy_locked_mutexStep
<1> QED
  BY <1>1, <1>2, <1>3 DEF Next

LEMMA destroy_locked_mutexShows ==
    ASSUME destroy_locked_mutexInv, prog = "destroy_locked_mutex"
    PROVE  ExactCounts /\ WholeResults /\ StartedInOrder
<1>1. ASSUME NEW t \in Threads, Runs(t)
      PROVE  Entry(t).op \notin {"print", "print_time"}
  <2>1. code["main"] = destroy_locked_mutex["main"]
    BY DEF destroy_locked_mutexInv, destroy_locked_mutex
  <2>2. CASE t = "main"
    BY <1>1, <2>1, <2>2, destroy_locked_mutexEntries DEF destroy_locked_mutexInv, Runs, Mutexes
  <2> QED
    BY <1>1, <2>2 DEF destroy_locked_mutexInv, Threads, Runs, Mutexes
<1>2. ExactCounts
  BY <1>1 DEF ExactCounts, At, Runs, Threads, destroy_locked_mutexInv, Mutexes
<1>3. WholeResults
  BY <1>1 DEF WholeResults, At, Runs, Threads, destroy_locked_mutexInv, Mutexes
<1>4. StartedInOrder
  BY <1>1 DEF StartedInOrder, At, Runs, Threads, destroy_locked_mutexInv, Mutexes
<1> QED
  BY <1>2, <1>3, <1>4

-----------------------------------------------------------------------------
(* thread_join: main reads the file after the thread that wrote it.        *)

LEMMA thread_joinEntries ==
    ASSUME NEW t, code[t] = thread_join["main"]
    PROVE  LET e == Entry(t) IN
           /\ pc[t] = 1 => e.op = "create" /\ e.arg = "t1" /\ e.next = 2 /\ e.else = 0
           /\ pc[t] = 2 => e.op = "join" /\ e.arg = "t1" /\ e.next = 3 /\ e.else = 3
           /\ pc[t] = 3 => e.op = "fopen_r" /\ e.arg = "file" /\ e.next = 4 /\ e.else = 0
           /\ pc[t] = 4 => e.op = "fread" /\ e.arg = "file" /\ e.next = 5 /\ e.else = 0
           /\ pc[t] = 5 => e.op = "print_time" /\ e.next = 0 /\ e.else = 0
BY thread_joinMain DEF Entry, Do, Or

LEMMA thread_joinThread ==
    ASSUME NEW t, code[t] = thread_join["t1"]
    PROVE  LET e == Entry(t) IN
           /\ pc[t] = 1 => e.op = "fopen_w" /\ e.arg = "file" /\ e.next = 2 /\ e.else = 0
           /\ pc[t] = 2 => e.op = "fclose" /\ e.arg = "file" /\ e.next = 0 /\ e.else = 0
BY DEF thread_join, With, fileThreadFunc, Entry, Do, Or, Terminate

LEMMA thread_joinStep ==
    ASSUME thread_joinInv, NEW t \in Threads, Execute(t)
    PROVE  thread_joinInv'
<1>1. /\ pc \in [Threads -> Int] /\ turns \in [Threads -> Nat] /\ lock \in Mutexes
      /\ reg = [u \in Threads |-> reg[u]] /\ mem = [c \in Cells |-> mem[c]]
      /\ obj \in [Threads -> {"none", "joinable", "done", "detached"}]
      /\ over = "no" /\ pc[t] > 0
  BY ByOp DEF thread_joinInv, Typed, Runs
<1>2. code["main"] = thread_join["main"] /\ code["t1"] = thread_join["t1"]
  BY DEF thread_joinInv, thread_join
<1>3. CASE t = "main"
  <2>0. Typed'
    <3>1. pc[t] \in 1..5
      BY <1>1, <1>3 DEF thread_joinInv, Filing, FileLeft, Managed, Strict
    <3>2. Entry(t).next \in Int /\ Entry(t).else \in Int /\ Entry(t).op # "any"
      BY <1>2, <1>3, <3>1, thread_joinEntries
    <3> QED
      BY <3>2, TypedStep DEF thread_joinInv
  <2>1. CASE pc[t] = 1
    <3>1. /\ Entry(t).op = "create" /\ Entry(t).arg = "t1" /\ Entry(t).next = 2
          /\ Entry(t).else = 0
      BY <1>2, <1>3, <2>1, thread_joinEntries
    <3> QED
      BY <1>1, <1>3, <2>1, <2>0, <3>1, Creates DEF thread_joinInv, Moves, Filing, FileLeft,
         Managed, Strict, Threads, Cells
  <2>2. CASE pc[t] = 2
    <3>1. Entry(t).op = "join" /\ Entry(t).arg = "t1" /\ Entry(t).next = 3 /\ Entry(t).else = 3
      BY <1>2, <1>3, <2>2, thread_joinEntries
    <3> QED
      BY <1>1, <1>3, <2>2, <2>0, <3>1, Joins DEF thread_joinInv, Moves, Filing, FileLeft,
         Managed, Strict, Threads, Cells
  <2>3. CASE pc[t] = 3
    <3>1. /\ Entry(t).op = "fopen_r" /\ Entry(t).arg = "file" /\ Entry(t).next = 4
          /\ Entry(t).else = 0
      BY <1>2, <1>3, <2>3, thread_joinEntries
    <3> QED
      BY <1>1, <1>3, <2>3, <2>0, <3>1, Files DEF thread_joinInv, Moves, Filing, FileLeft,
         Managed, Strict, Threads, Cells
  <2>4. CASE pc[t] = 4
    <3>1. /\ Entry(t).op = "fread" /\ Entry(t).arg = "file" /\ Entry(t).next = 5
          /\ Entry(t).else = 0
      BY <1>2, <1>3, <2>4, thread_joinEntries
    <3> QED
      BY <1>1, <1>3, <2>4, <2>0, <3>1, Files DEF thread_joinInv, Moves, Filing, FileLeft,
         Managed, Strict, Threads, Cells
  <2>5. CASE pc[t] = 5
    <3>1. Entry(t).op = "print_time" /\ Entry(t).next = 0 /\ Entry(t).else = 0
      BY <1>2, <1>3, <2>5, thread_joinEntries
    <3> QED
      BY <1>1, <1>3, <2>5, <2>0, <3>1, Jumps DEF thread_joinInv, Moves, Filing, FileLeft,
         Managed, Strict, Threads, Cells
  <2> QED
    BY <1>1, <1>3, <2>1, <2>2, <2>3, <2>4, <2>5 DEF thread_joinInv, Filing, FileLeft, Managed,
       Strict
<1>4. CASE t = "t1"
  <2>0. Typed'
    <3>1. pc[t] \in 1..2
      BY <1>1, <1>4 DEF thread_joinInv, Filing, FileLeft, Managed, Strict
    <3>2. Entry(t).next \in Int /\ Entry(t).else \in Int /\ Entry(t).op # "any"
      BY <1>2, <1>4, <3>1, thread_joinThread
    <3> QED
      BY <3>2, TypedStep DEF thread_joinInv
  <2>1. CASE pc[t] = 1
    <3>1. /\ Entry(t).op = "fopen_w" /\ Entry(t).arg = "file" /\ Entry(t).next = 2
          /\ Entry(t).else = 0
      BY <1>2, <1>4, <2>1, thread_joinThread
    <3> QED
      BY <1>1, <1>4, <2>1, <2>0, <3>1, Files DEF thread_joinInv, Moves, Filing, FileLeft,
         Managed, Strict, Threads, Cells
  <2>2. CASE pc[t] = 2
    <3>1. /\ Entry(t).op = "fclose" /\ Entry(t).arg = "file" /\ Entry(t).next = 0
          /\ Entry(t).else = 0
      BY <1>2, <1>4, <2>2, thread_joinThread
    <3> QED
      BY <1>1, <1>4, <2>2, <2>0, <3>1, Files DEF thread_joinInv, Moves, Filing, FileLeft,
         Managed, Strict, Threads, Cells
  <2> QED
    BY <1>1, <1>4, <2>1, <2>2 DEF thread_joinInv, Filing, FileLeft, Managed, Strict
<1> QED
  BY <1>1, <1>3, <1>4 DEF thread_joinInv, Threads, Filing, FileLeft, Managed, Strict

LEMMA thread_joinWakeup == ASSUME thread_joinInv, SpuriousWakeup PROVE thread_joinInv'
BY TypedWakeup, Wakeups DEF thread_joinInv, Filing, FileLeft, Managed, Strict

LEMMA thread_joinInit == ASSUME Init, prog = "thread_join" PROVE thread_joinInv
BY TypedInit, Starts, LoopsAssumption DEF thread_joinInv, Table, Threads, Filing, FileLeft,
   Managed, Strict

LEMMA thread_joinNext == ASSUME thread_joinInv, [Next]_vars PROVE thread_joinInv'
<1>1. CASE UNCHANGED vars
  BY <1>1 DEF vars, thread_joinInv, Typed, Filing, FileLeft, Managed, Strict
<1>2. CASE SpuriousWakeup
  BY <1>2, thread_joinWakeup
<1>3. CASE \E t \in Threads : Execute(t)
  BY <1>3, thread_joinStep
<1> QED
  BY <1>1, <1>2, <1>3 DEF Next

LEMMA thread_joinShows ==
    ASSUME thread_joinInv, prog = "thread_join"
    PROVE  ExactCounts /\ WholeResults /\ StartedInOrder
<1>1. ASSUME NEW t \in Threads, Runs(t)
      PROVE  Entry(t).op # "print" /\ (Entry(t).op = "print_time" => pc["main"] = 5)
  <2>1. code["main"] = thread_join["main"] /\ code["t1"] = thread_join["t1"]
    BY DEF thread_joinInv, thread_join
  <2>2. CASE t = "main"
    BY <1>1, <2>1, <2>2, thread_joinEntries DEF thread_joinInv, Runs, Filing, FileLeft,
       Managed, Strict
  <2>3. CASE t = "t1"
    BY <1>1, <2>1, <2>3, thread_joinThread DEF thread_joinInv, Runs, Filing, FileLeft, Managed,
       Strict
  <2> QED
    BY <1>1, <2>2, <2>3 DEF thread_joinInv, Threads, Runs, Filing, FileLeft, Managed, Strict
<1>2. ExactCounts
  BY <1>1 DEF ExactCounts, At, Runs, Threads, thread_joinInv, Filing, FileLeft, Managed, Strict
<1>3. WholeResults
  BY <1>1 DEF WholeResults, At, Runs, Threads, thread_joinInv, Filing, FileLeft, Managed, Strict
<1>4. StartedInOrder
  BY <1>1 DEF StartedInOrder, At, Runs, Threads, thread_joinInv, Filing, FileLeft, Managed,
     Strict
<1> QED
  BY <1>2, <1>3, <1>4

-----------------------------------------------------------------------------
(* The same with std::thread.                                              *)

LEMMA std_thread_joinEntries ==
    ASSUME NEW t, code[t] = std_thread_join["main"]
    PROVE  LET e == Entry(t) IN
           /\ pc[t] = 1 => e.op = "create" /\ e.arg = "t1" /\ e.next = 2 /\ e.else = -1
           /\ pc[t] = 2 => e.op = "join" /\ e.arg = "t1" /\ e.next = 3 /\ e.else = 3
           /\ pc[t] = 3 => e.op = "fopen_r" /\ e.arg = "file" /\ e.next = 4 /\ e.else = 0
           /\ pc[t] = 4 => e.op = "fread" /\ e.arg = "file" /\ e.next = 5 /\ e.else = 0
           /\ pc[t] = 5 => e.op = "print_time" /\ e.next = 0 /\ e.else = 0
BY std_thread_joinMain DEF Entry, Do, Or

LEMMA std_thread_joinThread ==
    ASSUME NEW t, code[t] = std_thread_join["t1"]
    PROVE  LET e == Entry(t) IN
           /\ pc[t] = 1 => e.op = "fopen_w" /\ e.arg = "file" /\ e.next = 2 /\ e.else = 0
           /\ pc[t] = 2 => e.op = "fclose" /\ e.arg = "file" /\ e.next = 0 /\ e.else = 0
BY DEF std_thread_join, With, fileThreadFunc, Entry, Do, Or, Terminate

LEMMA std_thread_joinStep ==
    ASSUME std_thread_joinInv, NEW t \in Threads, Execute(t)
    PROVE  std_thread_joinInv'
<1>1. /\ pc \in [Threads -> Int] /\ turns \in [Threads -> Nat] /\ lock \in Mutexes
      /\ reg = [u \in Threads |-> reg[u]] /\ mem = [c \in Cells |-> mem[c]]
      /\ obj \in [Threads -> {"none", "joinable", "done", "detached"}]
      /\ over = "no" /\ pc[t] > 0
  BY ByOp DEF std_thread_joinInv, Typed, Runs
<1>2. code["main"] = std_thread_join["main"] /\ code["t1"] = std_thread_join["t1"]
  BY DEF std_thread_joinInv, std_thread_join
<1>3. CASE t = "main"
  <2>0. Typed'
    <3>1. pc[t] \in 1..5
      BY <1>1, <1>3 DEF std_thread_joinInv, Filing, FileLeft, Managed, Strict
    <3>2. Entry(t).next \in Int /\ Entry(t).else \in Int /\ Entry(t).op # "any"
      BY <1>2, <1>3, <3>1, std_thread_joinEntries
    <3> QED
      BY <3>2, TypedStep DEF std_thread_joinInv
  <2>1. CASE pc[t] = 1
    <3>1. /\ Entry(t).op = "create" /\ Entry(t).arg = "t1" /\ Entry(t).next = 2
          /\ Entry(t).else = -1
      BY <1>2, <1>3, <2>1, std_thread_joinEntries
    <3> QED
      BY <1>1, <1>3, <2>1, <2>0, <3>1, Creates DEF std_thread_joinInv, Moves, Filing, FileLeft,
         Managed, Strict, Threads, Cells
  <2>2. CASE pc[t] = 2
    <3>1. Entry(t).op = "join" /\ Entry(t).arg = "t1" /\ Entry(t).next = 3 /\ Entry(t).else = 3
      BY <1>2, <1>3, <2>2, std_thread_joinEntries
    <3> QED
      BY <1>1, <1>3, <2>2, <2>0, <3>1, Joins DEF std_thread_joinInv, Moves, Filing, FileLeft,
         Managed, Strict, Threads, Cells
  <2>3. CASE pc[t] = 3
    <3>1. /\ Entry(t).op = "fopen_r" /\ Entry(t).arg = "file" /\ Entry(t).next = 4
          /\ Entry(t).else = 0
      BY <1>2, <1>3, <2>3, std_thread_joinEntries
    <3> QED
      BY <1>1, <1>3, <2>3, <2>0, <3>1, Files DEF std_thread_joinInv, Moves, Filing, FileLeft,
         Managed, Strict, Threads, Cells
  <2>4. CASE pc[t] = 4
    <3>1. /\ Entry(t).op = "fread" /\ Entry(t).arg = "file" /\ Entry(t).next = 5
          /\ Entry(t).else = 0
      BY <1>2, <1>3, <2>4, std_thread_joinEntries
    <3> QED
      BY <1>1, <1>3, <2>4, <2>0, <3>1, Files DEF std_thread_joinInv, Moves, Filing, FileLeft,
         Managed, Strict, Threads, Cells
  <2>5. CASE pc[t] = 5
    <3>1. Entry(t).op = "print_time" /\ Entry(t).next = 0 /\ Entry(t).else = 0
      BY <1>2, <1>3, <2>5, std_thread_joinEntries
    <3> QED
      BY <1>1, <1>3, <2>5, <2>0, <3>1, Jumps DEF std_thread_joinInv, Moves, Filing, FileLeft,
         Managed, Strict, Threads, Cells
  <2> QED
    BY <1>1, <1>3, <2>1, <2>2, <2>3, <2>4, <2>5 DEF std_thread_joinInv, Filing, FileLeft,
       Managed, Strict
<1>4. CASE t = "t1"
  <2>0. Typed'
    <3>1. pc[t] \in 1..2
      BY <1>1, <1>4 DEF std_thread_joinInv, Filing, FileLeft, Managed, Strict
    <3>2. Entry(t).next \in Int /\ Entry(t).else \in Int /\ Entry(t).op # "any"
      BY <1>2, <1>4, <3>1, std_thread_joinThread
    <3> QED
      BY <3>2, TypedStep DEF std_thread_joinInv
  <2>1. CASE pc[t] = 1
    <3>1. /\ Entry(t).op = "fopen_w" /\ Entry(t).arg = "file" /\ Entry(t).next = 2
          /\ Entry(t).else = 0
      BY <1>2, <1>4, <2>1, std_thread_joinThread
    <3> QED
      BY <1>1, <1>4, <2>1, <2>0, <3>1, Files DEF std_thread_joinInv, Moves, Filing, FileLeft,
         Managed, Strict, Threads, Cells
  <2>2. CASE pc[t] = 2
    <3>1. /\ Entry(t).op = "fclose" /\ Entry(t).arg = "file" /\ Entry(t).next = 0
          /\ Entry(t).else = 0
      BY <1>2, <1>4, <2>2, std_thread_joinThread
    <3> QED
      BY <1>1, <1>4, <2>2, <2>0, <3>1, Files DEF std_thread_joinInv, Moves, Filing, FileLeft,
         Managed, Strict, Threads, Cells
  <2> QED
    BY <1>1, <1>4, <2>1, <2>2 DEF std_thread_joinInv, Filing, FileLeft, Managed, Strict
<1> QED
  BY <1>1, <1>3, <1>4 DEF std_thread_joinInv, Threads, Filing, FileLeft, Managed, Strict

LEMMA std_thread_joinWakeup ==
    ASSUME std_thread_joinInv, SpuriousWakeup
    PROVE  std_thread_joinInv'
BY TypedWakeup, Wakeups DEF std_thread_joinInv, Filing, FileLeft, Managed, Strict

LEMMA std_thread_joinInit == ASSUME Init, prog = "std_thread_join" PROVE std_thread_joinInv
BY TypedInit, Starts, LoopsAssumption DEF std_thread_joinInv, Table, Threads, Filing, FileLeft,
   Managed, Strict

LEMMA std_thread_joinNext == ASSUME std_thread_joinInv, [Next]_vars PROVE std_thread_joinInv'
<1>1. CASE UNCHANGED vars
  BY <1>1 DEF vars, std_thread_joinInv, Typed, Filing, FileLeft, Managed, Strict
<1>2. CASE SpuriousWakeup
  BY <1>2, std_thread_joinWakeup
<1>3. CASE \E t \in Threads : Execute(t)
  BY <1>3, std_thread_joinStep
<1> QED
  BY <1>1, <1>2, <1>3 DEF Next

LEMMA std_thread_joinShows ==
    ASSUME std_thread_joinInv, prog = "std_thread_join"
    PROVE  ExactCounts /\ WholeResults /\ StartedInOrder
<1>1. ASSUME NEW t \in Threads, Runs(t)
      PROVE  Entry(t).op # "print" /\ (Entry(t).op = "print_time" => pc["main"] = 5)
  <2>1. code["main"] = std_thread_join["main"] /\ code["t1"] = std_thread_join["t1"]
    BY DEF std_thread_joinInv, std_thread_join
  <2>2. CASE t = "main"
    BY <1>1, <2>1, <2>2, std_thread_joinEntries DEF std_thread_joinInv, Runs, Filing, FileLeft,
       Managed, Strict
  <2>3. CASE t = "t1"
    BY <1>1, <2>1, <2>3, std_thread_joinThread DEF std_thread_joinInv, Runs, Filing, FileLeft,
       Managed, Strict
  <2> QED
    BY <1>1, <2>2, <2>3 DEF std_thread_joinInv, Threads, Runs, Filing, FileLeft, Managed, Strict
<1>2. ExactCounts
  BY <1>1 DEF ExactCounts, At, Runs, Threads, std_thread_joinInv, Filing, FileLeft, Managed,
     Strict
<1>3. WholeResults
  BY <1>1 DEF WholeResults, At, Runs, Threads, std_thread_joinInv, Filing, FileLeft, Managed,
     Strict
<1>4. StartedInOrder
  BY <1>1 DEF StartedInOrder, At, Runs, Threads, std_thread_joinInv, Filing, FileLeft, Managed,
     Strict
<1> QED
  BY <1>2, <1>3, <1>4

-----------------------------------------------------------------------------
(* thread_get_id: a thread reads the identity main may not have stored yet.*)

LEMMA thread_get_idEntries ==
    ASSUME NEW t, code[t] = thread_get_id["main"]
    PROVE  LET e == Entry(t) IN
           /\ pc[t] = 1 => e.op = "create" /\ e.arg = "t1" /\ e.next = 2 /\ e.else = 2
           /\ pc[t] = 2 => e.op = "set" /\ e.arg = [tid |-> "t1"] /\ e.next = 3 /\ e.else = 3
           /\ pc[t] = 3 => e.op = "join" /\ e.arg = "t1" /\ e.next = 0 /\ e.else = 0
BY DEF thread_get_id, With, Entry, Do, Or, Terminate

LEMMA thread_get_idThread ==
    ASSUME NEW t, code[t] = thread_get_id["t1"]
    PROVE  LET e == Entry(t) IN
           /\ pc[t] = 1 => e.op = "load" /\ e.arg = "tid" /\ e.next = 1 /\ e.else = 1
BY DEF thread_get_id, With, Entry, Do, Or, Terminate

LEMMA thread_get_idStep ==
    ASSUME thread_get_idInv, NEW t \in Threads, Execute(t)
    PROVE  thread_get_idInv'
<1>1. /\ pc \in [Threads -> Int] /\ turns \in [Threads -> Nat] /\ lock \in Mutexes
      /\ reg = [u \in Threads |-> reg[u]] /\ mem = [c \in Cells |-> mem[c]]
      /\ obj \in [Threads -> {"none", "joinable", "done", "detached"}]
      /\ over = "no" /\ pc[t] > 0
  BY ByOp DEF thread_get_idInv, Typed, Runs
<1>2. code["main"] = thread_get_id["main"] /\ code["t1"] = thread_get_id["t1"]
  BY DEF thread_get_idInv, thread_get_id
<1>3. CASE t = "main"
  <2>0. Typed'
    <3>1. pc[t] \in 1..3
      BY <1>1, <1>3 DEF thread_get_idInv, Alone1
    <3>2. Entry(t).next \in Int /\ Entry(t).else \in Int /\ Entry(t).op # "any"
      BY <1>2, <1>3, <3>1, thread_get_idEntries
    <3> QED
      BY <3>2, TypedStep DEF thread_get_idInv
  <2>1. CASE pc[t] = 1
    <3>1. /\ Entry(t).op = "create" /\ Entry(t).arg = "t1" /\ Entry(t).next = 2
          /\ Entry(t).else = 2
      BY <1>2, <1>3, <2>1, thread_get_idEntries
    <3> QED
      BY <1>1, <1>3, <2>1, <2>0, <3>1, Creates DEF thread_get_idInv, Moves, Alone1, Threads,
         Cells
  <2>2. CASE pc[t] = 2
    <3>1. /\ Entry(t).op = "set" /\ Entry(t).arg = [tid |-> "t1"] /\ Entry(t).next = 3
          /\ Entry(t).else = 3
      BY <1>2, <1>3, <2>2, thread_get_idEntries
    <3>2. /\ mem' = [mem EXCEPT !.tid = "t1"] /\ Moves(t, 3)
          /\ UNCHANGED <<reg, turns, lock, obj, failed>>
      BY <1>1, <3>1, Sets DEF Cells
    <3> QED
      BY <1>1, <1>3, <2>2, <2>0, <3>2 DEF thread_get_idInv, Moves, Alone1, Threads, Cells
  <2>3. CASE pc[t] = 3
    <3>1. Entry(t).op = "join" /\ Entry(t).arg = "t1" /\ Entry(t).next = 0 /\ Entry(t).else = 0
      BY <1>2, <1>3, <2>3, thread_get_idEntries
    <3> QED
      BY <1>1, <1>3, <2>3, <2>0, <3>1, Joins DEF thread_get_idInv, Moves, Alone1, Threads, Cells
  <2> QED
    BY <1>1, <1>3, <2>1, <2>2, <2>3 DEF thread_get_idInv, Alone1
<1>4. CASE t = "t1"
  <2>0. Typed'
    <3>1. pc[t] \in 1..1
      BY <1>1, <1>4 DEF thread_get_idInv, Alone1
    <3>2. Entry(t).next \in Int /\ Entry(t).else \in Int /\ Entry(t).op # "any"
      BY <1>2, <1>4, <3>1, thread_get_idThread
    <3> QED
      BY <3>2, TypedStep DEF thread_get_idInv
  <2>1. CASE pc[t] = 1
    <3>1. Entry(t).op = "load" /\ Entry(t).arg = "tid" /\ Entry(t).next = 1 /\ Entry(t).else = 1
      BY <1>2, <1>4, <2>1, thread_get_idThread
    <3> QED
      BY <1>1, <1>4, <2>1, <2>0, <3>1, Loads DEF thread_get_idInv, Moves, Alone1, Threads, Cells
  <2> QED
    BY <1>1, <1>4, <2>1 DEF thread_get_idInv, Alone1
<1> QED
  BY <1>1, <1>3, <1>4 DEF thread_get_idInv, Threads, Alone1

LEMMA thread_get_idWakeup == ASSUME thread_get_idInv, SpuriousWakeup PROVE thread_get_idInv'
BY TypedWakeup, Wakeups DEF thread_get_idInv, Alone1

LEMMA thread_get_idInit == ASSUME Init, prog = "thread_get_id" PROVE thread_get_idInv
BY TypedInit, Starts, LoopsAssumption DEF thread_get_idInv, Table, Threads, Alone1

LEMMA thread_get_idNext == ASSUME thread_get_idInv, [Next]_vars PROVE thread_get_idInv'
<1>1. CASE UNCHANGED vars
  BY <1>1 DEF vars, thread_get_idInv, Typed, Alone1
<1>2. CASE SpuriousWakeup
  BY <1>2, thread_get_idWakeup
<1>3. CASE \E t \in Threads : Execute(t)
  BY <1>3, thread_get_idStep
<1> QED
  BY <1>1, <1>2, <1>3 DEF Next

LEMMA thread_get_idShows ==
    ASSUME thread_get_idInv, prog = "thread_get_id"
    PROVE  ExactCounts /\ WholeResults /\ StartedInOrder
<1>1. ASSUME NEW t \in Threads, Runs(t)
      PROVE  Entry(t).op \notin {"print", "print_time"}
  <2>1. code["main"] = thread_get_id["main"] /\ code["t1"] = thread_get_id["t1"]
    BY DEF thread_get_idInv, thread_get_id
  <2>2. CASE t = "main"
    BY <1>1, <2>1, <2>2, thread_get_idEntries DEF thread_get_idInv, Runs, Alone1
  <2>3. CASE t = "t1"
    BY <1>1, <2>1, <2>3, thread_get_idThread DEF thread_get_idInv, Runs, Alone1
  <2> QED
    BY <1>1, <2>2, <2>3 DEF thread_get_idInv, Threads, Runs, Alone1
<1>2. ExactCounts
  BY <1>1 DEF ExactCounts, At, Runs, Threads, thread_get_idInv, Alone1
<1>3. WholeResults
  BY <1>1 DEF WholeResults, At, Runs, Threads, thread_get_idInv, Alone1
<1>4. StartedInOrder
  BY <1>1 DEF StartedInOrder, At, Runs, Threads, thread_get_idInv, Alone1
<1> QED
  BY <1>2, <1>3, <1>4

-----------------------------------------------------------------------------
(* cpp11_thread_id: both threads stay.                                     *)

LEMMA cpp11_thread_idEntries ==
    ASSUME NEW t, code[t] = cpp11_thread_id["main"]
    PROVE  LET e == Entry(t) IN
           /\ pc[t] = 1 => e.op = "create" /\ e.arg = "t1" /\ e.next = 2 /\ e.else = -1
           /\ pc[t] = 2 => e.op = "rest" /\ e.next = 2 /\ e.else = 2
BY DEF cpp11_thread_id, With, Entry, Do, Or, Terminate

LEMMA cpp11_thread_idThread ==
    ASSUME NEW t, code[t] = cpp11_thread_id["t1"]
    PROVE  LET e == Entry(t) IN
           /\ pc[t] = 1 => e.op = "rest" /\ e.next = 1 /\ e.else = 1
BY DEF cpp11_thread_id, With, Entry, Do, Or, Terminate

LEMMA cpp11_thread_idStep ==
    ASSUME cpp11_thread_idInv, NEW t \in Threads, Execute(t)
    PROVE  cpp11_thread_idInv'
<1>1. /\ pc \in [Threads -> Int] /\ turns \in [Threads -> Nat] /\ lock \in Mutexes
      /\ reg = [u \in Threads |-> reg[u]] /\ mem = [c \in Cells |-> mem[c]]
      /\ obj \in [Threads -> {"none", "joinable", "done", "detached"}]
      /\ over = "no" /\ pc[t] > 0
  BY ByOp DEF cpp11_thread_idInv, Typed, Runs
<1>2. code["main"] = cpp11_thread_id["main"] /\ code["t1"] = cpp11_thread_id["t1"]
  BY DEF cpp11_thread_idInv, cpp11_thread_id
<1>3. CASE t = "main"
  <2>0. Typed'
    <3>1. pc[t] \in 1..2
      BY <1>1, <1>3 DEF cpp11_thread_idInv, Alone1, Strict
    <3>2. Entry(t).next \in Int /\ Entry(t).else \in Int /\ Entry(t).op # "any"
      BY <1>2, <1>3, <3>1, cpp11_thread_idEntries
    <3> QED
      BY <3>2, TypedStep DEF cpp11_thread_idInv
  <2>1. CASE pc[t] = 1
    <3>1. /\ Entry(t).op = "create" /\ Entry(t).arg = "t1" /\ Entry(t).next = 2
          /\ Entry(t).else = -1
      BY <1>2, <1>3, <2>1, cpp11_thread_idEntries
    <3> QED
      BY <1>1, <1>3, <2>1, <2>0, <3>1, Creates DEF cpp11_thread_idInv, Moves, Alone1, Strict,
         Threads, Cells
  <2>2. CASE pc[t] = 2
    <3>1. Entry(t).op = "rest" /\ Entry(t).next = 2 /\ Entry(t).else = 2
      BY <1>2, <1>3, <2>2, cpp11_thread_idEntries
    <3> QED
      BY <3>1, ByOp
  <2> QED
    BY <1>1, <1>3, <2>1, <2>2 DEF cpp11_thread_idInv, Alone1, Strict
<1>4. CASE t = "t1"
  <2>0. Typed'
    <3>1. pc[t] \in 1..1
      BY <1>1, <1>4 DEF cpp11_thread_idInv, Alone1, Strict
    <3>2. Entry(t).next \in Int /\ Entry(t).else \in Int /\ Entry(t).op # "any"
      BY <1>2, <1>4, <3>1, cpp11_thread_idThread
    <3> QED
      BY <3>2, TypedStep DEF cpp11_thread_idInv
  <2>1. CASE pc[t] = 1
    <3>1. Entry(t).op = "rest" /\ Entry(t).next = 1 /\ Entry(t).else = 1
      BY <1>2, <1>4, <2>1, cpp11_thread_idThread
    <3> QED
      BY <3>1, ByOp
  <2> QED
    BY <1>1, <1>4, <2>1 DEF cpp11_thread_idInv, Alone1, Strict
<1> QED
  BY <1>1, <1>3, <1>4 DEF cpp11_thread_idInv, Threads, Alone1, Strict

LEMMA cpp11_thread_idWakeup ==
    ASSUME cpp11_thread_idInv, SpuriousWakeup
    PROVE  cpp11_thread_idInv'
BY TypedWakeup, Wakeups DEF cpp11_thread_idInv, Alone1, Strict

LEMMA cpp11_thread_idInit == ASSUME Init, prog = "cpp11_thread_id" PROVE cpp11_thread_idInv
BY TypedInit, Starts, LoopsAssumption DEF cpp11_thread_idInv, Table, Threads, Alone1, Strict

LEMMA cpp11_thread_idNext == ASSUME cpp11_thread_idInv, [Next]_vars PROVE cpp11_thread_idInv'
<1>1. CASE UNCHANGED vars
  BY <1>1 DEF vars, cpp11_thread_idInv, Typed, Alone1, Strict
<1>2. CASE SpuriousWakeup
  BY <1>2, cpp11_thread_idWakeup
<1>3. CASE \E t \in Threads : Execute(t)
  BY <1>3, cpp11_thread_idStep
<1> QED
  BY <1>1, <1>2, <1>3 DEF Next

LEMMA cpp11_thread_idShows ==
    ASSUME cpp11_thread_idInv, prog = "cpp11_thread_id"
    PROVE  ExactCounts /\ WholeResults /\ StartedInOrder
<1>1. ASSUME NEW t \in Threads, Runs(t)
      PROVE  Entry(t).op \notin {"print", "print_time"}
  <2>1. code["main"] = cpp11_thread_id["main"] /\ code["t1"] = cpp11_thread_id["t1"]
    BY DEF cpp11_thread_idInv, cpp11_thread_id
  <2>2. CASE t = "main"
    BY <1>1, <2>1, <2>2, cpp11_thread_idEntries DEF cpp11_thread_idInv, Runs, Alone1, Strict
  <2>3. CASE t = "t1"
    BY <1>1, <2>1, <2>3, cpp11_thread_idThread DEF cpp11_thread_idInv, Runs, Alone1, Strict
  <2> QED
    BY <1>1, <2>2, <2>3 DEF cpp11_thread_idInv, Threads, Runs, Alone1, Strict
<1>2. ExactCounts
  BY <1>1 DEF ExactCounts, At, Runs, Threads, cpp11_thread_idInv, Alone1, Strict
<1>3. WholeResults
  BY <1>1 DEF WholeResults, At, Runs, Threads, cpp11_thread_idInv, Alone1, Strict
<1>4. StartedInOrder
  BY <1>1 DEF StartedInOrder, At, Runs, Threads, cpp11_thread_idInv, Alone1, Strict
<1> QED
  BY <1>2, <1>3, <1>4

-----------------------------------------------------------------------------
(* func: a thread object dropped while joinable.                           *)

LEMMA funcEntries ==
    ASSUME NEW t, code[t] = func["main"]
    PROVE  LET e == Entry(t) IN
           /\ pc[t] = 1 => e.op = "create" /\ e.arg = "t1" /\ e.next = 2 /\ e.else = -1
           /\ pc[t] = 2 => e.op = "drop" /\ e.arg = "t1" /\ e.next = 0 /\ e.else = 0
BY DEF func, With, Entry, Do, Or, Terminate

LEMMA funcThread ==
    ASSUME NEW t, code[t] = func["t1"]
    PROVE  LET e == Entry(t) IN
           /\ pc[t] = 1 => e.op = "rest" /\ e.next = 1 /\ e.else = 1
BY DEF func, With, Entry, Do, Or, Terminate

LEMMA funcStep == ASSUME funcInv, NEW t \in Threads, Execute(t) PROVE funcInv'
<1>1. /\ pc \in [Threads -> Int] /\ turns \in [Threads -> Nat] /\ lock \in Mutexes
      /\ reg = [u \in Threads |-> reg[u]] /\ mem = [c \in Cells |-> mem[c]]
      /\ obj \in [Threads -> {"none", "joinable", "done", "detached"}]
      /\ over = "no" /\ pc[t] > 0
  BY ByOp DEF funcInv, Typed, Runs
<1>2. code["main"] = func["main"] /\ code["t1"] = func["t1"]
  BY DEF funcInv, func
<1>3. CASE t = "main"
  <2>0. Typed'
    <3>1. pc[t] \in 1..2
      BY <1>1, <1>3 DEF funcInv, Alone1, Terminate
    <3>2. Entry(t).next \in Int /\ Entry(t).else \in Int /\ Entry(t).op # "any"
      BY <1>2, <1>3, <3>1, funcEntries
    <3> QED
      BY <3>2, TypedStep DEF funcInv
  <2>1. CASE pc[t] = 1
    <3>1. /\ Entry(t).op = "create" /\ Entry(t).arg = "t1" /\ Entry(t).next = 2
          /\ Entry(t).else = -1
      BY <1>2, <1>3, <2>1, funcEntries
    <3> QED
      BY <1>1, <1>3, <2>1, <2>0, <3>1, Creates DEF funcInv, Moves, Alone1, Terminate, Threads,
         Cells
  <2>2. CASE pc[t] = 2
    <3>1. Entry(t).op = "drop" /\ Entry(t).arg = "t1" /\ Entry(t).next = 0 /\ Entry(t).else = 0
      BY <1>2, <1>3, <2>2, funcEntries
    <3> QED
      BY <1>1, <1>3, <2>2, <2>0, <3>1, Drops DEF funcInv, Moves, Alone1, Terminate, Threads,
         Cells
  <2> QED
    BY <1>1, <1>3, <2>1, <2>2 DEF funcInv, Alone1, Terminate
<1>4. CASE t = "t1"
  <2>0. Typed'
    <3>1. pc[t] \in 1..1
      BY <1>1, <1>4 DEF funcInv, Alone1, Terminate
    <3>2. Entry(t).next \in Int /\ Entry(t).else \in Int /\ Entry(t).op # "any"
      BY <1>2, <1>4, <3>1, funcThread
    <3> QED
      BY <3>2, TypedStep DEF funcInv
  <2>1. CASE pc[t] = 1
    <3>1. Entry(t).op = "rest" /\ Entry(t).next = 1 /\ Entry(t).else = 1
      BY <1>2, <1>4, <2>1, funcThread
    <3> QED
      BY <3>1, ByOp
  <2> QED
    BY <1>1, <1>4, <2>1 DEF funcInv, Alone1, Terminate
<1> QED
  BY <1>1, <1>3, <1>4 DEF funcInv, Threads, Alone1, Terminate

LEMMA funcWakeup == ASSUME funcInv, SpuriousWakeup PROVE funcInv'
BY TypedWakeup, Wakeups DEF funcInv, Alone1, Terminate

LEMMA funcInit == ASSUME Init, prog = "func" PROVE funcInv
BY TypedInit, Starts, LoopsAssumption DEF funcInv, Table, Threads, Alone1, Terminate

LEMMA funcNext == ASSUME funcInv, [Next]_vars PROVE funcInv'
<1>1. CASE UNCHANGED vars
  BY <1>1 DEF vars, funcInv, Typed, Alone1
<1>2. CASE SpuriousWakeup
  BY <1>2, funcWakeup
<1>3. CASE \E t \in Threads : Execute(t)
  BY <1>3, funcStep
<1> QED
  BY <1>1, <1>2, <1>3 DEF Next

LEMMA funcShows ==
    ASSUME funcInv, prog = "func"
    PROVE  ExactCounts /\ WholeResults /\ StartedInOrder
<1>1. ASSUME NEW t \in Threads, Runs(t)
      PROVE  Entry(t).op \notin {"print", "print_time"}
  <2>1. code["main"] = func["main"] /\ code["t1"] = func["t1"]
    BY DEF funcInv, func
  <2>2. CASE t = "main"
    BY <1>1, <2>1, <2>2, funcEntries DEF funcInv, Runs, Alone1, Terminate
  <2>3. CASE t = "t1"
    BY <1>1, <2>1, <2>3, funcThread DEF funcInv, Runs, Alone1, Terminate
  <2> QED
    BY <1>1, <2>2, <2>3 DEF funcInv, Threads, Runs, Alone1, Terminate
<1>2. ExactCounts
  BY <1>1 DEF ExactCounts, At, Runs, Threads, funcInv, Alone1, Terminate
<1>3. WholeResults
  BY <1>1 DEF WholeResults, At, Runs, Threads, funcInv, Alone1, Terminate
<1>4. StartedInOrder
  BY <1>1 DEF StartedInOrder, At, Runs, Threads, funcInv, Alone1, Terminate
<1> QED
  BY <1>2, <1>3, <1>4

-----------------------------------------------------------------------------
(* func_current: a thread let go.                                          *)

LEMMA func_currentEntries ==
    ASSUME NEW t, code[t] = func_current["main"]
    PROVE  LET e == Entry(t) IN
           /\ pc[t] = 1 => e.op = "create" /\ e.arg = "t1" /\ e.next = 2 /\ e.else = -1
           /\ pc[t] = 2 => e.op = "detach" /\ e.arg = "t1" /\ e.next = 3 /\ e.else = 3
           /\ pc[t] = 3 => e.op = "rest" /\ e.next = 3 /\ e.else = 3
BY DEF func_current, With, Entry, Do, Or, Terminate

LEMMA func_currentThread ==
    ASSUME NEW t, code[t] = func_current["t1"]
    PROVE  LET e == Entry(t) IN
           /\ pc[t] = 1 => e.op = "rest" /\ e.next = 1 /\ e.else = 1
BY DEF func_current, With, Entry, Do, Or, Terminate

LEMMA func_currentStep ==
    ASSUME func_currentInv, NEW t \in Threads, Execute(t)
    PROVE  func_currentInv'
<1>1. /\ pc \in [Threads -> Int] /\ turns \in [Threads -> Nat] /\ lock \in Mutexes
      /\ reg = [u \in Threads |-> reg[u]] /\ mem = [c \in Cells |-> mem[c]]
      /\ obj \in [Threads -> {"none", "joinable", "done", "detached"}]
      /\ over = "no" /\ pc[t] > 0
  BY ByOp DEF func_currentInv, Typed, Runs
<1>2. code["main"] = func_current["main"] /\ code["t1"] = func_current["t1"]
  BY DEF func_currentInv, func_current
<1>3. CASE t = "main"
  <2>0. Typed'
    <3>1. pc[t] \in 1..3
      BY <1>1, <1>3 DEF func_currentInv, Alone1, Strict
    <3>2. Entry(t).next \in Int /\ Entry(t).else \in Int /\ Entry(t).op # "any"
      BY <1>2, <1>3, <3>1, func_currentEntries
    <3> QED
      BY <3>2, TypedStep DEF func_currentInv
  <2>1. CASE pc[t] = 1
    <3>1. /\ Entry(t).op = "create" /\ Entry(t).arg = "t1" /\ Entry(t).next = 2
          /\ Entry(t).else = -1
      BY <1>2, <1>3, <2>1, func_currentEntries
    <3> QED
      BY <1>1, <1>3, <2>1, <2>0, <3>1, Creates DEF func_currentInv, Moves, Alone1, Strict,
         Threads, Cells
  <2>2. CASE pc[t] = 2
    <3>1. /\ Entry(t).op = "detach" /\ Entry(t).arg = "t1" /\ Entry(t).next = 3
          /\ Entry(t).else = 3
      BY <1>2, <1>3, <2>2, func_currentEntries
    <3> QED
      BY <1>1, <1>3, <2>2, <2>0, <3>1, Drops DEF func_currentInv, Moves, Alone1, Strict,
         Threads, Cells
  <2>3. CASE pc[t] = 3
    <3>1. Entry(t).op = "rest" /\ Entry(t).next = 3 /\ Entry(t).else = 3
      BY <1>2, <1>3, <2>3, func_currentEntries
    <3> QED
      BY <3>1, ByOp
  <2> QED
    BY <1>1, <1>3, <2>1, <2>2, <2>3 DEF func_currentInv, Alone1, Strict
<1>4. CASE t = "t1"
  <2>0. Typed'
    <3>1. pc[t] \in 1..1
      BY <1>1, <1>4 DEF func_currentInv, Alone1, Strict
    <3>2. Entry(t).next \in Int /\ Entry(t).else \in Int /\ Entry(t).op # "any"
      BY <1>2, <1>4, <3>1, func_currentThread
    <3> QED
      BY <3>2, TypedStep DEF func_currentInv
  <2>1. CASE pc[t] = 1
    <3>1. Entry(t).op = "rest" /\ Entry(t).next = 1 /\ Entry(t).else = 1
      BY <1>2, <1>4, <2>1, func_currentThread
    <3> QED
      BY <3>1, ByOp
  <2> QED
    BY <1>1, <1>4, <2>1 DEF func_currentInv, Alone1, Strict
<1> QED
  BY <1>1, <1>3, <1>4 DEF func_currentInv, Threads, Alone1, Strict

LEMMA func_currentWakeup == ASSUME func_currentInv, SpuriousWakeup PROVE func_currentInv'
BY TypedWakeup, Wakeups DEF func_currentInv, Alone1, Strict

LEMMA func_currentInit == ASSUME Init, prog = "func_current" PROVE func_currentInv
BY TypedInit, Starts, LoopsAssumption DEF func_currentInv, Table, Threads, Alone1, Strict

LEMMA func_currentNext == ASSUME func_currentInv, [Next]_vars PROVE func_currentInv'
<1>1. CASE UNCHANGED vars
  BY <1>1 DEF vars, func_currentInv, Typed, Alone1, Strict
<1>2. CASE SpuriousWakeup
  BY <1>2, func_currentWakeup
<1>3. CASE \E t \in Threads : Execute(t)
  BY <1>3, func_currentStep
<1> QED
  BY <1>1, <1>2, <1>3 DEF Next

LEMMA func_currentShows ==
    ASSUME func_currentInv, prog = "func_current"
    PROVE  ExactCounts /\ WholeResults /\ StartedInOrder
<1>1. ASSUME NEW t \in Threads, Runs(t)
      PROVE  Entry(t).op \notin {"print", "print_time"}
  <2>1. code["main"] = func_current["main"] /\ code["t1"] = func_current["t1"]
    BY DEF func_currentInv, func_current
  <2>2. CASE t = "main"
    BY <1>1, <2>1, <2>2, func_currentEntries DEF func_currentInv, Runs, Alone1, Strict
  <2>3. CASE t = "t1"
    BY <1>1, <2>1, <2>3, func_currentThread DEF func_currentInv, Runs, Alone1, Strict
  <2> QED
    BY <1>1, <2>2, <2>3 DEF func_currentInv, Threads, Runs, Alone1, Strict
<1>2. ExactCounts
  BY <1>1 DEF ExactCounts, At, Runs, Threads, func_currentInv, Alone1, Strict
<1>3. WholeResults
  BY <1>1 DEF WholeResults, At, Runs, Threads, func_currentInv, Alone1, Strict
<1>4. StartedInOrder
  BY <1>1 DEF StartedInOrder, At, Runs, Threads, func_currentInv, Alone1, Strict
<1> QED
  BY <1>2, <1>3, <1>4

-----------------------------------------------------------------------------
(* CThread: Create and Join, in any order.                                 *)

LEMMA CThreadEntries ==
    ASSUME NEW t, code[t] = CThread["main"]
    PROVE  LET e == Entry(t) IN
           /\ pc[t] = 1 => e.op = "any" /\ e.arg = {2, 5, 8} /\ e.next = 0 /\ e.else = 0
           /\ pc[t] = 2 => e.op = "is" /\ e.arg = [handle |-> "zero"] /\ e.next = 3 /\ e.else = 1
           /\ pc[t] = 3 => e.op = "create" /\ e.arg = "t1" /\ e.next = 4 /\ e.else = 7
           /\ pc[t] = 4 => e.op = "set" /\ e.arg = [handle |-> "t1"] /\ e.next = 1 /\ e.else = 1
           /\ pc[t] = 5 => e.op = "is" /\ e.arg = [handle |-> "zero"] /\ e.next = 1 /\ e.else = 6
           /\ pc[t] = 6 => e.op = "join" /\ e.arg = "t1" /\ e.next = 1 /\ e.else = 1
           /\ pc[t] = 7 => e.op = "garble" /\ e.arg = "handle" /\ e.next = 1 /\ e.else = 1
           /\ pc[t] = 8 => e.op = "rest" /\ e.next = 8 /\ e.else = 8
BY CThreadMain DEF Entry, Do, Or

LEMMA CThreadThread ==
    ASSUME NEW t, code[t] = CThread["t1"]
    PROVE  LET e == Entry(t) IN
           /\ pc[t] = 1 => e.op = "any" /\ e.arg = {2, 3} /\ e.next = 0 /\ e.else = 0
           /\ pc[t] = 2 => e.op = "load" /\ e.arg = "handle" /\ e.next = 3 /\ e.else = 3
           /\ pc[t] = 3 => e.op = "set" /\ e.arg = [exited |-> TRUE] /\ e.next = 0 /\ e.else = 0
<1> DEFINE yes == TRUE
           no == FALSE
           e == Entry(t)
<1>1. LET r == CThread["t1"] IN
      /\ r[1] = Do("any", {2, 3}, 0)
      /\ r[2] = Do("load", "handle", 3)
      /\ r[3] = Do("set", [exited |-> yes], 0)
  BY DEF CThread, With, ThreadEntry, Terminate
<1> HIDE DEF yes, no
<1>2.
      /\ pc[t] = 1 => e.op = "any" /\ e.arg = {2, 3} /\ e.next = 0 /\ e.else = 0
      /\ pc[t] = 2 => e.op = "load" /\ e.arg = "handle" /\ e.next = 3 /\ e.else = 3
      /\ pc[t] = 3 => e.op = "set" /\ e.arg = [exited |-> yes] /\ e.next = 0 /\ e.else = 0
  BY <1>1 DEF Entry, Do, Or
<1> QED
  BY <1>2 DEF yes, no

LEMMA CThreadStep == ASSUME CThreadInv, NEW t \in Threads, Execute(t) PROVE CThreadInv'
<1>1. /\ pc \in [Threads -> Int] /\ turns \in [Threads -> Nat] /\ lock \in Mutexes
      /\ reg = [u \in Threads |-> reg[u]] /\ mem = [c \in Cells |-> mem[c]]
      /\ obj \in [Threads -> {"none", "joinable", "done", "detached"}]
      /\ over = "no" /\ pc[t] > 0
  BY ByOp DEF CThreadInv, Typed, Runs
<1>2. code["main"] = CThread["main"] /\ code["t1"] = CThread["t1"]
  BY DEF CThreadInv, CThread
<1>3. CASE t = "main"
  <2>0. Typed'
    <3>1. pc[t] \in 1..8
      BY <1>1, <1>3 DEF CThreadInv
    <3>2. /\ Entry(t).next \in Int /\ Entry(t).else \in Int
          /\ Entry(t).op = "any" => Entry(t).arg \subseteq Int
      BY <1>2, <1>3, <3>1, CThreadEntries
    <3> QED
      BY <3>2, TypedStep DEF CThreadInv
  <2>1. CASE pc[t] = 1
    <3>1. /\ Entry(t).op = "any" /\ Entry(t).arg = {2, 5, 8} /\ Entry(t).next = 0
          /\ Entry(t).else = 0
      BY <1>2, <1>3, <2>1, CThreadEntries
    <3> QED
      BY <1>1, <1>3, <2>1, <2>0, <3>1, Jumps DEF CThreadInv, Moves, Threads, Cells
  <2>2. CASE pc[t] = 2
    <3>1. /\ Entry(t).op = "is" /\ Entry(t).arg = [handle |-> "zero"] /\ Entry(t).next = 3
          /\ Entry(t).else = 1
      BY <1>2, <1>3, <2>2, CThreadEntries
    <3>2. Matches(t) <=> mem.handle = "zero"
      BY <3>1, Matches_handle
    <3> QED
      BY <1>1, <1>3, <2>2, <2>0, <3>1, <3>2, Jumps DEF CThreadInv, Moves, Threads, Cells
  <2>3. CASE pc[t] = 3
    <3>1. /\ Entry(t).op = "create" /\ Entry(t).arg = "t1" /\ Entry(t).next = 4
          /\ Entry(t).else = 7
      BY <1>2, <1>3, <2>3, CThreadEntries
    <3> QED
      BY <1>1, <1>3, <2>3, <2>0, <3>1, Creates DEF CThreadInv, Moves, Threads, Cells
  <2>4. CASE pc[t] = 4
    <3>1. /\ Entry(t).op = "set" /\ Entry(t).arg = [handle |-> "t1"] /\ Entry(t).next = 1
          /\ Entry(t).else = 1
      BY <1>2, <1>3, <2>4, CThreadEntries
    <3>2. /\ mem' = [mem EXCEPT !.handle = "t1"] /\ Moves(t, 1)
          /\ UNCHANGED <<reg, turns, lock, obj, failed>>
      BY <1>1, <3>1, Sets DEF Cells
    <3> QED
      BY <1>1, <1>3, <2>4, <2>0, <3>2 DEF CThreadInv, Moves, Threads, Cells
  <2>5. CASE pc[t] = 5
    <3>1. /\ Entry(t).op = "is" /\ Entry(t).arg = [handle |-> "zero"] /\ Entry(t).next = 1
          /\ Entry(t).else = 6
      BY <1>2, <1>3, <2>5, CThreadEntries
    <3>2. Matches(t) <=> mem.handle = "zero"
      BY <3>1, Matches_handle
    <3> QED
      BY <1>1, <1>3, <2>5, <2>0, <3>1, <3>2, Jumps DEF CThreadInv, Moves, Threads, Cells
  <2>6. CASE pc[t] = 6
    <3>1. Entry(t).op = "join" /\ Entry(t).arg = "t1" /\ Entry(t).next = 1 /\ Entry(t).else = 1
      BY <1>2, <1>3, <2>6, CThreadEntries
    <3> QED
      BY <1>1, <1>3, <2>6, <2>0, <3>1, Joins DEF CThreadInv, Moves, Threads, Cells
  <2>7. CASE pc[t] = 7
    <3>1. /\ Entry(t).op = "garble" /\ Entry(t).arg = "handle" /\ Entry(t).next = 1
          /\ Entry(t).else = 1
      BY <1>2, <1>3, <2>7, CThreadEntries
    <3> QED
      BY <1>1, <1>3, <2>7, <2>0, <3>1, Garbles DEF CThreadInv, Moves, Threads, Cells
  <2>8. CASE pc[t] = 8
    <3>1. Entry(t).op = "rest" /\ Entry(t).next = 8 /\ Entry(t).else = 8
      BY <1>2, <1>3, <2>8, CThreadEntries
    <3> QED
      BY <3>1, ByOp
  <2> QED
    BY <1>1, <1>3, <2>1, <2>2, <2>3, <2>4, <2>5, <2>6, <2>7, <2>8 DEF CThreadInv
<1>4. CASE t = "t1"
  <2>0. Typed'
    <3>1. pc[t] \in 1..3
      BY <1>1, <1>4 DEF CThreadInv
    <3>2. /\ Entry(t).next \in Int /\ Entry(t).else \in Int
          /\ Entry(t).op = "any" => Entry(t).arg \subseteq Int
      BY <1>2, <1>4, <3>1, CThreadThread
    <3> QED
      BY <3>2, TypedStep DEF CThreadInv
  <2>1. CASE pc[t] = 1
    <3>1. Entry(t).op = "any" /\ Entry(t).arg = {2, 3} /\ Entry(t).next = 0 /\ Entry(t).else = 0
      BY <1>2, <1>4, <2>1, CThreadThread
    <3> QED
      BY <1>1, <1>4, <2>1, <2>0, <3>1, Jumps DEF CThreadInv, Moves, Threads, Cells
  <2>2. CASE pc[t] = 2
    <3>1. /\ Entry(t).op = "load" /\ Entry(t).arg = "handle" /\ Entry(t).next = 3
          /\ Entry(t).else = 3
      BY <1>2, <1>4, <2>2, CThreadThread
    <3> QED
      BY <1>1, <1>4, <2>2, <2>0, <3>1, Loads DEF CThreadInv, Moves, Threads, Cells
  <2>3. CASE pc[t] = 3
    <3>1. /\ Entry(t).op = "set" /\ Entry(t).arg = [exited |-> TRUE] /\ Entry(t).next = 0
          /\ Entry(t).else = 0
      BY <1>2, <1>4, <2>3, CThreadThread
    <3>2. /\ mem' = [mem EXCEPT !.exited = TRUE] /\ Moves(t, 0)
          /\ UNCHANGED <<reg, turns, lock, obj, failed>>
      BY <1>1, <3>1, Sets DEF Cells
    <3> QED
      BY <1>1, <1>4, <2>3, <2>0, <3>2 DEF CThreadInv, Moves, Threads, Cells
  <2> QED
    BY <1>1, <1>4, <2>1, <2>2, <2>3 DEF CThreadInv
<1> QED
  BY <1>1, <1>3, <1>4 DEF CThreadInv, Threads

LEMMA CThreadWakeup == ASSUME CThreadInv, SpuriousWakeup PROVE CThreadInv'
BY TypedWakeup, Wakeups DEF CThreadInv

LEMMA CThreadInit == ASSUME Init, prog = "CThread" PROVE CThreadInv
BY TypedInit, Starts, LoopsAssumption DEF CThreadInv, Table, Threads

LEMMA CThreadNext == ASSUME CThreadInv, [Next]_vars PROVE CThreadInv'
<1>1. CASE UNCHANGED vars
  BY <1>1 DEF vars, CThreadInv, Typed
<1>2. CASE SpuriousWakeup
  BY <1>2, CThreadWakeup
<1>3. CASE \E t \in Threads : Execute(t)
  BY <1>3, CThreadStep
<1> QED
  BY <1>1, <1>2, <1>3 DEF Next

LEMMA CThreadShows ==
    ASSUME CThreadInv, prog = "CThread"
    PROVE  ExactCounts /\ WholeResults /\ StartedInOrder
<1>1. ASSUME NEW t \in Threads, Runs(t)
      PROVE  Entry(t).op \notin {"print", "print_time"}
  <2>1. code["main"] = CThread["main"] /\ code["t1"] = CThread["t1"]
    BY DEF CThreadInv, CThread
  <2>2. CASE t = "main"
    BY <1>1, <2>1, <2>2, CThreadEntries DEF CThreadInv, Runs
  <2>3. CASE t = "t1"
    BY <1>1, <2>1, <2>3, CThreadThread DEF CThreadInv, Runs
  <2> QED
    BY <1>1, <2>2, <2>3 DEF CThreadInv, Threads, Runs
<1>2. ExactCounts
  BY <1>1 DEF ExactCounts, At, Runs, Threads, CThreadInv
<1>3. WholeResults
  BY <1>1 DEF WholeResults, At, Runs, Threads, CThreadInv
<1>4. StartedInOrder
  BY <1>1 DEF StartedInOrder, At, Runs, Threads, CThreadInv
<1> QED
  BY <1>2, <1>3, <1>4

-----------------------------------------------------------------------------
(* Start and Stop, in any order.                                           *)

LEMMA ThreadEntries ==
    ASSUME NEW t, code[t] = Thread["main"]
    PROVE  LET e == Entry(t) IN
           /\ pc[t] = 1 => e.op = "any" /\ e.arg = {2, 4, 6} /\ e.next = 0 /\ e.else = 0
           /\ pc[t] = 2 => e.op = "set" /\ e.arg = [stopped |-> FALSE] /\ e.next = 3 /\ e.else = 3
           /\ pc[t] = 3 => e.op = "create" /\ e.arg = "t1" /\ e.next = 1 /\ e.else = -1
           /\ pc[t] = 4 => e.op = "set" /\ e.arg = [stopped |-> TRUE] /\ e.next = 5 /\ e.else = 5
           /\ pc[t] = 5 => e.op = "join_if" /\ e.arg = "t1" /\ e.next = 1 /\ e.else = 1
           /\ pc[t] = 6 => e.op = "rest" /\ e.next = 6 /\ e.else = 6
<1> DEFINE yes == TRUE
           no == FALSE
           e == Entry(t)
<1>1. LET r == Thread["main"] IN
      /\ r[1] = Do("any", {2, 4, 6}, 0)
      /\ r[2] = Do("set", [stopped |-> no], 3)
      /\ r[3] = Or("create", "t1", 1, -1)
      /\ r[4] = Do("set", [stopped |-> yes], 5)
      /\ r[5] = Do("join_if", "t1", 1)
      /\ r[6] = Do("rest", "none", 6)
  BY ThreadMain
<1> HIDE DEF yes, no
<1>2.
      /\ pc[t] = 1 => e.op = "any" /\ e.arg = {2, 4, 6} /\ e.next = 0 /\ e.else = 0
      /\ pc[t] = 2 => e.op = "set" /\ e.arg = [stopped |-> no] /\ e.next = 3 /\ e.else = 3
      /\ pc[t] = 3 => e.op = "create" /\ e.arg = "t1" /\ e.next = 1 /\ e.else = -1
      /\ pc[t] = 4 => e.op = "set" /\ e.arg = [stopped |-> yes] /\ e.next = 5 /\ e.else = 5
      /\ pc[t] = 5 => e.op = "join_if" /\ e.arg = "t1" /\ e.next = 1 /\ e.else = 1
      /\ pc[t] = 6 => e.op = "rest" /\ e.next = 6 /\ e.else = 6
  BY <1>1 DEF Entry, Do, Or
<1> QED
  BY <1>2 DEF yes, no

LEMMA ThreadThread ==
    ASSUME NEW t, code[t] = Thread["t1"]
    PROVE  LET e == Entry(t) IN
           /\ pc[t] = 1 => e.op = "is" /\ e.arg = [stopped |-> TRUE] /\ e.next = 0 /\ e.else = 1
<1> DEFINE yes == TRUE
           no == FALSE
           e == Entry(t)
<1>1. LET r == Thread["t1"] IN
      /\ r[1] = Or("is", [stopped |-> yes], 0, 1)
  BY DEF Thread, With, threadFunc, Terminate
<1> HIDE DEF yes, no
<1>2.
      /\ pc[t] = 1 => e.op = "is" /\ e.arg = [stopped |-> yes] /\ e.next = 0 /\ e.else = 1
  BY <1>1 DEF Entry, Do, Or
<1> QED
  BY <1>2 DEF yes, no

LEMMA ThreadStep == ASSUME ThreadInv, NEW t \in Threads, Execute(t) PROVE ThreadInv'
<1>1. /\ pc \in [Threads -> Int] /\ turns \in [Threads -> Nat] /\ lock \in Mutexes
      /\ reg = [u \in Threads |-> reg[u]] /\ mem = [c \in Cells |-> mem[c]]
      /\ obj \in [Threads -> {"none", "joinable", "done", "detached"}]
      /\ over = "no" /\ pc[t] > 0
  BY ByOp DEF ThreadInv, Typed, Runs
<1>2. code["main"] = Thread["main"] /\ code["t1"] = Thread["t1"]
  BY DEF ThreadInv, Thread
<1>3. CASE t = "main"
  <2>0. Typed'
    <3>1. pc[t] \in 1..6
      BY <1>1, <1>3 DEF ThreadInv
    <3>2. /\ Entry(t).next \in Int /\ Entry(t).else \in Int
          /\ Entry(t).op = "any" => Entry(t).arg \subseteq Int
      BY <1>2, <1>3, <3>1, ThreadEntries
    <3> QED
      BY <3>2, TypedStep DEF ThreadInv
  <2>1. CASE pc[t] = 1
    <3>1. /\ Entry(t).op = "any" /\ Entry(t).arg = {2, 4, 6} /\ Entry(t).next = 0
          /\ Entry(t).else = 0
      BY <1>2, <1>3, <2>1, ThreadEntries
    <3> QED
      BY <1>1, <1>3, <2>1, <2>0, <3>1, Jumps DEF ThreadInv, Moves, Threads, Cells
  <2>2. CASE pc[t] = 2
    <3>1. /\ Entry(t).op = "set" /\ Entry(t).arg = [stopped |-> FALSE] /\ Entry(t).next = 3
          /\ Entry(t).else = 3
      BY <1>2, <1>3, <2>2, ThreadEntries
    <3>2. /\ mem' = [mem EXCEPT !.stopped = FALSE] /\ Moves(t, 3)
          /\ UNCHANGED <<reg, turns, lock, obj, failed>>
      BY <1>1, <3>1, Sets DEF Cells
    <3> QED
      BY <1>1, <1>3, <2>2, <2>0, <3>2 DEF ThreadInv, Moves, Threads, Cells
  <2>3. CASE pc[t] = 3
    <3>1. /\ Entry(t).op = "create" /\ Entry(t).arg = "t1" /\ Entry(t).next = 1
          /\ Entry(t).else = -1
      BY <1>2, <1>3, <2>3, ThreadEntries
    <3> QED
      BY <1>1, <1>3, <2>3, <2>0, <3>1, Creates DEF ThreadInv, Moves, Threads, Cells
  <2>4. CASE pc[t] = 4
    <3>1. /\ Entry(t).op = "set" /\ Entry(t).arg = [stopped |-> TRUE] /\ Entry(t).next = 5
          /\ Entry(t).else = 5
      BY <1>2, <1>3, <2>4, ThreadEntries
    <3>2. /\ mem' = [mem EXCEPT !.stopped = TRUE] /\ Moves(t, 5)
          /\ UNCHANGED <<reg, turns, lock, obj, failed>>
      BY <1>1, <3>1, Sets DEF Cells
    <3> QED
      BY <1>1, <1>3, <2>4, <2>0, <3>2 DEF ThreadInv, Moves, Threads, Cells
  <2>5. CASE pc[t] = 5
    <3>1. /\ Entry(t).op = "join_if" /\ Entry(t).arg = "t1" /\ Entry(t).next = 1
          /\ Entry(t).else = 1
      BY <1>2, <1>3, <2>5, ThreadEntries
    <3> QED
      BY <1>1, <1>3, <2>5, <2>0, <3>1, Joins DEF ThreadInv, Moves, Threads, Cells
  <2>6. CASE pc[t] = 6
    <3>1. Entry(t).op = "rest" /\ Entry(t).next = 6 /\ Entry(t).else = 6
      BY <1>2, <1>3, <2>6, ThreadEntries
    <3> QED
      BY <3>1, ByOp
  <2> QED
    BY <1>1, <1>3, <2>1, <2>2, <2>3, <2>4, <2>5, <2>6 DEF ThreadInv
<1>4. CASE t = "t1"
  <2>0. Typed'
    <3>1. pc[t] \in 1..1
      BY <1>1, <1>4 DEF ThreadInv
    <3>2. Entry(t).next \in Int /\ Entry(t).else \in Int /\ Entry(t).op # "any"
      BY <1>2, <1>4, <3>1, ThreadThread
    <3> QED
      BY <3>2, TypedStep DEF ThreadInv
  <2>1. CASE pc[t] = 1
    <3>1. /\ Entry(t).op = "is" /\ Entry(t).arg = [stopped |-> TRUE] /\ Entry(t).next = 0
          /\ Entry(t).else = 1
      BY <1>2, <1>4, <2>1, ThreadThread
    <3>2. Matches(t) <=> mem.stopped = TRUE
      BY <3>1, Matches_stopped
    <3> QED
      BY <1>1, <1>4, <2>1, <2>0, <3>1, <3>2, Jumps DEF ThreadInv, Moves, Threads, Cells
  <2> QED
    BY <1>1, <1>4, <2>1 DEF ThreadInv
<1> QED
  BY <1>1, <1>3, <1>4 DEF ThreadInv, Threads

LEMMA ThreadWakeup == ASSUME ThreadInv, SpuriousWakeup PROVE ThreadInv'
BY TypedWakeup, Wakeups DEF ThreadInv

LEMMA ThreadInit == ASSUME Init, prog = "Thread" PROVE ThreadInv
BY TypedInit, Starts, LoopsAssumption DEF ThreadInv, Table, Threads

LEMMA ThreadNext == ASSUME ThreadInv, [Next]_vars PROVE ThreadInv'
<1>1. CASE UNCHANGED vars
  BY <1>1 DEF vars, ThreadInv, Typed
<1>2. CASE SpuriousWakeup
  BY <1>2, ThreadWakeup
<1>3. CASE \E t \in Threads : Execute(t)
  BY <1>3, ThreadStep
<1> QED
  BY <1>1, <1>2, <1>3 DEF Next

LEMMA ThreadShows ==
    ASSUME ThreadInv, prog = "Thread"
    PROVE  ExactCounts /\ WholeResults /\ StartedInOrder
<1>1. ASSUME NEW t \in Threads, Runs(t)
      PROVE  Entry(t).op \notin {"print", "print_time"}
  <2>1. code["main"] = Thread["main"] /\ code["t1"] = Thread["t1"]
    BY DEF ThreadInv, Thread
  <2>2. CASE t = "main"
    BY <1>1, <2>1, <2>2, ThreadEntries DEF ThreadInv, Runs
  <2>3. CASE t = "t1"
    BY <1>1, <2>1, <2>3, ThreadThread DEF ThreadInv, Runs
  <2> QED
    BY <1>1, <2>2, <2>3 DEF ThreadInv, Threads, Runs
<1>2. ExactCounts
  BY <1>1 DEF ExactCounts, At, Runs, Threads, ThreadInv
<1>3. WholeResults
  BY <1>1 DEF WholeResults, At, Runs, Threads, ThreadInv
<1>4. StartedInOrder
  BY <1>1 DEF StartedInOrder, At, Runs, Threads, ThreadInv
<1> QED
  BY <1>2, <1>3, <1>4

-----------------------------------------------------------------------------
(* FutureFileSystem: three promises.                                       *)

LEMMA FutureFileSystemEntries ==
    ASSUME NEW t, code[t] = FutureFileSystem["main"]
    PROVE  LET e == Entry(t) IN
           /\ pc[t] = 1 => e.op = "create" /\ e.arg = "t1" /\ e.next = 2 /\ e.else = -1
           /\ pc[t] = 2 => e.op = "create" /\ e.arg = "t2" /\ e.next = 3 /\ e.else = -1
           /\ pc[t] = 3 => e.op = "create" /\ e.arg = "t3" /\ e.next = 4 /\ e.else = -1
           /\ pc[t] = 4 => e.op = "wait" /\ e.arg = "f1" /\ e.next = 5 /\ e.else = 5
           /\ pc[t] = 5 => e.op = "wait" /\ e.arg = "f2" /\ e.next = 6 /\ e.else = 6
           /\ pc[t] = 6 => e.op = "wait" /\ e.arg = "f3" /\ e.next = 7 /\ e.else = 7
           /\ pc[t] = 7 => e.op = "get" /\ e.arg = "f1" /\ e.next = 8 /\ e.else = -1
           /\ pc[t] = 8 => e.op = "get" /\ e.arg = "f2" /\ e.next = 9 /\ e.else = -1
           /\ pc[t] = 9 => e.op = "get" /\ e.arg = "f3" /\ e.next = 10 /\ e.else = -1
           /\ pc[t] = 10 => e.op = "join" /\ e.arg = "t1" /\ e.next = 11 /\ e.else = 11
           /\ pc[t] = 11 => e.op = "join" /\ e.arg = "t2" /\ e.next = 12 /\ e.else = 12
           /\ pc[t] = 12 => e.op = "join" /\ e.arg = "t3" /\ e.next = 13 /\ e.else = 13
           /\ pc[t] = 13 => e.op = "report" /\ e.next = 0 /\ e.else = 0
BY FutureFileSystemMain DEF Entry, Do, Or

LEMMA Maker1Entries ==
    ASSUME NEW t, code[t] = createDirectoriesAsync("leaf1", "f1")
    PROVE  LET e == Entry(t) IN
           /\ pc[t] = 1 => e.op = "mkdir" /\ e.arg = "dir" /\ e.next = 2 /\ e.else = 4
           /\ pc[t] = 2 => e.op = "mkdir" /\ e.arg = "leaf1" /\ e.next = 3 /\ e.else = 4
           /\ pc[t] = 3 => e.op = "set_value" /\ e.arg = "f1" /\ e.next = 0 /\ e.else = -1
           /\ pc[t] = 4 => e.op = "set_exception" /\ e.arg = "f1" /\ e.next = 5 /\ e.else = 5
           /\ pc[t] = 5 => e.op = "set_value" /\ e.arg = "f1" /\ e.next = 0 /\ e.else = -1
BY DEF createDirectoriesAsync, Entry, Do, Or, Terminate

LEMMA Maker2Entries ==
    ASSUME NEW t, code[t] = createDirectoriesAsync("leaf2", "f2")
    PROVE  LET e == Entry(t) IN
           /\ pc[t] = 1 => e.op = "mkdir" /\ e.arg = "dir" /\ e.next = 2 /\ e.else = 4
           /\ pc[t] = 2 => e.op = "mkdir" /\ e.arg = "leaf2" /\ e.next = 3 /\ e.else = 4
           /\ pc[t] = 3 => e.op = "set_value" /\ e.arg = "f2" /\ e.next = 0 /\ e.else = -1
           /\ pc[t] = 4 => e.op = "set_exception" /\ e.arg = "f2" /\ e.next = 5 /\ e.else = 5
           /\ pc[t] = 5 => e.op = "set_value" /\ e.arg = "f2" /\ e.next = 0 /\ e.else = -1
BY DEF createDirectoriesAsync, Entry, Do, Or, Terminate

LEMMA Maker3Entries ==
    ASSUME NEW t, code[t] = createDirectoriesAsync("leaf3", "f3")
    PROVE  LET e == Entry(t) IN
           /\ pc[t] = 1 => e.op = "mkdir" /\ e.arg = "dir" /\ e.next = 2 /\ e.else = 4
           /\ pc[t] = 2 => e.op = "mkdir" /\ e.arg = "leaf3" /\ e.next = 3 /\ e.else = 4
           /\ pc[t] = 3 => e.op = "set_value" /\ e.arg = "f3" /\ e.next = 0 /\ e.else = -1
           /\ pc[t] = 4 => e.op = "set_exception" /\ e.arg = "f3" /\ e.next = 5 /\ e.else = 5
           /\ pc[t] = 5 => e.op = "set_value" /\ e.arg = "f3" /\ e.next = 0 /\ e.else = -1
BY DEF createDirectoriesAsync, Entry, Do, Or, Terminate

LEMMA FutureFileSystemStep ==
    ASSUME FutureFileSystemInv, NEW t \in Threads, Execute(t)
    PROVE  FutureFileSystemInv'
<1>1. /\ pc \in [Threads -> Int] /\ turns \in [Threads -> Nat] /\ lock \in Mutexes
      /\ reg = [u \in Threads |-> reg[u]] /\ mem = [c \in Cells |-> mem[c]]
      /\ obj \in [Threads -> {"none", "joinable", "done", "detached"}]
      /\ over = "no" /\ pc[t] > 0
  BY ByOp DEF FutureFileSystemInv, Typed, Runs
<1>2. /\ code["main"] = FutureFileSystem["main"]
      /\ code["t1"] = createDirectoriesAsync("leaf1", "f1")
      /\ code["t2"] = createDirectoriesAsync("leaf2", "f2")
      /\ code["t3"] = createDirectoriesAsync("leaf3", "f3")
  BY DEF FutureFileSystemInv, FutureFileSystem
<1>3. CASE t = "main"
  <2>0. Typed'
    <3>1. pc[t] \in 1..13
      BY <1>1, <1>3 DEF FutureFileSystemInv, Making, Managed, Strict
    <3>2. Entry(t).next \in Int /\ Entry(t).else \in Int /\ Entry(t).op # "any"
      BY <1>2, <1>3, <3>1, FutureFileSystemEntries
    <3> QED
      BY <3>2, TypedStep DEF FutureFileSystemInv
  <2>1. CASE pc[t] = 1
    <3>1. /\ Entry(t).op = "create" /\ Entry(t).arg = "t1" /\ Entry(t).next = 2
          /\ Entry(t).else = -1
      BY <1>2, <1>3, <2>1, FutureFileSystemEntries
    <3> QED
      BY <1>1, <1>3, <2>1, <2>0, <3>1, Creates DEF FutureFileSystemInv, Moves, Making, Managed,
         Strict, Threads, Cells
  <2>2. CASE pc[t] = 2
    <3>1. /\ Entry(t).op = "create" /\ Entry(t).arg = "t2" /\ Entry(t).next = 3
          /\ Entry(t).else = -1
      BY <1>2, <1>3, <2>2, FutureFileSystemEntries
    <3> QED
      BY <1>1, <1>3, <2>2, <2>0, <3>1, Creates DEF FutureFileSystemInv, Moves, Making, Managed,
         Strict, Threads, Cells
  <2>3. CASE pc[t] = 3
    <3>1. /\ Entry(t).op = "create" /\ Entry(t).arg = "t3" /\ Entry(t).next = 4
          /\ Entry(t).else = -1
      BY <1>2, <1>3, <2>3, FutureFileSystemEntries
    <3> QED
      BY <1>1, <1>3, <2>3, <2>0, <3>1, Creates DEF FutureFileSystemInv, Moves, Making, Managed,
         Strict, Threads, Cells
  <2>4. CASE pc[t] = 4
    <3>1. Entry(t).op = "wait" /\ Entry(t).arg = "f1" /\ Entry(t).next = 5 /\ Entry(t).else = 5
      BY <1>2, <1>3, <2>4, FutureFileSystemEntries
    <3> QED
      BY <1>1, <1>3, <2>4, <2>0, <3>1, Promises DEF FutureFileSystemInv, Moves, Making,
         Managed, Strict, Threads, Cells
  <2>5. CASE pc[t] = 5
    <3>1. Entry(t).op = "wait" /\ Entry(t).arg = "f2" /\ Entry(t).next = 6 /\ Entry(t).else = 6
      BY <1>2, <1>3, <2>5, FutureFileSystemEntries
    <3> QED
      BY <1>1, <1>3, <2>5, <2>0, <3>1, Promises DEF FutureFileSystemInv, Moves, Making,
         Managed, Strict, Threads, Cells
  <2>6. CASE pc[t] = 6
    <3>1. Entry(t).op = "wait" /\ Entry(t).arg = "f3" /\ Entry(t).next = 7 /\ Entry(t).else = 7
      BY <1>2, <1>3, <2>6, FutureFileSystemEntries
    <3> QED
      BY <1>1, <1>3, <2>6, <2>0, <3>1, Promises DEF FutureFileSystemInv, Moves, Making,
         Managed, Strict, Threads, Cells
  <2>7. CASE pc[t] = 7
    <3>1. Entry(t).op = "get" /\ Entry(t).arg = "f1" /\ Entry(t).next = 8 /\ Entry(t).else = -1
      BY <1>2, <1>3, <2>7, FutureFileSystemEntries
    <3> QED
      BY <1>1, <1>3, <2>7, <2>0, <3>1, Promises DEF FutureFileSystemInv, Moves, Making,
         Managed, Strict, Threads, Cells
  <2>8. CASE pc[t] = 8
    <3>1. Entry(t).op = "get" /\ Entry(t).arg = "f2" /\ Entry(t).next = 9 /\ Entry(t).else = -1
      BY <1>2, <1>3, <2>8, FutureFileSystemEntries
    <3> QED
      BY <1>1, <1>3, <2>8, <2>0, <3>1, Promises DEF FutureFileSystemInv, Moves, Making,
         Managed, Strict, Threads, Cells
  <2>9. CASE pc[t] = 9
    <3>1. Entry(t).op = "get" /\ Entry(t).arg = "f3" /\ Entry(t).next = 10 /\ Entry(t).else = -1
      BY <1>2, <1>3, <2>9, FutureFileSystemEntries
    <3> QED
      BY <1>1, <1>3, <2>9, <2>0, <3>1, Promises DEF FutureFileSystemInv, Moves, Making,
         Managed, Strict, Threads, Cells
  <2>10. CASE pc[t] = 10
    <3>1. /\ Entry(t).op = "join" /\ Entry(t).arg = "t1" /\ Entry(t).next = 11
          /\ Entry(t).else = 11
      BY <1>2, <1>3, <2>10, FutureFileSystemEntries
    <3> QED
      BY <1>1, <1>3, <2>10, <2>0, <3>1, Joins DEF FutureFileSystemInv, Moves, Making, Managed,
         Strict, Threads, Cells
  <2>11. CASE pc[t] = 11
    <3>1. /\ Entry(t).op = "join" /\ Entry(t).arg = "t2" /\ Entry(t).next = 12
          /\ Entry(t).else = 12
      BY <1>2, <1>3, <2>11, FutureFileSystemEntries
    <3> QED
      BY <1>1, <1>3, <2>11, <2>0, <3>1, Joins DEF FutureFileSystemInv, Moves, Making, Managed,
         Strict, Threads, Cells
  <2>12. CASE pc[t] = 12
    <3>1. /\ Entry(t).op = "join" /\ Entry(t).arg = "t3" /\ Entry(t).next = 13
          /\ Entry(t).else = 13
      BY <1>2, <1>3, <2>12, FutureFileSystemEntries
    <3> QED
      BY <1>1, <1>3, <2>12, <2>0, <3>1, Joins DEF FutureFileSystemInv, Moves, Making, Managed,
         Strict, Threads, Cells
  <2>13. CASE pc[t] = 13
    <3>1. Entry(t).op = "report" /\ Entry(t).next = 0 /\ Entry(t).else = 0
      BY <1>2, <1>3, <2>13, FutureFileSystemEntries
    <3> QED
      BY <1>1, <1>3, <2>13, <2>0, <3>1, Jumps DEF FutureFileSystemInv, Moves, Making, Managed,
         Strict, Threads, Cells
  <2> QED
    BY <1>1, <1>3, <2>1, <2>2, <2>3, <2>4, <2>5, <2>6, <2>7, <2>8, <2>9, <2>10, <2>11, <2>12,
       <2>13 DEF FutureFileSystemInv, Making, Managed, Strict
<1>4. CASE t = "t1"
  <2>0. Typed'
    <3>1. pc[t] \in 1..5
      BY <1>1, <1>4 DEF FutureFileSystemInv, Making, Managed, Strict
    <3>2. Entry(t).next \in Int /\ Entry(t).else \in Int /\ Entry(t).op # "any"
      BY <1>2, <1>4, <3>1, Maker1Entries
    <3> QED
      BY <3>2, TypedStep DEF FutureFileSystemInv
  <2>1. CASE pc[t] = 1
    <3>1. /\ Entry(t).op = "mkdir" /\ Entry(t).arg = "dir" /\ Entry(t).next = 2
          /\ Entry(t).else = 4
      BY <1>2, <1>4, <2>1, Maker1Entries
    <3> QED
      BY <1>1, <1>4, <2>1, <2>0, <3>1, Promises DEF FutureFileSystemInv, Moves, Making,
         Managed, Strict, Threads, Cells
  <2>2. CASE pc[t] = 2
    <3>1. /\ Entry(t).op = "mkdir" /\ Entry(t).arg = "leaf1" /\ Entry(t).next = 3
          /\ Entry(t).else = 4
      BY <1>2, <1>4, <2>2, Maker1Entries
    <3> QED
      BY <1>1, <1>4, <2>2, <2>0, <3>1, Promises DEF FutureFileSystemInv, Moves, Making,
         Managed, Strict, Threads, Cells
  <2>3. CASE pc[t] = 3
    <3>1. /\ Entry(t).op = "set_value" /\ Entry(t).arg = "f1" /\ Entry(t).next = 0
          /\ Entry(t).else = -1
      BY <1>2, <1>4, <2>3, Maker1Entries
    <3> QED
      BY <1>1, <1>4, <2>3, <2>0, <3>1, Promises DEF FutureFileSystemInv, Moves, Making,
         Managed, Strict, Threads, Cells
  <2>4. CASE pc[t] = 4
    <3>1. /\ Entry(t).op = "set_exception" /\ Entry(t).arg = "f1" /\ Entry(t).next = 5
          /\ Entry(t).else = 5
      BY <1>2, <1>4, <2>4, Maker1Entries
    <3> QED
      BY <1>1, <1>4, <2>4, <2>0, <3>1, Promises DEF FutureFileSystemInv, Moves, Making,
         Managed, Strict, Threads, Cells
  <2>5. CASE pc[t] = 5
    <3>1. /\ Entry(t).op = "set_value" /\ Entry(t).arg = "f1" /\ Entry(t).next = 0
          /\ Entry(t).else = -1
      BY <1>2, <1>4, <2>5, Maker1Entries
    <3> QED
      BY <1>1, <1>4, <2>5, <2>0, <3>1, Promises DEF FutureFileSystemInv, Moves, Making,
         Managed, Strict, Threads, Cells
  <2> QED
    BY <1>1, <1>4, <2>1, <2>2, <2>3, <2>4, <2>5 DEF FutureFileSystemInv, Making, Managed, Strict
<1>5. CASE t = "t2"
  <2>0. Typed'
    <3>1. pc[t] \in 1..5
      BY <1>1, <1>5 DEF FutureFileSystemInv, Making, Managed, Strict
    <3>2. Entry(t).next \in Int /\ Entry(t).else \in Int /\ Entry(t).op # "any"
      BY <1>2, <1>5, <3>1, Maker2Entries
    <3> QED
      BY <3>2, TypedStep DEF FutureFileSystemInv
  <2>1. CASE pc[t] = 1
    <3>1. /\ Entry(t).op = "mkdir" /\ Entry(t).arg = "dir" /\ Entry(t).next = 2
          /\ Entry(t).else = 4
      BY <1>2, <1>5, <2>1, Maker2Entries
    <3> QED
      BY <1>1, <1>5, <2>1, <2>0, <3>1, Promises DEF FutureFileSystemInv, Moves, Making,
         Managed, Strict, Threads, Cells
  <2>2. CASE pc[t] = 2
    <3>1. /\ Entry(t).op = "mkdir" /\ Entry(t).arg = "leaf2" /\ Entry(t).next = 3
          /\ Entry(t).else = 4
      BY <1>2, <1>5, <2>2, Maker2Entries
    <3> QED
      BY <1>1, <1>5, <2>2, <2>0, <3>1, Promises DEF FutureFileSystemInv, Moves, Making,
         Managed, Strict, Threads, Cells
  <2>3. CASE pc[t] = 3
    <3>1. /\ Entry(t).op = "set_value" /\ Entry(t).arg = "f2" /\ Entry(t).next = 0
          /\ Entry(t).else = -1
      BY <1>2, <1>5, <2>3, Maker2Entries
    <3> QED
      BY <1>1, <1>5, <2>3, <2>0, <3>1, Promises DEF FutureFileSystemInv, Moves, Making,
         Managed, Strict, Threads, Cells
  <2>4. CASE pc[t] = 4
    <3>1. /\ Entry(t).op = "set_exception" /\ Entry(t).arg = "f2" /\ Entry(t).next = 5
          /\ Entry(t).else = 5
      BY <1>2, <1>5, <2>4, Maker2Entries
    <3> QED
      BY <1>1, <1>5, <2>4, <2>0, <3>1, Promises DEF FutureFileSystemInv, Moves, Making,
         Managed, Strict, Threads, Cells
  <2>5. CASE pc[t] = 5
    <3>1. /\ Entry(t).op = "set_value" /\ Entry(t).arg = "f2" /\ Entry(t).next = 0
          /\ Entry(t).else = -1
      BY <1>2, <1>5, <2>5, Maker2Entries
    <3> QED
      BY <1>1, <1>5, <2>5, <2>0, <3>1, Promises DEF FutureFileSystemInv, Moves, Making,
         Managed, Strict, Threads, Cells
  <2> QED
    BY <1>1, <1>5, <2>1, <2>2, <2>3, <2>4, <2>5 DEF FutureFileSystemInv, Making, Managed, Strict
<1>6. CASE t = "t3"
  <2>0. Typed'
    <3>1. pc[t] \in 1..5
      BY <1>1, <1>6 DEF FutureFileSystemInv, Making, Managed, Strict
    <3>2. Entry(t).next \in Int /\ Entry(t).else \in Int /\ Entry(t).op # "any"
      BY <1>2, <1>6, <3>1, Maker3Entries
    <3> QED
      BY <3>2, TypedStep DEF FutureFileSystemInv
  <2>1. CASE pc[t] = 1
    <3>1. /\ Entry(t).op = "mkdir" /\ Entry(t).arg = "dir" /\ Entry(t).next = 2
          /\ Entry(t).else = 4
      BY <1>2, <1>6, <2>1, Maker3Entries
    <3> QED
      BY <1>1, <1>6, <2>1, <2>0, <3>1, Promises DEF FutureFileSystemInv, Moves, Making,
         Managed, Strict, Threads, Cells
  <2>2. CASE pc[t] = 2
    <3>1. /\ Entry(t).op = "mkdir" /\ Entry(t).arg = "leaf3" /\ Entry(t).next = 3
          /\ Entry(t).else = 4
      BY <1>2, <1>6, <2>2, Maker3Entries
    <3> QED
      BY <1>1, <1>6, <2>2, <2>0, <3>1, Promises DEF FutureFileSystemInv, Moves, Making,
         Managed, Strict, Threads, Cells
  <2>3. CASE pc[t] = 3
    <3>1. /\ Entry(t).op = "set_value" /\ Entry(t).arg = "f3" /\ Entry(t).next = 0
          /\ Entry(t).else = -1
      BY <1>2, <1>6, <2>3, Maker3Entries
    <3> QED
      BY <1>1, <1>6, <2>3, <2>0, <3>1, Promises DEF FutureFileSystemInv, Moves, Making,
         Managed, Strict, Threads, Cells
  <2>4. CASE pc[t] = 4
    <3>1. /\ Entry(t).op = "set_exception" /\ Entry(t).arg = "f3" /\ Entry(t).next = 5
          /\ Entry(t).else = 5
      BY <1>2, <1>6, <2>4, Maker3Entries
    <3> QED
      BY <1>1, <1>6, <2>4, <2>0, <3>1, Promises DEF FutureFileSystemInv, Moves, Making,
         Managed, Strict, Threads, Cells
  <2>5. CASE pc[t] = 5
    <3>1. /\ Entry(t).op = "set_value" /\ Entry(t).arg = "f3" /\ Entry(t).next = 0
          /\ Entry(t).else = -1
      BY <1>2, <1>6, <2>5, Maker3Entries
    <3> QED
      BY <1>1, <1>6, <2>5, <2>0, <3>1, Promises DEF FutureFileSystemInv, Moves, Making,
         Managed, Strict, Threads, Cells
  <2> QED
    BY <1>1, <1>6, <2>1, <2>2, <2>3, <2>4, <2>5 DEF FutureFileSystemInv, Making, Managed, Strict
<1> QED
  BY <1>1, <1>3, <1>4, <1>5, <1>6 DEF FutureFileSystemInv, Threads, Making, Managed, Strict

LEMMA FutureFileSystemWakeup ==
    ASSUME FutureFileSystemInv, SpuriousWakeup
    PROVE  FutureFileSystemInv'
BY TypedWakeup, Wakeups DEF FutureFileSystemInv, Making, Managed, Strict

LEMMA FutureFileSystemInit == ASSUME Init, prog = "FutureFileSystem" PROVE FutureFileSystemInv
BY TypedInit, Starts, LoopsAssumption DEF FutureFileSystemInv, Table, Threads, Making, Managed,
   Strict

LEMMA FutureFileSystemNext == ASSUME FutureFileSystemInv, [Next]_vars PROVE FutureFileSystemInv'
<1>1. CASE UNCHANGED vars
  BY <1>1 DEF vars, FutureFileSystemInv, Typed, Making, Managed, Strict
<1>2. CASE SpuriousWakeup
  BY <1>2, FutureFileSystemWakeup
<1>3. CASE \E t \in Threads : Execute(t)
  BY <1>3, FutureFileSystemStep
<1> QED
  BY <1>1, <1>2, <1>3 DEF Next

LEMMA FutureFileSystemShows ==
    ASSUME FutureFileSystemInv, prog = "FutureFileSystem"
    PROVE  ExactCounts /\ WholeResults /\ StartedInOrder
<1>1. ASSUME NEW t \in Threads, Runs(t)
      PROVE  Entry(t).op \notin {"print", "print_time"}
  <2>1. /\ code["main"] = FutureFileSystem["main"]
        /\ code["t1"] = createDirectoriesAsync("leaf1", "f1")
        /\ code["t2"] = createDirectoriesAsync("leaf2", "f2")
        /\ code["t3"] = createDirectoriesAsync("leaf3", "f3")
    BY DEF FutureFileSystemInv, FutureFileSystem
  <2>2. CASE t = "main"
    BY <1>1, <2>1, <2>2, FutureFileSystemEntries DEF FutureFileSystemInv, Runs, Making,
       Managed, Strict
  <2>3. CASE t = "t1"
    BY <1>1, <2>1, <2>3, Maker1Entries DEF FutureFileSystemInv, Runs, Making, Managed, Strict
  <2>4. CASE t = "t2"
    BY <1>1, <2>1, <2>4, Maker2Entries DEF FutureFileSystemInv, Runs, Making, Managed, Strict
  <2>5. CASE t = "t3"
    BY <1>1, <2>1, <2>5, Maker3Entries DEF FutureFileSystemInv, Runs, Making, Managed, Strict
  <2> QED
    BY <1>1, <2>2, <2>3, <2>4, <2>5 DEF FutureFileSystemInv, Threads, Runs, Making, Managed,
       Strict
<1>2. ExactCounts
  BY <1>1 DEF ExactCounts, At, Runs, Threads, FutureFileSystemInv, Making, Managed, Strict
<1>3. WholeResults
  BY <1>1 DEF WholeResults, At, Runs, Threads, FutureFileSystemInv, Making, Managed, Strict
<1>4. StartedInOrder
  BY <1>1 DEF StartedInOrder, At, Runs, Threads, FutureFileSystemInv, Making, Managed, Strict
<1> QED
  BY <1>2, <1>3, <1>4

-----------------------------------------------------------------------------
(* Generator: a coroutine and its caller.                                  *)

LEMMA GeneratorEntries ==
    ASSUME NEW t, code[t] = Generator["main"]
    PROVE  LET e == Entry(t) IN
           /\ pc[t] = 1 => e.op = "call" /\ e.arg = "t1" /\ e.next = 2 /\ e.else = 2
           /\ pc[t] = 2 => e.op = "await" /\ e.arg = [turn |-> "main"] /\ e.next = 3 /\ e.else = 3
           /\ pc[t] = 3 => e.op = "is" /\ e.arg = [done |-> TRUE] /\ e.next = 6 /\ e.else = 4
           /\ pc[t] = 4 => e.op = "print_next" /\ e.arg = "value" /\ e.next = 5 /\ e.else = 5
           /\ pc[t] = 5 => e.op = "set" /\ e.arg = [turn |-> "t1"] /\ e.next = 2 /\ e.else = 2
           /\ pc[t] = 6 => e.op = "report" /\ e.next = 0 /\ e.else = 0
<1> DEFINE yes == TRUE
           no == FALSE
           e == Entry(t)
<1>1. LET r == Generator["main"] IN
      /\ r[1] = Do("call", "t1", 2)
      /\ r[2] = Do("await", [turn |-> "main"], 3)
      /\ r[3] = Or("is", [done |-> yes], 6, 4)
      /\ r[4] = Do("print_next", "value", 5)
      /\ r[5] = Do("set", [turn |-> "t1"], 2)
      /\ r[6] = Do("report", "none", 0)
  BY DEF Generator, With, Terminate
<1> HIDE DEF yes, no
<1>2.
      /\ pc[t] = 1 => e.op = "call" /\ e.arg = "t1" /\ e.next = 2 /\ e.else = 2
      /\ pc[t] = 2 => e.op = "await" /\ e.arg = [turn |-> "main"] /\ e.next = 3 /\ e.else = 3
      /\ pc[t] = 3 => e.op = "is" /\ e.arg = [done |-> yes] /\ e.next = 6 /\ e.else = 4
      /\ pc[t] = 4 => e.op = "print_next" /\ e.arg = "value" /\ e.next = 5 /\ e.else = 5
      /\ pc[t] = 5 => e.op = "set" /\ e.arg = [turn |-> "t1"] /\ e.next = 2 /\ e.else = 2
      /\ pc[t] = 6 => e.op = "report" /\ e.next = 0 /\ e.else = 0
  BY <1>1 DEF Entry, Do, Or
<1> QED
  BY <1>2 DEF yes, no

LEMMA GeneratorThread ==
    ASSUME NEW t, code[t] = Generator["t1"]
    PROVE  LET e == Entry(t) IN
           /\ pc[t] = 1 => e.op = "store_turn" /\ e.arg = "value" /\ e.next = 2 /\ e.else = 2
           /\ pc[t] = 2 => e.op = "set" /\ e.arg = [turn |-> "main"] /\ e.next = 3 /\ e.else = 3
           /\ pc[t] = 3 => e.op = "await" /\ e.arg = [turn |-> "t1"] /\ e.next = 4 /\ e.else = 4
           /\ pc[t] = 4 => e.op = "again" /\ e.next = 1 /\ e.else = 5
           /\ pc[t] = 5 => e.op = "set" /\ e.arg = [done |-> TRUE] /\ e.next = 6 /\ e.else = 6
           /\ pc[t] = 6 => e.op = "set" /\ e.arg = [turn |-> "main"] /\ e.next = 0 /\ e.else = 0
<1> DEFINE yes == TRUE
           no == FALSE
           e == Entry(t)
<1>1. LET r == Generator["t1"] IN
      /\ r[1] = Do("store_turn", "value", 2)
      /\ r[2] = Do("set", [turn |-> "main"], 3)
      /\ r[3] = Do("await", [turn |-> "t1"], 4)
      /\ r[4] = Or("again", "none", 1, 5)
      /\ r[5] = Do("set", [done |-> yes], 6)
      /\ r[6] = Do("set", [turn |-> "main"], 0)
  BY DEF Generator, With, doCount, Terminate
<1> HIDE DEF yes, no
<1>2.
      /\ pc[t] = 1 => e.op = "store_turn" /\ e.arg = "value" /\ e.next = 2 /\ e.else = 2
      /\ pc[t] = 2 => e.op = "set" /\ e.arg = [turn |-> "main"] /\ e.next = 3 /\ e.else = 3
      /\ pc[t] = 3 => e.op = "await" /\ e.arg = [turn |-> "t1"] /\ e.next = 4 /\ e.else = 4
      /\ pc[t] = 4 => e.op = "again" /\ e.next = 1 /\ e.else = 5
      /\ pc[t] = 5 => e.op = "set" /\ e.arg = [done |-> yes] /\ e.next = 6 /\ e.else = 6
      /\ pc[t] = 6 => e.op = "set" /\ e.arg = [turn |-> "main"] /\ e.next = 0 /\ e.else = 0
  BY <1>1 DEF Entry, Do, Or
<1> QED
  BY <1>2 DEF yes, no

LEMMA GeneratorStep == ASSUME GeneratorInv, NEW t \in Threads, Execute(t) PROVE GeneratorInv'
<1>1. /\ pc \in [Threads -> Int] /\ turns \in [Threads -> Nat] /\ lock \in Mutexes
      /\ reg = [u \in Threads |-> reg[u]] /\ mem = [c \in Cells |-> mem[c]]
      /\ obj \in [Threads -> {"none", "joinable", "done", "detached"}]
      /\ over = "no" /\ pc[t] > 0
  BY ByOp DEF GeneratorInv, Typed, Runs
<1>2. code["main"] = Generator["main"] /\ code["t1"] = Generator["t1"]
  BY DEF GeneratorInv, Generator
<1>3. CASE t = "main"
  <2>0. Typed'
    <3>1. pc[t] \in 1..6
      BY <1>1, <1>3 DEF GeneratorInv
    <3>2. Entry(t).next \in Int /\ Entry(t).else \in Int /\ Entry(t).op # "any"
      BY <1>2, <1>3, <3>1, GeneratorEntries
    <3> QED
      BY <3>2, TypedStep DEF GeneratorInv
  <2>1. CASE pc[t] = 1
    <3>1. Entry(t).op = "call" /\ Entry(t).arg = "t1" /\ Entry(t).next = 2 /\ Entry(t).else = 2
      BY <1>2, <1>3, <2>1, GeneratorEntries
    <3> QED
      BY <1>1, <1>3, <2>1, <2>0, <3>1, Creates, LoopsAssumption DEF GeneratorInv, Moves,
         Threads, Cells
  <2>2. CASE pc[t] = 2
    <3>1. /\ Entry(t).op = "await" /\ Entry(t).arg = [turn |-> "main"] /\ Entry(t).next = 3
          /\ Entry(t).else = 3
      BY <1>2, <1>3, <2>2, GeneratorEntries
    <3>2. Matches(t) <=> mem.turn = "main"
      BY <3>1, Matches_turn
    <3> QED
      BY <1>1, <1>3, <2>2, <2>0, <3>1, <3>2, Jumps, LoopsAssumption DEF GeneratorInv, Moves,
         Threads, Cells
  <2>3. CASE pc[t] = 3
    <3>1. /\ Entry(t).op = "is" /\ Entry(t).arg = [done |-> TRUE] /\ Entry(t).next = 6
          /\ Entry(t).else = 4
      BY <1>2, <1>3, <2>3, GeneratorEntries
    <3>2. Matches(t) <=> mem.done = TRUE
      BY <3>1, Matches_done
    <3> QED
      BY <1>1, <1>3, <2>3, <2>0, <3>1, <3>2, Jumps, LoopsAssumption DEF GeneratorInv, Moves,
         Threads, Cells
  <2>4. CASE pc[t] = 4
    <3>1. /\ Entry(t).op = "print_next" /\ Entry(t).arg = "value" /\ Entry(t).next = 5
          /\ Entry(t).else = 5
      BY <1>2, <1>3, <2>4, GeneratorEntries
    <3> QED
      BY <1>1, <1>3, <2>4, <2>0, <3>1, PrintsNext, LoopsAssumption DEF GeneratorInv, Moves,
         Threads, Cells
  <2>5. CASE pc[t] = 5
    <3>1. /\ Entry(t).op = "set" /\ Entry(t).arg = [turn |-> "t1"] /\ Entry(t).next = 2
          /\ Entry(t).else = 2
      BY <1>2, <1>3, <2>5, GeneratorEntries
    <3>2. /\ mem' = [mem EXCEPT !.turn = "t1"] /\ Moves(t, 2)
          /\ UNCHANGED <<reg, turns, lock, obj, failed>>
      BY <1>1, <3>1, Sets DEF Cells
    <3> QED
      BY <1>1, <1>3, <2>5, <2>0, <3>2, LoopsAssumption DEF GeneratorInv, Moves, Threads, Cells
  <2>6. CASE pc[t] = 6
    <3>1. Entry(t).op = "report" /\ Entry(t).next = 0 /\ Entry(t).else = 0
      BY <1>2, <1>3, <2>6, GeneratorEntries
    <3> QED
      BY <1>1, <1>3, <2>6, <2>0, <3>1, Jumps, LoopsAssumption DEF GeneratorInv, Moves, Threads,
         Cells
  <2> QED
    BY <1>1, <1>3, <2>1, <2>2, <2>3, <2>4, <2>5, <2>6 DEF GeneratorInv
<1>4. CASE t = "t1"
  <2>0. Typed'
    <3>1. pc[t] \in 1..6
      BY <1>1, <1>4 DEF GeneratorInv
    <3>2. Entry(t).next \in Int /\ Entry(t).else \in Int /\ Entry(t).op # "any"
      BY <1>2, <1>4, <3>1, GeneratorThread
    <3> QED
      BY <3>2, TypedStep DEF GeneratorInv
  <2>1. CASE pc[t] = 1
    <3>1. /\ Entry(t).op = "store_turn" /\ Entry(t).arg = "value" /\ Entry(t).next = 2
          /\ Entry(t).else = 2
      BY <1>2, <1>4, <2>1, GeneratorThread
    <3> QED
      BY <1>1, <1>4, <2>1, <2>0, <3>1, StoresTurn, LoopsAssumption DEF GeneratorInv, Moves,
         Threads, Cells
  <2>2. CASE pc[t] = 2
    <3>1. /\ Entry(t).op = "set" /\ Entry(t).arg = [turn |-> "main"] /\ Entry(t).next = 3
          /\ Entry(t).else = 3
      BY <1>2, <1>4, <2>2, GeneratorThread
    <3>2. /\ mem' = [mem EXCEPT !.turn = "main"] /\ Moves(t, 3)
          /\ UNCHANGED <<reg, turns, lock, obj, failed>>
      BY <1>1, <3>1, Sets DEF Cells
    <3> QED
      BY <1>1, <1>4, <2>2, <2>0, <3>2, LoopsAssumption DEF GeneratorInv, Moves, Threads, Cells
  <2>3. CASE pc[t] = 3
    <3>1. /\ Entry(t).op = "await" /\ Entry(t).arg = [turn |-> "t1"] /\ Entry(t).next = 4
          /\ Entry(t).else = 4
      BY <1>2, <1>4, <2>3, GeneratorThread
    <3>2. Matches(t) <=> mem.turn = "t1"
      BY <3>1, Matches_turn
    <3> QED
      BY <1>1, <1>4, <2>3, <2>0, <3>1, <3>2, Jumps, LoopsAssumption DEF GeneratorInv, Moves,
         Threads, Cells
  <2>4. CASE pc[t] = 4
    <3>1. Entry(t).op = "again" /\ Entry(t).next = 1 /\ Entry(t).else = 5
      BY <1>2, <1>4, <2>4, GeneratorThread
    <3> QED
      BY <1>1, <1>4, <2>4, <2>0, <3>1, Turns, LoopsAssumption DEF GeneratorInv, Moves, Threads,
         Cells
  <2>5. CASE pc[t] = 5
    <3>1. /\ Entry(t).op = "set" /\ Entry(t).arg = [done |-> TRUE] /\ Entry(t).next = 6
          /\ Entry(t).else = 6
      BY <1>2, <1>4, <2>5, GeneratorThread
    <3>2. /\ mem' = [mem EXCEPT !.done = TRUE] /\ Moves(t, 6)
          /\ UNCHANGED <<reg, turns, lock, obj, failed>>
      BY <1>1, <3>1, Sets DEF Cells
    <3> QED
      BY <1>1, <1>4, <2>5, <2>0, <3>2, LoopsAssumption DEF GeneratorInv, Moves, Threads, Cells
  <2>6. CASE pc[t] = 6
    <3>1. /\ Entry(t).op = "set" /\ Entry(t).arg = [turn |-> "main"] /\ Entry(t).next = 0
          /\ Entry(t).else = 0
      BY <1>2, <1>4, <2>6, GeneratorThread
    <3>2. /\ mem' = [mem EXCEPT !.turn = "main"] /\ Moves(t, 0)
          /\ UNCHANGED <<reg, turns, lock, obj, failed>>
      BY <1>1, <3>1, Sets DEF Cells
    <3> QED
      BY <1>1, <1>4, <2>6, <2>0, <3>2, LoopsAssumption DEF GeneratorInv, Moves, Threads, Cells
  <2> QED
    BY <1>1, <1>4, <2>1, <2>2, <2>3, <2>4, <2>5, <2>6 DEF GeneratorInv
<1> QED
  BY <1>1, <1>3, <1>4 DEF GeneratorInv, Threads

LEMMA GeneratorWakeup == ASSUME GeneratorInv, SpuriousWakeup PROVE GeneratorInv'
BY TypedWakeup, Wakeups DEF GeneratorInv

LEMMA GeneratorInit == ASSUME Init, prog = "Generator" PROVE GeneratorInv
BY TypedInit, Starts, LoopsAssumption DEF GeneratorInv, Table, Threads

LEMMA GeneratorNext == ASSUME GeneratorInv, [Next]_vars PROVE GeneratorInv'
<1>1. CASE UNCHANGED vars
  BY <1>1 DEF vars, GeneratorInv, Typed
<1>2. CASE SpuriousWakeup
  BY <1>2, GeneratorWakeup
<1>3. CASE \E t \in Threads : Execute(t)
  BY <1>3, GeneratorStep
<1> QED
  BY <1>1, <1>2, <1>3 DEF Next

LEMMA GeneratorShows ==
    ASSUME GeneratorInv, prog = "Generator"
    PROVE  ExactCounts /\ WholeResults /\ StartedInOrder
<1>1. ASSUME NEW t \in Threads, Runs(t)
      PROVE  /\ Entry(t).op \notin {"print", "print_time"}
              /\ (Entry(t).op = "report" => pc["main"] = 6)
              /\ (Entry(t).op = "print_next" => pc["main"] = 4)
  <2>1. code["main"] = Generator["main"] /\ code["t1"] = Generator["t1"]
    BY DEF GeneratorInv, Generator
  <2>2. CASE t = "main"
    BY <1>1, <2>1, <2>2, GeneratorEntries DEF GeneratorInv, Runs, Typed
  <2>3. CASE t = "t1"
    BY <1>1, <2>1, <2>3, GeneratorThread DEF GeneratorInv, Runs, Typed
  <2> QED
    BY <1>1, <2>2, <2>3 DEF GeneratorInv, Threads, Runs, Typed
<1>2. ExactCounts
  BY <1>1, LoopsAssumption DEF ExactCounts, At, Runs, Threads, GeneratorInv, Typed
<1>3. WholeResults
  BY <1>1, LoopsAssumption DEF WholeResults, At, Runs, Threads, GeneratorInv, Typed
<1>4. StartedInOrder
  BY <1>1, LoopsAssumption DEF StartedInOrder, At, Runs, Threads, GeneratorInv, Typed
<1> QED
  BY <1>2, <1>3, <1>4

-----------------------------------------------------------------------------
(* All programs.                                                           *)

LEMMA SameProgram == ASSUME [Next]_vars PROVE prog' = prog
<1>1. CASE UNCHANGED vars
  BY <1>1 DEF vars
<1>2. CASE SpuriousWakeup
  BY <1>2 DEF SpuriousWakeup
<1>3. ASSUME NEW t \in Threads, Execute(t) PROVE prog' = prog
  <2>1. ASSUME NEW n, Goto(t, n) PROVE prog' = prog
    BY <2>1 DEF Goto
  <2>2. Step(t) => prog' = prog
    BY DEF Step, Goto
  <2> QED
    BY <1>3, <2>1, <2>2 DEF Execute, acquireReadLock, acquireWriteLock, unlockReadLock,
       unlockWriteLock, Wait, NotifyAll, Destroy, Load, Store, Jump, Again, Create, Join, Drop,
       OpenFile, ReadFile, CloseFile, MakeDirectory, SetValue, SetException, Future, Error, Fail
<1> QED
  BY <1>1, <1>2, <1>3 DEF Next

LEMMA Programs == DOMAIN Table =
    {"test_shared_mutex", "test_mutex", "c11mutex", "normal_mutex",
     "makesurethreadgroup", "test_two_lock", "destroy_locked_mutex", "thread_join",
     "std_thread_join", "thread_get_id", "cpp11_thread_id", "func",
     "func_current", "CThread", "Thread", "FutureFileSystem",
     "Generator"}
BY DEF Table

LEMMA KeptInit == Init => Kept
<1> SUFFICES ASSUME Init PROVE Kept
  OBVIOUS
<1>0. prog \in DOMAIN Table
  BY DEF Init
<1>1. prog = "test_shared_mutex" => test_shared_mutexInv
  BY test_shared_mutexInit
<1>2. prog = "test_mutex" => test_mutexInv
  BY test_mutexInit
<1>3. prog = "c11mutex" => c11mutexInv
  BY c11mutexInit
<1>4. prog = "normal_mutex" => normal_mutexInv
  BY normal_mutexInit
<1>5. prog = "makesurethreadgroup" => makesurethreadgroupInv
  BY makesurethreadgroupInit
<1>6. prog = "test_two_lock" => test_two_lockInv
  BY test_two_lockInit
<1>7. prog = "destroy_locked_mutex" => destroy_locked_mutexInv
  BY destroy_locked_mutexInit
<1>8. prog = "thread_join" => thread_joinInv
  BY thread_joinInit
<1>9. prog = "std_thread_join" => std_thread_joinInv
  BY std_thread_joinInit
<1>10. prog = "thread_get_id" => thread_get_idInv
  BY thread_get_idInit
<1>11. prog = "cpp11_thread_id" => cpp11_thread_idInv
  BY cpp11_thread_idInit
<1>12. prog = "func" => funcInv
  BY funcInit
<1>13. prog = "func_current" => func_currentInv
  BY func_currentInit
<1>14. prog = "CThread" => CThreadInv
  BY CThreadInit
<1>15. prog = "Thread" => ThreadInv
  BY ThreadInit
<1>16. prog = "FutureFileSystem" => FutureFileSystemInv
  BY FutureFileSystemInit
<1>17. prog = "Generator" => GeneratorInv
  BY GeneratorInit
<1> QED
  BY <1>0, <1>1, <1>2, <1>3, <1>4, <1>5, <1>6, <1>7, <1>8, <1>9, <1>10, <1>11, <1>12, <1>13,
     <1>14, <1>15, <1>16, <1>17 DEF Kept

LEMMA KeptStep == Kept /\ [Next]_vars => Kept'
<1> SUFFICES ASSUME Kept, [Next]_vars PROVE Kept'
  OBVIOUS
<1>0. prog' = prog /\ prog \in DOMAIN Table
  BY SameProgram DEF Kept
<1>1. prog = "test_shared_mutex" => test_shared_mutexInv'
  BY test_shared_mutexNext DEF Kept
<1>2. prog = "test_mutex" => test_mutexInv'
  BY test_mutexNext DEF Kept
<1>3. prog = "c11mutex" => c11mutexInv'
  BY c11mutexNext DEF Kept
<1>4. prog = "normal_mutex" => normal_mutexInv'
  BY normal_mutexNext DEF Kept
<1>5. prog = "makesurethreadgroup" => makesurethreadgroupInv'
  BY makesurethreadgroupNext DEF Kept
<1>6. prog = "test_two_lock" => test_two_lockInv'
  BY test_two_lockNext DEF Kept
<1>7. prog = "destroy_locked_mutex" => destroy_locked_mutexInv'
  BY destroy_locked_mutexNext DEF Kept
<1>8. prog = "thread_join" => thread_joinInv'
  BY thread_joinNext DEF Kept
<1>9. prog = "std_thread_join" => std_thread_joinInv'
  BY std_thread_joinNext DEF Kept
<1>10. prog = "thread_get_id" => thread_get_idInv'
  BY thread_get_idNext DEF Kept
<1>11. prog = "cpp11_thread_id" => cpp11_thread_idInv'
  BY cpp11_thread_idNext DEF Kept
<1>12. prog = "func" => funcInv'
  BY funcNext DEF Kept
<1>13. prog = "func_current" => func_currentInv'
  BY func_currentNext DEF Kept
<1>14. prog = "CThread" => CThreadInv'
  BY CThreadNext DEF Kept
<1>15. prog = "Thread" => ThreadInv'
  BY ThreadNext DEF Kept
<1>16. prog = "FutureFileSystem" => FutureFileSystemInv'
  BY FutureFileSystemNext DEF Kept
<1>17. prog = "Generator" => GeneratorInv'
  BY GeneratorNext DEF Kept
<1> QED
  BY <1>0, <1>1, <1>2, <1>3, <1>4, <1>5, <1>6, <1>7, <1>8, <1>9, <1>10, <1>11, <1>12, <1>13,
     <1>14, <1>15, <1>16, <1>17 DEF Kept

LEMMA KeptShows == Kept => ExactCounts /\ WholeResults /\ StartedInOrder
<1> SUFFICES ASSUME Kept PROVE ExactCounts /\ WholeResults /\ StartedInOrder
  OBVIOUS
<1>0. prog \in DOMAIN Table
  BY DEF Kept
<1>1. prog = "test_shared_mutex" => ExactCounts /\ WholeResults /\ StartedInOrder
  BY test_shared_mutexShows DEF Kept
<1>2. prog = "test_mutex" => ExactCounts /\ WholeResults /\ StartedInOrder
  BY test_mutexShows DEF Kept
<1>3. prog = "c11mutex" => ExactCounts /\ WholeResults /\ StartedInOrder
  BY c11mutexShows DEF Kept
<1>4. prog = "normal_mutex" => ExactCounts /\ WholeResults /\ StartedInOrder
  BY normal_mutexShows DEF Kept
<1>5. prog = "makesurethreadgroup" => ExactCounts /\ WholeResults /\ StartedInOrder
  BY makesurethreadgroupShows DEF Kept
<1>6. prog = "test_two_lock" => ExactCounts /\ WholeResults /\ StartedInOrder
  BY test_two_lockShows DEF Kept
<1>7. prog = "destroy_locked_mutex" => ExactCounts /\ WholeResults /\ StartedInOrder
  BY destroy_locked_mutexShows DEF Kept
<1>8. prog = "thread_join" => ExactCounts /\ WholeResults /\ StartedInOrder
  BY thread_joinShows DEF Kept
<1>9. prog = "std_thread_join" => ExactCounts /\ WholeResults /\ StartedInOrder
  BY std_thread_joinShows DEF Kept
<1>10. prog = "thread_get_id" => ExactCounts /\ WholeResults /\ StartedInOrder
  BY thread_get_idShows DEF Kept
<1>11. prog = "cpp11_thread_id" => ExactCounts /\ WholeResults /\ StartedInOrder
  BY cpp11_thread_idShows DEF Kept
<1>12. prog = "func" => ExactCounts /\ WholeResults /\ StartedInOrder
  BY funcShows DEF Kept
<1>13. prog = "func_current" => ExactCounts /\ WholeResults /\ StartedInOrder
  BY func_currentShows DEF Kept
<1>14. prog = "CThread" => ExactCounts /\ WholeResults /\ StartedInOrder
  BY CThreadShows DEF Kept
<1>15. prog = "Thread" => ExactCounts /\ WholeResults /\ StartedInOrder
  BY ThreadShows DEF Kept
<1>16. prog = "FutureFileSystem" => ExactCounts /\ WholeResults /\ StartedInOrder
  BY FutureFileSystemShows DEF Kept
<1>17. prog = "Generator" => ExactCounts /\ WholeResults /\ StartedInOrder
  BY GeneratorShows DEF Kept
<1> QED
  BY <1>0, <1>1, <1>2, <1>3, <1>4, <1>5, <1>6, <1>7, <1>8, <1>9, <1>10, <1>11, <1>12, <1>13,
     <1>14, <1>15, <1>16, <1>17, Programs

\* Every program keeps its own invariant: which labels its threads can be at
\* together, who holds the lock there, and what they have made of memory.
THEOREM ProgramsKeep == Spec => []Kept
<1> QED
  BY KeptInit, KeptStep, PTL DEF Spec

\* No increment is lost, whatever Loops is: under either lock main reads the number
\* of increments after the joins, a worker prints a number and its successor, and the
\* generator yields every number once, in order (basic/thread, cpp20/Coroutines).
THEOREM CountsAreExact == Spec => []ExactCounts
<1> QED
  BY ProgramsKeep, KeptShows, PTL

\* What main takes from a thread it has joined, or from a promise, is whole; a
\* thread that was joined has returned; the process is terminated only after a
\* failure, or by func and a second Start.
THEOREM ResultsAreWhole == Spec => []WholeResults
<1> QED
  BY ProgramsKeep, KeptShows, PTL

\* Main leaves the wait for a thread of the group only when that thread runs.
THEOREM ThreadsStartInOrder == Spec => []StartedInOrder
<1> QED
  BY ProgramsKeep, KeptShows, PTL

=============================================================================
