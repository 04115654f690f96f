--------------------------- MODULE ThreadPrograms ---------------------------
(***************************************************************************)
(* The small multi-threaded programs of basic/thread and cpp20/Coroutines. *)
(* A program is a table for main and one for each thread it starts; an     *)
(* entry is one access to something shared, with the label the thread goes *)
(* on at and the one for a failure.  Label 0 is the return of the thread's *)
(* function, Terminate the call of std::terminate.                         *)
(***************************************************************************)
EXTENDS Integers, Sequences

CONSTANT Loops   \* turns of every loop (LOOP_COUNT, 3, or for ever, in the source)

ASSUME LoopsAssumption == Loops \in Nat \ {0}

Terminate == -1
Unborn == -2

Or(op, arg, next, else) == [op |-> op, arg |-> arg, next |-> next, else |-> else]
Do(op, arg, next) == Or(op, arg, next, next)

\* The calls a main makes for each thread of ts, from label n on.
ForAll(op, ts, n, else(_)) ==
    [k \in 1..Len(ts) |-> Or(op, ts[k], n + k, else(n + k))]
Throws(next) == Terminate
Ignored(next) == next

-----------------------------------------------------------------------------
(* Counters under a mutex.  Every loop starts at label 1.                  *)

\* Mutant: the increment takes the lock only to read.
SharedIncrement ==
    <<Do("read_lock", "m", 2), Do("load", "value", 3), Do("store_next", "value", 4),
      Do("read_unlock", "m", 5)>>
increment ==
    <<Do("write_lock", "m", 2), Do("load", "value", 3), Do("store_next", "value", 4),
      Do("write_unlock", "m", 5)>>
\* Mutant: the lock is not given back with the value.
GetKeepsLock ==
    <<Do("read_lock", "m", 2), Do("load", "value", 3), Do("load", "value", 4)>>
get == <<Do("read_lock", "m", 2), Do("load", "value", 3), Do("read_unlock", "m", 4)>>
get_exclusive == <<Do("write_lock", "m", 2), Do("load", "value", 3), Do("write_unlock", "m", 4)>>

Writer(inc) == inc \o <<Or("again", "none", 1, 0)>>
Reader(read) == read \o <<Do("store", "temp", 5), Or("again", "none", 1, 0)>>

\* Two readers and a writer, all joined; then main reads the counter.
Comparison(read) ==
    LET ts == <<"t1", "t2", "t3">>
    IN [main |-> ForAll("create", ts, 1, Throws) \o ForAll("join", ts, 4, Ignored)
                 \o [k \in 1..3 |-> Do(read[k].op, read[k].arg, k + 7)]
                 \o <<Do("report", "none", 0)>>,
        t1 |-> Reader(read), t2 |-> Reader(read), t3 |-> Writer(increment)]
test_shared_mutex == Comparison(get)
test_mutex == Comparison(get_exclusive)

c11mutex ==
    LET ts == <<"t1", "t2">>
    IN [main |-> ForAll("create", ts, 1, Throws) \o ForAll("join", ts, 3, Ignored)
                 \o <<Do("load", "value", 6), Do("report", "none", 0)>>,
        t1 |-> Writer(increment), t2 |-> Writer(increment), t3 |-> <<>>]

\* The workers print the number before and after, and never return: after Loops
\* turns they rest.
worker_thread ==
    <<Do("write_lock", "m", 2), Do("load", "value", 3), Do("store_next", "value", 4),
      Do("print", "value", 5), Do("write_unlock", "m", 6), Or("again", "none", 1, 7),
      Do("rest", "none", 7)>>
normal_mutex ==
    LET ts == <<"t1", "t2", "t3">>
    IN [main |-> ForAll("create", ts, 1, Ignored) \o ForAll("join", ts, 4, Ignored)
                 \o <<Do("destroy", "m", 0)>>,
        t1 |-> worker_thread, t2 |-> worker_thread, t3 |-> worker_thread]

\* Main starts its threads one at a time and waits for each until it reports.
\* The flag is cleared without the lock.
thread_func ==
    <<Do("write_lock", "m", 2), Do("set", [success |-> TRUE], 3), Do("notify_all", "none", 4),
      Do("write_unlock", "m", 5), Do("rest", "none", 5)>>
\* Mutant: the loop does not clear the flag.
StartUpUncleared(t, n) ==
    <<Do("set", [temp |-> 0], n + 1), Or("create", t, n + 2, Terminate),
      Do("write_lock", "m", n + 3), Or("is", [success |-> TRUE], n + 5, n + 4),
      Do("cv_wait", "m", n + 2), Do("write_unlock", "m", n + 6)>>
StartUp(t, n) ==
    <<Do("set", [success |-> FALSE], n + 1), Or("create", t, n + 2, Terminate),
      Do("write_lock", "m", n + 3), Or("is", [success |-> TRUE], n + 5, n + 4),
      Do("cv_wait", "m", n + 2), Do("write_unlock", "m", n + 6)>>
makesurethreadgroup ==
    [main |-> StartUp("t1", 1) \o StartUp("t2", 7) \o StartUp("t3", 13)
              \o ForAll("join", <<"t1", "t2", "t3">>, 19, Ignored),
     t1 |-> thread_func, t2 |-> thread_func, t3 |-> thread_func]

Alone(main) == [main |-> main, t1 |-> <<>>, t2 |-> <<>>, t3 |-> <<>>]
test_two_lock ==
    Alone(<<Do("write_lock", "m", 2), Do("write_lock", "m", 3), Do("destroy", "m", 0)>>)
destroy_locked_mutex ==
    Alone(<<Do("write_lock", "m", 2), Do("destroy", "m", 3), Do("write_unlock", "m", 4),
            Do("destroy", "m", 0)>>)

-----------------------------------------------------------------------------
(* Threads: joins, handles, identities.                                    *)

With(main, thread) == [main |-> main, t1 |-> thread, t2 |-> <<>>, t3 |-> <<>>]

\* What fwrite was given reaches the file when fclose flushes it, or does not.
fileThreadFunc == <<Or("fopen_w", "file", 2, 0), Do("fclose", "file", 0)>>
ReadTime == <<Or("fopen_r", "file", 4, 0), Or("fread", "file", 5, 0), Do("print_time", "none", 0)>>
\* Mutant: main does not wait for the thread.
ThreadNotJoined ==
    With(<<Or("create", "t1", 2, 0), Do("any", {3}, 3)>> \o ReadTime, fileThreadFunc)
thread_join ==
    With(<<Or("create", "t1", 2, 0), Do("join", "t1", 3)>> \o ReadTime, fileThreadFunc)
std_thread_join ==
    With(<<Or("create", "t1", 2, Terminate), Do("join", "t1", 3)>> \o ReadTime, fileThreadFunc)

\* The new thread may look at the variable before pthread_create has stored
\* its identity there.
thread_get_id ==
    With(<<Do("create", "t1", 2), Do("set", [tid |-> "t1"], 3), Do("join", "t1", 0)>>,
         <<Do("load", "tid", 1)>>)
cpp11_thread_id ==
    With(<<Or("create", "t1", 2, Terminate), Do("rest", "none", 2)>>, <<Do("rest", "none", 1)>>)
func == With(<<Or("create", "t1", 2, Terminate), Do("drop", "t1", 0)>>, <<Do("rest", "none", 1)>>)
func_current ==
    With(<<Or("create", "t1", 2, Terminate), Do("detach", "t1", 3), Do("rest", "none", 3)>>,
         <<Do("rest", "none", 1)>>)

\* CThread.  Its owner calls Create (label 2), Join (5), or nothing more (8).
\* A Create that fails leaves anything in m_hThread.  The thread asks whether
\* it IsCurrentThread.
CThread_Create(back) ==
    <<Or("is", [handle |-> "zero"], 3, back), Or("create", "t1", 4, 7),
      Do("set", [handle |-> "t1"], back)>>
CThread_Join(back) ==
    <<Or("is", [handle |-> "zero"], back, 6), Do("join", "t1", back)>>
ThreadEntry ==
    <<Do("any", {2, 3}, 0), Do("load", "handle", 3), Do("set", [exited |-> TRUE], 0)>>
CThread ==
    With(<<Do("any", {2, 5, 8}, 0)>> \o CThread_Create(1) \o CThread_Join(1)
         \o <<Do("garble", "handle", 1), Do("rest", "none", 8)>>, ThreadEntry)

\* The class of custom-thread-cls.cpp: Start (2) and Stop (4).  A second Start
\* assigns to a pointer whose thread is joinable.
Start(back) == <<Do("set", [stopped |-> FALSE], 3), Or("create", "t1", back, Terminate)>>
\* Mutant: Stop does not wait.
StopDoesNotJoin(back) == <<Do("set", [stopped |-> TRUE], 5), Do("any", {back}, back)>>
Stop(back) == <<Do("set", [stopped |-> TRUE], 5), Do("join_if", "t1", back)>>
threadFunc == <<Or("is", [stopped |-> TRUE], 0, 1)>>
Thread == With(<<Do("any", {2, 4, 6}, 0)>> \o Start(1) \o Stop(1) \o <<Do("rest", "none", 6)>>,
               threadFunc)

-----------------------------------------------------------------------------
(* Promises and a coroutine.                                               *)

\* set_value after set_exception throws, and nobody catches it.
createDirectoriesAsync(leaf, promise) ==
    <<Or("mkdir", "dir", 2, 4), Or("mkdir", leaf, 3, 4),
      Or("set_value", promise, 0, Terminate),
      Do("set_exception", promise, 5), Or("set_value", promise, 0, Terminate)>>
FutureFileSystem ==
    LET ts == <<"t1", "t2", "t3">>
        fs == <<"f1", "f2", "f3">>
    IN [main |-> ForAll("create", ts, 1, Throws) \o ForAll("wait", fs, 4, Ignored)
                 \o ForAll("get", fs, 7, Throws) \o ForAll("join", ts, 10, Ignored)
                 \o <<Do("report", "none", 0)>>,
        t1 |-> createDirectoriesAsync("leaf1", "f1"),
        t2 |-> createDirectoriesAsync("leaf2", "f2"),
        t3 |-> createDirectoriesAsync("leaf3", "f3")]

\* The coroutine has the processor until it suspends, and again when resumed.
doCount ==
    <<Do("store_turn", "value", 2), Do("set", [turn |-> "main"], 3),
      Do("await", [turn |-> "t1"], 4), Or("again", "none", 1, 5), Do("set", [done |-> TRUE], 6),
      Do("set", [turn |-> "main"], 0)>>
Generator ==
    With(<<Do("call", "t1", 2), Do("await", [turn |-> "main"], 3),
           Or("is", [done |-> TRUE], 6, 4), Do("print_next", "value", 5),
           Do("set", [turn |-> "t1"], 2), Do("report", "none", 0)>>, doCount)

Table ==
    [test_shared_mutex |-> test_shared_mutex, test_mutex |-> test_mutex, c11mutex |-> c11mutex,
     normal_mutex |-> normal_mutex, makesurethreadgroup |-> makesurethreadgroup,
     test_two_lock |-> test_two_lock,
     destroy_locked_mutex |-> destroy_locked_mutex, thread_join |-> thread_join,
     std_thread_join |-> std_thread_join, thread_get_id |-> thread_get_id,
     cpp11_thread_id |-> cpp11_thread_id, func |-> func, func_current |-> func_current,
     CThread |-> CThread, Thread |-> Thread, FutureFileSystem |-> FutureFileSystem,
     Generator |-> Generator]

\* Programs whose threads read names, not numbers.
Named == {"thread_join", "std_thread_join", "thread_get_id", "CThread"}

\* What a program may find in memory and in the file system.
Memory(name) ==
    [value : {0}, temp : {0}, success : {FALSE}, tid : {"any"}, handle : {"zero"}, exited : {FALSE},
     stopped : {FALSE}, turn : {"t1"}, done : {FALSE}, f1 : {"none"}, f2 : {"none"}, f3 : {"none"},
     file : IF name \in {"thread_join", "std_thread_join"} THEN {"absent", "old"} ELSE {"absent"},
     dir : IF name = "FutureFileSystem" THEN {"absent", "dir", "file"} ELSE {"absent"},
     leaf1 : {"absent"}, leaf2 : {"absent"}, leaf3 : {"absent"}]

-----------------------------------------------------------------------------
VARIABLES prog,    \* the program
          code,    \* its tables
          pc,      \* label of each thread's next entry
          reg,     \* what each thread has read last
          turns,   \* turns of its loop each thread has completed
          lock,    \* the mutex: its writer, its readers, who waits on the condition
                   \* variable, not yet destroyed
          mem,     \* what the threads share
          obj,     \* the thread objects: "none", "joinable", "done" or "detached"
          failed,  \* operations that have failed
          over     \* "no", or how the process has ended

vars == <<prog, code, pc, reg, turns, lock, mem, obj, failed, over>>

Threads == {"main", "t1", "t2", "t3"}

Init ==
    /\ prog \in DOMAIN Table
    /\ code = Table[prog]
    /\ pc = [t \in Threads |-> IF t = "main" THEN 1 ELSE Unborn]
    /\ reg = [t \in Threads |-> IF prog \in Named THEN "nothing" ELSE 0]
    /\ turns = [t \in Threads |-> 0]
    /\ lock = [writer |-> "none", readers |-> {}, waiting |-> {}, alive |-> TRUE]
    /\ mem \in Memory(prog)
    /\ obj = [t \in Threads |-> "none"]
    /\ failed = {}
    /\ over = "no"

Runs(t) == over = "no" /\ pc[t] > 0
Entry(t) == code[t][pc[t]]
At(t, op) == Runs(t) /\ Entry(t).op = op
Arg(t) == Entry(t).arg

Goto(t, label) ==
    /\ pc' = [pc EXCEPT ![t] = label]
    /\ over' = CASE label = Terminate -> "terminate"
                 [] label = 0 /\ t = "main" -> "exit"
                 [] OTHER -> over
    /\ UNCHANGED <<prog, code>>
Step(t) == Goto(t, Entry(t).next)
Fail(t) == Goto(t, Entry(t).else) /\ failed' = failed \cup {Entry(t).op}

-----------------------------------------------------------------------------
(* The mutex: a pthread_rwlock, or a mutex that has writers only.          *)

Held(new) == lock' = new /\ UNCHANGED <<reg, turns, mem, obj, failed>>

acquireReadLock(t) ==
    /\ At(t, "read_lock") /\ lock.writer = "none"
    /\ Held([lock EXCEPT !.readers = @ \cup {t}])
    /\ Step(t)

acquireWriteLock(t) ==
    /\ At(t, "write_lock") /\ t \notin lock.waiting
    /\ lock.writer = "none" /\ lock.readers = {}
    /\ Held([lock EXCEPT !.writer = t])
    /\ Step(t)

unlockReadLock(t) ==
    /\ At(t, "read_unlock")
    /\ Held([lock EXCEPT !.readers = @ \ {t}])
    /\ Step(t)

unlockWriteLock(t) ==
    /\ At(t, "write_unlock")
    /\ Held([lock EXCEPT !.writer = "none"])
    /\ Step(t)

\* wait gives the lock back and sleeps; the next entry takes it again.
Wait(t) ==
    /\ At(t, "cv_wait")
    /\ Held([lock EXCEPT !.writer = "none", !.waiting = @ \cup {t}])
    /\ Step(t)

NotifyAll(t) ==
    /\ At(t, "notify_all")
    /\ Held([lock EXCEPT !.waiting = {}])
    /\ Step(t)

SpuriousWakeup ==
    /\ \E t \in lock.waiting : Held([lock EXCEPT !.waiting = @ \ {t}])
    /\ UNCHANGED <<prog, code, pc, over>>

\* A mutex that is held is not destroyed (EBUSY).
Destroy(t) ==
    /\ At(t, "destroy")
    /\ Held([lock EXCEPT !.alive = lock.writer # "none" \/ lock.readers # {}])
    /\ Step(t)

-----------------------------------------------------------------------------
(* Memory.                                                                 *)

Load(t) ==
    /\ At(t, "load")
    /\ reg' = [reg EXCEPT ![t] = mem[Arg(t)]]
    /\ Step(t)
    /\ UNCHANGED <<turns, lock, mem, obj, failed>>

Written(new) == mem' = new /\ UNCHANGED <<reg, turns, lock, obj, failed>>

Store(t) ==
    /\ \/ At(t, "store") /\ Written([mem EXCEPT ![Arg(t)] = reg[t]])
       \/ At(t, "store_next") /\ Written([mem EXCEPT ![Arg(t)] = reg[t] + 1])
       \/ At(t, "store_turn") /\ Written([mem EXCEPT ![Arg(t)] = turns[t]])
       \/ At(t, "print_next") /\ Written([mem EXCEPT !.temp = @ + 1])
       \/ At(t, "set") /\ Written([c \in DOMAIN mem |-> IF c \in DOMAIN Arg(t) THEN Arg(t)[c]
                                                       ELSE mem[c]])
       \/ At(t, "garble") /\ \E v \in {"zero", "garbage"} : Written([mem EXCEPT ![Arg(t)] = v])
    /\ Step(t)

Matches(t) == \A cell \in DOMAIN Arg(t) : mem[cell] = Arg(t)[cell]

Jump(t) ==
    /\ \/ At(t, "is") /\ Goto(t, IF Matches(t) THEN Entry(t).next ELSE Entry(t).else)
       \/ At(t, "await") /\ Matches(t) /\ Step(t)
       \/ At(t, "any") /\ \E label \in Arg(t) : Goto(t, label)
       \/ \E op \in {"print", "print_time", "report"} : At(t, op) /\ Step(t)
    /\ UNCHANGED <<reg, turns, lock, mem, obj, failed>>

Again(t) ==
    /\ At(t, "again")
    /\ turns' = [turns EXCEPT ![t] = @ + 1]
    /\ Goto(t, IF turns[t] + 1 < Loops THEN Entry(t).next ELSE Entry(t).else)
    /\ UNCHANGED <<reg, lock, mem, obj, failed>>

-----------------------------------------------------------------------------
(* Thread objects, the file, and promises.                                 *)

Born(t, u, label) == [pc EXCEPT ![t] = label, ![u] = 1]

\* A coroutine is called on the caller's thread and has no thread object.
Create(t) ==
    LET u == Arg(t) IN
    /\ At(t, "create") \/ At(t, "call")
    /\ IF obj[u] = "joinable"
       THEN pc' = pc /\ over' = "terminate" /\ obj' = obj
       ELSE /\ pc' = Born(t, u, Entry(t).next) /\ over' = over
            /\ obj' = IF At(t, "create") THEN [obj EXCEPT ![u] = "joinable"] ELSE obj
    /\ UNCHANGED <<prog, code, reg, turns, lock, mem, failed>>

\* To join what is not joinable is undefined; join_if asks joinable() first.
Join(t) ==
    LET u == Arg(t) IN
    /\ At(t, "join") \/ At(t, "join_if")
    /\ \/ /\ obj[u] = "joinable" /\ pc[u] = 0
          /\ obj' = [obj EXCEPT ![u] = "done"]
          /\ Step(t)
       \/ obj[u] # "joinable" /\ Step(t) /\ UNCHANGED obj
       \/ /\ At(t, "join") /\ obj[u] # "joinable"
          /\ over' = "crash"
          /\ UNCHANGED <<prog, code, pc, obj>>
    /\ UNCHANGED <<reg, turns, lock, mem, failed>>

Drop(t) ==
    /\ \/ /\ At(t, "drop")
          /\ Goto(t, IF obj[Arg(t)] = "joinable" THEN Terminate ELSE Entry(t).next)
          /\ UNCHANGED obj
       \/ /\ At(t, "detach")
          /\ obj' = [obj EXCEPT ![Arg(t)] = "detached"]
          /\ Step(t)
    /\ UNCHANGED <<reg, turns, lock, mem, failed>>

OpenFile(t) ==
    /\ \/ At(t, "fopen_w") /\ Written([mem EXCEPT !.file = "empty"]) /\ Step(t)
       \/ /\ At(t, "fopen_r") /\ Written(mem)
          /\ Goto(t, IF mem.file = "absent" THEN Entry(t).else ELSE Entry(t).next)

ReadFile(t) ==
    /\ At(t, "fread")
    /\ reg' = [reg EXCEPT ![t] = mem.file]
    /\ Goto(t, IF mem.file = "empty" THEN Entry(t).else ELSE Entry(t).next)
    /\ UNCHANGED <<turns, lock, mem, obj, failed>>

CloseFile(t) ==
    /\ At(t, "fclose")
    /\ Step(t)
    /\ \E content \in {"new", "part", "empty"} :
          /\ mem' = [mem EXCEPT !.file = content]
          /\ failed' = IF content = "new" THEN failed ELSE failed \cup {"fclose"}
    /\ UNCHANGED <<reg, turns, lock, obj>>

\* A directory another thread has made meanwhile is as good as one's own.
MakeDirectory(t) ==
    /\ At(t, "mkdir") /\ mem[Arg(t)] # "file"
    /\ Written([mem EXCEPT ![Arg(t)] = "dir"])
    /\ Step(t)

\* A promise is kept once: a second set_value throws.
SetValue(t) ==
    LET new == mem[Arg(t)] = "none" IN
    /\ At(t, "set_value")
    /\ Written(IF new THEN [mem EXCEPT ![Arg(t)] = "value"] ELSE mem)
    /\ Goto(t, IF new THEN Entry(t).next ELSE Entry(t).else)

SetException(t) ==
    /\ At(t, "set_exception")
    /\ Written([mem EXCEPT ![Arg(t)] = "exception"])
    /\ Step(t)

Future(t) ==
    /\ At(t, "wait") \/ At(t, "get")
    /\ mem[Arg(t)] # "none"
    /\ Goto(t, IF At(t, "get") /\ mem[Arg(t)] = "exception" THEN Entry(t).else ELSE Entry(t).next)
    /\ UNCHANGED <<reg, turns, lock, mem, obj, failed>>

\* Calls that fail without an effect.
Error(t) ==
    /\ \E op \in {"create", "fopen_w", "fopen_r", "fread", "mkdir"} : At(t, op)
    /\ Fail(t)
    /\ UNCHANGED <<reg, turns, lock, mem, obj>>

Execute(t) ==
    \/ acquireReadLock(t) \/ acquireWriteLock(t) \/ unlockReadLock(t) \/ unlockWriteLock(t)
    \/ Wait(t) \/ NotifyAll(t) \/ Destroy(t) \/ Load(t) \/ Store(t) \/ Jump(t) \/ Again(t)
    \/ Create(t) \/ Join(t) \/ Drop(t)
    \/ OpenFile(t) \/ ReadFile(t) \/ CloseFile(t)
    \/ MakeDirectory(t) \/ SetValue(t) \/ SetException(t) \/ Future(t) \/ Error(t)

Next == SpuriousWakeup \/ \E t \in Threads : Execute(t)

\* Every thread is scheduled, and who waits for the mutex gets it in the end
\* although main keeps taking it between spurious wake-ups.
Spec ==
    /\ Init /\ [][Next]_vars
    /\ \A t \in Threads : WF_vars(Execute(t)) /\ SF_vars(acquireWriteLock(t))

-----------------------------------------------------------------------------
\* No increment is lost: what main reads after the joins is the number of
\* increments, a worker prints a number and its successor, and the generator
\* yields every number once, in order.  The locked mutex outlives its first
\* destruction and not its second.
ExactCounts ==
    /\ prog \in {"test_mutex", "test_shared_mutex"} /\ At("main", "report")
          => reg["main"] = Loops /\ mem.temp \in 0..Loops
    /\ prog = "c11mutex" /\ At("main", "report") => reg["main"] = 2 * Loops
    /\ \A t \in Threads : At(t, "print") => mem.value = reg[t] + 1
    /\ prog = "Generator" =>
          /\ At("main", "print_next") => mem.value = mem.temp
          /\ At("main", "report") => mem.temp = Loops
    /\ prog = "destroy_locked_mutex" => (lock.alive <=> over = "no")

\* What a thread takes from another is whole.  The time main prints is the one
\* the thread wrote, unless the thread could not open the file (then it is an
\* older one) or not write it.  FutureFileSystem returns from main only when
\* every directory is made: any failure ends the process.  A thread that has
\* been joined has run to its end, ExitInstance included; after Stop it does not
\* run.  Nothing undefined happens except to a CThread that is joined twice or
\* after a failed Create, and to main joining a thread it could not create.
WholeResults ==
    /\ At("main", "print_time") =>
          \/ reg["main"] = "new"
          \/ reg["main"] = "old" /\ "fopen_w" \in failed
          \/ reg["main"] = "part" /\ "fclose" \in failed
    /\ prog = "FutureFileSystem" /\ over = "exit" =>
          /\ \A leaf \in {"leaf1", "leaf2", "leaf3"} : mem[leaf] = "dir"
          /\ \A f \in {"f1", "f2", "f3"} : mem[f] = "value"
          /\ failed = {}
    /\ prog = "CThread" /\ obj["t1"] = "done" => pc["t1"] = 0 /\ mem.exited
    /\ prog = "Thread" /\ mem.stopped /\ pc["main"] # 5 => ~Runs("t1")
    /\ over = "terminate" => failed # {} \/ mem.dir = "file" \/ prog \in {"func", "Thread"}
    /\ over = "crash" => prog = "CThread" \/ "create" \in failed

\* Main leaves the wait for a thread only when that thread runs: it never takes
\* the report of an earlier one, left in the flag, for it, although it clears
\* the flag without the lock.
StartedInOrder ==
    /\ prog = "makesurethreadgroup" =>
          /\ pc["main"] >= 6 => pc["t1"] = 5
          /\ pc["main"] >= 12 => pc["t2"] = 5
          /\ pc["main"] >= 18 => pc["t3"] = 5

\* Programs that end.
Finite == {"test_mutex", "test_shared_mutex", "c11mutex", "destroy_locked_mutex", "thread_join",
           "std_thread_join", "FutureFileSystem", "Generator"}

\* They do, whatever fails: no lock is kept and no promise left open.  Stop
\* comes back, and main starts all threads of the group.
AllFinish ==
    /\ prog \in Finite ~> over # "no"
    /\ prog = "Thread" /\ At("main", "join_if") ~> ~At("main", "join_if")
    /\ prog = "makesurethreadgroup" ~> pc["main"] > 18 \/ over # "no"
=============================================================================
