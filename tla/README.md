# thinking-in-cpp in TLA+

The repository is a C++ learning collection: many small programs, each with its
own `main`, grouped by subject. It is not one system but several that share
patterns: queues drained by worker threads, timers and event loops over
sockets, byte-level codecs, hand-written memory management. This directory
models the programs that have a state worth checking, puts the abstract
behaviour that several of them promise in modules of its own, and proves what
matters most about the work queues, the small multi-threaded programs, the coroutine runtime, the mail service, the
event loops, the timers, the packets and the hand-written memory management.

## Inventory

State, operations and what makes each part correct. "Hard" names the behaviour
a test would hardly reach.

### Threads and work queues (`basic/thread`)

* **Task pool** (`task-pool/TaskPool.{h,cpp}`, `main.cpp`). State: the list
  `m_taskList` under `m_mutexList`, the condition variable `m_cv`, the flag
  `m_bRunning` (no lock protects it) and the thread objects `m_threads`.
  Operations: `init`, `threadFunc` (one per worker), `addTask`,
  `removeAllTasks`, `stop`, the destructor. Hard: the unlocked flag against the
  wait, `notify_one` after the unlock, stop and restart. Correct when each task
  runs once, in order, none is forgotten, nothing is popped from an empty list
  and no thread outlives `stop`.
* **Producer and consumers with a condition variable** (`cond-var.cpp`): one
  producer, five consumers, the task is handled under the lock.
* **Producer and consumers with a semaphore** (`t-mutex/semaphore-thread.cpp`):
  the consumers wait on a semaphore, look at the list without the lock, then pop
  under the lock and handle the task outside it. Hard: the unlocked look and the
  pop that trusts it.
* **Small multi-threaded programs**: a reader-writer lock and its comparison
  with a mutex (`c11-shared-mutex`, `mutex-vs-sharedmutex.cpp`), counters under
  locks and locks used wrongly (`t-mutex/`, `c11mutex.cpp`), the start of a
  group of threads one by one (`makesurethreadgroup.cpp`), thread objects
  (`custom-thread/`), joins and identities (`thread-join.cpp`,
  `std-thread-join.cpp`, `thread-get-id.cpp`, ...). Hard: a flag that is cleared
  without the lock, a handle that survives its join, a file an earlier run left.

### Coroutines (`cpp20/Coroutines`)

* **asyncpp** (`Asyncpp`). State: the task queue of the main thread, the I/O
  queue, one frame per running coroutine, the two loops. A `co_await` stores a
  task in one of the queues and suspends; the I/O thread runs I/O tasks and
  sends the resumption back. Hard: the result must be written before the
  resumption, the frame must be alive when its pointer is used, each suspension
  is resumed once.
* **Promises and futures** (`FutureFileSystem`): a promise that is set twice
  when a directory cannot be made. **Generator**: a coroutine that counts.

### Network programs (`network/api`, `network/tcp`)

* **Timers** (`timer/`): a list of timers, a check that runs those that are due.
  Hard: the walk while callbacks and the check itself change the list.
* **Mail monitor** and **SMTP client** (`smtp-socket/`): a queue of mails drained
  by one thread; for each mail a dialogue with a server. Hard: shutdown from a
  signal handler, each failure of the dialogue, replies that come in pieces.
* **Event loops** (`select_server`, `poll_server`, `linux_ioctl`, `epoll_server`,
  `epoll_server_with_oneshot`). State: the descriptors and how each is watched.
  Hard: events of one batch about descriptors an earlier event closed, arming a
  one-shot descriptor again, an `errno` that belongs to another call.
* **Straight-line socket programs** (`cpp-tcp/*client*`, `*connect*`, `server`,
  `blocking_server`, `server_recv_zero_bytes`, `tcp/helloworld`, `dns`). Hard:
  which exits close which descriptors, what a non-blocking connect has achieved,
  who waits for whom.
* **Protocol stream** (`protocol/ProtocolStream`): packets of length-prefixed
  and fixed-size fields. Hard: bounds, widths, what a failed read leaves behind.

### Memory and numbers

* **Garbage-collected pointer** (`basic/STL/practice/GCPtr.h`): a list of counts
  per type; assignment, copy, collection, shutdown.
* **String** (`basic/oop/String`): a buffer with copy and move operations. Hard:
  an assignment that runs out of memory, moving what was moved from.
* **NumCpp** (`cpp20/concepts/NumCpp`): arrays over shared storage, indexing,
  element-wise operations, reductions, slices.

The parts that are not modelled are listed at the end.

## Modules and the code

| Program | Modules | |
|---|---|---|
| what a work queue promises | `WorkQueue` | abstract |
| `basic/thread/task-pool` | `TaskPool`, `TaskPoolProofs` | implements `WorkQueue` |
| `basic/thread/cond-var.cpp` | `CondVarQueue`, `CondVarQueueProofs` | implements `WorkQueue` |
| `t-mutex/semaphore-thread.cpp` | `SemaphoreQueue`, `SemaphoreQueueProofs` | implements `WorkQueue` |
| the other programs of `basic/thread`, `FutureFileSystem`, `Generator` | `ThreadPrograms`, `ThreadProgramsProofs` | tables |
| what `co_await` promises | `AwaitedCalls`, `FileSystem` | abstract |
| `cpp20/Coroutines/Asyncpp` | `Asyncpp`, `AsyncppProofs`, `FileSystem` | implements `AwaitedCalls` |
| `smtp-socket`: monitor, `main` | `MailMonitor` | |
| `smtp-socket/SmtpSocket` | `SmtpSocket` | |
| both | `MailService`, `MailServiceProofs` | composition |
| `cpp-tcp`, the five event loops | `EventServers`, `EventServersProofs` | |
| the other socket programs, and what the event loops do before the loop | `SocketPrograms` | tables |
| `network/api/timer` | `Timers` | |
| `network/api/protocol` | `ProtocolStream` | |
| `STL/practice/GCPtr.h` | `GCPtr` | |
| `basic/oop/String` | `Strings` | |
| `cpp20/concepts/NumCpp` | `NumCpp` | |
| the last five together | `MCObjects`, `ObjectsProofs` | composition |

`MC<Module>` and its configurations give the constants their values; `MCObjects`
is the suite of the single-threaded libraries: a behaviour is one of one of them,
and the strings share the set `Pointers` as the names of their objects. Variables
carry the names of the members they stand for; a `pc` variable per thread names
the point at which it stands. A step is what runs between two points at which
another thread can observe or disturb the outcome. An operator marked "Mutant"
is a wrong version of the definition below it; no specification uses it, and
putting it in the definition's place breaks the property it was written for.

**WorkQueue.** Entries are submitted, taken oldest first, completed, or dropped
all together; at most `Width` are handled at a time; a blank entry (a null
pointer) is taken and ignored.

**TaskPool.** `threadFunc` is split at each acquisition of `m_mutexList`, at the
two reads of `m_bRunning`, at the sleep and around `doIt()`, which the code
runs inside the critical section. `m_bRunning` is a plain `bool` that `init` and
`stop` write without the lock: `bVisible` is what the workers read, and an
action of its own carries the write over. Thread creation and the locked start
of a thread order the write of `init` before the reads of its threads. `addTask`
is two steps, the append under the lock and the notification after it. Any
caller may add and remove tasks; only the owner may `init`, `stop` and destroy,
as in `main.cpp`. Wakeups may be spurious. The pool may be stopped and
initialised again: `m_threads` keeps the joined threads.

**CondVarQueue.** Everything shared is touched under the mutex, so a critical
section is one step, except that `doTask` runs with the lock held and takes
time.

**SemaphoreQueue.** `sem_wait`, the unlocked `tasks.empty()`, the locked pop and
`doTask` outside the lock are four steps. The unlocked look is a data race in
the code; it reads one pointer, which the list changes once per operation, so
it sees the list before or after the operation.

**ThreadPrograms.** A program is a table for `main` and one for each thread it
starts; an entry is one access to something shared, with the label the thread
goes on at and the one for a failure. Seventeen programs share the actions: the
two sides of the reader-writer lock (whose exclusive side also serves as the
plain mutex), the condition variable, loads and stores of a shared value as
steps of their own, creation, join, detach and destruction of a thread, the
promise and the future, a file, and two labels for what a thread object may do
next. `std::terminate` and undefined behaviour are ends of the process
(`over`). Loops that run for ever in the source rest after `Loops` turns.

**AwaitedCalls** and **Asyncpp.** The abstract module says what the author of a
coroutine relies on: an awaited operation is executed once, while the coroutine
is stopped, and its value is what the coroutine goes on with; bodies do not
overlap. `Asyncpp` has the main thread (`main`, the body of a coroutine, its
`await_suspend`, the loop) and the I/O thread, the two queues, and tokens that
stand for the tasks in them. `await_suspend` enqueues and returns in two steps:
the I/O thread may finish the operation in between. `dequeue` takes the back of
the queue. An operation that throws ends the process, since no handler is on
either stack. `io/AsyncIoTask.cpp`, which by its name and its importers should
hold the I/O queue, is a copy of another file; the I/O queue is therefore
modelled from its uses, as a set, which covers every order it could have. The
`.ixx` files repeat the `.cpp` files.

**MailMonitor.** Main, the sender thread and a signal handler that runs on top
of main, at any point, critical sections included. `m_bExit` is unlocked and
gets a visible copy like the pool's flag. The join in `wait()` has no step that
leaves it: the sender ends only after a signal, and a handler that meets main in
that join aborts the process. Here `sendMail` is one step.

**SmtpSocket.** A `sendMail` is a sequence of commands, each with the code its
reply must begin with (`connect`, `logon`, `setMailFrom`, `setMailTo`, `send`),
then `quit`. `checkResponse` takes any part of what is on the wire and looks at
the first code only, so that the second half of a long reply is what the next
command finds. The server answers each step, agrees or refuses, agrees only
where the order allows it, may split a reply, and may hang up. Each mail opens a
socket of its own, which `quit` closes only when it cannot send.

**MailService.** The two together: `MailMonitor`'s sender (main, for the first
mail) is inside the dialogue while the rest of the program goes on.

**EventServers.** One process, its clients and the kernel. `batch` is what one
call of `select`, `poll` or `epoll_wait` reported and the loop has not handled;
each event remembers the connection it was reported for. The five programs
share the actions and differ in operators: when a round ends (`Handled`), how a
new descriptor is armed (`FirstArmed`), what leaving the loop closes (`Stop`),
which failures of `accept` and `recv` they pass over. Clients connect, send,
close or reset at any time; waits are interrupted or report what is not there;
`accept`, `fcntl`, `epoll_ctl` and the waits may fail.

**SocketPrograms.** A program is its table of system calls with the label each
result leads to. The kernel half has connections, buffers of one message,
backlog, resets and `SIGPIPE`. A client runs beside a server and a visitor, a
telnet that types nothing.

**Timers.** The list, its walk by `checkAndHandleTimers`, callbacks that call
`addTimer` and `removeTimer` again, and a clock that may tick at any point. The
walk stays at a timer that is not due, as the loop does.

**ProtocolStream.** The writer's bytes, and a reader over all of them or a
prefix, with bytes, integers and shorts of `ByteBits`, `IntSize`, `ShortSize`
instead of 8, 4, 2. The two ends of a conversion are written out: 7-bit groups
with a continuation bit, network order, the number that stands for null. Bytes
behind the end, which the code looks at, hold anything.

**GCPtr.** `gclist` with its counts, where each pointer points, what is
allocated. `collect` restarts its scan after every removal, as in the source;
assignments drop the old count before they raise the new one. `Deref` and `At`
are the iterator's ways to an element: `*` and `->` compare the place with both
ends, `[]` compares only the index.

**Strings.** Which buffer each String points to, what each buffer holds, and
beside it (`value`) what each String was given. A `new` that fails throws out of
the operation and leaves the state the code leaves. A pointer left to a buffer
that is gone, or not initialised by a move constructor (when it is not null by
chance), is `Dangling`. Undefined behaviour (a read through null, any use of such
a pointer) ends the behaviour in `fault`.

**NumCpp.** Storage blocks and arrays over them. Beside each array stands `ref`,
what it should hold as a function of the index tuple, computed from the order of
the tuples and never from the layout, with whom it should share that (`of`), and
where a clone is cut off (`cut`). `clone` copies bytes, as the code does: what it
leaves of an element are its low bytes, while `ref` is that of the array it
copies.

## Runs

| Run | What it shows | Bounds |
|---|---|---|
| `taskpool` | no pop of an empty list, no lost wakeup of `addTask`, no live thread after `stop`; refinement of `WorkQueue` with width 1; queued tasks run; `stop` returns unless raced | 2 workers, 2 callers, 2 tasks, null entries, 3 entries, restarts |
| `taskpool_stop_hangs` | `stop` may never return | 1 worker |
| `condvar` | no lost wakeup, refinement, every task handled | the 5 consumers of the code, 4 tasks |
| `semaphore` | units and tasks match, hence the unlocked look and the unguarded pop are safe; refinement of `WorkQueue` as wide as there are consumers; every task handled | the 5 consumers of the code, 4 tasks |
| `threads` | counts are exact under the locks; what a thread takes from another is whole; the group is started one by one; the programs that should end do | seventeen programs, loops of 2 turns |
| `asyncpp` | one token per suspended coroutine, bodies on one thread, refinement of `AwaitedCalls`, every coroutine ends | the program of `main.cpp` and a third coroutine, operations that may throw, a disk that holds the path or not |
| `mail` | no wakeup is lost around a signal; stopping drains the queue in order; true means sent; without trouble a mail is delivered while descriptors last; every mail is tried | 2 alerts after the first mail, 2 recipients, 2 descriptors, 1 signal |
| `mail_signal` | a signal does not always stop the service | 1 mail |
| `servers` | events stay with their connection; no connection is lost between `accept` and `epoll_ctl` or at the end; no live client is closed for a signal, an empty read or another client; requests are read and hang-ups closed where the code allows it | 3 clients (one silent), 2 descriptors, 2 bytes each |
| `servers_eof` | `poll_server` keeps a client that has hung up | 2 clients |
| `sockets` | no use of a closed descriptor on any path; clean exits; who says "connected" is; clients finish; ends of peers are noticed | every client beside every server for its port, with and without the visitor |
| `objects` | see below | see below |

`objects` runs one library per behaviour. *Timers*: the walk stands at an erased
timer only when a callback has removed its own, no callback is early, each timer runs as often as it was told (3
timers, 3 ticks, intervals 1 and 2, repetitions -1, 0, 1, 2). *GCPtr*: counts
equal the pointers there are, nothing live is freed, everything is freed at the
latest at exit, an iterator is kept to its memory but for `[]` away from its
beginning (3 pointers, 2 blocks and null, arrays of 2). *Strings*: one owner per
buffer, which holds what that was given, and a wrong pointer harms its own String
only (3 Strings). *ProtocolStream*: what was written is read, and no
read, in any order and after any failure, leaves the packet (2 fields, bytes of
3 bits, integers of 2 bytes). *NumCpp*: elements, reductions and slices (3
arrays of up to 6 elements of 4 bytes, as in `main.cpp`, so that a clone of 6 has
one element whole, half of one, and zeros; ends of slices from -4 to 4).

**Why these bounds.** A lost wakeup needs one sleeper, one thread that is awake
and one notifier; a race for a task needs two workers and one task; an order
needs two tasks, and a list with something left while both workers are busy
three entries. The invariants that carry the proofs hold for every number of
threads and tasks. A lost increment needs two writers or a writer and readers,
and a second turn to be seen. A descriptor number is reused within a round when
there are more clients than descriptors; a client that is closed while another
one's event is pending needs two descriptors, a full table a third client. Two
mails find the descriptor table full, two recipients have an answer to be taken
for the other's. The walk of a list has a first, a middle and a last element. A
length of 3-bit groups wraps and needs the extra byte just as one of 7-bit
groups does.

Bounded only to be finite: the endless loops of producers and workers
(`MaxTasks`, `Loops`), the length of the pool's list (`MaxEntries`: null entries
could be added for ever), the calls to `alert` (`MaxMails`), what a client sends
(`MaxBytes`), the timers, the clock, fields and arrays, the bytes in a socket
program's buffer (one message). In `NumCpp` a value is stored only while no
storage holds it.

**Deadlock** is checked for the three queues and `asyncpp`, where a stuttering
action names the states in which they may stop (`Finished`, `Exhausted`,
`Idle`; the consumers of `cond-var.cpp` may always wake up). The programs of the other runs really end or rest: a process returns or
is killed, clients have nothing more to say, the clock is at its bound.

**Fairness.** A thread that can go on does (`WF` of each thread's actions, never
of a single branch): the operating system schedules every thread. A write
becomes visible to the other threads (`WF` of `FlagVisible`, `ExitVisible`).
Three actions have strong fairness: in `ThreadPrograms` the acquisition of the
mutex, which main takes again after every spurious wakeup but which a waiting
thread gets in the end; in `EventServers` an `accept` that the loop keeps trying
while the table has room; in `SocketPrograms` the reset that answers data sent
again and again to an end that is gone. No fairness is put on spurious wakeups,
failures, signals, what clients do, the calls of the pool's users, or on the
choice which sleeper `notify_one` wakes. The SMTP server answers or hangs up:
the client has no working time limit (below). The I/O queue and the stack of the
main loop could starve an entry in an endless program; the coroutines of
`main.cpp` are finite, and `AllFinish` is claimed for such programs, for which it
would hold of a queue as well.

## Findings

Shown by a run of their own:

* `taskpool_stop_hangs`: `stop()` clears `m_bRunning` and notifies without the
  mutex (`TaskPool.cpp:71`). A worker that has read the flag and not yet gone to
  sleep misses both; `stop()` then waits for it in `join` without end. With the
  race excluded `stop()` returns (`StopReturnsUnlessRaced`).
* `mail_signal`: `uninit()` called from a signal handler (`main.cpp:26`) aborts
  the process when main is before `run()` or inside `wait()`, and hangs when it
  interrupts `alert()` with the mutex held or when the sender misses the
  unlocked flag.
* `servers_eof`: `poll_server.cpp:136` tests `errno` also when `recv` returned
  0, which does not set it: after an interrupted `poll` the client that has hung
  up is kept, against the comment two lines below.

Built into the models, where the properties are stated with the exception the
code makes:

* `SmtpSocket`: `quit()` closes the socket only when QUIT cannot be sent, so
  that each mail costs a descriptor; the receive timeout is set from a `long`,
  which Linux refuses; a reply in two pieces answers two commands
  (`NoTroubleDelivered`, `TrueMeansSent`).
* `epoll_server_with_oneshot` never hears a client again after a `recv` that was
  interrupted or empty (`Deaf`); `select_server` reads no client in a round with
  a new connection, which delays but does not starve finitely many clients.
* `nonblocking_connect` reports refused connections as made (`ReportTrue`); nine
  programs have an exit that leaves a descriptor to the kernel (`Leaky`, with
  the lines); `server.cpp` waits for the first word of one client (`HeldUp`).
* `FutureFileSystem` sets a promise that already holds an exception, so that a
  failure ends the process instead of reaching `main`; a `CThread` that has been
  joined cannot be created again, and a second `Join` joins a thread that is
  gone; after a thread that could not open its file main prints the time an
  earlier run left there (`WholeResults`).
* A timer callback that removes its own timer leaves `checkAndHandleTimers()`
  with an erased iterator, which `TimerManager.cpp:39` reads (`IteratorValid`).
* `Iter::operator[]` (`GCPtr.h:102-106`) compares the index with the length of the
  whole memory and counts it from where the iterator stands: after `++`, or from
  `end()`, it reaches behind the end, which the comment above it does not allow
  (`CountsRight`).
* `checkAndHandleTimers()` (`TimerManager.cpp:35`) does not pass over a timer
  that is not due, which `TimerManager.h:39` promises: it spins until it is.
* `dequeue()` of the main loop takes the newest entry (`AsyncTaskQueue.cpp:37`),
  where `action.md:145` says the earliest. The promise of `co_await` holds
  nevertheless.
* `ReadInt64` hands a text without its end to `atoll`; `GCPtr::begin()` and
  `end()` disagree on the length of what is no array; `String` deletes its text
  before it has memory for the new one and leaves `m_data` unset when it is made
  from a String that was moved from (`OneOwner`); `NDArray::clone` copies as many
  bytes as there are elements (`ElementsRight`).
* `nonblocking_client.cpp:79-94` would close its socket twice if `send` returned
  0, which Linux does not do for a message that is not empty (`NoMisuse`).

## Proofs

Each theorem holds for every value of the constants that satisfies the named
assumption of the module: special values differ from the others, there is a
default number of threads, descriptors are positive numbers, no text is one of
the marks for a freed or moved one, an element of an array has at least five
bits, so that the sample's numbers fit, and the sets whose members are counted
(the consumers of the semaphore, the pointers) are finite. The round trip of packets
(`PacketsHold`, below) names a hypothesis of its own.

* **TaskPoolProofs.** The safety invariants of the pool are not inductive. `IInv`
  adds: what a thread found empty inside the critical section is still empty; a
  thread at the second test of the flag with an empty list can only see the
  flag down, because `init` raises it only when no thread is alive; `stop` has
  joined the threads before `joinNext`, and `m_threads` names every thread ever
  created. From `IInv` follow mutual exclusion, the safe pop, and the quiet pool
  after `stop`; `NoSleepOnWork` is proved on top of it, and so is the refinement
  of `WorkQueue` with width one: every step is a step of the abstract queue or
  leaves `queue`, `active`, `done` and `dropped` as they are. `TasksOnce` is
  then inherited: the abstract queue keeps `EachItemOnce` (`QueueOnceStep`), and
  the refinement turns a step of the pool into one of its steps.
  `OneTaskAtATime` is the abstract width, from mutual exclusion.
* **CondVarQueueProofs.** `IInv` joins the types, who holds the lock, which
  numbers have been used, the sleepers and the gapless list; the refinement
  follows, and so does `TasksInOrder`: what is finished is an initial piece of
  the numbers produced, which holds only because `doTask` runs under the lock.
* **SemaphoreQueueProofs.** The semaphore's value, the units in consumers' hands
  and the unit about to be posted add up to the length of the list
  (`UnitsMatchTasks`). The proof counts the set of holders with the theorems on
  finite cardinalities; the safe pop is its consequence. `PlacesInv` (a task is in
  the list or with one consumer, and the producer's next number is unused) is
  what the refinement of `WorkQueue`, as wide as there are consumers, needs in
  addition.
* **ThreadProgramsProofs.** Holds for every number of turns of the loops. Each of
  the seventeen programs has an inductive invariant (`Kept` joins them): the
  labels its threads can be at together, who holds the lock or shares it there,
  and what value, flag, handle, promise or file they have left behind. For the
  counters it is the sum of the turns of each writer, plus one between its store
  and its next turn (`Counted`); for the group of threads, that the flag is up
  only while the thread that set it is the one main waits for; for `CThread`
  and `Thread`, which handle goes with which state of the thread. The proof of a
  step has two halves. A lemma for each operation says what it does to the lock,
  the memory or the threads (`ReadLocks` to `Promises`). A lemma for each program
  says what stands at each label of its table (`...Entries`), so that a step is
  one case for each entry (`...Step`). `...Shows` reads the three properties off.
* **AsyncppProofs.** `MainThreadOnly` is inductive with the types: the loop takes
  a token only when nothing is on the main thread's stack, and the I/O thread
  changes no coroutine's state. `OneToken`, which counts, is proved from a
  statement about pairs (`TokensInv`): no two places hold tokens of the same
  coroutine, exactly the stopped coroutines have one, and it belongs to the
  co_await they have reached. In the refinement of `AwaitedCalls` an operation
  counts as executed while a token to resume its coroutine is in a hand or in
  the task queue.
* **MailServiceProofs.** A step of the service is a step of the monitor or leaves
  its variables alone, and likewise for the dialogue. `MonitorInv` says who
  holds the mutex where, and that the sender is past its test of the list only
  with an empty one; the exit flag can then not hide a mail. `DialogueInv` says
  how far client and server can be apart: without a split reply not at all
  (`InStep`); with one (`Behind`) the only reply with the code 354 still shows
  that DATA was agreed to, and a 250 behind it that the text was.
* **EventServersProofs.** `Owned`: a client is idle, in the backlog, behind exactly
  one descriptor, or over. `Watched`: just the open descriptors are watched
  while the loop runs. `NoStaleEvent` joins them because closing a descriptor
  takes its only event out of the batch before its number can be handed out
  again. `LiveClientKept` is an action property proved from the same invariant.
* **ObjectsProofs.** A step of the suite is one of one library. *Timers*: the list
  is in the order of the identities, every timer in it is alive and due when
  its start, its interval and the runs so far say, and what is left of its
  count and its runs add up (`TimersInv`); a callback's timer is alive also when
  the list has forgotten it. *Strings*: owners are compared pair by pair; each
  buffer in use has one, whatever is `Dangling` (`StringsInv`). *GCPtr*: lemmas say what `Count` and `Discount` do
  to a list of distinct entries whose counts are numbers of pointers, and that
  the loop of `collect` ends with exactly the unused entries gone: its
  recursive definition is shown to have a solution, and what is said of its
  turns holds because no turn is the first to break it. *NumCpp*: the recursion
  of `flattenIndex` has a solution, which is the rank of the index in the
  lexical order, and the ranks of a shape count its storage through, each place
  once (`EveryShapeLaid`, for every shape of one or two dimensions). With that,
  `ArraysInv` (each array has at the place of every index what it should hold,
  but where it was cut off, and two arrays share a storage just when they should)
  is inductive: two arrays over one storage agree on the place of a stored
  value because their ranks do. The library's fold takes the elements in an
  order of its own choosing, so the sum, the least and the greatest element are
  told by induction over the places not yet taken (`PlacesUpTo`). `ArraysHold`
  is `ArraysCorrect` for every number of arrays and size of an element, over the
  containers, lists and shapes of the sample; its views are those of
  `ViewsInside`, for every dimension and every two ends.
  *Packets*: the codec comes first. `Recursion` says that a definition by
  recursion has a solution, so that what `Power`, `write7BitEncoded` and the
  folds of the decoders, of `Host` and of `checksum` compute can be told from
  their defining equations; on it rest the round trips of a length
  (`LengthRoundTrip`) and of a number (`NetRoundTrip`) and
  `ChecksumCompletes`. `StreamInv` then says where each field of the packet
  begins (`Offsets`), that the reader's bytes are the packet's, and that a
  reader that has kept to the writer's order stands at the beginning of a field
  with what was written before it (`InStep`). `ReaderStays` needs no
  hypothesis. The round trip does, because the total length is four bytes of
  an unsigned integer: `PacketsHold` assumes that the header and `MaxFields`
  fields of the longest kind are shorter than `Word`. In the run that is
  3 + 2 * 8 < 64; with the widths of the source, 6 + 132 * `MaxFields` < 2^32.

The type invariants, mutual exclusion in the pool, the single hand-out and the
width of a queue, and the gapless list of `CondVarQueue` are proved and have no
run of their own.

Model-checked only: all liveness (`QueuedTaskRuns`, `StopReturnsUnlessRaced`,
`TasksHandled`, `AllFinish`, `MailIsSent`, `RequestsServed`, `HangUpClosed`,
`ClientFinishes`, `PeerEndNoticed`), which the prover does not reach, as it does
not reach `ENABLED`; and `SocketPrograms` (`NoMisuse`, `CleanExit`, `ReportTrue`),
which has no constants, so that its run visits every state there is. Induction
over data is out of the provers' reach as a rule to cite; where it was needed
(`collect`, the codec of the packets, the folds over an array) a least
counterexample takes its place.

## Not modelled

* Of the modelled programs: a timer callback that calls `checkAndHandleTimers`
  again, and the Timer objects that `removeTimer` leaks; more than one signal, and signals delivered to the sender thread; the
  account strings of the mail monitor and the base64 encoding, whose header the
  repository does not have; a packet shorter than its header; memory that holds
  GCPtrs of its own type, whose destructor would enter `collect()` again;
  elements of an array view, which nothing in the repository reads; arrays of
  floating-point numbers, and results of an operation that overflow their bytes;
  `atomic-value.cpp`, which has one thread; the sleep of `CThread`.
* `BasicThread` and `BasicFileSystem` (a thread or a file system call behind one
  function), `curl-client` (options and callbacks of libcurl), `jjalloc`
  (forwards to `operator new`), the STL exercises, the concepts, genericity and
  ranges samples, modules, smart pointers and RAII, `basic/feat`,
  `advanced_syntax`, `diff_version_cpp`, `cast_api`, `playground`: each calls
  one library function or shows one construct of the language in straight-line
  code, and keeps no state between operations.
* The image server is a sketch: it does not listen, its cache loader always
  answers no and the body of its requests is always empty, so no request has an
  effect to model. Of the design patterns, the loop of `Observerable::Notify`
  starts where it ends and calls no observer, the singleton is used by one
  thread, the adapter forwards one call. `Complex`, `Shape` and the file copy of
  `basic/oop` keep no state.
* Notes and build files.

## Plan

Modelled and checked: all components above; proved: every safety invariant and
safety action property the passing runs check, except the three of
`SocketPrograms`, and the refinements. What would come next:

1. The three invariants of `SocketPrograms` program by program, in the way of
   `ThreadProgramsProofs`, once their tables take a parameter.
2. The arrays of `NumCpp` over any rectangular container, and shapes of more
   than two dimensions.
