-------------------------------- MODULE Timers --------------------------------
(***************************************************************************)
(* network/api/timer: TimerManager keeps timers in a list, in the order of *)
(* their creation, and checkAndHandleTimers() walks the list.  A callback  *)
(* may add timers and remove any: when it takes out the one it belongs to, *)
(* the walk goes on with an erased iterator, and nothing is said of what   *)
(* follows.                                                                *)
(*                                                                         *)
(* The clock ticks at any point.  A timer is named by its id, and the      *)
(* history variables added, times and runs record how it was created and   *)
(* how often its callback has run.                                         *)
(***************************************************************************)
EXTENDS Integers, Sequences

CONSTANTS MaxTimers,   \* bound on the timers created
          MaxTime,     \* bound on the clock
          Repeats,     \* values of repeatedTimes; -1 repeats for ever
          Intervals    \* values of interval, in seconds

VARIABLES
    m_listTimers,  \* the ids of the timers in the list
    initialId,     \* s_initialId
    repeated,      \* m_repeatedTimes of each timer
    interval,      \* m_interval
    expires,       \* m_expiredTime
    alive,         \* the Timer objects that have not been deleted
    now,           \* time(nullptr)
    pc,            \* the manager is idle, walks the list, is in a callback, or
                   \* has used an erased iterator
    iter,          \* the timer the walk stands at, or End
    added,         \* history: when each timer was created
    times,         \* history: the repeatedTimes it was created with
    runs           \* history: how often its callback has returned

vars == <<m_listTimers, initialId, repeated, interval, expires, alive, now,
          pc, iter, added, times, runs>>

Ids == 1..MaxTimers
End == 0
InList == {m_listTimers[i] : i \in 1..Len(m_listTimers)}

\* The iterator of a timer in list s, the one after it, and the list without it.
PlaceOf(s, id) == CHOOSE j \in 1..Len(s) : s[j] = id
NextIn(s, id) == IF PlaceOf(s, id) < Len(s) THEN s[PlaceOf(s, id) + 1] ELSE End
Erased(s, id) ==
    LET k == PlaceOf(s, id) IN SubSeq(s, 1, k - 1) \o SubSeq(s, k + 1, Len(s))

Init ==
    /\ m_listTimers = <<>> /\ initialId = 0
    /\ repeated = [t \in Ids |-> 0] /\ interval = [t \in Ids |-> 0]
    /\ expires = [t \in Ids |-> 0]
    /\ alive = {} /\ now = 0
    /\ pc = "idle" /\ iter = End
    /\ added = [t \in Ids |-> 0] /\ times = [t \in Ids |-> 0] /\ runs = [t \in Ids |-> 0]

-----------------------------------------------------------------------------
\* Time passes.
Tick ==
    /\ now < MaxTime
    /\ now' = now + 1
    /\ UNCHANGED <<m_listTimers, initialId, repeated, interval, expires, alive,
                   pc, iter, added, times, runs>>

\* TimerManager::addTimer and the constructor, by the owner or by a callback.
AddTimer(n, d) ==
    /\ pc \in {"idle", "callback"}
    /\ initialId < MaxTimers
    /\ LET t == initialId + 1
       IN  /\ initialId' = t
           /\ repeated' = [repeated EXCEPT ![t] = n]
           /\ interval' = [interval EXCEPT ![t] = d]
           /\ expires' = [expires EXCEPT ![t] = now + d]
           /\ m_listTimers' = Append(m_listTimers, t)
           /\ alive' = alive \cup {t}
           /\ added' = [added EXCEPT ![t] = now]
           /\ times' = [times EXCEPT ![t] = n]
    /\ UNCHANGED <<now, pc, iter, runs>>

\* TimerManager::removeTimer, by the owner or by a callback, of its own timer too:
\* the list forgets the timer, nobody deletes it.
RemoveTimer(t) ==
    /\ pc \in {"idle", "callback"}
    /\ t \in InList
    /\ m_listTimers' = Erased(m_listTimers, t)
    /\ UNCHANGED <<initialId, repeated, interval, expires, alive, now, pc,
                   iter, added, times, runs>>

\* TimerManager.cpp:32-33: checkAndHandleTimers() is called.
Check ==
    /\ pc = "idle"
    /\ m_listTimers # <<>>
    /\ pc' = "walk"
    /\ iter' = Head(m_listTimers)
    /\ UNCHANGED <<m_listTimers, initialId, repeated, interval, expires, alive,
                   now, added, times, runs>>

\* TimerManager.cpp:35-37: the timer is due and its callback starts.  While it is
\* not due the loop spins with its iterator, whatever else is due.
Expired ==
    /\ pc = "walk" /\ iter # End
    /\ now >= expires[iter]
    /\ pc' = "callback"
    /\ UNCHANGED <<m_listTimers, initialId, repeated, interval, expires, alive,
                   now, iter, added, times, runs>>

\* The rest of run(), which has its timer still, removed or not.
Rescheduled(nextExpiry, left) ==
    /\ pc = "callback"
    /\ runs' = [runs EXCEPT ![iter] = @ + 1]
    /\ repeated' = [repeated EXCEPT ![iter] = left]
    /\ expires' = [expires EXCEPT ![iter] = nextExpiry]
    /\ UNCHANGED <<initialId, interval, now, added, times>>

\* TimerManager.cpp:39 reads through the iterator that removeTimer has erased.
ErasedIterator ==
    /\ iter \notin InList
    /\ pc' = "undefined"
    /\ UNCHANGED <<iter, m_listTimers, alive>>

\* run() and the loop body, given how the next expiry and the remaining
\* repetitions are computed.
AfterCallback(nextExpiry, left) ==
    /\ Rescheduled(nextExpiry, left)
    /\ \/ ErasedIterator
       \/ /\ iter \in InList
          /\ iter' = NextIn(m_listTimers, iter)
          /\ IF left = 0
             THEN m_listTimers' = Erased(m_listTimers, iter) /\ alive' = alive \ {iter}
             ELSE UNCHANGED <<m_listTimers, alive>>
          /\ pc' = "walk"

Decremented == IF repeated[iter] >= 1 THEN repeated[iter] - 1 ELSE repeated[iter]

\* Mutant: the next expiry is counted from the time of the callback.
FinishRunDrifting == AfterCallback(now + interval[iter], Decremented)

\* Mutant: the count goes down by one also when it is zero already.
FinishRunBelowZero == AfterCallback(expires[iter] + interval[iter], repeated[iter] - 1)

\* Mutant: the timer is deleted and the walk goes on with its iterator.
FinishRunStale ==
    /\ Rescheduled(expires[iter] + interval[iter], Decremented)
    /\ \/ ErasedIterator
       \/ /\ iter \in InList
          /\ IF Decremented = 0
             THEN m_listTimers' = Erased(m_listTimers, iter) /\ alive' = alive \ {iter} /\ UNCHANGED iter
             ELSE iter' = NextIn(m_listTimers, iter) /\ UNCHANGED <<m_listTimers, alive>>
          /\ pc' = "walk"

\* Timer.cpp:43-48 and TimerManager.cpp:39-50: the callback returns.
FinishRun == AfterCallback(expires[iter] + interval[iter], Decremented)

\* The walk has come to the end of the list.
Return ==
    /\ pc = "walk" /\ iter = End
    /\ pc' = "idle"
    /\ UNCHANGED <<m_listTimers, initialId, repeated, interval, expires, alive,
                   now, iter, added, times, runs>>

Next ==
    \/ Tick
    \/ \E n \in Repeats, d \in Intervals : AddTimer(n, d)
    \/ \E t \in Ids : RemoveTimer(t)
    \/ Check \/ Expired \/ FinishRun \/ Return

Spec == Init /\ [][Next]_vars

-----------------------------------------------------------------------------
\* No pointer of the list dangles and no timer is in it twice.  The walk stands at
\* a timer of the list or at its end, whatever callbacks add or remove, with one
\* exception: a callback that has removed its own timer leaves it with an erased
\* iterator, which it uses (TimerManager.cpp:39).  That timer is never deleted, so
\* run() at least ends on an object there is.
IteratorValid ==
    /\ InList \subseteq alive
    /\ \A i, j \in 1..Len(m_listTimers) : i < j => m_listTimers[i] < m_listTimers[j]
    /\ pc = "walk" /\ iter # End => iter \in InList
    /\ pc = "callback" => iter \in alive
    /\ pc = "undefined" => iter \in alive \ InList

\* A callback never starts early, however late earlier ones were: the k-th run
\* is due k intervals after the timer was added.
NoDrift ==
    /\ \A t \in InList : expires[t] = added[t] + (runs[t] + 1) * interval[t]
    /\ pc = "callback" => now >= added[iter] + (runs[iter] + 1) * interval[iter]

\* A timer created with n repetitions runs n times and goes; with none it runs
\* once and goes; with -1 it stays.
RunsExactly ==
    /\ \A t \in InList : times[t] >= 1 => repeated[t] = times[t] - runs[t] /\ runs[t] < times[t]
    /\ \A t \in InList : times[t] = 0 => runs[t] = 0
    /\ \A t \in 1..initialId : t \notin alive =>
          times[t] # -1 /\ runs[t] = (IF times[t] = 0 THEN 1 ELSE times[t])

TimersCorrect == IteratorValid /\ NoDrift /\ RunsExactly
==============================================================================
