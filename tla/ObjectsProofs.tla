---------------------------- MODULE ObjectsProofs ----------------------------
(***************************************************************************)
(* Proofs about the single-threaded libraries of MCObjects: the timers for *)
(* every number of timers, every clock, interval and repetition; the       *)
(* strings and the counting pointers for every set of them; the packets for*)
(* every width of a byte and of an integer; the arrays of NumCpp for every *)
(* number of them and every size of an element, their layout for every     *)
(* shape and their slices for every dimension and every two ends.  A step  *)
(* of the suite is a step of one library and leaves the others alone, so   *)
(* each has an invariant of its own.                                       *)
(***************************************************************************)
EXTENDS MCObjects, FiniteSetTheorems, SequenceTheorems, NaturalsInduction,
        WellFoundedInduction, TLAPS

-----------------------------------------------------------------------------
(* The list of timers.                                                     *)

Elems(s) == {s[i] : i \in 1..Len(s)}
Ascending(s) == s \in Seq(Nat) /\ \A i, j \in 1..Len(s) : i < j => s[i] < s[j]

\* What is left of a sequence without its k-th element.
Without(s, k) == SubSeq(s, 1, k - 1) \o SubSeq(s, k + 1, Len(s))

LEMMA WithoutIs ==
    ASSUME NEW T, NEW s \in Seq(T), NEW k \in 1..Len(s)
    PROVE  /\ Without(s, k) \in Seq(T)
           /\ Len(Without(s, k)) = Len(s) - 1
           /\ \A i \in 1..(Len(s) - 1) :
                 Without(s, k)[i] = IF i < k THEN s[i] ELSE s[i + 1]
<1> DEFINE n == Len(s)
           a == SubSeq(s, 1, k - 1)
           b == SubSeq(s, k + 1, n)
<1>1. n \in Nat /\ k \in Nat /\ 1 <= k /\ k <= n
  OBVIOUS
<1>2. \A i \in 1..n : s[i] \in T
  OBVIOUS
<1>3. a \in Seq(T) /\ Len(a) = k - 1 /\ \A i \in 1..(k - 1) : a[i] = s[i]
  <2>1. \A i \in 1..(k - 1) : s[i] \in T
    BY <1>1, <1>2
  <2>2. /\ a \in Seq(T)
        /\ Len(a) = IF 1 <= k - 1 THEN (k - 1) - 1 + 1 ELSE 0
        /\ \A i \in 1..((k - 1) - 1 + 1) : a[i] = s[1 + i - 1]
    <3> HIDE DEF n
    <3>1. 1 \in Int /\ k - 1 \in Int
      BY <1>1
    <3> QED
      BY <2>1, <3>1, SubSeqProperties
  <2> QED
    BY <1>1, <2>2
<1>4. b \in Seq(T) /\ Len(b) = n - k /\ \A i \in 1..(n - k) : b[i] = s[k + i]
  <2>1. \A i \in (k + 1)..n : s[i] \in T
    BY <1>1, <1>2
  <2>2. /\ b \in Seq(T)
        /\ Len(b) = IF k + 1 <= n THEN n - (k + 1) + 1 ELSE 0
        /\ \A i \in 1..(n - (k + 1) + 1) : b[i] = s[(k + 1) + i - 1]
    <3> HIDE DEF n
    <3>1. n \in Int /\ k + 1 \in Int
      BY <1>1
    <3> QED
      BY <2>1, <3>1, SubSeqProperties
  <2> QED
    BY <1>1, <2>2
<1>5. Without(s, k) = a \o b
  BY DEF Without
<1> HIDE DEF a, b, n
<1>6. /\ a \o b \in Seq(T) /\ Len(a \o b) = Len(a) + Len(b)
      /\ \A i \in 1..(Len(a) + Len(b)) : (a \o b)[i] = IF i <= Len(a) THEN a[i] ELSE b[i - Len(a)]
  BY <1>3, <1>4, ConcatProperties
<1>7. Len(a) + Len(b) = n - 1
  BY <1>1, <1>3, <1>4
<1>8. \A i \in 1..(n - 1) : (a \o b)[i] = IF i < k THEN s[i] ELSE s[i + 1]
  <2> SUFFICES ASSUME NEW i \in 1..(n - 1)
               PROVE  (a \o b)[i] = IF i < k THEN s[i] ELSE s[i + 1]
    OBVIOUS
  <2>1. CASE i < k
    <3>1. i <= Len(a) /\ i \in 1..(k - 1)
      BY <1>1, <1>3, <2>1
    <3> QED
      BY <1>3, <1>6, <1>7, <2>1, <3>1
  <2>2. CASE ~(i < k)
    <3>1. ~(i <= Len(a)) /\ i - Len(a) \in 1..(n - k) /\ k + (i - Len(a)) = i + 1
      BY <1>1, <1>3, <2>2
    <3> QED
      BY <1>4, <1>6, <1>7, <2>2, <3>1
  <2> QED
    BY <2>1, <2>2
<1> QED
  BY <1>5, <1>6, <1>7, <1>8 DEF n

\* A timer of an ascending list is found at its place.
LEMMA PlaceIs ==
    ASSUME NEW s, Ascending(s), NEW k \in 1..Len(s)
    PROVE  Timer!PlaceOf(s, s[k]) = k
<1>1. \A j \in 1..Len(s) : s[j] = s[k] => j = k
  <2> SUFFICES ASSUME NEW j \in 1..Len(s), s[j] = s[k] PROVE j = k
    OBVIOUS
  <2>1. s[k] \in Nat /\ j \in Nat /\ k \in Nat
    BY DEF Ascending
  <2>2. ~(j < k) /\ ~(k < j)
    BY <2>1 DEF Ascending
  <2> QED
    BY <2>1, <2>2
<1> QED
  BY <1>1 DEF Timer!PlaceOf

\* Erasing a timer leaves the others, in their order.
LEMMA ErasedIs ==
    ASSUME NEW s, Ascending(s), NEW t \in Elems(s)
    PROVE  Ascending(Timer!Erased(s, t)) /\ Elems(Timer!Erased(s, t)) = Elems(s) \ {t}
<1>1. PICK k \in 1..Len(s) : t = s[k]
  BY DEF Elems
<1> DEFINE r == Without(s, k)
<1>2. Timer!Erased(s, t) = r
  BY <1>1, PlaceIs DEF Timer!Erased, Without
<1>3. s \in Seq(Nat) /\ Len(s) \in Nat /\ k \in Nat /\ 1 <= k /\ k <= Len(s)
  BY DEF Ascending
<1>4. /\ r \in Seq(Nat) /\ Len(r) = Len(s) - 1
      /\ \A i \in 1..(Len(s) - 1) : r[i] = IF i < k THEN s[i] ELSE s[i + 1]
  BY <1>3, WithoutIs
<1> HIDE DEF r
<1>5. Ascending(r)
  <2>1. ASSUME NEW i \in 1..Len(r), NEW j \in 1..Len(r), i < j PROVE r[i] < r[j]
    <3>1. i \in 1..(Len(s) - 1) /\ j \in 1..(Len(s) - 1)
      BY <1>4
    <3>2. i \in Nat /\ j \in Nat /\ i < j + 1 /\ i + 1 < j + 1
      BY <1>3, <2>1, <3>1
    <3>3. /\ i \in 1..Len(s) /\ j \in 1..Len(s)
          /\ i + 1 \in 1..Len(s) /\ j + 1 \in 1..Len(s)
      BY <1>3, <3>1
    <3>4. s[i] < s[j] /\ s[i] < s[j + 1] /\ s[i + 1] < s[j + 1]
      BY <2>1, <3>2, <3>3 DEF Ascending
    <3>5. ~(i < k) => ~(j < k)
      BY <1>3, <2>1, <3>2
    <3>6. /\ r[i] = IF i < k THEN s[i] ELSE s[i + 1]
          /\ r[j] = IF j < k THEN s[j] ELSE s[j + 1]
      BY <1>4, <3>1
    <3> QED
      BY <3>4, <3>5, <3>6
  <2> QED
    BY <1>4, <2>1 DEF Ascending
<1>6. \A j \in 1..Len(s) : s[j] = s[k] => j = k
  <2> SUFFICES ASSUME NEW j \in 1..Len(s), s[j] = s[k] PROVE j = k
    OBVIOUS
  <2>1. s[k] \in Nat /\ j \in Nat
    BY <1>3
  <2>2. ~(j < k) /\ ~(k < j)
    BY <2>1 DEF Ascending
  <2> QED
    BY <1>3, <2>1, <2>2
<1>7. ASSUME NEW x \in Elems(r) PROVE x \in Elems(s) \ {t}
  <2>1. PICK i \in 1..Len(r) : x = r[i]
    BY <1>7 DEF Elems
  <2>2. CASE i < k
    <3>1. i \in 1..Len(s) /\ x = s[i] /\ i # k
      BY <1>3, <1>4, <2>1, <2>2
    <3> QED
      BY <1>1, <1>6, <3>1 DEF Elems
  <2>3. CASE ~(i < k)
    <3>1. i + 1 \in 1..Len(s) /\ x = s[i + 1] /\ i + 1 # k
      BY <1>3, <1>4, <2>1, <2>3
    <3> QED
      BY <1>1, <1>6, <3>1 DEF Elems
  <2> QED
    BY <2>2, <2>3
<1>8. ASSUME NEW x \in Elems(s) \ {t} PROVE x \in Elems(r)
  <2>1. PICK i \in 1..Len(s) : x = s[i]
    BY <1>8 DEF Elems
  <2>2. i # k
    BY <1>1, <1>8, <2>1
  <2>3. CASE i < k
    <3>1. i \in 1..(Len(s) - 1)
      BY <1>3, <2>1, <2>3
    <3>2. i \in 1..Len(r) /\ r[i] = x
      BY <1>4, <2>1, <2>3, <3>1
    <3> QED
      BY <3>2 DEF Elems
  <2>4. CASE ~(i < k)
    <3> DEFINE j == i - 1
    <3>1. j \in 1..Len(r) /\ j \in 1..(Len(s) - 1) /\ ~(j < k) /\ j + 1 = i
      BY <1>3, <1>4, <2>2, <2>4
    <3> HIDE DEF j
    <3>2. r[j] = x
      BY <1>4, <2>1, <3>1
    <3> QED
      BY <3>1, <3>2 DEF Elems
  <2> QED
    BY <2>3, <2>4
<1> QED
  BY <1>2, <1>5, <1>7, <1>8

\* The walk goes on at another timer of the list, or at its end.
LEMMA NextInIs ==
    ASSUME NEW s, Ascending(s), NEW t \in Elems(s)
    PROVE  Timer!NextIn(s, t) \in (Elems(s) \ {t}) \cup {0}
<1>1. PICK k \in 1..Len(s) : t = s[k]
  BY DEF Elems
<1>2. Timer!PlaceOf(s, t) = k
  BY <1>1, PlaceIs
<1>3. s \in Seq(Nat) /\ Len(s) \in Nat /\ k \in Nat /\ 1 <= k /\ k <= Len(s) /\ t \in Nat
  BY <1>1 DEF Ascending
<1>4. CASE k < Len(s)
  <2>1. k + 1 \in 1..Len(s) /\ k < k + 1 /\ s[k + 1] \in Nat
    BY <1>3, <1>4
  <2>2. s[k] < s[k + 1]
    BY <2>1 DEF Ascending
  <2>3. s[k + 1] \in Elems(s) /\ s[k + 1] # t
    BY <1>1, <1>3, <2>1, <2>2 DEF Elems
  <2> QED
    BY <1>2, <1>4, <2>3 DEF Timer!NextIn
<1>5. CASE ~(k < Len(s))
  BY <1>2, <1>5 DEF Timer!NextIn, Timer!End
<1> QED
  BY <1>4, <1>5

\* A timer made later goes to the end of the list.
LEMMA AppendedIs ==
    ASSUME NEW s, Ascending(s), NEW t \in Nat, \A x \in Elems(s) : x < t
    PROVE  Ascending(Append(s, t)) /\ Elems(Append(s, t)) = Elems(s) \cup {t}
<1> DEFINE r == Append(s, t)
<1>1. s \in Seq(Nat) /\ Len(s) \in Nat
  BY DEF Ascending
<1>2. /\ r \in Seq(Nat) /\ Len(r) = Len(s) + 1 /\ r[Len(s) + 1] = t
      /\ \A i \in 1..Len(s) : r[i] = s[i]
  BY <1>1, AppendProperties
<1> HIDE DEF r
<1>3. \A i \in 1..Len(r) : i \in 1..Len(s) \/ i = Len(s) + 1
  BY <1>1, <1>2
<1>4. Ascending(r)
  <2>1. ASSUME NEW i \in 1..Len(r), NEW j \in 1..Len(r), i < j PROVE r[i] < r[j]
    <3>1. i \in 1..Len(s) /\ s[i] \in Elems(s)
      BY <1>1, <1>2, <2>1 DEF Elems
    <3>2. CASE j \in 1..Len(s)
      BY <1>2, <2>1, <3>1, <3>2 DEF Ascending
    <3>3. CASE j = Len(s) + 1
      BY <1>2, <3>1, <3>3
    <3> QED
      BY <1>3, <3>2, <3>3
  <2> QED
    BY <1>2, <2>1 DEF Ascending
<1>5. Elems(r) = Elems(s) \cup {t}
  <2>1. Len(s) + 1 \in 1..Len(r) /\ \A i \in 1..Len(s) : i \in 1..Len(r)
    BY <1>1, <1>2
  <2> QED
    BY <1>2, <1>3, <2>1 DEF Elems
<1> QED
  BY <1>4, <1>5 DEF r

-----------------------------------------------------------------------------
(* The timers.  What holds of a timer is stated for those in the list, so  *)
(* the invariant adds what a timer is before it is made, what remains of   *)
(* one that is not counted down, and where the walk stands: in a callback  *)
(* at a timer that exists, in the list or removed from it.                 *)

TimersTyped ==
    /\ Ascending(m_listTimers)
    /\ initialId \in 0..MaxTimers /\ alive \subseteq 1..initialId
    /\ repeated \in [Timer!Ids -> Int] /\ interval \in [Timer!Ids -> Int]
    /\ expires \in [Timer!Ids -> Int] /\ added \in [Timer!Ids -> Int]
    /\ runs \in [Timer!Ids -> Int] /\ times \in [Timer!Ids -> Nat \cup {-1}]
    /\ now \in Int /\ pc \in {"idle", "walk", "callback", "undefined"}

Walking ==
    /\ Elems(m_listTimers) \subseteq alive
    /\ pc = "walk" /\ iter # 0 => iter \in Elems(m_listTimers)
    /\ pc = "callback" => iter \in alive
    /\ pc = "undefined" => iter \in alive /\ iter \notin Elems(m_listTimers)
    /\ pc = "idle" => iter = 0

DueTime(t) == added[t] + (runs[t] + 1) * interval[t]

NotEarly ==
    /\ \A t \in Elems(m_listTimers) : expires[t] = DueTime(t)
    /\ pc = "callback" => now >= DueTime(iter)

Counted ==
    /\ \A t \in Elems(m_listTimers) :
          /\ times[t] >= 1 => repeated[t] = times[t] - runs[t] /\ runs[t] < times[t]
          /\ times[t] < 1 => repeated[t] = times[t]
          /\ times[t] = 0 => runs[t] = 0
    /\ \A t \in 1..initialId : t \notin alive =>
          times[t] # -1 /\ runs[t] = (IF times[t] = 0 THEN 1 ELSE times[t])
    /\ \A t \in Timer!Ids : t > initialId => runs[t] = 0

TimersInv == TimersTyped /\ Walking /\ NotEarly /\ Counted

LEMMA TimersInit == ObjectsAssumption /\ Timer!Init => TimersInv
<1> SUFFICES ASSUME ObjectsAssumption, Timer!Init PROVE TimersInv
  OBVIOUS
<1>1. m_listTimers = << >> /\ Len(m_listTimers) = 0 /\ Elems(m_listTimers) = {}
  BY DEF Timer!Init, Elems
<1>2. TimersTyped
  BY <1>1 DEF Timer!Init, ObjectsAssumption, TimersTyped, Ascending
<1>3. Walking
  BY <1>1 DEF Timer!Init, Timer!End, Walking
<1>4. NotEarly
  BY <1>1 DEF Timer!Init, NotEarly
<1>5. Counted
  BY <1>1 DEF Timer!Init, Counted
<1> QED
  BY <1>2, <1>3, <1>4, <1>5 DEF TimersInv

\* A timer of the list is one of those that were made.
LEMMA ListedAre ==
    TimersInv => /\ Elems(m_listTimers) \subseteq 1..initialId
                 /\ Elems(m_listTimers) \subseteq Timer!Ids
                 /\ alive \subseteq 1..initialId /\ alive \subseteq Timer!Ids
                 /\ Timer!InList = Elems(m_listTimers)
<1> SUFFICES ASSUME TimersInv PROVE /\ Elems(m_listTimers) \subseteq 1..initialId
                                    /\ 1..initialId \subseteq Timer!Ids
                                    /\ alive \subseteq 1..initialId
                                    /\ Timer!InList = Elems(m_listTimers)
  OBVIOUS
<1>1. MaxTimers \in Nat /\ initialId \in 0..MaxTimers
  BY ObjectsAssumption DEF ObjectsAssumption, TimersInv, TimersTyped
<1>2. 1..initialId \subseteq Timer!Ids
  BY <1>1 DEF Timer!Ids
<1>3. Elems(m_listTimers) \subseteq 1..initialId /\ alive \subseteq 1..initialId
  BY DEF TimersInv, TimersTyped, Walking
<1> QED
  BY <1>2, <1>3 DEF Timer!InList, Elems

LEMMA TimersStutter == TimersInv /\ UNCHANGED timerVars => TimersInv'
  BY DEF TimersInv, TimersTyped, Walking, NotEarly, Counted, DueTime, timerVars, Timer!Ids,
         Elems, Ascending

\* The expiry a timer has is a number.
LEMMA DueTimeIsInt == TimersTyped => \A t \in Timer!Ids : DueTime(t) \in Int
<1> SUFFICES ASSUME TimersTyped, NEW t \in Timer!Ids PROVE DueTime(t) \in Int
  OBVIOUS
<1>1. added[t] \in Int /\ runs[t] + 1 \in Int /\ interval[t] \in Int
  BY DEF TimersTyped
<1> QED
  BY <1>1 DEF DueTime

LEMMA TimersTick == TimersInv /\ Timer!Tick => TimersInv'
<1> SUFFICES ASSUME TimersInv, Timer!Tick PROVE TimersInv'
  OBVIOUS
<1>1. TimersTyped'
  BY DEF Timer!Tick, TimersInv, TimersTyped, Ascending, Timer!Ids
<1>2. Walking'
  BY DEF Timer!Tick, TimersInv, Walking, Elems
<1>3. NotEarly'
  <2>1. pc = "callback" => DueTime(iter) \in Int /\ now \in Int /\ now >= DueTime(iter)
    BY ListedAre, DueTimeIsInt DEF TimersInv, TimersTyped, Walking, NotEarly
  <2>2. (\A t : DueTime(t)' = DueTime(t)) /\ DueTime(iter)' = DueTime(iter)
    BY DEF Timer!Tick, DueTime
  <2>3. pc = "callback" => now' >= DueTime(iter)
    BY <2>1 DEF Timer!Tick
  <2> QED
    BY <2>2, <2>3 DEF Timer!Tick, TimersInv, NotEarly, Elems, DueTime
<1>4. Counted'
  BY DEF Timer!Tick, TimersInv, Counted, Elems, Timer!Ids
<1> QED
  BY <1>1, <1>2, <1>3, <1>4 DEF TimersInv

LEMMA TimersWalk ==
    TimersInv /\ (Timer!Check \/ Timer!Expired \/ Timer!Return) => TimersInv'
<1>1. ASSUME TimersInv, Timer!Check PROVE TimersInv'
  <2>1. m_listTimers' = m_listTimers /\ Head(m_listTimers) \in Elems(m_listTimers)
    <3>1. m_listTimers \in Seq(Nat) /\ m_listTimers # << >>
      BY <1>1 DEF Timer!Check, TimersInv, TimersTyped, Ascending
    <3>2. 1 \in 1..Len(m_listTimers) /\ Head(m_listTimers) = m_listTimers[1]
      BY <3>1
    <3> QED
      BY <1>1, <3>2 DEF Timer!Check, Elems
  <2> QED
    BY <1>1, <2>1 DEF Timer!Check, TimersInv, TimersTyped, Walking, NotEarly, Counted, DueTime,
       Timer!Ids, Elems, Ascending
<1>2. ASSUME TimersInv, Timer!Expired PROVE TimersInv'
  <2>1. iter \in Elems(m_listTimers) /\ now >= DueTime(iter)
    BY <1>2 DEF Timer!Expired, Timer!End, TimersInv, Walking, NotEarly
  <2> QED
    BY <1>2, <2>1, SMTT(30) DEF Timer!Expired, Timer!End, TimersInv, TimersTyped, Walking, NotEarly,
       Counted, DueTime, Timer!Ids, Elems, Ascending
<1>3. ASSUME TimersInv, Timer!Return PROVE TimersInv'
  BY <1>3 DEF Timer!Return, Timer!End, TimersInv, TimersTyped, Walking, NotEarly, Counted,
     DueTime, Timer!Ids, Elems, Ascending
<1> QED
  BY <1>1, <1>2, <1>3

\* A new timer is the last of the list and has not run.
LEMMA TimersAdd ==
    ASSUME TimersInv, NEW n \in Repeats, NEW d \in Intervals, Timer!AddTimer(n, d)
    PROVE  TimersInv'
<1> DEFINE t == initialId + 1
<1>1. /\ MaxTimers \in Nat /\ initialId \in 0..MaxTimers /\ initialId \in Nat
      /\ n \in Nat \cup {-1} /\ n \in Int /\ d \in Int /\ d \in Nat
  BY ObjectsAssumption DEF ObjectsAssumption, TimersInv, TimersTyped
<1>2. t \in Timer!Ids /\ t \in Nat /\ t \in 1..t /\ t \in 0..MaxTimers /\ t > initialId
  BY <1>1 DEF Timer!AddTimer, Timer!Ids
<1>3. 1..t = 1..initialId \cup {t} /\ t \notin 1..initialId
  BY <1>1
<1> HIDE DEF t
<1>4. /\ initialId' = t /\ m_listTimers' = Append(m_listTimers, t) /\ alive' = alive \cup {t}
      /\ repeated' = [repeated EXCEPT ![t] = n] /\ interval' = [interval EXCEPT ![t] = d]
      /\ expires' = [expires EXCEPT ![t] = now + d] /\ added' = [added EXCEPT ![t] = now]
      /\ times' = [times EXCEPT ![t] = n]
      /\ now' = now /\ pc' = pc /\ iter' = iter /\ runs' = runs /\ pc # "undefined" /\ pc # "walk"
  BY DEF Timer!AddTimer, t
<1>5. \A x \in Elems(m_listTimers) \cup alive : x \in 1..initialId /\ x \in Timer!Ids /\ x # t
  BY <1>3, ListedAre
<1>6. Ascending(m_listTimers') /\ Elems(m_listTimers') = Elems(m_listTimers) \cup {t}
  <2>1. Ascending(m_listTimers) /\ \A x \in Elems(m_listTimers) : x < t
    BY <1>1, <1>2, <1>5 DEF TimersInv, TimersTyped
  <2> QED
    BY <1>2, <1>4, <2>1, AppendedIs
<1>7. /\ repeated'[t] = n /\ interval'[t] = d /\ expires'[t] = now + d /\ added'[t] = now
      /\ times'[t] = n /\ runs'[t] = 0
  BY <1>2, <1>4 DEF TimersInv, TimersTyped, Counted
<1>8. \A x \in Timer!Ids : x # t => /\ repeated'[x] = repeated[x] /\ interval'[x] = interval[x]
                                   /\ expires'[x] = expires[x] /\ added'[x] = added[x]
                                   /\ times'[x] = times[x] /\ runs'[x] = runs[x]
  BY <1>4 DEF TimersInv, TimersTyped
<1>9. TimersTyped'
  BY <1>1, <1>2, <1>3, <1>4, <1>6, SMTT(30) DEF TimersInv, TimersTyped
<1>10. Walking'
  BY <1>4, <1>6 DEF TimersInv, Walking
<1>11. NotEarly'
  <2>1. expires'[t] = added'[t] + (runs'[t] + 1) * interval'[t]
    <3>1. (0 + 1) * d = d
      BY <1>1
    <3> QED
      BY <1>7, <3>1
  <2>2. ASSUME NEW x \in Elems(m_listTimers)
        PROVE  /\ expires'[x] = added'[x] + (runs'[x] + 1) * interval'[x]
               /\ added'[x] + (runs'[x] + 1) * interval'[x] = DueTime(x)
    <3>1. expires[x] = DueTime(x)
      BY DEF TimersInv, NotEarly
    <3> QED
      BY <1>5, <1>8, <3>1 DEF DueTime
  <2>3. pc' = "callback" => now' >= added'[iter'] + (runs'[iter'] + 1) * interval'[iter']
    <3>1. pc = "callback" => iter \in alive /\ now >= DueTime(iter)
      BY DEF TimersInv, Walking, NotEarly
    <3>2. pc = "callback" => added'[iter] + (runs'[iter] + 1) * interval'[iter] = DueTime(iter)
      BY <1>5, <1>8, <3>1 DEF DueTime
    <3> QED
      BY <1>4, <3>1, <3>2
  <2> QED
    BY <1>6, <2>1, <2>2, <2>3 DEF NotEarly, DueTime
<1>12. Counted'
  <2>1. /\ times'[t] >= 1 => repeated'[t] = times'[t] - runs'[t] /\ runs'[t] < times'[t]
        /\ times'[t] < 1 => repeated'[t] = times'[t]
        /\ times'[t] = 0 => runs'[t] = 0
    BY <1>1, <1>7
  <2>2. ASSUME NEW x \in Elems(m_listTimers)
        PROVE  /\ times'[x] >= 1 => repeated'[x] = times'[x] - runs'[x] /\ runs'[x] < times'[x]
               /\ times'[x] < 1 => repeated'[x] = times'[x]
               /\ times'[x] = 0 => runs'[x] = 0
    BY <1>5, <1>8 DEF TimersInv, Counted
  <2>3. ASSUME NEW x \in 1..initialId', x \notin alive'
        PROVE  times'[x] # -1 /\ runs'[x] = (IF times'[x] = 0 THEN 1 ELSE times'[x])
    <3>1. x \in 1..initialId /\ x \notin alive /\ x # t
      BY <1>3, <1>4, <2>3
    <3>2. x \in Timer!Ids
      BY <3>1, <1>1 DEF Timer!Ids
    <3> QED
      BY <1>8, <3>1, <3>2 DEF TimersInv, Counted
  <2>4. ASSUME NEW x \in Timer!Ids, x > initialId' PROVE runs'[x] = 0
    <3>1. x > initialId
      BY <1>1, <1>2, <1>4, <2>4 DEF Timer!Ids
    <3> QED
      BY <1>4, <3>1 DEF TimersInv, Counted
  <2> QED
    BY <1>6, <2>1, <2>2, <2>3, <2>4 DEF Counted, Timer!Ids
<1> QED
  BY <1>9, <1>10, <1>11, <1>12 DEF TimersInv

\* The owner and callbacks may take any timer, a callback its own too: that one
\* leaves the list but still exists.
LEMMA TimersRemove ==
    ASSUME TimersInv, NEW t \in Timer!Ids, Timer!RemoveTimer(t)
    PROVE  TimersInv'
<1>1. /\ t \in Elems(m_listTimers) /\ pc # "walk" /\ pc # "undefined"
      /\ m_listTimers' = Timer!Erased(m_listTimers, t)
      /\ UNCHANGED <<initialId, repeated, interval, expires, alive, now, pc, iter, added,
                     times, runs>>
  BY ListedAre DEF Timer!RemoveTimer
<1>2. Ascending(m_listTimers') /\ Elems(m_listTimers') = Elems(m_listTimers) \ {t}
  BY <1>1, ErasedIs DEF TimersInv, TimersTyped
<1>3. TimersTyped'
  BY <1>1, <1>2 DEF TimersInv, TimersTyped, Timer!Ids
<1>4. Walking'
  BY <1>1, <1>2 DEF TimersInv, Walking
<1>5. NotEarly'
  BY <1>1, <1>2 DEF TimersInv, NotEarly, DueTime
<1>6. Counted'
  BY <1>1, <1>2 DEF TimersInv, Counted, Timer!Ids
<1> QED
  BY <1>3, <1>4, <1>5, <1>6 DEF TimersInv

\* The callback returns: the timer is due one interval later, or it is gone; if it
\* has left the list meanwhile, the walk has lost its place.
LEMMA TimersFinish == ASSUME TimersInv, Timer!FinishRun PROVE TimersInv'
<1> DEFINE left == IF repeated[iter] >= 1 THEN repeated[iter] - 1 ELSE repeated[iter]
           kept == iter \in Elems(m_listTimers)
<1>1. /\ pc = "callback"
      /\ runs' = [runs EXCEPT ![iter] = @ + 1]
      /\ repeated' = [repeated EXCEPT ![iter] = left]
      /\ expires' = [expires EXCEPT ![iter] = expires[iter] + interval[iter]]
      /\ kept => pc' = "walk" /\ iter' = Timer!NextIn(m_listTimers, iter)
      /\ kept /\ left = 0 =>
            m_listTimers' = Timer!Erased(m_listTimers, iter) /\ alive' = alive \ {iter}
      /\ kept /\ left # 0 => m_listTimers' = m_listTimers /\ alive' = alive
      /\ ~kept => /\ pc' = "undefined" /\ iter' = iter
                  /\ m_listTimers' = m_listTimers /\ alive' = alive
      /\ UNCHANGED <<initialId, interval, now, added, times>>
  BY ListedAre DEF Timer!FinishRun, Timer!AfterCallback, Timer!Rescheduled,
     Timer!ErasedIterator, Timer!Decremented
<1>2. iter \in Timer!Ids /\ iter \in 1..initialId /\ iter \in alive
  BY <1>1, ListedAre DEF TimersInv, Walking
<1>3. /\ repeated[iter] \in Int /\ runs[iter] \in Int /\ interval[iter] \in Int
      /\ added[iter] \in Int /\ expires[iter] \in Int /\ times[iter] \in Nat \cup {-1}
      /\ left \in Int
  BY <1>2 DEF TimersInv, TimersTyped
<1> HIDE DEF left
<1>4. Ascending(m_listTimers') /\ Elems(m_listTimers') \subseteq Elems(m_listTimers)
  BY <1>1, <1>2, ErasedIs DEF TimersInv, TimersTyped
<1>5. Elems(m_listTimers') = IF kept /\ left = 0 THEN Elems(m_listTimers) \ {iter}
                             ELSE Elems(m_listTimers)
  BY <1>1, <1>2, ErasedIs DEF TimersInv, TimersTyped
<1>6. kept => iter' \in (Elems(m_listTimers) \ {iter}) \cup {0}
  BY <1>1, <1>2, NextInIs DEF TimersInv, TimersTyped
<1>7. /\ runs'[iter] = runs[iter] + 1 /\ repeated'[iter] = left
      /\ expires'[iter] = expires[iter] + interval[iter]
  BY <1>1, <1>2 DEF TimersInv, TimersTyped
<1>8. \A x \in Timer!Ids : x # iter => runs'[x] = runs[x] /\ repeated'[x] = repeated[x]
                                      /\ expires'[x] = expires[x]
  BY <1>1 DEF TimersInv, TimersTyped
<1>9. TimersTyped'
  <2>1. alive' \subseteq 1..initialId
    BY <1>1 DEF TimersInv, TimersTyped
  <2>2. runs' \in [Timer!Ids -> Int] /\ repeated' \in [Timer!Ids -> Int]
        /\ expires' \in [Timer!Ids -> Int]
    BY <1>1, <1>2, <1>3 DEF TimersInv, TimersTyped
  <2> QED
    BY <1>1, <1>4, <2>1, <2>2 DEF TimersInv, TimersTyped, Timer!Ids
<1>10. Walking'
  <2>1. CASE kept
    BY <1>1, <1>5, <1>6, <2>1 DEF TimersInv, Walking
  <2>2. CASE ~kept
    BY <1>1, <1>2, <1>5, <2>2 DEF TimersInv, Walking
  <2> QED
    BY <2>1, <2>2
<1>11. NotEarly'
  <2>1. \A a, b \in Int : (a + 1 + 1) * b = (a + 1) * b + b /\ (a + 1) * b \in Int
    OBVIOUS
  <2>2. kept => expires'[iter] = added[iter] + (runs'[iter] + 1) * interval[iter]
    <3>1. kept => expires[iter] = added[iter] + (runs[iter] + 1) * interval[iter]
      BY DEF TimersInv, NotEarly, DueTime
    <3>2. /\ (runs[iter] + 1 + 1) * interval[iter] = (runs[iter] + 1) * interval[iter] + interval[iter]
          /\ (runs[iter] + 1) * interval[iter] \in Int
      BY <1>3, <2>1
    <3> QED
      BY <1>3, <1>7, <3>1, <3>2
  <2>3. \A x \in Elems(m_listTimers) : x # iter =>
            expires'[x] = added[x] + (runs'[x] + 1) * interval[x]
    BY <1>8, ListedAre DEF TimersInv, NotEarly, DueTime
  <2> QED
    BY <1>1, <1>4, <2>2, <2>3 DEF NotEarly, DueTime
<1>12. Counted'
  <2>1. kept => /\ times[iter] >= 1 => /\ repeated[iter] = times[iter] - runs[iter]
                                       /\ runs[iter] < times[iter]
                /\ times[iter] < 1 => repeated[iter] = times[iter]
                /\ times[iter] = 0 => runs[iter] = 0
    BY DEF TimersInv, Counted
  <2>2. kept /\ left # 0 =>
          /\ times[iter] >= 1 => /\ repeated'[iter] = times[iter] - runs'[iter]
                                 /\ runs'[iter] < times[iter]
          /\ times[iter] < 1 => repeated'[iter] = times[iter]
          /\ times[iter] = 0 => runs'[iter] = 0
    BY <1>3, <1>7, <2>1 DEF left
  <2>3. kept /\ left = 0 => /\ times[iter] # -1
                            /\ runs'[iter] = (IF times[iter] = 0 THEN 1 ELSE times[iter])
    BY <1>3, <1>7, <2>1 DEF left
  <2>4. ASSUME NEW x \in Elems(m_listTimers')
        PROVE  /\ times'[x] >= 1 => repeated'[x] = times'[x] - runs'[x] /\ runs'[x] < times'[x]
               /\ times'[x] < 1 => repeated'[x] = times'[x]
               /\ times'[x] = 0 => runs'[x] = 0
    <3>1. x \in Elems(m_listTimers) /\ x \in Timer!Ids /\ times' = times
      BY <1>1, <1>4, ListedAre
    <3>2. CASE x = iter
      BY <1>5, <2>2, <3>1, <3>2
    <3>3. CASE x # iter
      BY <1>8, <3>1, <3>3 DEF TimersInv, Counted
    <3> QED
      BY <3>2, <3>3
  <2>5. ASSUME NEW x \in 1..initialId', x \notin alive'
        PROVE  times'[x] # -1 /\ runs'[x] = (IF times'[x] = 0 THEN 1 ELSE times'[x])
    <3>1. x \in 1..initialId /\ x \in Timer!Ids /\ times' = times
      <4>1. MaxTimers \in Nat /\ initialId \in 0..MaxTimers
        BY ObjectsAssumption DEF ObjectsAssumption, TimersInv, TimersTyped
      <4> QED
        BY <1>1, <4>1 DEF Timer!Ids
    <3>2. CASE x = iter
      BY <1>1, <1>2, <2>3, <2>5, <3>1, <3>2
    <3>3. CASE x # iter
      <4>1. x \notin alive
        BY <1>1, <2>5, <3>3
      <4> QED
        BY <1>8, <3>1, <3>3, <4>1 DEF TimersInv, Counted
    <3> QED
      BY <3>2, <3>3
  <2>6. ASSUME NEW x \in Timer!Ids, x > initialId' PROVE runs'[x] = 0
    <3>1. x > initialId /\ x # iter
      <4>1. initialId \in Int
        BY DEF TimersInv, TimersTyped
      <4> QED
        BY <1>1, <1>2, <2>6, <4>1
    <3> QED
      BY <1>8, <3>1 DEF TimersInv, Counted
  <2> QED
    BY <2>4, <2>5, <2>6 DEF Counted, Timer!Ids
<1> QED
  BY <1>9, <1>10, <1>11, <1>12 DEF TimersInv

\* The invariant says what the run checks.
LEMMA TimersMean == TimersInv => Timer!TimersCorrect
<1> SUFFICES ASSUME TimersInv PROVE Timer!TimersCorrect
  OBVIOUS
<1>1. Timer!InList = Elems(m_listTimers)
  BY ListedAre
<1>2. Timer!IteratorValid
  BY <1>1 DEF TimersInv, TimersTyped, Walking, Ascending, Timer!IteratorValid, Timer!End
<1>3. Timer!NoDrift
  BY <1>1 DEF TimersInv, NotEarly, DueTime, Timer!NoDrift
<1>4. Timer!RunsExactly
  BY <1>1 DEF TimersInv, Counted, Timer!RunsExactly
<1> QED
  BY <1>2, <1>3, <1>4 DEF Timer!TimersCorrect

\* For every number of timers, every clock and every interval and repetition, the
\* walk of checkAndHandleTimers stands at a timer that exists unless a callback has
\* removed its own, no callback is early, and each timer runs as often as it was
\* told (TimersCorrect).
THEOREM TimersHold == Spec => []TimersCorrect
<1>1. Init => TimersInv
  BY ObjectsAssumption, TimersInit DEF Init
<1>2. TimersInv /\ [Next]_vars => TimersInv'
  <2> SUFFICES ASSUME TimersInv, [Next]_vars PROVE TimersInv'
    OBVIOUS
  <2>1. CASE UNCHANGED timerVars
    BY <2>1, TimersStutter
  <2>2. CASE Timer!Next
    BY <2>2, TimersTick, TimersWalk, TimersAdd, TimersRemove, TimersFinish DEF Timer!Next
  <2>3. UNCHANGED timerVars \/ Timer!Next
    BY DEF Next, vars
  <2> QED
    BY <2>1, <2>2, <2>3
<1>3. TimersInv => TimersCorrect
  BY TimersMean DEF TimersCorrect
<1> QED
  BY <1>1, <1>2, <1>3, PTL DEF Spec

-----------------------------------------------------------------------------
(* The strings.  A count of one owner is stated owner by owner: a buffer in*)
(* use has an owner, and two Strings never have the same one.              *)

StringsTyped ==
    /\ m_data \in [Pointers -> Buffers \cup {Null, "none", "dangling"}]
    /\ chars \in [Buffers -> Texts \cup {"free"}]
    /\ value \in [Pointers -> Texts \cup {"moved"}]

Held(b) == \E s \in Pointers : m_data[s] = b

Owned ==
    /\ fault \in {"none", "null read", "wrong pointer"}
    /\ fault = "wrong pointer" => \E s \in Pointers : m_data[s] = "dangling"
    /\ \A b \in Buffers : chars[b] # "free" <=> Held(b)
    /\ \A s, q \in Pointers : m_data[s] = m_data[q] /\ m_data[s] \in Buffers => s = q
    /\ \A s \in Pointers : m_data[s] \notin {"none", "dangling"} =>
          value[s] = IF m_data[s] = Null THEN "moved" ELSE chars[m_data[s]]

StringsInv == StringsTyped /\ Owned

LEMMA StringNames ==
    /\ Null \notin Buffers /\ Null \notin {"none", "dangling"}
    /\ "none" \notin Buffers /\ "dangling" \notin Buffers
    /\ "free" \notin Texts /\ "moved" \notin Texts
  BY ObjectsAssumption DEF ObjectsAssumption

LEMMA StringsInit == Str!Init => StringsInv
  BY StringNames DEF Str!Init, Str!None, Str!Free, Str!Moved, StringsInv, StringsTyped, Owned, Held

LEMMA StringsStutter == StringsInv /\ UNCHANGED strVars => StringsInv'
  BY DEF strVars, StringsInv, StringsTyped, Owned, Held

\* What the code leaves undefined changes nothing else.
LEMMA StringsUndefined ==
    ASSUME StringsInv, NEW w, Str!Undefined(w),
           \/ w = "null read"
           \/ w = "wrong pointer" /\ \E s \in Pointers : m_data[s] = "dangling"
    PROVE  StringsInv'
  BY DEF Str!Undefined, StringsInv, StringsTyped, Owned, Held

\* A pointer that is wrong is one that was made so, never one to a buffer that
\* somebody else has deleted.
LEMMA WrongIs ==
    ASSUME StringsInv, NEW s \in Pointers
    PROVE  Str!Wrong(m_data[s], chars) => m_data[s] = "dangling"
<1>1. m_data[s] \in Buffers => chars[m_data[s]] # "free"
  BY DEF StringsInv, Owned, Held
<1> QED
  BY <1>1 DEF Str!Wrong, Str!Free, Str!Dangling

\* The buffer of s is free: in c all is as before but for that.
FreedIn(c, s) ==
    /\ c \in [Buffers -> Texts \cup {"free"}]
    /\ \A b \in Buffers : c[b] = IF b = m_data[s] THEN "free" ELSE chars[b]

LEMMA DeletedIs ==
    ASSUME StringsInv, NEW s \in Pointers
    PROVE  /\ FreedIn(Str!Deleted(m_data[s]), s)
           /\ m_data[s] \notin Buffers => FreedIn(chars, s)
  BY StringNames DEF StringsInv, StringsTyped, FreedIn, Str!Deleted, Str!Free

\* String s gets a buffer that is free once its own is.
LEMMA StringsFilled ==
    ASSUME StringsInv, fault = "none", NEW s \in Pointers, NEW x \in Texts, NEW c, FreedIn(c, s),
           Str!Filled(s, x, c)
    PROVE  StringsInv'
<1>1. PICK b \in Buffers :
        /\ c[b] = "free"
        /\ m_data' = [m_data EXCEPT ![s] = b] /\ chars' = [c EXCEPT ![b] = x]
        /\ value' = [value EXCEPT ![s] = x] /\ fault' = fault
  BY DEF Str!Filled, Str!Free
<1>2. /\ m_data'[s] = b /\ chars'[b] = x /\ value'[s] = x
      /\ \A q \in Pointers : q # s => m_data'[q] = m_data[q] /\ value'[q] = value[q]
      /\ \A d \in Buffers : d # b => chars'[d] = IF d = m_data[s] THEN "free" ELSE chars[d]
  BY <1>1 DEF StringsInv, StringsTyped, FreedIn
<1>3. StringsTyped'
  BY <1>1 DEF StringsInv, StringsTyped, FreedIn
<1>4. Owned'
  <2>1. b = m_data[s] \/ chars[b] = "free"
    BY <1>1 DEF FreedIn
  <2>2. /\ \A d \in Buffers : chars[d] # "free" <=> Held(d)
        /\ \A q, p \in Pointers : m_data[q] = m_data[p] /\ m_data[q] \in Buffers => q = p
        /\ \A q \in Pointers : m_data[q] \notin {"none", "dangling"} =>
              value[q] = IF m_data[q] = Null THEN "moved" ELSE chars[m_data[q]]
        /\ \A q \in Pointers : m_data[q] \in Buffers \cup {Null, "none", "dangling"}
    BY DEF StringsInv, StringsTyped, Owned
  <2>3. \A q \in Pointers : q # s => m_data[q] # b
    BY <2>1, <2>2 DEF Held
  <2>4. \A q \in Pointers : q # s /\ m_data[q] \in Buffers => m_data[q] # m_data[s]
    BY <2>2
  <2>5. \A d \in Buffers : chars'[d] # "free" <=> \E q \in Pointers : m_data'[q] = d
    <3> SUFFICES ASSUME NEW d \in Buffers
                 PROVE  chars'[d] # "free" <=> \E q \in Pointers : m_data'[q] = d
      OBVIOUS
    <3>1. CASE d = b
      BY <1>2, <3>1, StringNames
    <3>2. CASE d # b /\ d = m_data[s]
      BY <1>2, <2>4, <3>2
    <3>3. CASE d # b /\ d # m_data[s]
      BY <1>2, <2>2, <3>3 DEF Held
    <3> QED
      BY <3>1, <3>2, <3>3
  <2>6. \A q, p \in Pointers : m_data'[q] = m_data'[p] /\ m_data'[q] \in Buffers => q = p
    BY <1>2, <2>2, <2>3
  <2>7. ASSUME NEW q \in Pointers, m_data'[q] \notin {"none", "dangling"}
        PROVE  value'[q] = IF m_data'[q] = Null THEN "moved" ELSE chars'[m_data'[q]]
    <3>1. CASE q = s
      BY <1>2, <3>1, StringNames
    <3>2. CASE q # s
      BY <1>2, <2>2, <2>3, <2>4, <2>7, <3>2
    <3> QED
      BY <3>1, <3>2
  <2> QED
    BY <1>1, <2>5, <2>6, <2>7 DEF StringsInv, Owned, Held
<1> QED
  BY <1>1, <1>3, <1>4 DEF StringsInv

\* The buffer of s is deleted; s has none afterwards, or takes over that of q,
\* which then has none.
LEMMA StringsHanded ==
    ASSUME StringsInv, fault = "none", NEW s \in Pointers, NEW c, FreedIn(c, s),
           NEW q \in Pointers, s # q, m_data[q] # "none",
           chars' = c, value' = [value EXCEPT ![s] = value[q], ![q] = "moved"],
           m_data' = [m_data EXCEPT ![s] = m_data[q], ![q] = Null],
           fault' = fault
    PROVE  StringsInv'
<1>1. /\ m_data'[s] = m_data[q] /\ m_data'[q] = Null
      /\ value'[s] = value[q] /\ value'[q] = "moved"
      /\ \A p \in Pointers : p # s /\ p # q => m_data'[p] = m_data[p] /\ value'[p] = value[p]
      /\ \A d \in Buffers : chars'[d] = IF d = m_data[s] THEN "free" ELSE chars[d]
  BY DEF StringsInv, StringsTyped, FreedIn
<1>2. StringsTyped'
  BY DEF StringsInv, StringsTyped, FreedIn
<1>3. Owned'
  <2>1. /\ \A d \in Buffers : chars[d] # "free" <=> Held(d)
        /\ \A u, p \in Pointers : m_data[u] = m_data[p] /\ m_data[u] \in Buffers => u = p
        /\ \A p \in Pointers : m_data[p] \notin {"none", "dangling"} =>
              value[p] = IF m_data[p] = Null THEN "moved" ELSE chars[m_data[p]]
        /\ \A p \in Pointers : m_data[p] \in Buffers \cup {Null, "none", "dangling"}
    BY DEF StringsInv, StringsTyped, Owned
  <2>2. \A d \in Buffers : chars'[d] # "free" <=> \E p \in Pointers : m_data'[p] = d
    <3> SUFFICES ASSUME NEW d \in Buffers
                 PROVE  chars'[d] # "free" <=> \E p \in Pointers : m_data'[p] = d
      OBVIOUS
    <3>1. CASE d = m_data[s]
      <4>1. chars'[d] = "free"
        BY <1>1, <3>1
      <4>2. ASSUME NEW p \in Pointers PROVE m_data'[p] # d
        <5>1. CASE p = q
          BY <1>1, <5>1, StringNames
        <5>2. CASE p = s
          BY <1>1, <2>1, <3>1, <5>2
        <5>3. CASE p # s /\ p # q
          <6>1. m_data'[p] = m_data[p]
            BY <1>1, <5>3
          <6>2. m_data[p] = m_data[s] => p = s
            BY <2>1, <3>1
          <6> QED
            BY <3>1, <5>3, <6>1, <6>2
        <5> QED
          BY <5>1, <5>2, <5>3
      <4> QED
        BY <4>1, <4>2
    <3>2. CASE d # m_data[s]
      <4>1. ASSUME NEW p \in Pointers, m_data'[p] = d PROVE Held(d)
        <5>1. p # q
          BY <1>1, <4>1, StringNames
        <5> QED
          BY <1>1, <4>1, <5>1 DEF Held
      <4>2. ASSUME NEW p \in Pointers, m_data[p] = d PROVE \E u \in Pointers : m_data'[u] = d
        BY <1>1, <3>2, <4>2
      <4>3. Held(d) <=> \E p \in Pointers : m_data'[p] = d
        BY <4>1, <4>2 DEF Held
      <4>4. chars'[d] = chars[d] /\ (chars[d] # "free" <=> Held(d))
        BY <1>1, <2>1, <3>2
      <4> QED
        BY <4>3, <4>4
    <3> QED
      BY <3>1, <3>2
  <2>3. ASSUME NEW u \in Pointers, NEW p \in Pointers, m_data'[u] = m_data'[p], m_data'[u] \in Buffers
        PROVE  u = p
    <3>1. u # q /\ p # q
      <4>1. m_data'[q] = Null /\ Null \notin Buffers
        BY <1>1, StringNames
      <4> QED
        BY <2>3, <4>1
    <3>2. \A r \in Pointers : r # q => m_data'[r] = m_data[IF r = s THEN q ELSE r]
      BY <1>1
    <3>3. \A r, t \in Pointers : m_data[r] = m_data[t] /\ m_data[r] \in Buffers => r = t
      BY <2>1
    <3>4. (IF u = s THEN q ELSE u) = (IF p = s THEN q ELSE p)
      BY <2>3, <3>1, <3>2, <3>3
    <3> QED
      BY <3>1, <3>4
  <2>4. ASSUME NEW p \in Pointers, m_data'[p] \notin {"none", "dangling"}
        PROVE  value'[p] = IF m_data'[p] = Null THEN "moved" ELSE chars'[m_data'[p]]
    <3>1. CASE p = q
      BY <1>1, <3>1
    <3>2. CASE p = s
      <4>1. m_data[q] \notin {"none", "dangling"}
        BY <1>1, <2>4, <3>2
      <4> QED
        BY <1>1, <2>1, <3>2, <4>1, StringNames
    <3>3. CASE p # s /\ p # q
      <4>1. m_data'[p] = m_data[p] /\ value'[p] = value[p] /\ m_data[p] \notin {"none", "dangling"}
        BY <1>1, <2>4, <3>3
      <4>2. CASE m_data[p] = Null
        BY <2>1, <4>1, <4>2
      <4>3. CASE m_data[p] \in Buffers
        <5>1. m_data[p] # m_data[s]
          BY <2>1, <3>3, <4>3
        <5> QED
          BY <1>1, <2>1, <4>1, <4>3, <5>1, StringNames
      <4> QED
        BY <2>1, <4>1, <4>2, <4>3
    <3> QED
      BY <3>1, <3>2, <3>3
  <2> QED
    BY <2>2, <2>3, <2>4 DEF StringsInv, Owned, Held
<1> QED
  BY <1>2, <1>3 DEF StringsInv

\* The buffer of s is deleted: s is gone with it, or has a wrong pointer.
LEMMA StringsDestroyed ==
    ASSUME StringsInv, fault = "none", NEW s \in Pointers, FreedIn(chars', s),
           NEW x \in Texts \cup {"moved"}, value' = [value EXCEPT ![s] = x],
           NEW d \in {"none", "dangling"}, m_data' = [m_data EXCEPT ![s] = d],
           fault' = fault
    PROVE  StringsInv'
<1>1. /\ m_data'[s] = d
      /\ \A p \in Pointers : p # s => m_data'[p] = m_data[p] /\ value'[p] = value[p]
      /\ \A b \in Buffers : chars'[b] = IF b = m_data[s] THEN "free" ELSE chars[b]
  BY DEF StringsInv, StringsTyped, FreedIn
<1>2. StringsTyped'
  BY DEF StringsInv, StringsTyped, FreedIn
<1>3. Owned'
  <2>1. /\ \A b \in Buffers : chars[b] # "free" <=> Held(b)
        /\ \A u, p \in Pointers : m_data[u] = m_data[p] /\ m_data[u] \in Buffers => u = p
        /\ \A p \in Pointers : m_data[p] \notin {"none", "dangling"} =>
              value[p] = IF m_data[p] = Null THEN "moved" ELSE chars[m_data[p]]
        /\ \A p \in Pointers : m_data[p] \in Buffers \cup {Null, "none", "dangling"}
    BY DEF StringsInv, StringsTyped, Owned
  <2>2. \A p \in Pointers : p # s /\ m_data[p] \in Buffers => m_data[p] # m_data[s]
    BY <2>1
  <2>3. \A b \in Buffers : chars'[b] # "free" <=> \E p \in Pointers : m_data'[p] = b
    BY <1>1, <2>1, <2>2, StringNames DEF Held
  <2>4. \A u, p \in Pointers : m_data'[u] = m_data'[p] /\ m_data'[u] \in Buffers => u = p
    BY <1>1, <2>1, StringNames
  <2>5. ASSUME NEW p \in Pointers, m_data'[p] \notin {"none", "dangling"}
        PROVE  value'[p] = IF m_data'[p] = Null THEN "moved" ELSE chars'[m_data'[p]]
    <3>1. p # s /\ m_data'[p] = m_data[p] /\ value'[p] = value[p]
      BY <1>1, <2>5
    <3> QED
      BY <1>1, <2>1, <2>2, <2>5, <3>1
  <2> QED
    BY <2>3, <2>4, <2>5 DEF StringsInv, Owned, Held
<1> QED
  BY <1>2, <1>3 DEF StringsInv

\* Copying: from a String that was moved from it is the null read, otherwise the
\* new buffer is filled; when there is none the old one is gone all the same.
LEMMA StringsCopy ==
    ASSUME StringsInv, NEW s \in Pointers, NEW q \in Pointers,
           Str!CopyConstruct(s, q) \/ Str!CopyAssign(s, q)
    PROVE  StringsInv'
<1>1. ASSUME NEW c, FreedIn(c, s), s # q, Str!SourceBad(q, c) PROVE StringsInv'
  <2>1. Str!Wrong(m_data[q], c) => m_data[q] = "dangling"
    <3>1. m_data[q] \in Buffers => chars[m_data[q]] # "free" /\ m_data[q] # m_data[s]
      BY <1>1 DEF StringsInv, Owned, Held
    <3> QED
      BY <1>1, <3>1 DEF FreedIn, Str!Wrong, Str!Free, Str!Dangling
  <2> QED
    BY <1>1, <2>1, StringsUndefined DEF Str!SourceBad
<1>2. ASSUME NEW c, FreedIn(c, s), fault = "none", Str!SourceGood(q, c),
             Str!Filled(s, c[m_data[q]], c)
      PROVE  StringsInv'
  <2>1. c[m_data[q]] \in Texts
    BY <1>2 DEF Str!SourceGood, Str!Free, FreedIn
  <2> QED
    BY <1>2, <2>1, StringsFilled
<1>3. ASSUME Str!CopyConstruct(s, q) PROVE StringsInv'
  <2>1. FreedIn(chars, s) /\ s # q /\ fault = "none"
    BY <1>3, DeletedIs, StringNames DEF Str!CopyConstruct, Str!Unborn, Str!Alive, Str!None
  <2> QED
    BY <1>1, <1>2, <1>3, <2>1 DEF Str!CopyConstruct
<1>4. ASSUME Str!CopyAssign(s, q) PROVE StringsInv'
  <2> DEFINE c == Str!Deleted(m_data[s])
             d == IF m_data[s] = Null THEN Null ELSE "dangling"
  <2>1. FreedIn(c, s) /\ s # q /\ fault = "none" /\ Str!Replace(s, q)
    BY <1>4, DeletedIs DEF Str!CopyAssign, Str!Alive
  <2>2. \/ Str!Wrong(m_data[s], chars) /\ Str!Undefined("wrong pointer")
        \/ Str!SourceBad(q, c)
        \/ Str!SourceGood(q, c) /\ Str!Filled(s, c[m_data[q]], c)
        \/ /\ chars' = c /\ m_data' = [m_data EXCEPT ![s] = d]
           /\ value' = value /\ fault' = fault
    BY <2>1 DEF Str!Replace, Str!Dangling
  <2>3. CASE Str!Wrong(m_data[s], chars) /\ Str!Undefined("wrong pointer")
    BY <2>3, WrongIs, StringsUndefined
  <2> HIDE DEF c
  <2>4. CASE Str!SourceBad(q, c)
    BY <1>1, <2>1, <2>4
  <2>5. CASE Str!SourceGood(q, c) /\ Str!Filled(s, c[m_data[q]], c)
    BY <1>2, <2>1, <2>5
  <2>6. CASE /\ chars' = c /\ m_data' = [m_data EXCEPT ![s] = d]
             /\ value' = value /\ fault' = fault
    <3>1. CASE m_data[s] = Null
      <4>1. \A b \in Buffers : c[b] = chars[b]
        BY <2>1, <3>1, StringNames DEF FreedIn
      <4>2. c = chars
        BY <2>1, <4>1 DEF FreedIn, StringsInv, StringsTyped
      <4>3. m_data' = m_data
        BY <2>6, <3>1 DEF StringsInv, StringsTyped
      <4> QED
        BY <2>6, <4>2, <4>3, StringsStutter DEF strVars
    <3>2. CASE m_data[s] # Null
      <4>1. value' = [value EXCEPT ![s] = value[s]] /\ value[s] \in Texts \cup {"moved"}
        BY <2>6 DEF StringsInv, StringsTyped
      <4>2. d = "dangling"
        BY <3>2
      <4> HIDE DEF d
      <4> QED
        BY <2>1, <2>6, <4>1, <4>2, StringsDestroyed
    <3> QED
      BY <3>1, <3>2
  <2> QED
    BY <2>2, <2>3, <2>4, <2>5, <2>6
<1> QED
  BY <1>3, <1>4

\* Moving: the source keeps nothing, and when it had nothing the new String has
\* nothing either or a pointer that was never set.
LEMMA StringsMove ==
    ASSUME StringsInv, NEW s \in Pointers, NEW q \in Pointers,
           Str!MoveConstruct(s, q) \/ Str!MoveAssign(s, q)
    PROVE  StringsInv'
<1>1. ASSUME Str!MoveConstruct(s, q) PROVE StringsInv'
  <2>1. /\ FreedIn(chars, s) /\ s # q /\ m_data[q] # "none" /\ m_data[s] = "none"
        /\ fault = "none" /\ chars' = chars /\ fault' = fault
        /\ value' = [value EXCEPT ![s] = value[q], ![q] = "moved"]
    BY <1>1, DeletedIs, StringNames
       DEF Str!MoveConstruct, Str!Unborn, Str!Alive, Str!None, Str!Moved
  <2>2. CASE m_data' = [m_data EXCEPT ![s] = m_data[q], ![q] = Null]
    BY <2>1, <2>2, StringsHanded
  <2>3. CASE m_data[q] = Null /\ m_data' = [m_data EXCEPT ![s] = Null]
    <3>1. m_data' = [m_data EXCEPT ![s] = m_data[q], ![q] = Null]
      BY <2>3 DEF StringsInv, StringsTyped
    <3> QED
      BY <2>1, <3>1, StringsHanded
  <2>4. CASE m_data[q] = Null /\ m_data' = [m_data EXCEPT ![s] = "dangling"]
    <3>1. value[q] = "moved"
      BY <2>4, StringNames DEF StringsInv, Owned
    <3>2. value' = [value EXCEPT ![s] = "moved"]
      BY <2>1, <3>1 DEF StringsInv, StringsTyped
    <3>3. FreedIn(chars', s)
      BY <2>1
    <3> QED
      BY <2>1, <2>4, <3>2, <3>3, StringsDestroyed
  <2> QED
    BY <1>1, <2>2, <2>3, <2>4 DEF Str!MoveConstruct, Str!Dangling
<1>2. ASSUME Str!MoveAssign(s, q) PROVE StringsInv'
  <2>1. /\ FreedIn(Str!Deleted(m_data[s]), s) /\ s # q /\ m_data[q] # "none"
        /\ fault = "none"
    BY <1>2, DeletedIs DEF Str!MoveAssign, Str!Alive, Str!None
  <2>2. CASE Str!Wrong(m_data[s], chars) /\ Str!Undefined("wrong pointer")
    BY <2>2, WrongIs, StringsUndefined
  <2>3. CASE ~(Str!Wrong(m_data[s], chars) /\ Str!Undefined("wrong pointer"))
    <3>1. /\ chars' = Str!Deleted(m_data[s])
          /\ m_data' = [m_data EXCEPT ![s] = m_data[q], ![q] = Null]
          /\ value' = [value EXCEPT ![s] = value[q], ![q] = "moved"]
          /\ fault' = fault
      BY <1>2, <2>3 DEF Str!MoveAssign, Str!Moved
    <3> QED
      BY <2>1, <3>1, StringsHanded
  <2> QED
    BY <2>2, <2>3
<1> QED
  BY <1>1, <1>2

LEMMA StringsEnds ==
    ASSUME StringsInv, NEW s \in Pointers,
           (\E x \in Texts : Str!Construct(s, x)) \/ Str!Destroy(s)
    PROVE  StringsInv'
<1>1. ASSUME NEW x \in Texts, Str!Construct(s, x) PROVE StringsInv'
  <2>1. FreedIn(chars, s) /\ Str!Filled(s, x, chars) /\ fault = "none"
    BY <1>1, DeletedIs, StringNames DEF Str!Construct, Str!Unborn, Str!None
  <2> QED
    BY <2>1, StringsFilled
<1>2. ASSUME Str!Destroy(s) PROVE StringsInv'
  <2>1. FreedIn(Str!Deleted(m_data[s]), s) /\ fault = "none"
    BY <1>2, DeletedIs DEF Str!Destroy, Str!Alive
  <2>2. CASE Str!Wrong(m_data[s], chars) /\ Str!Undefined("wrong pointer")
    BY <2>2, WrongIs, StringsUndefined
  <2>3. CASE ~(Str!Wrong(m_data[s], chars) /\ Str!Undefined("wrong pointer"))
    <3>1. /\ chars' = Str!Deleted(m_data[s])
          /\ m_data' = [m_data EXCEPT ![s] = "none"]
          /\ value' = [value EXCEPT ![s] = "moved"]
          /\ fault' = fault
      BY <1>2, <2>3 DEF Str!Destroy, Str!Moved, Str!None
    <3> QED
      BY <2>1, <3>1, StringsDestroyed
  <2> QED
    BY <2>2, <2>3
<1> QED
  BY <1>1, <1>2

\* An instance of a module that extends FiniteSets counts as FiniteSets does.
LEMMA CountsAgree == \A S : Str!Cardinality(S) = Cardinality(S)
  BY DEF Str!Cardinality, Cardinality

\* Owner by owner, or by the number of owners: the same.
LEMMA StringsMean == StringsInv => Str!OneOwner
<1> SUFFICES ASSUME StringsInv PROVE Str!OneOwner
  OBVIOUS
<1>1. ASSUME NEW b \in Buffers
      PROVE  Str!Cardinality(Str!Owners(b)) = IF chars[b] = Str!Free THEN 0 ELSE 1
  <2>1. CASE chars[b] = "free"
    <3>1. Str!Owners(b) = {}
      BY <2>1 DEF StringsInv, Owned, Held, Str!Owners
    <3> QED
      BY <2>1, <3>1, FS_EmptySet, CountsAgree DEF Str!Free
  <2>2. CASE chars[b] # "free"
    <3>1. PICK s \in Pointers : m_data[s] = b
      BY <2>2 DEF StringsInv, Owned, Held
    <3>2. Str!Owners(b) = {s}
      BY <3>1 DEF StringsInv, Owned, Str!Owners
    <3> QED
      BY <2>2, <3>2, FS_Singleton, CountsAgree DEF Str!Free
  <2> QED
    BY <2>1, <2>2
<1>2. ASSUME NEW s \in Pointers, m_data[s] \notin {Str!None, Str!Dangling}
      PROVE  value[s] = IF m_data[s] = Null THEN Str!Moved ELSE chars[m_data[s]]
  BY <1>2 DEF StringsInv, Owned, Str!None, Str!Dangling, Str!Moved
<1>3. /\ fault \in {"none", "null read", "wrong pointer"}
      /\ fault = "wrong pointer" => \E s \in Pointers : m_data[s] = Str!Dangling
  BY DEF StringsInv, Owned, Str!Dangling
<1> QED
  BY <1>1, <1>2, <1>3 DEF Str!OneOwner

THEOREM StringsInductive == Spec => []StringsInv
<1>1. Init => StringsInv
  BY StringsInit DEF Init
<1>2. StringsInv /\ [Next]_vars => StringsInv'
  <2> SUFFICES ASSUME StringsInv, [Next]_vars PROVE StringsInv'
    OBVIOUS
  <2>1. CASE UNCHANGED strVars
    BY <2>1, StringsStutter
  <2>2. CASE Str!Next
    BY <2>2, StringsEnds, StringsCopy, StringsMove DEF Str!Next
  <2>3. UNCHANGED strVars \/ Str!Next
    BY DEF Next, vars
  <2> QED
    BY <2>1, <2>2, <2>3
<1> QED
  BY <1>1, <1>2, PTL DEF Spec

-----------------------------------------------------------------------------
(* The counting pointers.  The library's induction theorems take the       *)
(* formula as an operator; where collect()'s loop needs induction, a least *)
(* counterexample is refuted instead.                                      *)

Addresses == Blocks \cup {Null}
Entries == [memPtr : Addresses, refcount : Nat]

\* A list is good when no address is in it twice; its counts are those of a
\* function c from addresses to numbers.
Good(s) == s \in Seq(Entries) /\ \A j, k \in 1..Len(s) : s[j].memPtr = s[k].memPtr => j = k
Listed(s) == {s[k].memPtr : k \in 1..Len(s)}
Counts(s, c) == c \in [Addresses -> Nat] /\ \A k \in 1..Len(s) : s[k].refcount = c[s[k].memPtr]

LEMMA EntriesAre ==
    ASSUME NEW s \in Seq(Entries)
    PROVE  \A j \in 1..Len(s) : /\ s[j] \in Entries
                                 /\ s[j].memPtr \in Addresses /\ s[j].refcount \in Nat
<1>1. \A j \in 1..Len(s) : s[j] \in Entries
  OBVIOUS
<1> QED
  BY <1>1 DEF Entries

\* A set of numbers that is not empty has a least one.
LEMMA LeastOf ==
    ASSUME NEW I \in SUBSET Nat, I # {}
    PROVE  \E x \in I : \A y \in I : x <= y
<1>1. PICK x \in I : \A y \in I : ~(<<y, x>> \in OpToRel(<, Nat))
  BY NatLessThanWellFounded, WFMin
<1>2. \A y \in I : ~(y < x)
  <2> SUFFICES ASSUME NEW y \in I, y < x PROVE FALSE
    OBVIOUS
  <2>1. <<y, x>> \in OpToRel(<, Nat)
    BY Zenon DEF OpToRel
  <2> QED
    BY <1>1, <2>1
<1>3. x \in Int /\ \A y \in I : y \in Int
  OBVIOUS
<1> QED
  BY <1>2, <1>3

LEMMA LeastIs ==
    ASSUME NEW I \in SUBSET Nat, I # {}
    PROVE  Gc!Min(I) \in I /\ \A i \in I : Gc!Min(I) <= i
<1>1. \E x \in I : \A y \in I : x <= y
  BY LeastOf
<1> QED
  BY <1>1 DEF Gc!Min

\* An address is found where it is listed.
LEMMA FindIs ==
    ASSUME NEW s, Good(s), NEW t
    PROVE  /\ t \notin Listed(s) => Gc!findPtrInfo(s, t) = 0
           /\ t \in Listed(s) => /\ Gc!findPtrInfo(s, t) \in 1..Len(s)
                                 /\ s[Gc!findPtrInfo(s, t)].memPtr = t
<1> DEFINE I == {i \in 1..Len(s) : s[i].memPtr = t}
<1>1. Gc!findPtrInfo(s, t) = IF I # {} THEN Gc!Min(I) ELSE 0
  BY DEF Gc!findPtrInfo, Gc!SelectInSeq
<1>2. I \in SUBSET Nat
  BY DEF Good
<1>3. I # {} => Gc!Min(I) \in I
  BY <1>2, LeastIs
<1>4. t \in Listed(s) <=> I # {}
  BY DEF Listed
<1> QED
  BY <1>1, <1>3, <1>4

\* The first entry nobody uses is found, if there is one.
FirstUnused(s) == Gc!SelectInSeq(s, LAMBDA e : e.refcount = 0)

LEMMA FirstUnusedIs ==
    ASSUME NEW s, Good(s)
    PROVE  \/ FirstUnused(s) = 0 /\ \A k \in 1..Len(s) : s[k].refcount # 0
           \/ /\ FirstUnused(s) \in 1..Len(s) /\ s[FirstUnused(s)].refcount = 0
              /\ \A k \in 1..Len(s) : s[k].refcount = 0 => FirstUnused(s) <= k
<1> DEFINE I == {i \in 1..Len(s) : s[i].refcount = 0}
<1>1. FirstUnused(s) = IF I # {} THEN Gc!Min(I) ELSE 0
  BY DEF FirstUnused, Gc!SelectInSeq
<1>2. I \in SUBSET Nat
  BY DEF Good
<1>3. I # {} => Gc!Min(I) \in I /\ \A i \in I : Gc!Min(I) <= i
  BY <1>2, LeastIs
<1> QED
  BY <1>1, <1>3

\* One more pointer for an address.
LEMMA CountIs ==
    ASSUME NEW s, Good(s), NEW c, Counts(s, c), NEW t \in Addresses, t \notin Listed(s) => c[t] = 0
    PROVE  /\ Good(Gc!Count(s, t)) /\ Listed(Gc!Count(s, t)) = Listed(s) \cup {t}
           /\ Counts(Gc!Count(s, t), [c EXCEPT ![t] = @ + 1])
<1> DEFINE k == Gc!findPtrInfo(s, t)
           r == Gc!Count(s, t)
           d == [c EXCEPT ![t] = @ + 1]
<1>1. s \in Seq(Entries) /\ Len(s) \in Nat
  BY DEF Good
<1>2. d \in [Addresses -> Nat] /\ d[t] = c[t] + 1 /\ c[t] \in Nat
      /\ \A u \in Addresses : u # t => d[u] = c[u]
  BY DEF Counts
<1>3. \A j \in 1..Len(s) : s[j] \in Entries /\ s[j].memPtr \in Addresses /\ s[j].refcount \in Nat
  BY <1>1, EntriesAre
<1> HIDE DEF d
<1>4. CASE t \in Listed(s)
  <2>1. k \in 1..Len(s) /\ s[k].memPtr = t /\ k # 0
    BY <1>1, <1>4, FindIs
  <2>2. r = [s EXCEPT ![k] = [s[k] EXCEPT !.refcount = s[k].refcount + 1]]
    BY <2>1 DEF Gc!Count
  <2> HIDE DEF k, r
  <2>3. [s[k] EXCEPT !.refcount = s[k].refcount + 1] = [memPtr |-> t, refcount |-> s[k].refcount + 1]
    BY <1>3, <2>1 DEF Entries
  <2>4. [memPtr |-> t, refcount |-> s[k].refcount + 1] \in Entries
    BY <1>3, <2>1 DEF Entries
  <2>5. /\ r \in Seq(Entries) /\ Len(r) = Len(s)
        /\ \A j \in 1..Len(s) : r[j] = IF j = k THEN [memPtr |-> t, refcount |-> s[k].refcount + 1]
                                       ELSE s[j]
    BY <1>1, <2>1, <2>2, <2>3, <2>4
  <2>6. \A j \in 1..Len(s) : r[j].memPtr = s[j].memPtr
    BY <2>1, <2>5
  <2>7. \A j \in 1..Len(s) : r[j].refcount = d[s[j].memPtr]
    <3> SUFFICES ASSUME NEW j \in 1..Len(s) PROVE r[j].refcount = d[s[j].memPtr]
      OBVIOUS
    <3>1. CASE j = k
      <4>1. r[j].refcount = s[k].refcount + 1 /\ s[k].refcount = c[t]
        BY <2>1, <2>5, <3>1 DEF Counts
      <4> QED
        BY <1>2, <2>1, <3>1, <4>1
    <3>2. CASE j # k
      <4>1. s[j].memPtr # t
        BY <2>1, <3>2 DEF Good
      <4> QED
        BY <1>2, <1>3, <2>5, <3>2, <4>1 DEF Counts
    <3> QED
      BY <3>1, <3>2
  <2>8. Good(r)
    BY <2>5, <2>6 DEF Good
  <2>9. Listed(r) = Listed(s) \cup {t}
    BY <1>4, <2>5, <2>6 DEF Listed
  <2>10. Counts(r, d)
    BY <1>2, <2>5, <2>6, <2>7 DEF Counts
  <2> QED
    BY <2>8, <2>9, <2>10 DEF r, d
<1>5. CASE t \notin Listed(s)
  <2> DEFINE e == [memPtr |-> t, refcount |-> 1]
  <2>1. r = <<e>> \o s
    BY <1>1, <1>5, FindIs DEF Gc!Count, Gc!GCInfo
  <2>2. e \in Entries /\ e.memPtr = t /\ e.refcount = 1
    BY DEF Entries
  <2> HIDE DEF k, r, e
  <2>3. <<e>> \in Seq(Entries) /\ Len(<<e>>) = 1 /\ <<e>>[1] = e
    BY <2>2
  <2>4. /\ r \in Seq(Entries) /\ Len(r) = Len(s) + 1
        /\ \A j \in 1..(1 + Len(s)) : r[j] = IF j <= 1 THEN <<e>>[j] ELSE s[j - 1]
    BY <1>1, <2>1, <2>3, ConcatProperties
  <2>5. r[1] = e /\ \A j \in 1..Len(s) : r[j + 1] = s[j] /\ j + 1 \in 1..Len(r)
    <3>1. 1 \in 1..(1 + Len(s)) /\ 1 <= 1
      BY <1>1
    <3>2. \A j \in 1..Len(s) : j + 1 \in 1..(1 + Len(s)) /\ ~(j + 1 <= 1) /\ (j + 1) - 1 = j
      BY <1>1
    <3>3. \A j \in 1..Len(s) : r[j + 1] = s[j]
      BY <2>4, <3>2
    <3> QED
      BY <2>3, <2>4, <3>1, <3>2, <3>3
  <2>6. \A j \in 1..Len(r) : j = 1 \/ (j - 1 \in 1..Len(s) /\ r[j] = s[j - 1])
    <3> SUFFICES ASSUME NEW j \in 1..Len(r), j # 1 PROVE j - 1 \in 1..Len(s) /\ r[j] = s[j - 1]
      OBVIOUS
    <3>1. j \in 1..(1 + Len(s)) /\ ~(j <= 1) /\ j - 1 \in 1..Len(s)
      BY <1>1, <2>4
    <3> QED
      BY <2>4, <3>1
  <2>7. \A j \in 1..Len(s) : s[j].memPtr # t
    BY <1>5 DEF Listed
  <2>8. Good(r)
    <3>1. ASSUME NEW i \in 1..Len(r), NEW j \in 1..Len(r), r[i].memPtr = r[j].memPtr PROVE i = j
      <4>1. CASE i = 1 \/ j = 1
        BY <2>2, <2>5, <2>6, <2>7, <3>1, <4>1
      <4>2. CASE i # 1 /\ j # 1
        <5>1. i - 1 \in 1..Len(s) /\ j - 1 \in 1..Len(s) /\ s[i - 1].memPtr = s[j - 1].memPtr
          BY <2>6, <3>1, <4>2
        <5>2. i - 1 = j - 1
          BY <5>1 DEF Good
        <5> QED
          BY <1>1, <2>4, <5>2
      <4> QED
        BY <4>1, <4>2
    <3> QED
      BY <2>4, <3>1 DEF Good
  <2>9. Listed(r) = Listed(s) \cup {t}
    <3>1. \A u \in Listed(r) : u \in Listed(s) \cup {t}
      BY <2>2, <2>5, <2>6 DEF Listed
    <3>2. 1 \in 1..Len(r)
      BY <1>1, <2>4
    <3>3. \A u \in Listed(s) \cup {t} : u \in Listed(r)
      BY <2>2, <2>5, <3>2 DEF Listed
    <3> QED
      BY <3>1, <3>3
  <2>10. Counts(r, d)
    <3>1. ASSUME NEW j \in 1..Len(r) PROVE r[j].refcount = d[r[j].memPtr]
      <4>1. CASE j = 1
        BY <1>2, <1>5, <2>2, <2>5, <4>1
      <4>2. CASE j # 1
        <5>1. j - 1 \in 1..Len(s) /\ r[j] = s[j - 1]
          BY <2>6, <4>2
        <5>2. s[j - 1].refcount = c[s[j - 1].memPtr] /\ s[j - 1].memPtr \in Addresses
          BY <1>3, <5>1 DEF Counts
        <5>3. s[j - 1].memPtr # t
          BY <2>7, <5>1
        <5> QED
          BY <1>2, <5>1, <5>2, <5>3
      <4> QED
        BY <4>1, <4>2
    <3> QED
      BY <1>2, <3>1 DEF Counts
  <2> QED
    BY <2>8, <2>9, <2>10 DEF r, d
<1> QED
  BY <1>4, <1>5

\* One pointer less.
LEMMA DiscountIs ==
    ASSUME NEW s, Good(s), NEW c, Counts(s, c), NEW t \in Listed(s), c[t] > 0
    PROVE  /\ Good(Gc!Discount(s, t)) /\ Listed(Gc!Discount(s, t)) = Listed(s)
           /\ Counts(Gc!Discount(s, t), [c EXCEPT ![t] = @ - 1])
<1> DEFINE k == Gc!findPtrInfo(s, t)
           r == Gc!Discount(s, t)
           d == [c EXCEPT ![t] = @ - 1]
<1>1. s \in Seq(Entries) /\ Len(s) \in Nat
  BY DEF Good
<1>3. \A j \in 1..Len(s) : s[j] \in Entries /\ s[j].memPtr \in Addresses /\ s[j].refcount \in Nat
  BY <1>1, EntriesAre
<1>2. d \in [Addresses -> Nat] /\ d[t] = c[t] - 1 /\ c[t] \in Nat /\ t \in Addresses
      /\ \A u \in Addresses : u # t => d[u] = c[u]
  <2>1. t \in Addresses
    BY <1>3 DEF Listed
  <2> QED
    BY <2>1 DEF Counts
<1> HIDE DEF d
<1>4. k \in 1..Len(s) /\ s[k].memPtr = t /\ s[k].refcount = c[t]
  BY FindIs DEF Counts
<1>5. r = [s EXCEPT ![k] = [s[k] EXCEPT !.refcount = s[k].refcount - 1]]
  BY DEF Gc!Discount
<1> HIDE DEF k, r
<1>6. [s[k] EXCEPT !.refcount = s[k].refcount - 1] = [memPtr |-> t, refcount |-> c[t] - 1]
  BY <1>3, <1>4 DEF Entries
<1>7. [memPtr |-> t, refcount |-> c[t] - 1] \in Entries
  BY <1>2 DEF Entries
<1>8. /\ r \in Seq(Entries) /\ Len(r) = Len(s)
      /\ \A j \in 1..Len(s) : r[j] = IF j = k THEN [memPtr |-> t, refcount |-> c[t] - 1] ELSE s[j]
  BY <1>1, <1>4, <1>5, <1>6, <1>7
<1>9. \A j \in 1..Len(s) : r[j].memPtr = s[j].memPtr
  BY <1>4, <1>8
<1>10. \A j \in 1..Len(s) : r[j].refcount = d[s[j].memPtr]
  <2> SUFFICES ASSUME NEW j \in 1..Len(s) PROVE r[j].refcount = d[s[j].memPtr]
    OBVIOUS
  <2>1. CASE j = k
    BY <1>2, <1>4, <1>8, <2>1
  <2>2. CASE j # k
    <3>1. s[j].memPtr # t
      BY <1>4, <2>2 DEF Good
    <3> QED
      BY <1>2, <1>3, <1>8, <2>2, <3>1 DEF Counts
  <2> QED
    BY <2>1, <2>2
<1>11. Good(r)
  BY <1>8, <1>9 DEF Good
<1>12. Listed(r) = Listed(s)
  BY <1>8, <1>9 DEF Listed
<1>13. Counts(r, d)
  BY <1>2, <1>8, <1>9, <1>10 DEF Counts
<1> QED
  BY <1>11, <1>12, <1>13 DEF r, d

-----------------------------------------------------------------------------
\* The loop of collect(), as the recursive function the model defines.
Turn(s, f, n) ==
    IF n = 0 THEN [list |-> s, atEnd |-> FALSE]
    ELSE LET l == f[n - 1].list
             k == FirstUnused(l)
         IN IF f[n - 1].atEnd \/ k = 0 THEN [list |-> l, atEnd |-> TRUE]
            ELSE [list |-> Gc!RemoveAt(l, k), atEnd |-> k = Len(l)]
IsLoop(s, f, m) == f = [n \in 0..m |-> Turn(s, f, n)]
Loop(s) == CHOOSE f : IsLoop(s, f, Len(s))

LEMMA CollectIsLoop == ASSUME NEW s PROVE Gc!collect(s) = Loop(s)[Len(s)].list
  BY DEF Gc!collect, Loop, IsLoop, Turn, FirstUnused

\* It can be run for any number of turns: a least number for which it cannot would
\* be the successor of one for which it can.
LEMMA LoopRuns == ASSUME NEW s, NEW m \in Nat PROVE \E f : IsLoop(s, f, m)
<1> DEFINE T == {n \in Nat : ~\E f : IsLoop(s, f, n)}
<1> SUFFICES ASSUME T # {} PROVE FALSE
  OBVIOUS
<1>1. PICK n \in T : \A i \in T : n <= i
  <2>1. T \in SUBSET Nat
    OBVIOUS
  <2> HIDE DEF T
  <2> QED
    BY <2>1, LeastIs
<1>2. n # 0
  <2> DEFINE f == [j \in 0..0 |-> [list |-> s, atEnd |-> FALSE]]
  <2>1. f = [j \in 0..0 |-> Turn(s, f, j)]
    BY DEF Turn
  <2>2. IsLoop(s, f, 0)
    BY <2>1 DEF IsLoop
  <2> QED
    BY <1>1, <2>2
<1>3. n - 1 \in Nat /\ n - 1 \notin T
  <2>1. n \in Nat /\ n - 1 \in Nat /\ ~(n <= n - 1)
    BY <1>1, <1>2
  <2> QED
    BY <1>1, <2>1
<1>4. PICK f : IsLoop(s, f, n - 1)
  BY <1>3
<1> DEFINE g == [j \in 0..n |-> IF j = n THEN Turn(s, f, n) ELSE f[j]]
<1>5. \A j \in 0..n : g[j] = Turn(s, g, j)
  <2> SUFFICES ASSUME NEW j \in 0..n PROVE g[j] = Turn(s, g, j)
    OBVIOUS
  <2>1. \A i \in 0..(n - 1) : g[i] = f[i]
    BY <1>3
  <2>2. j # 0 => g[j - 1] = f[j - 1]
    <3>1. j # 0 => j - 1 \in 0..(n - 1)
      BY <1>3
    <3> QED
      BY <2>1, <3>1
  <2>3. Turn(s, g, j) = Turn(s, f, j)
    <3> HIDE DEF g
    <3> QED
      BY <2>2 DEF Turn
  <2>4. CASE j = n
    BY <2>3, <2>4
  <2>5. CASE j # n
    <3>1. j \in 0..(n - 1)
      BY <1>3, <2>5
    <3>2. f[j] = Turn(s, f, j)
      BY <1>4, <3>1 DEF IsLoop
    <3> QED
      BY <2>1, <2>3, <3>1, <3>2
  <2> QED
    BY <2>4, <2>5
<1>6. IsLoop(s, g, n)
  <2>1. g = [j \in 0..n |-> g[j]]
    OBVIOUS
  <2> HIDE DEF g
  <2> QED
    BY <1>5, <2>1 DEF IsLoop
<1> QED
  BY <1>1, <1>6

LEMMA LoopTurns ==
    ASSUME NEW s, Good(s)
    PROVE  \A n \in 0..Len(s) : Loop(s)[n] = Turn(s, Loop(s), n)
<1>1. Len(s) \in Nat
  BY DEF Good
<1>2. IsLoop(s, Loop(s), Len(s))
  BY <1>1, LoopRuns DEF Loop
<1> HIDE DEF Loop
<1> QED
  BY <1>2 DEF IsLoop

\* Taking an entry out takes out its address and no other.
LEMMA TakenOut ==
    ASSUME NEW s, Good(s), NEW c, Counts(s, c), NEW k \in 1..Len(s)
    PROVE  /\ Good(Gc!RemoveAt(s, k)) /\ Counts(Gc!RemoveAt(s, k), c)
           /\ Len(Gc!RemoveAt(s, k)) = Len(s) - 1
           /\ Listed(Gc!RemoveAt(s, k)) = Listed(s) \ {s[k].memPtr}
           /\ \A i \in 1..(Len(s) - 1) :
                 Gc!RemoveAt(s, k)[i] = IF i < k THEN s[i] ELSE s[i + 1]
<1> DEFINE r == Gc!RemoveAt(s, k)
<1>1. s \in Seq(Entries) /\ Len(s) \in Nat /\ k \in Nat /\ 1 <= k /\ k <= Len(s)
  BY DEF Good
<1>2. r = Without(s, k)
  BY DEF Gc!RemoveAt, Without
<1>3. /\ r \in Seq(Entries) /\ Len(r) = Len(s) - 1
      /\ \A i \in 1..(Len(s) - 1) : r[i] = IF i < k THEN s[i] ELSE s[i + 1]
  BY <1>1, <1>2, WithoutIs
<1> HIDE DEF r
<1> DEFINE from(i) == IF i < k THEN i ELSE i + 1
<1>4. \A i \in 1..Len(r) : from(i) \in 1..Len(s) /\ from(i) # k /\ r[i] = s[from(i)]
  <2> SUFFICES ASSUME NEW i \in 1..Len(r)
               PROVE  from(i) \in 1..Len(s) /\ from(i) # k /\ r[i] = s[from(i)]
    OBVIOUS
  <2>1. i \in 1..(Len(s) - 1)
    BY <1>3
  <2>2. from(i) \in 1..Len(s) /\ from(i) # k
    BY <1>1, <2>1
  <2> QED
    BY <1>3, <2>1, <2>2
<1>5. \A i, j \in 1..Len(r) : from(i) = from(j) => i = j
  BY <1>1, <1>3
<1>6. \A j \in 1..Len(s) : j # k => \E i \in 1..Len(r) : from(i) = j
  <2> SUFFICES ASSUME NEW j \in 1..Len(s), j # k PROVE \E i \in 1..Len(r) : from(i) = j
    OBVIOUS
  <2>1. CASE j < k
    <3>1. j \in 1..Len(r) /\ from(j) = j
      BY <1>1, <1>3, <2>1
    <3> QED
      BY <3>1
  <2>2. CASE ~(j < k)
    <3>1. j - 1 \in 1..Len(r) /\ ~(j - 1 < k) /\ (j - 1) + 1 = j
      BY <1>1, <1>3, <2>2
    <3>2. from(j - 1) = j
      BY <3>1
    <3> QED
      BY <3>1, <3>2
  <2> QED
    BY <2>1, <2>2
<1> HIDE DEF from
<1>7. Good(r)
  <2>1. ASSUME NEW i \in 1..Len(r), NEW j \in 1..Len(r), r[i].memPtr = r[j].memPtr PROVE i = j
    <3>1. from(i) = from(j)
      BY <1>4, <2>1 DEF Good
    <3> QED
      BY <1>5, <3>1
  <2> QED
    BY <1>3, <2>1 DEF Good
<1>8. Counts(r, c)
  BY <1>4 DEF Counts
<1>9. Listed(r) = Listed(s) \ {s[k].memPtr}
  <2>1. ASSUME NEW u \in Listed(r) PROVE u \in Listed(s) \ {s[k].memPtr}
    <3>1. PICK i \in 1..Len(r) : u = r[i].memPtr
      BY <2>1 DEF Listed
    <3>2. from(i) \in 1..Len(s) /\ from(i) # k /\ u = s[from(i)].memPtr
      BY <1>4, <3>1
    <3> QED
      BY <3>2 DEF Listed, Good
  <2>2. ASSUME NEW u \in Listed(s) \ {s[k].memPtr} PROVE u \in Listed(r)
    <3>1. PICK j \in 1..Len(s) : u = s[j].memPtr /\ j # k
      BY <2>2 DEF Listed
    <3>2. PICK i \in 1..Len(r) : from(i) = j
      BY <1>6, <3>1
    <3> QED
      BY <1>4, <3>1, <3>2 DEF Listed
  <2> QED
    BY <2>1, <2>2
<1> QED
  BY <1>3, <1>7, <1>8, <1>9 DEF r

\* After n turns only unused entries are gone; either the loop has ended and all of
\* them are, or n entries are.
AfterTurns(s, c, l, n) ==
    /\ Good(l.list) /\ Counts(l.list, c)
    /\ Listed(l.list) \subseteq Listed(s)
    /\ \A u \in Listed(s) : c[u] # 0 => u \in Listed(l.list)
    /\ l.atEnd \in BOOLEAN
    /\ IF l.atEnd THEN \A k \in 1..Len(l.list) : l.list[k].refcount # 0
       ELSE Len(l.list) <= Len(s) - n

LEMMA OneTurn ==
    ASSUME NEW s, Good(s), NEW c, Counts(s, c), NEW f, NEW n \in Nat, n # 0,
           AfterTurns(s, c, f[n - 1], n - 1)
    PROVE  AfterTurns(s, c, Turn(s, f, n), n)
<1> DEFINE l == f[n - 1].list
           k == FirstUnused(l)
<1>1. Good(l) /\ Counts(l, c) /\ l \in Seq(Entries) /\ Len(l) \in Nat /\ Len(s) \in Nat
  BY DEF AfterTurns, Good
<1>2. CASE f[n - 1].atEnd \/ k = 0
  <2>1. Turn(s, f, n) = [list |-> l, atEnd |-> TRUE]
    BY <1>2 DEF Turn
  <2>2. \A j \in 1..Len(l) : l[j].refcount # 0
    BY <1>1, <1>2, FirstUnusedIs DEF AfterTurns
  <2> QED
    BY <2>1, <2>2 DEF AfterTurns
<1>3. CASE ~(f[n - 1].atEnd \/ k = 0)
  <2> DEFINE r == Gc!RemoveAt(l, k)
             last == k = Len(l)
  <2>1. Turn(s, f, n) = [list |-> r, atEnd |-> last]
    BY <1>3 DEF Turn
  <2>2. /\ k \in 1..Len(l) /\ l[k].refcount = 0
        /\ \A j \in 1..Len(l) : l[j].refcount = 0 => k <= j
    BY <1>1, <1>3, FirstUnusedIs
  <2>3. /\ Good(r) /\ Counts(r, c) /\ Len(r) = Len(l) - 1
        /\ Listed(r) = Listed(l) \ {l[k].memPtr}
        /\ \A i \in 1..(Len(l) - 1) : r[i] = IF i < k THEN l[i] ELSE l[i + 1]
    <3> HIDE DEF l, k
    <3> QED
      BY <1>1, <2>2, TakenOut
  <2>4. c[l[k].memPtr] = 0
    BY <1>1, <2>2 DEF Counts
  <2> HIDE DEF l, k, r
  <2>5. last => \A j \in 1..Len(r) : r[j].refcount # 0
    <3> SUFFICES ASSUME k = Len(l), NEW j \in 1..Len(r) PROVE r[j].refcount # 0
      OBVIOUS
    <3>1. j \in 1..Len(l) /\ j \in 1..(Len(l) - 1) /\ j < k
      BY <1>1, <2>2, <2>3
    <3> QED
      BY <1>1, <2>2, <2>3, <3>1
  <2>6. Len(r) <= Len(s) - n
    BY <1>1, <1>3, <2>3 DEF AfterTurns, l
  <2>7. /\ Listed(r) \subseteq Listed(s)
        /\ \A u \in Listed(s) : c[u] # 0 => u \in Listed(r)
    BY <2>3, <2>4 DEF AfterTurns, l
  <2>8. last \in BOOLEAN
    OBVIOUS
  <2> HIDE DEF last
  <2>9. Turn(s, f, n).list = r /\ Turn(s, f, n).atEnd = last
    BY <2>1
  <2> QED
    BY <2>3, <2>5, <2>6, <2>7, <2>8, <2>9 DEF AfterTurns
<1> QED
  BY <1>2, <1>3

\* collect() leaves what is used and nothing else.
LEMMA CollectIs ==
    ASSUME NEW s, Good(s), NEW c, Counts(s, c)
    PROVE  /\ Good(Gc!collect(s)) /\ Counts(Gc!collect(s), c)
           /\ Listed(Gc!collect(s)) = {u \in Listed(s) : c[u] # 0}
<1>1. s \in Seq(Entries) /\ Len(s) \in Nat
  BY DEF Good
<1> DEFINE f == Loop(s)
           T == {n \in 0..Len(s) : ~AfterTurns(s, c, f[n], n)}
<1>2. \A n \in 0..Len(s) : f[n] = Turn(s, f, n)
  BY LoopTurns
<1> HIDE DEF f
<1>3. AfterTurns(s, c, f[0], 0)
  <2>1. 0 \in 0..Len(s)
    BY <1>1
  <2>2. f[0] = [list |-> s, atEnd |-> FALSE]
    BY <1>2, <2>1 DEF Turn
  <2> QED
    BY <1>1, <2>2 DEF AfterTurns
<1>4. T = {}
  <2> SUFFICES ASSUME T # {} PROVE FALSE
    OBVIOUS
  <2>1. PICK n \in T : \A i \in T : n <= i
    <3>1. T \in SUBSET Nat
      BY <1>1
    <3> HIDE DEF T
    <3> QED
      BY <3>1, LeastIs
  <2>2. n \in Nat /\ n # 0 /\ n \in 0..Len(s) /\ n - 1 \in 0..Len(s) /\ ~(n <= n - 1)
    BY <1>1, <1>3, <2>1
  <2>3. AfterTurns(s, c, f[n - 1], n - 1)
    BY <2>1, <2>2
  <2>4. AfterTurns(s, c, f[n], n)
    BY <1>2, <2>2, <2>3, OneTurn
  <2> QED
    BY <2>1, <2>4
<1>5. Len(s) \in 0..Len(s) /\ AfterTurns(s, c, f[Len(s)], Len(s))
  BY <1>1, <1>4
<1> DEFINE r == f[Len(s)].list
<1>6. Gc!collect(s) = r
  BY CollectIsLoop DEF f
<1>7. \A k \in 1..Len(r) : r[k].refcount # 0
  <2>1. Len(r) \in Nat
    BY <1>5 DEF AfterTurns, Good
  <2>2. ~f[Len(s)].atEnd => Len(r) <= 0
    BY <1>1, <1>5 DEF AfterTurns
  <2> QED
    BY <1>5, <2>1, <2>2 DEF AfterTurns
<1>8. Good(r) /\ Counts(r, c) /\ Listed(r) \subseteq Listed(s)
      /\ \A u \in Listed(s) : c[u] # 0 => u \in Listed(r)
  BY <1>5 DEF AfterTurns
<1>9. \A u \in Listed(r) : c[u] # 0
  BY <1>7, <1>8 DEF Listed, Counts
<1> QED
  BY <1>6, <1>8, <1>9

-----------------------------------------------------------------------------
\* How many of the pointers hold each address.
Holders(a, u) == {p \in Pointers : a[p] = u}
Number(a) == [u \in Addresses |-> Cardinality(Holders(a, u))]
Variables == [Pointers -> Addresses \cup {"none"}]

LEMMA AddressNames == "none" \notin Addresses /\ Null \in Addresses /\ IsFiniteSet(Pointers)
                      /\ Null \notin Blocks /\ Size \in Nat
  BY ObjectsAssumption DEF ObjectsAssumption, Addresses

LEMMA NumberIs ==
    ASSUME NEW a
    PROVE  /\ Number(a) \in [Addresses -> Nat]
           /\ \A u : IsFiniteSet(Holders(a, u)) /\ Cardinality(Holders(a, u)) \in Nat
           /\ \A u \in Addresses : Number(a)[u] = Cardinality(Holders(a, u))
<1>1. \A u : IsFiniteSet(Holders(a, u))
  <2> SUFFICES ASSUME NEW u PROVE IsFiniteSet(Holders(a, u))
    OBVIOUS
  <2>1. Holders(a, u) \subseteq Pointers /\ IsFiniteSet(Pointers)
    BY AddressNames DEF Holders
  <2> QED
    BY <2>1, FS_Subset
<1>2. \A u : Cardinality(Holders(a, u)) \in Nat
  BY <1>1, FS_CardinalityType
<1> QED
  BY <1>1, <1>2 DEF Number

\* A pointer that holds nothing takes an address.
LEMMA NumberTaken ==
    ASSUME NEW a \in Variables, NEW p \in Pointers, a[p] = "none", NEW t \in Addresses
    PROVE  Number([a EXCEPT ![p] = t]) = [Number(a) EXCEPT ![t] = @ + 1]
<1> DEFINE b == [a EXCEPT ![p] = t]
<1>1. b[p] = t /\ \A q \in Pointers : q # p => b[q] = a[q]
  BY DEF Variables
<1> HIDE DEF b
<1>2. Holders(b, t) = Holders(a, t) \cup {p} /\ p \notin Holders(a, t)
  BY <1>1, AddressNames DEF Holders
<1>3. \A u \in Addresses : u # t => Holders(b, u) = Holders(a, u)
  BY <1>1, AddressNames DEF Holders
<1>4. Cardinality(Holders(b, t)) = Cardinality(Holders(a, t)) + 1
  <2>1. IsFiniteSet(Holders(a, t))
    BY NumberIs
  <2> QED
    BY <1>2, <2>1, FS_AddElement
<1>5. \A u \in Addresses : Number(b)[u] = [Number(a) EXCEPT ![t] = @ + 1][u]
  BY <1>3, <1>4, NumberIs
<1>6. Number(b) \in [Addresses -> Nat] /\ [Number(a) EXCEPT ![t] = @ + 1] \in [Addresses -> Nat]
  BY NumberIs
<1> QED
  BY <1>5, <1>6 DEF b

\* A pointer lets its address go.
LEMMA NumberDropped ==
    ASSUME NEW a \in Variables, NEW p \in Pointers, NEW s \in Addresses, a[p] = s
    PROVE  /\ Number([a EXCEPT ![p] = "none"]) = [Number(a) EXCEPT ![s] = @ - 1]
           /\ Number(a)[s] > 0
<1> DEFINE b == [a EXCEPT ![p] = "none"]
<1>1. b[p] = "none" /\ \A q \in Pointers : q # p => b[q] = a[q]
  BY DEF Variables
<1> HIDE DEF b
<1>2. Holders(b, s) = Holders(a, s) \ {p} /\ p \in Holders(a, s)
  BY <1>1, AddressNames DEF Holders
<1>3. \A u \in Addresses : u # s => Holders(b, u) = Holders(a, u)
  BY <1>1, AddressNames DEF Holders
<1>4. Cardinality(Holders(b, s)) = Cardinality(Holders(a, s)) - 1
  <2>1. IsFiniteSet(Holders(a, s))
    BY NumberIs
  <2> QED
    BY <1>2, <2>1, FS_RemoveElement
<1>5. Number(a)[s] > 0
  BY <1>4, NumberIs
<1>6. \A u \in Addresses : Number(b)[u] = [Number(a) EXCEPT ![s] = @ - 1][u]
  BY <1>3, <1>4, NumberIs
<1>7. Number(b) \in [Addresses -> Nat] /\ [Number(a) EXCEPT ![s] = @ - 1] \in [Addresses -> Nat]
  BY <1>5, NumberIs
<1> QED
  BY <1>5, <1>6, <1>7 DEF b

\* The list has every address a pointer holds, and the number of its holders; what
\* is listed is what is allocated.
GcInv ==
    /\ addr \in Variables
    /\ Good(gclist) /\ Counts(gclist, Number(addr))
    /\ \A p \in Pointers : addr[p] # "none" => addr[p] \in Listed(gclist)
    /\ live = Listed(gclist) \ {Null}
    /\ ended => live = {}
    /\ it \in [on : Addresses \cup {"none"}, ptr : Int, end : Int] /\ it.end <= Gc!Extent

LEMMA GcInit == Gc!Init => GcInv
<1> SUFFICES ASSUME Gc!Init PROVE GcInv
  OBVIOUS
<1>1. gclist = <<>> /\ Len(gclist) = 0 /\ Listed(gclist) = {} /\ gclist \in Seq(Entries)
  BY DEF Gc!Init, Listed
<1>2. Good(gclist) /\ Counts(gclist, Number(addr))
  BY <1>1, NumberIs DEF Good, Counts
<1>3. it \in [on : Addresses \cup {"none"}, ptr : Int, end : Int] /\ it.end <= Gc!Extent
  BY AddressNames DEF Gc!Init, Gc!NoIter, Gc!Extent
<1>4. addr \in Variables
  BY DEF Gc!Init, Gc!None, Variables
<1> QED
  BY <1>1, <1>2, <1>3, <1>4 DEF Gc!Init, Gc!None, GcInv

LEMMA GcStutter == GcInv /\ UNCHANGED gcVars => GcInv'
  BY DEF gcVars, GcInv, Gc!Extent

\* A listed address that no pointer holds is not counted.
LEMMA NotListed ==
    ASSUME GcInv, NEW t \in Addresses, t \notin Listed(gclist)
    PROVE  Number(addr)[t] = 0
<1>1. Holders(addr, t) = {}
  BY AddressNames DEF GcInv, Holders
<1> QED
  BY <1>1, NumberIs, FS_EmptySet

\* A pointer comes to hold t, and the list counts it.
LEMMA GcPoints ==
    ASSUME GcInv, NEW p \in Pointers, NEW t \in Addresses, NEW s, Good(s), NEW c, Counts(s, c),
           Listed(s) = Listed(gclist), t \notin Listed(s) => c[t] = 0,
           Number([addr EXCEPT ![p] = t]) = [c EXCEPT ![t] = @ + 1], ~ended,
           Gc!Points(p, t, Gc!Count(s, t))
    PROVE  GcInv'
<1>1. /\ gclist' = Gc!Count(s, t) /\ addr' = [addr EXCEPT ![p] = t]
      /\ live' = (live \cup {t}) \ {Null} /\ it' = it /\ ended' = ended
  BY DEF Gc!Points
<1>2. /\ Good(gclist') /\ Listed(gclist') = Listed(gclist) \cup {t}
      /\ Counts(gclist', Number(addr'))
  BY <1>1, CountIs
<1>3. addr' \in Variables
  BY <1>1 DEF GcInv, Variables
<1>4. \A q \in Pointers : addr'[q] # "none" => addr'[q] \in Listed(gclist')
  BY <1>1, <1>2 DEF GcInv, Variables
<1>5. live' = Listed(gclist') \ {Null}
  BY <1>1, <1>2 DEF GcInv
<1> QED
  BY <1>1, <1>2, <1>3, <1>4, <1>5 DEF GcInv, Gc!Extent

LEMMA GcPlainIs == GcInv => Gc!Plain \subseteq Addresses
<1> SUFFICES ASSUME GcInv, NEW t \in Gc!Plain PROVE t \in Addresses
  OBVIOUS
<1>1. \A k \in 1..Len(gclist) : gclist[k].memPtr \in Addresses
  BY EntriesAre DEF GcInv, Good
<1>2. DOMAIN gclist = 1..Len(gclist)
  BY DEF GcInv, Good
<1> QED
  BY <1>1, <1>2 DEF Gc!Plain, Gc!Range, Addresses

\* A new pointer.
LEMMA GcConstruct ==
    ASSUME GcInv, NEW p \in Pointers, NEW t \in Addresses, addr[p] = "none", ~ended,
           Gc!Points(p, t, Gc!Count(gclist, t))
    PROVE  GcInv'
<1>1. Good(gclist) /\ Counts(gclist, Number(addr)) /\ addr \in Variables
  BY DEF GcInv
<1>2. t \notin Listed(gclist) => Number(addr)[t] = 0
  BY NotListed
<1>3. Number([addr EXCEPT ![p] = t]) = [Number(addr) EXCEPT ![t] = @ + 1]
  BY <1>1, NumberTaken
<1> QED
  BY <1>1, <1>2, <1>3, GcPoints

\* A pointer that is assigned to, itself included.
LEMMA GcAssign ==
    ASSUME GcInv, NEW p \in Pointers, NEW t \in Addresses, addr[p] # "none", ~ended,
           Gc!Points(p, t, Gc!Count(Gc!Discount(gclist, addr[p]), t))
    PROVE  GcInv'
<1> DEFINE u == addr[p]
           b == [addr EXCEPT ![p] = "none"]
           s == Gc!Discount(gclist, u)
           c == [Number(addr) EXCEPT ![u] = @ - 1]
<1>1. /\ Good(gclist) /\ Counts(gclist, Number(addr)) /\ addr \in Variables
      /\ u \in Addresses /\ u \in Listed(gclist)
  BY DEF GcInv, Variables
<1>2. Number(b) = c /\ Number(addr)[u] > 0
  BY <1>1, NumberDropped
<1>3. Good(s) /\ Listed(s) = Listed(gclist) /\ Counts(s, c)
  <2> HIDE DEF u
  <2> QED
    BY <1>1, <1>2, DiscountIs
<1>4. t \notin Listed(s) => c[t] = 0
  <2> SUFFICES ASSUME t \notin Listed(s) PROVE c[t] = 0
    OBVIOUS
  <2>1. t # u /\ Number(addr)[t] = 0
    BY <1>1, <1>3, NotListed
  <2> QED
    BY <2>1, NumberIs
<1>5. Number([addr EXCEPT ![p] = t]) = [c EXCEPT ![t] = @ + 1]
  <2>1. b \in Variables /\ b[p] = "none" /\ [b EXCEPT ![p] = t] = [addr EXCEPT ![p] = t]
    BY <1>1 DEF Variables
  <2> HIDE DEF b, c
  <2> QED
    BY <1>2, <2>1, NumberTaken
<1> HIDE DEF c
<1>6. Gc!Points(p, t, Gc!Count(s, t))
  OBVIOUS
<1> HIDE DEF s
<1> QED
  BY <1>3, <1>4, <1>5, <1>6, GcPoints

\* Collecting a list that counts the pointers there are from now on.
LEMMA GcCollected ==
    ASSUME GcInv, NEW s, Good(s), Listed(s) = Listed(gclist), Counts(s, Number(addr')),
           addr' \in Variables, Gc!Collected(s),
           \A p \in Pointers : addr'[p] # "none" => addr'[p] \in Listed(gclist)
    PROVE  /\ Good(gclist') /\ Counts(gclist', Number(addr'))
           /\ \A p \in Pointers : addr'[p] # "none" => addr'[p] \in Listed(gclist')
           /\ live' = Listed(gclist') \ {Null}
           /\ \A t \in live' : \E q \in Pointers : addr'[q] = t
           /\ (\A p \in Pointers : addr'[p] = "none") => live' = {}
<1> DEFINE r == Gc!collect(s)
           c == Number(addr')
<1>1. Good(r) /\ Counts(r, c) /\ Listed(r) = {u \in Listed(s) : c[u] # 0}
  <2>1. Counts(s, c)
    OBVIOUS
  <2> HIDE DEF c
  <2> QED
    BY <2>1, CollectIs
<1>2. /\ {e.memPtr : e \in Gc!Range(s)} = Listed(s)
      /\ {e.memPtr : e \in Gc!Range(r)} = Listed(r)
  <2>1. \A l : Good(l) => {e.memPtr : e \in Gc!Range(l)} = Listed(l)
    <3> SUFFICES ASSUME NEW l, Good(l) PROVE {e.memPtr : e \in Gc!Range(l)} = Listed(l)
      OBVIOUS
    <3>1. DOMAIN l = 1..Len(l)
      BY DEF Good
    <3> QED
      BY <3>1 DEF Gc!Range, Listed
  <2> HIDE DEF r
  <2> QED
    BY <1>1, <2>1
<1>3. gclist' = r /\ live' = live \ (Listed(s) \ Listed(r))
  BY <1>2 DEF Gc!Collected
<1> HIDE DEF r
<1>4. Listed(s) \subseteq Addresses
  BY EntriesAre DEF Good, Listed
<1>5. ASSUME NEW u \in Addresses PROVE c[u] # 0 <=> \E p \in Pointers : addr'[p] = u
  <2>1. c[u] = Cardinality(Holders(addr', u)) /\ IsFiniteSet(Holders(addr', u))
    BY NumberIs
  <2>2. Cardinality(Holders(addr', u)) = 0 <=> Holders(addr', u) = {}
    BY <2>1, FS_EmptySet
  <2> QED
    BY <2>1, <2>2 DEF Holders
<1> HIDE DEF c
<1>6. live' = Listed(gclist') \ {Null}
  BY <1>1, <1>3 DEF GcInv
<1>7. \A p \in Pointers : addr'[p] # "none" => addr'[p] \in Listed(gclist')
  BY <1>1, <1>3, <1>4, <1>5
<1>8. \A t \in live' : \E q \in Pointers : addr'[q] = t
  BY <1>1, <1>3, <1>4, <1>5, <1>6
<1>9. (\A p \in Pointers : addr'[p] = "none") => live' = {}
  <2> SUFFICES ASSUME \A p \in Pointers : addr'[p] = "none", NEW t \in live' PROVE FALSE
    OBVIOUS
  <2>1. t \in Addresses
    BY <1>1, <1>3, <1>4, <1>6
  <2> QED
    BY <1>8, <2>1, AddressNames
<1> QED
  BY <1>1, <1>3, <1>6, <1>7, <1>8, <1>9 DEF c

\* What a destructor, a collection and the exit do to the list, and that nothing is
\* left behind.
Clean == \A t \in live' : \E q \in Pointers : addr'[q] = t

LEMMA GcDestroy == ASSUME GcInv, NEW p \in Pointers, Gc!Destroy(p) PROVE GcInv' /\ Clean
<1> DEFINE u == addr[p]
           s == Gc!Discount(gclist, u)
           c == [Number(addr) EXCEPT ![u] = @ - 1]
<1>1. /\ Good(gclist) /\ Counts(gclist, Number(addr)) /\ addr \in Variables
      /\ u # "none" /\ u \in Addresses /\ u \in Listed(gclist) /\ ~ended
  BY DEF GcInv, Variables, Gc!Destroy, Gc!Alive, Gc!None
<1>2. addr' = [addr EXCEPT ![p] = "none"] /\ it' = it /\ ended' = ended
  BY DEF Gc!Destroy, Gc!None
<1>3. Number(addr') = c /\ Number(addr)[u] > 0
  BY <1>1, <1>2, NumberDropped
<1>4. gclist[Gc!findPtrInfo(gclist, u)].refcount > 0
  <2> HIDE DEF u
  <2> QED
    BY <1>1, <1>3, FindIs DEF Counts
<1>5. Gc!Collected(s)
  BY <1>4 DEF Gc!Destroy
<1>6. Good(s) /\ Listed(s) = Listed(gclist) /\ Counts(s, Number(addr'))
  <2>1. Good(s) /\ Listed(s) = Listed(gclist) /\ Counts(s, c)
    <3> HIDE DEF u
    <3> QED
      BY <1>1, <1>3, DiscountIs
  <2> QED
    BY <1>3, <2>1
<1>7. /\ addr' \in Variables
      /\ \A q \in Pointers : addr'[q] # "none" => addr'[q] \in Listed(gclist)
  BY <1>1, <1>2 DEF GcInv, Variables
<1> HIDE DEF s
<1>8. /\ Good(gclist') /\ Counts(gclist', Number(addr'))
      /\ \A q \in Pointers : addr'[q] # "none" => addr'[q] \in Listed(gclist')
      /\ live' = Listed(gclist') \ {Null} /\ Clean
  BY <1>5, <1>6, <1>7, GcCollected DEF Clean
<1> QED
  BY <1>1, <1>2, <1>7, <1>8 DEF GcInv, Gc!Extent

LEMMA GcCollect == ASSUME GcInv, Gc!Collect PROVE GcInv'
<1>1. /\ Good(gclist) /\ Counts(gclist, Number(addr)) /\ addr \in Variables
      /\ addr' = addr /\ it' = it /\ ended' = ended /\ ~ended /\ Gc!Collected(gclist)
      /\ \A q \in Pointers : addr[q] # "none" => addr[q] \in Listed(gclist)
  BY DEF GcInv, Gc!Collect
<1>2. Counts(gclist, Number(addr')) /\ addr' \in Variables
      /\ \A q \in Pointers : addr'[q] # "none" => addr'[q] \in Listed(gclist)
  BY <1>1
<1>3. /\ Good(gclist') /\ Counts(gclist', Number(addr'))
      /\ \A q \in Pointers : addr'[q] # "none" => addr'[q] \in Listed(gclist')
      /\ live' = Listed(gclist') \ {Null}
  BY <1>1, <1>2, GcCollected
<1> QED
  BY <1>1, <1>2, <1>3 DEF GcInv, Gc!Extent

LEMMA GcShutdown == ASSUME GcInv, Gc!Shutdown PROVE GcInv' /\ Clean
<1> DEFINE s == [k \in DOMAIN gclist |-> [gclist[k] EXCEPT !.refcount = 0]]
<1>1. /\ gclist \in Seq(Entries) /\ Len(gclist) \in Nat /\ DOMAIN gclist = 1..Len(gclist)
      /\ \A j, k \in 1..Len(gclist) : gclist[j].memPtr = gclist[k].memPtr => j = k
  BY DEF GcInv, Good
<1>2. /\ ended' = TRUE /\ Gc!Collected(s) /\ addr' = [p \in Pointers |-> "none"]
      /\ it' = [on |-> Null, ptr |-> 0, end |-> 0]
  BY DEF Gc!Shutdown, Gc!None, Gc!NoIter
<1>3. \A k \in 1..Len(gclist) : /\ [gclist[k] EXCEPT !.refcount = 0] \in Entries
                               /\ [gclist[k] EXCEPT !.refcount = 0].memPtr = gclist[k].memPtr
                               /\ [gclist[k] EXCEPT !.refcount = 0].refcount = 0
  <2>1. \A k \in 1..Len(gclist) : gclist[k] \in Entries
    BY <1>1
  <2> QED
    BY <2>1 DEF Entries
<1>4. /\ s \in Seq(Entries) /\ Len(s) = Len(gclist)
      /\ \A k \in 1..Len(gclist) : s[k].memPtr = gclist[k].memPtr /\ s[k].refcount = 0
  <2>1. s = [k \in 1..Len(gclist) |-> [gclist[k] EXCEPT !.refcount = 0]]
    BY <1>1
  <2> HIDE DEF s
  <2>2. s \in [1..Len(gclist) -> Entries]
    BY <1>3, <2>1
  <2>3. s \in Seq(Entries) /\ Len(s) = Len(gclist)
    BY <1>1, <2>2
  <2> QED
    BY <1>3, <2>1, <2>3
<1> HIDE DEF s
<1>5. Good(s) /\ Listed(s) = Listed(gclist)
  BY <1>1, <1>4 DEF Good, Listed
<1>6. \A u \in Addresses : Number(addr')[u] = 0
  <2> SUFFICES ASSUME NEW u \in Addresses PROVE Number(addr')[u] = 0
    OBVIOUS
  <2>1. Holders(addr', u) = {}
    BY <1>2, AddressNames DEF Holders
  <2> QED
    BY <2>1, NumberIs, FS_EmptySet
<1>7. Counts(s, Number(addr'))
  <2>1. \A k \in 1..Len(s) : s[k].memPtr \in Addresses
    BY <1>4, EntriesAre
  <2> QED
    BY <1>4, <1>6, <2>1, NumberIs DEF Counts
<1>8. addr' \in Variables /\ \A p \in Pointers : addr'[p] = "none"
  BY <1>2 DEF Variables
<1>9. /\ Good(gclist') /\ Counts(gclist', Number(addr'))
      /\ \A q \in Pointers : addr'[q] # "none" => addr'[q] \in Listed(gclist')
      /\ live' = Listed(gclist') \ {Null} /\ live' = {} /\ Clean
  BY <1>2, <1>5, <1>7, <1>8, GcCollected DEF Clean
<1>10. it' \in [on : Addresses \cup {"none"}, ptr : Int, end : Int] /\ it'.end <= Gc!Extent
  BY <1>2, AddressNames DEF Gc!Extent
<1> QED
  BY <1>8, <1>9, <1>10 DEF GcInv, Gc!Extent

LEMMA GcIterate == ASSUME GcInv, Gc!Iterate PROVE GcInv'
<1>1. gclist' = gclist /\ addr' = addr /\ live' = live /\ ended' = ended
  BY DEF Gc!Iterate
<1>2. it' \in [on : Addresses \cup {"none"}, ptr : Int, end : Int] /\ it'.end <= Gc!Extent
  <2>0. Gc!Extent \in Int /\ Size <= Gc!Extent /\ Size \in Int
    BY AddressNames DEF Gc!Extent
  <2>1. ASSUME NEW p \in Pointers, Gc!Begin(p) \/ Gc!End(p)
        PROVE  it' \in [on : Addresses \cup {"none"}, ptr : Int, end : Int] /\ it'.end <= Gc!Extent
    <3>1. addr[p] \in Addresses \cup {"none"}
      BY DEF GcInv, Variables
    <3> QED
      BY <2>0, <2>1, <3>1 DEF Gc!Begin, Gc!End
  <2>2. ASSUME NEW n \in {-1, 1}, Gc!Advance(n)
        PROVE  it' \in [on : Addresses \cup {"none"}, ptr : Int, end : Int] /\ it'.end <= Gc!Extent
    BY <2>2 DEF Gc!Advance, GcInv
  <2> QED
    BY <2>1, <2>2 DEF Gc!Iterate
<1> QED
  BY <1>1, <1>2 DEF GcInv, Gc!Extent

LEMMA GcStep == ASSUME GcInv, Gc!Next PROVE GcInv'
<1>1. ASSUME NEW p \in Pointers, NEW t \in Gc!Plain, Gc!Construct(p, t) \/ Gc!AssignPlain(p, t)
      PROVE  GcInv'
  <2>1. t \in Addresses
    BY <1>1, GcPlainIs
  <2> QED
    BY <1>1, <2>1, GcConstruct, GcAssign DEF Gc!Construct, Gc!AssignPlain, Gc!Alive, Gc!None
<1>2. ASSUME NEW p \in Pointers, NEW q \in Pointers, Gc!ConstructCopy(p, q) \/ Gc!Assign(p, q)
      PROVE  GcInv'
  <2>1. addr[q] \in Addresses
    BY <1>2 DEF Gc!ConstructCopy, Gc!Assign, Gc!Alive, Gc!None, GcInv, Variables
  <2> QED
    BY <1>2, <2>1, GcConstruct, GcAssign DEF Gc!ConstructCopy, Gc!Assign, Gc!Alive, Gc!None
<1> QED
  BY <1>1, <1>2, GcDestroy, GcCollect, GcShutdown, GcIterate DEF Gc!Next

LEMMA GcMean == GcInv => Gc!CountsRight
<1> SUFFICES ASSUME GcInv PROVE Gc!CountsRight
  OBVIOUS
<1>1. /\ DOMAIN gclist = 1..Len(gclist) /\ Good(gclist) /\ Counts(gclist, Number(addr))
      /\ \A k \in 1..Len(gclist) : gclist[k].memPtr \in Addresses
  BY EntriesAre DEF GcInv, Good
<1>2. \A t : Gc!References(t) = Cardinality(Holders(addr, t))
  <2>1. \A S : Gc!Cardinality(S) = Cardinality(S)
    BY DEF Gc!Cardinality, Cardinality
  <2> QED
    BY <2>1 DEF Gc!References, Holders
<1>3. \A k \in 1..Len(gclist) : gclist[k].refcount = Gc!References(gclist[k].memPtr)
  BY <1>1, <1>2, NumberIs DEF Counts
<1>4. ASSUME NEW p \in Pointers, addr[p] # "none"
      PROVE  Gc!findPtrInfo(gclist, addr[p]) # 0 /\ addr[p] \in live \cup {Null}
  <2>1. addr[p] \in Listed(gclist) /\ live = Listed(gclist) \ {Null}
    BY <1>4 DEF GcInv
  <2>2. Gc!findPtrInfo(gclist, addr[p]) \in 1..Len(gclist)
    BY <1>1, <2>1, FindIs
  <2> QED
    BY <2>1, <2>2
<1>5. it.on # Null /\ Gc!Deref(it) = "element" => it.ptr \in 0..(Gc!Extent - 1)
  <2>1. it.ptr \in Int /\ it.end \in Int /\ it.end <= Gc!Extent /\ Gc!Extent \in Int
    BY AddressNames DEF GcInv, Gc!Extent
  <2> QED
    BY <2>1 DEF Gc!Deref
<1>6. ASSUME it.on # Null, NEW n \in -1..Gc!Extent, Gc!At(it, n) = "element"
      PROVE  it.ptr # 0 \/ it.ptr + n \in 0..(Gc!Extent - 1)
  <2>1. it.ptr \in Int /\ it.end \in Int /\ it.end <= Gc!Extent /\ Gc!Extent \in Int
    BY AddressNames DEF GcInv, Gc!Extent
  <2>2. n \in Int /\ ~(n < 0) /\ ~(n >= it.end)
    BY <1>6, <2>1 DEF Gc!At
  <2> QED
    BY <2>1, <2>2
<1>7. live = {gclist[k].memPtr : k \in 1..Len(gclist)} \ {Null} /\ (ended => live = {})
  BY DEF GcInv, Listed
<1>8. \A j, k \in 1..Len(gclist) : gclist[j].memPtr = gclist[k].memPtr => j = k
  BY <1>1 DEF Good
<1> QED
  BY <1>1, <1>3, <1>4, <1>5, <1>6, <1>7, <1>8 DEF Gc!CountsRight, Gc!None

THEOREM GcInductive == Spec => []GcInv
<1>1. Init => GcInv
  BY GcInit DEF Init
<1>2. GcInv /\ [Next]_vars => GcInv'
  <2> SUFFICES ASSUME GcInv, [Next]_vars PROVE GcInv'
    OBVIOUS
  <2>1. UNCHANGED gcVars \/ Gc!Next
    BY DEF Next, vars
  <2> QED
    BY <2>1, GcStutter, GcStep
<1> QED
  BY <1>1, <1>2, PTL DEF Spec

\* For every set of pointers, of addresses and of Strings, with an array size or
\* without: counts, list and allocated memory agree with the pointers there are
\* (GCPtr), and a buffer has one owner (String).
THEOREM MemoryHolds == Spec => []MemoryOwned
<1>1. GcInv /\ StringsInv => MemoryOwned
  BY GcMean, StringsMean DEF MemoryOwned
<1> QED
  BY <1>1, GcInductive, StringsInductive, PTL

\* For every set of pointers and addresses: a destructor, and the exit, leave no
\* memory behind that nobody points to.
THEOREM GarbageCollected == Spec => GarbageGoes
<1>1. GcInv /\ [Next]_vars =>
        [\A p \in Pointers : addr[p] # Gc!None /\ addr'[p] = Gc!None =>
            \A t \in live' : \E q \in Pointers : addr'[q] = t]_(Gc!vars)
  <2> SUFFICES ASSUME GcInv, [Next]_vars,
                      NEW p \in Pointers, addr[p] # "none", addr'[p] = "none"
               PROVE  Clean
    BY DEF Clean, Gc!None
  <2>1. addr' # addr /\ Gc!Next
    BY DEF Next, vars, gcVars
  <2>2. ASSUME NEW q \in Pointers, Gc!Destroy(q) PROVE Clean
    BY <2>2, GcDestroy
  <2>3. ASSUME Gc!Shutdown PROVE Clean
    BY <2>3, GcShutdown
  <2>4. ASSUME NEW q \in Pointers, NEW t \in Addresses, NEW l, Gc!Points(q, t, l) PROVE FALSE
    BY <2>4, AddressNames DEF Gc!Points, GcInv, Variables
  <2>5. ASSUME NEW q \in Pointers, NEW t \in Gc!Plain, Gc!Construct(q, t) \/ Gc!AssignPlain(q, t)
        PROVE  FALSE
    BY <2>4, <2>5, GcPlainIs DEF Gc!Construct, Gc!AssignPlain
  <2>6. ASSUME NEW q \in Pointers, NEW r \in Pointers, Gc!ConstructCopy(q, r) \/ Gc!Assign(q, r)
        PROVE  FALSE
    <3>1. addr[r] \in Addresses
      BY <2>6 DEF Gc!ConstructCopy, Gc!Assign, Gc!Alive, Gc!None, GcInv, Variables
    <3> QED
      BY <2>4, <2>6, <3>1 DEF Gc!ConstructCopy, Gc!Assign
  <2>7. ~Gc!Collect /\ ~Gc!Iterate
    BY <2>1 DEF Gc!Collect, Gc!Iterate
  <2> QED
    BY <2>1, <2>2, <2>3, <2>5, <2>6, <2>7 DEF Gc!Next
<1> QED
  BY <1>1, GcInductive, PTL DEF Spec, GarbageGoes, Gc!GarbageGoes

-----------------------------------------------------------------------------
(* The packets.  A definition by recursion has a solution: here one whose  *)
(* value at n is given (n in base) or comes from that at a smaller number  *)
(* (down).                                                                 *)

Recurs(f, base, first, down, next, n) ==
    f[n] = IF n \in base THEN first[n] ELSE next[<<n, f[down[n]]>>]
RecursTo(f, base, first, down, next, m) == \A n \in 0..m : Recurs(f, base, first, down, next, n)

LEMMA RecursionTo ==
    ASSUME NEW Y, NEW base, NEW first \in [Nat -> Y], NEW down \in [Nat -> Nat],
           NEW next \in [Nat \X Y -> Y],
           \A n \in Nat : n \notin base => down[n] < n,
           NEW m \in Nat
    PROVE  \E f \in [Nat -> Y] : RecursTo(f, base, first, down, next, m)
<1> DEFINE Solved(k) == \E f \in [Nat -> Y] : RecursTo(f, base, first, down, next, k)
           T == {k \in Nat : ~Solved(k)}
<1> SUFFICES ASSUME T # {} PROVE FALSE
  OBVIOUS
<1>1. PICK k \in T : \A i \in T : k <= i
  <2>1. T \in SUBSET Nat
    OBVIOUS
  <2> HIDE DEF T
  <2> QED
    BY <2>1, LeastOf
<1>2. \E f \in [Nat -> Y] : \A n \in 0..(k - 1) : Recurs(f, base, first, down, next, n)
  <2>1. CASE k = 0
    BY <2>1
  <2>2. CASE k # 0
    <3>1. k - 1 \in Nat /\ ~(k <= k - 1)
      BY <2>2
    <3>2. Solved(k - 1)
      BY <1>1, <3>1
    <3> QED
      BY <3>2 DEF RecursTo
  <2> QED
    BY <2>1, <2>2
<1>3. PICK f \in [Nat -> Y] : \A n \in 0..(k - 1) : Recurs(f, base, first, down, next, n)
  BY <1>2
<1> DEFINE y == IF k \in base THEN first[k] ELSE next[<<k, f[down[k]]>>]
           g == [f EXCEPT ![k] = y]
<1>4. y \in Y
  OBVIOUS
<1>5. g \in [Nat -> Y] /\ g[k] = y /\ \A n \in Nat : n # k => g[n] = f[n]
  BY <1>4
<1> HIDE DEF g
<1>6. ASSUME NEW n \in 0..k PROVE Recurs(g, base, first, down, next, n)
  <2>1. n \in Nat /\ n <= k
    OBVIOUS
  <2>2. n \notin base => g[down[n]] = f[down[n]]
    <3>1. n \notin base => down[n] \in Nat /\ down[n] < n
      BY <2>1
    <3>2. n \notin base => down[n] # k
      BY <2>1, <3>1
    <3> QED
      BY <1>5, <3>1, <3>2
  <2>3. CASE n = k
    BY <1>5, <2>2, <2>3 DEF Recurs
  <2>4. CASE n # k
    <3>1. n \in 0..(k - 1)
      BY <2>1, <2>4
    <3>2. g[n] = f[n]
      BY <1>5, <2>1, <2>4
    <3> QED
      BY <1>3, <2>2, <3>1, <3>2 DEF Recurs
  <2> QED
    BY <2>3, <2>4
<1>7. Solved(k)
  BY <1>5, <1>6 DEF RecursTo
<1> QED
  BY <1>1, <1>7

LEMMA RecursionOnce ==
    ASSUME NEW base, NEW first, NEW down \in [Nat -> Nat], NEW next,
           \A n \in Nat : n \notin base => down[n] < n,
           NEW m \in Nat, NEW f, NEW g,
           RecursTo(f, base, first, down, next, m), RecursTo(g, base, first, down, next, m)
    PROVE  \A n \in 0..m : f[n] = g[n]
<1> DEFINE T == {k \in 0..m : f[k] # g[k]}
<1> SUFFICES ASSUME T # {} PROVE FALSE
  OBVIOUS
<1>1. PICK k \in T : \A i \in T : k <= i
  <2>1. T \in SUBSET Nat
    OBVIOUS
  <2> HIDE DEF T
  <2> QED
    BY <2>1, LeastOf
<1>2. k \in 0..m /\ f[k] # g[k]
  BY <1>1
<1>3. k \notin base => f[down[k]] = g[down[k]]
  <2>1. k \notin base => down[k] \in 0..m /\ ~(k <= down[k])
    BY <1>2
  <2> QED
    BY <1>1, <2>1
<1> QED
  BY <1>2, <1>3 DEF RecursTo, Recurs

LEMMA Recursion ==
    ASSUME NEW Y, NEW base, NEW first \in [Nat -> Y], NEW down \in [Nat -> Nat],
           NEW next \in [Nat \X Y -> Y],
           \A n \in Nat : n \notin base => down[n] < n
    PROVE  \E f \in [Nat -> Y] : \A n \in Nat : Recurs(f, base, first, down, next, n)
<1> DEFINE upto(m) == CHOOSE f \in [Nat -> Y] : RecursTo(f, base, first, down, next, m)
           g == [m \in Nat |-> upto(m)[m]]
<1>1. \A m \in Nat : upto(m) \in [Nat -> Y] /\ RecursTo(upto(m), base, first, down, next, m)
  BY RecursionTo
<1> HIDE DEF upto
<1>2. ASSUME NEW n \in Nat PROVE Recurs(g, base, first, down, next, n)
  <2>1. g[n] = upto(n)[n]
    OBVIOUS
  <2>2. n \notin base => g[down[n]] = upto(n)[down[n]]
    <3> SUFFICES ASSUME n \notin base PROVE upto(down[n])[down[n]] = upto(n)[down[n]]
      OBVIOUS
    <3> DEFINE k == down[n]
    <3>1. k \in Nat /\ k < n
      OBVIOUS
    <3> HIDE DEF k
    <3>2. RecursTo(upto(k), base, first, down, next, k)
      BY <1>1, <3>1
    <3>3. RecursTo(upto(n), base, first, down, next, k)
      <4>1. \A i \in 0..k : i \in 0..n
        BY <3>1
      <4> QED
        BY <1>1, <4>1 DEF RecursTo
    <3>4. \A i \in 0..k : upto(k)[i] = upto(n)[i]
      BY <3>1, <3>2, <3>3, RecursionOnce
    <3> QED
      BY <3>1, <3>4 DEF k
  <2>3. n \in 0..n
    OBVIOUS
  <2>4. Recurs(upto(n), base, first, down, next, n)
    BY <1>1, <2>3 DEF RecursTo
  <2> QED
    BY <2>1, <2>2, <2>4 DEF Recurs
<1>3. g \in [Nat -> Y]
  BY <1>1
<1> QED
  BY <1>2, <1>3

(* Quotients and remainders.                                               *)

LEMMA DivMod ==
    ASSUME NEW x \in Nat, NEW w \in Nat \ {0}
    PROVE  /\ x \div w \in Nat /\ x % w \in Nat /\ x % w < w
           /\ x = w * (x \div w) + (x % w)
<1>1. w \in Int /\ w > 0 /\ x \in Int /\ x >= 0
  OBVIOUS
<1>2. x % w \in Nat /\ x % w < w
  BY <1>1
<1>3. x = w * (x \div w) + (x % w)
  BY <1>1
<1>4. x \div w \in Nat
  BY <1>1
<1> QED
  BY <1>2, <1>3, <1>4

LEMMA LessIsStep ==
    ASSUME NEW a \in Int, NEW b \in Int, NEW w \in Nat, a < b
    PROVE  w * a + w <= w * b
<1>1. a + 1 <= b
  OBVIOUS
<1>2. \A d \in Nat : w * d >= 0
  OBVIOUS
<1>3. b - (a + 1) \in Nat /\ b = (a + 1) + (b - (a + 1))
  BY <1>1
<1>4. w * (b - (a + 1)) >= 0
  BY <1>2, <1>3
<1>5. w * (b - (a + 1)) = w * b - (w * a + w)
  OBVIOUS
<1> QED
  BY <1>4, <1>5

LEMMA DivModOnce ==
    ASSUME NEW w \in Nat \ {0}, NEW q \in Int, NEW r \in 0..(w - 1), NEW x \in Nat, x = w * q + r
    PROVE  x \div w = q /\ x % w = r
<1> DEFINE d == x \div w
           m == x % w
<1>1. d \in Int /\ m \in Nat /\ m < w /\ x = w * d + m
  BY DivMod
<1> HIDE DEF d, m
<1>2. ~(d < q)
  <2> SUFFICES ASSUME d < q PROVE FALSE
    OBVIOUS
  <2>1. w * d + w <= w * q
    BY <1>1, LessIsStep
  <2>2. w * d \in Int /\ w * q \in Int
    BY <1>1
  <2> QED
    BY <1>1, <2>1, <2>2
<1>3. ~(q < d)
  <2> SUFFICES ASSUME q < d PROVE FALSE
    OBVIOUS
  <2>1. w * q + w <= w * d
    BY <1>1, LessIsStep
  <2>2. w * d \in Int /\ w * q \in Int
    BY <1>1
  <2> QED
    BY <1>1, <2>1, <2>2
<1>4. d = q
  BY <1>1, <1>2, <1>3
<1>5. m = r
  <2>1. w * d = w * q /\ w * d \in Int
    BY <1>1, <1>4
  <2> QED
    BY <1>1, <2>1
<1> QED
  BY <1>4, <1>5 DEF d, m

\* Shifting by two widths one after the other, and the part in between.
LEMMA TwoShifts ==
    ASSUME NEW x \in Nat, NEW a \in Nat \ {0}, NEW b \in Nat \ {0}
    PROVE  /\ a * b \in Nat \ {0}
           /\ (x \div a) \div b = x \div (a * b)
           /\ x % (a * b) = (x % a) + a * ((x \div a) % b)
<1> DEFINE q == x \div a
           r == x % a
           p == q \div b
           s == q % b
           w == a * b
<1>1. q \in Nat /\ r \in Nat /\ r < a /\ x = a * q + r
  BY DivMod
<1> HIDE DEF q, r
<1>2. p \in Nat /\ s \in Nat /\ s < b /\ q = b * p + s
  BY <1>1, DivMod
<1> HIDE DEF p, s
<1>3. w \in Nat \ {0}
  OBVIOUS
<1>4. x = w * p + (r + a * s)
  <2>1. a * q = a * (b * p) + a * s
    BY <1>2
  <2>2. a * (b * p) = w * p
    BY <1>2
  <2>3. a * s \in Nat /\ w * p \in Nat
    BY <1>2, <1>3
  <2> QED
    BY <1>1, <2>1, <2>2, <2>3
<1>5. r + a * s \in 0..(w - 1)
  <2>1. a * s + a <= a * b
    BY <1>2, LessIsStep
  <2>2. a * s \in Nat
    BY <1>2
  <2> QED
    BY <1>1, <1>3, <2>1, <2>2
<1> HIDE DEF w
<1>6. x \div w = p /\ x % w = r + a * s
  <2> DEFINE t == r + a * s
  <2>1. t \in 0..(w - 1) /\ x = w * p + t
    BY <1>4, <1>5
  <2> HIDE DEF t
  <2>2. p \in Int
    BY <1>2
  <2>3. x \div w = p /\ x % w = t
    BY <1>3, <2>1, <2>2, DivModOnce
  <2> QED
    BY <2>3 DEF t
<1> QED
  BY <1>3, <1>6 DEF q, r, p, s, w

LEMMA QuotientTwice ==
    ASSUME NEW x \in Nat, NEW a \in Nat \ {0}, NEW b \in Nat \ {0}, NEW w, w = a * b
    PROVE  (x \div a) \div b = x \div w
BY TwoShifts, Zenon

\* A quotient by more than one is smaller.
LEMMA QuotientLess ==
    ASSUME NEW v \in Nat, NEW c \in Nat, c >= 2, v >= c
    PROVE  v \div c \in Nat /\ v \div c < v
<1> DEFINE q == v \div c
<1>1. c \in Nat \ {0}
  OBVIOUS
<1>2. q \in Nat /\ v % c \in Nat /\ v = c * q + (v % c)
  BY <1>1, DivMod
<1> HIDE DEF q
<1>3. q + q <= c * q
  <2>1. q * 1 + q <= q * c
    BY <1>2, LessIsStep
  <2> QED
    BY <1>2, <2>1
<1>4. c * q \in Nat
  BY <1>2
<1>5. q < v
  BY <1>2, <1>3, <1>4
<1> QED
  BY <1>2, <1>5 DEF q

-----------------------------------------------------------------------------
(* The powers of two.                                                      *)

LEMMA PowerIs ==
    /\ Stream!Power \in [Nat -> Nat]
    /\ \A n \in Nat : Stream!Power[n] = IF n = 0 THEN 1 ELSE 2 * Stream!Power[n - 1]
<1> DEFINE base == {0}
           first == [n \in Nat |-> 1]
           down == [n \in Nat |-> IF n = 0 THEN 0 ELSE n - 1]
           next == [z \in Nat \X Nat |-> 2 * z[2]]
           Solution(f) == f = [n \in Nat |-> IF n = 0 THEN 1 ELSE 2 * f[n - 1]]
<1>1. /\ first \in [Nat -> Nat] /\ down \in [Nat -> Nat] /\ next \in [Nat \X Nat -> Nat]
      /\ \A n \in Nat : n \notin base => down[n] < n
  <2>1. first \in [Nat -> Nat] /\ down \in [Nat -> Nat] /\ \A n \in Nat : n \notin base => down[n] < n
    OBVIOUS
  <2>2. \A z \in Nat \X Nat : 2 * z[2] \in Nat
    OBVIOUS
  <2>3. next \in [Nat \X Nat -> Nat]
    BY <2>2
  <2> QED
    BY <2>1, <2>3
<1>2. \E f \in [Nat -> Nat] : \A n \in Nat : Recurs(f, base, first, down, next, n)
  <2> HIDE DEF base, first, down, next
  <2> QED
    BY <1>1, Recursion
<1>3. PICK f \in [Nat -> Nat] : \A n \in Nat : Recurs(f, base, first, down, next, n)
  BY <1>2
<1>4. \A n \in Nat : f[n] = IF n = 0 THEN 1 ELSE 2 * f[n - 1]
  <2> SUFFICES ASSUME NEW n \in Nat PROVE f[n] = IF n = 0 THEN 1 ELSE 2 * f[n - 1]
    OBVIOUS
  <2>1. f[n] = IF n \in base THEN first[n] ELSE next[<<n, f[down[n]]>>]
    BY <1>3 DEF Recurs
  <2>2. f[down[n]] \in Nat /\ <<n, f[down[n]]>> \in Nat \X Nat
    BY <1>1
  <2> QED
    BY <2>1, <2>2
<1>5. Solution(f)
  BY <1>4
<1>6. Stream!Power = CHOOSE g : Solution(g)
  BY DEF Stream!Power
<1>7. Solution(Stream!Power)
  BY <1>5, <1>6
<1> HIDE DEF Solution
<1>8. Stream!Power = [n \in Nat |-> IF n = 0 THEN 1 ELSE 2 * Stream!Power[n - 1]]
  BY <1>7 DEF Solution
<1>9. \A n \in Nat : Stream!Power[n] \in Nat
  <2> DEFINE g == Stream!Power
             T == {n \in Nat : g[n] \notin Nat}
  <2>1. \A n \in Nat : g[n] = IF n = 0 THEN 1 ELSE 2 * g[n - 1]
    BY <1>8
  <2> HIDE DEF g
  <2> SUFFICES ASSUME T # {} PROVE FALSE
    BY DEF g
  <2>2. PICK n \in T : \A i \in T : n <= i
    <3>1. T \in SUBSET Nat
      OBVIOUS
    <3> HIDE DEF T
    <3> QED
      BY <3>1, LeastOf
  <2>3. n # 0 => n - 1 \in Nat /\ ~(n <= n - 1)
    BY <2>2
  <2>4. n # 0 => g[n - 1] \in Nat
    BY <2>2, <2>3
  <2> QED
    BY <2>1, <2>2, <2>4
<1>10. Stream!Power \in [Nat -> Nat]
  BY <1>8, <1>9
<1> QED
  BY <1>8, <1>10

LEMMA PowerPositive == \A n \in Nat : Stream!Power[n] \in Nat \ {0}
<1> DEFINE T == {n \in Nat : Stream!Power[n] = 0}
<1> SUFFICES ASSUME T # {} PROVE FALSE
  BY PowerIs
<1>1. PICK n \in T : \A i \in T : n <= i
  <2>1. T \in SUBSET Nat
    OBVIOUS
  <2> HIDE DEF T
  <2> QED
    BY <2>1, LeastOf
<1>2. n # 0 => n - 1 \in Nat /\ ~(n <= n - 1)
  BY <1>1
<1>3. n # 0 => Stream!Power[n - 1] \in Nat /\ Stream!Power[n - 1] # 0
  BY <1>1, <1>2, PowerIs
<1> QED
  BY <1>1, <1>3, PowerIs

LEMMA PowerSum ==
    ASSUME NEW a \in Nat
    PROVE  \A b \in Nat : Stream!Power[a + b] = Stream!Power[a] * Stream!Power[b]
<1> DEFINE T == {b \in Nat : Stream!Power[a + b] # Stream!Power[a] * Stream!Power[b]}
<1> SUFFICES ASSUME T # {} PROVE FALSE
  OBVIOUS
<1>1. PICK b \in T : \A i \in T : b <= i
  <2>1. T \in SUBSET Nat
    OBVIOUS
  <2> HIDE DEF T
  <2> QED
    BY <2>1, LeastOf
<1>2. CASE b = 0
  <2>1. Stream!Power[b] = 1 /\ a + b = a /\ Stream!Power[a] \in Nat
    BY <1>2, PowerIs
  <2> QED
    BY <1>1, <2>1
<1>3. CASE b # 0
  <2>1. b - 1 \in Nat /\ ~(b <= b - 1) /\ a + b \in Nat /\ a + b # 0 /\ (a + b) - 1 = a + (b - 1)
    BY <1>1, <1>3
  <2>2. Stream!Power[a + (b - 1)] = Stream!Power[a] * Stream!Power[b - 1]
    BY <1>1, <2>1
  <2>3. /\ Stream!Power[a + b] = 2 * Stream!Power[a + (b - 1)]
        /\ Stream!Power[b] = 2 * Stream!Power[b - 1]
    BY <1>1, <1>3, <2>1, PowerIs
  <2>4. Stream!Power[a] \in Nat /\ Stream!Power[b - 1] \in Nat
    BY <2>1, PowerIs
  <2>5. 2 * (Stream!Power[a] * Stream!Power[b - 1]) = Stream!Power[a] * (2 * Stream!Power[b - 1])
    BY <2>4
  <2> QED
    BY <1>1, <2>2, <2>3, <2>5
<1> QED
  BY <1>2, <1>3

LEMMA PowerGrows ==
    ASSUME NEW a \in Nat, NEW b \in Nat, a <= b
    PROVE  Stream!Power[a] <= Stream!Power[b]
<1>1. b - a \in Nat /\ b = a + (b - a)
  OBVIOUS
<1> DEFINE p == Stream!Power[a]
           q == Stream!Power[b - a]
<1>2. Stream!Power[b] = p * q
  BY <1>1, PowerSum
<1>3. p \in Nat /\ q \in Nat \ {0}
  BY <1>1, PowerPositive
<1> HIDE DEF p, q
<1>4. p * 0 + p <= p * q
  BY <1>3, LessIsStep
<1>5. p * q \in Nat
  BY <1>3
<1> QED
  BY <1>2, <1>3, <1>4, <1>5 DEF p

-----------------------------------------------------------------------------
(* Lengths in groups of seven bits, here of ByteBits - 1.                  *)

Shift(k) == Stream!Power[(ByteBits - 1) * k]

LEMMA Widths ==
    /\ ByteBits \in Nat /\ IntSize \in Nat \ {0} /\ ShortSize \in Nat \ {0} /\ MaxFields \in Nat
    /\ Stream!Cont \in Nat /\ Stream!Cont >= 2
    /\ Stream!Top \in Nat /\ Stream!Top + 1 = 2 * Stream!Cont /\ Stream!Top + 1 = Stream!Power[ByteBits]
    /\ Stream!Word \in Nat \ {0}
<1>1. ByteBits \in 2..8 /\ IntSize \in 1..(ByteBits - 1) /\ ShortSize \in 1..IntSize /\ MaxFields \in Nat
  BY ObjectsAssumption DEF ObjectsAssumption
<1>2. ByteBits \in Nat /\ IntSize \in Nat \ {0} /\ ShortSize \in Nat \ {0}
  BY <1>1
<1>3. ByteBits - 1 \in Nat /\ ByteBits # 0 /\ 1 \in Nat /\ 1 <= ByteBits - 1 /\ 1 # 0 /\ 1 - 1 = 0 /\ 0 \in Nat
  BY <1>1
<1>4. Stream!Power[ByteBits] = 2 * Stream!Power[ByteBits - 1]
  BY <1>2, <1>3, PowerIs
<1>5. Stream!Power[1] = 2 /\ Stream!Power[1] <= Stream!Power[ByteBits - 1]
  <2>1. Stream!Power[0] = 1 /\ Stream!Power[1] = 2 * Stream!Power[1 - 1]
    BY <1>3, PowerIs
  <2> QED
    BY <1>3, <2>1, PowerGrows
<1>6. Stream!Power[ByteBits - 1] \in Nat /\ Stream!Power[ByteBits] \in Nat
  BY <1>2, <1>3, PowerIs
<1>7. ByteBits * IntSize \in Nat
  BY <1>2
<1>8. Stream!Word \in Nat \ {0}
  BY <1>7, PowerPositive DEF Stream!Word
<1> QED
  BY <1>1, <1>2, <1>4, <1>5, <1>6, <1>8 DEF Stream!Cont, Stream!Top

LEMMA Shifts ==
    /\ Shift(0) = 1
    /\ \A k \in Nat : Shift(k) \in Nat \ {0} /\ Shift(k + 1) = Shift(k) * Stream!Cont
    /\ \A j, k \in Nat : j <= k => Shift(j) <= Shift(k)
    /\ Stream!Word <= Shift(IntSize + 1)
<1>1. ByteBits \in 2..8 /\ IntSize \in 1..(ByteBits - 1)
  BY ObjectsAssumption DEF ObjectsAssumption
<1> DEFINE b == ByteBits - 1
<1>2. b \in Nat \ {0} /\ b * 0 = 0 /\ IntSize \in Nat /\ IntSize <= b
  BY <1>1
<1>3. \A k \in Nat : b * k \in Nat /\ b * (k + 1) = b * k + b
  BY <1>2
<1>4. Stream!Cont = Stream!Power[b]
  BY DEF Stream!Cont
<1>5. ByteBits * IntSize \in Nat /\ ByteBits * IntSize <= b * (IntSize + 1)
  <2>1. ByteBits * IntSize = b * IntSize + IntSize
    BY <1>1
  <2>2. b * IntSize \in Nat /\ b * (IntSize + 1) = b * IntSize + b
    BY <1>2, <1>3
  <2> HIDE DEF b
  <2> QED
    BY <1>2, <2>1, <2>2
<1> HIDE DEF b
<1>6. \A k \in Nat : Shift(k) = Stream!Power[b * k]
  BY DEF Shift, b
<1>7. Shift(0) = 1
  BY <1>2, <1>6, PowerIs
<1>8. ASSUME NEW k \in Nat PROVE Shift(k) \in Nat \ {0} /\ Shift(k + 1) = Shift(k) * Stream!Cont
  <2>1. Stream!Power[b * k + b] = Stream!Power[b * k] * Stream!Power[b]
    BY <1>2, <1>3, PowerSum
  <2>2. Shift(k + 1) = Stream!Power[b * k + b]
    BY <1>3, <1>6
  <2> QED
    BY <1>3, <1>4, <1>6, <2>1, <2>2, PowerPositive
<1>9. ASSUME NEW j \in Nat, NEW k \in Nat, j <= k PROVE Shift(j) <= Shift(k)
  <2>1. b * j <= b * k
    <3>1. j = k \/ j < k
      BY <1>9
    <3>2. CASE j = k
      BY <1>3, <3>2
    <3>3. CASE j < k
      <4>1. b * j + b <= b * k
        BY <1>2, <3>3, LessIsStep
      <4> QED
        BY <1>2, <1>3, <4>1
    <3> QED
      BY <3>1, <3>2, <3>3
  <2>2. b * j \in Nat /\ b * k \in Nat
    BY <1>3
  <2> QED
    BY <1>6, <2>1, <2>2, PowerGrows
<1>10. Stream!Word <= Shift(IntSize + 1)
  <2>1. b * (IntSize + 1) \in Nat /\ IntSize + 1 \in Nat
    BY <1>2, <1>3
  <2> QED
    BY <1>5, <1>6, <2>1, PowerGrows DEF Stream!Word
<1> QED
  BY <1>7, <1>8, <1>9, <1>10

LEMMA WriteIs ==
    /\ Stream!write7BitEncoded \in [Nat -> Seq(Nat)]
    /\ \A v \in Nat : Stream!write7BitEncoded[v] =
          IF v < Stream!Cont THEN <<v>>
          ELSE <<Stream!Cont + (v % Stream!Cont)>> \o Stream!write7BitEncoded[v \div Stream!Cont]
<1> DEFINE c == Stream!Cont
           base == 0..(c - 1)
           first == [v \in Nat |-> <<v>>]
           down == [v \in Nat |-> v \div c]
           next == [z \in Nat \X Seq(Nat) |-> <<c + (z[1] % c)>> \o z[2]]
           Step(f, v) == IF v < c THEN <<v>> ELSE <<c + (v % c)>> \o f[v \div c]
           Solution(f) == f = [v \in Nat |-> Step(f, v)]
<1>0. c \in Nat \ {0} /\ c >= 2
  BY Widths
<1>1. Stream!write7BitEncoded = CHOOSE f : Solution(f)
  BY DEF Stream!write7BitEncoded
<1> HIDE DEF c
<1>2. \A v \in Nat : v \div c \in Nat /\ v % c \in Nat
  BY <1>0, DivMod
<1>3. ASSUME NEW v \in Nat, v \notin base PROVE down[v] < v
  <2>1. v >= c
    BY <1>0, <1>3
  <2>2. v \div c < v
    BY <1>0, <2>1, QuotientLess
  <2> QED
    BY <2>2
<1>4. first \in [Nat -> Seq(Nat)] /\ down \in [Nat -> Nat] /\ next \in [Nat \X Seq(Nat) -> Seq(Nat)]
  <2>1. \A z \in Nat \X Seq(Nat) : <<c + (z[1] % c)>> \o z[2] \in Seq(Nat)
    <3> SUFFICES ASSUME NEW n \in Nat, NEW s \in Seq(Nat) PROVE <<c + (n % c)>> \o s \in Seq(Nat)
      OBVIOUS
    <3>1. c + (n % c) \in Nat
      BY <1>0, <1>2
    <3> QED
      BY <3>1
  <2>2. next \in [Nat \X Seq(Nat) -> Seq(Nat)]
    BY <2>1
  <2> QED
    BY <1>2, <2>2
<1>5. \E f \in [Nat -> Seq(Nat)] : \A n \in Nat : Recurs(f, base, first, down, next, n)
  <2> HIDE DEF base, first, down, next
  <2> QED
    BY <1>3, <1>4, Recursion
<1>6. PICK f \in [Nat -> Seq(Nat)] : \A n \in Nat : Recurs(f, base, first, down, next, n)
  BY <1>5
<1>7. \A v \in Nat : f[v] = Step(f, v)
  <2> SUFFICES ASSUME NEW v \in Nat PROVE f[v] = Step(f, v)
    OBVIOUS
  <2>1. f[v] = IF v \in base THEN first[v] ELSE next[<<v, f[down[v]]>>]
    BY <1>6 DEF Recurs
  <2>2. v \in base <=> v < c
    BY <1>0
  <2>3. first[v] = <<v>> /\ down[v] = v \div c /\ v \div c \in Nat
    BY <1>2
  <2>4. f[v \div c] \in Seq(Nat)
    BY <1>2
  <2>5. next[<<v, f[v \div c]>>] = <<c + (v % c)>> \o f[v \div c]
    BY <2>4
  <2> HIDE DEF base, first, down, next
  <2> QED
    BY <2>1, <2>2, <2>3, <2>5
<1>8. Solution(f)
  <2> HIDE DEF Step
  <2>1. f = [v \in Nat |-> f[v]]
    OBVIOUS
  <2> QED
    BY <1>7, <2>1
<1>9. Solution(Stream!write7BitEncoded)
  <2> HIDE DEF Solution
  <2> QED
    BY <1>1, <1>8
<1> DEFINE g == Stream!write7BitEncoded
<1>10. g = [v \in Nat |-> Step(g, v)]
  BY <1>9
<1> HIDE DEF g
<1>11. \A v \in Nat : g[v] = Step(g, v)
  <2> HIDE DEF Step
  <2> QED
    BY <1>10
<1>12. \A v \in Nat : g[v] \in Seq(Nat)
  <2> DEFINE T == {v \in Nat : g[v] \notin Seq(Nat)}
  <2> SUFFICES ASSUME T # {} PROVE FALSE
    OBVIOUS
  <2>1. PICK v \in T : \A i \in T : v <= i
    <3>1. T \in SUBSET Nat
      OBVIOUS
    <3> HIDE DEF T
    <3> QED
      BY <3>1, LeastOf
  <2>2. v \in Nat /\ g[v] \notin Seq(Nat) /\ \A i \in Nat : g[i] \notin Seq(Nat) => v <= i
    BY <2>1
  <2> HIDE DEF T
  <2>3. ~(v < c)
    <3>1. v < c => g[v] = <<v>>
      BY <1>11, <2>2
    <3>2. <<v>> \in Seq(Nat)
      BY <2>2
    <3> QED
      BY <2>2, <3>1, <3>2
  <2>4. v \div c \in Nat /\ v \div c < v
    <3>1. v \notin base
      BY <1>0, <2>2, <2>3
    <3>2. down[v] < v
      BY <1>3, <2>2, <3>1
    <3> QED
      BY <1>2, <2>2, <3>2
  <2>5. g[v \div c] \in Seq(Nat)
    <3>1. ~(v <= v \div c)
      BY <2>2, <2>4
    <3> QED
      BY <2>2, <2>4, <3>1
  <2>6. g[v] = <<c + (v % c)>> \o g[v \div c]
    BY <1>11, <2>2, <2>3
  <2>7. c + (v % c) \in Nat
    BY <1>0, <1>2, <2>2
  <2>8. g[v] \in Seq(Nat)
    BY <2>5, <2>6, <2>7
  <2> QED
    BY <2>2, <2>8
<1>13. g \in [Nat -> Seq(Nat)]
  <2> HIDE DEF Step
  <2> QED
    BY <1>10, <1>12
<1> QED
  BY <1>11, <1>13 DEF g, c

\* What the encoding of v looks like: its groups, their continuation bits, and how
\* many there are.
IsEncoded(v, e) ==
    /\ e \in Seq(0..Stream!Top) /\ Len(e) >= 1
    /\ \A k \in 1..Len(e) : e[k] % Stream!Cont = (v \div Shift(k - 1)) % Stream!Cont
    /\ \A k \in 1..(Len(e) - 1) : e[k] >= Stream!Cont
    /\ e[Len(e)] < Stream!Cont
    /\ v < Shift(Len(e))
    /\ Len(e) > 1 => Shift(Len(e) - 1) <= v

LEMMA EncodedShort ==
    ASSUME NEW v \in Nat, v < Stream!Cont
    PROVE  IsEncoded(v, <<v>>)
<1> DEFINE c == Stream!Cont
           e == <<v>>
<1>1. c \in Nat \ {0} /\ v \in 0..(c - 1) /\ v \in 0..Stream!Top
  BY Widths
<1>2. Shift(0) = 1 /\ Shift(1) = c
  <2>1. Shift(0 + 1) = Shift(0) * c /\ Shift(0) = 1
    BY Shifts
  <2> QED
    BY <1>1, <2>1
<1>3. e \in Seq(0..Stream!Top) /\ Len(e) = 1 /\ e[1] = v
  BY <1>1
<1>4. v \div 1 = v
  BY <1>1, DivModOnce
<1>5. e[1] % c = (v \div Shift(1 - 1)) % c
  BY <1>2, <1>3, <1>4
<1> HIDE DEF c, e
<1>6. v < c
  BY DEF c
<1>7. \A k \in 1..Len(e) : e[k] % c = (v \div Shift(k - 1)) % c
  BY <1>3, <1>5
<1>8. \A k \in 1..(Len(e) - 1) : e[k] >= c
  BY <1>3
<1> QED
  BY <1>2, <1>3, <1>6, <1>7, <1>8 DEF IsEncoded, c, e

LEMMA EncodedLonger ==
    ASSUME NEW v \in Nat, v >= Stream!Cont, NEW s, IsEncoded(v \div Stream!Cont, s)
    PROVE  IsEncoded(v, <<Stream!Cont + (v % Stream!Cont)>> \o s)
<1> DEFINE c == Stream!Cont
           q == v \div c
           m == v % c
           n == Len(s)
           e == <<c + m>> \o s
<1>1. c \in Nat \ {0} /\ c >= 2 /\ Stream!Top + 1 = 2 * c /\ Stream!Top \in Nat /\ v >= c
  BY Widths
<1>2. q \in Nat /\ m \in Nat /\ m < c /\ v = c * q + m
  BY <1>1, DivMod
<1>3. /\ s \in Seq(0..Stream!Top) /\ n >= 1 /\ n \in Nat
      /\ \A k \in 1..n : s[k] % c = (q \div Shift(k - 1)) % c
      /\ \A k \in 1..(n - 1) : s[k] >= c
      /\ s[n] < c
      /\ q < Shift(n)
      /\ n > 1 => Shift(n - 1) <= q
  BY DEF IsEncoded
<1>4. \A k \in Nat : Shift(k) \in Nat \ {0} /\ Shift(k + 1) = Shift(k) * c
  BY Shifts
<1>5. Shift(0) = 1
  BY Shifts
<1> HIDE DEF c, q, m, n
<1>6. c + m \in 0..Stream!Top
  BY <1>1, <1>2
<1>7. /\ e \in Seq(0..Stream!Top) /\ Len(e) = n + 1
      /\ e[1] = c + m /\ \A k \in 2..(n + 1) : e[k] = s[k - 1]
  BY <1>3, <1>6 DEF n
<1> HIDE DEF e
<1>8. ASSUME NEW k \in 1..(n + 1) PROVE e[k] % c = (v \div Shift(k - 1)) % c
  <2>1. CASE k = 1
    <3>1. (c + m) % c = m
      <4>1. c + m \in Nat /\ c + m = c * 1 + m /\ m \in 0..(c - 1) /\ 1 \in Int
        BY <1>1, <1>2
      <4> QED
        BY <1>1, <4>1, DivModOnce
    <3>2. v \div 1 = v
      <4>1. 0 \in 0..(1 - 1) /\ v = 1 * v + 0 /\ v \in Int
        OBVIOUS
      <4> QED
        BY <4>1, DivModOnce
    <3>3. e[k] % c = m /\ Shift(k - 1) = 1
      BY <1>3, <1>5, <1>7, <2>1, <3>1
    <3>4. (v \div Shift(k - 1)) % c = m
      BY <3>2, <3>3 DEF m
    <3> QED
      BY <3>3, <3>4
  <2>2. CASE k # 1
    <3>1. k - 1 \in 1..n /\ k \in 2..(n + 1) /\ k - 2 \in Nat /\ (k - 1) - 1 = k - 2 /\ (k - 2) + 1 = k - 1
      BY <1>3, <2>2
    <3> DEFINE w == Shift(k - 2)
    <3>2. e[k] % c = (q \div w) % c
      BY <1>3, <1>7, <3>1
    <3> DEFINE u == Shift(k - 1)
    <3>3. w \in Nat \ {0} /\ u = c * w
      BY <1>1, <1>4, <3>1
    <3> HIDE DEF w, u
    <3>4. q \div w = v \div u
      <4>1. (v \div c) \div w = v \div u
        BY <1>1, <3>3, QuotientTwice
      <4> QED
        BY <4>1 DEF q
    <3> QED
      BY <3>2, <3>4 DEF u
  <2> QED
    BY <2>1, <2>2
<1>9. \A k \in 1..n : e[k] >= c
  <2> SUFFICES ASSUME NEW k \in 1..n PROVE e[k] >= c
    OBVIOUS
  <2>1. CASE k = 1
    BY <1>1, <1>2, <1>7, <2>1
  <2>2. CASE k # 1
    <3>1. k - 1 \in 1..(n - 1) /\ k \in 2..(n + 1)
      BY <1>3, <2>2
    <3> QED
      BY <1>3, <1>7, <3>1
  <2> QED
    BY <2>1, <2>2
<1>10. e[n + 1] < c
  <2>1. n + 1 \in 2..(n + 1) /\ (n + 1) - 1 = n
    BY <1>3
  <2> QED
    BY <1>3, <1>7, <2>1
<1>11. v < Shift(n + 1)
  <2> DEFINE w == Shift(n)
  <2>1. w \in Nat /\ Shift(n + 1) = c * w /\ q < w
    BY <1>1, <1>3, <1>4
  <2> HIDE DEF w
  <2>2. c * q + c <= c * w
    BY <1>1, <1>2, <2>1, LessIsStep
  <2>3. c * q \in Nat /\ c * w \in Nat
    BY <1>1, <1>2, <2>1
  <2> QED
    BY <1>1, <1>2, <2>1, <2>2, <2>3
<1>12. Shift(n) <= v
  <2>1. CASE n = 1
    <3>1. Shift(0 + 1) = Shift(0) * c
      BY <1>4
    <3> QED
      BY <1>1, <1>5, <2>1, <3>1
  <2>2. CASE n # 1
    <3> DEFINE w == Shift(n - 1)
    <3>1. w \in Nat /\ w <= q /\ Shift(n) = c * w
      <4>1. n - 1 \in Nat /\ (n - 1) + 1 = n /\ n > 1
        BY <1>3, <2>2
      <4> QED
        BY <1>1, <1>3, <1>4, <4>1
    <3> HIDE DEF w
    <3>2. c * w <= c * q
      <4>1. CASE w = q
        BY <1>1, <1>2, <4>1
      <4>2. CASE w < q
        <5>1. c * w + c <= c * q
          BY <1>1, <1>2, <3>1, <4>2, LessIsStep
        <5>2. c * w \in Nat /\ c * q \in Nat
          BY <1>1, <1>2, <3>1
        <5> QED
          BY <1>1, <5>1, <5>2
      <4> QED
        BY <1>2, <3>1, <4>1, <4>2
    <3>3. c * w \in Nat /\ c * q \in Nat
      BY <1>1, <1>2, <3>1
    <3> QED
      BY <1>2, <3>1, <3>2, <3>3
  <2> QED
    BY <2>1, <2>2
<1>13. Len(e) \in Nat /\ Len(e) - 1 = n /\ Len(e) >= 1
  BY <1>3, <1>7
<1>14. IsEncoded(v, e)
  BY <1>7, <1>8, <1>9, <1>10, <1>11, <1>12, <1>13 DEF IsEncoded, c
<1> QED
  BY <1>14 DEF e, m, c

LEMMA EncodedIs == \A v \in Nat : IsEncoded(v, Stream!write7BitEncoded[v])
<1> DEFINE T == {v \in Nat : ~IsEncoded(v, Stream!write7BitEncoded[v])}
<1> SUFFICES ASSUME T # {} PROVE FALSE
  OBVIOUS
<1>1. PICK v \in T : \A i \in T : v <= i
  <2>1. T \in SUBSET Nat
    OBVIOUS
  <2> HIDE DEF T
  <2> QED
    BY <2>1, LeastOf
<1>2. v \in Nat /\ ~IsEncoded(v, Stream!write7BitEncoded[v])
  BY <1>1
<1>3. v >= Stream!Cont
  <2>1. Stream!Cont \in Nat
    BY Widths
  <2>2. v < Stream!Cont => Stream!write7BitEncoded[v] = <<v>>
    BY <1>2, WriteIs
  <2> QED
    BY <1>2, <2>1, <2>2, EncodedShort
<1> DEFINE q == v \div Stream!Cont
<1>4. q \in Nat /\ q < v
  BY <1>2, <1>3, Widths, QuotientLess
<1>5. IsEncoded(q, Stream!write7BitEncoded[q])
  <2>1. ~(v <= q)
    BY <1>2, <1>4
  <2> HIDE DEF q
  <2>2. q \notin T
    BY <1>1, <2>1
  <2> QED
    BY <1>4, <2>2
<1>6. Stream!write7BitEncoded[v] = <<Stream!Cont + (v % Stream!Cont)>> \o Stream!write7BitEncoded[q]
  <2>1. ~(v < Stream!Cont)
    BY <1>2, <1>3, Widths
  <2> QED
    BY <1>2, <2>1, WriteIs
<1> QED
  BY <1>2, <1>3, <1>5, <1>6, EncodedLonger

LEMMA UpTo ==
    ASSUME NEW n \in Nat, NEW S, 0 \in S, \A k \in 0..(n - 1) : k \in S => k + 1 \in S
    PROVE  0..n \subseteq S
<1> DEFINE T == {k \in 0..n : k \notin S}
<1> SUFFICES ASSUME T # {} PROVE FALSE
  OBVIOUS
<1>1. PICK k \in T : \A i \in T : k <= i
  <2>1. T \in SUBSET Nat
    OBVIOUS
  <2> HIDE DEF T
  <2> QED
    BY <2>1, LeastOf
<1>2. k \in 0..n /\ k \notin S /\ k # 0
  BY <1>1
<1>3. k - 1 \in 0..(n - 1) /\ (k - 1) + 1 = k /\ ~(k <= k - 1)
  BY <1>2
<1>4. k - 1 \in S
  BY <1>1, <1>3
<1> QED
  BY <1>2, <1>3, <1>4

\* A sum over the places of a sequence, each term added in the way add says, is
\* well defined.
IsSum(f, n, Y, start, step) ==
    f \in [0..n -> Y] /\ f[0] = start /\ \A k \in 1..n : f[k] = step[<<k, f[k - 1]>>]

LEMMA Summed ==
    ASSUME NEW n \in Nat, NEW Y, NEW start \in Y, NEW step \in [Nat \X Y -> Y]
    PROVE  \E f : IsSum(f, n, Y, start, step)
<1> DEFINE base == {0}
           first == [k \in Nat |-> start]
           down == [k \in Nat |-> IF k = 0 THEN 0 ELSE k - 1]
<1>1. /\ first \in [Nat -> Y] /\ down \in [Nat -> Nat]
      /\ \A k \in Nat : k \notin base => down[k] < k
  OBVIOUS
<1>2. PICK f \in [Nat -> Y] : \A k \in Nat : Recurs(f, base, first, down, step, k)
  <2> HIDE DEF base, first, down
  <2> QED
    BY <1>1, Recursion
<1> DEFINE g == [k \in 0..n |-> f[k]]
<1>3. g \in [0..n -> Y]
  OBVIOUS
<1>4. g[0] = start
  <2>1. 0 \in Nat /\ 0 \in 0..n /\ 0 \in base /\ first[0] = start
    OBVIOUS
  <2>2. f[0] = start
    BY <1>2, <2>1 DEF Recurs
  <2> QED
    BY <2>1, <2>2
<1>5. ASSUME NEW k \in 1..n PROVE g[k] = step[<<k, g[k - 1]>>]
  <2>1. k \in Nat /\ k \in 0..n /\ k - 1 \in 0..n /\ k \notin base /\ down[k] = k - 1
    OBVIOUS
  <2>2. f[k] = step[<<k, f[k - 1]>>]
    BY <1>2, <2>1 DEF Recurs
  <2> QED
    BY <2>1, <2>2
<1> QED
  BY <1>3, <1>4, <1>5 DEF IsSum

LEMMA ReadIs ==
    ASSUME NEW bytes \in Seq(Nat)
    PROVE  \E f : /\ Stream!read7BitEncoded(bytes) = f[Len(bytes)]
                  /\ \A k \in 0..Len(bytes) : f[k] \in Nat
                  /\ f[0] = 0
                  /\ \A k \in 1..Len(bytes) :
                        f[k] = (f[k - 1] + (bytes[k] % Stream!Cont) * Shift(k - 1)) % Stream!Word
<1> DEFINE n == Len(bytes)
           c == Stream!Cont
           w == Stream!Word
           Step(f, k) == IF k = 0 THEN 0 ELSE (f[k - 1] + (bytes[k] % c) * Shift(k - 1)) % w
           Solution(f) == f = [k \in 0..n |-> Step(f, k)]
           add == [k \in Nat |-> IF k \in 1..n THEN (bytes[k] % c) * Shift(k - 1) ELSE 0]
           step == [z \in Nat \X Nat |-> (z[2] + add[z[1]]) % w]
<1>1. Stream!read7BitEncoded(bytes) = (CHOOSE f : Solution(f))[n]
  BY DEF Stream!read7BitEncoded, Shift
<1>2. c \in Nat \ {0} /\ w \in Nat \ {0} /\ n \in Nat /\ \A k \in 1..n : bytes[k] \in Nat
  BY Widths
<1> HIDE DEF c, w, n
<1>3. add \in [Nat -> Nat]
  <2> SUFFICES ASSUME NEW k \in 1..n PROVE (bytes[k] % c) * Shift(k - 1) \in Nat
    OBVIOUS
  <2>1. bytes[k] % c \in Nat
    BY <1>2, DivMod
  <2>2. k - 1 \in Nat
    BY <1>2
  <2>3. Shift(k - 1) \in Nat
    BY <2>2, Shifts
  <2> QED
    BY <2>1, <2>3
<1>4. \A k \in 1..n : add[k] = (bytes[k] % c) * Shift(k - 1)
  BY <1>2
<1> HIDE DEF add
<1>5. step \in [Nat \X Nat -> Nat]
  <2> SUFFICES ASSUME NEW a \in Nat, NEW b \in Nat PROVE (b + add[a]) % w \in Nat
    OBVIOUS
  <2>1. add[a] \in Nat
    BY <1>3
  <2>2. b + add[a] \in Nat
    BY <2>1
  <2> QED
    BY <1>2, <2>2, DivMod
<1>6. PICK f \in [0..n -> Nat] : f[0] = 0 /\ \A k \in 1..n : f[k] = step[<<k, f[k - 1]>>]
  <2> HIDE DEF step
  <2>1. 0 \in Nat
    OBVIOUS
  <2>2. \E f : IsSum(f, n, Nat, 0, step)
    BY <1>2, <1>5, <2>1, Summed, Zenon
  <2> QED
    BY <2>2 DEF IsSum
<1>7. \A k \in 1..n : f[k] = (f[k - 1] + (bytes[k] % c) * Shift(k - 1)) % w
  <2> SUFFICES ASSUME NEW k \in 1..n PROVE f[k] = (f[k - 1] + (bytes[k] % c) * Shift(k - 1)) % w
    OBVIOUS
  <2>1. k \in Nat /\ f[k - 1] \in Nat
    BY <1>2
  <2>2. step[<<k, f[k - 1]>>] = (f[k - 1] + add[k]) % w
    BY <2>1
  <2> QED
    BY <1>4, <1>6, <2>2
<1>8. \A k \in 0..n : f[k] = Step(f, k)
  <2> SUFFICES ASSUME NEW k \in 0..n PROVE f[k] = Step(f, k)
    OBVIOUS
  <2>1. k = 0 \/ k \in 1..n
    BY <1>2
  <2> QED
    BY <1>6, <1>7, <2>1
<1>9. Solution(f)
  <2> HIDE DEF Step
  <2>1. f = [k \in 0..n |-> f[k]]
    OBVIOUS
  <2> QED
    BY <1>8, <2>1
<1> DEFINE g == CHOOSE h : Solution(h)
<1>10. Solution(g)
  <2> HIDE DEF Solution
  <2> QED
    BY <1>9
<1>11. Stream!read7BitEncoded(bytes) = g[n]
  BY <1>1
<1> HIDE DEF g
<1>12. \A k \in 0..n : g[k] = Step(g, k)
  <2> HIDE DEF Step
  <2> QED
    BY <1>10
<1>13. g[0] = 0 /\ \A k \in 1..n : g[k] = (g[k - 1] + (bytes[k] % c) * Shift(k - 1)) % w
  <2>1. 0 \in 0..n /\ \A k \in 1..n : k \in 0..n /\ k # 0
    BY <1>2
  <2> QED
    BY <1>12, <2>1
<1> DEFINE S == {k \in 0..n : g[k] \in Nat}
<1>14. 0 \in S
  BY <1>2, <1>13
<1>15. ASSUME NEW k \in 0..(n - 1), k \in S PROVE k + 1 \in S
  <2>1. k + 1 \in 1..n /\ k + 1 \in 0..n /\ (k + 1) - 1 = k
    BY <1>2
  <2>2. g[k + 1] = (g[k] + add[k + 1]) % w
    BY <1>4, <1>13, <2>1
  <2>3. g[k] + add[k + 1] \in Nat
    <3>1. g[k] \in Nat /\ k + 1 \in Nat
      BY <1>2, <1>15
    <3>2. add[k + 1] \in Nat
      BY <1>3, <3>1
    <3> QED
      BY <3>1, <3>2
  <2> QED
    BY <1>2, <2>1, <2>2, <2>3, DivMod
<1>16. 0..n \subseteq S
  <2> HIDE DEF S
  <2> QED
    BY <1>2, <1>14, <1>15, UpTo
<1>17. \A k \in 0..n : g[k] \in Nat
  BY <1>16
<1> QED
  BY <1>11, <1>13, <1>17 DEF c, w, n

\* A length is decoded to what it was, from at most one byte more than an integer.
THEOREM LengthRoundTrip ==
    ASSUME NEW v \in 0..(Stream!Word - 1)
    PROVE  LET e == Stream!write7BitEncoded[v]
           IN Len(e) <= IntSize + 1 /\ Stream!read7BitEncoded(e) = v
<1> DEFINE e == Stream!write7BitEncoded[v]
           n == Len(e)
           c == Stream!Cont
           w == Stream!Word
<1>1. v \in Nat /\ v < w /\ w \in Nat \ {0} /\ c \in Nat \ {0} /\ IntSize \in Nat
  BY Widths
<1>2. e \in Seq(Nat)
  BY <1>1, WriteIs
<1>3. IsEncoded(v, e)
  BY <1>1, EncodedIs
<1> HIDE DEF e
<1>4. /\ n \in Nat /\ n >= 1 /\ v < Shift(n) /\ (n > 1 => Shift(n - 1) <= v)
      /\ \A k \in 1..n : e[k] % c = (v \div Shift(k - 1)) % c
  BY <1>2, <1>3 DEF IsEncoded
<1> HIDE DEF n, c, w
<1>5. n <= IntSize + 1
  <2> SUFFICES ASSUME n > IntSize + 1 PROVE FALSE
    BY <1>1, <1>4
  <2>1. n - 1 \in Nat /\ IntSize + 1 \in Nat /\ IntSize + 1 <= n - 1 /\ n > 1
    BY <1>1, <1>4
  <2>2. Shift(IntSize + 1) <= Shift(n - 1) /\ Shift(n - 1) \in Nat /\ Shift(IntSize + 1) \in Nat
    BY <2>1, Shifts
  <2>3. w <= Shift(IntSize + 1)
    BY Shifts DEF w
  <2> QED
    BY <1>1, <1>4, <2>1, <2>2, <2>3
<1>6. PICK f : /\ Stream!read7BitEncoded(e) = f[n] /\ f[0] = 0
               /\ \A k \in 1..n : f[k] = (f[k - 1] + (e[k] % c) * Shift(k - 1)) % w
  BY <1>2, ReadIs DEF n, c, w
<1> DEFINE S == {k \in 0..n : f[k] = v % Shift(k)}
<1>7. 0 \in S
  <2>1. v = 1 * v + 0 /\ 0 \in 0..(1 - 1) /\ v \in Int /\ 1 \in Nat \ {0}
    BY <1>1
  <2>2. v % 1 = 0
    BY <1>1, <2>1, DivModOnce
  <2>3. f[0] = v % Shift(0)
    BY <1>6, <2>2, Shifts
  <2> QED
    BY <1>4, <2>3
<1>8. ASSUME NEW k \in 0..(n - 1), k \in S PROVE k + 1 \in S
  <2> DEFINE s == Shift(k)
             t == Shift(k + 1)
             d == (v \div s) % c
  <2>1. k \in Nat /\ k + 1 \in 1..n /\ k + 1 \in 0..n /\ (k + 1) - 1 = k
    BY <1>4
  <2>2. s \in Nat \ {0} /\ t \in Nat \ {0} /\ t = s * c
    BY <2>1, Shifts DEF c
  <2>3. f[k] = v % s
    BY <1>8
  <2>4. f[k + 1] = (f[k] + d * s) % w
    <3>1. f[k + 1] = (f[k] + (e[k + 1] % c) * s) % w
      BY <1>6, <2>1
    <3>2. e[k + 1] % c = d
      BY <1>4, <2>1
    <3> QED
      BY <3>1, <3>2
  <2> HIDE DEF s, t
  <2>5. v \div s \in Nat /\ v % s \in Nat
    BY <1>1, <2>2, DivMod
  <2>6. d \in Nat
    BY <1>1, <2>5, DivMod
  <2>8. v % t = (v % s) + s * d
    <3> DEFINE q == v \div s
               r == v % s
               m == s * d
    <3>1. v \in Nat /\ s \in Nat \ {0} /\ c \in Nat \ {0} /\ t \in Nat \ {0} /\ t = s * c
      BY <1>1, <2>2
    <3>2. q = v \div s /\ d = q % c /\ r = v % s /\ m = s * d
      OBVIOUS
    <3> HIDE DEF q, d, r, m
    <3>3. v % t = r + m
      BY <3>1, <3>2, TwoShifts
    <3> QED
      BY <3>3 DEF r, m
  <2> HIDE DEF d
  <2>9. v % t = (v % s) + d * s
    <3>1. d * s = s * d
      BY <2>2, <2>6
    <3> QED
      BY <2>8, <3>1
  <2>10. v % t \in Nat /\ v % t < w
    <3>1. v % t \in Nat /\ v \div t \in Nat /\ v = t * (v \div t) + (v % t)
      BY <1>1, <2>2, DivMod
    <3>2. t * (v \div t) \in Nat
      BY <2>2, <3>1
    <3>3. v % t <= v
      BY <1>1, <3>1, <3>2
    <3> QED
      BY <1>1, <3>1, <3>3
  <2>11. (v % t) % w = v % t
    <3> DEFINE x == v % t
    <3> SUFFICES x % w = x
      OBVIOUS
    <3>1. x \in Nat /\ x \in 0..(w - 1) /\ x = w * 0 + x
      BY <1>1, <2>10
    <3> HIDE DEF x
    <3> QED
      BY <1>1, <3>1, DivModOnce
  <2>12. f[k + 1] = v % t
    BY <2>3, <2>4, <2>9, <2>11
  <2> QED
    BY <2>1, <2>12 DEF t
<1>9. n \in S
  <2>1. 0..n \subseteq S
    <3> HIDE DEF S
    <3> QED
      BY <1>4, <1>7, <1>8, UpTo
  <2> QED
    BY <1>4, <2>1
<1>10. v % Shift(n) = v
  <2> DEFINE s == Shift(n)
  <2>1. s \in Nat \ {0} /\ v < s
    BY <1>4, Shifts
  <2> HIDE DEF s
  <2>2. v \in 0..(s - 1) /\ v = s * 0 + v
    BY <1>1, <2>1
  <2>3. v % s = v
    BY <1>1, <2>1, <2>2, DivModOnce
  <2> QED
    BY <2>3 DEF s
<1> QED
  BY <1>5, <1>6, <1>9, <1>10 DEF e, n

-----------------------------------------------------------------------------
(* Numbers of a fixed size.                                                *)

LEMMA HostIs ==
    ASSUME NEW bytes \in Seq(Nat)
    PROVE  \E f : /\ Stream!Host(bytes) = f[Len(bytes)]
                  /\ \A k \in 0..Len(bytes) : f[k] \in Nat
                  /\ f[0] = 0
                  /\ \A k \in 1..Len(bytes) : f[k] = f[k - 1] * (Stream!Top + 1) + bytes[k]
<1> DEFINE n == Len(bytes)
           t == Stream!Top + 1
           Step(f, k) == IF k = 0 THEN 0 ELSE f[k - 1] * t + bytes[k]
           Solution(f) == f = [k \in 0..n |-> Step(f, k)]
           add == [k \in Nat |-> IF k \in 1..n THEN bytes[k] ELSE 0]
           step == [z \in Nat \X Nat |-> z[2] * t + add[z[1]]]
<1>1. Stream!Host(bytes) = (CHOOSE f : Solution(f))[n]
  BY DEF Stream!Host
<1>2. t \in Nat \ {0} /\ n \in Nat /\ \A k \in 1..n : bytes[k] \in Nat
  BY Widths
<1> HIDE DEF t, n
<1>3. add \in [Nat -> Nat] /\ \A k \in 1..n : add[k] = bytes[k]
  BY <1>2
<1> HIDE DEF add
<1>4. step \in [Nat \X Nat -> Nat]
  <2> SUFFICES ASSUME NEW a \in Nat, NEW b \in Nat PROVE b * t + add[a] \in Nat
    OBVIOUS
  <2>1. b * t \in Nat /\ add[a] \in Nat
    BY <1>2, <1>3
  <2> QED
    BY <2>1
<1>5. PICK f \in [0..n -> Nat] : f[0] = 0 /\ \A k \in 1..n : f[k] = step[<<k, f[k - 1]>>]
  <2> HIDE DEF step
  <2>1. 0 \in Nat
    OBVIOUS
  <2>2. \E f : IsSum(f, n, Nat, 0, step)
    BY <1>2, <1>4, <2>1, Summed, Zenon
  <2> QED
    BY <2>2 DEF IsSum
<1>6. \A k \in 1..n : f[k] = f[k - 1] * t + bytes[k]
  <2> SUFFICES ASSUME NEW k \in 1..n PROVE f[k] = f[k - 1] * t + bytes[k]
    OBVIOUS
  <2>1. k \in Nat /\ f[k - 1] \in Nat
    BY <1>2
  <2>2. step[<<k, f[k - 1]>>] = f[k - 1] * t + add[k]
    BY <2>1
  <2> QED
    BY <1>3, <1>5, <2>2
<1>7. \A k \in 0..n : f[k] = Step(f, k)
  <2> SUFFICES ASSUME NEW k \in 0..n PROVE f[k] = Step(f, k)
    OBVIOUS
  <2>1. k = 0 \/ k \in 1..n
    BY <1>2
  <2> QED
    BY <1>5, <1>6, <2>1
<1>8. Solution(f)
  <2> HIDE DEF Step
  <2>1. f = [k \in 0..n |-> f[k]]
    OBVIOUS
  <2> QED
    BY <1>7, <2>1
<1> DEFINE g == CHOOSE h : Solution(h)
<1>9. Solution(g)
  <2> HIDE DEF Solution
  <2> QED
    BY <1>8
<1>10. Stream!Host(bytes) = g[n]
  BY <1>1
<1> HIDE DEF g
<1>11. \A k \in 0..n : g[k] = Step(g, k)
  <2> HIDE DEF Step
  <2> QED
    BY <1>9
<1>12. g[0] = 0 /\ \A k \in 1..n : g[k] = g[k - 1] * t + bytes[k]
  <2>1. 0 \in 0..n /\ \A k \in 1..n : k \in 0..n /\ k # 0
    BY <1>2
  <2> QED
    BY <1>11, <2>1
<1> DEFINE S == {k \in 0..n : g[k] \in Nat}
<1>13. 0 \in S
  BY <1>2, <1>12
<1>14. ASSUME NEW k \in 0..(n - 1), k \in S PROVE k + 1 \in S
  <2>1. k + 1 \in 1..n /\ k + 1 \in 0..n /\ (k + 1) - 1 = k
    BY <1>2
  <2>2. g[k + 1] = g[k] * t + add[k + 1]
    BY <1>3, <1>12, <2>1
  <2>3. g[k] * t \in Nat /\ add[k + 1] \in Nat
    <3>1. g[k] \in Nat /\ k + 1 \in Nat
      BY <1>2, <1>14
    <3>2. add[k + 1] \in Nat
      BY <1>3, <3>1
    <3>3. g[k] * t \in Nat
      BY <1>2, <3>1
    <3> QED
      BY <3>2, <3>3
  <2> QED
    BY <2>1, <2>2, <2>3
<1>15. 0..n \subseteq S
  <2> HIDE DEF S
  <2> QED
    BY <1>2, <1>13, <1>14, UpTo
<1>16. \A k \in 0..n : g[k] \in Nat
  BY <1>15
<1> QED
  BY <1>10, <1>12, <1>16 DEF t, n

Place(k) == Stream!Power[ByteBits * k]

LEMMA Places ==
    /\ Place(0) = 1 /\ Place(1) = Stream!Top + 1 /\ Place(IntSize) = Stream!Word
    /\ \A k \in Nat : Place(k) \in Nat \ {0} /\ Place(k + 1) = Place(k) * (Stream!Top + 1)
    /\ \A k \in Nat : k >= 1 => Place(k) >= Stream!Top + 1
<1> DEFINE b == ByteBits
           t == Stream!Top + 1
<1>1. b \in Nat \ {0} /\ t = Stream!Power[b]
  <2>1. b \in 2..8
    BY ObjectsAssumption DEF ObjectsAssumption
  <2> QED
    BY <2>1, Widths
<1>2. \A k \in Nat : Place(k) = Stream!Power[b * k]
  BY DEF Place
<1>3. Place(IntSize) = Stream!Word
  BY DEF Place, Stream!Word
<1> HIDE DEF b, t
<1>4. b * 0 = 0 /\ b * 1 = b /\ \A k \in Nat : b * k \in Nat /\ b * (k + 1) = b * k + b
  BY <1>1
<1>5. Place(0) = 1 /\ Place(1) = t
  BY <1>1, <1>2, <1>4, PowerIs
<1>6. ASSUME NEW k \in Nat PROVE Place(k) \in Nat \ {0} /\ Place(k + 1) = Place(k) * t
  <2>1. Stream!Power[b * k + b] = Stream!Power[b * k] * Stream!Power[b]
    BY <1>1, <1>4, PowerSum
  <2>2. Place(k + 1) = Stream!Power[b * k + b]
    <3>1. k + 1 \in Nat /\ b * (k + 1) = b * k + b
      BY <1>4
    <3>2. Place(k + 1) = Stream!Power[b * (k + 1)]
      BY <1>2, <3>1
    <3> QED
      BY <3>1, <3>2
  <2> QED
    BY <1>1, <1>2, <1>4, <2>1, <2>2, PowerPositive
<1>7. ASSUME NEW k \in Nat, k >= 1 PROVE Place(k) >= t
  <2>1. k - 1 \in Nat /\ (k - 1) + 1 = k
    BY <1>7
  <2>2. b * k = b * (k - 1) + b /\ b * (k - 1) \in Nat /\ b * k \in Nat
    BY <1>4, <2>1
  <2>3. b <= b * k
    BY <1>1, <2>2
  <2> QED
    BY <1>1, <1>2, <2>2, <2>3, PowerGrows
<1> QED
  BY <1>3, <1>5, <1>6, <1>7 DEF t

\* The most significant byte first, every byte is one, and they are put together
\* to the number they were taken from.
THEOREM NetRoundTrip ==
    ASSUME NEW size \in Nat, NEW v \in Nat
    PROVE  /\ Stream!Net(v, size) \in Seq(0..Stream!Top) /\ Len(Stream!Net(v, size)) = size
           /\ v < Place(size) => Stream!Host(Stream!Net(v, size)) = v
<1> DEFINE e == Stream!Net(v, size)
           t == Stream!Top + 1
<1>1. t \in Nat \ {0}
  BY Widths
<1>2. e = [k \in 1..size |-> (v \div Place(size - k)) % t]
  BY DEF Stream!Net, Place
<1> HIDE DEF t
<1>3. \A k \in 1..size : size - k \in Nat /\ (v \div Place(size - k)) % t \in 0..(t - 1)
  <2> SUFFICES ASSUME NEW k \in 1..size PROVE size - k \in Nat /\ (v \div Place(size - k)) % t \in 0..(t - 1)
    OBVIOUS
  <2> DEFINE q == v \div Place(size - k)
  <2>1. size - k \in Nat
    OBVIOUS
  <2>2. Place(size - k) \in Nat \ {0}
    BY <2>1, Places
  <2>3. q \in Nat
    BY <2>2, DivMod
  <2> HIDE DEF q
  <2>4. q % t \in 0..(t - 1)
    BY <1>1, <2>3
  <2> QED
    BY <2>1, <2>4 DEF q
<1> DEFINE B == 0..Stream!Top
<1>4. 0..(t - 1) = B /\ B \subseteq Nat
  BY <1>1, Widths DEF t
<1> HIDE DEF B
<1>5. e \in Seq(B) /\ e \in Seq(Nat) /\ Len(e) = size
  <2>1. e \in [1..size -> B]
    BY <1>2, <1>3, <1>4
  <2> HIDE DEF e
  <2>2. e \in Seq(B) /\ Len(e) = size
    BY <2>1
  <2>3. e \in [1..size -> Nat]
    BY <1>4, <2>1
  <2>4. e \in Seq(Nat)
    BY <2>3
  <2> QED
    BY <2>2, <2>4
<1>6. \A k \in 1..size : e[k] = (v \div Place(size - k)) % t
  BY <1>2
<1> HIDE DEF e
<1>8. PICK f : /\ Stream!Host(e) = f[size] /\ f[0] = 0
               /\ \A k \in 1..size : f[k] = f[k - 1] * t + e[k]
  BY <1>5, HostIs DEF t
<1> SUFFICES ASSUME v < Place(size) PROVE Stream!Host(e) = v
  BY <1>5 DEF e, B
<1> DEFINE S == {k \in 0..size : f[k] = v \div Place(size - k)}
<1>9. 0 \in S
  <2> DEFINE p == Place(size)
  <2>1. p \in Nat \ {0} /\ v < p
    BY Places
  <2> HIDE DEF p
  <2>2. v \in 0..(p - 1) /\ v = p * 0 + v
    BY <2>1
  <2>3. v \div p = 0
    BY <2>1, <2>2, DivModOnce
  <2> QED
    BY <1>8, <2>3 DEF p
<1>10. ASSUME NEW k \in 0..(size - 1), k \in S PROVE k + 1 \in S
  <2>1. k + 1 \in 1..size /\ k + 1 \in 0..size /\ (k + 1) - 1 = k
        /\ size - (k + 1) \in Nat /\ (size - (k + 1)) + 1 = size - k
    OBVIOUS
  <2> DEFINE p == Place(size - (k + 1))
             q == v \div p
             d == q \div t
  <2>2. p \in Nat \ {0} /\ Place(size - k) = p * t
    BY <2>1, Places DEF t
  <2>3. f[k] = v \div Place(size - k)
    BY <1>10
  <2>4. f[k + 1] = f[k] * t + (q % t)
    BY <1>6, <1>8, <2>1
  <2>5. q \in Nat
    BY <2>2, DivMod
  <2>6. f[k] = d
    <3> DEFINE u == Place(size - k)
    <3>1. u \in Nat /\ u = p * t
      <4>1. p * t \in Nat
        BY <1>1, <2>2
      <4> QED
        BY <2>2, <4>1
    <3>2. f[k] = v \div u
      BY <2>3
    <3>3. d = q \div t /\ q = v \div p
      OBVIOUS
    <3> HIDE DEF u, p, q, d
    <3> QED
      BY <1>1, <2>2, <3>1, <3>2, <3>3, TwoShifts
  <2> HIDE DEF q
  <2>7. d \in Nat /\ q % t \in Nat /\ q = t * d + (q % t)
    BY <1>1, <2>5, DivMod
  <2> HIDE DEF d
  <2>8. d * t = t * d
    BY <1>1, <2>7
  <2>9. f[k + 1] = q
    BY <2>4, <2>6, <2>7, <2>8
  <2> QED
    BY <2>1, <2>9 DEF q
<1>11. size \in S
  <2>1. 0..size \subseteq S
    <3> HIDE DEF S
    <3> QED
      BY <1>9, <1>10, UpTo
  <2> QED
    BY <2>1
<1>12. v \div Place(size - size) = v
  <2>1. size - size = 0 /\ Place(0) = 1
    BY Places
  <2>2. v = 1 * v + 0 /\ 0 \in 0..(1 - 1) /\ v \in Int /\ 1 \in Nat \ {0}
    OBVIOUS
  <2>3. v \div 1 = v
    BY <2>2, DivModOnce
  <2> QED
    BY <2>1, <2>3
<1> QED
  BY <1>8, <1>11, <1>12

-----------------------------------------------------------------------------
(* The checksum.                                                           *)

Double == (Stream!Top + 1) * (Stream!Top + 1)
Fold[x \in Nat] == IF x < Double THEN x ELSE Fold[(x \div Double) + (x % Double)]

LEMMA DoubleIs == Double \in Nat /\ Double >= 2
<1> DEFINE t == Stream!Top + 1
<1>1. t \in Nat /\ t >= 2
  BY Widths
<1> HIDE DEF t
<1>2. t * 1 + t <= t * t
  BY <1>1, LessIsStep
<1>3. t * t \in Nat /\ t * 1 = t
  BY <1>1
<1>4. t * t >= 2
  BY <1>1, <1>2, <1>3
<1> QED
  BY <1>3, <1>4 DEF Double, t

LEMMA FoldLess ==
    ASSUME NEW x \in Nat, x >= Double
    PROVE  /\ (x \div Double) + (x % Double) \in Nat \ {0}
           /\ (x \div Double) + (x % Double) < x
           /\ x \div Double \in Nat
           /\ x = ((x \div Double) + (x % Double)) + (Double - 1) * (x \div Double)
<1> DEFINE m == Double
           q == x \div m
           r == x % m
<1>1. m \in Nat \ {0} /\ m >= 2 /\ x >= m
  BY DoubleIs
<1> HIDE DEF m
<1>2. q \in Nat /\ r \in Nat /\ r < m /\ x = m * q + r
  BY <1>1, DivMod
<1> HIDE DEF q, r
<1>3. q # 0
  <2>1. q = 0 => m * q = 0
    BY <1>1
  <2> QED
    BY <1>1, <1>2, <2>1
<1>4. m * q = q + (m - 1) * q /\ (m - 1) * q \in Nat
  <2>1. m - 1 \in Nat
    BY <1>1
  <2>2. m * q = q + (m - 1) * q
    BY <1>1, <1>2
  <2>3. (m - 1) * q \in Nat
    BY <1>2, <2>1
  <2> QED
    BY <2>2, <2>3
<1>5. x = (q + r) + (m - 1) * q
  BY <1>2, <1>4
<1>6. (m - 1) * q > 0
  <2> DEFINE d == m - 1
  <2>1. d \in Nat /\ d > 0
    BY <1>1
  <2> HIDE DEF d
  <2>2. d * 0 + d <= d * q
    BY <1>2, <1>3, <2>1, LessIsStep
  <2>3. d * 0 = 0 /\ d * q \in Nat
    BY <1>2, <2>1
  <2>4. d * q > 0
    BY <2>1, <2>2, <2>3
  <2> QED
    BY <2>4 DEF d
<1>7. q + r < x /\ q + r \in Nat \ {0}
  BY <1>2, <1>3, <1>4, <1>5, <1>6
<1> QED
  BY <1>2, <1>5, <1>7 DEF m, q, r

LEMMA FoldIs ==
    \A x \in Nat : /\ Fold[x] \in 0..(Double - 1)
                   /\ Fold[x] = 0 <=> x = 0
                   /\ \E a \in Nat : x = Fold[x] + (Double - 1) * a
<1> DEFINE m == Double
           Less(x) == (x \div m) + (x % m)
           base == 0..(m - 1)
           first == [x \in Nat |-> x]
           down == [x \in Nat |-> IF x < m THEN 0 ELSE Less(x)]
           next == [z \in Nat \X Nat |-> z[2]]
           Step(f, x) == IF x < m THEN x ELSE f[Less(x)]
           Solution(f) == f = [x \in Nat |-> Step(f, x)]
<1>1. m \in Nat /\ m >= 2
  BY DoubleIs
<1>2. \A x \in Nat : x >= m => /\ Less(x) \in Nat \ {0} /\ Less(x) < x /\ x \div m \in Nat
                               /\ x = Less(x) + (m - 1) * (x \div m)
  BY FoldLess
<1>3. Fold = CHOOSE f : Solution(f)
  BY DEF Fold
<1> HIDE DEF m, Less
<1>4. \A x \in Nat : x \in base <=> x < m
  BY <1>1
<1>5. first \in [Nat -> Nat] /\ down \in [Nat -> Nat] /\ next \in [Nat \X Nat -> Nat]
  <2>1. \A x \in Nat : (IF x < m THEN 0 ELSE Less(x)) \in Nat
    BY <1>1, <1>2
  <2> QED
    BY <2>1
<1>6. \A x \in Nat : x \notin base => down[x] < x
  BY <1>1, <1>2
<1>7. PICK f \in [Nat -> Nat] : \A x \in Nat : Recurs(f, base, first, down, next, x)
  <2> HIDE DEF base, first, down, next
  <2> QED
    BY <1>5, <1>6, Recursion
<1>8. \A x \in Nat : f[x] = Step(f, x)
  <2> SUFFICES ASSUME NEW x \in Nat PROVE f[x] = Step(f, x)
    OBVIOUS
  <2>1. f[x] = IF x \in base THEN first[x] ELSE next[<<x, f[down[x]]>>]
    BY <1>7 DEF Recurs
  <2>2. first[x] = x /\ f[down[x]] \in Nat /\ (~(x < m) => down[x] = Less(x))
    BY <1>5
  <2>3. next[<<x, f[down[x]]>>] = f[down[x]]
    BY <2>2
  <2> HIDE DEF base, first, down, next
  <2> QED
    BY <1>4, <2>1, <2>2, <2>3
<1>9. Solution(f)
  <2> HIDE DEF Step
  <2>1. f = [x \in Nat |-> f[x]]
    OBVIOUS
  <2> QED
    BY <1>8, <2>1
<1>10. Solution(Fold)
  <2> HIDE DEF Solution
  <2> QED
    BY <1>3, <1>9
<1> DEFINE g == Fold
<1>11. g = [x \in Nat |-> Step(g, x)]
  BY <1>10
<1> HIDE DEF g
<1>12. \A x \in Nat : g[x] = Step(g, x)
  <2> HIDE DEF Step
  <2> QED
    BY <1>11
<1> DEFINE P(x) == /\ g[x] \in 0..(m - 1)
                   /\ g[x] = 0 <=> x = 0
                   /\ \E a \in Nat : x = g[x] + (m - 1) * a
           T == {x \in Nat : ~P(x)}
<1> SUFFICES ASSUME T # {} PROVE FALSE
  BY DEF g, m
<1>13. PICK x \in T : \A i \in T : x <= i
  <2>1. T \in SUBSET Nat
    OBVIOUS
  <2> HIDE DEF T
  <2> QED
    BY <2>1, LeastOf
<1>14. x \in Nat /\ ~P(x) /\ \A i \in Nat : i < x => P(i)
  <2>1. x \in Nat /\ ~P(x)
    BY <1>13
  <2>2. \A i \in Nat : i < x => ~(x <= i)
    BY <2>1
  <2>3. \A i \in Nat : i < x => P(i)
    BY <1>13, <2>2
  <2> QED
    BY <2>1, <2>3
<1> HIDE DEF T
<1>15. CASE x < m
  <2>1. g[x] = x
    BY <1>12, <1>14, <1>15
  <2>2. (m - 1) * 0 = 0
    BY <1>1
  <2>3. g[x] \in 0..(m - 1) /\ x = g[x] + (m - 1) * 0
    BY <1>1, <1>14, <1>15, <2>1, <2>2
  <2>4. P(x)
    BY <2>1, <2>3
  <2> QED
    BY <1>14, <2>4
<1>16. CASE ~(x < m)
  <2> DEFINE y == Less(x)
             q == x \div m
  <2>1. y \in Nat \ {0} /\ y < x /\ q \in Nat /\ x = y + (m - 1) * q
    BY <1>1, <1>2, <1>14, <1>16
  <2>2. g[x] = g[y]
    BY <1>12, <1>14, <1>16
  <2> HIDE DEF y, q
  <2>3. P(y)
    BY <1>14, <2>1
  <2>4. PICK a \in Nat : y = g[y] + (m - 1) * a
    BY <2>3
  <2>5. x = g[x] + (m - 1) * (a + q)
    <3> DEFINE d == m - 1
    <3>1. d \in Nat
      BY <1>1
    <3>2. x = (g[x] + d * a) + d * q
      BY <2>1, <2>2, <2>4
    <3> HIDE DEF d
    <3>3. d * (a + q) = d * a + d * q /\ d * a \in Nat /\ d * q \in Nat
      BY <2>1, <3>1
    <3>4. g[x] \in Int
      BY <2>2, <2>3
    <3>5. x = g[x] + d * (a + q)
      BY <3>2, <3>3, <3>4
    <3> QED
      BY <3>5 DEF d
  <2>6. a + q \in Nat
    BY <2>1
  <2>7. g[x] \in 0..(m - 1) /\ g[x] # 0 /\ x # 0
    BY <1>1, <1>14, <1>16, <2>1, <2>2, <2>3
  <2>8. P(x)
    BY <2>5, <2>6, <2>7
  <2> QED
    BY <1>14, <2>8
<1> QED
  BY <1>15, <1>16

Term(bytes, k) ==
    IF k % 2 = 1 /\ k <= Len(bytes)
    THEN IF k < Len(bytes) THEN bytes[k] + bytes[k + 1] * (Stream!Top + 1) ELSE bytes[k]
    ELSE 0

LEMMA ChecksumIs ==
    ASSUME NEW bytes \in Seq(Nat)
    PROVE  \E f \in [0..(Len(bytes) + 1) -> Nat] :
              /\ Stream!checksum(bytes) = Double - 1 - Fold[f[Len(bytes) + 1]]
              /\ f[0] = 0
              /\ \A k \in 1..(Len(bytes) + 1) : f[k] = f[k - 1] + Term(bytes, k)
<1> DEFINE n == Len(bytes)
           Step(f, k) == IF k = 0 THEN 0 ELSE f[k - 1] + Term(bytes, k)
           Solution(f) == f = [k \in 0..(n + 1) |-> Step(f, k)]
           add == [k \in Nat |-> IF k \in 1..(n + 1) THEN Term(bytes, k) ELSE 0]
           step == [z \in Nat \X Nat |-> z[2] + add[z[1]]]
<1>1. Stream!checksum(bytes) = Double - 1 - Fold[(CHOOSE f : Solution(f))[n + 1]]
  BY DEF Stream!checksum, Double, Fold, Term
<1>2. n \in Nat /\ n + 1 \in Nat /\ \A k \in 1..(n + 1) : Term(bytes, k) \in Nat
  <2>1. n \in Nat /\ n + 1 \in Nat
    OBVIOUS
  <2> SUFFICES ASSUME NEW k \in 1..(n + 1) PROVE Term(bytes, k) \in Nat
    BY <2>1
  <2>2. k <= n => bytes[k] \in Nat
    BY <2>1
  <2>3. k < n => bytes[k + 1] \in Nat
    BY <2>1
  <2> DEFINE t == Stream!Top + 1
  <2>4. t \in Nat
    BY Widths
  <2>5. k < n => bytes[k + 1] * t \in Nat
    BY <2>3, <2>4
  <2>6. k < n => bytes[k] + bytes[k + 1] * t \in Nat
    <3> HIDE DEF t
    <3> QED
      BY <2>1, <2>2, <2>5
  <2> QED
    BY <2>1, <2>2, <2>6 DEF Term
<1> HIDE DEF n
<1>3. add \in [Nat -> Nat] /\ \A k \in 1..(n + 1) : add[k] = Term(bytes, k)
  BY <1>2
<1> HIDE DEF add
<1>4. step \in [Nat \X Nat -> Nat]
  <2> SUFFICES ASSUME NEW a \in Nat, NEW b \in Nat PROVE b + add[a] \in Nat
    OBVIOUS
  <2>1. add[a] \in Nat
    BY <1>3
  <2> QED
    BY <2>1
<1>5. PICK f \in [0..(n + 1) -> Nat] : f[0] = 0 /\ \A k \in 1..(n + 1) : f[k] = step[<<k, f[k - 1]>>]
  <2> HIDE DEF step
  <2>1. 0 \in Nat
    OBVIOUS
  <2>2. \E f : IsSum(f, n + 1, Nat, 0, step)
    BY <1>2, <1>4, <2>1, Summed, Zenon
  <2> QED
    BY <2>2 DEF IsSum
<1>6. \A k \in 1..(n + 1) : f[k] = f[k - 1] + Term(bytes, k)
  <2> SUFFICES ASSUME NEW k \in 1..(n + 1) PROVE f[k] = f[k - 1] + Term(bytes, k)
    OBVIOUS
  <2>1. k \in Nat /\ f[k - 1] \in Nat
    BY <1>2
  <2>2. step[<<k, f[k - 1]>>] = f[k - 1] + add[k]
    BY <2>1
  <2> QED
    BY <1>3, <1>5, <2>2
<1>7. \A k \in 0..(n + 1) : f[k] = Step(f, k)
  <2> SUFFICES ASSUME NEW k \in 0..(n + 1) PROVE f[k] = Step(f, k)
    OBVIOUS
  <2>1. k = 0 \/ k \in 1..(n + 1)
    BY <1>2
  <2> QED
    BY <1>5, <1>6, <2>1
<1>8. Solution(f)
  <2> HIDE DEF Step
  <2>1. f = [k \in 0..(n + 1) |-> f[k]]
    OBVIOUS
  <2> QED
    BY <1>7, <2>1
<1> DEFINE g == CHOOSE h : Solution(h)
<1>9. Solution(g)
  <2> HIDE DEF Solution
  <2> QED
    BY <1>8
<1>10. Stream!checksum(bytes) = Double - 1 - Fold[g[n + 1]]
  BY <1>1
<1> HIDE DEF g
<1>11. g = [k \in 0..(n + 1) |-> Step(g, k)]
  BY <1>9
<1>12. \A k \in 0..(n + 1) : g[k] = Step(g, k)
  <2> HIDE DEF Step
  <2> QED
    BY <1>11
<1>13. g[0] = 0 /\ \A k \in 1..(n + 1) : g[k] = g[k - 1] + Term(bytes, k)
  <2>1. 0 \in 0..(n + 1) /\ \A k \in 1..(n + 1) : k \in 0..(n + 1) /\ k # 0
    BY <1>2
  <2> QED
    BY <1>12, <2>1
<1> DEFINE S == {k \in 0..(n + 1) : g[k] \in Nat}
<1>14. 0 \in S
  BY <1>2, <1>13
<1>15. ASSUME NEW k \in 0..((n + 1) - 1), k \in S PROVE k + 1 \in S
  <2>1. k + 1 \in 1..(n + 1) /\ k + 1 \in 0..(n + 1) /\ (k + 1) - 1 = k
    BY <1>2
  <2> QED
    BY <1>2, <1>13, <1>15, <2>1
<1>16. 0..(n + 1) \subseteq S
  <2> HIDE DEF S
  <2> QED
    BY <1>2, <1>14, <1>15, UpTo
<1>17. g \in [0..(n + 1) -> Nat]
  <2> HIDE DEF Step
  <2> QED
    BY <1>11, <1>16
<1> QED
  BY <1>10, <1>13, <1>17 DEF n

\* The checksum, appended, completes the sum of a packet of double bytes.
THEOREM ChecksumCompletes ==
    ASSUME NEW bytes \in Seq(Nat), Len(bytes) % 2 = 0
    PROVE  LET c == Stream!checksum(bytes)
           IN Stream!checksum(bytes \o <<c % (Stream!Top + 1), c \div (Stream!Top + 1)>>) = 0
<1> DEFINE n == Len(bytes)
           t == Stream!Top + 1
           m == Double
           c == Stream!checksum(bytes)
           all == bytes \o <<c % t, c \div t>>
<1>1. n \in Nat /\ n % 2 = 0 /\ t \in Nat \ {0} /\ m \in Nat /\ m >= 2
  BY DoubleIs, Widths
<1>2. PICK f \in [0..(n + 1) -> Nat] :
         c = m - 1 - Fold[f[n + 1]] /\ f[0] = 0 /\ \A k \in 1..(n + 1) : f[k] = f[k - 1] + Term(bytes, k)
  BY ChecksumIs
<1> HIDE DEF c, m
<1>3. Fold[f[n + 1]] \in 0..(m - 1) /\ c \in Nat
  <2>1. f[n + 1] \in Nat
    BY <1>1
  <2>2. Fold[f[n + 1]] \in 0..(m - 1)
    BY <2>1, FoldIs DEF m
  <2> QED
    BY <1>1, <1>2, <2>2
<1>4. c % t \in Nat /\ c \div t \in Nat /\ c = t * (c \div t) + (c % t)
  BY <1>1, <1>3, DivMod
<1> HIDE DEF t
<1>5. /\ all \in Seq(Nat) /\ Len(all) = n + 2
      /\ \A k \in 1..n : all[k] = bytes[k]
      /\ all[n + 1] = c % t /\ all[n + 2] = c \div t
  <2> DEFINE two == <<c % t, c \div t>>
  <2>1. two \in Seq(Nat) /\ Len(two) = 2 /\ two[1] = c % t /\ two[2] = c \div t
    BY <1>4
  <2>2. all = bytes \o two
    OBVIOUS
  <2> HIDE DEF two, all
  <2>3. all \in Seq(Nat) /\ Len(all) = n + 2
    BY <2>1, <2>2
  <2>4. \A k \in 1..n : all[k] = bytes[k]
    BY <2>1, <2>2
  <2>5. \A k \in 1..Len(two) : all[n + k] = two[k]
    <3>0. \A i \in 1..(Len(bytes) + Len(two)) :
             (bytes \o two)[i] = IF i <= Len(bytes) THEN bytes[i] ELSE two[i - Len(bytes)]
      BY <2>1, ConcatProperties, Zenon
    <3>1. \A i \in 1..(n + 2) : all[i] = IF i <= n THEN bytes[i] ELSE two[i - n]
      BY <2>1, <2>2, <3>0
    <3>2. \A k \in 1..2 : n + k \in 1..(n + 2) /\ ~(n + k <= n) /\ (n + k) - n = k
      BY <1>1
    <3> QED
      BY <2>1, <3>1, <3>2
  <2> QED
    BY <2>1, <2>3, <2>4, <2>5
<1> HIDE DEF all, n
<1>6. PICK g \in [0..(n + 3) -> Nat] :
         /\ Stream!checksum(all) = m - 1 - Fold[g[n + 3]]
         /\ g[0] = 0 /\ \A k \in 1..(n + 3) : g[k] = g[k - 1] + Term(all, k)
  <2>1. Len(all) + 1 = n + 3
    BY <1>1, <1>5
  <2>2. \E g \in [0..(Len(all) + 1) -> Nat] :
           /\ Stream!checksum(all) = m - 1 - Fold[g[Len(all) + 1]]
           /\ g[0] = 0 /\ \A k \in 1..(Len(all) + 1) : g[k] = g[k - 1] + Term(all, k)
    BY <1>5, ChecksumIs DEF m
  <2> QED
    BY <2>1, <2>2
<1>7. \A k \in 1..n : Term(all, k) = Term(bytes, k)
  <2> SUFFICES ASSUME NEW k \in 1..n PROVE Term(all, k) = Term(bytes, k)
    OBVIOUS
  <2>1. k % 2 = 1 => k < n
    BY <1>1
  <2>2. k <= n /\ k < n + 2 /\ (k < n => k + 1 \in 1..n)
    BY <1>1
  <2> QED
    BY <1>1, <1>5, <2>1, <2>2 DEF Term, n
<1>8. Term(bytes, n + 1) = 0 /\ Term(all, n + 2) = 0 /\ Term(all, n + 3) = 0
  <2>1. (n + 2) % 2 = 0 /\ ~(n + 1 <= n) /\ ~(n + 3 <= n + 2)
    BY <1>1
  <2> QED
    BY <1>5, <2>1 DEF Term, n
<1>9. Term(all, n + 1) = c
  <2>1. (n + 1) % 2 = 1 /\ n + 1 <= n + 2 /\ n + 1 < n + 2 /\ (n + 1) + 1 = n + 2
    <3>1. n \in Nat /\ n % 2 = 0
      BY <1>1
    <3>2. n = 2 * (n \div 2) + (n % 2) /\ n \div 2 \in Nat
      BY <3>1, DivMod
    <3>3. n + 1 = 2 * (n \div 2) + 1 /\ 1 \in 0..(2 - 1) /\ n + 1 \in Nat
      BY <3>1, <3>2
    <3>4. (n + 1) % 2 = 1
      BY <3>2, <3>3, DivModOnce
    <3> QED
      BY <3>1, <3>4
  <2>2. Term(all, n + 1) = (c % t) + (c \div t) * t
    BY <1>5, <2>1 DEF Term, t
  <2> DEFINE q == c \div t
             r == c % t
  <2>3. q \in Nat /\ r \in Nat /\ c = t * q + r
    BY <1>4
  <2> HIDE DEF q, r
  <2>4. r + q * t = c
    <3>1. q * t = t * q /\ t * q \in Nat
      BY <1>1, <2>3
    <3> QED
      BY <2>3, <3>1
  <2> QED
    BY <2>2, <2>4 DEF q, r
<1>10. g[n] = f[n]
  <2> DEFINE S == {k \in 0..n : g[k] = f[k]}
  <2>1. 0 \in S
    BY <1>1, <1>2, <1>6
  <2>2. ASSUME NEW k \in 0..(n - 1), k \in S PROVE k + 1 \in S
    <3>1. k + 1 \in 1..n /\ k + 1 \in 0..n /\ (k + 1) - 1 = k /\ k + 1 \in 1..(n + 1) /\ k + 1 \in 1..(n + 3)
      BY <1>1
    <3>2. g[k + 1] = g[k] + Term(all, k + 1) /\ f[k + 1] = f[k] + Term(bytes, k + 1)
      BY <1>2, <1>6, <3>1
    <3>3. g[k] = f[k] /\ Term(all, k + 1) = Term(bytes, k + 1)
      BY <1>7, <2>2, <3>1
    <3> QED
      BY <3>1, <3>2, <3>3
  <2>3. 0..n \subseteq S
    <3> HIDE DEF S
    <3> QED
      BY <1>1, <2>1, <2>2, UpTo
  <2> QED
    BY <1>1, <2>3
<1> DEFINE s == f[n + 1]
<1>11. s \in Nat /\ g[n + 3] = s + c
  <2>1. n + 1 \in 1..(n + 1) /\ n + 1 \in 0..(n + 1) /\ n \in 0..(n + 1) /\ (n + 1) - 1 = n
    BY <1>1
  <2>2. s \in Nat /\ f[n] \in Nat /\ s = f[n] + 0
    BY <1>2, <1>8, <2>1
  <2>3. /\ n + 1 \in 1..(n + 3) /\ n + 2 \in 1..(n + 3) /\ n + 3 \in 1..(n + 3)
        /\ (n + 2) - 1 = n + 1 /\ (n + 3) - 1 = n + 2
    BY <1>1
  <2>4. g[n + 1] = g[n] + c
    BY <1>6, <1>9, <2>1, <2>3
  <2>5. g[n + 2] = g[n + 1] + 0
    BY <1>6, <1>8, <2>3
  <2>6. g[n + 3] = g[n + 2] + 0
    BY <1>6, <1>8, <2>3
  <2> QED
    BY <1>3, <1>10, <2>2, <2>4, <2>5, <2>6
<1> HIDE DEF s
<1> DEFINE x == Fold[s]
           y == Fold[s + c]
           d == m - 1
<1>12. /\ d \in Nat /\ d > 0 /\ x \in 0..d /\ c = d - x /\ (x = 0 <=> s = 0)
       /\ \E a \in Nat : s = x + d * a
  <2>1. d \in Nat /\ d > 0
    BY <1>1
  <2>2. x \in 0..d /\ (x = 0 <=> s = 0) /\ \E a \in Nat : s = x + d * a
    BY <1>11, FoldIs DEF m
  <2>3. c = d - x
    BY <1>2 DEF s
  <2> QED
    BY <2>1, <2>2, <2>3
<1>13. s + c \in Nat
  BY <1>3, <1>11
<1>14. y \in 0..d /\ (y = 0 <=> s + c = 0) /\ \E b \in Nat : s + c = y + d * b
  BY <1>13, FoldIs DEF m
<1>15. Stream!checksum(all) = d - y
  BY <1>6, <1>11
<1> HIDE DEF x, y, d
<1>16. PICK a \in Nat, b \in Nat : s = x + d * a /\ s + c = y + d * b
  BY <1>12, <1>14
<1>17. y # 0
  BY <1>3, <1>11, <1>12, <1>14
<1>18. y = d * ((a + 1) - b)
  <2>1. d * a \in Nat /\ d * b \in Nat /\ d * ((a + 1) - b) = d * a + d - d * b
    BY <1>12
  <2> QED
    BY <1>3, <1>11, <1>12, <1>14, <1>16, <2>1
<1>19. y = d
  <2> DEFINE e == (a + 1) - b
  <2>1. e \in Int /\ y = d * e
    BY <1>18
  <2> HIDE DEF e
  <2>2. d * 0 = 0 /\ d * 1 = d /\ d * e \in Int
    BY <1>12, <2>1
  <2>3. ~(e < 0)
    <3>1. e < 0 => d * e + d <= d * 0
      BY <1>12, <2>1, LessIsStep
    <3> QED
      BY <1>12, <1>14, <2>1, <2>2, <3>1
  <2>4. ~(1 < e)
    <3>1. 1 < e => d * 1 + d <= d * e
      BY <1>12, <2>1, LessIsStep
    <3> QED
      BY <1>12, <1>14, <2>1, <2>2, <3>1
  <2>5. e = 0 \/ e = 1
    BY <2>1, <2>3, <2>4
  <2> QED
    BY <1>17, <2>1, <2>2, <2>5
<1> QED
  BY <1>12, <1>15, <1>19 DEF all, c, t

-----------------------------------------------------------------------------
(* Fields.                                                                 *)

Byte == 0..Stream!Top
Text == {"string", "double", "int64"}
Coded(f) == Stream!write7BitEncoded[Len(f.value)]

\* What the proofs need to know of the fields: a text has its length in front and
\* fits in the buffer it is read into, the others have a fixed size.
LEMMA FieldIs ==
    ASSUME NEW f \in Stream!Fields
    PROVE  /\ Stream!Bytes(f) \in Seq(Byte)
           /\ f.kind \in Text =>
                 /\ f.value \in Seq(Byte) /\ Len(f.value) <= 2 * Stream!Top
                 /\ f.kind = "int64" => Len(f.value) <= 128
                 /\ Stream!Bytes(f) = Coded(f) \o f.value
                 /\ Stream!Expected(f) = f.value
           /\ f.kind = "int32" => /\ Len(Stream!Bytes(f)) = IntSize
                                  /\ Stream!Expected(f) = <<Stream!Host(Stream!Bytes(f))>>
           /\ f.kind = "short" => /\ Len(Stream!Bytes(f)) = ShortSize
                                  /\ Stream!Expected(f) = <<Stream!Host(Stream!Bytes(f))>>
           /\ f.kind = "char" => /\ Len(Stream!Bytes(f)) = 1
                                 /\ Stream!Expected(f) = Stream!Bytes(f)
           /\ f.kind \in Text \cup {"int32", "short", "char"}
<1> DEFINE t == Stream!Top
           c == Stream!Cont
           long == <<0>> \o [k \in 1..(c + 1) |-> t]
           Is == /\ Stream!Bytes(f) \in Seq(Byte)
                 /\ f.kind \in Text =>
                       /\ f.value \in Seq(Byte) /\ Len(f.value) <= 2 * t
                       /\ f.kind = "int64" => Len(f.value) <= 128
                       /\ Stream!Bytes(f) = Coded(f) \o f.value
                       /\ Stream!Expected(f) = f.value
                 /\ f.kind = "int32" => /\ Len(Stream!Bytes(f)) = IntSize
                                        /\ Stream!Expected(f) = <<Stream!Host(Stream!Bytes(f))>>
                 /\ f.kind = "short" => /\ Len(Stream!Bytes(f)) = ShortSize
                                        /\ Stream!Expected(f) = <<Stream!Host(Stream!Bytes(f))>>
                 /\ f.kind = "char" => /\ Len(Stream!Bytes(f)) = 1
                                       /\ Stream!Expected(f) = Stream!Bytes(f)
                 /\ f.kind \in Text \cup {"int32", "short", "char"}
<1>1. t \in Nat /\ t >= 3 /\ c \in Nat /\ c >= 2 /\ t + 1 = 2 * c /\ IntSize \in Nat \ {0} /\ ShortSize \in Nat \ {0}
  BY Widths
<1>2. Byte = 0..t
  BY DEF Byte
<1>3. \A n \in Nat : Stream!write7BitEncoded[n] \in Seq(Byte)
  BY EncodedIs DEF IsEncoded, Byte
<1>4. \A v \in Nat, n \in Nat : Stream!Net(v, n) \in Seq(Byte) /\ Len(Stream!Net(v, n)) = n
                               /\ (v < Place(n) => Stream!Host(Stream!Net(v, n)) = v)
  BY NetRoundTrip DEF Byte
<1>5. Stream!Word \in Nat /\ Stream!Word >= t + 1 /\ Stream!Word = Place(IntSize) /\ Place(ShortSize) >= t + 1
  BY <1>1, Widths, Places
<1>6. Stream!NullInt \in Nat
  <2> DEFINE w == Stream!Word
  <2>1. w \in Nat
    BY <1>5
  <2> HIDE DEF w
  <2>2. w \div 3 \in Nat
    BY <2>1
  <2> QED
    BY <2>2 DEF Stream!NullInt, w
<1> HIDE DEF t, c
<1>7. CASE \E s \in {<<>>, <<t>>, long} : f = Stream!Field("string", s)
  <2>1. PICK s \in {<<>>, <<t>>, long} : f = Stream!Field("string", s)
    BY <1>7
  <2>2. f.kind = "string" /\ f.value = s
    BY <2>1 DEF Stream!Field
  <2>3. s \in Seq(Byte) /\ Len(s) <= 2 * t
    <3>1. <<>> \in Seq(Byte) /\ Len(<<>>) = 0
      OBVIOUS
    <3>2. <<t>> \in Seq(Byte) /\ Len(<<t>>) = 1
      BY <1>1, <1>2
    <3>3. long \in Seq(Byte) /\ Len(long) = c + 2
      <4> DEFINE a == <<0>>
                 b == [k \in 1..(c + 1) |-> t]
      <4>1. a \in Seq(Byte) /\ Len(a) = 1
        BY <1>1, <1>2
      <4>2. t \in Byte /\ c + 1 \in Nat
        BY <1>1, <1>2
      <4>3. b \in Seq(Byte) /\ Len(b) = c + 1
        BY <4>2
      <4> HIDE DEF a, b
      <4>4. a \o b \in Seq(Byte) /\ Len(a \o b) = Len(a) + Len(b)
        BY <4>1, <4>3, ConcatProperties, Zenon
      <4> QED
        BY <1>1, <4>1, <4>3, <4>4 DEF a, b
    <3>4. s = <<>> \/ s = <<t>> \/ s = long
      BY <2>1
    <3>5. 0 <= 2 * t /\ 1 <= 2 * t /\ c + 2 <= 2 * t
      BY <1>1
    <3> HIDE DEF long
    <3>6. s \in Seq(Byte) /\ Len(s) \in {0, 1, c + 2}
      BY <3>1, <3>2, <3>3, <3>4
    <3> QED
      BY <3>5, <3>6
  <2>4. Stream!Bytes(f) = Coded(f) \o s /\ Stream!Expected(f) = s
    BY <2>2 DEF Stream!Bytes, Stream!Expected, Stream!WriteCString, Coded
  <2>5. Coded(f) \in Seq(Byte)
    BY <1>3, <2>2, <2>3 DEF Coded
  <2>6. Stream!Bytes(f) \in Seq(Byte)
    BY <2>3, <2>4, <2>5
  <2>7. Is
    BY <2>2, <2>3, <2>4, <2>6 DEF Text
  <2> QED
    BY <2>7 DEF t
<1>8. CASE f \in {Stream!Field("double", <<1>>), Stream!Field("int64", <<>>), Stream!Field("int64", <<1, 2>>)}
  <2> DEFINE s == f.value
  <2>1. /\ f.kind \in {"double", "int64"}
        /\ s = <<1>> \/ s = <<>> \/ s = <<1, 2>>
    BY <1>8 DEF Stream!Field
  <2> HIDE DEF s
  <2>2. s \in Seq(Byte) /\ Len(s) <= 2
    <3>1. 1 \in Byte /\ 2 \in Byte
      BY <1>1, <1>2
    <3>2. CASE s = <<1>>
      BY <3>1, <3>2
    <3>3. CASE s = <<>>
      BY <3>3
    <3>4. CASE s = <<1, 2>>
      BY <3>1, <3>4
    <3> QED
      BY <2>1, <3>2, <3>3, <3>4
  <2>3. Len(s) \in Nat /\ Len(s) <= 2 * t /\ Len(s) <= 128
    <3> DEFINE n == Len(s)
    <3>1. n \in Nat /\ n <= 2
      BY <2>2
    <3> HIDE DEF n
    <3>2. n <= 2 * t /\ n <= 128
      BY <1>1, <3>1
    <3> QED
      BY <3>1, <3>2 DEF n
  <2>4. Stream!Bytes(f) = Coded(f) \o s /\ Stream!Expected(f) = s
    BY <2>1 DEF Stream!Bytes, Stream!Expected, Stream!WriteCString, Stream!WriteInt64,
       Stream!WriteDouble, Coded, s
  <2>5. Coded(f) \in Seq(Byte)
    BY <1>3, <2>3 DEF Coded, s
  <2>6. Stream!Bytes(f) \in Seq(Byte)
    BY <2>2, <2>4, <2>5
  <2>7. Is
    BY <2>1, <2>2, <2>3, <2>4, <2>6 DEF Text, s
  <2> QED
    BY <2>7 DEF t
<1>9. CASE \E v \in {<<>>, <<1>>, <<Stream!Word - 1>>} : f = Stream!Field("int32", v)
  <2>1. PICK v \in {<<>>, <<1>>, <<Stream!Word - 1>>} : f = Stream!Field("int32", v)
    BY <1>9
  <2>2. f.kind = "int32" /\ f.value = v
    BY <2>1 DEF Stream!Field
  <2>3. /\ Stream!Bytes(f) \in Seq(Byte) /\ Len(Stream!Bytes(f)) = IntSize
        /\ Stream!Expected(f) = <<Stream!Host(Stream!Bytes(f))>>
    <3>1. CASE v = <<>>
      <4> DEFINE e == Stream!Net(Stream!NullInt, IntSize)
      <4>1. e \in Seq(Byte) /\ Len(e) = IntSize
        BY <1>1, <1>4, <1>6
      <4>2. Stream!Bytes(f) = Stream!Reverse(e) /\ Stream!Expected(f) = <<Stream!Host(Stream!Reverse(e))>>
        BY <2>2, <3>1 DEF Stream!Bytes, Stream!Expected, Stream!WriteInt32
      <4> HIDE DEF e
      <4>3. Stream!Reverse(e) \in Seq(Byte) /\ Len(Stream!Reverse(e)) = IntSize
        <5>1. Stream!Reverse(e) = [i \in 1..IntSize |-> e[(IntSize - i) + 1]]
          BY <4>1 DEF Stream!Reverse
        <5>2. \A i \in 1..IntSize : (IntSize - i) + 1 \in 1..IntSize
          BY <1>1
        <5>3. Stream!Reverse(e) \in [1..IntSize -> Byte]
          BY <4>1, <5>1, <5>2
        <5>4. IntSize \in Nat
          BY <1>1
        <5> HIDE DEF Stream!Reverse
        <5> QED
          BY <5>3, <5>4
      <4> QED
        BY <4>2, <4>3
    <3>2. CASE v # <<>>
      <4>1. \E x \in 0..(Stream!Word - 1) : v = <<x>>
        BY <1>1, <1>5, <2>1, <3>2
      <4>2. PICK x \in 0..(Stream!Word - 1) : v = <<x>>
        BY <4>1
      <4>3. v[1] = x /\ x \in Nat /\ x < Place(IntSize) /\ IntSize \in Nat
        BY <1>1, <1>5, <4>2
      <4>4. Stream!Bytes(f) = Stream!Net(x, IntSize) /\ Stream!Expected(f) = <<x>>
        BY <2>2, <3>2, <4>2, <4>3 DEF Stream!Bytes, Stream!Expected, Stream!WriteInt32
      <4> QED
        BY <1>4, <4>3, <4>4
    <3> QED
      BY <3>1, <3>2
  <2>4. Is
    BY <2>2, <2>3 DEF Text
  <2> QED
    BY <2>4 DEF t
<1>10. CASE \E v \in {<<>>, <<t - 1>>} : f = Stream!Field("short", v)
  <2>1. PICK v \in {<<>>, <<t - 1>>} : f = Stream!Field("short", v)
    BY <1>10
  <2>2. f.kind = "short" /\ f.value = v
    BY <2>1 DEF Stream!Field
  <2>3. \E x \in Nat : /\ x < Place(ShortSize)
                       /\ Stream!Bytes(f) = Stream!Net(x, ShortSize) /\ Stream!Expected(f) = <<x>>
    <3>1. CASE v = <<>>
      <4>1. Stream!Bytes(f) = Stream!Net(0, ShortSize) /\ Stream!Expected(f) = <<0>>
        BY <2>2, <3>1 DEF Stream!Bytes, Stream!Expected, Stream!WriteShort
      <4>2. 0 \in Nat /\ 0 < Place(ShortSize)
        BY <1>1, Places
      <4> QED
        BY <4>1, <4>2
    <3>2. CASE v # <<>>
      <4>1. v = <<t - 1>> /\ v[1] = t - 1
        BY <2>1, <3>2
      <4>2. Stream!Bytes(f) = Stream!Net(t - 1, ShortSize) /\ Stream!Expected(f) = <<t - 1>>
        BY <2>2, <3>2, <4>1 DEF Stream!Bytes, Stream!Expected, Stream!WriteShort
      <4>3. Place(ShortSize) \in Nat
        BY <1>1, Places
      <4>4. t - 1 \in Nat /\ t - 1 < Place(ShortSize)
        BY <1>1, <1>5, <4>3
      <4> QED
        BY <4>2, <4>4
    <3> QED
      BY <3>1, <3>2
  <2>4. ShortSize \in Nat
    BY <1>1
  <2>5. /\ Stream!Bytes(f) \in Seq(Byte) /\ Len(Stream!Bytes(f)) = ShortSize
        /\ Stream!Expected(f) = <<Stream!Host(Stream!Bytes(f))>>
    BY <1>4, <2>3, <2>4
  <2>6. Is
    BY <2>2, <2>5 DEF Text
  <2> QED
    BY <2>6 DEF t
<1>11. CASE \E v \in {<<>>, <<t>>} : f = Stream!Field("char", v)
  <2>1. PICK v \in {<<>>, <<t>>} : f = Stream!Field("char", v)
    BY <1>11
  <2>2. f.kind = "char" /\ f.value = v
    BY <2>1 DEF Stream!Field
  <2>3. \E x \in Byte : Stream!Bytes(f) = <<x>> /\ Stream!Expected(f) = <<x>>
    <3>1. 0 \in Byte /\ t \in Byte
      BY <1>1, <1>2
    <3>2. CASE v = <<>>
      <4>1. Stream!Bytes(f) = <<0>> /\ Stream!Expected(f) = <<0>>
        BY <2>2, <3>2 DEF Stream!Bytes, Stream!Expected, Stream!WriteChar
      <4> QED
        BY <3>1, <4>1
    <3>3. CASE v # <<>>
      <4>1. v = <<t>>
        BY <2>1, <3>3
      <4>2. Stream!Bytes(f) = <<t>> /\ Stream!Expected(f) = <<t>>
        BY <2>2, <3>3, <4>1 DEF Stream!Bytes, Stream!Expected, Stream!WriteChar
      <4> QED
        BY <3>1, <4>2
    <3> QED
      BY <3>2, <3>3
  <2>4. /\ Stream!Bytes(f) \in Seq(Byte) /\ Len(Stream!Bytes(f)) = 1
        /\ Stream!Expected(f) = Stream!Bytes(f)
    BY <2>3
  <2>5. Is
    BY <2>2, <2>4 DEF Text
  <2> QED
    BY <2>5 DEF t
<1>12. \/ \E s \in {<<>>, <<t>>, long} : f = Stream!Field("string", s)
       \/ f \in {Stream!Field("double", <<1>>), Stream!Field("int64", <<>>), Stream!Field("int64", <<1, 2>>)}
       \/ \E v \in {<<>>, <<1>>, <<Stream!Word - 1>>} : f = Stream!Field("int32", v)
       \/ \E v \in {<<>>, <<t - 1>>} : f = Stream!Field("short", v)
       \/ \E v \in {<<>>, <<t>>} : f = Stream!Field("char", v)
  BY DEF Stream!Fields, t, c
<1> HIDE DEF Is, long
<1> QED
  BY <1>7, <1>8, <1>9, <1>10, <1>11, <1>12

-----------------------------------------------------------------------------
(* Reading a length.                                                       *)

LEMMA HeadIs ==
    ASSUME NEW x
    PROVE  LET n == Stream!HeadLen(x)
           IN /\ n \in 1..(IntSize + 1)
              /\ \A k \in 1..(n - 1) : ~(Stream!ByteAt(cur + k, x) < Stream!Cont)
              /\ Stream!ByteAt(cur + n, x) < Stream!Cont \/ n = IntSize + 1
<1> DEFINE last == {k \in 1..(IntSize + 1) : Stream!ByteAt(cur + k, x) < Stream!Cont}
           n == Stream!HeadLen(x)
<1>1. IntSize \in Nat
  BY Widths
<1>2. CASE last = {}
  <2>1. n = IntSize + 1
    BY <1>2 DEF Stream!HeadLen
  <2>2. \A k \in 1..(IntSize + 1) : ~(Stream!ByteAt(cur + k, x) < Stream!Cont)
    BY <1>2
  <2>3. IntSize + 1 \in 1..(IntSize + 1) /\ \A k \in 1..((IntSize + 1) - 1) : k \in 1..(IntSize + 1)
    BY <1>1
  <2> QED
    BY <2>1, <2>2, <2>3
<1>3. CASE last # {}
  <2>1. n = CHOOSE k \in last : \A j \in last : k <= j
    BY <1>3 DEF Stream!HeadLen
  <2>2. \E k \in last : \A j \in last : k <= j
    <3>1. last \in SUBSET Nat
      BY <1>1
    <3> HIDE DEF last
    <3> QED
      BY <1>3, <3>1, LeastOf
  <2>3. n \in last /\ \A j \in last : n <= j
    <3> HIDE DEF last, n
    <3> QED
      BY <2>1, <2>2
  <2> HIDE DEF n
  <2>4. n \in 1..(IntSize + 1) /\ Stream!ByteAt(cur + n, x) < Stream!Cont
    BY <2>3
  <2>5. ASSUME NEW k \in 1..(n - 1) PROVE ~(Stream!ByteAt(cur + k, x) < Stream!Cont)
    <3>1. k \in 1..(IntSize + 1) /\ ~(n <= k)
      BY <1>1, <2>4
    <3>2. k \notin last
      BY <2>3, <3>1
    <3> QED
      BY <3>1, <3>2
  <2> QED
    BY <2>4, <2>5 DEF n
<1> QED
  BY <1>2, <1>3

\* A length that lies in the buffer is the same whatever lies behind.
LEMMA HeadSame ==
    ASSUME NEW x, NEW y, cur \in Nat, buf \in Seq(Byte), cur + Stream!HeadLen(x) <= Len(buf)
    PROVE  Stream!HeadLen(y) = Stream!HeadLen(x)
<1> DEFINE n == Stream!HeadLen(x)
           m == Stream!HeadLen(y)
<1>1. /\ n \in 1..(IntSize + 1) /\ m \in 1..(IntSize + 1) /\ IntSize \in Nat
      /\ \A k \in 1..(n - 1) : ~(Stream!ByteAt(cur + k, x) < Stream!Cont)
      /\ Stream!ByteAt(cur + n, x) < Stream!Cont \/ n = IntSize + 1
      /\ \A k \in 1..(m - 1) : ~(Stream!ByteAt(cur + k, y) < Stream!Cont)
      /\ Stream!ByteAt(cur + m, y) < Stream!Cont \/ m = IntSize + 1
  BY HeadIs, Widths
<1> HIDE DEF n, m
<1>2. cur + n <= Len(buf) /\ Len(buf) \in Nat
  BY DEF n
<1>3. \A k \in 1..n : Stream!ByteAt(cur + k, x) = Stream!ByteAt(cur + k, y)
  <2> SUFFICES ASSUME NEW k \in 1..n PROVE Stream!ByteAt(cur + k, x) = Stream!ByteAt(cur + k, y)
    OBVIOUS
  <2>1. cur + k <= Len(buf)
    BY <1>1, <1>2
  <2> QED
    BY <2>1 DEF Stream!ByteAt
<1>4. ~(m < n)
  <2> SUFFICES ASSUME m < n PROVE FALSE
    OBVIOUS
  <2>1. m \in 1..n /\ m \in 1..(n - 1) /\ m # IntSize + 1
    BY <1>1
  <2> QED
    BY <1>1, <1>3, <2>1
<1>5. ~(n < m)
  <2> SUFFICES ASSUME n < m PROVE FALSE
    OBVIOUS
  <2>1. n \in 1..n /\ n \in 1..(m - 1) /\ n # IntSize + 1
    BY <1>1
  <2> QED
    BY <1>1, <1>3, <2>1
<1>6. n = m
  BY <1>1, <1>4, <1>5
<1> QED
  BY <1>6 DEF n, m

LEMMA OwnBytes ==
    ASSUME NEW x, NEW y, cur \in Nat, buf \in Seq(Byte)
    PROVE  Stream!ReadLengthWithoutOffset(x) = Stream!ReadLengthWithoutOffset(y)
<1> DEFINE n == Stream!HeadLen(x)
           m == Stream!HeadLen(y)
           a == [k \in 1..n |-> Stream!ByteAt(cur + k, x)]
           b == [k \in 1..m |-> Stream!ByteAt(cur + k, y)]
           After(l, bytes) ==
               IF cur + l > Len(buf) THEN {Stream!Result(FALSE, 0, 0)}
               ELSE IF bytes[l] < Stream!Cont THEN {Stream!Result(TRUE, l, Stream!read7BitEncoded(bytes))}
               ELSE {Stream!Result(TRUE, l, v) : v \in {0, 1, Stream!Word - 1}}
<1>1. Stream!ReadLengthWithoutOffset(x) = After(n, a) /\ Stream!ReadLengthWithoutOffset(y) = After(m, b)
  BY DEF Stream!ReadLengthWithoutOffset
<1>2. n \in Nat /\ m \in Nat /\ Len(buf) \in Nat
  BY HeadIs, Widths
<1>3. CASE cur + n <= Len(buf) \/ cur + m <= Len(buf)
  <2>1. m = n
    BY <1>3, HeadSame
  <2>2. a = b
    <3>1. ASSUME NEW k \in 1..n PROVE Stream!ByteAt(cur + k, x) = Stream!ByteAt(cur + k, y)
      <4>1. cur + k <= Len(buf)
        <5> HIDE DEF n, m
        <5> QED
          BY <1>2, <1>3, <2>1
      <4> QED
        BY <4>1 DEF Stream!ByteAt
    <3> HIDE DEF n, m
    <3> QED
      BY <2>1, <3>1
  <2> HIDE DEF n, m, a, b, After
  <2> QED
    BY <1>1, <2>1, <2>2
<1>4. CASE cur + n > Len(buf) /\ cur + m > Len(buf)
  <2> HIDE DEF n, m, a, b
  <2> QED
    BY <1>1, <1>4
<1> HIDE DEF n, m
<1> QED
  BY <1>2, <1>3, <1>4

\* What the reader is given of bytes e that stand at its place.
StandsHere(e) == \A k \in 1..Len(e) : cur + k <= Len(buf) => buf[cur + k] = e[k]

\* A length that was written is found and read, and nothing else is.
LEMMA LengthRead ==
    ASSUME NEW v \in 0..(Stream!Word - 1), NEW x, cur \in Nat, buf \in Seq(Byte),
           StandsHere(Stream!write7BitEncoded[v]),
           \/ cur + Stream!HeadLen(x) <= Len(buf)
           \/ cur + Len(Stream!write7BitEncoded[v]) <= Len(buf)
    PROVE  /\ Stream!ReadLengthWithoutOffset(x) = {Stream!Result(TRUE, Len(Stream!write7BitEncoded[v]), v)}
           /\ cur + Len(Stream!write7BitEncoded[v]) <= Len(buf)
<1> DEFINE e == Stream!write7BitEncoded[v]
           m == Len(e)
           n == Stream!HeadLen(x)
           c == Stream!Cont
           bytes == [k \in 1..n |-> Stream!ByteAt(cur + k, x)]
<1>1. v \in Nat /\ IntSize \in Nat /\ c \in Nat /\ Len(buf) \in Nat
  BY Widths
<1>2. IsEncoded(v, e)
  BY <1>1, EncodedIs
<1>3. m <= IntSize + 1 /\ Stream!read7BitEncoded(e) = v
  BY LengthRoundTrip
<1>4. StandsHere(e) /\ (cur + n <= Len(buf) \/ cur + m <= Len(buf))
  OBVIOUS
<1>5. /\ n \in 1..(IntSize + 1)
      /\ \A k \in 1..(n - 1) : ~(Stream!ByteAt(cur + k, x) < c)
      /\ Stream!ByteAt(cur + n, x) < c \/ n = IntSize + 1
  BY HeadIs
<1> HIDE DEF e, n, c
<1>6. /\ e \in Seq(Byte) /\ m \in Nat /\ m >= 1 /\ e[m] < c
      /\ \A k \in 1..(m - 1) : ~(e[k] < c)
  <2>1. e \in Seq(Byte) /\ m \in Nat /\ m >= 1 /\ e[m] < c
    BY <1>2 DEF IsEncoded, Byte, c
  <2>2. ASSUME NEW k \in 1..(m - 1) PROVE ~(e[k] < c)
    <3>1. e[k] >= c
      BY <1>2 DEF IsEncoded, c
    <3>2. k \in 1..m
      BY <2>1
    <3>3. e[k] \in Nat
      BY <2>1, <3>2, Widths DEF Byte
    <3> QED
      BY <1>1, <3>1, <3>3
  <2> QED
    BY <2>1, <2>2
<1> HIDE DEF m
<1>7. \A k \in 1..m : cur + k <= Len(buf) => Stream!ByteAt(cur + k, x) = e[k]
  BY <1>4 DEF StandsHere, Stream!ByteAt, m
<1>8. n = m
  <2>1. ~(n < m)
    <3> SUFFICES ASSUME n < m PROVE FALSE
      OBVIOUS
    <3>1. n \in 1..m /\ n \in 1..(m - 1) /\ n # IntSize + 1 /\ cur + n <= Len(buf)
      BY <1>1, <1>3, <1>4, <1>5, <1>6
    <3> QED
      BY <1>5, <1>6, <1>7, <3>1
  <2>2. ~(m < n)
    <3> SUFFICES ASSUME m < n PROVE FALSE
      OBVIOUS
    <3>1. m \in 1..m /\ m \in 1..(n - 1) /\ cur + m <= Len(buf)
      BY <1>1, <1>4, <1>5, <1>6
    <3> QED
      BY <1>5, <1>6, <1>7, <3>1
  <2> QED
    BY <1>1, <1>5, <1>6, <2>1, <2>2
<1>9. cur + m <= Len(buf)
  BY <1>4, <1>8
<1>10. bytes = e
  <2>1. \A k \in 1..m : cur + k <= Len(buf)
    BY <1>1, <1>6, <1>9
  <2>2. \A k \in 1..m : Stream!ByteAt(cur + k, x) = e[k]
    BY <1>7, <2>1
  <2>3. bytes = [k \in 1..m |-> e[k]]
    BY <1>8, <2>2
  <2>4. e = [k \in 1..m |-> e[k]]
    BY <1>6 DEF m
  <2> QED
    BY <2>3, <2>4
<1>11. ~(cur + n > Len(buf))
  BY <1>1, <1>6, <1>8, <1>9
<1>12. Stream!ReadLengthWithoutOffset(x) =
         IF cur + n > Len(buf) THEN {Stream!Result(FALSE, 0, 0)}
         ELSE IF bytes[n] < c THEN {Stream!Result(TRUE, n, Stream!read7BitEncoded(bytes))}
         ELSE {Stream!Result(TRUE, n, w) : w \in {0, 1, Stream!Word - 1}}
  BY DEF Stream!ReadLengthWithoutOffset, n, c
<1> HIDE DEF bytes
<1>13. Stream!ReadLengthWithoutOffset(x) = {Stream!Result(TRUE, m, v)}
  BY <1>3, <1>6, <1>8, <1>10, <1>11, <1>12
<1> QED
  BY <1>9, <1>13 DEF e, m

\* Every length that is read is a number, and lies in the buffer when it counts.
LEMMA LengthsRead ==
    ASSUME NEW x \in {0, Stream!Top}, cur \in Nat, buf \in Seq(Byte),
           NEW h \in Stream!ReadLengthWithoutOffset(x)
    PROVE  /\ h.ok \in BOOLEAN /\ h.at \in Nat /\ h.val \in Nat
           /\ h.ok => cur + Stream!HeadLen(x) <= Len(buf) /\ cur + h.at <= Len(buf)
           /\ ~h.ok => h.at = 0
<1> DEFINE n == Stream!HeadLen(x)
           bytes == [k \in 1..n |-> Stream!ByteAt(cur + k, x)]
<1>1. n \in Nat /\ n >= 1 /\ Len(buf) \in Nat /\ Stream!Word \in Nat \ {0} /\ Stream!Top \in Nat
  BY HeadIs, Widths
<1>2. h \in IF cur + n > Len(buf) THEN {Stream!Result(FALSE, 0, 0)}
            ELSE IF bytes[n] < Stream!Cont THEN {Stream!Result(TRUE, n, Stream!read7BitEncoded(bytes))}
            ELSE {Stream!Result(TRUE, n, w) : w \in {0, 1, Stream!Word - 1}}
  BY DEF Stream!ReadLengthWithoutOffset
<1> HIDE DEF n
<1>3. bytes \in Seq(Nat)
  <2>1. ASSUME NEW k \in 1..n PROVE Stream!ByteAt(cur + k, x) \in Nat
    <3>1. cur + k \in Nat /\ cur + k >= 1
      BY <1>1
    <3>2. x \in Nat
      BY <1>1
    <3>3. cur + k <= Len(buf) => buf[cur + k] \in Nat
      <4>1. cur + k <= Len(buf) => cur + k \in 1..Len(buf)
        BY <1>1, <3>1
      <4>2. cur + k <= Len(buf) => buf[cur + k] \in Byte
        BY <4>1
      <4> QED
        BY <1>1, <4>2 DEF Byte
    <3> QED
      BY <3>2, <3>3 DEF Stream!ByteAt
  <2>2. bytes \in [1..n -> Nat]
    BY <2>1
  <2> HIDE DEF bytes
  <2> QED
    BY <1>1, <2>2
<1> HIDE DEF bytes
<1>4. Stream!read7BitEncoded(bytes) \in Nat
  <2>1. PICK f : Stream!read7BitEncoded(bytes) = f[Len(bytes)] /\ \A k \in 0..Len(bytes) : f[k] \in Nat
    BY <1>3, ReadIs
  <2>2. Len(bytes) \in 0..Len(bytes)
    BY <1>3
  <2> QED
    BY <2>1, <2>2
<1>5. CASE cur + n > Len(buf)
  <2>1. h = Stream!Result(FALSE, 0, 0)
    BY <1>2, <1>5
  <2>2. h.ok = FALSE /\ h.at = 0 /\ h.val = 0
    BY <2>1 DEF Stream!Result
  <2>3. ~h.ok /\ h.ok \in BOOLEAN
    BY <2>2, Zenon
  <2>4. h.at \in Nat /\ h.val \in Nat
    BY <2>2
  <2> QED
    BY <2>2, <2>3, <2>4, Zenon
<1>6. CASE ~(cur + n > Len(buf))
  <2>1. \E w \in Nat : h = Stream!Result(TRUE, n, w)
    <3>1. 0 \in Nat /\ 1 \in Nat /\ Stream!Word - 1 \in Nat
      BY <1>1
    <3> QED
      BY <1>2, <1>4, <1>6, <3>1
  <2>2. h.ok = TRUE /\ h.at = n /\ h.val \in Nat
    BY <2>1 DEF Stream!Result
  <2>3. cur + n <= Len(buf) /\ cur + Stream!HeadLen(x) = cur + n
    BY <1>1, <1>6 DEF n
  <2>4. h.ok \in BOOLEAN /\ h.at \in Nat
    BY <1>1, <2>2
  <2> QED
    BY <2>2, <2>3, <2>4
<1> QED
  BY <1>5, <1>6

-----------------------------------------------------------------------------
(* Reading a field.                                                        *)

LEMMA PieceIs ==
    ASSUME NEW T, NEW s \in Seq(T), NEW a \in Nat, NEW n \in Nat, a + n <= Len(s)
    PROVE  /\ SubSeq(s, a + 1, a + n) \in Seq(T) /\ Len(SubSeq(s, a + 1, a + n)) = n
           /\ \A k \in 1..n : SubSeq(s, a + 1, a + n)[k] = s[a + k]
<1> DEFINE m == Len(s)
           q == SubSeq(s, a + 1, a + n)
<1>1. m \in Nat /\ a + n <= m /\ \A i \in 1..m : s[i] \in T
  OBVIOUS
<1> HIDE DEF m
<1>2. a + 1 \in Int /\ a + n \in Int /\ \A i \in (a + 1)..(a + n) : i \in 1..m
  BY <1>1
<1>3. \A i \in (a + 1)..(a + n) : s[i] \in T
  BY <1>1, <1>2
<1>4. /\ q \in Seq(T)
      /\ Len(q) = IF a + 1 <= a + n THEN (a + n) - (a + 1) + 1 ELSE 0
      /\ \A i \in 1..((a + n) - (a + 1) + 1) : q[i] = s[(a + 1) + i - 1]
  BY <1>2, <1>3, SubSeqProperties
<1> HIDE DEF q
<1>5. Len(q) = n
  BY <1>4
<1>6. \A k \in 1..n : k \in 1..((a + n) - (a + 1) + 1) /\ (a + 1) + k - 1 = a + k
  OBVIOUS
<1> QED
  BY <1>4, <1>5, <1>6 DEF q

\* Bytes that stand here, all of them in the buffer.
LEMMA PieceHere ==
    ASSUME NEW e \in Seq(Byte), StandsHere(e), cur \in Nat, buf \in Seq(Byte), cur + Len(e) <= Len(buf)
    PROVE  SubSeq(buf, cur + 1, cur + Len(e)) = e
<1> DEFINE q == SubSeq(buf, cur + 1, cur + Len(e))
           n == Len(e)
<1>1. n \in Nat /\ cur + n <= Len(buf) /\ Len(buf) \in Nat
  OBVIOUS
<1>2. q \in Seq(Byte) /\ Len(q) = n /\ \A k \in 1..n : q[k] = buf[cur + k]
  BY <1>1, PieceIs
<1>3. \A k \in 1..n : buf[cur + k] = e[k]
  <2>1. \A k \in 1..n : cur + k <= Len(buf)
    BY <1>1
  <2> QED
    BY <2>1 DEF StandsHere
<1>4. q = [k \in 1..n |-> q[k]]
  <2> HIDE DEF q
  <2> QED
    BY <1>2
<1>5. e = [k \in 1..n |-> e[k]]
  OBVIOUS
<1> HIDE DEF q, n
<1>6. q = e
  BY <1>2, <1>3, <1>4, <1>5
<1> QED
  BY <1>6 DEF q, n

IsText(r, h, cap) ==
    /\ r.ok \in BOOLEAN /\ r.at \in Nat /\ r.at <= Len(buf) /\ r.val \in Seq(Byte)
    /\ r.ok => /\ h.ok /\ r.at = (cur + h.at) + h.val
               /\ r.val = SubSeq(buf, (cur + h.at) + 1, (cur + h.at) + h.val)
    /\ h.ok /\ h.val <= cap /\ (cur + h.at) + h.val <= Len(buf) => r.ok

LEMMA TextRead ==
    ASSUME NEW h, h.ok \in BOOLEAN, h.at \in Nat, h.val \in Nat, h.ok => cur + h.at <= Len(buf),
           cur \in Nat, buf \in Seq(Byte), cur <= Len(buf), NEW cap \in Nat,
           NEW r \in {Stream!ReadCString(h, cap), Stream!ReadString(h, cap), Stream!ReadCCString(h, cap)}
    PROVE  IsText(r, h, cap)
<1> DEFINE at == cur + h.at
           n == h.val
           no == Stream!Result(FALSE, cur, <<>>)
           cut == Stream!Result(FALSE, at, <<>>)
           all == Stream!Result(TRUE, at + n, SubSeq(buf, at + 1, at + n))
           After(fits) == IF ~h.ok \/ ~fits THEN no ELSE IF at + n > Len(buf) THEN cut ELSE all
<1>1. r \in {After(n <= cap), After(cap = 0 \/ n <= cap)}
  BY DEF Stream!ReadCString, Stream!ReadString, Stream!ReadCCString, Stream!StringAfter, Stream!Unlimited
<1>2. PICK fits \in BOOLEAN : r = After(fits) /\ (n <= cap => fits)
  <2>1. (n <= cap) \in BOOLEAN /\ (cap = 0 \/ n <= cap) \in BOOLEAN
    OBVIOUS
  <2> QED
    BY <1>1, <2>1, Zenon
<1>3. at \in Nat /\ n \in Nat /\ Len(buf) \in Nat /\ (h.ok => at <= Len(buf))
  OBVIOUS
<1> HIDE DEF at, n
<1>4. CASE r = no /\ (~h.ok \/ ~fits)
  <2>1. r.ok = FALSE /\ r.at = cur /\ r.val = <<>>
    BY <1>4 DEF Stream!Result
  <2>2. ~r.ok /\ r.ok \in BOOLEAN
    BY <2>1, Zenon
  <2>3. r.at \in Nat /\ r.at <= Len(buf) /\ r.val \in Seq(Byte)
    BY <2>1
  <2>4. ~(h.ok /\ n <= cap)
    BY <1>2, <1>4, Zenon
  <2> QED
    BY <2>2, <2>3, <2>4, Zenon DEF IsText, n
<1>5. CASE r = cut /\ h.ok /\ at + n > Len(buf)
  <2>1. r.ok = FALSE /\ r.at = at /\ r.val = <<>>
    BY <1>5 DEF Stream!Result
  <2>2. ~r.ok /\ r.ok \in BOOLEAN
    BY <2>1, Zenon
  <2>0. at \in Nat /\ at <= Len(buf)
    BY <1>3, <1>5, Zenon
  <2>3. r.at \in Nat /\ r.at <= Len(buf) /\ r.val \in Seq(Byte)
    BY <2>0, <2>1
  <2>4. ~(at + n <= Len(buf))
    BY <1>3, <1>5
  <2> QED
    BY <2>2, <2>3, <2>4, Zenon DEF IsText, n, at
<1>6. CASE r = all /\ h.ok /\ ~(at + n > Len(buf))
  <2>1. r.ok = TRUE /\ r.at = at + n /\ r.val = SubSeq(buf, at + 1, at + n)
    BY <1>6 DEF Stream!Result
  <2>2. r.ok /\ r.ok \in BOOLEAN
    BY <2>1, Zenon
  <2>3. at + n \in Nat /\ at + n <= Len(buf)
    BY <1>3, <1>6
  <2>4. r.val \in Seq(Byte)
    BY <1>3, <2>1, <2>3, PieceIs
  <2>5. r.at \in Nat /\ r.at <= Len(buf)
    BY <2>1, <2>3
  <2> QED
    BY <1>6, <2>1, <2>2, <2>4, <2>5, Zenon DEF IsText, n, at
<1>7. \/ r = no /\ (~h.ok \/ ~fits)
      \/ r = cut /\ h.ok /\ at + n > Len(buf)
      \/ r = all /\ h.ok /\ ~(at + n > Len(buf))
  BY <1>2, Zenon
<1> QED
  BY <1>4, <1>5, <1>6, <1>7

\* What the calls for a field of a kind return.
\* What may follow the digits of a 64-bit number is read as well.
Grown(r, q) == r = q \/ (q.ok /\ r = [q EXCEPT !.val = Append(@, 9)])

LEMMA ReadsAre ==
    ASSUME NEW kind \in Text \cup {"int32", "short", "char", "length"}, NEW cap \in Nat,
           NEW x \in {0, Stream!Top}, NEW r \in Stream!Reads(kind, cap, x),
           cur \in Nat, buf \in Seq(Byte), cur <= Len(buf)
    PROVE  /\ kind \in {"string", "double"} =>
                 \E h \in Stream!ReadLengthWithoutOffset(x) : IsText(r, h, cap)
           /\ kind = "int64" =>
                 \E h, q : /\ h \in Stream!ReadLengthWithoutOffset(x)
                           /\ IsText(q, h, 128) /\ Grown(r, q)
           /\ kind = "length" => \E h \in Stream!ReadLengthWithoutOffset(x) : r = Stream!ReadLength(h)
           /\ kind = "int32" => r = Stream!ReadInt32
           /\ kind = "short" => r = Stream!ReadShort
           /\ kind = "char" => r = Stream!ReadChar
<1> DEFINE heads == Stream!ReadLengthWithoutOffset(x)
<1>1. \A h \in heads : /\ h.ok \in BOOLEAN /\ h.at \in Nat /\ h.val \in Nat
                       /\ h.ok => cur + h.at <= Len(buf)
  BY LengthsRead
<1> HIDE DEF heads
<1>2. ASSUME kind \in {"string", "double"} PROVE \E h \in heads : IsText(r, h, cap)
  <2>1. \E h \in heads : r \in {Stream!ReadCString(h, cap), Stream!ReadString(h, cap), Stream!ReadCCString(h, cap)}
    BY <1>2 DEF Stream!Reads, heads
  <2>2. PICK h \in heads : r \in {Stream!ReadCString(h, cap), Stream!ReadString(h, cap), Stream!ReadCCString(h, cap)}
    BY <2>1
  <2>3. IsText(r, h, cap)
    BY <1>1, <2>2, TextRead
  <2> QED
    BY <2>3
<1>3. ASSUME kind = "int64"
      PROVE  \E h, q : h \in heads /\ IsText(q, h, 128) /\ Grown(r, q)
  <2>1. \E h \in heads : r \in Stream!ReadInt64(h)
    BY <1>3 DEF Stream!Reads, heads
  <2>2. PICK h \in heads : r \in Stream!ReadInt64(h)
    BY <2>1
  <2> DEFINE q == Stream!ReadCString(h, 128)
  <2>3. 128 \in Nat /\ q \in {Stream!ReadCString(h, 128), Stream!ReadString(h, 128), Stream!ReadCCString(h, 128)}
    OBVIOUS
  <2>4. IsText(q, h, 128)
    <3> HIDE DEF q
    <3> QED
      BY <1>1, <2>3, TextRead
  <2>5. Grown(r, q)
    BY <2>2 DEF Stream!ReadInt64, Grown
  <2> HIDE DEF q
  <2> QED
    BY <2>4, <2>5
<1>4. kind = "length" => \E h \in heads : r = Stream!ReadLength(h)
  BY DEF Stream!Reads, heads
<1>5. kind = "int32" => r = Stream!ReadInt32
  BY DEF Stream!Reads
<1>6. kind = "short" => r = Stream!ReadShort
  BY DEF Stream!Reads
<1>7. kind = "char" => r = Stream!ReadChar
  BY DEF Stream!Reads
<1> QED
  BY <1>2, <1>3, <1>4, <1>5, <1>6, <1>7 DEF heads

Width(kind) == IF kind = "int32" THEN IntSize ELSE IF kind = "short" THEN ShortSize ELSE 1
Fixed(kind, b) == IF kind = "char" THEN b ELSE <<Stream!Host(b)>>

LEMMA HostNat == ASSUME NEW e \in Seq(Nat) PROVE Stream!Host(e) \in Nat
<1>1. PICK f : Stream!Host(e) = f[Len(e)] /\ \A k \in 0..Len(e) : f[k] \in Nat
  BY HostIs
<1>2. Len(e) \in 0..Len(e)
  OBVIOUS
<1> QED
  BY <1>1, <1>2

LEMMA ByteNat == Byte \subseteq Nat /\ \A s \in Seq(Byte) : s \in Seq(Nat)
<1>1. Byte \subseteq Nat
  BY Widths DEF Byte
<1> SUFFICES ASSUME NEW s \in Seq(Byte) PROVE s \in Seq(Nat)
  BY <1>1
<1>2. s \in [1..Len(s) -> Byte] /\ Len(s) \in Nat
  OBVIOUS
<1>3. s \in [1..Len(s) -> Nat]
  BY <1>1, <1>2
<1> QED
  BY <1>2, <1>3

LEMMA FixedRead ==
    ASSUME NEW kind \in {"int32", "short", "char"}, NEW cap \in Nat, NEW x \in {0, Stream!Top},
           NEW r \in Stream!Reads(kind, cap, x), cur \in Nat, buf \in Seq(Byte), cur <= Len(buf)
    PROVE  /\ r.ok \in BOOLEAN /\ r.at \in Nat /\ r.at <= Len(buf) /\ r.val \in Seq(Nat)
           /\ r.ok => /\ r.at = cur + Width(kind)
                      /\ r.val = Fixed(kind, SubSeq(buf, cur + 1, cur + Width(kind)))
           /\ r.ok <=> cur + Width(kind) <= Len(buf)
<1> DEFINE w == Width(kind)
           b == SubSeq(buf, cur + 1, cur + w)
<1>1. w \in Nat /\ Len(buf) \in Nat
  BY Widths DEF Width
<1>2. r = IF cur + w > Len(buf) THEN Stream!Result(FALSE, cur, <<>>)
          ELSE Stream!Result(TRUE, cur + w, Fixed(kind, b))
  <2>1. /\ kind = "int32" => r = Stream!ReadInt32
        /\ kind = "short" => r = Stream!ReadShort
        /\ kind = "char" => r = Stream!ReadChar
    BY DEF Stream!Reads
  <2>2. CASE kind = "int32"
    BY <2>1, <2>2 DEF Stream!ReadInt32, Stream!Fixed, Width, Fixed
  <2>3. CASE kind = "short"
    BY <2>1, <2>3 DEF Stream!ReadShort, Stream!Fixed, Width, Fixed
  <2>4. CASE kind = "char"
    BY <2>1, <2>4 DEF Stream!ReadChar, Stream!Fixed, Width, Fixed
  <2> QED
    BY <2>2, <2>3, <2>4
<1> HIDE DEF w
<1>3. CASE cur + w > Len(buf)
  <2>1. r.ok = FALSE /\ r.at = cur /\ r.val = <<>>
    BY <1>2, <1>3 DEF Stream!Result
  <2>2. ~r.ok /\ r.ok \in BOOLEAN
    BY <2>1, Zenon
  <2>3. r.at \in Nat /\ r.at <= Len(buf) /\ r.val \in Seq(Nat)
    BY <2>1
  <2>4. ~(cur + w <= Len(buf))
    BY <1>1, <1>3
  <2> QED
    BY <2>2, <2>3, <2>4, Zenon DEF w
<1>4. CASE ~(cur + w > Len(buf))
  <2>1. r.ok = TRUE /\ r.at = cur + w /\ r.val = Fixed(kind, b)
    BY <1>2, <1>4 DEF Stream!Result
  <2>2. r.ok /\ r.ok \in BOOLEAN
    BY <2>1, Zenon
  <2>3. cur + w <= Len(buf)
    BY <1>1, <1>4
  <2>4. r.at \in Nat /\ r.at <= Len(buf)
    BY <1>1, <2>1, <2>3
  <2>5. b \in Seq(Byte)
    BY <1>1, <2>3, PieceIs
  <2> HIDE DEF b
  <2>6. b \in Seq(Nat)
    BY <2>5, ByteNat
  <2>7. <<Stream!Host(b)>> \in Seq(Nat)
    <3>1. Stream!Host(b) \in Nat
      BY <2>6, HostNat
    <3> QED
      BY <3>1
  <2>8. r.val \in Seq(Nat)
    BY <2>1, <2>6, <2>7 DEF Fixed
  <2> QED
    BY <2>1, <2>2, <2>3, <2>4, <2>8, Zenon DEF w, b
<1> QED
  BY <1>3, <1>4

\* No read goes past the end, whatever is read.
LEMMA ReadsStay ==
    ASSUME NEW kind \in Text \cup {"int32", "short", "char", "length"}, NEW cap \in Nat,
           NEW x \in {0, Stream!Top}, NEW r \in Stream!Reads(kind, cap, x),
           cur \in Nat, buf \in Seq(Byte), cur <= Len(buf)
    PROVE  r.ok \in BOOLEAN /\ r.at \in Nat /\ r.at <= Len(buf) /\ r.val \in Seq(Nat)
<1>1. CASE kind \in {"string", "double"}
  <2>1. PICK h : IsText(r, h, cap)
    BY <1>1, ReadsAre
  <2> QED
    BY <2>1, ByteNat DEF IsText
<1>2. CASE kind = "int64"
  <2>1. \E h, q : IsText(q, h, 128) /\ Grown(r, q)
    BY <1>2, ReadsAre
  <2>2. PICK q : /\ q.ok \in BOOLEAN /\ q.at \in Nat /\ q.at <= Len(buf) /\ q.val \in Seq(Byte)
                 /\ r = q \/ r = [q EXCEPT !.val = Append(@, 9)]
    BY <2>1 DEF IsText, Grown
  <2>3. q.val \in Seq(Nat)
    BY <2>2, ByteNat
  <2>4. CASE r = q
    BY <2>2, <2>3, <2>4
  <2>5. CASE r = [q EXCEPT !.val = Append(@, 9)]
    <3>1. Append(q.val, 9) \in Seq(Nat)
      BY <2>3
    <3>2. r.ok = q.ok /\ r.at = q.at
      BY <2>5
    <3>3. r.val = Append(q.val, 9) \/ r.val = q.val
      BY <2>5
    <3> QED
      BY <2>2, <2>3, <3>1, <3>2, <3>3
  <2> QED
    BY <2>2, <2>4, <2>5
<1>3. CASE kind = "length"
  <2>1. PICK h \in Stream!ReadLengthWithoutOffset(x) : r = Stream!ReadLength(h)
    BY <1>3, ReadsAre
  <2>2. /\ h.ok \in BOOLEAN /\ h.at \in Nat
        /\ h.ok => cur + h.at <= Len(buf)
        /\ ~h.ok => h.at = 0
    BY LengthsRead
  <2>3. r.ok = h.ok /\ r.at = cur + h.at /\ r.val = <<>>
    BY <2>1 DEF Stream!ReadLength, Stream!Result
  <2>4. cur + h.at <= Len(buf)
    BY <2>2
  <2> QED
    BY <2>2, <2>3, <2>4
<1>4. CASE kind \in {"int32", "short", "char"}
  BY <1>4, FixedRead
<1> QED
  BY <1>1, <1>2, <1>3, <1>4 DEF Text

\* A field comes back as it was written; after a 64-bit number more digits may follow.
ComesBack(f, v) ==
    IF f.kind = "int64" THEN Stream!IsPrefix(Stream!Expected(f), v) ELSE v = Stream!Expected(f)

LEMMA CodedRead ==
    ASSUME NEW f \in Stream!Fields, f.kind \in Text, Len(f.value) < Stream!Word,
           NEW x \in {0, Stream!Top}, StandsHere(Stream!Bytes(f)),
           cur \in Nat, buf \in Seq(Byte), cur <= Len(buf), NEW cap \in Nat,
           NEW h \in Stream!ReadLengthWithoutOffset(x), NEW q, IsText(q, h, cap)
    PROVE  /\ q.ok => q.at = cur + Len(Stream!Bytes(f)) /\ q.val = f.value
           /\ Len(f.value) <= cap /\ cur + Len(Stream!Bytes(f)) <= Len(buf) => q.ok
<1> DEFINE e == Coded(f)
           s == f.value
           m == Len(e)
           n == Len(s)
           all == Stream!Bytes(f)
<1>1. s \in Seq(Byte) /\ n \in Nat /\ all = e \o s /\ n \in 0..(Stream!Word - 1)
  <2>1. s \in Seq(Byte) /\ all = e \o s
    BY FieldIs
  <2>2. n \in Nat /\ Stream!Word \in Nat
    BY <2>1, Widths
  <2> QED
    BY <2>1, <2>2
<1>2. e \in Seq(Byte) /\ m \in Nat
  <2>1. e \in Seq(Byte)
    BY <1>1, EncodedIs DEF IsEncoded, Coded, Byte
  <2> HIDE DEF e
  <2> QED
    BY <2>1
<1>3. e = Stream!write7BitEncoded[n]
  BY DEF Coded
<1>4. StandsHere(all) /\ Len(buf) \in Nat
  OBVIOUS
<1> HIDE DEF e, s, all
<1>5. Len(all) = m + n /\ \A k \in 1..(m + n) : all[k] = IF k <= m THEN e[k] ELSE s[k - m]
  BY <1>1, <1>2, ConcatProperties
<1> HIDE DEF m, n
<1>6. StandsHere(e)
  <2>1. \A k \in 1..m : k \in 1..(m + n) /\ k <= m
    BY <1>1, <1>2
  <2> QED
    BY <1>4, <1>5, <2>1 DEF StandsHere, m
<1>7. \A k \in 1..n : (cur + m) + k <= Len(buf) => buf[(cur + m) + k] = s[k]
  <2> SUFFICES ASSUME NEW k \in 1..n, (cur + m) + k <= Len(buf) PROVE buf[(cur + m) + k] = s[k]
    OBVIOUS
  <2>1. m + k \in 1..(m + n) /\ ~(m + k <= m) /\ (m + k) - m = k /\ cur + (m + k) = (cur + m) + k
    BY <1>1, <1>2
  <2> QED
    BY <1>4, <1>5, <2>1 DEF StandsHere
<1>8. ASSUME cur + Stream!HeadLen(x) <= Len(buf) \/ cur + m <= Len(buf)
      PROVE  h.ok = TRUE /\ h.at = m /\ h.val = n /\ cur + m <= Len(buf)
  <2>1. Stream!ReadLengthWithoutOffset(x) = {Stream!Result(TRUE, m, n)} /\ cur + m <= Len(buf)
    BY <1>1, <1>3, <1>6, <1>8, LengthRead DEF m
  <2>2. h = Stream!Result(TRUE, m, n)
    BY <2>1
  <2> QED
    BY <2>1, <2>2 DEF Stream!Result
<1>9. ASSUME q.ok PROVE q.at = cur + (m + n) /\ q.val = s
  <2>1. h.ok /\ q.at = (cur + h.at) + h.val /\ q.val = SubSeq(buf, (cur + h.at) + 1, (cur + h.at) + h.val)
        /\ q.at <= Len(buf)
    BY <1>9, Zenon DEF IsText
  <2>2. cur + Stream!HeadLen(x) <= Len(buf)
    BY <2>1, LengthsRead
  <2>3. h.at = m /\ h.val = n
    BY <1>8, <2>2
  <2>4. (cur + m) + n <= Len(buf) /\ cur + m \in Nat
    BY <1>1, <1>2, <2>1, <2>3
  <2> DEFINE p == SubSeq(buf, (cur + m) + 1, (cur + m) + n)
  <2>5. p \in Seq(Byte) /\ Len(p) = n /\ \A k \in 1..n : p[k] = buf[(cur + m) + k]
    BY <1>1, <2>4, PieceIs
  <2>6. \A k \in 1..n : (cur + m) + k <= Len(buf)
    BY <1>1, <2>4
  <2>7. q.val = p
    BY <2>1, <2>3
  <2> HIDE DEF p
  <2>8. p = [k \in 1..n |-> p[k]] /\ s = [k \in 1..n |-> s[k]]
    BY <1>1, <2>5 DEF n
  <2>9. p = s
    BY <1>7, <2>5, <2>6, <2>8
  <2>10. q.at = cur + (m + n)
    BY <1>1, <1>2, <2>1, <2>3
  <2> QED
    BY <2>7, <2>9, <2>10
<1>10. ASSUME n <= cap, cur + (m + n) <= Len(buf) PROVE q.ok
  <2>1. cur + m <= Len(buf) /\ (cur + m) + n <= Len(buf)
    BY <1>1, <1>2, <1>4, <1>10
  <2>2. h.ok = TRUE /\ h.at = m /\ h.val = n
    BY <1>8, <2>1
  <2>3. h.ok /\ h.val <= cap /\ (cur + h.at) + h.val <= Len(buf)
    BY <1>10, <2>1, <2>2, Zenon
  <2> QED
    BY <2>3, Zenon DEF IsText
<1> QED
  BY <1>5, <1>9, <1>10, Zenon DEF all, s, n

\* The right field, read at its place, is what it should be; nothing but too small a
\* buffer or a packet that is cut off makes it fail.
LEMMA FieldRead ==
    ASSUME NEW f \in Stream!Fields, f.kind \in Text => Len(f.value) < Stream!Word, NEW cap \in Nat,
           NEW x \in {0, Stream!Top}, NEW r \in Stream!Reads(f.kind, cap, x),
           StandsHere(Stream!Bytes(f)), cur \in Nat, buf \in Seq(Byte), cur <= Len(buf)
    PROVE  /\ r.ok => r.at = cur + Len(Stream!Bytes(f)) /\ ComesBack(f, r.val)
           /\ cap = 2 * Stream!Top /\ cur + Len(Stream!Bytes(f)) <= Len(buf) => r.ok
<1>1. f.kind \in Text \cup {"int32", "short", "char"}
  BY FieldIs
<1>2. CASE f.kind \in {"string", "double"}
  <2>1. PICK h \in Stream!ReadLengthWithoutOffset(x) : IsText(r, h, cap)
    BY <1>2, ReadsAre DEF Text
  <2>2. f.kind \in Text /\ f.kind # "int64"
    BY <1>2 DEF Text
  <2>3. Stream!Expected(f) = f.value /\ Len(f.value) <= 2 * Stream!Top
    BY <2>2, FieldIs
  <2>4. /\ r.ok => r.at = cur + Len(Stream!Bytes(f)) /\ r.val = f.value
        /\ Len(f.value) <= cap /\ cur + Len(Stream!Bytes(f)) <= Len(buf) => r.ok
    BY <2>1, <2>2, CodedRead
  <2> QED
    BY <2>2, <2>3, <2>4, Zenon DEF ComesBack
<1>3. CASE f.kind = "int64"
  <2>1. PICK h, q : IsText(q, h, 128) /\ Grown(r, q) /\ h \in Stream!ReadLengthWithoutOffset(x)
    BY <1>3, ReadsAre DEF Text
  <2>2. f.kind \in Text /\ 128 \in Nat
    BY <1>3 DEF Text
  <2>3. Stream!Expected(f) = f.value /\ Len(f.value) <= 128 /\ f.value \in Seq(Byte)
    BY <1>3, <2>2, FieldIs
  <2>4. /\ q.ok => q.at = cur + Len(Stream!Bytes(f)) /\ q.val = f.value
        /\ Len(f.value) <= 128 /\ cur + Len(Stream!Bytes(f)) <= Len(buf) => q.ok
    <3> DEFINE most == 128
    <3>1. /\ f.kind \in Text /\ Len(f.value) < Stream!Word /\ most \in Nat
          /\ h \in Stream!ReadLengthWithoutOffset(x) /\ IsText(q, h, most)
      BY <2>1, <2>2
    <3> HIDE DEF most
    <3>2. /\ q.ok => q.at = cur + Len(Stream!Bytes(f)) /\ q.val = f.value
          /\ Len(f.value) <= most /\ cur + Len(Stream!Bytes(f)) <= Len(buf) => q.ok
      BY <3>1, CodedRead
    <3> QED
      BY <3>2 DEF most
  <2>5. f.value \in Seq(Nat)
    BY <2>3, ByteNat
  <2>6. Stream!IsPrefix(f.value, f.value) /\ Stream!IsPrefix(f.value, Append(f.value, 9))
    <3> DEFINE s == f.value
               n == Len(s)
    <3>1. s \in Seq(Nat) /\ n \in Nat
      BY <2>5
    <3>2. Len(Append(s, 9)) = n + 1 /\ Append(s, 9) \in Seq(Nat) /\ \A k \in 1..n : Append(s, 9)[k] = s[k]
      BY <3>1
    <3> DEFINE t == Append(s, 9)
               p == SubSeq(s, 0 + 1, 0 + n)
               u == SubSeq(t, 0 + 1, 0 + n)
    <3>3. 0 \in Nat /\ 0 + n <= Len(s) /\ 0 + n <= Len(t)
      BY <3>1, <3>2
    <3> HIDE DEF s, t
    <3>4. s \in Seq(Nat) /\ t \in Seq(Nat) /\ n \in Nat
      BY <3>1, <3>2 DEF t
    <3> HIDE DEF n
    <3>5. p \in Seq(Nat) /\ Len(p) = n /\ \A k \in 1..n : p[k] = s[0 + k]
      BY <3>3, <3>4, PieceIs
    <3>6. u \in Seq(Nat) /\ Len(u) = n /\ \A k \in 1..n : u[k] = t[0 + k]
      BY <3>3, <3>4, PieceIs
    <3>7. p = u
      <4>1. \A k \in 1..n : p[k] = u[k]
        BY <3>2, <3>5, <3>6 DEF t
      <4>2. p = [k \in 1..n |-> p[k]] /\ u = [k \in 1..n |-> u[k]]
        <5> HIDE DEF p, u
        <5> QED
          BY <3>5, <3>6
      <4> HIDE DEF p, u
      <4> QED
        BY <4>1, <4>2
    <3>8. 0 + 1 = 1 /\ 0 + n = n /\ n <= n /\ n <= Len(t)
      BY <3>1, <3>2 DEF t
    <3>9. Stream!IsPrefix(s, s) /\ Stream!IsPrefix(s, t)
      BY <3>7, <3>8 DEF Stream!IsPrefix, n
    <3> QED
      BY <3>9 DEF s, t
  <2>7. r.ok = q.ok /\ r.at = q.at /\ (r.val = q.val \/ r.val = Append(q.val, 9))
    <3>1. q.ok \in BOOLEAN /\ q.at \in Nat /\ q.val \in Seq(Byte)
      BY <2>1 DEF IsText
    <3> QED
      <4>1. CASE r = q
        BY <4>1
      <4>2. CASE q.ok /\ r = [q EXCEPT !.val = Append(@, 9)]
        <5>1. r = [q EXCEPT !.val = Append(q.val, 9)]
          BY <4>2
        <5>2. r.ok = q.ok /\ r.at = q.at
          BY <5>1
        <5>3. r.val = Append(q.val, 9) \/ r.val = q.val
          BY <5>1
        <5> QED
          BY <5>2, <5>3
      <4> QED
        BY <2>1, <4>1, <4>2 DEF Grown
  <2>8. q.ok => ComesBack(f, r.val)
    BY <1>3, <2>3, <2>4, <2>6, <2>7 DEF ComesBack
  <2> QED
    BY <2>3, <2>4, <2>7, <2>8, Zenon
<1>4. CASE f.kind \in {"int32", "short", "char"}
  <2> DEFINE e == Stream!Bytes(f)
             w == Width(f.kind)
  <2>1. /\ r.ok => /\ r.at = cur + w
                   /\ r.val = Fixed(f.kind, SubSeq(buf, cur + 1, cur + w))
        /\ r.ok <=> cur + w <= Len(buf)
    BY <1>4, FixedRead
  <2>2. e \in Seq(Byte) /\ Len(e) = w /\ f.kind # "int64"
    BY <1>4, FieldIs DEF Width
  <2>3. Fixed(f.kind, e) = Stream!Expected(f)
    BY <1>4, FieldIs DEF Fixed
  <2>4. r.ok => SubSeq(buf, cur + 1, cur + w) = e
    BY <2>1, <2>2, PieceHere
  <2> HIDE DEF e, w
  <2>5. r.ok => r.at = cur + Len(e) /\ r.val = Stream!Expected(f)
    BY <2>1, <2>2, <2>3, <2>4
  <2>6. cur + Len(e) <= Len(buf) => r.ok
    BY <2>1, <2>2
  <2> QED
    BY <2>2, <2>5, <2>6, Zenon DEF ComesBack, e
<1> QED
  BY <1>1, <1>2, <1>3, <1>4 DEF Text

-----------------------------------------------------------------------------
(* Packets.                                                                *)

\* Where the fields of the packet begin; the last place is its end.
Offsets(off, d, s) ==
    /\ off \in [0..Len(s) -> Nat] /\ off[0] = Stream!Header /\ off[Len(s)] = Len(d)
    /\ \A k \in 0..Len(s) : Stream!Header <= off[k] /\ off[k] <= Len(d)
    /\ \A k \in 1..Len(s) :
          /\ off[k] = off[k - 1] + Len(Stream!Bytes(s[k]))
          /\ \A i \in 1..Len(Stream!Bytes(s[k])) : d[off[k - 1] + i] = Stream!Bytes(s[k])[i]

\* While the fields are read in the writer's order the reader is at the beginning of
\* the next one, and what it has got is what was written; the length of a packet
\* wraps at Word.
InStep(off) ==
    phase = "read" /\ inOrder /\ Len(data) < Stream!Word =>
        /\ Len(got) <= Len(sent) /\ cur = off[Len(got)]
        /\ \A k \in 1..Len(got) : ComesBack(sent[k], got[k])

Received ==
    /\ buf \in Seq(Byte) /\ cur <= Len(buf) /\ Len(buf) <= Len(data)
    /\ \A k \in 1..Len(buf) : buf[k] = data[k]
    /\ Len(data) < Stream!Word => Stream!Host(SubSeq(data, 1, IntSize)) = Len(data)

StreamTyped ==
    /\ data \in Seq(Byte) /\ sent \in Seq(Stream!Fields)
    /\ phase \in {"write", "read"} /\ cur \in Nat /\ inOrder \in BOOLEAN
    /\ got \in Seq(Seq(Nat))

StreamInv ==
    /\ StreamTyped
    /\ phase = "write" => got = <<>>
    /\ phase = "read" => Received
    /\ \E off : Offsets(off, data, sent) /\ InStep(off)

LEMMA HeaderIs == Stream!Header \in Nat /\ IntSize \in Nat /\ IntSize >= 1 /\ IntSize <= Stream!Header
BY Widths DEF Stream!Header, Stream!BINARY_PACKLEN_LEN_2, Stream!CHECKSUM_LEN

LEMMA NewPacketIs == Stream!NewPacket \in Seq(Byte) /\ Len(Stream!NewPacket) = Stream!Header
<1> DEFINE h == Stream!Header
           t == Stream!Top
<1>1. h \in Nat /\ t \in Byte
  BY HeaderIs, Widths DEF Byte
<1>2. Stream!NewPacket = [k \in 1..h |-> t]
  BY DEF Stream!NewPacket
<1> HIDE DEF h, t
<1>3. [k \in 1..h |-> t] \in Seq(Byte) /\ Len([k \in 1..h |-> t]) = h
  BY <1>1
<1> QED
  BY <1>2, <1>3 DEF h

\* A new packet has no fields.
LEMMA NoFields == \E off : Offsets(off, Stream!NewPacket, <<>>)
<1> DEFINE off == [k \in 0..0 |-> Stream!Header]
           d == Stream!NewPacket
<1>1. Len(<<>>) = 0 /\ Len(d) = Stream!Header /\ Stream!Header \in Nat
  BY NewPacketIs, HeaderIs
<1>2. off \in [0..0 -> Nat] /\ off[0] = Stream!Header
  BY <1>1
<1> HIDE DEF off, d
<1>3. \A k \in 0..0 : k = 0
  OBVIOUS
<1>4. \A k \in 0..Len(<<>>) : Stream!Header <= off[k] /\ off[k] <= Len(d)
  BY <1>1, <1>2, <1>3
<1>5. \A k \in 1..Len(<<>>) : FALSE
  BY <1>1
<1>6. Offsets(off, d, <<>>)
  BY <1>1, <1>2, <1>4, <1>5 DEF Offsets
<1> QED
  BY <1>6 DEF d

LEMMA StreamInit == Stream!Init => StreamInv
<1> SUFFICES ASSUME Stream!Init PROVE StreamInv
  OBVIOUS
<1>1. /\ data = Stream!NewPacket /\ sent = <<>> /\ phase = "write"
      /\ cur = 0 /\ got = <<>> /\ inOrder = TRUE
  BY DEF Stream!Init
<1>2. \E off : Offsets(off, data, sent) /\ InStep(off)
  <2>1. PICK off : Offsets(off, data, sent)
    BY <1>1, NoFields
  <2>2. InStep(off)
    BY <1>1 DEF InStep
  <2> QED
    BY <2>1, <2>2
<1>3. StreamTyped
  BY <1>1, NewPacketIs DEF StreamTyped
<1> QED
  BY <1>1, <1>2, <1>3 DEF StreamInv

LEMMA StreamStutter == StreamInv /\ UNCHANGED streamVars => StreamInv'
<1> SUFFICES ASSUME StreamInv, UNCHANGED streamVars PROVE StreamInv'
  OBVIOUS
<1>1. /\ data' = data /\ sent' = sent /\ phase' = phase /\ buf' = buf /\ cur' = cur
      /\ got' = got /\ inOrder' = inOrder
  BY DEF streamVars
<1>2. StreamTyped'
  BY <1>1 DEF StreamInv, StreamTyped
<1>3. phase' = "write" => got' = <<>>
  BY <1>1 DEF StreamInv
<1>4. phase' = "read" => Received'
  BY <1>1 DEF StreamInv, Received
<1>5. PICK off : Offsets(off, data, sent) /\ InStep(off)
  BY DEF StreamInv
<1>6. InStep(off)'
  BY <1>1, <1>5 DEF InStep
<1>7. Offsets(off, data', sent')
  BY <1>1, <1>5
<1> QED
  BY <1>2, <1>3, <1>4, <1>6, <1>7 DEF StreamInv

LEMMA StreamWrite == ASSUME StreamInv, NEW f \in Stream!Fields, Stream!Write(f) PROVE StreamInv'
<1> DEFINE e == Stream!Bytes(f)
           n == Len(sent)
           d == Len(data)
           m == Len(e)
<1>1. /\ phase = "write" /\ data' = data \o e /\ sent' = Append(sent, f)
      /\ phase' = phase /\ cur' = cur /\ got' = got /\ inOrder' = inOrder
  BY DEF Stream!Write
<1>2. StreamTyped /\ got = <<>>
  BY <1>1 DEF StreamInv
<1>3. PICK off : Offsets(off, data, sent)
  BY DEF StreamInv
<1>4. e \in Seq(Byte) /\ data \in Seq(Byte) /\ n \in Nat /\ d \in Nat /\ m \in Nat
  <2>1. e \in Seq(Byte)
    BY FieldIs
  <2> HIDE DEF e
  <2> QED
    BY <1>2, <2>1 DEF StreamTyped
<1> HIDE DEF e
<1>5. /\ data' \in Seq(Byte) /\ Len(data') = d + m
      /\ \A k \in 1..(d + m) : data'[k] = IF k <= d THEN data[k] ELSE e[k - d]
  BY <1>1, <1>4, ConcatProperties
<1>6. /\ sent' \in Seq(Stream!Fields) /\ Len(sent') = n + 1
      /\ sent'[n + 1] = f /\ \A k \in 1..n : sent'[k] = sent[k]
  <2>1. sent \in Seq(Stream!Fields)
    BY <1>2 DEF StreamTyped
  <2> QED
    BY <1>1, <2>1
<1> HIDE DEF n, d, m
<1> DEFINE more == [k \in 0..(n + 1) |-> IF k <= n THEN off[k] ELSE d + m]
<1>7. /\ off \in [0..n -> Nat] /\ off[0] = Stream!Header /\ off[n] = d
      /\ \A k \in 0..n : off[k] \in Nat /\ Stream!Header <= off[k] /\ off[k] <= d
      /\ \A k \in 1..n : /\ off[k] = off[k - 1] + Len(Stream!Bytes(sent[k]))
                         /\ \A i \in 1..Len(Stream!Bytes(sent[k])) :
                               data[off[k - 1] + i] = Stream!Bytes(sent[k])[i]
  BY <1>3 DEF Offsets, n, d
<1>8. \A k \in 0..n : more[k] = off[k]
  BY <1>4
<1>9. more[n + 1] = d + m
  BY <1>4
<1>10. more \in [0..(n + 1) -> Nat]
  BY <1>4, <1>7
<1> HIDE DEF more
<1>11. \A k \in 0..(n + 1) : Stream!Header <= more[k] /\ more[k] <= d + m
  <2> SUFFICES ASSUME NEW k \in 0..(n + 1) PROVE Stream!Header <= more[k] /\ more[k] <= d + m
    OBVIOUS
  <2>1. CASE k \in 0..n
    <3>1. off[k] \in Nat /\ Stream!Header <= off[k] /\ off[k] <= d
      BY <1>7, <2>1
    <3> QED
      BY <1>4, <1>8, <2>1, <3>1
  <2>2. CASE k = n + 1
    <3>1. Stream!Header <= d
      BY <1>4, <1>7
    <3> QED
      BY <1>4, <1>9, <2>2, <3>1, HeaderIs
  <2> QED
    BY <1>4, <2>1, <2>2
<1>12. ASSUME NEW k \in 1..(n + 1)
       PROVE  /\ more[k] = more[k - 1] + Len(Stream!Bytes(sent'[k]))
              /\ \A i \in 1..Len(Stream!Bytes(sent'[k])) :
                    data'[more[k - 1] + i] = Stream!Bytes(sent'[k])[i]
  <2>1. CASE k \in 1..n
    <3>1. k \in 0..n /\ k - 1 \in 0..n
      BY <1>4, <2>1
    <3>2. sent'[k] = sent[k] /\ more[k] = off[k] /\ more[k - 1] = off[k - 1]
      BY <1>6, <1>8, <2>1, <3>1
    <3> DEFINE b == Stream!Bytes(sent[k])
               o == off[k - 1]
    <3>3. off[k] = o + Len(b) /\ \A i \in 1..Len(b) : data[o + i] = b[i]
      BY <1>7, <2>1
    <3>4. o \in Nat /\ off[k] \in Nat /\ off[k] <= d
      BY <1>7, <3>1
    <3>5. Len(b) \in Nat
      <4>1. sent[k] \in Stream!Fields
        BY <1>2, <2>1 DEF StreamTyped, n
      <4>2. b \in Seq(Byte)
        BY <4>1, FieldIs
      <4> HIDE DEF b
      <4> QED
        BY <4>2
    <3> HIDE DEF b, o
    <3>6. ASSUME NEW i \in 1..Len(b) PROVE data'[o + i] = b[i]
      <4>1. o + i \in 1..(d + m) /\ o + i <= d
        BY <1>4, <3>3, <3>4, <3>5
      <4> QED
        BY <1>5, <3>3, <4>1
    <3> QED
      BY <3>2, <3>3, <3>6 DEF b, o
  <2>2. CASE k = n + 1
    <3>1. sent'[k] = f /\ more[k] = d + m /\ more[k - 1] = d /\ Len(e) = m
      <4>1. k - 1 = n /\ n \in 0..n
        BY <1>4, <2>2
      <4> QED
        BY <1>6, <1>7, <1>8, <1>9, <2>2, <4>1 DEF m
    <3>2. ASSUME NEW i \in 1..m PROVE data'[d + i] = e[i]
      <4>1. d + i \in 1..(d + m) /\ ~(d + i <= d) /\ (d + i) - d = i
        BY <1>4
      <4> QED
        BY <1>5, <4>1
    <3> QED
      BY <3>1, <3>2 DEF e
  <2> QED
    BY <1>4, <2>1, <2>2
<1>13. Offsets(more, data', sent')
  <2>1. 0 \in 0..n /\ Len(sent') = n + 1 /\ Len(data') = d + m
    BY <1>4, <1>5, <1>6
  <2>2. more[0] = Stream!Header
    BY <1>7, <1>8, <2>1
  <2>3. more[Len(sent')] = Len(data')
    BY <1>9, <2>1
  <2> QED
    BY <1>10, <1>11, <1>12, <2>1, <2>2, <2>3 DEF Offsets
<1>14. \A o : InStep(o)'
  BY <1>1 DEF InStep
<1>15. StreamTyped'
  BY <1>1, <1>2, <1>5, <1>6 DEF StreamTyped
<1>16. phase' = "write" /\ got' = <<>>
  BY <1>1, <1>2
<1> QED
  BY <1>13, <1>14, <1>15, <1>16 DEF StreamInv

LEMMA StreamClear == ASSUME StreamInv, Stream!Clear PROVE StreamInv'
<1>1. /\ phase = "write" /\ data' = Stream!NewPacket /\ sent' = <<>>
      /\ phase' = phase /\ cur' = cur /\ got' = got /\ inOrder' = inOrder
  BY DEF Stream!Clear
<1>2. StreamTyped /\ got = <<>>
  BY <1>1 DEF StreamInv
<1>3. PICK off : Offsets(off, data', sent')
  BY <1>1, NoFields
<1>5. InStep(off)'
  BY <1>1 DEF InStep
<1>4. StreamTyped'
  BY <1>1, <1>2, NewPacketIs DEF StreamTyped
<1> QED
  BY <1>1, <1>2, <1>3, <1>4, <1>5 DEF StreamInv

\* Flush, and a reader.
LEMMA StreamReceive == ASSUME StreamInv, NEW n, Stream!Receive(n) PROVE StreamInv'
<1> DEFINE d == Len(data)
           len == Stream!Net(d, IntSize)
           rest == SubSeq(data, IntSize + 1, d)
           all == Stream!Flushed
           h == Stream!Header
<1>1. /\ phase = "write" /\ n \in h..d /\ phase' = "read" /\ data' = all
      /\ buf' = SubSeq(all, 1, n) /\ cur' = h
      /\ sent' = sent /\ got' = got /\ inOrder' = inOrder
  BY DEF Stream!Receive
<1>2. StreamTyped /\ got = <<>> /\ data \in Seq(Byte) /\ d \in Nat
  BY <1>1 DEF StreamInv, StreamTyped
<1>3. PICK off : Offsets(off, data, sent)
  BY DEF StreamInv
<1>4. h \in Nat /\ IntSize \in Nat /\ IntSize >= 1 /\ IntSize <= h /\ h <= d
  <2>1. h \in Nat /\ h <= d
    BY <1>1, <1>2, HeaderIs
  <2> QED
    BY <2>1, HeaderIs
<1> HIDE DEF h
<1>5. /\ len \in Seq(Byte) /\ Len(len) = IntSize
      /\ d < Stream!Word => Stream!Host(len) = d
  BY <1>2, <1>4, NetRoundTrip, Places DEF Byte
<1>6. all = len \o rest
  BY DEF Stream!Flushed
<1> HIDE DEF len, all
<1>7. rest \in Seq(Byte) /\ Len(rest) = d - IntSize /\ \A k \in 1..(d - IntSize) : rest[k] = data[IntSize + k]
  <2>1. d - IntSize \in Nat /\ IntSize + (d - IntSize) = d
    BY <1>2, <1>4
  <2>2. IntSize + (d - IntSize) <= Len(data)
    BY <2>1
  <2> HIDE DEF d
  <2> QED
    BY <1>2, <1>4, <2>1, <2>2, PieceIs
<1> HIDE DEF rest
<1>8. all \in Seq(Byte) /\ Len(all) = d
      /\ \A k \in 1..d : all[k] = IF k <= IntSize THEN len[k] ELSE rest[k - IntSize]
  <2>1. Len(len) + Len(rest) = d
    BY <1>2, <1>4, <1>5, <1>7
  <2> HIDE DEF d
  <2> QED
    BY <1>5, <1>6, <1>7, <2>1, ConcatProperties
<1> HIDE DEF d
<1>9. \A k \in 1..d : k > IntSize => all[k] = data[k]
  <2> SUFFICES ASSUME NEW k \in 1..d, k > IntSize PROVE all[k] = data[k]
    OBVIOUS
  <2>1. ~(k <= IntSize) /\ k - IntSize \in 1..(d - IntSize) /\ IntSize + (k - IntSize) = k
    BY <1>2, <1>4
  <2> QED
    BY <1>7, <1>8, <2>1
<1>10. SubSeq(all, 1, IntSize) = len
  <2> DEFINE p == SubSeq(all, 0 + 1, 0 + IntSize)
  <2>1. 0 \in Nat /\ 0 + IntSize <= Len(all) /\ 0 + 1 = 1 /\ 0 + IntSize = IntSize
    BY <1>4, <1>8
  <2>2. p \in Seq(Byte) /\ Len(p) = IntSize /\ \A k \in 1..IntSize : p[k] = all[0 + k]
    BY <1>4, <1>8, <2>1, PieceIs
  <2>3. p = SubSeq(all, 1, IntSize)
    BY <2>1
  <2> HIDE DEF p
  <2>4. \A k \in 1..IntSize : p[k] = len[k]
    <3> SUFFICES ASSUME NEW k \in 1..IntSize PROVE p[k] = len[k]
      OBVIOUS
    <3>1. k \in 1..d /\ k <= IntSize /\ 0 + k = k
      BY <1>2, <1>4
    <3> QED
      BY <1>8, <2>2, <3>1
  <2>5. p = [k \in 1..IntSize |-> p[k]] /\ len = [k \in 1..IntSize |-> len[k]]
    BY <1>5, <2>2
  <2> QED
    BY <2>3, <2>4, <2>5
<1>11. buf' \in Seq(Byte) /\ Len(buf') = n /\ \A k \in 1..n : buf'[k] = all[k]
  <2> DEFINE p == SubSeq(all, 0 + 1, 0 + n)
  <2>1. 0 \in Nat /\ n \in Nat /\ 0 + n <= Len(all) /\ 0 + 1 = 1 /\ 0 + n = n
    BY <1>1, <1>2, <1>4, <1>8
  <2>2. p \in Seq(Byte) /\ Len(p) = n /\ \A k \in 1..n : p[k] = all[0 + k]
    BY <1>8, <2>1, PieceIs
  <2>3. p = buf'
    BY <1>1, <2>1
  <2>4. \A k \in 1..n : 0 + k = k
    OBVIOUS
  <2> HIDE DEF p
  <2> QED
    BY <2>2, <2>3, <2>4
<1>12. Received'
  <2>1. cur' <= Len(buf') /\ Len(buf') <= Len(data')
    BY <1>1, <1>2, <1>4, <1>8, <1>11
  <2>2. \A k \in 1..Len(buf') : buf'[k] = data'[k]
    BY <1>1, <1>11
  <2>3. Len(data') < Stream!Word => Stream!Host(SubSeq(data', 1, IntSize)) = Len(data')
    BY <1>1, <1>5, <1>8, <1>10
  <2> QED
    BY <1>11, <2>1, <2>2, <2>3 DEF Received
<1>13. Offsets(off, data', sent')
  <2>1. /\ off \in [0..Len(sent) -> Nat] /\ off[0] = h /\ off[Len(sent)] = d
        /\ \A k \in 0..Len(sent) : h <= off[k] /\ off[k] <= d
        /\ \A k \in 1..Len(sent) :
              /\ off[k] = off[k - 1] + Len(Stream!Bytes(sent[k]))
              /\ \A i \in 1..Len(Stream!Bytes(sent[k])) : data[off[k - 1] + i] = Stream!Bytes(sent[k])[i]
    BY <1>3 DEF Offsets, h, d
  <2>2. Len(sent) \in Nat
    BY <1>2 DEF StreamTyped
  <2>3. ASSUME NEW k \in 1..Len(sent)
        PROVE  \A i \in 1..Len(Stream!Bytes(sent[k])) : all[off[k - 1] + i] = Stream!Bytes(sent[k])[i]
    <3> DEFINE b == Stream!Bytes(sent[k])
               o == off[k - 1]
    <3>1. k - 1 \in 0..Len(sent) /\ k \in 0..Len(sent)
      BY <2>2
    <3>2. o \in Nat /\ h <= o /\ off[k] = o + Len(b) /\ off[k] <= d /\ \A i \in 1..Len(b) : data[o + i] = b[i]
      BY <2>1, <3>1
    <3>3. Len(b) \in Nat
      <4>1. sent[k] \in Stream!Fields
        BY <1>2 DEF StreamTyped
      <4>2. b \in Seq(Byte)
        BY <4>1, FieldIs
      <4> HIDE DEF b
      <4> QED
        BY <4>2
    <3> HIDE DEF b, o
    <3>4. ASSUME NEW i \in 1..Len(b) PROVE all[o + i] = b[i]
      <4>1. o + i \in 1..d /\ o + i > IntSize
        BY <1>2, <1>4, <3>2, <3>3
      <4> QED
        BY <1>9, <3>2, <4>1
    <3> QED
      BY <3>4 DEF b, o
  <2>4. Len(data') = d /\ data' = all /\ sent' = sent
    BY <1>1, <1>8
  <2> QED
    BY <2>1, <2>3, <2>4 DEF Offsets, h
<1>14. InStep(off)'
  <2>1. got' = <<>> /\ cur' = off[0] /\ sent' = sent
    BY <1>1, <1>2, <1>3 DEF Offsets, h
  <2>2. Len(got') = 0 /\ Len(sent) \in Nat
    BY <1>2, <2>1 DEF StreamTyped
  <2>3. Len(got') <= Len(sent') /\ cur' = off[Len(got')] /\ \A k \in 1..Len(got') : FALSE
    BY <2>1, <2>2
  <2> QED
    BY <2>3 DEF InStep
<1>15. StreamTyped'
  BY <1>1, <1>2, <1>4, <1>8 DEF StreamTyped
<1> QED
  BY <1>1, <1>12, <1>13, <1>14, <1>15 DEF StreamInv

\* The next field, as the reader finds it.
LEMMA NextField ==
    ASSUME StreamTyped, Received, NEW off, Offsets(off, data, sent), Len(data) < Stream!Word,
           NEW j \in Nat, j < Len(sent), cur = off[j]
    PROVE  /\ sent[j + 1] \in Stream!Fields
           /\ off[j + 1] = cur + Len(Stream!Bytes(sent[j + 1])) /\ off[j + 1] <= Len(data)
           /\ StandsHere(Stream!Bytes(sent[j + 1]))
           /\ sent[j + 1].kind \in Text => Len(sent[j + 1].value) < Stream!Word
<1> DEFINE f == sent[j + 1]
           b == Stream!Bytes(f)
           k == j + 1
<1>1. /\ sent \in Seq(Stream!Fields) /\ data \in Seq(Byte) /\ buf \in Seq(Byte) /\ cur \in Nat
      /\ Len(sent) \in Nat /\ Len(data) \in Nat /\ Len(buf) \in Nat /\ Len(buf) <= Len(data)
  BY DEF StreamTyped, Received
<1>2. k \in 1..Len(sent) /\ k \in 0..Len(sent) /\ k - 1 = j /\ j \in 0..Len(sent)
  BY <1>1
<1>3. f \in Stream!Fields
  BY <1>1, <1>2
<1> HIDE DEF k
<1>4. /\ off[k] = off[j] + Len(Stream!Bytes(sent[k])) /\ off[k] <= Len(data) /\ off[k] \in Nat
      /\ \A i \in 1..Len(Stream!Bytes(sent[k])) : data[off[j] + i] = Stream!Bytes(sent[k])[i]
  BY <1>2 DEF Offsets
<1>5. sent[k] = f
  BY DEF k
<1>6. b \in Seq(Byte)
  BY <1>3, FieldIs
<1>7. Len(b) \in Nat
  <2> HIDE DEF b
  <2> QED
    BY <1>6
<1>8. off[k] = cur + Len(b) /\ \A i \in 1..Len(b) : data[cur + i] = b[i]
  BY <1>4, <1>5
<1>9. StandsHere(b)
  <2> SUFFICES ASSUME NEW i \in 1..Len(b), cur + i <= Len(buf) PROVE buf[cur + i] = b[i]
    BY DEF StandsHere
  <2>1. cur + i \in 1..Len(buf)
    BY <1>1, <1>7
  <2>2. buf[cur + i] = data[cur + i]
    BY <2>1 DEF Received
  <2> QED
    BY <1>8, <2>2
<1>10. ASSUME f.kind \in Text PROVE Len(f.value) < Stream!Word
  <2> DEFINE s == f.value
             e == Coded(f)
  <2>1. s \in Seq(Byte) /\ b = e \o s
    BY <1>3, <1>10, FieldIs
  <2>2. Len(s) \in Nat
    <3> HIDE DEF s
    <3> QED
      BY <2>1
  <2>3. e \in Seq(Byte)
    BY <2>2, EncodedIs DEF IsEncoded, Coded, Byte
  <2> HIDE DEF s, e, b
  <2>4. Len(b) = Len(e) + Len(s) /\ Len(e) \in Nat
    BY <2>1, <2>3
  <2>5. Len(s) <= Len(data)
    BY <1>1, <1>4, <1>8, <2>2, <2>4
  <2> QED
    BY <1>1, <2>2, <2>5, Widths DEF s
<1> QED
  BY <1>3, <1>4, <1>8, <1>9, <1>10 DEF k

LEMMA KindsAre == Stream!Kinds \subseteq Text \cup {"int32", "short", "char", "length"}
<1>1. \A f \in Stream!Fields : f.kind \in Text \cup {"int32", "short", "char"}
  BY FieldIs
<1> QED
  BY <1>1 DEF Stream!Kinds

LEMMA StreamRead ==
    ASSUME StreamInv, NEW kind \in Stream!Kinds, NEW cap \in {Stream!Unlimited, 2 * Stream!Top},
           NEW x \in {0, Stream!Top}, Stream!Read(kind, cap, x)
    PROVE  StreamInv'
<1>1. phase = "read" /\ data' = data /\ sent' = sent /\ phase' = phase /\ buf' = buf
  BY DEF Stream!Read
<1> DEFINE Right(r) == inOrder /\ r.ok /\ Len(got) < Len(sent) /\ sent[Len(got) + 1].kind = kind
<1>2. PICK r \in Stream!Reads(kind, cap, x) :
         cur' = r.at /\ inOrder' = Right(r) /\ got' = IF Right(r) THEN Append(got, r.val) ELSE <<>>
  BY DEF Stream!Read
<1> DEFINE right == Right(r)
<1>3. /\ StreamTyped /\ Received /\ buf \in Seq(Byte) /\ cur \in Nat /\ cur <= Len(buf)
      /\ got \in Seq(Seq(Nat)) /\ inOrder \in BOOLEAN /\ sent \in Seq(Stream!Fields)
  BY <1>1 DEF StreamInv, StreamTyped, Received
<1>4. cap \in Nat
  BY Widths DEF Stream!Unlimited
<1>5. kind \in Text \cup {"int32", "short", "char", "length"}
  BY KindsAre
<1>6. r.ok \in BOOLEAN /\ r.at \in Nat /\ r.at <= Len(buf) /\ r.val \in Seq(Nat)
  BY <1>3, <1>4, <1>5, ReadsStay
<1>7. right \in BOOLEAN
  OBVIOUS
<1>8. Append(got, r.val) \in Seq(Seq(Nat)) /\ <<>> \in Seq(Seq(Nat))
  <2> DEFINE T == Seq(Nat)
             v == r.val
  <2>1. got \in Seq(T) /\ v \in T
    BY <1>3, <1>6
  <2> HIDE DEF T, v
  <2>2. Append(got, v) \in Seq(T) /\ <<>> \in Seq(T)
    BY <2>1
  <2> QED
    BY <2>2 DEF T, v
<1>9. PICK off : Offsets(off, data, sent) /\ InStep(off)
  BY DEF StreamInv
<1>10. ASSUME right, Len(data) < Stream!Word
       PROVE  /\ Len(Append(got, r.val)) <= Len(sent) /\ r.at = off[Len(Append(got, r.val))]
              /\ \A k \in 1..Len(Append(got, r.val)) : ComesBack(sent[k], Append(got, r.val)[k])
  <2> DEFINE j == Len(got)
             f == sent[j + 1]
             v == r.val
             T == Seq(Nat)
  <2>1. inOrder /\ r.ok /\ j < Len(sent) /\ f.kind = kind
    BY <1>10
  <2>2. got \in Seq(T) /\ v \in T /\ Len(sent) \in Nat
    BY <1>3, <1>6
  <2> HIDE DEF T, v
  <2>3. /\ j \in Nat /\ Len(Append(got, v)) = j + 1
        /\ Append(got, v)[j + 1] = v /\ \A k \in 1..j : Append(got, v)[k] = got[k]
    BY <2>2
  <2>4. cur = off[j] /\ \A k \in 1..j : ComesBack(sent[k], got[k])
    BY <1>1, <1>9, <1>10, <2>1 DEF InStep
  <2> HIDE DEF j
  <2>5. /\ f \in Stream!Fields /\ off[j + 1] = cur + Len(Stream!Bytes(f))
        /\ StandsHere(Stream!Bytes(f))
        /\ f.kind \in Text => Len(f.value) < Stream!Word
    BY <1>3, <1>9, <1>10, <2>1, <2>3, <2>4, NextField
  <2>6. r \in Stream!Reads(f.kind, cap, x)
    BY <2>1
  <2>7. r.ok => r.at = cur + Len(Stream!Bytes(f)) /\ ComesBack(f, r.val)
    BY <1>3, <1>4, <2>5, <2>6, FieldRead
  <2>8. r.at = off[j + 1] /\ ComesBack(f, v)
    BY <2>1, <2>5, <2>7 DEF v
  <2>9. ASSUME NEW k \in 1..(j + 1) PROVE ComesBack(sent[k], Append(got, v)[k])
    <3>1. k \in 1..j \/ k = j + 1
      BY <2>3
    <3> QED
      BY <2>3, <2>4, <2>8, <3>1
  <2>10. j + 1 <= Len(sent)
    BY <2>1, <2>2, <2>3
  <2> QED
    BY <2>3, <2>8, <2>9, <2>10 DEF v
<1> HIDE DEF right, Right
<1>11. StreamTyped'
  <2>1. cur' \in Nat /\ inOrder' \in BOOLEAN
    BY <1>2, <1>6, <1>7 DEF right
  <2>2. got' \in Seq(Seq(Nat))
    <3>1. got' = Append(got, r.val) \/ got' = <<>>
      BY <1>2
    <3> QED
      BY <1>8, <3>1
  <2> QED
    BY <1>1, <1>3, <2>1, <2>2 DEF StreamTyped
<1>12. Received'
  BY <1>1, <1>2, <1>3, <1>6 DEF Received
<1>13. InStep(off)'
  <2>1. CASE right
    <3>1. got' = Append(got, r.val) /\ cur' = r.at
      BY <1>2, <2>1 DEF right
    <3> QED
      BY <1>1, <1>10, <2>1, <3>1 DEF InStep
  <2>2. CASE ~right
    <3>1. inOrder' = FALSE
      BY <1>2, <1>7, <2>2 DEF right
    <3> QED
      BY <3>1 DEF InStep
  <2> QED
    BY <2>1, <2>2
<1>14. Offsets(off, data', sent')
  BY <1>1, <1>9
<1> QED
  BY <1>1, <1>11, <1>12, <1>13, <1>14 DEF StreamInv

LEMMA StreamStep == ASSUME StreamInv, Stream!Next PROVE StreamInv'
<1>1. CASE \E f \in Stream!Fields : Stream!Write(f)
  BY <1>1, StreamWrite
<1>2. CASE Stream!Clear
  BY <1>2, StreamClear
<1>3. CASE \E n \in 0..Len(data) : Stream!Receive(n)
  BY <1>3, StreamReceive
<1>4. CASE \E kind \in Stream!Kinds, cap \in {Stream!Unlimited, 2 * Stream!Top}, x \in {0, Stream!Top} :
              Stream!Read(kind, cap, x)
  BY <1>4, StreamRead
<1> QED
  BY <1>1, <1>2, <1>3, <1>4 DEF Stream!Next

LEMMA StreamMean ==
    StreamInv => /\ Stream!NotPastEnd /\ Stream!OwnBytesOnly /\ Stream!Numbers
                 /\ Len(data) < Stream!Word => Stream!RoundTrip
<1> SUFFICES ASSUME StreamInv
             PROVE  /\ Stream!NotPastEnd /\ Stream!OwnBytesOnly /\ Stream!Numbers
                    /\ Len(data) < Stream!Word => Stream!RoundTrip
  OBVIOUS
<1>1. StreamTyped /\ (phase = "read" => Received)
  BY DEF StreamInv
<1>2. Stream!NotPastEnd
  BY <1>1 DEF Received, Stream!NotPastEnd
<1>3. Stream!OwnBytesOnly
  <2> SUFFICES ASSUME phase = "read"
               PROVE  Stream!ReadLengthWithoutOffset(0) = Stream!ReadLengthWithoutOffset(Stream!Top)
    BY DEF Stream!OwnBytesOnly
  <2>1. cur \in Nat /\ buf \in Seq(Byte)
    BY <1>1 DEF StreamTyped, Received
  <2> QED
    BY <2>1, OwnBytes
<1>4. Stream!Numbers
  <2>1. data \in Seq(Nat)
    BY <1>1, ByteNat DEF StreamTyped
  <2>2. ASSUME NEW v \in 0..(Stream!Word - 1)
        PROVE  LET e == Stream!write7BitEncoded[v]
               IN Len(e) <= IntSize + 1 /\ Stream!read7BitEncoded(e) = v
    BY LengthRoundTrip
  <2>3. ASSUME Len(data) % 2 = 0
        PROVE  LET c == Stream!checksum(data)
               IN Stream!checksum(data \o <<c % (Stream!Top + 1), c \div (Stream!Top + 1)>>) = 0
    BY <2>1, <2>3, ChecksumCompletes
  <2> QED
    BY <2>2, <2>3 DEF Stream!Numbers
<1>5. ASSUME Len(data) < Stream!Word PROVE Stream!RoundTrip
  <2>1. PICK off : Offsets(off, data, sent) /\ InStep(off)
    BY DEF StreamInv
  <2>2. phase = "read" => Stream!Host(SubSeq(data, 1, IntSize)) = Len(data)
    BY <1>1, <1>5 DEF Received
  <2>3. inOrder => \A k \in 1..Len(got) :
          IF sent[k].kind = "int64" THEN Stream!IsPrefix(Stream!Expected(sent[k]), got[k])
          ELSE got[k] = Stream!Expected(sent[k])
    <3>1. CASE phase = "write"
      <4>1. Len(got) = 0
        BY <3>1 DEF StreamInv
      <4>2. \A k \in 1..Len(got) : FALSE
        BY <4>1
      <4> QED
        BY <4>2
    <3>2. CASE phase = "read"
      BY <1>5, <2>1, <3>2 DEF InStep, ComesBack
    <3> QED
      BY <1>1, <3>1, <3>2 DEF StreamTyped
  <2>4. ASSUME phase = "read", inOrder, buf = data
        PROVE  IF Len(got) = Len(sent) THEN cur = Len(buf)
               ELSE \A r \in Stream!Reads(sent[Len(got) + 1].kind, 2 * Stream!Top, 0) : r.ok
    <3> DEFINE j == Len(got)
               f == sent[j + 1]
    <3>1. j <= Len(sent) /\ cur = off[j] /\ j \in Nat /\ Len(sent) \in Nat
      BY <1>1, <1>5, <2>1, <2>4 DEF InStep, StreamTyped
    <3>2. CASE j = Len(sent)
      BY <2>1, <2>4, <3>1, <3>2 DEF Offsets
    <3>3. CASE j # Len(sent)
      <4>1. j < Len(sent)
        BY <3>1, <3>3
      <4> HIDE DEF j
      <4>2. /\ f \in Stream!Fields
            /\ off[j + 1] = cur + Len(Stream!Bytes(f)) /\ off[j + 1] <= Len(data)
            /\ StandsHere(Stream!Bytes(f))
            /\ f.kind \in Text => Len(f.value) < Stream!Word
        BY <1>1, <1>5, <2>1, <2>4, <3>1, <4>1, NextField
      <4> DEFINE cap == 2 * Stream!Top
      <4>3. cap \in Nat /\ 0 \in {0, Stream!Top}
        BY Widths
      <4>4. cur \in Nat /\ buf \in Seq(Byte) /\ cur <= Len(buf)
        BY <1>1, <2>4 DEF StreamTyped, Received
      <4>5. cur + Len(Stream!Bytes(f)) <= Len(buf)
        BY <2>4, <4>2
      <4>6. ASSUME NEW r \in Stream!Reads(f.kind, cap, 0) PROVE r.ok
        BY <4>2, <4>3, <4>4, <4>5, FieldRead
      <4> QED
        BY <3>3, <4>6 DEF j
    <3> QED
      BY <3>2, <3>3
  <2> QED
    BY <2>2, <2>3, <2>4 DEF Stream!RoundTrip
<1> QED
  BY <1>2, <1>3, <1>4, <1>5

\* Packets whose fields take at most L bytes each.
FewFields == Len(sent) <= MaxFields

LEMMA PacketIsShort ==
    ASSUME StreamInv, FewFields, NEW L \in Nat, \A f \in Stream!Fields : Len(Stream!Bytes(f)) <= L
    PROVE  Len(data) <= Stream!Header + MaxFields * L
<1> DEFINE h == Stream!Header
           n == Len(sent)
           Most(k) == h + k * L
<1>1. PICK off : Offsets(off, data, sent)
  BY DEF StreamInv
<1>2. h \in Nat /\ n \in Nat /\ n <= MaxFields /\ MaxFields \in Nat
  BY HeaderIs, ObjectsAssumption DEF StreamInv, StreamTyped, FewFields
<1>3. /\ off \in [0..n -> Nat] /\ off[0] = h /\ off[n] = Len(data)
      /\ \A k \in 1..n : off[k] = off[k - 1] + Len(Stream!Bytes(sent[k]))
  BY <1>1 DEF Offsets
<1>4. \A k \in 1..n : Len(Stream!Bytes(sent[k])) <= L /\ Len(Stream!Bytes(sent[k])) \in Nat
  <2> SUFFICES ASSUME NEW k \in 1..n
               PROVE  Len(Stream!Bytes(sent[k])) <= L /\ Len(Stream!Bytes(sent[k])) \in Nat
    OBVIOUS
  <2> DEFINE b == Stream!Bytes(sent[k])
  <2>1. sent[k] \in Stream!Fields
    BY DEF StreamInv, StreamTyped
  <2>2. b \in Seq(Byte) /\ Len(b) <= L
    BY <2>1, FieldIs
  <2> HIDE DEF b
  <2>3. Len(b) \in Nat
    BY <2>2
  <2> QED
    BY <2>2, <2>3 DEF b
<1>5. ASSUME NEW k \in Nat, NEW j \in Nat, k = j + 1 PROVE Most(k) = Most(j) + L
  BY <1>2, <1>5
<1>6. Most(0) = h /\ \A k \in Nat : Most(k) \in Nat
  BY <1>2
<1> HIDE DEF h, n, Most
<1> DEFINE Bad == {k \in 0..n : ~(off[k] <= Most(k))}
<1>7. Bad = {}
  <2> SUFFICES ASSUME Bad # {} PROVE FALSE
    OBVIOUS
  <2>1. Bad \in SUBSET Nat
    BY <1>2
  <2>2. PICK k \in Bad : \A i \in Bad : k <= i
    BY <2>1, LeastOf
  <2>3. k \in 0..n /\ ~(off[k] <= Most(k)) /\ k # 0
    BY <1>3, <1>6, <1>2
  <2> DEFINE j == k - 1
  <2>4. j \in 0..n /\ j \in Nat /\ k \in Nat /\ k \in 1..n /\ k = j + 1 /\ ~(k <= j)
    BY <1>2, <2>3
  <2> HIDE DEF j
  <2>5. j \notin Bad
    BY <2>2, <2>4
  <2>6. off[j] <= Most(j)
    BY <2>4, <2>5
  <2>7. off[k] = off[j] + Len(Stream!Bytes(sent[k]))
    BY <1>3, <2>4 DEF j
  <2>8. Most(k) = Most(j) + L
    BY <1>5, <2>4
  <2>9. off[j] \in Nat /\ off[k] \in Nat
    BY <1>3, <2>4
  <2> DEFINE b == Len(Stream!Bytes(sent[k]))
  <2>10. b <= L /\ b \in Nat /\ off[k] = off[j] + b
    BY <1>4, <2>4, <2>7
  <2> HIDE DEF b
  <2>11. Most(j) \in Nat /\ Most(k) \in Nat
    BY <1>6, <2>4
  <2> QED
    BY <2>3, <2>6, <2>8, <2>9, <2>10, <2>11
<1>8. Len(data) <= Most(n)
  <2>1. n \in 0..n
    BY <1>2
  <2> QED
    BY <1>3, <1>7, <2>1
<1>9. Most(n) <= Most(MaxFields)
  <2> DEFINE d == MaxFields - n
  <2>1. d \in Nat /\ MaxFields = n + d
    BY <1>2
  <2> HIDE DEF d
  <2>2. (n + d) * L = n * L + d * L /\ d * L \in Nat /\ n * L \in Nat
    BY <1>2, <2>1
  <2> QED
    BY <1>2, <2>1, <2>2 DEF Most
<1>10. Len(data) \in Nat
  BY DEF StreamInv, StreamTyped
<1> QED
  BY <1>2, <1>6, <1>8, <1>9, <1>10 DEF Most, h

LEMMA FieldsStayFew == ASSUME StreamInv, FewFields, Stream!Next PROVE FewFields'
<1>1. CASE \E f \in Stream!Fields : Stream!Write(f)
  <2>1. PICK f \in Stream!Fields : Stream!Write(f)
    BY <1>1
  <2>2. sent \in Seq(Stream!Fields) /\ Len(sent) < MaxFields /\ sent' = Append(sent, f)
    BY <2>1 DEF Stream!Write, StreamInv, StreamTyped
  <2>3. Len(sent') = Len(sent) + 1 /\ Len(sent) \in Nat
    BY <2>2
  <2> QED
    BY <2>2, <2>3, ObjectsAssumption DEF FewFields
<1>2. CASE Stream!Clear
  <2>1. Len(sent') = 0
    BY <1>2 DEF Stream!Clear
  <2> QED
    BY <2>1, ObjectsAssumption DEF FewFields
<1>3. CASE \E n \in 0..Len(data) : Stream!Receive(n)
  BY <1>3 DEF Stream!Receive, FewFields
<1>4. CASE \E kind \in Stream!Kinds, cap \in {Stream!Unlimited, 2 * Stream!Top}, x \in {0, Stream!Top} :
              Stream!Read(kind, cap, x)
  BY <1>4 DEF Stream!Read, FewFields
<1> QED
  BY <1>1, <1>2, <1>3, <1>4 DEF Stream!Next

\* For every width of a byte, of an integer and of a short, and every number of
\* fields: where the fields begin, that the reader has the packet's own bytes, and
\* that in the writer's order it is at the beginning of a field, is inductive
\* (BinaryStreamWriter, BinaryStreamReader).
THEOREM StreamInductive == Spec => [](StreamInv /\ FewFields)
<1>1. Init => StreamInv /\ FewFields
  <2>1. ASSUME Stream!Init PROVE FewFields
    <3>1. Len(sent) = 0
      BY <2>1 DEF Stream!Init
    <3> QED
      BY <3>1, ObjectsAssumption DEF FewFields
  <2> QED
    BY <2>1, StreamInit DEF Init
<1>2. StreamInv /\ FewFields /\ [Next]_vars => (StreamInv /\ FewFields)'
  <2> SUFFICES ASSUME StreamInv, FewFields, [Next]_vars PROVE (StreamInv /\ FewFields)'
    OBVIOUS
  <2>1. UNCHANGED streamVars \/ Stream!Next
    BY DEF Next, vars
  <2>2. CASE UNCHANGED streamVars
    BY <2>2, StreamStutter DEF streamVars, FewFields
  <2> QED
    BY <2>1, <2>2, StreamStep, FieldsStayFew
<1> QED
  BY <1>1, <1>2, PTL DEF Spec

\* Whatever is read, in whatever order and after whatever failure, of a packet of any
\* length: the reader stays in it (IsEnd's assertion) and the bytes behind its end
\* make no difference; a length that fits an unsigned integer is decoded to what it
\* was, and the checksum completes the sum.
THEOREM ReaderStays == Spec => [](Stream!NotPastEnd /\ Stream!OwnBytesOnly /\ Stream!Numbers)
<1>1. StreamInv => Stream!NotPastEnd /\ Stream!OwnBytesOnly /\ Stream!Numbers
  BY StreamMean
<1> QED
  BY <1>1, StreamInductive, PTL

\* If no packet is so long that its length wraps (the longest field takes L bytes),
\* then fields come back as they were written as well.
THEOREM PacketsHold ==
    ASSUME NEW L \in Nat, \A f \in Stream!Fields : Len(Stream!Bytes(f)) <= L,
           Stream!Header + MaxFields * L < Stream!Word
    PROVE  Spec => []StreamCorrect
<1>1. StreamInv /\ FewFields => StreamCorrect
  <2> SUFFICES ASSUME StreamInv, FewFields PROVE StreamCorrect
    OBVIOUS
  <2> DEFINE most == Stream!Header + MaxFields * L
             w == Stream!Word
  <2>1. Len(data) <= most /\ most < w
    BY PacketIsShort
  <2>2. Len(data) \in Nat /\ most \in Nat /\ w \in Nat
    <3>1. Len(data) \in Nat
      BY DEF StreamInv, StreamTyped
    <3>2. MaxFields \in Nat
      BY ObjectsAssumption
    <3>3. Stream!Header \in Nat
      BY HeaderIs
    <3>4. w \in Nat
      BY Widths
    <3> HIDE DEF w
    <3>5. MaxFields * L \in Nat
      BY <3>2
    <3>6. most \in Nat
      BY <3>3, <3>5
    <3> QED
      BY <3>1, <3>4, <3>6
  <2> HIDE DEF most, w
  <2>3. Len(data) < w
    BY <2>1, <2>2
  <2> QED
    BY <2>3, StreamMean DEF StreamCorrect, Stream!StreamCorrect, w
<1> QED
  BY <1>1, StreamInductive, PTL

-----------------------------------------------------------------------------
(* The slices of an array.                                                 *)

\* An end of a slice, made good, is at most dim, and right unless it is negative.
Ends == [open : BOOLEAN, value : Int]
IsEnd(v, dim) == v.value \in Int /\ v.value <= dim /\ (v.ok <=> v.value >= 0)

LEMMA EndIs ==
    ASSUME NEW dim \in Nat, NEW i \in Ends, NEW b \in BOOLEAN
    PROVE  IsEnd(Num!getValidValue(i, dim, b), dim)
<1>1. i.open \in BOOLEAN /\ i.value \in Int
  BY DEF Ends
<1>2. CASE i.open
  <2>1. Num!getValidValue(i, dim, b) = Num!Valid(IF b THEN 0 ELSE dim, TRUE)
    BY <1>2 DEF Num!getValidValue
  <2>2. CASE b
    <3>1. Num!getValidValue(i, dim, b) = Num!Valid(0, TRUE)
      BY <2>1, <2>2
    <3> QED
      BY <3>1 DEF IsEnd, Num!Valid
  <2>3. CASE ~b
    <3>1. Num!getValidValue(i, dim, b) = Num!Valid(dim, TRUE)
      BY <2>1, <2>3
    <3> QED
      BY <3>1 DEF IsEnd, Num!Valid
  <2> QED
    BY <2>2, <2>3
<1>3. CASE ~i.open /\ i.value > dim
  <2>1. ~(i.value < 0) /\ dim \in Int
    BY <1>1, <1>3
  <2>2. Num!getValidValue(i, dim, b) = Num!Valid(dim, TRUE)
    BY <1>3, <2>1 DEF Num!getValidValue
  <2> QED
    BY <2>2 DEF IsEnd, Num!Valid
<1>4. CASE ~i.open /\ ~(i.value > dim) /\ i.value < 0
  <2> DEFINE v == Num!getValidValue(i, dim, b)
             x == dim + i.value
             ok == x >= 0
  <2>1. v = [value |-> x, ok |-> ok]
    BY <1>1, <1>4 DEF Num!getValidValue, Num!Valid
  <2>2. x \in Int /\ x <= dim /\ (ok <=> x >= 0)
    BY <1>1, <1>4
  <2> HIDE DEF v, x, ok
  <2>3. v.value = x /\ v.ok = ok
    BY <2>1
  <2>4. IsEnd(v, dim)
    BY <2>2, <2>3 DEF IsEnd
  <2> QED
    BY <2>4 DEF v
<1>5. CASE ~i.open /\ ~(i.value > dim) /\ ~(i.value < 0)
  <2>1. Num!getValidValue(i, dim, b) = Num!Valid(i.value, TRUE)
    BY <1>1, <1>5 DEF Num!getValidValue
  <2> QED
    BY <1>1, <1>5, <2>1 DEF IsEnd, Num!Valid
<1> QED
  BY <1>1, <1>2, <1>3, <1>4, <1>5

\* For every size of a dimension and every two ends, open, counted from the front
\* or from the back, and in range or not: a view that generateShape calls valid
\* lies inside the dimension (ViewInside, for every slice there is).
THEOREM ViewsInside ==
    ASSUME NEW dim \in Nat, NEW start \in Ends, NEW end \in Ends,
           NEW v, v = Num!viewDim(dim, start, end), v.valid
    PROVE  v.start >= 0 /\ v.size >= 0 /\ v.start + v.size <= dim
<1> DEFINE s == Num!getValidValue(start, dim, TRUE)
           e == Num!getValidValue(end, dim, FALSE)
           first == IF s.value < 0 THEN 0 ELSE s.value
<1>1. IsEnd(s, dim) /\ IsEnd(e, dim)
  <2>1. TRUE \in BOOLEAN /\ FALSE \in BOOLEAN
    OBVIOUS
  <2> QED
    BY <2>1, EndIs
<1> DEFINE ok == (s.ok \/ e.ok) /\ s.value <= e.value
<1>2. v = [valid |-> ok, start |-> first, size |-> e.value - first]
  BY DEF Num!viewDim
<1> HIDE DEF s, e, ok
<1>3. v.valid = ok /\ v.start = first /\ v.size = e.value - first
  BY <1>2
<1>4. (s.ok \/ e.ok) /\ s.value <= e.value
  BY <1>3 DEF ok
<1> QED
  BY <1>1, <1>3, <1>4 DEF IsEnd
-----------------------------------------------------------------------------
(* The arrays.  A fold takes the places of a sequence out of their set one *)
(* by one, in an order the library chooses.                                *)

Out(s) == CHOOSE x \in s : TRUE
Folded(f, D, seq, start, step, s) ==
    f[s] = IF s = {} THEN start ELSE step[<<seq[Out(s)], f[s \ {Out(s)}]>>]

\* What is true of no place, and of a set of places when it is true of the set
\* without the one taken out, is true of all of them.
LEMMA PlacesUpTo ==
    ASSUME NEW n \in Nat, NEW P, {} \in P,
           \A s \in SUBSET (1..n) : s # {} /\ s \ {Out(s)} \in P => s \in P
    PROVE  SUBSET (1..n) \subseteq P
<1> DEFINE D == 1..n
           S == {k \in Nat : \A s \in SUBSET D : Cardinality(s) = k => s \in P}
<1>1. IsFiniteSet(D) /\ Cardinality(D) = n
  <2>1. n \in Int /\ 1 \in Int
    OBVIOUS
  <2>2. IsFiniteSet(1..n) /\ Cardinality(1..n) = IF 1 > n THEN 0 ELSE n - 1 + 1
    BY <2>1, FS_Interval
  <2> QED
    BY <2>2
<1> HIDE DEF D
<1>2. \A s \in SUBSET D : IsFiniteSet(s) /\ Cardinality(s) \in 0..n
  <2> SUFFICES ASSUME NEW s \in SUBSET D PROVE IsFiniteSet(s) /\ Cardinality(s) \in 0..n
    OBVIOUS
  <2>1. IsFiniteSet(s) /\ Cardinality(s) <= Cardinality(D)
    BY <1>1, FS_Subset
  <2>2. Cardinality(s) \in Nat
    BY <2>1, FS_CardinalityType
  <2> QED
    BY <1>1, <2>1, <2>2
<1>3. 0 \in S
  <2> SUFFICES ASSUME NEW s \in SUBSET D, Cardinality(s) = 0 PROVE s \in P
    OBVIOUS
  <2>1. s = {}
    BY <1>2, FS_EmptySet
  <2> QED
    BY <2>1
<1>4. ASSUME NEW k \in 0..(n - 1), k \in S PROVE k + 1 \in S
  <2> SUFFICES ASSUME NEW s \in SUBSET D, Cardinality(s) = k + 1 PROVE s \in P
    OBVIOUS
  <2>1. s # {}
    BY <1>2, FS_EmptySet
  <2>2. Out(s) \in s
    BY <2>1 DEF Out
  <2>3. Cardinality(s \ {Out(s)}) = k /\ s \ {Out(s)} \in SUBSET D
    <3>1. Cardinality(s \ {Out(s)}) = Cardinality(s) - 1
      BY <1>2, <2>2, FS_RemoveElement
    <3> QED
      BY <3>1
  <2>4. s \ {Out(s)} \in P
    BY <1>4, <2>3
  <2> QED
    BY <2>1, <2>4 DEF D
<1>5. 0..n \subseteq S
  <2> HIDE DEF S
  <2> QED
    BY <1>3, <1>4, UpTo
<1>6. ASSUME NEW s \in SUBSET D PROVE s \in P
  <2>1. Cardinality(s) \in S
    BY <1>2, <1>5
  <2> QED
    BY <2>1
<1> QED
  BY <1>6 DEF D

\* A fold over sets of places is well defined.
LEMMA FoldExists ==
    ASSUME NEW n \in Nat, NEW seq \in [1..n -> Int], NEW start \in Int,
           NEW step \in [Int \X Int -> Int]
    PROVE  \E f \in [SUBSET (1..n) -> Int] :
              \A s \in SUBSET (1..n) : Folded(f, 1..n, seq, start, step, s)
<1> DEFINE D == 1..n
           Up(f, k) == \A s \in SUBSET D : Cardinality(s) <= k => Folded(f, D, seq, start, step, s)
           S == {k \in Nat : \E f \in [SUBSET D -> Int] : Up(f, k)}
<1>1. IsFiniteSet(D) /\ Cardinality(D) = n
  <2>1. n \in Int /\ 1 \in Int
    OBVIOUS
  <2>2. IsFiniteSet(1..n) /\ Cardinality(1..n) = IF 1 > n THEN 0 ELSE n - 1 + 1
    BY <2>1, FS_Interval
  <2> QED
    BY <2>2
<1>d. seq \in [D -> Int]
  OBVIOUS
<1> HIDE DEF D
<1>2. \A s \in SUBSET D : IsFiniteSet(s) /\ Cardinality(s) \in Nat /\ Cardinality(s) <= n
  <2> SUFFICES ASSUME NEW s \in SUBSET D
               PROVE  IsFiniteSet(s) /\ Cardinality(s) \in Nat /\ Cardinality(s) <= n
    OBVIOUS
  <2>1. IsFiniteSet(s) /\ Cardinality(s) <= Cardinality(D)
    BY <1>1, FS_Subset
  <2> QED
    BY <1>1, <2>1, FS_CardinalityType
<1>3. \A s \in SUBSET D : s # {} => /\ Out(s) \in s /\ s \ {Out(s)} \in SUBSET D
                                    /\ Cardinality(s \ {Out(s)}) = Cardinality(s) - 1
  <2> SUFFICES ASSUME NEW s \in SUBSET D, s # {}
               PROVE  /\ Out(s) \in s /\ s \ {Out(s)} \in SUBSET D
                      /\ Cardinality(s \ {Out(s)}) = Cardinality(s) - 1
    OBVIOUS
  <2>1. Out(s) \in s
    BY DEF Out
  <2> QED
    BY <1>2, <2>1, FS_RemoveElement
<1>4. 0 \in S
  <2> DEFINE f == [s \in SUBSET D |-> start]
  <2>1. f \in [SUBSET D -> Int]
    OBVIOUS
  <2>2. ASSUME NEW s \in SUBSET D, Cardinality(s) <= 0 PROVE Folded(f, D, seq, start, step, s)
    <3>1. s = {}
      BY <1>2, <2>2, FS_EmptySet
    <3> QED
      BY <3>1 DEF Folded
  <2> QED
    BY <2>1, <2>2
<1>5. ASSUME NEW k \in 0..(n - 1), k \in S PROVE k + 1 \in S
  <2>1. PICK f \in [SUBSET D -> Int] : Up(f, k)
    BY <1>5
  <2> DEFINE y(s) == IF s = {} THEN start ELSE step[<<seq[Out(s)], f[s \ {Out(s)}]>>]
             g == [s \in SUBSET D |-> y(s)]
  <2>2. \A s \in SUBSET D : y(s) \in Int
    <3> SUFFICES ASSUME NEW s \in SUBSET D, s # {}
                 PROVE  step[<<seq[Out(s)], f[s \ {Out(s)}]>>] \in Int
      OBVIOUS
    <3>1. seq[Out(s)] \in Int /\ f[s \ {Out(s)}] \in Int
      BY <1>3, <1>d
    <3> QED
      BY <3>1
  <2>3. g \in [SUBSET D -> Int]
    BY <2>2
  <2>4. ASSUME NEW s \in SUBSET D, Cardinality(s) <= k + 1 PROVE Folded(g, D, seq, start, step, s)
    <3>1. CASE s = {}
      BY <3>1 DEF Folded
    <3>2. CASE s # {}
      <4> DEFINE r == s \ {Out(s)}
      <4>1. r \in SUBSET D /\ Cardinality(r) <= k
        <5>1. r \in SUBSET D /\ Cardinality(r) = Cardinality(s) - 1
          BY <1>3, <3>2
        <5> QED
          BY <1>2, <2>4, <5>1
      <4>2. g[r] = y(r) /\ g[s] = y(s)
        BY <4>1
      <4> HIDE DEF r
      <4>3. f[r] = y(r)
        BY <2>1, <4>1 DEF Folded
      <4>4. g[r] = f[r]
        BY <4>2, <4>3
      <4> HIDE DEF g
      <4> QED
        BY <3>2, <4>2, <4>4 DEF Folded, r
    <3> QED
      BY <3>1, <3>2
  <2>5. k + 1 \in Nat
    OBVIOUS
  <2> HIDE DEF g, y
  <2> QED
    BY <2>3, <2>4, <2>5
<1>6. 0..n \subseteq S
  <2> HIDE DEF S
  <2> QED
    BY <1>4, <1>5, UpTo
<1>7. n \in S
  <2> HIDE DEF S
  <2> QED
    BY <1>6
<1>8. PICK f \in [SUBSET D -> Int] : Up(f, n)
  BY <1>7
<1>9. ASSUME NEW s \in SUBSET D PROVE Folded(f, D, seq, start, step, s)
  BY <1>2, <1>8
<1> QED
  BY <1>9 DEF D

LEMMA ApplyIs ==
    ASSUME NEW op \in {"+", "-", "*", "min", "max"}, NEW x \in Int, NEW y \in Int
    PROVE  /\ Num!Apply(op, x, y) \in Int
           /\ op = "+" => Num!Apply(op, x, y) = x + y
           /\ op = "min" => Num!Apply(op, x, y) = IF x < y THEN x ELSE y
           /\ op = "max" => Num!Apply(op, x, y) = IF x > y THEN x ELSE y
<1>1. CASE op = "+"
  BY <1>1 DEF Num!Apply
<1>2. CASE op = "-"
  BY <1>2 DEF Num!Apply
<1>3. CASE op = "*"
  <2>1. Num!Apply("*", x, y) = x * y
    BY DEF Num!Apply
  <2>2. x * y \in Int
    OBVIOUS
  <2> QED
    BY <1>3, <2>1, <2>2
<1>4. CASE op = "min"
  BY <1>4 DEF Num!Apply
<1>5. CASE op = "max"
  BY <1>5 DEF Num!Apply
<1> QED
  BY <1>1, <1>2, <1>3, <1>4, <1>5

\* The folds of NumCpp: of a shape, of the sum an array should have, and of its
\* values.
LEMMA AppliedIs ==
    ASSUME NEW x \in Int, NEW y \in Int
    PROVE  /\ Num!Apply("+", x, y) = x + y
           /\ Num!Apply("min", x, y) = IF x < y THEN x ELSE y
           /\ Num!Apply("max", x, y) = IF x > y THEN x ELSE y
<1>1. ASSUME NEW op \in {"+", "-", "*", "min", "max"}
      PROVE  /\ op = "+" => Num!Apply(op, x, y) = x + y
             /\ op = "min" => Num!Apply(op, x, y) = IF x < y THEN x ELSE y
             /\ op = "max" => Num!Apply(op, x, y) = IF x > y THEN x ELSE y
  BY ApplyIs
<1> QED
  BY <1>1

LEMMA ProductIs ==
    ASSUME NEW seq \in Seq(Int)
    PROVE  LET D == 1..Len(seq)
           IN  \E f : /\ Num!FoldSeq(LAMBDA d, n : d * n, 1, seq) = f[D]
                      /\ f[{}] = 1
                      /\ \A s \in SUBSET D : f[s] \in Int
                      /\ \A s \in SUBSET D : s # {} =>
                            f[s] = seq[Out(s)] * f[s \ {Out(s)}]
<1> DEFINE D == 1..Len(seq)
           Step(f, s) == IF s = {} THEN 1 ELSE seq[Out(s)] * f[s \ {Out(s)}]
           Solution(f) == f = [s \in SUBSET D |-> Step(f, s)]
           step == [z \in Int \X Int |-> z[1] * z[2]]
<1>1. DOMAIN seq = D /\ Len(seq) \in Nat /\ seq \in [D -> Int] /\ D \in SUBSET D
  OBVIOUS
<1>2. Num!FoldSeq(LAMBDA d, n : d * n, 1, seq) = (CHOOSE f : Solution(f))[D]
  <2>1. Num!FoldSeq(LAMBDA d, n : d * n, 1, seq) =
          (CHOOSE f : f = [s \in SUBSET (DOMAIN seq) |->
              IF s = {} THEN 1 ELSE seq[CHOOSE x \in s : TRUE] * f[s \ {CHOOSE x \in s : TRUE}]])
            [DOMAIN seq]
    BY DEF Num!FoldSeq, Num!FoldFunction, Num!FoldFunctionOnSet, Num!MapThenFoldSet
  <2> QED
    BY <1>1, <2>1 DEF Out
<1>3. step \in [Int \X Int -> Int]
  OBVIOUS
<1>4. \A s \in SUBSET D : s # {} => seq[Out(s)] \in Int /\ s \ {Out(s)} \in SUBSET D
  <2> SUFFICES ASSUME NEW s \in SUBSET D, s # {} PROVE seq[Out(s)] \in Int
    OBVIOUS
  <2>1. Out(s) \in D
    BY DEF Out
  <2> QED
    BY <1>1, <2>1
<1>5. PICK f \in [SUBSET D -> Int] :
         \A s \in SUBSET D : Folded(f, D, seq, 1, step, s)
  <2>1. 1 \in Int
    OBVIOUS
  <2> HIDE DEF step
  <2> QED
    BY <1>1, <1>3, <2>1, FoldExists
<1>6. ASSUME NEW s \in SUBSET D PROVE f[s] = Step(f, s)
  <2>1. CASE s = {}
    BY <1>5, <2>1 DEF Folded
  <2>2. CASE s # {}
    <3>1. seq[Out(s)] \in Int /\ f[s \ {Out(s)}] \in Int
      BY <1>4, <2>2
    <3>2. f[s] = step[<<seq[Out(s)], f[s \ {Out(s)}]>>]
      BY <1>5, <2>2 DEF Folded
    <3> QED
      BY <2>2, <3>1, <3>2
  <2> QED
    BY <2>1, <2>2
<1>7. Solution(f)
  <2> HIDE DEF Step
  <2>1. f = [s \in SUBSET D |-> f[s]]
    OBVIOUS
  <2> QED
    BY <1>6, <2>1
<1> DEFINE g == CHOOSE h : Solution(h)
<1>8. Solution(g)
  <2> HIDE DEF Solution
  <2> QED
    BY <1>7
<1>9. Num!FoldSeq(LAMBDA d, n : d * n, 1, seq) = g[D]
  BY <1>2
<1> HIDE DEF g
<1>10. \A s \in SUBSET D : g[s] = Step(g, s)
  <2> HIDE DEF Step
  <2> QED
    BY <1>8
<1> DEFINE P == {s \in SUBSET D : g[s] \in Int}
<1>11. {} \in P
  <2>1. {} \in SUBSET D /\ 1 \in Int
    OBVIOUS
  <2>2. g[{}] = 1
    BY <1>10, <2>1
  <2> QED
    BY <2>1, <2>2
<1>12. ASSUME NEW s \in SUBSET D, s # {}, s \ {Out(s)} \in P PROVE s \in P
  <2>1. seq[Out(s)] \in Int /\ g[s \ {Out(s)}] \in Int
    BY <1>4, <1>12
  <2>2. g[s] = seq[Out(s)] * g[s \ {Out(s)}]
    BY <1>10, <1>12
  <2>3. seq[Out(s)] * g[s \ {Out(s)}] = step[<<seq[Out(s)], g[s \ {Out(s)}]>>]
    BY <2>1
  <2>4. step[<<seq[Out(s)], g[s \ {Out(s)}]>>] \in Int
    <3> HIDE DEF step
    <3> QED
      BY <1>3, <2>1
  <2> QED
    BY <2>2, <2>3, <2>4
<1>13. SUBSET D \subseteq P
  <2> HIDE DEF P
  <2> QED
    BY <1>1, <1>11, <1>12, PlacesUpTo
<1>14. g[{}] = 1 /\ \A s \in SUBSET D : g[s] \in Int
  BY <1>10, <1>11, <1>13
<1> HIDE DEF P
<1>15. \A s \in SUBSET D : s # {} => g[s] = seq[Out(s)] * g[s \ {Out(s)}]
  BY <1>10
<1> QED
  BY <1>9, <1>14, <1>15

LEMMA SumIs ==
    ASSUME NEW seq \in Seq(Int)
    PROVE  LET D == 1..Len(seq)
           IN  \E f : /\ Num!FoldSeq(LAMBDA x, y : x + y, 0, seq) = f[D]
                      /\ f[{}] = 0
                      /\ \A s \in SUBSET D : f[s] \in Int
                      /\ \A s \in SUBSET D : s # {} =>
                            f[s] = seq[Out(s)] + f[s \ {Out(s)}]
<1> DEFINE D == 1..Len(seq)
           Step(f, s) == IF s = {} THEN 0 ELSE seq[Out(s)] + f[s \ {Out(s)}]
           Solution(f) == f = [s \in SUBSET D |-> Step(f, s)]
           step == [z \in Int \X Int |-> z[1] + z[2]]
<1>1. DOMAIN seq = D /\ Len(seq) \in Nat /\ seq \in [D -> Int] /\ D \in SUBSET D
  OBVIOUS
<1>2. Num!FoldSeq(LAMBDA x, y : x + y, 0, seq) = (CHOOSE f : Solution(f))[D]
  <2>1. Num!FoldSeq(LAMBDA x, y : x + y, 0, seq) =
          (CHOOSE f : f = [s \in SUBSET (DOMAIN seq) |->
              IF s = {} THEN 0 ELSE seq[CHOOSE x \in s : TRUE] + f[s \ {CHOOSE x \in s : TRUE}]])
            [DOMAIN seq]
    BY DEF Num!FoldSeq, Num!FoldFunction, Num!FoldFunctionOnSet, Num!MapThenFoldSet
  <2> QED
    BY <1>1, <2>1 DEF Out
<1>3. step \in [Int \X Int -> Int]
  OBVIOUS
<1>4. \A s \in SUBSET D : s # {} => seq[Out(s)] \in Int /\ s \ {Out(s)} \in SUBSET D
  <2> SUFFICES ASSUME NEW s \in SUBSET D, s # {} PROVE seq[Out(s)] \in Int
    OBVIOUS
  <2>1. Out(s) \in D
    BY DEF Out
  <2> QED
    BY <1>1, <2>1
<1>5. PICK f \in [SUBSET D -> Int] :
         \A s \in SUBSET D : Folded(f, D, seq, 0, step, s)
  <2>1. 0 \in Int
    OBVIOUS
  <2> HIDE DEF step
  <2> QED
    BY <1>1, <1>3, <2>1, FoldExists
<1>6. ASSUME NEW s \in SUBSET D PROVE f[s] = Step(f, s)
  <2>1. CASE s = {}
    BY <1>5, <2>1 DEF Folded
  <2>2. CASE s # {}
    <3>1. seq[Out(s)] \in Int /\ f[s \ {Out(s)}] \in Int
      BY <1>4, <2>2
    <3>2. f[s] = step[<<seq[Out(s)], f[s \ {Out(s)}]>>]
      BY <1>5, <2>2 DEF Folded
    <3> QED
      BY <2>2, <3>1, <3>2
  <2> QED
    BY <2>1, <2>2
<1>7. Solution(f)
  <2> HIDE DEF Step
  <2>1. f = [s \in SUBSET D |-> f[s]]
    OBVIOUS
  <2> QED
    BY <1>6, <2>1
<1> DEFINE g == CHOOSE h : Solution(h)
<1>8. Solution(g)
  <2> HIDE DEF Solution
  <2> QED
    BY <1>7
<1>9. Num!FoldSeq(LAMBDA x, y : x + y, 0, seq) = g[D]
  BY <1>2
<1> HIDE DEF g
<1>10. \A s \in SUBSET D : g[s] = Step(g, s)
  <2> HIDE DEF Step
  <2> QED
    BY <1>8
<1> DEFINE P == {s \in SUBSET D : g[s] \in Int}
<1>11. {} \in P
  <2>1. {} \in SUBSET D /\ 0 \in Int
    OBVIOUS
  <2>2. g[{}] = 0
    BY <1>10, <2>1
  <2> QED
    BY <2>1, <2>2
<1>12. ASSUME NEW s \in SUBSET D, s # {}, s \ {Out(s)} \in P PROVE s \in P
  <2>1. seq[Out(s)] \in Int /\ g[s \ {Out(s)}] \in Int
    BY <1>4, <1>12
  <2>2. g[s] = seq[Out(s)] + g[s \ {Out(s)}]
    BY <1>10, <1>12
  <2>3. seq[Out(s)] + g[s \ {Out(s)}] = step[<<seq[Out(s)], g[s \ {Out(s)}]>>]
    BY <2>1
  <2>4. step[<<seq[Out(s)], g[s \ {Out(s)}]>>] \in Int
    <3> HIDE DEF step
    <3> QED
      BY <1>3, <2>1
  <2> QED
    BY <2>2, <2>3, <2>4
<1>13. SUBSET D \subseteq P
  <2> HIDE DEF P
  <2> QED
    BY <1>1, <1>11, <1>12, PlacesUpTo
<1>14. g[{}] = 0 /\ \A s \in SUBSET D : g[s] \in Int
  BY <1>10, <1>11, <1>13
<1> HIDE DEF P
<1>15. \A s \in SUBSET D : s # {} => g[s] = seq[Out(s)] + g[s \ {Out(s)}]
  BY <1>10
<1> QED
  BY <1>9, <1>14, <1>15

\* What reduce computes over a storage.
Reduced(op, init, seq) == Num!FoldSeq(LAMBDA x, y : Num!Apply(op, x, y), init, seq)

ReducesBy(f, op, init, seq) ==
    LET D == 1..Len(seq)
    IN  /\ Reduced(op, init, seq) = f[D]
        /\ f[{}] = init
        /\ \A s \in SUBSET D : f[s] \in Int
        /\ \A s \in SUBSET D : s # {} => f[s] = Num!Apply(op, seq[Out(s)], f[s \ {Out(s)}])

LEMMA ReduceIs ==
    ASSUME NEW op \in {"+", "min", "max"}, NEW init \in Int, NEW seq \in Seq(Int)
    PROVE  \E f : ReducesBy(f, op, init, seq)
<1> DEFINE D == 1..Len(seq)
           Step(f, s) == IF s = {} THEN init ELSE Num!Apply(op, seq[Out(s)], f[s \ {Out(s)}])
           Solution(f) == f = [s \in SUBSET D |-> Step(f, s)]
           step == [z \in Int \X Int |-> Num!Apply(op, z[1], z[2])]
<1>1. DOMAIN seq = D /\ Len(seq) \in Nat /\ seq \in [D -> Int] /\ D \in SUBSET D
  OBVIOUS
<1>2. Reduced(op, init, seq) = (CHOOSE f : Solution(f))[D]
  <2>1. Reduced(op, init, seq) =
          (CHOOSE f : f = [s \in SUBSET (DOMAIN seq) |->
              IF s = {} THEN init
              ELSE Num!Apply(op, seq[CHOOSE x \in s : TRUE], f[s \ {CHOOSE x \in s : TRUE}])])
            [DOMAIN seq]
    BY DEF Reduced, Num!FoldSeq, Num!FoldFunction, Num!FoldFunctionOnSet, Num!MapThenFoldSet
  <2> QED
    BY <1>1, <2>1 DEF Out
<1>3. step \in [Int \X Int -> Int]
  <2> SUFFICES ASSUME NEW x \in Int, NEW y \in Int PROVE Num!Apply(op, x, y) \in Int
    OBVIOUS
  <2> QED
    BY ApplyIs
<1>4. \A s \in SUBSET D : s # {} => seq[Out(s)] \in Int /\ s \ {Out(s)} \in SUBSET D
  <2> SUFFICES ASSUME NEW s \in SUBSET D, s # {} PROVE seq[Out(s)] \in Int
    OBVIOUS
  <2>1. Out(s) \in D
    BY DEF Out
  <2> QED
    BY <1>1, <2>1
<1>5. PICK f \in [SUBSET D -> Int] :
         \A s \in SUBSET D : Folded(f, D, seq, init, step, s)
  <2>1. init \in Int
    OBVIOUS
  <2> HIDE DEF step
  <2> QED
    BY <1>1, <1>3, <2>1, FoldExists
<1>6. ASSUME NEW s \in SUBSET D PROVE f[s] = Step(f, s)
  <2>1. CASE s = {}
    BY <1>5, <2>1 DEF Folded
  <2>2. CASE s # {}
    <3>1. seq[Out(s)] \in Int /\ f[s \ {Out(s)}] \in Int
      BY <1>4, <2>2
    <3>2. f[s] = step[<<seq[Out(s)], f[s \ {Out(s)}]>>]
      BY <1>5, <2>2 DEF Folded
    <3> QED
      BY <2>2, <3>1, <3>2
  <2> QED
    BY <2>1, <2>2
<1>7. Solution(f)
  <2> HIDE DEF Step
  <2>1. f = [s \in SUBSET D |-> f[s]]
    OBVIOUS
  <2> QED
    BY <1>6, <2>1
<1> DEFINE g == CHOOSE h : Solution(h)
<1>8. Solution(g)
  <2> HIDE DEF Solution
  <2> QED
    BY <1>7
<1>9. Reduced(op, init, seq) = g[D]
  BY <1>2
<1> HIDE DEF g
<1>10. \A s \in SUBSET D : g[s] = Step(g, s)
  <2> HIDE DEF Step
  <2> QED
    BY <1>8
<1> DEFINE P == {s \in SUBSET D : g[s] \in Int}
<1>11. {} \in P
  <2>1. {} \in SUBSET D /\ init \in Int
    OBVIOUS
  <2>2. g[{}] = init
    BY <1>10, <2>1
  <2> QED
    BY <2>1, <2>2
<1>12. ASSUME NEW s \in SUBSET D, s # {}, s \ {Out(s)} \in P PROVE s \in P
  <2>1. seq[Out(s)] \in Int /\ g[s \ {Out(s)}] \in Int
    BY <1>4, <1>12
  <2>2. g[s] = Num!Apply(op, seq[Out(s)], g[s \ {Out(s)}])
    BY <1>10, <1>12
  <2>3. Num!Apply(op, seq[Out(s)], g[s \ {Out(s)}]) = step[<<seq[Out(s)], g[s \ {Out(s)}]>>]
    BY <2>1
  <2>4. step[<<seq[Out(s)], g[s \ {Out(s)}]>>] \in Int
    <3> HIDE DEF step
    <3> QED
      BY <1>3, <2>1
  <2> QED
    BY <2>2, <2>3, <2>4
<1>13. SUBSET D \subseteq P
  <2> HIDE DEF P
  <2> QED
    BY <1>1, <1>11, <1>12, PlacesUpTo
<1>14. g[{}] = init /\ \A s \in SUBSET D : g[s] \in Int
  BY <1>10, <1>11, <1>13
<1> HIDE DEF P
<1>15. \A s \in SUBSET D : s # {} => g[s] = Num!Apply(op, seq[Out(s)], g[s \ {Out(s)}])
  BY <1>10
<1>16. ReducesBy(g, op, init, seq)
  BY <1>9, <1>14, <1>15 DEF ReducesBy
<1> QED
  BY <1>16

LEMMA SizeIs ==
    ASSUME NEW m \in Nat, NEW n \in Nat
    PROVE  /\ Num!calcShapeSize(<<n>>) = n
           /\ Num!calcShapeSize(<<m, n>>) = m * n
<1>1. Num!calcShapeSize(<<n>>) = n
  <2> DEFINE seq == <<n>>
  <2>1. seq \in Seq(Int) /\ seq # <<>> /\ 1..Len(seq) = {1} /\ seq[1] = n
    OBVIOUS
  <2>2. Num!calcShapeSize(seq) = Num!FoldSeq(LAMBDA d, k : d * k, 1, seq)
    BY <2>1 DEF Num!calcShapeSize
  <2> HIDE DEF seq
  <2> DEFINE D == 1..Len(seq)
  <2>f. \E f : /\ Num!FoldSeq(LAMBDA d, k : d * k, 1, seq) = f[D] /\ f[{}] = 1
              /\ \A s \in SUBSET D : s # {} => f[s] = seq[Out(s)] * f[s \ {Out(s)}]
    BY <2>1, ProductIs
  <2>d. D = {1}
    BY <2>1
  <2> HIDE DEF D
  <2>3. PICK f : /\ Num!calcShapeSize(seq) = f[{1}] /\ f[{}] = 1
                 /\ \A s \in SUBSET {1} : s # {} => f[s] = seq[Out(s)] * f[s \ {Out(s)}]
    BY <2>2, <2>f, <2>d
  <2>4. Out({1}) = 1
    BY DEF Out
  <2>5. f[{1}] = seq[1] * f[{1} \ {1}]
    BY <2>3, <2>4
  <2>6. {1} \ {1} = {}
    OBVIOUS
  <2>7. f[{1}] = n * 1
    BY <2>1, <2>3, <2>5, <2>6
  <2> QED
    BY <2>3, <2>7 DEF seq
<1>2. Num!calcShapeSize(<<m, n>>) = m * n
  <2> DEFINE seq == <<m, n>>
  <2>1. seq \in Seq(Int) /\ seq # <<>> /\ 1..Len(seq) = {1, 2} /\ seq[1] = m /\ seq[2] = n
    OBVIOUS
  <2>2. Num!calcShapeSize(seq) = Num!FoldSeq(LAMBDA d, k : d * k, 1, seq)
    BY <2>1 DEF Num!calcShapeSize
  <2> HIDE DEF seq
  <2> DEFINE D == 1..Len(seq)
  <2>f. \E f : /\ Num!FoldSeq(LAMBDA d, k : d * k, 1, seq) = f[D] /\ f[{}] = 1
              /\ \A s \in SUBSET D : s # {} => f[s] = seq[Out(s)] * f[s \ {Out(s)}]
    BY <2>1, ProductIs
  <2>d. D = {1, 2}
    BY <2>1
  <2> HIDE DEF D
  <2>3. PICK f : /\ Num!calcShapeSize(seq) = f[{1, 2}] /\ f[{}] = 1
                 /\ \A s \in SUBSET {1, 2} : s # {} => f[s] = seq[Out(s)] * f[s \ {Out(s)}]
    BY <2>2, <2>f, <2>d
  <2>4. Out({1}) = 1 /\ Out({2}) = 2 /\ Out({1, 2}) \in {1, 2}
    BY DEF Out
  <2>5. {1} \ {1} = {} /\ {2} \ {2} = {} /\ {1, 2} \ {1} = {2} /\ {1, 2} \ {2} = {1}
    OBVIOUS
  <2>6. f[{1}] = m /\ f[{2}] = n
    <3>1. f[{1}] = seq[1] * f[{1} \ {1}] /\ f[{2}] = seq[2] * f[{2} \ {2}]
      BY <2>3, <2>4
    <3>2. f[{1}] = m * 1 /\ f[{2}] = n * 1
      BY <2>1, <2>3, <2>5, <3>1
    <3> QED
      BY <3>2
  <2>7. f[{1, 2}] = seq[Out({1, 2})] * f[{1, 2} \ {Out({1, 2})}]
    BY <2>3
  <2>8. CASE Out({1, 2}) = 1
    <3>1. f[{1, 2}] = m * n
      BY <2>1, <2>5, <2>6, <2>7, <2>8
    <3> QED
      BY <2>3, <3>1 DEF seq
  <2>9. CASE Out({1, 2}) = 2
    <3>1. f[{1, 2}] = n * m
      BY <2>1, <2>5, <2>6, <2>7, <2>9
    <3>2. n * m = m * n
      OBVIOUS
    <3> QED
      BY <2>3, <3>1, <3>2 DEF seq
  <2> QED
    BY <2>4, <2>8, <2>9
<1> QED
  BY <1>1, <1>2

\* The place of an index in the lexical order, for every shape.
LEMMA LineRank ==
    ASSUME NEW n \in Nat, NEW i \in 0..(n - 1)
    PROVE  Num!Rank(<<n>>, <<i>>) = i
<1> DEFINE S == {jx \in Num!Indexes(<<n>>) : Num!Before(jx, <<i>>)}
           F == [k \in 1..i |-> <<k - 1>>]
<1>1. Num!Indexes(<<n>>) = {<<k>> : k \in 0..(n - 1)}
  BY DEF Num!Indexes
<1>2. \A k \in 0..(n - 1) : Num!Before(<<k>>, <<i>>) <=> k < i
  BY DEF Num!Before
<1>3. S = {<<k>> : k \in 0..(i - 1)}
  <2>1. \A z : z \in S <=> \E k \in 0..(n - 1) : z = <<k>> /\ k < i
    BY <1>1, <1>2
  <2>2. \A k : k \in 0..(n - 1) /\ k < i <=> k \in 0..(i - 1)
    OBVIOUS
  <2> QED
    BY <2>1, <2>2
<1> HIDE DEF S
<1>4. F \in [1..i -> S]
  <2> SUFFICES ASSUME NEW k \in 1..i PROVE <<k - 1>> \in S
    OBVIOUS
  <2>1. k - 1 \in 0..(i - 1)
    OBVIOUS
  <2> QED
    BY <1>3, <2>1
<1>5. \A a, b \in 1..i : F[a] = F[b] => a = b
  OBVIOUS
<1>6. \A z \in S : \E k \in 1..i : F[k] = z
  <2> SUFFICES ASSUME NEW k \in 0..(i - 1) PROVE \E a \in 1..i : F[a] = <<k>>
    BY <1>3
  <2>1. k + 1 \in 1..i /\ F[k + 1] = <<k>>
    OBVIOUS
  <2> QED
    BY <2>1
<1> HIDE DEF F
<1>7. ExistsBijection(1..i, S)
  BY <1>4, <1>5, <1>6 DEF ExistsBijection, Bijection, Injection, Surjection, IsInjective
<1>8. i \in Nat
  OBVIOUS
<1>9. Cardinality(S) = i
  BY <1>7, <1>8, FS_CountingElements
<1>10. Num!Rank(<<n>>, <<i>>) = Num!Cardinality(S)
  BY DEF Num!Rank, S
<1> QED
  BY <1>9, <1>10 DEF Num!Cardinality, Cardinality

LEMMA TableRank ==
    ASSUME NEW m \in Nat, NEW n \in Nat, NEW i \in 0..(m - 1), NEW j \in 0..(n - 1)
    PROVE  Num!Rank(<<m, n>>, <<i, j>>) = n * i + j
<1> DEFINE S == {jx \in Num!Indexes(<<m, n>>) : Num!Before(jx, <<i, j>>)}
           r == n * i + j
           Earlier(p, q) == p < i \/ (p = i /\ q < j)
           F == [k \in 1..r |-> <<(k - 1) \div n, (k - 1) % n>>]
<1>0. n \in Nat \ {0} /\ i \in Nat /\ j \in Nat /\ i < m /\ j < n /\ n * i \in Nat /\ r \in Nat
  OBVIOUS
<1>1. Num!Indexes(<<m, n>>) = {<<p, q>> : p \in 0..(m - 1), q \in 0..(n - 1)}
  BY DEF Num!Indexes
<1>2. \A p \in 0..(m - 1), q \in 0..(n - 1) : Num!Before(<<p, q>>, <<i, j>>) <=> Earlier(p, q)
  BY DEF Num!Before
<1> HIDE DEF Earlier
<1>3. \A z : z \in S <=> \E p \in 0..(m - 1), q \in 0..(n - 1) : z = <<p, q>> /\ Earlier(p, q)
  <2> SUFFICES ASSUME NEW z
               PROVE  z \in S <=> \E p \in 0..(m - 1), q \in 0..(n - 1) :
                                    z = <<p, q>> /\ Earlier(p, q)
    OBVIOUS
  <2>1. z \in S <=> z \in Num!Indexes(<<m, n>>) /\ Num!Before(z, <<i, j>>)
    OBVIOUS
  <2> HIDE DEF S
  <2>2. z \in Num!Indexes(<<m, n>>) <=> \E p \in 0..(m - 1), q \in 0..(n - 1) : z = <<p, q>>
    BY <1>1
  <2> QED
    BY <1>2, <2>1, <2>2
<1> USE DEF Earlier
<1> HIDE DEF S
<1>4. ASSUME NEW k \in 1..r
      PROVE  /\ k - 1 = n * ((k - 1) \div n) + ((k - 1) % n)
             /\ <<(k - 1) \div n, (k - 1) % n>> \in S
  <2> DEFINE p == (k - 1) \div n
             q == (k - 1) % n
  <2>1. k - 1 \in Nat /\ k - 1 < r
    BY <1>0
  <2>2. p \in Nat /\ q \in Nat /\ q < n /\ k - 1 = n * p + q
    BY <1>0, <2>1, DivMod
  <2> HIDE DEF p, q, r
  <2>3. ~(i < p)
    <3> SUFFICES ASSUME i < p PROVE FALSE
      OBVIOUS
    <3>1. n * i + n <= n * p
      BY <1>0, <2>2, LessIsStep
    <3>2. n * p \in Nat /\ n * i \in Nat
      BY <1>0, <2>2
    <3> QED
      BY <1>0, <2>1, <2>2, <3>1, <3>2 DEF r
  <2>4. Earlier(p, q)
    <3>1. CASE p < i
      BY <3>1
    <3>2. CASE p = i
      <4>1. n * i + q < n * i + j
        BY <2>1, <2>2, <3>2 DEF r
      <4>2. q < j
        BY <1>0, <2>2, <4>1
      <4> QED
        BY <3>2, <4>2
    <3> QED
      BY <1>0, <2>2, <2>3, <3>1, <3>2
  <2>5. p \in 0..(m - 1) /\ q \in 0..(n - 1)
    BY <1>0, <2>2, <2>3
  <2> HIDE DEF Earlier
  <2>6. <<p, q>> \in S
    BY <1>3, <2>4, <2>5
  <2> QED
    BY <2>2, <2>6 DEF p, q
<1>5. F \in [1..r -> S]
  BY <1>4
<1>6. ASSUME NEW a \in 1..r, NEW b \in 1..r, F[a] = F[b] PROVE a = b
  <2>1. (a - 1) \div n = (b - 1) \div n /\ (a - 1) % n = (b - 1) % n
    BY <1>6
  <2>2. a - 1 = b - 1
    BY <1>4, <2>1
  <2>3. a \in Int /\ b \in Int
    BY <1>0
  <2> QED
    BY <2>2, <2>3
<1>7. ASSUME NEW z \in S PROVE \E k \in 1..r : F[k] = z
  <2>1. PICK p \in 0..(m - 1), q \in 0..(n - 1) : z = <<p, q>> /\ Earlier(p, q)
    BY <1>3
  <2> DEFINE k == n * p + q
  <2>2. k \in Nat /\ p \in Int /\ p \in Nat /\ q \in 0..(n - 1) /\ n * p \in Nat
    BY <1>0
  <2>3. k < r
    <3>1. CASE p < i
      <4>1. n * p + n <= n * i
        BY <1>0, <2>2, <3>1, LessIsStep
      <4> QED
        BY <1>0, <2>2, <4>1
    <3>2. CASE p = i /\ q < j
      BY <1>0, <2>2, <3>2
    <3> QED
      BY <2>1, <3>1, <3>2
  <2>4. k \div n = p /\ k % n = q
    BY <1>0, <2>2, DivModOnce
  <2> HIDE DEF k, r
  <2>5. k + 1 \in 1..r /\ (k + 1) - 1 = k
    BY <1>0, <2>2, <2>3
  <2>6. F[k + 1] = <<p, q>>
    BY <2>4, <2>5
  <2> QED
    BY <2>1, <2>5, <2>6
<1> HIDE DEF F, r
<1>8. ExistsBijection(1..r, S)
  BY <1>5, <1>6, <1>7 DEF ExistsBijection, Bijection, Injection, Surjection, IsInjective
<1>9. Cardinality(S) = r
  BY <1>0, <1>8, FS_CountingElements
<1>10. Num!Rank(<<m, n>>, <<i, j>>) = Num!Cardinality(S)
  BY DEF Num!Rank, S
<1> QED
  BY <1>9, <1>10 DEF Num!Cardinality, Cardinality, r

LEMMA FlattenIs ==
    ASSUME NEW shape \in Seq(Nat), NEW ix \in Seq(Nat), Len(shape) = Len(ix)
    PROVE  \E f : /\ Num!flattenIndex(shape, ix) = f[Len(ix)].sum
                  /\ f[0] = [sum |-> 0, row |-> 1]
                  /\ \A d \in 1..Len(ix) :
                        f[d] = [sum |-> f[d - 1].sum + ix[Len(ix) - d + 1] * f[d - 1].row,
                                row |-> f[d - 1].row * shape[Len(ix) - d + 1]]
<1> DEFINE n == Len(ix)
           Step(f, d) == IF d = 0 THEN [sum |-> 0, row |-> 1]
                         ELSE [sum |-> f[d - 1].sum + ix[n - d + 1] * f[d - 1].row,
                               row |-> f[d - 1].row * shape[n - d + 1]]
           Solution(f) == f = [d \in 0..n |-> Step(f, d)]
           Y == [sum : Nat, row : Nat]
           x == [d \in Nat |-> IF d \in 1..n THEN ix[n - d + 1] ELSE 0]
           w == [d \in Nat |-> IF d \in 1..n THEN shape[n - d + 1] ELSE 0]
           step == [z \in Nat \X Y |-> [sum |-> z[2].sum + x[z[1]] * z[2].row,
                                        row |-> z[2].row * w[z[1]]]]
<1>1. Num!flattenIndex(shape, ix) = (CHOOSE f : Solution(f))[n].sum
  BY DEF Num!flattenIndex
<1>2. n \in Nat /\ \A d \in 1..n : /\ n - d + 1 \in 1..n
                                   /\ ix[n - d + 1] \in Nat /\ shape[n - d + 1] \in Nat
  <2>1. n \in Nat
    OBVIOUS
  <2>2. \A d \in 1..n : n - d + 1 \in 1..n
    BY <2>1
  <2> QED
    BY <2>1, <2>2
<1> HIDE DEF n
<1>3. x \in [Nat -> Nat] /\ w \in [Nat -> Nat]
  BY <1>2
<1>4. \A d \in 1..n : d \in Nat /\ x[d] = ix[n - d + 1] /\ w[d] = shape[n - d + 1]
  BY <1>2
<1> HIDE DEF x, w
<1>5. step \in [Nat \X Y -> Y]
  <2> SUFFICES ASSUME NEW a \in Nat, NEW b \in Y
               PROVE  [sum |-> b.sum + x[a] * b.row, row |-> b.row * w[a]] \in Y
    OBVIOUS
  <2>1. b.sum \in Nat /\ b.row \in Nat /\ x[a] \in Nat /\ w[a] \in Nat
    BY <1>3
  <2>2. x[a] * b.row \in Nat /\ b.row * w[a] \in Nat
    BY <2>1
  <2> QED
    BY <2>1, <2>2
<1>6. PICK f \in [0..n -> Y] :
         f[0] = [sum |-> 0, row |-> 1] /\ \A d \in 1..n : f[d] = step[<<d, f[d - 1]>>]
  <2> HIDE DEF step
  <2>1. [sum |-> 0, row |-> 1] \in Y
    OBVIOUS
  <2> HIDE DEF Y
  <2>2. \E f : IsSum(f, n, Y, [sum |-> 0, row |-> 1], step)
    BY <1>2, <1>5, <2>1, Summed, Zenon
  <2> QED
    BY <2>2 DEF IsSum
<1>7. \A d \in 0..n : f[d] = Step(f, d)
  <2> SUFFICES ASSUME NEW d \in 0..n PROVE f[d] = Step(f, d)
    OBVIOUS
  <2>1. CASE d = 0
    BY <1>6, <2>1
  <2>2. CASE d # 0
    <3>1. d \in 1..n /\ d \in Nat /\ f[d - 1] \in Y
      BY <1>2, <2>2
    <3>2. step[<<d, f[d - 1]>>] = [sum |-> f[d - 1].sum + x[d] * f[d - 1].row,
                                   row |-> f[d - 1].row * w[d]]
      BY <3>1
    <3> QED
      BY <1>4, <1>6, <2>2, <3>1, <3>2
  <2> QED
    BY <2>1, <2>2
<1>8. Solution(f)
  <2> HIDE DEF Step
  <2>1. f = [d \in 0..n |-> f[d]]
    OBVIOUS
  <2> QED
    BY <1>7, <2>1
<1> DEFINE g == CHOOSE h : Solution(h)
<1>9. Solution(g)
  <2> HIDE DEF Solution
  <2> QED
    BY <1>8
<1>10. Num!flattenIndex(shape, ix) = g[n].sum
  BY <1>1
<1> HIDE DEF g
<1>11. \A d \in 0..n : g[d] = Step(g, d)
  <2> HIDE DEF Step
  <2> QED
    BY <1>9
<1>12. 0 \in 0..n /\ \A d \in 1..n : d \in 0..n /\ d # 0
  BY <1>2
<1>13. g[0] = [sum |-> 0, row |-> 1]
  BY <1>11, <1>12
<1>14. \A d \in 1..n : g[d] = [sum |-> g[d - 1].sum + ix[n - d + 1] * g[d - 1].row,
                              row |-> g[d - 1].row * shape[n - d + 1]]
  BY <1>11, <1>12
<1> HIDE DEF Step, Solution, Y, step
<1> QED
  BY <1>10, <1>13, <1>14 DEF n

LEMMA FlattenLine ==
    ASSUME NEW n \in Nat, NEW i \in Nat
    PROVE  Num!flattenIndex(<<n>>, <<i>>) = i
<1> DEFINE shape == <<n>>
           ix == <<i>>
<1>1. shape \in Seq(Nat) /\ ix \in Seq(Nat) /\ Len(shape) = 1 /\ Len(ix) = 1 /\ ix[1] = i
  OBVIOUS
<1> HIDE DEF shape, ix
<1>2. PICK f : /\ Num!flattenIndex(shape, ix) = f[Len(ix)].sum
               /\ f[0] = [sum |-> 0, row |-> 1]
               /\ \A d \in 1..Len(ix) :
                     f[d] = [sum |-> f[d - 1].sum + ix[Len(ix) - d + 1] * f[d - 1].row,
                             row |-> f[d - 1].row * shape[Len(ix) - d + 1]]
  BY <1>1, FlattenIs
<1>3. f[1].sum = f[0].sum + ix[1] * f[0].row
  BY <1>1, <1>2
<1>4. f[0].sum = 0 /\ f[0].row = 1
  BY <1>2
<1>5. f[1].sum = 0 + i * 1
  BY <1>1, <1>3, <1>4
<1>6. Num!flattenIndex(shape, ix) = i
  BY <1>1, <1>2, <1>5
<1> QED
  BY <1>6 DEF shape, ix

LEMMA FlattenTable ==
    ASSUME NEW m \in Nat, NEW n \in Nat, NEW i \in Nat, NEW j \in Nat
    PROVE  Num!flattenIndex(<<m, n>>, <<i, j>>) = n * i + j
<1> DEFINE shape == <<m, n>>
           ix == <<i, j>>
<1>1. /\ shape \in Seq(Nat) /\ ix \in Seq(Nat) /\ Len(shape) = 2 /\ Len(ix) = 2
      /\ ix[1] = i /\ ix[2] = j /\ shape[2] = n
  OBVIOUS
<1> HIDE DEF shape, ix
<1>2. PICK f : /\ Num!flattenIndex(shape, ix) = f[Len(ix)].sum
               /\ f[0] = [sum |-> 0, row |-> 1]
               /\ \A d \in 1..Len(ix) :
                     f[d] = [sum |-> f[d - 1].sum + ix[Len(ix) - d + 1] * f[d - 1].row,
                             row |-> f[d - 1].row * shape[Len(ix) - d + 1]]
  BY <1>1, FlattenIs
<1>3. /\ 1 \in 1..Len(ix) /\ Len(ix) - 1 + 1 = 2 /\ 1 - 1 = 0
      /\ 2 \in 1..Len(ix) /\ Len(ix) - 2 + 1 = 1 /\ 2 - 1 = 1
  BY <1>1
<1>4. f[1] = [sum |-> f[0].sum + ix[2] * f[0].row, row |-> f[0].row * shape[2]]
  BY <1>2, <1>3
<1>5. f[0].sum = 0 /\ f[0].row = 1
  BY <1>2
<1>6. f[1].sum = 0 + j * 1 /\ f[1].row = 1 * n
  BY <1>1, <1>4, <1>5
<1>7. f[2].sum = f[1].sum + ix[1] * f[1].row
  <2>1. f[2] = [sum |-> f[1].sum + ix[1] * f[1].row, row |-> f[1].row * shape[1]]
    BY <1>2, <1>3
  <2> QED
    BY <2>1
<1>8. f[1].sum = j /\ f[1].row = n
  BY <1>6
<1>9. f[2].sum = j + i * n
  BY <1>1, <1>7, <1>8
<1>10. i * n = n * i /\ n * i \in Nat
  OBVIOUS
<1>11. Num!flattenIndex(shape, ix) = n * i + j
  BY <1>1, <1>2, <1>9, <1>10
<1> QED
  BY <1>11 DEF shape, ix

\* The shapes there are: a line and a table.
Lines == {<<n>> : n \in Nat \ {0}}
Tables == {<<m, n>> : m \in Nat \ {0}, n \in Nat \ {0}}
Shaped == Lines \cup Tables

\* Operator[] puts every index of a shape at its place in the lexical order, and the
\* places are all those of a storage of its size, each once.
Laid(shape) ==
    LET size == Num!calcShapeSize(shape)
        I == Num!Indexes(shape)
    IN /\ size \in Nat \ {0}
       /\ \A ix \in I : /\ Num!Rank(shape, ix) \in 0..(size - 1)
                        /\ Num!flattenIndex(shape, ix) = Num!Rank(shape, ix)
       /\ \A ix, jx \in I : Num!Rank(shape, ix) = Num!Rank(shape, jx) => ix = jx
       /\ \A k \in 0..(size - 1) : \E ix \in I : Num!Rank(shape, ix) = k

LEMMA LineLaid == ASSUME NEW n \in Nat \ {0} PROVE Laid(<<n>>)
<1>1. Num!calcShapeSize(<<n>>) = n
  BY SizeIs
<1>2. Num!Indexes(<<n>>) = {<<i>> : i \in 0..(n - 1)}
  BY DEF Num!Indexes
<1>3. \A i \in 0..(n - 1) : Num!Rank(<<n>>, <<i>>) = i /\ Num!flattenIndex(<<n>>, <<i>>) = i
  <2> SUFFICES ASSUME NEW i \in 0..(n - 1)
               PROVE  Num!Rank(<<n>>, <<i>>) = i /\ Num!flattenIndex(<<n>>, <<i>>) = i
    OBVIOUS
  <2>1. i \in Nat /\ n \in Nat
    OBVIOUS
  <2>2. Num!Rank(<<n>>, <<i>>) = i
    BY <2>1, LineRank
  <2>3. Num!flattenIndex(<<n>>, <<i>>) = i
    BY <2>1, FlattenLine
  <2> QED
    BY <2>2, <2>3
<1> DEFINE shape == <<n>>
<1>4. /\ Num!calcShapeSize(shape) = n /\ Num!Indexes(shape) = {<<i>> : i \in 0..(n - 1)}
      /\ \A i \in 0..(n - 1) : Num!Rank(shape, <<i>>) = i /\ Num!flattenIndex(shape, <<i>>) = i
  BY <1>1, <1>2, <1>3
<1> HIDE DEF shape
<1>5. \A ix, jx \in Num!Indexes(shape) : Num!Rank(shape, ix) = Num!Rank(shape, jx) => ix = jx
  <2> SUFFICES ASSUME NEW i \in 0..(n - 1), NEW j \in 0..(n - 1),
                      Num!Rank(shape, <<i>>) = Num!Rank(shape, <<j>>)
               PROVE  <<i>> = <<j>>
    BY <1>4
  <2> QED
    BY <1>4
<1>6. \A k \in 0..(n - 1) : \E ix \in Num!Indexes(shape) : Num!Rank(shape, ix) = k
  <2> SUFFICES ASSUME NEW k \in 0..(n - 1)
               PROVE  \E ix \in Num!Indexes(shape) : Num!Rank(shape, ix) = k
    OBVIOUS
  <2>1. <<k>> \in Num!Indexes(shape)
    BY <1>4
  <2> QED
    BY <1>4, <2>1
<1>7. \A ix \in Num!Indexes(shape) : /\ Num!Rank(shape, ix) \in 0..(n - 1)
                                     /\ Num!flattenIndex(shape, ix) = Num!Rank(shape, ix)
  <2> SUFFICES ASSUME NEW i \in 0..(n - 1)
               PROVE  /\ Num!Rank(shape, <<i>>) \in 0..(n - 1)
                      /\ Num!flattenIndex(shape, <<i>>) = Num!Rank(shape, <<i>>)
    BY <1>4
  <2> QED
    BY <1>4
<1>8. Laid(shape)
  BY <1>4, <1>5, <1>6, <1>7 DEF Laid
<1> QED
  BY <1>8 DEF shape

LEMMA TableLaid == ASSUME NEW m \in Nat \ {0}, NEW n \in Nat \ {0} PROVE Laid(<<m, n>>)
<1> DEFINE shape == <<m, n>>
           I == 0..(m - 1)
           J == 0..(n - 1)
<1>1. /\ Num!calcShapeSize(shape) = m * n
      /\ Num!Indexes(shape) = {<<i, j>> : i \in I, j \in J}
      /\ \A i \in I, j \in J : /\ Num!Rank(shape, <<i, j>>) = n * i + j
                               /\ Num!flattenIndex(shape, <<i, j>>) = n * i + j
  <2>1. Num!calcShapeSize(<<m, n>>) = m * n
    BY SizeIs
  <2>2. Num!Indexes(<<m, n>>) = {<<i, j>> : i \in I, j \in J}
    BY DEF Num!Indexes
  <2>3. \A i \in I, j \in J : Num!Rank(<<m, n>>, <<i, j>>) = n * i + j
    BY TableRank
  <2>4. \A i \in I, j \in J : i \in Nat /\ j \in Nat
    OBVIOUS
  <2> HIDE DEF I, J
  <2>5. \A i \in I, j \in J : Num!flattenIndex(<<m, n>>, <<i, j>>) = n * i + j
    BY <2>4, FlattenTable
  <2> QED
    BY <2>1, <2>2, <2>3, <2>5
<1>2. \A i \in I : i \in Nat /\ i < m /\ n * i \in Nat
  OBVIOUS
<1>3. \A j \in J : j \in Nat /\ j < n /\ j \in 0..(n - 1)
  OBVIOUS
<1>4. m * n \in Nat \ {0} /\ m * n = n * m
  <2>1. 0 \in Int /\ 0 < m /\ n * 0 + n <= n * m
    BY LessIsStep
  <2>2. m * n \in Nat /\ m * n = n * m /\ n * 0 = 0
    OBVIOUS
  <2> QED
    BY <2>1, <2>2
<1> HIDE DEF shape
<1>5. ASSUME NEW i \in I, NEW j \in J PROVE n * i + j \in 0..(m * n - 1)
  <2>1. n * i + n <= n * m
    BY <1>2, LessIsStep
  <2>2. n * i \in Nat /\ j \in Nat /\ j < n
    BY <1>2, <1>3
  <2> QED
    BY <1>4, <2>1, <2>2
<1>6. ASSUME NEW i \in I, NEW j \in J, NEW a \in I, NEW b \in J, n * i + j = n * a + b
      PROVE  i = a /\ j = b
  <2> DEFINE x == n * i + j
  <2>1. x \in Nat /\ i \in Int /\ a \in Int /\ j \in 0..(n - 1) /\ b \in 0..(n - 1)
    BY <1>2, <1>3
  <2>2. x = n * i + j /\ x = n * a + b
    BY <1>6
  <2> HIDE DEF x
  <2>3. x \div n = i /\ x % n = j
    BY <2>1, <2>2, DivModOnce
  <2>4. x \div n = a /\ x % n = b
    BY <2>1, <2>2, DivModOnce
  <2> QED
    BY <2>3, <2>4
<1>7. ASSUME NEW k \in 0..(m * n - 1) PROVE \E i \in I, j \in J : k = n * i + j
  <2> DEFINE i == k \div n
             j == k % n
  <2>1. k \in Nat /\ k < m * n
    BY <1>4
  <2>2. i \in Nat /\ j \in Nat /\ j < n /\ k = n * i + j
    BY <2>1, DivMod
  <2> HIDE DEF i, j
  <2>3. i < m
    <3> SUFFICES ASSUME ~(i < m) PROVE FALSE
      OBVIOUS
    <3>1. n * i >= n * m
      <4>1. CASE i = m
        BY <4>1
      <4>2. CASE m < i
        <5>1. n * m + n <= n * i
          BY <2>2, <4>2, LessIsStep
        <5>2. n * m \in Nat /\ n * i \in Nat
          BY <2>2
        <5> QED
          BY <5>1, <5>2
      <4> QED
        BY <2>2, <4>1, <4>2
    <3>2. n * i \in Nat
      BY <2>2
    <3> QED
      BY <1>4, <2>1, <2>2, <3>1, <3>2
  <2>4. i \in I /\ j \in J
    BY <2>2, <2>3
  <2> HIDE DEF I, J
  <2> QED
    BY <2>2, <2>4
<1> DEFINE size == m * n
<1>8. size \in Nat \ {0}
  BY <1>4
<1> HIDE DEF I, J, size
<1>9. ASSUME NEW ix \in Num!Indexes(shape)
      PROVE  /\ Num!Rank(shape, ix) \in 0..(size - 1)
             /\ Num!flattenIndex(shape, ix) = Num!Rank(shape, ix)
  <2>1. PICK i \in I, j \in J : ix = <<i, j>>
    BY <1>1
  <2> QED
    BY <1>1, <1>5, <2>1 DEF size
<1>10. ASSUME NEW ix \in Num!Indexes(shape), NEW jx \in Num!Indexes(shape),
              Num!Rank(shape, ix) = Num!Rank(shape, jx)
       PROVE  ix = jx
  <2>1. PICK i \in I, j \in J : ix = <<i, j>>
    BY <1>1
  <2>2. PICK a \in I, b \in J : jx = <<a, b>>
    BY <1>1
  <2>3. n * i + j = n * a + b
    BY <1>1, <1>10, <2>1, <2>2
  <2> QED
    BY <1>6, <2>1, <2>2, <2>3
<1>11. ASSUME NEW k \in 0..(size - 1) PROVE \E ix \in Num!Indexes(shape) : Num!Rank(shape, ix) = k
  <2>1. PICK i \in I, j \in J : k = n * i + j
    BY <1>7 DEF size
  <2>2. <<i, j>> \in Num!Indexes(shape) /\ Num!Rank(shape, <<i, j>>) = k
    BY <1>1, <2>1
  <2> QED
    BY <2>2
<1>12. Laid(shape)
  BY <1>1, <1>8, <1>9, <1>10, <1>11 DEF Laid, size
<1> QED
  BY <1>12 DEF shape

\* The layout is right for every shape of one or two dimensions, not only those of
\* the run (operator[], calcShapeSize).
THEOREM EveryShapeLaid == ASSUME NEW shape \in Shaped PROVE Laid(shape)
<1>1. CASE shape \in Lines
  BY <1>1, LineLaid DEF Lines
<1>2. CASE shape \in Tables
  <2>1. PICK m \in Nat \ {0}, n \in Nat \ {0} : shape = <<m, n>>
    BY <1>2 DEF Tables
  <2>2. Laid(<<m, n>>)
    BY TableLaid
  <2> QED
    BY <2>1, <2>2
<1> QED
  BY <1>1, <1>2 DEF Shaped

Refs == UNION {[Num!Indexes(shape) -> Int] : shape \in Shaped}
Cuts == SUBSET UNION {Num!Indexes(shape) : shape \in Shaped}
Arrays == [shape : Shaped, data : Nat, of : Nat, ref : Refs, cut : Cuts]
\* An array over the storages h holds, at the place of each index, what it should,
\* but where it was cut off.
Holds(a, h) ==
    /\ a.data \in 1..Len(h)
    /\ Len(h[a.data]) = Num!calcShapeSize(a.shape)
    /\ a.ref \in [Num!Indexes(a.shape) -> Int]
    /\ \A ix \in Num!Indexes(a.shape) \ a.cut : h[a.data][Num!Rank(a.shape, ix) + 1] = a.ref[ix]
\* Those that should share a storage do, and no others.
Alike(s) ==
    /\ \A k \in 1..Len(s) : s[k].of \in 1..Len(s)
    /\ \A j, k \in 1..Len(s) : s[j].of = s[k].of <=> s[j].data = s[k].data
ArraysInv ==
    /\ heap \in Seq(Seq(Int)) /\ arrs \in Seq(Arrays)
    /\ \A k \in 1..Len(arrs) : Holds(arrs[k], heap)
    /\ Alike(arrs)

\* What an array of the list is.
LEMMA ArrayIs ==
    ASSUME ArraysInv, NEW a \in Num!Range(arrs)
    PROVE  /\ a \in Arrays /\ a.shape \in Shaped /\ Holds(a, heap)
           /\ heap[a.data] \in Seq(Int)
           /\ \A k \in 1..Num!calcShapeSize(a.shape) : heap[a.data][k] \in Int
<1>1. PICK p \in 1..Len(arrs) : a = arrs[p]
  BY DEF ArraysInv, Num!Range
<1>2. a \in Arrays /\ Holds(a, heap)
  <2> HIDE DEF Arrays, Holds
  <2> QED
    BY <1>1 DEF ArraysInv
<1>3. a.shape \in Shaped
  BY <1>2 DEF Arrays
<1>4. heap[a.data] \in Seq(Int) /\ Len(heap[a.data]) = Num!calcShapeSize(a.shape)
  BY <1>2 DEF ArraysInv, Holds
<1>5. \A k \in 1..Num!calcShapeSize(a.shape) : heap[a.data][k] \in Int
  BY <1>4
<1> QED
  BY <1>2, <1>3, <1>4, <1>5

\* The elements of an array are the values of its ref, and lie inside the storage.
LEMMA PlacedAt ==
    ASSUME NEW shape \in Shaped, NEW ix \in Num!Indexes(shape)
    PROVE  /\ Num!Rank(shape, ix) \in Nat /\ Num!Rank(shape, ix) < Num!calcShapeSize(shape)
           /\ Num!Rank(shape, ix) + 1 \in 1..Num!calcShapeSize(shape)
           /\ Num!calcShapeSize(shape) \in Nat \ {0}
           /\ Num!flattenIndex(shape, ix) = Num!Rank(shape, ix)
<1> DEFINE size == Num!calcShapeSize(shape)
           k == Num!Rank(shape, ix)
<1>1. /\ size \in Nat \ {0} /\ k \in 0..(size - 1)
      /\ Num!flattenIndex(shape, ix) = k
  BY EveryShapeLaid DEF Laid
<1> HIDE DEF size, k
<1>2. k \in Nat /\ k < size /\ k + 1 \in 1..size
  BY <1>1
<1> QED
  BY <1>1, <1>2 DEF size, k

\* One more array, over a storage of its own or sharing as it should.
LEMMA OneMore ==
    ASSUME ArraysInv, NEW a \in Arrays, arrs' = Append(arrs, a),
           heap' \in Seq(Seq(Int)), \A c : Holds(c, heap) => Holds(c, heap'), Holds(a, heap'),
           \/ a.of = Len(arrs) + 1 /\ a.data = Len(heap) + 1
           \/ \E j \in 1..Len(arrs) : a.of = arrs[j].of /\ a.data = arrs[j].data
    PROVE  ArraysInv'
<1>1. /\ heap \in Seq(Seq(Int)) /\ arrs \in Seq(Arrays)
      /\ \A k \in 1..Len(arrs) : Holds(arrs[k], heap)
      /\ Alike(arrs)
  BY DEF ArraysInv
<1>2. /\ arrs' \in Seq(Arrays) /\ Len(arrs') = Len(arrs) + 1 /\ Len(arrs) \in Nat
      /\ \A k \in 1..Len(arrs) : arrs'[k] = arrs[k]
      /\ arrs'[Len(arrs) + 1] = a
  <2> HIDE DEF Arrays
  <2> QED
    BY <1>1
<1>3. ASSUME NEW k \in 1..Len(arrs') PROVE k \in 1..Len(arrs) \/ k = Len(arrs) + 1
  BY <1>2
<1>4. \A k \in 1..Len(arrs') : Holds(arrs'[k], heap')
  <2> HIDE DEF Holds, Arrays
  <2> QED
    BY <1>1, <1>2, <1>3
<1>5. \A k \in 1..Len(arrs) : /\ arrs[k].data \in 1..Len(heap) /\ Len(heap) \in Nat
                               /\ arrs[k].of \in 1..Len(arrs)
  BY <1>1 DEF Holds, Alike
<1>6. \A k \in 1..Len(arrs) : a.of = arrs[k].of <=> a.data = arrs[k].data
  <2>1. CASE a.of = Len(arrs) + 1 /\ a.data = Len(heap) + 1
    <3> SUFFICES ASSUME NEW k \in 1..Len(arrs)
                 PROVE  a.of # arrs[k].of /\ a.data # arrs[k].data
      OBVIOUS
    <3>1. /\ arrs[k].data \in 1..Len(heap) /\ Len(heap) \in Nat
          /\ arrs[k].of \in 1..Len(arrs) /\ Len(arrs) \in Nat
      BY <1>2, <1>5
    <3>2. arrs[k].data # Len(heap) + 1 /\ arrs[k].of # Len(arrs) + 1
      BY <3>1
    <3> QED
      BY <2>1, <3>2
  <2>2. CASE \E j \in 1..Len(arrs) : a.of = arrs[j].of /\ a.data = arrs[j].data
    BY <1>1, <2>2 DEF Alike
  <2> QED
    BY <2>1, <2>2
<1>7. a.of \in 1..(Len(arrs) + 1) /\ \A k \in 1..Len(arrs) : arrs[k].of \in 1..(Len(arrs) + 1)
  <2>1. \A n \in 1..Len(arrs) : n \in 1..(Len(arrs) + 1)
    BY <1>2
  <2>2. Len(arrs) + 1 \in 1..(Len(arrs) + 1)
    BY <1>2
  <2> QED
    BY <1>5, <2>1, <2>2
<1>8. Alike(arrs')
  <2> DEFINE t == arrs'
  <2>1. \A k \in 1..Len(t) : (k \in 1..Len(arrs) /\ t[k] = arrs[k]) \/ t[k] = a
    BY <1>2, <1>3
  <2>2. Len(t) = Len(arrs) + 1
    BY <1>2
  <2> HIDE DEF t
  <2>3. \A k \in 1..Len(t) : t[k].of \in 1..Len(t)
    BY <1>7, <2>1, <2>2
  <2>4. \A j, k \in 1..Len(t) : t[j].of = t[k].of <=> t[j].data = t[k].data
    <3>1. \A j, k \in 1..Len(arrs) : arrs[j].of = arrs[k].of <=> arrs[j].data = arrs[k].data
      BY <1>1 DEF Alike
    <3> SUFFICES ASSUME NEW j \in 1..Len(t), NEW k \in 1..Len(t)
                 PROVE  t[j].of = t[k].of <=> t[j].data = t[k].data
      OBVIOUS
    <3>2. CASE t[j] = a /\ t[k] = a
      BY <3>2
    <3>3. CASE t[j] = a /\ k \in 1..Len(arrs) /\ t[k] = arrs[k]
      BY <1>6, <3>3
    <3>4. CASE j \in 1..Len(arrs) /\ t[j] = arrs[j] /\ t[k] = a
      <4>1. a.of = arrs[j].of <=> a.data = arrs[j].data
        BY <1>6, <3>4
      <4> QED
        BY <3>4, <4>1
    <3>5. CASE /\ j \in 1..Len(arrs) /\ t[j] = arrs[j]
               /\ k \in 1..Len(arrs) /\ t[k] = arrs[k]
      BY <3>1, <3>5
    <3> QED
      BY <2>1, <3>2, <3>3, <3>4, <3>5
  <2> QED
    BY <2>3, <2>4 DEF Alike, t
<1> HIDE DEF Holds, Arrays
<1> QED
  BY <1>2, <1>4, <1>8 DEF ArraysInv

LEMMA MadeKeeps ==
    ASSUME ArraysInv, NEW shape \in Shaped, NEW block \in Seq(Int), NEW ref, NEW cut \in Cuts,
           Len(block) = Num!calcShapeSize(shape), ref \in [Num!Indexes(shape) -> Int],
           \A ix \in Num!Indexes(shape) \ cut : block[Num!Rank(shape, ix) + 1] = ref[ix],
           Num!Made(shape, block, ref, cut)
    PROVE  ArraysInv'
<1> DEFINE a == [shape |-> shape, data |-> Len(heap) + 1, of |-> Len(arrs) + 1,
                 ref |-> ref, cut |-> cut]
<1>1. heap \in Seq(Seq(Int)) /\ Len(arrs) \in Nat
  BY DEF ArraysInv
<1>2. heap' = Append(heap, block) /\ arrs' = Append(arrs, a)
  BY DEF Num!Made
<1>3. ref \in Refs
  BY DEF Refs
<1>4. a \in Arrays
  BY <1>1, <1>3 DEF Arrays
<1>5. /\ heap' \in Seq(Seq(Int)) /\ Len(heap') = Len(heap) + 1 /\ Len(heap) \in Nat
      /\ \A b \in 1..Len(heap) : heap'[b] = heap[b]
      /\ heap'[Len(heap) + 1] = block
  BY <1>1, <1>2
<1>6. ASSUME NEW c, Holds(c, heap) PROVE Holds(c, heap')
  <2>1. c.data \in 1..Len(heap) /\ c.data \in 1..Len(heap')
    BY <1>5, <1>6 DEF Holds
  <2>2. heap'[c.data] = heap[c.data]
    BY <1>5, <2>1
  <2> QED
    BY <1>6, <2>1, <2>2 DEF Holds
<1>7. /\ a.data = Len(heap) + 1 /\ a.of = Len(arrs) + 1
      /\ a.shape = shape /\ a.ref = ref /\ a.cut = cut
  OBVIOUS
<1>8. Holds(a, heap')
  <2>1. a.data \in 1..Len(heap') /\ heap'[a.data] = block
    BY <1>5, <1>7
  <2> HIDE DEF a
  <2> QED
    BY <1>7, <2>1 DEF Holds
<1> HIDE DEF a, Holds, Arrays
<1> QED
  BY <1>2, <1>4, <1>5, <1>6, <1>7, <1>8, OneMore

\* Nothing is cut off of what is made of its elements.
LEMMA NoCut == {} \in Cuts
  BY DEF Cuts

\* The containers of rows: what fillContainerBuffer copies.
LEMMA OneRow ==
    ASSUME NEW a \in Seq(Int)
    PROVE  Num!FlattenSeq(<<a>>) = a
<1> DEFINE s == <<a>>
           Solution(f) == f = [i \in 1..Len(s) |-> IF i = 1 THEN s[i] ELSE f[i - 1] \o s[i]]
           g == CHOOSE f : Solution(f)
<1>1. Num!FlattenSeq(s) = IF Len(s) = 0 THEN s ELSE g[Len(s)]
  BY DEF Num!FlattenSeq
<1>2. Len(s) = 1 /\ 1..Len(s) = {1} /\ s[1] = a
  OBVIOUS
<1> HIDE DEF s
<1>3. Solution([i \in 1..Len(s) |-> a])
  <2> DEFINE h == [i \in 1..Len(s) |-> a]
  <2>1. h = [i \in 1..Len(s) |-> IF i = 1 THEN s[i] ELSE h[i - 1] \o s[i]]
    BY <1>2
  <2> QED
    BY <2>1
<1>4. Solution(g)
  <2> HIDE DEF Solution
  <2> QED
    BY <1>3
<1> HIDE DEF g
<1>5. g[1] = a
  BY <1>2, <1>4
<1>6. Num!FlattenSeq(s) = a
  BY <1>1, <1>2, <1>5
<1> QED
  BY <1>6 DEF s

LEMMA TwoRows ==
    ASSUME NEW a \in Seq(Int), NEW b \in Seq(Int)
    PROVE  Num!FlattenSeq(<<a, b>>) = a \o b
<1> DEFINE s == <<a, b>>
           Solution(f) == f = [i \in 1..Len(s) |-> IF i = 1 THEN s[i] ELSE f[i - 1] \o s[i]]
           g == CHOOSE f : Solution(f)
<1>1. Num!FlattenSeq(s) = IF Len(s) = 0 THEN s ELSE g[Len(s)]
  BY DEF Num!FlattenSeq
<1>2. Len(s) = 2 /\ 1..Len(s) = {1, 2} /\ s[1] = a /\ s[2] = b
  OBVIOUS
<1> HIDE DEF s
<1> DEFINE h == [i \in 1..Len(s) |-> IF i = 1 THEN a ELSE a \o b]
<1>3. Solution(h)
  <2>1. h[1] = a
    BY <1>2
  <2>2. \A i \in 1..Len(s) :
           (IF i = 1 THEN a ELSE a \o b) = (IF i = 1 THEN s[i] ELSE h[i - 1] \o s[i])
    <3> HIDE DEF h
    <3> QED
      BY <1>2, <2>1
  <2>3. [i \in 1..Len(s) |-> IF i = 1 THEN a ELSE a \o b]
          = [i \in 1..Len(s) |-> IF i = 1 THEN s[i] ELSE h[i - 1] \o s[i]]
    <3> HIDE DEF h
    <3> QED
      BY <2>2
  <2> QED
    BY <2>3
<1>4. Solution(g)
  <2> HIDE DEF Solution
  <2> QED
    BY <1>3
<1> HIDE DEF g
<1>5. g[1] = a
  BY <1>2, <1>4
<1>6. g[2] = g[1] \o b
  <2>1. \A i \in 1..Len(s) : g[i] = IF i = 1 THEN s[i] ELSE g[i - 1] \o s[i]
    <3> DEFINE e(i) == IF i = 1 THEN s[i] ELSE g[i - 1] \o s[i]
    <3>1. g = [i \in 1..Len(s) |-> e(i)]
      BY <1>4
    <3> HIDE DEF e
    <3>2. \A i \in 1..Len(s) : g[i] = e(i)
      BY <3>1
    <3> QED
      BY <3>2 DEF e
  <2>2. 2 \in 1..Len(s) /\ 2 # 1 /\ 2 - 1 = 1
    BY <1>2
  <2>3. g[2] = g[2 - 1] \o s[2]
    BY <2>1, <2>2, Zenon
  <2> QED
    BY <1>2, <2>2, <2>3
<1>7. Num!FlattenSeq(s) = a \o b
  BY <1>1, <1>2, <1>5, <1>6
<1> QED
  BY <1>7 DEF s

LEMMA Joined ==
    ASSUME NEW a \in Seq(Int), NEW b \in Seq(Int), Len(a) = 3, Len(b) = 3
    PROVE  /\ a \o b \in Seq(Int) /\ Len(a \o b) = 6
           /\ (a \o b)[1] = a[1] /\ (a \o b)[2] = a[2] /\ (a \o b)[3] = a[3]
           /\ (a \o b)[4] = b[1] /\ (a \o b)[5] = b[2] /\ (a \o b)[6] = b[3]
<1> DEFINE s == a \o b
<1>1. /\ s \in Seq(Int) /\ Len(s) = Len(a) + Len(b)
      /\ \A i \in 1..Len(a) + Len(b) : s[i] = IF i <= Len(a) THEN a[i] ELSE b[i - Len(a)]
  BY ConcatProperties
<1> HIDE DEF s
<1>2. \A i \in 1..6 : s[i] = IF i <= 3 THEN a[i] ELSE b[i - 3]
  <2>1. Len(a) + Len(b) = 6
    OBVIOUS
  <2> QED
    BY <1>1, <2>1
<1>3. s[1] = a[1] /\ s[2] = a[2] /\ s[3] = a[3]
  BY <1>2
<1>4. s[4] = b[1] /\ s[5] = b[2] /\ s[6] = b[3]
  BY <1>2
<1>5. s \in Seq(Int) /\ Len(s) = 6
  BY <1>1
<1> QED
  BY <1>3, <1>4, <1>5 DEF s

LEMMA ContainerKept == ASSUME ArraysInv, NEW c \in Num!Containers, Num!array(c) PROVE ArraysInv'
<1> DEFINE shape == Num!makeContainerShape(c)
           block == Num!fillContainerBuffer(c)
           ref == [ix \in Num!Indexes(shape) |-> c[ix[1] + 1][ix[2] + 1]]
<1>1. Num!Made(shape, block, ref, {})
  BY DEF Num!array
<1>2. /\ shape \in Shaped /\ block \in Seq(Int) /\ Len(block) = Num!calcShapeSize(shape)
      /\ ref \in [Num!Indexes(shape) -> Int]
      /\ \A ix \in Num!Indexes(shape) : block[Num!Rank(shape, ix) + 1] = ref[ix]
  <2>1. CASE c = <<<<7>>>>
    <3>1. shape = <<1, 1>>
      BY <2>1 DEF Num!makeContainerShape
    <3>2. block = <<7>>
      <4>1. <<7>> \in Seq(Int)
        OBVIOUS
      <4>2. Num!FlattenSeq(<<<<7>>>>) = <<7>>
        BY <4>1, OneRow
      <4> QED
        BY <2>1, <4>2 DEF Num!fillContainerBuffer
    <3>3. Num!Indexes(<<1, 1>>) = {<<0, 0>>}
      <4>1. 0..(1 - 1) = {0}
        OBVIOUS
      <4> QED
        BY <4>1 DEF Num!Indexes
    <3>4. Num!Rank(<<1, 1>>, <<0, 0>>) = 0
      <4>1. 0 \in 0..(1 - 1) /\ 1 \in Nat /\ 1 * 0 + 0 = 0
        OBVIOUS
      <4> QED
        BY <4>1, TableRank
    <3>5. Num!calcShapeSize(<<1, 1>>) = 1
      <4>1. 1 \in Nat /\ 1 * 1 = 1
        OBVIOUS
      <4> QED
        BY <4>1, SizeIs
    <3>6. <<1, 1>> \in Shaped
      BY DEF Shaped, Tables
    <3>7. ref = [ix \in Num!Indexes(shape) |-> c[ix[1] + 1][ix[2] + 1]]
      OBVIOUS
    <3> HIDE DEF shape, block, ref
    <3>8. ref[<<0, 0>>] = 7 /\ ref \in [Num!Indexes(shape) -> Int]
      <4>1. \A ix \in {<<0, 0>>} : c[ix[1] + 1][ix[2] + 1] = 7
        BY <2>1
      <4> QED
        BY <3>1, <3>3, <3>7, <4>1
    <3>9. block \in Seq(Int) /\ Len(block) = 1 /\ block[0 + 1] = 7
      BY <3>2
    <3>10. \A ix \in Num!Indexes(shape) : block[Num!Rank(shape, ix) + 1] = ref[ix]
      BY <3>1, <3>3, <3>4, <3>8, <3>9
    <3> QED
      BY <3>1, <3>5, <3>6, <3>8, <3>9, <3>10
  <2>2. CASE c = <<<<1, 2, 3>>, <<4, 0, 6>>>>
    <3>1. shape = <<2, 3>>
      BY <2>2 DEF Num!makeContainerShape
    <3>2. /\ block \in Seq(Int) /\ Len(block) = 6
          /\ block[1] = 1 /\ block[2] = 2 /\ block[3] = 3
          /\ block[4] = 4 /\ block[5] = 0 /\ block[6] = 6
      <4> DEFINE p == <<1, 2, 3>>
                 q == <<4, 0, 6>>
      <4>1. /\ p \in Seq(Int) /\ Len(p) = 3 /\ p[1] = 1 /\ p[2] = 2 /\ p[3] = 3
            /\ q \in Seq(Int) /\ Len(q) = 3 /\ q[1] = 4 /\ q[2] = 0 /\ q[3] = 6
        OBVIOUS
      <4>2. block = Num!FlattenSeq(<<p, q>>)
        BY <2>2 DEF Num!fillContainerBuffer
      <4> HIDE DEF p, q, block
      <4>3. block = p \o q
        BY <4>1, <4>2, TwoRows
      <4>4. /\ p \o q \in Seq(Int) /\ Len(p \o q) = 6
            /\ (p \o q)[1] = p[1] /\ (p \o q)[2] = p[2] /\ (p \o q)[3] = p[3]
            /\ (p \o q)[4] = q[1] /\ (p \o q)[5] = q[2] /\ (p \o q)[6] = q[3]
        BY <4>1, Joined
      <4> QED
        BY <4>1, <4>3, <4>4
    <3>3. Num!Indexes(<<2, 3>>) = {<<i, j>> : i \in {0, 1}, j \in {0, 1, 2}}
      <4>1. 0..(2 - 1) = {0, 1} /\ 0..(3 - 1) = {0, 1, 2}
        OBVIOUS
      <4> QED
        BY <4>1 DEF Num!Indexes
    <3>4. \A i \in {0, 1}, j \in {0, 1, 2} : Num!Rank(<<2, 3>>, <<i, j>>) = 3 * i + j
      <4> SUFFICES ASSUME NEW i \in {0, 1}, NEW j \in {0, 1, 2}
                   PROVE  Num!Rank(<<2, 3>>, <<i, j>>) = 3 * i + j
        OBVIOUS
      <4> DEFINE m == 2
                 n == 3
      <4>1. m \in Nat /\ n \in Nat /\ i \in 0..(m - 1) /\ j \in 0..(n - 1)
        OBVIOUS
      <4> HIDE DEF m, n
      <4>2. Num!Rank(<<m, n>>, <<i, j>>) = n * i + j
        BY <4>1, TableRank
      <4> QED
        BY <4>2 DEF m, n
    <3>5. Num!calcShapeSize(<<2, 3>>) = 6
      <4>1. 2 \in Nat /\ 3 \in Nat /\ 2 * 3 = 6
        OBVIOUS
      <4> QED
        BY <4>1, SizeIs
    <3>6. <<2, 3>> \in Shaped
      BY DEF Shaped, Tables
    <3>7. ref = [ix \in Num!Indexes(shape) |-> c[ix[1] + 1][ix[2] + 1]]
      OBVIOUS
    <3> HIDE DEF shape, block, ref
    <3>8. \A i \in {0, 1}, j \in {0, 1, 2} :
             <<i, j>> \in Num!Indexes(shape) /\ ref[<<i, j>>] = c[i + 1][j + 1]
      BY <3>1, <3>3, <3>7
    <3>10. \A i \in {0, 1}, j \in {0, 1, 2} : /\ c[i + 1][j + 1] = block[3 * i + j + 1]
                                              /\ c[i + 1][j + 1] \in Int
      <4>1. /\ c[0 + 1][0 + 1] = 1 /\ c[0 + 1][1 + 1] = 2 /\ c[0 + 1][2 + 1] = 3
            /\ c[1 + 1][0 + 1] = 4 /\ c[1 + 1][1 + 1] = 0 /\ c[1 + 1][2 + 1] = 6
        BY <2>2
      <4>2. /\ block[3 * 0 + 0 + 1] = 1 /\ block[3 * 0 + 1 + 1] = 2 /\ block[3 * 0 + 2 + 1] = 3
            /\ block[3 * 1 + 0 + 1] = 4 /\ block[3 * 1 + 1 + 1] = 0 /\ block[3 * 1 + 2 + 1] = 6
        BY <3>2
      <4> QED
        BY <4>1, <4>2
    <3>11. ref \in [Num!Indexes(shape) -> Int]
      <4>1. \A ix \in Num!Indexes(shape) : c[ix[1] + 1][ix[2] + 1] \in Int
        BY <3>1, <3>3, <3>10
      <4> QED
        BY <3>7, <4>1
    <3>12. ASSUME NEW ix \in Num!Indexes(shape) PROVE block[Num!Rank(shape, ix) + 1] = ref[ix]
      <4>1. PICK i \in {0, 1}, j \in {0, 1, 2} : ix = <<i, j>>
        BY <3>1, <3>3
      <4> QED
        BY <3>1, <3>4, <3>8, <3>10, <4>1
    <3> QED
      BY <3>1, <3>2, <3>5, <3>6, <3>11, <3>12
  <2> QED
    BY <2>1, <2>2 DEF Num!Containers
<1> HIDE DEF shape, block, ref
<1> QED
  BY <1>1, <1>2, MadeKeeps, NoCut

\* What an array of numbers, of one value or of an operation's results holds.
LEMMA ListKept == ASSUME ArraysInv, NEW c \in Num!Lists, Num!array_of_numbers(c) PROVE ArraysInv'
<1> DEFINE n == Len(c)
           shape == <<n>>
           ref == [ix \in Num!Indexes(shape) |-> c[ix[1] + 1]]
<1>1. c \in Seq(Int) /\ n \in Nat \ {0}
  <2>1. c = <<3, 1, 2, 0, 5, 4>>
    BY DEF Num!Lists
  <2> QED
    BY <2>1
<1>2. Num!Made(shape, c, ref, {})
  BY DEF Num!array_of_numbers
<1>3. shape \in Shaped
  BY <1>1 DEF Shaped, Lines
<1>4. Num!calcShapeSize(shape) = n
  BY <1>1, SizeIs
<1>5. Num!Indexes(shape) = {<<i>> : i \in 0..(n - 1)}
  BY DEF Num!Indexes
<1>6. \A i \in 0..(n - 1) : Num!Rank(shape, <<i>>) = i
  BY <1>1, LineRank
<1>7. \A i \in 0..(n - 1) : c[i + 1] \in Int
  BY <1>1
<1> HIDE DEF n
<1>8. ref \in [Num!Indexes(shape) -> Int]
  <2>1. \A ix \in Num!Indexes(shape) : c[ix[1] + 1] \in Int
    BY <1>5, <1>7
  <2> QED
    BY <2>1
<1>9. \A ix \in Num!Indexes(shape) : c[Num!Rank(shape, ix) + 1] = ref[ix]
  BY <1>5, <1>6
<1>10. Len(c) = Num!calcShapeSize(shape)
  BY <1>4 DEF n
<1> HIDE DEF shape, ref
<1> QED
  BY <1>1, <1>2, <1>3, <1>8, <1>9, <1>10, MadeKeeps, NoCut

LEMMA ShapesShaped == Num!Shapes \subseteq Shaped
  BY DEF Num!Shapes, Shaped, Lines, Tables

LEMMA FilledKept ==
    ASSUME ArraysInv, NEW shape \in Num!Shapes, NEW v \in Int, Num!Filled(shape, v)
    PROVE  ArraysInv'
<1> DEFINE size == Num!calcShapeSize(shape)
           block == [k \in 1..size |-> v]
           ref == [ix \in Num!Indexes(shape) |-> v]
<1>1. shape \in Shaped /\ size \in Nat
  BY ShapesShaped, EveryShapeLaid DEF Laid
<1>2. Num!Made(shape, block, ref, {})
  BY DEF Num!Filled
<1>3. \A ix \in Num!Indexes(shape) : Num!Rank(shape, ix) + 1 \in 1..size
  BY <1>1, PlacedAt
<1> HIDE DEF size
<1>4. block \in Seq(Int) /\ Len(block) = size
  BY <1>1
<1>5. \A ix \in Num!Indexes(shape) : block[Num!Rank(shape, ix) + 1] = ref[ix]
  BY <1>3
<1>6. ref \in [Num!Indexes(shape) -> Int]
  OBVIOUS
<1> HIDE DEF block, ref
<1> QED
  BY <1>1, <1>2, <1>4, <1>5, <1>6, MadeKeeps, NoCut DEF size

\* A reshaped array has, at every place of the shared storage, what the old one has.
LEMMA ReshapeKept ==
    ASSUME ArraysInv, NEW a \in Num!Range(arrs), NEW shape \in Num!Shapes, Num!reshape(a, shape)
    PROVE  ArraysInv'
<1> DEFINE I == Num!Indexes(a.shape)
           J == Num!Indexes(shape)
           from(ix) == CHOOSE jx \in I : Num!Rank(a.shape, jx) = Num!Rank(shape, ix)
           ref == [ix \in J |-> a.ref[from(ix)]]
           cut == {ix \in J : from(ix) \in a.cut}
           b == [a EXCEPT !.shape = shape, !.ref = ref, !.cut = cut]
<1>1. /\ a \in Arrays /\ a.shape \in Shaped /\ Holds(a, heap)
  BY ArrayIs
<1>2. shape \in Shaped
  BY ShapesShaped
<1>3. /\ Num!calcShapeSize(shape) = Num!calcShapeSize(a.shape)
      /\ arrs' = Append(arrs, b) /\ heap' = heap
  BY DEF Num!reshape, Num!Reshaped
<1>4. ASSUME NEW ix \in J
      PROVE  from(ix) \in I /\ Num!Rank(a.shape, from(ix)) = Num!Rank(shape, ix)
  <2> DEFINE k == Num!Rank(shape, ix)
             size == Num!calcShapeSize(shape)
  <2>1. k \in Nat /\ k < size /\ size \in Nat
    BY <1>2, PlacedAt
  <2>2. \A r \in 0..(Num!calcShapeSize(a.shape) - 1) : \E jx \in I : Num!Rank(a.shape, jx) = r
    BY <1>1, EveryShapeLaid DEF Laid
  <2>3. Num!calcShapeSize(a.shape) = size
    BY <1>3
  <2> HIDE DEF k, size
  <2>4. k \in 0..(size - 1)
    BY <2>1
  <2>5. \E jx \in I : Num!Rank(a.shape, jx) = k
    BY <2>2, <2>3, <2>4
  <2> HIDE DEF I
  <2>6. \E jx \in I : Num!Rank(a.shape, jx) = Num!Rank(shape, ix)
    BY <2>5 DEF k
  <2> QED
    BY <2>6
<1> HIDE DEF from
<1>5. ref \in [J -> Int] /\ \A ix \in J : ref[ix] = a.ref[from(ix)]
  <2>1. a.ref \in [I -> Int]
    BY <1>1 DEF Holds
  <2> HIDE DEF I, J
  <2> QED
    BY <1>4, <2>1
<1> HIDE DEF ref
<1>6. /\ b \in Arrays /\ b.shape = shape /\ b.data = a.data /\ b.of = a.of
      /\ b.ref = ref /\ b.cut = cut
  <2>1. ref \in Refs
    BY <1>2, <1>5 DEF Refs
  <2>2. cut \in Cuts
    BY <1>2 DEF Cuts
  <2> HIDE DEF J, cut
  <2> QED
    BY <1>1, <1>2, <2>1, <2>2 DEF Arrays
<1>7. \A ix \in J \ cut : from(ix) \in I \ a.cut
  BY <1>4
<1> HIDE DEF b, cut
<1>8. Holds(b, heap)
  <2>1. \A ix \in J \ cut : heap[a.data][Num!Rank(shape, ix) + 1] = ref[ix]
    <3> SUFFICES ASSUME NEW ix \in J \ cut
                 PROVE  heap[a.data][Num!Rank(shape, ix) + 1] = ref[ix]
      OBVIOUS
    <3>1. heap[a.data][Num!Rank(a.shape, from(ix)) + 1] = a.ref[from(ix)]
      BY <1>1, <1>7 DEF Holds
    <3> QED
      BY <1>4, <1>5, <3>1
  <2> QED
    BY <1>1, <1>3, <1>5, <1>6, <2>1 DEF Holds
<1>9. \E j \in 1..Len(arrs) : b.of = arrs[j].of /\ b.data = arrs[j].data
  BY <1>6 DEF ArraysInv, Num!Range
<1>10. heap' \in Seq(Seq(Int))
  BY <1>3 DEF ArraysInv
<1> HIDE DEF Arrays, Holds
<1> QED
  BY <1>3, <1>6, <1>8, <1>9, <1>10, OneMore

\* A clone has those elements whole that end within the bytes copied.
LEMMA CopiedIs ==
    ASSUME ObjectsAssumption, NEW v \in Int, NEW b \in Int
    PROVE  /\ Num!Copied(v, b) \in Int
           /\ b >= DTypeSize => Num!Copied(v, b) = v
<1>1. Num!Power = Stream!Power
  BY DEF Num!Power, Stream!Power
<1>2. DTypeSize \in Nat \ {0} /\ ByteBits \in Nat
  BY DEF ObjectsAssumption
<1>3. b > 0 => v % Num!Power[ByteBits * b] \in Int
  <2>1. b > 0 => ByteBits * b \in Nat
    BY <1>2
  <2>2. b > 0 => Num!Power[ByteBits * b] \in Nat \ {0}
    <3> DEFINE e == ByteBits * b
    <3>1. b > 0 => e \in Nat
      BY <2>1
    <3> HIDE DEF e
    <3>2. b > 0 => Num!Power[e] \in Nat \ {0}
      BY <1>1, <3>1, PowerPositive
    <3> QED
      BY <3>2 DEF e
  <2> QED
    BY <2>2
<1> QED
  BY <1>2, <1>3 DEF Num!Copied

LEMMA CloneKept ==
    ASSUME ObjectsAssumption, ArraysInv, NEW a \in Num!Range(arrs), Num!clone(a)
    PROVE  ArraysInv'
<1> DEFINE n == Num!calcShapeSize(a.shape)
           left(k) == n - (k - 1) * DTypeSize
           val(k) == Num!Copied(heap[a.data][k], left(k))
           block == [k \in 1..n |-> val(k)]
           lost == {ix \in Num!Indexes(a.shape) : (Num!Rank(a.shape, ix) + 1) * DTypeSize > n}
           cut == a.cut \cup lost
<1>1. /\ a \in Arrays /\ a.shape \in Shaped /\ Holds(a, heap)
      /\ \A k \in 1..n : heap[a.data][k] \in Int
  BY ArrayIs
<1>2. Num!Made(a.shape, block, a.ref, cut)
  BY DEF Num!clone
<1>3. n \in Nat \ {0} /\ DTypeSize \in Nat \ {0}
  BY <1>1, EveryShapeLaid DEF Laid, ObjectsAssumption
<1>4. \A ix \in Num!Indexes(a.shape) : /\ Num!Rank(a.shape, ix) \in Nat
                                       /\ Num!Rank(a.shape, ix) + 1 \in 1..n
  BY <1>1, PlacedAt
<1>5. cut \in Cuts
  <2>1. a.cut \in Cuts
    BY <1>1 DEF Arrays
  <2>2. lost \in Cuts
    BY <1>1 DEF Cuts
  <2> HIDE DEF lost
  <2> QED
    BY <2>1, <2>2 DEF Cuts
<1> HIDE DEF n
<1>6. \A k \in 1..n : left(k) \in Int
  BY <1>3
<1>7. /\ \A k \in 1..n : val(k) \in Int
      /\ \A k \in 1..n : left(k) >= DTypeSize => val(k) = heap[a.data][k]
  <2> HIDE DEF left
  <2> QED
    BY <1>1, <1>6, CopiedIs
<1> HIDE DEF val
<1>8. /\ block \in Seq(Int) /\ Len(block) = n
      /\ \A k \in 1..n : block[k] = val(k)
  <2>1. \A k \in 1..n : val(k) \in Int
    BY <1>7
  <2>2. n \in Nat
    BY <1>3
  <2> QED
    BY <2>1, <2>2
<1>9. ASSUME NEW ix \in Num!Indexes(a.shape) \ cut
      PROVE  block[Num!Rank(a.shape, ix) + 1] = a.ref[ix]
  <2> DEFINE k == Num!Rank(a.shape, ix)
  <2>1. k \in Nat /\ k + 1 \in 1..n
    BY <1>4
  <2>2. heap[a.data][k + 1] = a.ref[ix]
    BY <1>1 DEF Holds
  <2>3. ~((k + 1) * DTypeSize > n)
    OBVIOUS
  <2> HIDE DEF k
  <2>4. left(k + 1) >= DTypeSize
    <3> DEFINE d == DTypeSize
               q == k * d
    <3>1. d \in Nat /\ k \in Nat /\ n \in Nat
      BY <1>3, <2>1
    <3> HIDE DEF d
    <3>2. (k + 1) * d = q + d /\ (k + 1) - 1 = k /\ q \in Nat
      BY <3>1
    <3>3. (k + 1) * d <= n
      <4>1. (k + 1) * d \in Nat /\ ~((k + 1) * d > n)
        BY <2>3, <3>1 DEF d
      <4> QED
        BY <3>1, <4>1
    <3>4. left(k + 1) = n - q
      BY <3>2 DEF d
    <3> HIDE DEF q, left
    <3>5. n - q >= d
      BY <3>1, <3>2, <3>3
    <3> QED
      BY <3>4, <3>5 DEF d
  <2> HIDE DEF block, left
  <2>5. block[k + 1] = heap[a.data][k + 1]
    BY <1>7, <1>8, <2>1, <2>4
  <2> QED
    BY <2>2, <2>5 DEF k
<1>10. a.ref \in [Num!Indexes(a.shape) -> Int]
  BY <1>1 DEF Holds
<1> HIDE DEF block, cut
<1> QED
  BY <1>1, <1>2, <1>5, <1>8, <1>9, <1>10, MadeKeeps DEF n

LEMMA MapKept ==
    ASSUME ArraysInv, NEW a \in Num!Range(arrs), NEW b \in Num!Range(arrs),
           NEW op \in {"+", "-", "*", "min", "max"}, Num!binaryMap(op, a, b)
    PROVE  ArraysInv'
<1> DEFINE n == Num!calcShapeSize(a.shape)
           block == [k \in 1..n |-> Num!Apply(op, heap[a.data][k], heap[b.data][k])]
           ref == [ix \in Num!Indexes(a.shape) |-> Num!Apply(op, a.ref[ix], b.ref[ix])]
<1>1. /\ a.shape \in Shaped /\ Holds(a, heap)
      /\ \A k \in 1..n : heap[a.data][k] \in Int
  BY ArrayIs
<1>2. a.shape = b.shape /\ Num!Made(a.shape, block, ref, a.cut \cup b.cut)
  BY DEF Num!binaryMap
<1>3. Holds(b, heap) /\ \A k \in 1..n : heap[b.data][k] \in Int
  BY <1>2, ArrayIs
<1>4. n \in Nat \ {0}
  BY <1>1, EveryShapeLaid DEF Laid
<1>5. \A ix \in Num!Indexes(a.shape) : /\ Num!Rank(a.shape, ix) \in Nat
                                       /\ Num!Rank(a.shape, ix) + 1 \in 1..n
  BY <1>1, PlacedAt
<1> HIDE DEF n
<1>6. \A k \in 1..n : Num!Apply(op, heap[a.data][k], heap[b.data][k]) \in Int
  BY <1>1, <1>3, ApplyIs
<1>7. block \in Seq(Int) /\ Len(block) = n
  BY <1>4, <1>6
<1>8. ref \in [Num!Indexes(a.shape) -> Int]
  <2> SUFFICES ASSUME NEW ix \in Num!Indexes(a.shape)
               PROVE  Num!Apply(op, a.ref[ix], b.ref[ix]) \in Int
    OBVIOUS
  <2>1. a.ref[ix] \in Int /\ b.ref[ix] \in Int
    BY <1>1, <1>2, <1>3 DEF Holds
  <2> QED
    BY <2>1, ApplyIs
<1>9. ASSUME NEW ix \in Num!Indexes(a.shape) \ (a.cut \cup b.cut)
      PROVE  block[Num!Rank(a.shape, ix) + 1] = ref[ix]
  <2>1. heap[a.data][Num!Rank(a.shape, ix) + 1] = a.ref[ix]
    BY <1>1 DEF Holds
  <2>2. heap[b.data][Num!Rank(a.shape, ix) + 1] = b.ref[ix]
    BY <1>2, <1>3 DEF Holds
  <2> QED
    BY <1>5, <2>1, <2>2
<1>10. a.cut \cup b.cut \in Cuts
  <2>1. a.cut \in Cuts /\ b.cut \in Cuts
    BY ArrayIs DEF Arrays
  <2> QED
    BY <2>1 DEF Cuts
<1> HIDE DEF block, ref
<1> QED
  BY <1>1, <1>2, <1>7, <1>8, <1>9, <1>10, MadeKeeps DEF n

\* A stored value is seen by every array over the storage, at the same place.
LEMMA StoreKept ==
    ASSUME ArraysInv, NEW a \in Num!Range(arrs), NEW ix \in Num!Indexes(a.shape), NEW v \in Int,
           Num!Store(a, ix, v)
    PROVE  ArraysInv'
<1> DEFINE r == Num!Rank(a.shape, ix)
           n == Num!calcShapeSize(a.shape)
           same(b) == {jx \in Num!Indexes(b.shape) : b.of = a.of /\ Num!Rank(b.shape, jx) = r}
           after(k) == [jx \in DOMAIN arrs[k].ref |->
                          IF jx \in same(arrs[k]) THEN v ELSE arrs[k].ref[jx]]
           next(k) == [arrs[k] EXCEPT !.ref = after(k), !.cut = @ \ same(arrs[k])]
<1>1. a.shape \in Shaped /\ Holds(a, heap) /\ heap[a.data] \in Seq(Int)
  BY ArrayIs
<1>2. /\ heap \in Seq(Seq(Int)) /\ arrs \in Seq(Arrays)
      /\ \A k \in 1..Len(arrs) : Holds(arrs[k], heap)
      /\ Alike(arrs)
  BY DEF ArraysInv
<1>p. PICK p \in 1..Len(arrs) : a = arrs[p]
  BY DEF Num!Range
<1>3. r \in Nat /\ r + 1 \in 1..n /\ n \in Nat /\ Num!flattenIndex(a.shape, ix) = r
  BY <1>1, PlacedAt
<1>4. heap' = [heap EXCEPT ![a.data][r + 1] = v]
  BY <1>3 DEF Num!Store
<1>5. arrs' = [k \in DOMAIN arrs |-> next(k)]
  BY DEF Num!Store
<1> HIDE DEF r, n, same, after, next
<1>6. a.data \in 1..Len(heap) /\ Len(heap[a.data]) = n
  BY <1>1 DEF Holds, n
<1>7. /\ heap' \in Seq(Seq(Int)) /\ Len(heap') = Len(heap)
      /\ \A d \in 1..Len(heap) : /\ Len(heap'[d]) = Len(heap[d])
                                 /\ d # a.data => heap'[d] = heap[d]
      /\ heap'[a.data][r + 1] = v
      /\ \A k \in 1..n : k # r + 1 => heap'[a.data][k] = heap[a.data][k]
  <2> DEFINE s == [heap[a.data] EXCEPT ![r + 1] = v]
  <2>1. s \in Seq(Int) /\ Len(s) = Len(heap[a.data])
    BY <1>1, <1>3, <1>6
  <2>2. s[r + 1] = v /\ \A k \in 1..n : k # r + 1 => s[k] = heap[a.data][k]
    BY <1>1, <1>3, <1>6
  <2>3. heap' = [heap EXCEPT ![a.data] = s]
    BY <1>4
  <2> HIDE DEF s
  <2>4. /\ heap' \in Seq(Seq(Int)) /\ Len(heap') = Len(heap) /\ heap'[a.data] = s
        /\ \A d \in 1..Len(heap) : d # a.data => heap'[d] = heap[d]
    BY <1>2, <1>6, <2>1, <2>3
  <2>5. \A d \in 1..Len(heap) : Len(heap'[d]) = Len(heap[d])
    BY <2>1, <2>4
  <2> QED
    BY <2>2, <2>4, <2>5
<1>8. ASSUME NEW k \in 1..Len(arrs)
      PROVE  /\ next(k) \in Arrays /\ Holds(next(k), heap')
             /\ next(k).of = arrs[k].of /\ next(k).data = arrs[k].data
  <2> DEFINE c == arrs[k]
             b == next(k)
             J == Num!Indexes(c.shape)
             left == c.cut \ same(c)
  <2>1. c \in Arrays /\ Holds(c, heap) /\ c.shape \in Shaped
    <3>1. c \in Arrays /\ Holds(c, heap)
      <4> HIDE DEF Arrays
      <4> QED
        BY <1>2
    <3> QED
      BY <3>1 DEF Arrays
  <2>2. /\ c.ref \in [J -> Int] /\ c.data \in 1..Len(heap)
        /\ Len(heap[c.data]) = Num!calcShapeSize(c.shape)
        /\ \A jx \in J \ c.cut : heap[c.data][Num!Rank(c.shape, jx) + 1] = c.ref[jx]
    BY <2>1 DEF Holds
  <2>3. \A jx \in J : jx \in same(c) <=> c.data = a.data /\ Num!Rank(c.shape, jx) = r
    <3>1. c.of = a.of <=> c.data = a.data
      BY <1>2, <1>p DEF Alike
    <3> QED
      BY <3>1 DEF same
  <2>4. /\ after(k) \in [J -> Int]
        /\ \A jx \in J : after(k)[jx] = IF jx \in same(c) THEN v ELSE c.ref[jx]
    <3>1. after(k) = [jx \in J |-> IF jx \in same(c) THEN v ELSE c.ref[jx]]
      BY <2>2 DEF after
    <3> HIDE DEF J
    <3> QED
      BY <2>2, <3>1
  <2>5. after(k) \in Refs
    BY <2>1, <2>4 DEF Refs
  <2>6. left \in Cuts
    <3>1. c.cut \in Cuts
      BY <2>1 DEF Arrays
    <3> QED
      BY <3>1 DEF Cuts
  <2> HIDE DEF J, left
  <2>7. /\ b \in Arrays /\ b.shape = c.shape /\ b.data = c.data /\ b.of = c.of
        /\ b.ref = after(k) /\ b.cut = left
    <3>1. b = [c EXCEPT !.ref = after(k), !.cut = left]
      BY DEF next, left
    <3> HIDE DEF b, c
    <3> QED
      BY <2>1, <2>5, <2>6, <3>1 DEF Arrays
  <2>8. \A jx \in J : /\ Num!Rank(c.shape, jx) \in Nat
                      /\ Num!Rank(c.shape, jx) + 1 \in 1..Num!calcShapeSize(c.shape)
    BY <2>1, PlacedAt DEF J
  <2>9. ASSUME NEW jx \in J \ left
        PROVE  heap'[c.data][Num!Rank(c.shape, jx) + 1] = after(k)[jx]
    <3>1. CASE jx \in same(c)
      BY <1>7, <2>3, <2>4, <3>1
    <3>2. CASE jx \notin same(c)
      <4> DEFINE q == Num!Rank(c.shape, jx)
      <4>1. q \in Nat /\ q + 1 \in 1..Len(heap[c.data])
        BY <2>2, <2>8
      <4>2. c.data # a.data \/ q # r
        BY <2>3, <3>2
      <4>3. jx \in J \ c.cut
        BY <3>2 DEF left
      <4>4. after(k)[jx] = c.ref[jx] /\ heap[c.data][q + 1] = c.ref[jx]
        BY <2>2, <2>4, <3>2, <4>3
      <4> HIDE DEF q, c
      <4>5. CASE c.data # a.data
        <5>1. heap'[c.data] = heap[c.data]
          BY <1>7, <2>2, <4>5
        <5> QED
          BY <4>4, <5>1 DEF q
      <4>6. CASE c.data = a.data /\ q # r
        <5>1. q + 1 \in 1..n /\ q + 1 # r + 1
          BY <1>3, <1>6, <4>1, <4>6
        <5>2. heap'[a.data][q + 1] = heap[a.data][q + 1]
          BY <1>7, <5>1
        <5>3. heap'[c.data][q + 1] = after(k)[jx]
          BY <4>4, <4>6, <5>2
        <5> QED
          BY <5>3 DEF q
      <4> QED
        BY <4>2, <4>5, <4>6
    <3> QED
      BY <3>1, <3>2
  <2> HIDE DEF b, c
  <2>10. Holds(b, heap')
    <3>1. b.data \in 1..Len(heap') /\ Len(heap'[b.data]) = Num!calcShapeSize(b.shape)
      BY <1>7, <2>2, <2>7
    <3>2. b.ref \in [Num!Indexes(b.shape) -> Int]
      BY <2>4, <2>7 DEF J
    <3>3. \A jx \in Num!Indexes(b.shape) \ b.cut :
            heap'[b.data][Num!Rank(b.shape, jx) + 1] = b.ref[jx]
      BY <2>7, <2>9 DEF J
    <3> QED
      BY <3>1, <3>2, <3>3 DEF Holds
  <2> QED
    BY <2>7, <2>10 DEF b, c
<1>9. DOMAIN arrs = 1..Len(arrs) /\ Len(arrs) \in Nat
  BY <1>2
<1>10. arrs' = [k \in 1..Len(arrs) |-> next(k)]
  BY <1>5, <1>9
<1> HIDE DEF Arrays, Holds
<1>11. /\ arrs' \in Seq(Arrays) /\ Len(arrs') = Len(arrs)
       /\ \A k \in 1..Len(arrs) : arrs'[k] = next(k)
  BY <1>8, <1>9, <1>10
<1>12. Alike(arrs')
  <2> DEFINE t == arrs'
  <2>1. Len(t) = Len(arrs) /\ \A k \in 1..Len(t) : t[k].of = arrs[k].of /\ t[k].data = arrs[k].data
    BY <1>8, <1>11
  <2> HIDE DEF t
  <2> QED
    BY <1>2, <2>1 DEF Alike, t
<1> QED
  BY <1>7, <1>8, <1>11, <1>12 DEF ArraysInv

\* The reductions.  A sum is a sum, however it is written.
LEMMA SumsAgree ==
    ASSUME NEW seq \in Seq(Int)
    PROVE  Reduced("+", 0, seq)
             = Num!FoldSeq(LAMBDA x, y : x + y, 0, seq)
<1> DEFINE D == 1..Len(seq)
           a == Reduced("+", 0, seq)
           b == Num!FoldSeq(LAMBDA x, y : x + y, 0, seq)
<1>f. PICK f : ReducesBy(f, "+", 0, seq)
  <2>1. "+" \in {"+", "min", "max"} /\ 0 \in Int
    OBVIOUS
  <2> QED
    BY <2>1, ReduceIs
<1>1. /\ a = f[D] /\ f[{}] = 0
      /\ \A s \in SUBSET D : f[s] \in Int
      /\ \A s \in SUBSET D : s # {} => f[s] = Num!Apply("+", seq[Out(s)], f[s \ {Out(s)}])
  BY <1>f DEF ReducesBy
<1>2. PICK g : /\ b = g[D] /\ g[{}] = 0
               /\ \A s \in SUBSET D : g[s] \in Int
               /\ \A s \in SUBSET D : s # {} => g[s] = seq[Out(s)] + g[s \ {Out(s)}]
  BY SumIs
<1>3. Len(seq) \in Nat /\ \A k \in D : seq[k] \in Int
  OBVIOUS
<1> HIDE DEF a, b
<1> DEFINE P == {s \in SUBSET D : f[s] = g[s]}
<1>4. {} \in P
  BY <1>1, <1>2
<1>5. ASSUME NEW s \in SUBSET D, s # {}, s \ {Out(s)} \in P PROVE s \in P
  <2>1. Out(s) \in D
    BY <1>5 DEF Out
  <2>2. seq[Out(s)] \in Int /\ f[s \ {Out(s)}] \in Int /\ f[s \ {Out(s)}] = g[s \ {Out(s)}]
    BY <1>1, <1>3, <1>5, <2>1
  <2>3. Num!Apply("+", seq[Out(s)], f[s \ {Out(s)}]) = seq[Out(s)] + f[s \ {Out(s)}]
    BY <2>2, AppliedIs
  <2> QED
    BY <1>1, <1>2, <1>5, <2>2, <2>3
<1>6. SUBSET D \subseteq P
  <2> HIDE DEF P
  <2> QED
    BY <1>3, <1>4, <1>5, PlacesUpTo
<1>7. D \in P
  BY <1>6
<1>8. a = b
  BY <1>1, <1>2, <1>7
<1> QED
  BY <1>8 DEF a, b

\* The least of an array: no element is less, and it is one of them.
LEMMA MinIs ==
    ASSUME NEW seq \in Seq(Int), seq # <<>>
    PROVE  LET least == Reduced("min", seq[1], seq)
           IN  /\ least \in Int
               /\ \A k \in 1..Len(seq) : least <= seq[k]
               /\ \E k \in 1..Len(seq) : least = seq[k]
<1> DEFINE D == 1..Len(seq)
           least == Reduced("min", seq[1], seq)
<1>1. Len(seq) \in Nat /\ 1 \in D /\ \A k \in D : seq[k] \in Int
  OBVIOUS
<1>2. seq[1] \in Int
  BY <1>1
<1>f. PICK f : ReducesBy(f, "min", seq[1], seq)
  <2>1. "min" \in {"+", "min", "max"} /\ seq[1] \in Int
    BY <1>2
  <2> QED
    BY <2>1, ReduceIs
<1>3. /\ least = f[D] /\ f[{}] = seq[1]
      /\ \A s \in SUBSET D : f[s] \in Int
      /\ \A s \in SUBSET D : s # {} => f[s] = Num!Apply("min", seq[Out(s)], f[s \ {Out(s)}])
  BY <1>f DEF ReducesBy
<1> HIDE DEF least
<1> DEFINE P == {s \in SUBSET D : (\A k \in s : f[s] <= seq[k]) /\ (\E k \in D : f[s] = seq[k])}
<1>4. {} \in P
  BY <1>1, <1>3
<1>5. ASSUME NEW s \in SUBSET D, s # {}, s \ {Out(s)} \in P PROVE s \in P
  <2> DEFINE r == s \ {Out(s)}
             x == seq[Out(s)]
  <2>1. Out(s) \in D
    BY <1>5 DEF Out
  <2>2. x \in Int /\ f[r] \in Int /\ f[s] \in Int
    BY <1>1, <1>3, <2>1
  <2>3. f[s] = IF x < f[r] THEN x ELSE f[r]
    <3>1. f[s] = Num!Apply("min", x, f[r])
      BY <1>3, <1>5
    <3> QED
      BY <2>2, <3>1, AppliedIs
  <2>4. \A k \in s : k = Out(s) \/ k \in r
    OBVIOUS
  <2>5. (\A k \in r : f[r] <= seq[k]) /\ (\E k \in D : f[r] = seq[k])
    BY <1>5
  <2> HIDE DEF r
  <2>6. \A k \in s : f[s] <= seq[k]
    <3> SUFFICES ASSUME NEW k \in s PROVE f[s] <= seq[k]
      OBVIOUS
    <3>1. k \in D /\ seq[k] \in Int
      BY <1>1
    <3>2. seq[k] = x \/ f[r] <= seq[k]
      BY <2>4, <2>5
    <3> HIDE DEF x
    <3> QED
      BY <2>2, <2>3, <3>1, <3>2
  <2>7. \E k \in D : f[s] = seq[k]
    BY <2>1, <2>3, <2>5
  <2> QED
    BY <2>6, <2>7
<1>6. SUBSET D \subseteq P
  <2> HIDE DEF P
  <2> QED
    BY <1>1, <1>4, <1>5, PlacesUpTo
<1>7. D \in P
  BY <1>6
<1>8. least \in Int /\ (\A k \in D : least <= seq[k]) /\ \E k \in D : least = seq[k]
  BY <1>3, <1>7
<1> QED
  BY <1>8 DEF least

LEMMA MaxIs ==
    ASSUME NEW seq \in Seq(Int), seq # <<>>
    PROVE  LET greatest == Reduced("max", seq[1], seq)
           IN  /\ greatest \in Int
               /\ \A k \in 1..Len(seq) : seq[k] <= greatest
               /\ \E k \in 1..Len(seq) : greatest = seq[k]
<1> DEFINE D == 1..Len(seq)
           greatest == Reduced("max", seq[1], seq)
<1>1. Len(seq) \in Nat /\ 1 \in D /\ \A k \in D : seq[k] \in Int
  OBVIOUS
<1>2. seq[1] \in Int
  BY <1>1
<1>f. PICK f : ReducesBy(f, "max", seq[1], seq)
  <2>1. "max" \in {"+", "min", "max"} /\ seq[1] \in Int
    BY <1>2
  <2> QED
    BY <2>1, ReduceIs
<1>3. /\ greatest = f[D] /\ f[{}] = seq[1]
      /\ \A s \in SUBSET D : f[s] \in Int
      /\ \A s \in SUBSET D : s # {} => f[s] = Num!Apply("max", seq[Out(s)], f[s \ {Out(s)}])
  BY <1>f DEF ReducesBy
<1> HIDE DEF greatest
<1> DEFINE P == {s \in SUBSET D : (\A k \in s : seq[k] <= f[s]) /\ (\E k \in D : f[s] = seq[k])}
<1>4. {} \in P
  BY <1>1, <1>3
<1>5. ASSUME NEW s \in SUBSET D, s # {}, s \ {Out(s)} \in P PROVE s \in P
  <2> DEFINE r == s \ {Out(s)}
             x == seq[Out(s)]
  <2>1. Out(s) \in D
    BY <1>5 DEF Out
  <2>2. x \in Int /\ f[r] \in Int /\ f[s] \in Int
    BY <1>1, <1>3, <2>1
  <2>3. f[s] = IF x > f[r] THEN x ELSE f[r]
    <3>1. f[s] = Num!Apply("max", x, f[r])
      BY <1>3, <1>5
    <3> QED
      BY <2>2, <3>1, AppliedIs
  <2>4. \A k \in s : k = Out(s) \/ k \in r
    OBVIOUS
  <2>5. (\A k \in r : seq[k] <= f[r]) /\ (\E k \in D : f[r] = seq[k])
    BY <1>5
  <2> HIDE DEF r
  <2>6. \A k \in s : seq[k] <= f[s]
    <3> SUFFICES ASSUME NEW k \in s PROVE seq[k] <= f[s]
      OBVIOUS
    <3>1. k \in D /\ seq[k] \in Int
      BY <1>1
    <3>2. seq[k] = x \/ seq[k] <= f[r]
      BY <2>4, <2>5
    <3> HIDE DEF x
    <3> QED
      BY <2>2, <2>3, <3>1, <3>2
  <2>7. \E k \in D : f[s] = seq[k]
    BY <2>1, <2>3, <2>5
  <2> QED
    BY <2>6, <2>7
<1>6. SUBSET D \subseteq P
  <2> HIDE DEF P
  <2> QED
    BY <1>1, <1>4, <1>5, PlacesUpTo
<1>7. D \in P
  BY <1>6
<1>8. greatest \in Int /\ (\A k \in D : seq[k] <= greatest) /\ \E k \in D : greatest = seq[k]
  BY <1>3, <1>7
<1> QED
  BY <1>8 DEF greatest

LEMMA ArrayRight ==
    ASSUME ArraysInv, NEW a \in Num!Range(arrs)
    PROVE  /\ \A ix \in Num!Indexes(a.shape) \ a.cut : Num!Element(a, ix) = a.ref[ix]
           /\ Num!sum(a) = Num!SumOf(a)
           /\ \A ix \in Num!Indexes(a.shape) :
                Num!min(a) <= Num!Element(a, ix) /\ Num!Element(a, ix) <= Num!max(a)
           /\ \E ix, jx \in Num!Indexes(a.shape) :
                Num!min(a) = Num!Element(a, ix) /\ Num!max(a) = Num!Element(a, jx)
<1> DEFINE I == Num!Indexes(a.shape)
           size == Num!calcShapeSize(a.shape)
           seq == heap[a.data]
           place(ix) == Num!Rank(a.shape, ix) + 1
<1>1. a.shape \in Shaped /\ Holds(a, heap) /\ seq \in Seq(Int)
  BY ArrayIs
<1>2. Len(seq) = size /\ \A ix \in I \ a.cut : seq[place(ix)] = a.ref[ix]
  BY <1>1 DEF Holds
<1>3. size \in Nat \ {0} /\ \A ix \in I : place(ix) \in 1..size
  <2>1. size \in Nat \ {0}
    BY <1>1, EveryShapeLaid DEF Laid
  <2> QED
    BY <1>1, <2>1, PlacedAt
<1>4. \A k \in 1..size : \E ix \in I : Num!Rank(a.shape, ix) = k - 1
  <2>1. \A k \in 0..(size - 1) : \E ix \in I : Num!Rank(a.shape, ix) = k
    BY <1>1, EveryShapeLaid DEF Laid
  <2>2. \A k \in 1..size : k - 1 \in 0..(size - 1)
    BY <1>3
  <2> HIDE DEF I, size
  <2> QED
    BY <2>1, <2>2
<1>5. \A ix \in I : Num!Element(a, ix) = seq[place(ix)]
  <2> SUFFICES ASSUME NEW ix \in I PROVE Num!Element(a, ix) = seq[place(ix)]
    OBVIOUS
  <2>1. Num!flattenIndex(a.shape, ix) = Num!Rank(a.shape, ix)
    BY <1>1, PlacedAt
  <2> QED
    BY <2>1 DEF Num!Element
<1>6. Num!sum(a) = Num!SumOf(a)
  <2> DEFINE at(k) == CHOOSE ix \in I : Num!Rank(a.shape, ix) = k - 1
             s == [k \in 1..size |-> Num!Element(a, at(k))]
  <2>1. Num!SumOf(a) = Num!FoldSeq(LAMBDA x, y : x + y, 0, s)
    BY DEF Num!SumOf
  <2>2. ASSUME NEW k \in 1..size PROVE Num!Element(a, at(k)) = seq[k]
    <3>1. at(k) \in I /\ Num!Rank(a.shape, at(k)) = k - 1
      <4>1. \E ix \in I : Num!Rank(a.shape, ix) = k - 1
        BY <1>4
      <4> HIDE DEF I
      <4> QED
        BY <4>1
    <3> HIDE DEF at
    <3>2. place(at(k)) = k
      <4>1. k \in Int
        OBVIOUS
      <4> QED
        BY <3>1, <4>1
    <3> QED
      BY <1>5, <3>1, <3>2
  <2> HIDE DEF at, size
  <2>3. s = seq
    <3>1. seq = [k \in 1..size |-> seq[k]]
      BY <1>1, <1>2
    <3> QED
      BY <2>2, <3>1
  <2>4. Num!sum(a) = Reduced("+", 0, seq)
    BY DEF Num!sum, Num!reduce, Reduced
  <2> HIDE DEF s, seq
  <2>5. Reduced("+", 0, seq)
          = Num!FoldSeq(LAMBDA x, y : x + y, 0, seq)
    BY <1>1, SumsAgree
  <2> QED
    BY <2>1, <2>3, <2>4, <2>5
<1>7. seq # <<>>
  BY <1>2, <1>3
<1>8. Num!min(a) = Reduced("min", seq[1], seq)
  BY DEF Num!min, Num!reduce, Reduced
<1>9. Num!max(a) = Reduced("max", seq[1], seq)
  BY DEF Num!max, Num!reduce, Reduced
<1> HIDE DEF seq
<1>10. /\ \A k \in 1..Len(seq) : Num!min(a) <= seq[k]
       /\ \E k \in 1..Len(seq) : Num!min(a) = seq[k]
  BY <1>1, <1>7, <1>8, MinIs
<1>11. /\ \A k \in 1..Len(seq) : seq[k] <= Num!max(a)
       /\ \E k \in 1..Len(seq) : Num!max(a) = seq[k]
  BY <1>1, <1>7, <1>9, MaxIs
<1>12. \A k \in 1..size : \E ix \in I : seq[k] = Num!Element(a, ix)
  <2> SUFFICES ASSUME NEW k \in 1..size PROVE \E ix \in I : seq[k] = Num!Element(a, ix)
    OBVIOUS
  <2>1. PICK ix \in I : Num!Rank(a.shape, ix) = k - 1
    BY <1>4
  <2>2. place(ix) = k
    BY <1>3, <2>1
  <2> HIDE DEF I
  <2> QED
    BY <1>5, <2>2
<1> HIDE DEF I, size, place
<1>13. \A ix \in I : Num!min(a) <= Num!Element(a, ix) /\ Num!Element(a, ix) <= Num!max(a)
  BY <1>2, <1>3, <1>5, <1>10, <1>11
<1>14. \E ix, jx \in I : Num!min(a) = Num!Element(a, ix) /\ Num!max(a) = Num!Element(a, jx)
  BY <1>2, <1>10, <1>11, <1>12
<1>15. \A ix \in I \ a.cut : Num!Element(a, ix) = a.ref[ix]
  BY <1>2, <1>5
<1> QED
  BY <1>6, <1>13, <1>14, <1>15 DEF I

LEMMA ViewsRight == ASSUME ArraysInv PROVE Num!ViewInside
<1>1. Num!SliceItems \subseteq Ends
  <2> SUFFICES ASSUME NEW x \in Num!SliceItems PROVE x \in Ends
    OBVIOUS
  <2>1. CASE x = Num!SliceItem(TRUE, 0)
    BY <2>1 DEF Num!SliceItem, Ends
  <2>2. CASE \E v \in -4..4 : x = Num!SliceItem(FALSE, v)
    <3>1. PICK v \in -4..4 : x = Num!SliceItem(FALSE, v)
      BY <2>2
    <3>2. v \in Int
      BY <3>1
    <3> QED
      BY <3>1, <3>2 DEF Num!SliceItem, Ends
  <2> QED
    BY <2>1, <2>2 DEF Num!SliceItems
<1>2. ASSUME NEW a \in Num!Range(arrs), NEW dim \in Num!Range(a.shape) PROVE dim \in Nat
  <2>1. a.shape \in Shaped
    BY ArrayIs
  <2>2. PICK k \in DOMAIN a.shape : dim = a.shape[k]
    BY DEF Num!Range
  <2>3. CASE a.shape \in Lines
    BY <2>2, <2>3 DEF Lines
  <2>4. CASE a.shape \in Tables
    BY <2>2, <2>4 DEF Tables
  <2> QED
    BY <2>1, <2>3, <2>4 DEF Shaped
<1>3. ASSUME NEW dim \in Nat, NEW start \in Ends, NEW end \in Ends,
             Num!viewDim(dim, start, end).valid
      PROVE  LET v == Num!viewDim(dim, start, end)
             IN  v.start >= 0 /\ v.size >= 0 /\ v.start + v.size <= dim
  <2> DEFINE v == Num!viewDim(dim, start, end)
  <2>1. v = Num!viewDim(dim, start, end) /\ v.valid
    BY <1>3
  <2> HIDE DEF v
  <2>2. v.start >= 0 /\ v.size >= 0 /\ v.start + v.size <= dim
    BY <2>1, ViewsInside
  <2> QED
    BY <2>2 DEF v
<1> QED
  BY <1>1, <1>2, <1>3 DEF Num!ViewInside

\* For every number of arrays and every size of an element: each array holds at every
\* index what was put there, by its container, the array it is a copy of, through an
\* array that shares its storage or by an operation on its operands, but where a
\* clone is cut off because clone() counts bytes as elements; its sum, least and
\* greatest element are those of the indexed elements, and a valid view lies inside
\* it (ArraysCorrect).
THEOREM ArraysHold == Spec => []ArraysCorrect
<1>1. Init => ArraysInv
  BY DEF Init, Num!Init, ArraysInv, Alike
<1>2. ObjectsAssumption /\ ArraysInv /\ [Next]_vars => ArraysInv'
  <2> SUFFICES ASSUME ObjectsAssumption, ArraysInv, [Next]_vars PROVE ArraysInv'
    OBVIOUS
  <2>1. CASE UNCHANGED numVars
    BY <2>1 DEF numVars, ArraysInv, Holds, Alike
  <2>2. CASE Num!Next
    <3>1. CASE \E c \in Num!Containers : Num!array(c)
      BY <3>1, ContainerKept
    <3>2. CASE \E c \in Num!Lists : Num!array_of_numbers(c)
      BY <3>2, ListKept
    <3>3. CASE \E shape \in Num!Shapes : Num!Filled(shape, 1)
      <4>1. 1 \in Int
        OBVIOUS
      <4> QED
        BY <3>3, <4>1, FilledKept
    <3>4. ASSUME NEW a \in Num!Range(arrs), NEW shape \in Num!Shapes, Num!reshape(a, shape)
          PROVE  ArraysInv'
      BY <3>4, ReshapeKept
    <3>5. ASSUME NEW a \in Num!Range(arrs), Num!clone(a) PROVE ArraysInv'
      BY <3>5, CloneKept
    <3>6. ASSUME NEW a \in Num!Range(arrs), NEW ix \in Num!Indexes(a.shape), Num!Store(a, ix, 9)
          PROVE  ArraysInv'
      <4>1. 9 \in Int
        OBVIOUS
      <4> QED
        BY <3>6, <4>1, StoreKept
    <3>7. ASSUME NEW a \in Num!Range(arrs), NEW b \in Num!Range(arrs),
                 Num!Plus(a, b) \/ Num!Minus(a, b) \/ Num!dot(a, b)
          PROVE  ArraysInv'
      <4>1. \E op \in {"+", "-", "*", "min", "max"} : Num!binaryMap(op, a, b)
        BY <3>7 DEF Num!Plus, Num!Minus, Num!dot
      <4> QED
        BY <4>1, MapKept
    <3> QED
      BY <2>2, <3>1, <3>2, <3>3, <3>4, <3>5, <3>6, <3>7 DEF Num!Next
  <2>3. UNCHANGED numVars \/ Num!Next
    BY DEF Next, vars
  <2> QED
    BY <2>1, <2>2, <2>3
<1>3. ArraysInv => ArraysCorrect
  <2> SUFFICES ASSUME ArraysInv PROVE Num!ElementsRight /\ Num!ViewInside
    BY DEF ArraysCorrect, Num!ArraysCorrect
  <2>1. Num!ElementsRight
    BY ArrayRight DEF Num!ElementsRight
  <2> QED
    BY <2>1, ViewsRight
<1> QED
  BY <1>1, <1>2, <1>3, ObjectsAssumption, PTL DEF Spec
==============================================================================
