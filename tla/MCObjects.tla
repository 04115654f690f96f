------------------------------ MODULE MCObjects ------------------------------
(***************************************************************************)
(* The single-threaded libraries for TLC: timers, counting pointers,       *)
(* strings, packets and arrays.  A behaviour is one of one library, which  *)
(* works while the others stay as they were made.                          *)
(*                                                                         *)
(* Three timers are the least that have a first, a middle and a last in    *)
(* the list; within three seconds each can run, run again and be late      *)
(* (intervals of zero repeat without bound and are left out).  Three       *)
(* pointers over two blocks and null leave one to be assigned while two    *)
(* share; three strings have a buffer each.  A packet of two fields has one*)
(* that is not the first.  Of three arrays one can be made of two that     *)
(* differ.                                                                 *)
(***************************************************************************)
EXTENDS Integers, FiniteSets

CONSTANTS MaxTimers, MaxTime, Repeats, Intervals,
          Pointers, Blocks, Null, Size, Buffers, Texts,
          ByteBits, IntSize, ShortSize, MaxFields,
          MaxArrays, DTypeSize

ASSUME ObjectsAssumption ==
    /\ IsFiniteSet(Pointers) /\ Size \in Nat
    /\ Null \notin Blocks \cup Buffers \cup {"none", "dangling"}
    /\ "none" \notin Blocks \cup Buffers /\ "dangling" \notin Buffers
    /\ {"free", "moved"} \cap Texts = {}
    /\ ByteBits \in 2..8 /\ IntSize \in 1..(ByteBits - 1) /\ ShortSize \in 1..IntSize
    /\ MaxFields \in Nat /\ MaxArrays \in Nat /\ DTypeSize \in Nat \ {0}
    /\ ByteBits * DTypeSize >= 5   \* the numbers of the arrays fit
    /\ MaxTimers \in Nat /\ MaxTime \in Nat
    /\ Repeats \subseteq Nat \cup {-1} /\ Intervals \subseteq Nat \ {0}

MCRepeats == {-1, 0, 1, 2}

VARIABLES which,
          m_listTimers, initialId, repeated, interval, expires, alive, now,
          pc, iter, added, times, runs,
          gclist, addr, live, it, ended,
          data, sent, phase, buf, cur, got, inOrder,
          heap, arrs,
          m_data, chars, value, fault

Timer == INSTANCE Timers
Gc == INSTANCE GCPtr
Stream == INSTANCE ProtocolStream
Num == INSTANCE NumCpp
Str == INSTANCE Strings WITH Objects <- Pointers

timerVars == <<m_listTimers, initialId, repeated, interval, expires, alive, now,
               pc, iter, added, times, runs>>
gcVars == <<gclist, addr, live, it, ended>>
streamVars == <<data, sent, phase, buf, cur, got, inOrder>>
numVars == <<heap, arrs>>
strVars == <<m_data, chars, value, fault>>
vars == <<which, timerVars, gcVars, streamVars, numVars, strVars>>

Init ==
    /\ which \in {"timers", "pointers", "packets", "arrays", "strings"}
    /\ Timer!Init /\ Gc!Init /\ Stream!Init /\ Num!Init /\ Str!Init

Next ==
    /\ UNCHANGED which
    /\ \/ which = "timers" /\ Timer!Next /\ UNCHANGED <<gcVars, streamVars, numVars, strVars>>
       \/ which = "pointers" /\ Gc!Next /\ UNCHANGED <<timerVars, streamVars, numVars, strVars>>
       \/ which = "packets" /\ Stream!Next /\ UNCHANGED <<timerVars, gcVars, numVars, strVars>>
       \/ which = "arrays" /\ Num!Next /\ UNCHANGED <<timerVars, gcVars, streamVars, strVars>>
       \/ which = "strings" /\ Str!Next /\ UNCHANGED <<timerVars, gcVars, streamVars, numVars>>

Spec == Init /\ [][Next]_vars

\* The timer list's iterator never dangles, no callback is early, and each timer
\* runs as often as it was told (checkAndHandleTimers).
TimersCorrect == which = "timers" => Timer!TimersCorrect

\* Counts, list and allocated memory agree with the pointers there are (GCPtr), and
\* a buffer has one owner (String).
MemoryOwned ==
    /\ which = "pointers" => Gc!CountsRight
    /\ which = "strings" => Str!OneOwner

\* A destructor leaves no memory behind that nobody points to (GCPtr::~GCPtr).
GarbageGoes == Gc!GarbageGoes

\* Fields come back as written and no read leaves the packet (ProtocolStream).
StreamCorrect == which = "packets" => Stream!StreamCorrect

\* Elements, reductions and views are those of the shape (NumCpp).
ArraysCorrect == which = "arrays" => Num!ArraysCorrect
==============================================================================
