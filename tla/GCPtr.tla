-------------------------------- MODULE GCPtr --------------------------------
(***************************************************************************)
(* basic/STL/practice/GCPtr.h: pointers that count, in a list shared by all*)
(* pointers of one type, who points to each piece of memory; destructors   *)
(* collect what nobody points to.  The memory holds no GCPtr itself, as in *)
(* MyGC.cpp, and arrays of Size elements stand for the template's size.    *)
(***************************************************************************)
EXTENDS Integers, Sequences, SequencesExt, FiniteSets

CONSTANTS Pointers,   \* the GCPtr variables of a program
          Blocks,     \* addresses operator new returns
          Null,       \* the null address
          Size        \* template argument: 0, or the elements of an array

None == "none"

VARIABLES gclist,   \* entries [memPtr, refcount]
          addr,     \* addr[p]: where p points; None before and after p's life
          live,     \* the memory that is allocated
          it,       \* an Iter: the memory, its place, and its end, as offsets
          ended     \* the program has exited

vars == <<gclist, addr, live, it, ended>>

NoIter == [on |-> Null, ptr |-> 0, end |-> 0]
GCInfo(t) == [memPtr |-> t, refcount |-> 1]

Init ==
    /\ gclist = <<>> /\ addr = [p \in Pointers |-> None] /\ live = {}
    /\ it = NoIter /\ ended = FALSE

-----------------------------------------------------------------------------
(* The list.                                                               *)

findPtrInfo(list, t) == SelectInSeq(list, LAMBDA e : e.memPtr = t)

\* Mutant: the count is raised only when the entry is new.
CountNew(list, t) ==
    IF findPtrInfo(list, t) # 0 THEN list ELSE <<GCInfo(t)>> \o list
\* An entry found is counted, a new one is put in front.
Count(list, t) ==
    LET k == findPtrInfo(list, t)
    IN IF k # 0 THEN [list EXCEPT ![k].refcount = @ + 1] ELSE <<GCInfo(t)>> \o list

Discount(list, t) == [list EXCEPT ![findPtrInfo(list, t)].refcount = @ - 1]

\* Mutant: the search is not begun again.
CollectOne(list) ==
    LET k == SelectInSeq(list, LAMBDA e : e.refcount = 0)
    IN IF k = 0 THEN list ELSE RemoveAt(list, k)
\* A turn takes out the first unused entry; the loop ends when the scan comes to
\* the end of the list, or the entry taken out was the last.
collect(list) ==
    LET turn[n \in 0..Len(list)] ==
          IF n = 0 THEN [list |-> list, atEnd |-> FALSE]
          ELSE LET l == turn[n - 1].list
                   k == SelectInSeq(l, LAMBDA e : e.refcount = 0)
               IN IF turn[n - 1].atEnd \/ k = 0 THEN [list |-> l, atEnd |-> TRUE]
                  ELSE [list |-> RemoveAt(l, k), atEnd |-> k = Len(l)]
    IN turn[Len(list)].list

\* What leaves the list is deleted.
Collected(list) ==
    /\ gclist' = collect(list)
    /\ live' = live \ ({e.memPtr : e \in Range(list)} \ {e.memPtr : e \in Range(collect(list))})

-----------------------------------------------------------------------------
(* The pointers.                                                           *)

Alive(p) == ~ended /\ addr[p] # None

\* Plain pointers a program has: new memory, null, and what it got from GCPtrs.
Plain == {Null} \cup {e.memPtr : e \in Range(gclist)} \cup (Blocks \ live)

Points(p, t, list) ==
    /\ gclist' = list
    /\ addr' = [addr EXCEPT ![p] = t]
    /\ live' = (live \cup {t}) \ {Null}
    /\ UNCHANGED <<it, ended>>

Construct(p, t) == ~ended /\ addr[p] = None /\ t \in Plain /\ Points(p, t, Count(gclist, t))

\* The entry is taken to exist.
ConstructCopy(p, q) ==
    /\ ~ended /\ addr[p] = None /\ Alive(q)
    /\ Points(p, addr[q], Count(gclist, addr[q]))

\* Nothing is collected by an assignment.
AssignPlain(p, t) ==
    /\ Alive(p) /\ t \in Plain
    /\ Points(p, t, Count(Discount(gclist, addr[p]), t))

Assign(p, q) ==
    /\ Alive(p) /\ Alive(q)
    /\ Points(p, addr[q], Count(Discount(gclist, addr[p]), addr[q]))

Destroy(p) ==
    /\ Alive(p)
    /\ Collected(IF gclist[findPtrInfo(gclist, addr[p])].refcount > 0
                 THEN Discount(gclist, addr[p]) ELSE gclist)
    /\ addr' = [addr EXCEPT ![p] = None]
    /\ UNCHANGED <<it, ended>>

Collect == ~ended /\ Collected(gclist) /\ UNCHANGED <<addr, it, ended>>

\* At exit nobody uses the pointers that are left.
Shutdown ==
    /\ ~ended /\ ended' = TRUE
    /\ Collected([k \in DOMAIN gclist |-> [gclist[k] EXCEPT !.refcount = 0]])
    /\ addr' = [p \in Pointers |-> None]
    /\ it' = NoIter

-----------------------------------------------------------------------------
(* The iterator.  begin() takes its end from the template argument, end()  *)
(* from the number of elements, which is 1 when it is no array.            *)

Extent == IF Size > 0 THEN Size ELSE 1

Begin(p) == Alive(p) /\ it' = [on |-> addr[p], ptr |-> 0, end |-> Size]
End(p) == Alive(p) /\ it' = [on |-> addr[p], ptr |-> Extent, end |-> Extent]
Advance(n) ==
    /\ it.on # Null /\ it.ptr + n \in -1..(Extent + 1)
    /\ it' = [it EXCEPT !.ptr = @ + n]
Iterate ==
    /\ ~ended
    /\ (\E p \in Pointers : Begin(p) \/ End(p)) \/ (\E n \in {-1, 1} : Advance(n))
    /\ UNCHANGED <<gclist, addr, live, ended>>

\* Mutant: one past the end is let through.
DerefPastEnd(i) == IF i.ptr > i.end \/ i.ptr < 0 THEN "OutOfRangeExc" ELSE "element"
\* operator* and operator->.
Deref(i) == IF i.ptr >= i.end \/ i.ptr < 0 THEN "OutOfRangeExc" ELSE "element"

\* Mutant: the index behind the last one is let through.
AtPastEnd(i, n) == IF n < 0 \/ n > i.end THEN "OutOfRangeExc" ELSE "element"
\* operator[]: the index is compared with the length of the whole, and counted from
\* the place the iterator stands at.
At(i, n) == IF n < 0 \/ n >= i.end THEN "OutOfRangeExc" ELSE "element"

Next ==
    \/ \E p \in Pointers :
          \/ \E t \in Plain : Construct(p, t) \/ AssignPlain(p, t)
          \/ \E q \in Pointers : ConstructCopy(p, q) \/ Assign(p, q)
          \/ Destroy(p)
    \/ Collect \/ Shutdown \/ Iterate

Spec == Init /\ [][Next]_vars

-----------------------------------------------------------------------------
References(t) == Cardinality({p \in Pointers : addr[p] = t})

\* Each address is listed once and its count is the number of pointers that hold
\* it, self-assignment included; no pointer holds memory that is gone; memory is
\* allocated as long as it is listed, so it is deleted once and, at exit at the
\* latest, all of it is.  An iterator is refused every place outside by * and ->,
\* and by [] as long as it stands at the beginning.  Elsewhere it is not: although
\* GCPtr.h:100-101 does not allow access out of bounds, [] lets an iterator that was
\* moved, or comes from end(), reach what lies behind the end or, after --, before
\* the beginning.
CountsRight ==
    /\ \A j, k \in DOMAIN gclist : gclist[j].memPtr = gclist[k].memPtr => j = k
    /\ \A k \in DOMAIN gclist : gclist[k].refcount = References(gclist[k].memPtr)
    /\ \A p \in Pointers : addr[p] # None =>
          findPtrInfo(gclist, addr[p]) # 0 /\ addr[p] \in live \cup {Null}
    /\ live = {gclist[k].memPtr : k \in DOMAIN gclist} \ {Null}
    /\ ended => live = {}
    /\ it.on # Null /\ Deref(it) = "element" => it.ptr \in 0..(Extent - 1)
    /\ it.on # Null => \A n \in -1..Extent :
          At(it, n) = "element" => it.ptr # 0 \/ it.ptr + n \in 0..(Extent - 1)

\* When a pointer goes, nothing without a pointer stays behind.
GarbageGoes ==
    [][\A p \in Pointers : addr[p] # None /\ addr'[p] = None =>
          \A t \in live' : \E q \in Pointers : addr'[q] = t]_vars
=============================================================================
