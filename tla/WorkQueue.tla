------------------------------ MODULE WorkQueue ------------------------------
(***************************************************************************)
(* What every work queue of the repository promises its callers, whatever  *)
(* it is built from (mutex and condition variable, semaphore, one thread   *)
(* or several): items leave the queue in the order in which they entered   *)
(* it, each item is handed to at most one worker and at most once, and at  *)
(* most Width items are being handled at any time.  A blank entry (a null  *)
(* pointer) is taken and ignored.  Items can be dropped only all together. *)
(***************************************************************************)
EXTENDS Naturals, Sequences, FiniteSets

CONSTANTS Items,   \* the work items that can be submitted
          Blank,   \* the null pointer, no item: an entry that carries no work
          Width    \* how many items may be handled at the same time, 1 or more

VARIABLES queue,    \* the entries waiting, oldest first
          active,   \* the items being handled
          done,     \* the items handled to the end
          dropped   \* the items destroyed without having been handled

vars == <<queue, active, done, dropped>>

Elements(s) == {s[i] : i \in 1..Len(s)}

\* An item that has never been submitted.
Fresh(x) == x \notin Elements(queue) \cup active \cup done \cup dropped

Init ==
    /\ queue = <<>>
    /\ active = {}
    /\ done = {}
    /\ dropped = {}

Submit(x) ==
    /\ x = Blank \/ Fresh(x)
    /\ queue' = Append(queue, x)
    /\ UNCHANGED <<active, done, dropped>>

\* The oldest entry is taken; it starts unless it is blank.
Take ==
    /\ queue # <<>>
    /\ queue' = Tail(queue)
    /\ IF Head(queue) = Blank
       THEN UNCHANGED active
       ELSE /\ Cardinality(active) < Width
            /\ active' = active \cup {Head(queue)}
    /\ UNCHANGED <<done, dropped>>

Complete(x) ==
    /\ x \in active
    /\ active' = active \ {x}
    /\ done' = done \cup {x}
    /\ UNCHANGED <<queue, dropped>>

DropAll ==
    /\ queue' = <<>>
    /\ dropped' = dropped \cup (Elements(queue) \ {Blank})
    /\ UNCHANGED <<active, done>>

Next ==
    \/ \E x \in Items \cup {Blank} : Submit(x)
    \/ Take
    \/ \E x \in Items : Complete(x)
    \/ DropAll

Spec == Init /\ [][Next]_vars

-----------------------------------------------------------------------------
\* The entries are items or blanks, and the items handled are finitely many.
TypeOK ==
    /\ queue \in Seq(Items \cup {Blank})
    /\ active \in SUBSET Items
    /\ IsFiniteSet(active)
    /\ done \in SUBSET Items
    /\ dropped \in SUBSET Items

\* An item is in one place only: it waits once, is handled, is finished or was
\* dropped.  No item is handed out twice.
EachItemOnce ==
    /\ \A i, j \in 1..Len(queue) : queue[i] = queue[j] /\ i # j => queue[i] = Blank
    /\ \A x \in Elements(queue) : x \notin active \cup done \cup dropped
    /\ active \cap (done \cup dropped) = {}
    /\ done \cap dropped = {}

\* Never more than Width items are handled at the same time.
WidthRespected == Cardinality(active) <= Width
==============================================================================
