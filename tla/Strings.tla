------------------------------- MODULE Strings -------------------------------
(***************************************************************************)
(* basic/oop/String: a string that owns its characters, with both kinds of *)
(* constructor and assignment.  A new that fails throws std::bad_alloc out *)
(* of the operation; what it leaves behind is the state of the model.  A    *)
(* pointer that is not initialised, or left to a buffer that is gone, is   *)
(* Dangling: whatever uses it is undefined, and the program is not followed *)
(* any further.                                                            *)
(***************************************************************************)
EXTENDS FiniteSets

CONSTANTS Objects,   \* the String variables of a program
          Buffers,   \* addresses operator new returns
          Texts,     \* contents, the empty one among them
          Null       \* the null address

None == "none"
Dangling == "dangling"
Free == "free"
Moved == "moved"

VARIABLES m_data,   \* m_data[s]: the buffer of s; None before and after its life
          chars,    \* chars[b]: the text in buffer b, or Free
          value,    \* value[s]: the text s was given, or Moved
          fault     \* "none", or the undefined thing that has happened

vars == <<m_data, chars, value, fault>>

Init ==
    /\ m_data = [s \in Objects |-> None]
    /\ chars = [b \in Buffers |-> Free]
    /\ value = [s \in Objects |-> Moved]
    /\ fault = "none"

Alive(s) == fault = "none" /\ m_data[s] # None
Unborn(s) == fault = "none" /\ m_data[s] = None

\* delete[]: nothing happens to a null pointer.
Deleted(b) == IF b \in Buffers THEN [chars EXCEPT ![b] = Free] ELSE chars

\* No pointer that may be read or deleted, when c says what the buffers hold.
Wrong(b, c) == b = Dangling \/ (b \in Buffers /\ c[b] = Free)

Undefined(what) == fault' = what /\ UNCHANGED <<m_data, chars, value>>

\* s gets one of the free buffers of c, filled with text x.
Filled(s, x, c) ==
    \E b \in {f \in Buffers : c[f] = Free} :
      /\ m_data' = [m_data EXCEPT ![s] = b]
      /\ chars' = [c EXCEPT ![b] = x]
      /\ value' = [value EXCEPT ![s] = x]
      /\ UNCHANGED fault

-----------------------------------------------------------------------------
\* Without a text the string is empty.
Construct(s, x) == Unborn(s) /\ Filled(s, x, chars)

\* strlen and strcpy of a String that was moved from, or whose pointer is wrong.
SourceBad(q, c) ==
    \/ m_data[q] = Null /\ Undefined("null read")
    \/ Wrong(m_data[q], c) /\ Undefined("wrong pointer")

SourceGood(q, c) == m_data[q] \in Buffers /\ c[m_data[q]] # Free

CopyConstruct(s, q) ==
    /\ Unborn(s) /\ Alive(q)
    /\ \/ SourceBad(q, chars)
       \/ SourceGood(q, chars) /\ Filled(s, chars[m_data[q]], chars)

\* m_data is not initialised when there is nothing to take over.
MoveConstruct(s, q) ==
    /\ Unborn(s) /\ Alive(q)
    /\ \/ /\ m_data[q] # Null
          /\ m_data' = [m_data EXCEPT ![s] = m_data[q], ![q] = Null]
       \/ /\ m_data[q] = Null
          /\ \E b \in {Null, Dangling} : m_data' = [m_data EXCEPT ![s] = b]
    /\ value' = [value EXCEPT ![s] = value[q], ![q] = Moved]
    /\ UNCHANGED <<chars, fault>>

\* The old buffer is deleted before the new one is asked for: when there is none
\* the exception leaves a pointer to what is gone.
Replace(s, q) ==
    LET c == Deleted(m_data[s]) IN
    \/ Wrong(m_data[s], chars) /\ Undefined("wrong pointer")
    \/ ~Wrong(m_data[s], chars) /\ SourceBad(q, c)
    \/ /\ ~Wrong(m_data[s], chars) /\ SourceGood(q, c)
       /\ \/ Filled(s, c[m_data[q]], c)
          \/ /\ chars' = c
             /\ m_data' = [m_data EXCEPT ![s] = IF @ = Null THEN Null ELSE Dangling]
             /\ UNCHANGED <<value, fault>>

\* Mutant: the test for an assignment to itself is left out.
CopyAssignUntested(s, q) == Alive(s) /\ Alive(q) /\ Replace(s, q)
CopyAssign(s, q) == Alive(s) /\ Alive(q) /\ s # q /\ Replace(s, q)

\* Mutant: the source keeps its pointer.
MoveAssignShared(s, q) ==
    /\ Alive(s) /\ Alive(q) /\ s # q /\ ~Wrong(m_data[s], chars)
    /\ chars' = Deleted(m_data[s])
    /\ m_data' = [m_data EXCEPT ![s] = m_data[q]]
    /\ value' = [value EXCEPT ![s] = value[q], ![q] = Moved]
    /\ UNCHANGED fault
MoveAssign(s, q) ==
    /\ Alive(s) /\ Alive(q) /\ s # q
    /\ \/ Wrong(m_data[s], chars) /\ Undefined("wrong pointer")
       \/ /\ ~Wrong(m_data[s], chars)
          /\ chars' = Deleted(m_data[s])
          /\ m_data' = [m_data EXCEPT ![s] = m_data[q], ![q] = Null]
          /\ value' = [value EXCEPT ![s] = value[q], ![q] = Moved]
          /\ UNCHANGED fault

Destroy(s) ==
    /\ Alive(s)
    /\ \/ Wrong(m_data[s], chars) /\ Undefined("wrong pointer")
       \/ /\ ~Wrong(m_data[s], chars)
          /\ chars' = Deleted(m_data[s])
          /\ m_data' = [m_data EXCEPT ![s] = None]
          /\ value' = [value EXCEPT ![s] = Moved]
          /\ UNCHANGED fault

Next ==
    \E s \in Objects :
      \/ \E x \in Texts : Construct(s, x)
      \/ \E q \in Objects :
            CopyConstruct(s, q) \/ MoveConstruct(s, q) \/ CopyAssign(s, q) \/ MoveAssign(s, q)
      \/ Destroy(s)

Spec == Init /\ [][Next]_vars

-----------------------------------------------------------------------------
Owners(b) == {s \in Objects : m_data[s] = b}

\* Each allocated buffer has exactly one owner and holds what that was given, and a
\* String that was moved from owns nothing and may be assigned to and destroyed:
\* in every sequence, whether memory runs out or not, as long as no wrong pointer
\* was used.  A wrong pointer is that of a String whose assignment found no memory
\* (String.cpp:66-68) or which was moved from a String that had been moved from
\* already (50-57), and is passed on by moves only; its own String gets in nobody
\* else's way until it is used.  Else the one undefined thing is to copy a String
\* that was moved from.
OneOwner ==
    /\ fault \in {"none", "null read", "wrong pointer"}
    /\ fault = "wrong pointer" => \E s \in Objects : m_data[s] = Dangling
    /\ \A b \in Buffers : Cardinality(Owners(b)) = IF chars[b] = Free THEN 0 ELSE 1
    /\ \A s \in Objects : m_data[s] \notin {None, Dangling} =>
          value[s] = IF m_data[s] = Null THEN Moved ELSE chars[m_data[s]]
=============================================================================
