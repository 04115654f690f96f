----------------------------- MODULE AwaitedCalls -----------------------------
(***************************************************************************)
(* What co_await promises the author of a coroutine, whatever queues and   *)
(* threads lie underneath: an awaited operation is executed once, after    *)
(* the coroutine has stopped and before it goes on; it goes on with the    *)
(* value the operation returned; and coroutine bodies never overlap.       *)
(***************************************************************************)
EXTENDS FileSystem, Naturals, Sequences

CONSTANTS Coroutines,
          Script,      \* the operations each coroutine awaits, in order
          Nothing      \* no value received yet

VARIABLES phase,      \* idle, running, awaiting, executed or done
          awaits,     \* how many co_awaits each coroutine has reached
          result,     \* the value its last executed operation returned
          got,        \* the values its co_awaits have evaluated to
          directory   \* the state of the disk

vars == <<phase, awaits, result, got, directory>>

NobodyRuns == \A c \in Coroutines : phase[c] # "running"

Init ==
    /\ phase = [c \in Coroutines |-> "idle"]
    /\ awaits = [c \in Coroutines |-> 0]
    /\ result = [c \in Coroutines |-> Nothing]
    /\ got = [c \in Coroutines |-> <<>>]
    /\ directory \in BOOLEAN

\* The coroutine is called: it starts at once (initial_suspend never suspends).
Start(c) ==
    /\ phase[c] = "idle"
    /\ NobodyRuns
    /\ phase' = [phase EXCEPT ![c] = "running"]
    /\ UNCHANGED <<awaits, result, got, directory>>

\* It reaches its next co_await and stops.
Await(c) ==
    /\ phase[c] = "running"
    /\ awaits[c] < Len(Script[c])
    /\ phase' = [phase EXCEPT ![c] = "awaiting"]
    /\ awaits' = [awaits EXCEPT ![c] = @ + 1]
    /\ UNCHANGED <<result, got, directory>>

\* Some thread executes the operation.
Execute(c) ==
    /\ phase[c] = "awaiting"
    /\ LET op == Script[c][awaits[c]]
       IN  /\ result' = [result EXCEPT ![c] = Value(op, directory)]
           /\ directory' = Effect(op, directory)
    /\ phase' = [phase EXCEPT ![c] = "executed"]
    /\ UNCHANGED <<awaits, got>>

\* It goes on with the operation's value.
Resume(c) ==
    /\ phase[c] = "executed"
    /\ NobodyRuns
    /\ got' = [got EXCEPT ![c] = Append(@, result[c])]
    /\ phase' = [phase EXCEPT ![c] = "running"]
    /\ UNCHANGED <<awaits, result, directory>>

\* Its body ends and the frame is destroyed (final_suspend never suspends).
Return(c) ==
    /\ phase[c] = "running"
    /\ awaits[c] = Len(Script[c])
    /\ phase' = [phase EXCEPT ![c] = "done"]
    /\ UNCHANGED <<awaits, result, got, directory>>

Next ==
    \E c \in Coroutines :
        Start(c) \/ Await(c) \/ Execute(c) \/ Resume(c) \/ Return(c)

Spec == Init /\ [][Next]_vars
==============================================================================
