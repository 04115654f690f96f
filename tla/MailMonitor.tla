----------------------------- MODULE MailMonitor ------------------------------
(***************************************************************************)
(* network/api/smtp-socket: MailMonitor, a queue of mails with one thread  *)
(* that sends them, and the program of main.cpp around it, which a signal  *)
(* may interrupt at any point to run prog_exit().                          *)
(*                                                                         *)
(* The signal handler runs on the main thread (the one Linux prefers) and  *)
(* on top of whatever main was doing, a critical section included; until   *)
(* it returns main does not move.  One signal is modelled.                 *)
(***************************************************************************)
EXTENDS Naturals, Sequences

CONSTANT MaxMails   \* how often main calls alert() (once in main.cpp)

ASSUME MailMonitorAssumption == MaxMails \in Nat

VARIABLES
    list,      \* m_listMailItemsToSend, mails numbered as alert() accepts them
    mutex,     \* who holds m_mutexAlert: main, sender or nobody
    bExit,     \* m_bExit as the handler wrote it (zero-initialised: static)
    bVisible,  \* m_bExit as the sender reads it: the write is unsynchronised
    joinable,  \* m_spMailAlertThread is a thread that has not been joined
    mpc,       \* where main stands
    hpc,       \* where the signal handler stands
    tpc,       \* where alertThread stands
    inHand,    \* the mail it has taken from the list, or 0
    accepted,  \* how many mails alert() has been given
    sent,      \* history: the mails sent
    atExit,    \* history: how many had been accepted when m_bExit was set
    outcome    \* the process is alive, has returned from main, or has aborted

vars == <<list, mutex, bExit, bVisible, joinable, mpc, hpc, tpc, inHand,
          accepted, sent, atExit, outcome>>

flags == <<bExit, bVisible, atExit>>
mails == <<list, inHand, accepted, sent>>

Init ==
    /\ list = <<>>
    /\ mutex = "nobody"
    /\ bExit = FALSE /\ bVisible = FALSE
    /\ joinable = FALSE
    /\ mpc = "init" /\ hpc = "none" /\ tpc = "none"
    /\ inHand = 0
    /\ accepted = 0
    /\ sent = <<>>
    /\ atExit = 0
    /\ outcome = "alive"

MainRuns == outcome = "alive" /\ hpc \in {"none", "done"}
HandlerRuns == outcome = "alive"

-----------------------------------------------------------------------------
\* Lines 18-42: the account is read and a first mail announces the start.
InitMonitorMailInfo ==
    /\ MainRuns /\ mpc = "init"
    /\ mpc' = "run"
    /\ UNCHANGED <<flags, mails, mutex, joinable, hpc, tpc, outcome>>

\* Lines 60-63: the sender is created.
Run ==
    /\ MainRuns /\ mpc = "run"
    /\ tpc' = "lock"
    /\ joinable' = TRUE
    /\ mpc' = "alert"
    /\ UNCHANGED <<flags, mails, mutex, hpc, outcome>>

\* Lines 94-104.
AlertLock ==
    /\ MainRuns /\ mpc = "alert"
    /\ accepted < MaxMails
    /\ mutex = "nobody"
    /\ mutex' = "main"
    /\ mpc' = "push"
    /\ UNCHANGED <<flags, mails, joinable, hpc, tpc, outcome>>

\* Line 105.
AlertPush ==
    /\ MainRuns /\ mpc = "push"
    /\ accepted' = accepted + 1
    /\ list' = Append(list, accepted + 1)
    /\ mpc' = "notify"
    /\ UNCHANGED <<flags, inHand, sent, mutex, joinable, hpc, tpc, outcome>>

Woken == IF tpc = "asleep" THEN "woken" ELSE tpc

\* Mutant: nobody is woken.
AlertUnlock ==
    /\ MainRuns /\ mpc = "notify"
    /\ mutex' = "nobody"
    /\ mpc' = "alert"
    /\ UNCHANGED <<flags, mails, joinable, hpc, tpc, outcome>>

\* Lines 106-109: the sender is woken inside the critical section.
AlertNotify ==
    /\ MainRuns /\ mpc = "notify"
    /\ tpc' = Woken
    /\ mutex' = "nobody"
    /\ mpc' = "alert"
    /\ UNCHANGED <<flags, mails, joinable, hpc, outcome>>

\* Lines 54-57: wait() goes into join unless the thread has been joined.  That
\* join never returns: the sender ends only after a signal, and a handler that
\* finds main in it aborts the process.
Wait ==
    /\ MainRuns /\ mpc = "alert"
    /\ accepted = MaxMails
    /\ mpc' = IF joinable THEN "join" ELSE "return"
    /\ UNCHANGED <<flags, mails, mutex, joinable, hpc, tpc, outcome>>

\* main.cpp:60.
Return ==
    /\ MainRuns /\ mpc = "return"
    /\ outcome' = "returned"
    /\ UNCHANGED <<flags, mails, mutex, joinable, mpc, hpc, tpc>>

-----------------------------------------------------------------------------
\* main.cpp:21: SIGINT or SIGTERM interrupts main.
Signal ==
    /\ outcome = "alive" /\ hpc = "none"
    /\ hpc' = "flag"
    /\ UNCHANGED <<flags, mails, mutex, joinable, mpc, tpc, outcome>>

\* Line 46, without the mutex.
SetExit ==
    /\ HandlerRuns /\ hpc = "flag"
    /\ bExit' = TRUE
    /\ atExit' = accepted
    /\ hpc' = "notify"
    /\ UNCHANGED <<bVisible, mails, mutex, joinable, mpc, tpc, outcome>>

\* The write of line 46 reaches the sender.
ExitVisible ==
    /\ outcome = "alive"
    /\ bExit /\ ~bVisible
    /\ bVisible' = TRUE
    /\ UNCHANGED <<bExit, atExit, mails, mutex, joinable, mpc, hpc, tpc, outcome>>

\* Line 48.
NotifyExit ==
    /\ HandlerRuns /\ hpc = "notify"
    /\ tpc' = Woken
    /\ hpc' = "test"
    /\ UNCHANGED <<flags, mails, mutex, joinable, mpc, outcome>>

\* Lines 50-51.  Before run() the pointer is null; while main is itself in the
\* join, joining the thread a second time fails or is undefined (line 51
\* throws from a signal handler): in both cases the process is aborted.
TestJoinable ==
    /\ HandlerRuns /\ hpc = "test"
    /\ IF tpc = "none" \/ mpc = "join"
       THEN outcome' = "aborted" /\ UNCHANGED hpc
       ELSE hpc' = (IF joinable THEN "join" ELSE "done") /\ UNCHANGED outcome
    /\ UNCHANGED <<flags, mails, mutex, joinable, mpc, tpc>>

\* Lines 51-52.
HandlerJoined ==
    /\ HandlerRuns /\ hpc = "join"
    /\ tpc = "exited"
    /\ joinable' = FALSE
    /\ hpc' = "done"
    /\ UNCHANGED <<flags, mails, mutex, mpc, tpc, outcome>>

-----------------------------------------------------------------------------
\* Lines 73 and 79: the sender enters the critical section, or comes back.
Lock ==
    /\ outcome = "alive"
    /\ tpc \in {"lock", "woken"}
    /\ mutex = "nobody"
    /\ mutex' = "sender"
    /\ tpc' = "test"
    /\ UNCHANGED <<flags, mails, joinable, mpc, hpc, outcome>>

\* Mutant: the exit flag is looked at first.
TakeUnlessExit ==
    /\ outcome = "alive"
    /\ tpc = "test"
    /\ IF list = <<>> \/ bVisible
       THEN tpc' = "empty" /\ UNCHANGED <<list, inHand, mutex>>
       ELSE /\ inHand' = Head(list)
            /\ list' = Tail(list)
            /\ mutex' = "nobody"
            /\ tpc' = "send"
    /\ UNCHANGED <<flags, accepted, sent, joinable, mpc, hpc, outcome>>

\* Lines 74 and 82-84: the first mail is taken, if there is one.
Take ==
    /\ outcome = "alive"
    /\ tpc = "test"
    /\ IF list = <<>>
       THEN tpc' = "empty" /\ UNCHANGED <<list, inHand, mutex>>
       ELSE /\ inHand' = Head(list)
            /\ list' = Tail(list)
            /\ mutex' = "nobody"
            /\ tpc' = "send"
    /\ UNCHANGED <<flags, accepted, sent, joinable, mpc, hpc, outcome>>

\* Lines 76-77: with an empty list the thread ends once it sees the flag.
TestExit ==
    /\ outcome = "alive"
    /\ tpc = "empty"
    /\ IF bVisible
       THEN tpc' = "exited" /\ mutex' = "nobody"
       ELSE tpc' = "wait" /\ UNCHANGED mutex
    /\ UNCHANGED <<flags, mails, joinable, mpc, hpc, outcome>>

\* Line 79.
Sleep ==
    /\ outcome = "alive"
    /\ tpc = "wait"
    /\ tpc' = "asleep"
    /\ mutex' = "nobody"
    /\ UNCHANGED <<flags, mails, joinable, mpc, hpc, outcome>>

SpuriousWakeup ==
    /\ outcome = "alive"
    /\ tpc = "asleep"
    /\ tpc' = "woken"
    /\ UNCHANGED <<flags, mails, mutex, joinable, mpc, hpc, outcome>>

\* Lines 86-88, outside the critical section; the result is not looked at.
SendMail ==
    /\ outcome = "alive"
    /\ tpc = "send"
    /\ sent' = Append(sent, inHand)
    /\ inHand' = 0
    /\ tpc' = "lock"
    /\ UNCHANGED <<flags, list, accepted, mutex, joinable, mpc, hpc, outcome>>

-----------------------------------------------------------------------------
Main == InitMonitorMailInfo \/ Run \/ AlertLock \/ AlertPush \/ AlertNotify
            \/ Wait \/ Return
Handler == SetExit \/ NotifyExit \/ TestJoinable \/ HandlerJoined
Sender == Lock \/ Take \/ TestExit \/ Sleep \/ SendMail

Next == Main \/ Handler \/ Sender \/ Signal \/ ExitVisible \/ SpuriousWakeup

Spec == Init /\ [][Next]_vars

\* Threads and the handler keep running and a write becomes visible; no
\* signal need ever come.
FairSpec ==
    /\ Spec
    /\ WF_vars(Main) /\ WF_vars(Handler) /\ WF_vars(ExitVisible)
    /\ WF_vars(Sender)

\* The sender is never left asleep with mail in the list: whatever a signal
\* interrupts, the notification for the mail is sent or is main's next step.
NoSleepOnMail == tpc = "asleep" /\ list # <<>> => mpc = "notify"

Hand == IF tpc = "send" THEN <<inHand>> ELSE <<>>

\* Mails leave in the order alert() took them, none lost and none sent twice;
\* and the thread ends, and main returns, only after every mail accepted before
\* the exit flag has been sent: stopping drains the queue.
DrainsBeforeExit ==
    /\ sent \o Hand \o list = [i \in 1..accepted |-> i]
    /\ tpc = "exited" => Len(sent) >= atExit
    /\ outcome = "returned" => tpc = "exited"

\* Until a signal comes, every mail accepted is sent.
MailIsSent == \A n \in 1..MaxMails :
    accepted = n ~> (n \in {sent[i] : i \in 1..Len(sent)} \/ hpc # "none")

\* What main.cpp:25 says a signal does: it stops the mail service.  The
\* handler gets through and main returns.
SignalStopsService == hpc = "flag" ~> outcome = "returned"
==============================================================================
