--------------------------- MODULE MailServiceProofs ---------------------------
(***************************************************************************)
(* Proofs about MailService: the mail monitor with the SMTP dialogues in   *)
(* it, for every number of mails, of recipients and of descriptors.        *)
(*                                                                         *)
(* A step of the service is a step of MailMonitor or leaves its variables  *)
(* alone, and a step of the dialogue or leaves that alone, so each half is *)
(* proved from an inductive invariant of its own.  MonitorInv says who     *)
(* holds the mutex where, and that the sender looks at the exit flag only  *)
(* with an empty list.  DialogueInv says how far server and client can be  *)
(* apart: without a split reply not at all (InStep), and with one no       *)
(* further than the DATA command, whose code no other reply has (Behind).  *)
(***************************************************************************)
EXTENDS MailService, SequenceTheorems, TLAPS

-----------------------------------------------------------------------------
(* The monitor.                                                            *)

MonitorTypes ==
    /\ list \in Seq(Nat) /\ sent \in Seq(Nat)
    /\ inHand \in Nat /\ accepted \in Nat /\ atExit \in Nat
    /\ bExit \in BOOLEAN /\ bVisible \in BOOLEAN /\ joinable \in BOOLEAN
    /\ mutex \in {"nobody", "main", "sender"}
    /\ mpc \in {"init", "run", "alert", "push", "notify", "join", "return"}
    /\ hpc \in {"none", "flag", "notify", "test", "join", "done"}
    /\ tpc \in {"none", "lock", "test", "empty", "wait", "asleep", "woken", "send", "exited"}
    /\ outcome \in {"alive", "returned", "aborted"}

\* Who is in the critical section, and what the sender has seen in it.
Sections ==
    /\ mutex = "main" <=> mpc \in {"push", "notify"}
    /\ mutex = "sender" <=> tpc \in {"test", "empty", "wait"}
    /\ tpc \in {"empty", "wait"} => list = <<>>
    /\ tpc = "none" <=> mpc \in {"init", "run"}

\* The flag is set once, and the sender ends, and is joined, only after it.
Stopping ==
    /\ hpc \in {"none", "flag"} => ~bExit
    /\ bVisible => bExit
    /\ tpc = "exited" => bVisible
    /\ atExit <= accepted
    /\ mpc \notin {"init", "run"} /\ ~joinable => tpc = "exited"
    /\ mpc = "return" => ~joinable

MonitorInv == MonitorTypes /\ Sections /\ Stopping /\ NoSleepOnMail /\ DrainsBeforeExit

-----------------------------------------------------------------------------
(* The dialogue.                                                           *)

Data == Text - 1
Talking == phase \in {"send", "recv"}

DialogueTypes ==
    /\ phase \in {"none", "send", "recv", "quit", "bye", "done"}
    /\ step \in Steps
    /\ result \in BOOLEAN /\ up \in BOOLEAN
    /\ sockets \in 0..MaxSockets
    /\ todo \in Seq(Steps) /\ wire \in Seq(Nat)
    /\ agreed \subseteq Steps
    /\ trouble \subseteq {"network", "refused", "split"}
    /\ phase \in {"send", "recv", "quit", "bye"} => sockets > 0
    /\ phase = "none" => ~up /\ todo = <<>> /\ wire = <<>> /\ agreed = {} /\ trouble = {} /\ step = 1

\* The server works off the commands in order and answers each once.
InOrderOnce ==
    /\ \A i, j \in 1..Len(todo) : i < j => todo[i] < todo[j]
    /\ \A i \in 1..Len(todo), j \in agreed : j < todo[i]
    /\ Talking => /\ \A i \in 1..Len(todo) : todo[i] <= step
                  /\ \A j \in agreed : j <= step
                  /\ phase = "send" => step \notin agreed /\ \A i \in 1..Len(todo) : todo[i] < step

\* No 250 follows a 354 on the wire, or is read at the last step, unless the
\* text has been accepted.
Behind ==
    /\ 250 \in {wire[i] : i \in 1..Len(wire)} /\ Talking /\ step = Text => Text \in agreed
    /\ \A i \in 1..Len(wire) : wire[i] = 354 => Data \in agreed
    /\ \A i, j \in 1..Len(wire) : i < j /\ wire[i] = 354 /\ wire[j] = 250 => Text \in agreed
    /\ Talking /\ step = Text => Data \in agreed

\* Without a split reply client and server are at the same step.
InStep ==
    "split" \notin trouble =>
        /\ Talking => 1..(step - 1) \subseteq agreed
        /\ phase = "send" => todo = <<>> /\ wire = <<>>
        /\ phase = "recv" =>
              \/ todo = <<step>> /\ wire = <<>>
              \/ todo = <<>> /\ wire = <<>> /\ ~up
              \/ todo = <<>> /\ wire = <<sendMail[step].want>> /\ step \in agreed
              \/ todo = <<>> /\ wire = <<550>> /\ "refused" \in trouble

\* What sendMail() returns, and when it can fail.
Outcome ==
    /\ result => phase \in {"quit", "bye", "done"}
    /\ trouble = {} /\ phase \in {"send", "recv"} => up
    /\ trouble = {} /\ phase \in {"quit", "bye"} => result

DialogueInv ==
    /\ DialogueTypes /\ InOrderOnce /\ Behind /\ InStep /\ Outcome
    /\ TrueMeansSent /\ NoTroubleDelivered

-----------------------------------------------------------------------------
(* The monitor's half.                                                     *)

\* A step of the service is a step of the monitor, or none of its business.
LEMMA MonitorSteps == [ServiceNext]_serviceVars => [Next]_vars
BY DEF ServiceNext, serviceVars, Dialogue, SmtpServer, Trouble, MailDone, ServiceMain,
       ServiceHandler, ServiceSender, ServiceOther, Next, Main, Handler, Sender

\* The numbers of the mails accepted so far, in order.
Numbers(n) == [i \in 1..n |-> i]

\* One more mail is accepted: it is the last one.
LEMMA NumbersGrow ==
    ASSUME NEW n \in Nat
    PROVE  /\ Numbers(n) \in Seq(Nat) /\ Len(Numbers(n)) = n
           /\ Append(Numbers(n), n + 1) = Numbers(n + 1)
<1>1. /\ Numbers(n) \in Seq(Nat) /\ Len(Numbers(n)) = n
      /\ \A i \in 1..n : Numbers(n)[i] = i
  BY DEF Numbers
<1>2. /\ Numbers(n + 1) \in Seq(Nat) /\ Len(Numbers(n + 1)) = n + 1
      /\ \A i \in 1..(n + 1) : Numbers(n + 1)[i] = i
  BY DEF Numbers
<1>3. /\ Append(Numbers(n), n + 1) \in Seq(Nat)
      /\ Len(Append(Numbers(n), n + 1)) = n + 1
      /\ \A i \in 1..n : Append(Numbers(n), n + 1)[i] = i
      /\ Append(Numbers(n), n + 1)[n + 1] = n + 1
  BY <1>1, AppendProperties
<1>4. \A i \in 1..(n + 1) : Append(Numbers(n), n + 1)[i] = Numbers(n + 1)[i]
  <2>1. \A i \in 1..(n + 1) : i \in 1..n \/ i = n + 1
    OBVIOUS
  <2> QED
    BY <1>2, <1>3, <2>1
<1> QED
  BY <1>1, <1>2, <1>3, <1>4, SeqEqual

\* Mails are handed on without being reordered.
LEMMA Regroup ==
    ASSUME NEW a \in Seq(Nat), NEW b \in Seq(Nat), NEW c \in Seq(Nat)
    PROVE  (a \o b) \o c = a \o (b \o c)
BY ConcatAssociative

\* The program starts with no mail, no sender and no signal.
LEMMA MonitorStart == Init => MonitorInv
<1> SUFFICES ASSUME Init PROVE MonitorInv
  OBVIOUS
<1>0. list \in Seq(Nat) /\ sent \in Seq(Nat)
  BY DEF Init
<1>1. MonitorTypes
  BY <1>0 DEF Init, MonitorTypes
<1>2. Sections /\ Stopping /\ NoSleepOnMail
  BY DEF Init, Sections, Stopping, NoSleepOnMail
<1>3. sent \o Hand \o list = Numbers(accepted)
  <2>1. sent \o Hand \o list = <<>>
    BY DEF Init, Hand
  <2>2. Numbers(0) = <<>>
    BY DEF Numbers
  <2> QED
    BY <2>1, <2>2 DEF Init
<1>4. DrainsBeforeExit
  BY <1>3 DEF Init, DrainsBeforeExit, Numbers
<1> QED
  BY <1>1, <1>2, <1>4 DEF MonitorInv

\* Every step of main, of the handler and of the sender keeps the types.
LEMMA MonitorTypesStep == MonitorInv /\ [Next]_vars => MonitorTypes'
<1> SUFFICES ASSUME MonitorInv, [Next]_vars PROVE MonitorTypes'
  OBVIOUS
<1>0. MonitorTypes
  BY DEF MonitorInv
<1> USE <1>0 DEF MonitorTypes, flags, mails
<1>1. CASE InitMonitorMailInfo \/ Run \/ AlertLock \/ Wait \/ Return
  BY <1>1 DEF InitMonitorMailInfo, Run, AlertLock, Wait, Return
<1>2. CASE AlertPush
  BY <1>2 DEF AlertPush
<1>3. CASE AlertNotify
  BY <1>3 DEF AlertNotify, Woken
<1>4. CASE Handler
  BY <1>4 DEF Handler, SetExit, NotifyExit, Woken, TestJoinable, HandlerJoined
<1>5. CASE Lock \/ TestExit \/ Sleep
  BY <1>5 DEF Lock, TestExit, Sleep
<1>6. CASE Take
  <2>1. CASE list = <<>>
    BY <1>6, <2>1 DEF Take
  <2>2. CASE list # <<>>
    <3>1. Head(list) \in Nat /\ Tail(list) \in Seq(Nat)
      BY <2>2, HeadTailProperties
    <3> QED
      BY <1>6, <2>2, <3>1 DEF Take
  <2> QED
    BY <2>1, <2>2
<1>7. CASE SendMail
  BY <1>7 DEF SendMail
<1>8. CASE Signal \/ ExitVisible \/ SpuriousWakeup
  BY <1>8 DEF Signal, ExitVisible, SpuriousWakeup
<1>9. CASE UNCHANGED vars
  BY <1>9 DEF vars
<1> QED
  BY <1>1, <1>2, <1>3, <1>4, <1>5, <1>6, <1>7, <1>8, <1>9 DEF Next, Main, Sender

\* The critical sections exclude each other and the sender sleeps on an empty
\* list only.
LEMMA SectionsStep == MonitorInv /\ [Next]_vars => Sections' /\ NoSleepOnMail'
<1> SUFFICES ASSUME MonitorInv, [Next]_vars PROVE Sections' /\ NoSleepOnMail'
  OBVIOUS
<1>0. MonitorTypes /\ Sections /\ NoSleepOnMail
  BY DEF MonitorInv
<1> USE <1>0 DEF MonitorTypes, Sections, NoSleepOnMail, flags, mails
<1>1. CASE Main
  BY <1>1 DEF Main, InitMonitorMailInfo, Run, AlertLock, AlertPush, AlertNotify, Woken, Wait, Return
<1>2. CASE Handler
  BY <1>2 DEF Handler, SetExit, NotifyExit, Woken, TestJoinable, HandlerJoined
<1>3. CASE Sender
  BY <1>3 DEF Sender, Lock, Take, TestExit, Sleep, SendMail
<1>4. CASE Signal \/ ExitVisible \/ SpuriousWakeup
  BY <1>4 DEF Signal, ExitVisible, SpuriousWakeup
<1>5. CASE UNCHANGED vars
  BY <1>5 DEF vars
<1> QED
  BY <1>1, <1>2, <1>3, <1>4, <1>5 DEF Next

\* The exit flag, and what follows from it, come in order.
LEMMA StoppingStep == MonitorInv /\ [Next]_vars => Stopping'
<1> SUFFICES ASSUME MonitorInv, [Next]_vars PROVE Stopping'
  OBVIOUS
<1>0. MonitorTypes /\ Sections /\ Stopping
  BY DEF MonitorInv
<1> USE <1>0 DEF MonitorTypes, Sections, Stopping, flags, mails
<1>1. CASE Main
  BY <1>1 DEF Main, InitMonitorMailInfo, Run, AlertLock, AlertPush, AlertNotify, Woken, Wait, Return
<1>2. CASE Handler
  BY <1>2 DEF Handler, SetExit, NotifyExit, Woken, TestJoinable, HandlerJoined
<1>3. CASE Sender
  BY <1>3 DEF Sender, Lock, Take, TestExit, Sleep, SendMail
<1>4. CASE Signal \/ ExitVisible \/ SpuriousWakeup
  BY <1>4 DEF Signal, ExitVisible, SpuriousWakeup
<1>5. CASE UNCHANGED vars
  BY <1>5 DEF vars
<1> QED
  BY <1>1, <1>2, <1>3, <1>4, <1>5 DEF Next

\* No mail is lost, overtaken or sent twice by any step.
LEMMA MailsStep == MonitorInv /\ [Next]_vars => DrainsBeforeExit'
<1> SUFFICES ASSUME MonitorInv, [Next]_vars PROVE DrainsBeforeExit'
  OBVIOUS
<1>0. /\ MonitorTypes /\ Sections /\ Stopping /\ DrainsBeforeExit
      /\ MonitorTypes' /\ Sections' /\ Stopping'
  BY MonitorTypesStep, SectionsStep, StoppingStep DEF MonitorInv
<1>a. /\ sent \in Seq(Nat) /\ list \in Seq(Nat)
      /\ accepted \in Nat /\ atExit \in Nat /\ inHand \in Nat
  BY <1>0 DEF MonitorTypes
<1>b. <<inHand>> \in Seq(Nat) /\ <<>> \in Seq(Nat)
  BY <1>a
<1>c. sent \o Hand \o list = Numbers(accepted)
  BY <1>0 DEF DrainsBeforeExit, Numbers
<1>1. /\ sent \o Hand \o list = Numbers(accepted)
      /\ sent \in Seq(Nat) /\ Hand \in Seq(Nat) /\ list \in Seq(Nat)
      /\ accepted \in Nat /\ atExit \in Nat /\ inHand \in Nat
  BY <1>a, <1>b, <1>c DEF Hand
<1> DEFINE InOrder2 == sent \o Hand \o list = Numbers(accepted)
           Drained == tpc = "exited" => Len(sent) >= atExit
           Left == outcome = "returned" => tpc = "exited"
<1>2. Left'
  <2>1. CASE Return
    BY <1>0, <2>1 DEF Return, Stopping, Sections
  <2>2. CASE outcome' = outcome /\ (tpc = "exited" => tpc' = "exited")
    BY <1>0, <2>2 DEF DrainsBeforeExit
  <2>3. CASE outcome' = "aborted"
    BY <2>3
  <2> USE DEF flags, mails
  <2>4. CASE Main
    BY <2>4, <2>1, <2>2, <1>0 DEF Main, InitMonitorMailInfo, Run, AlertLock, AlertPush,
       AlertNotify, Woken, Wait, Sections
  <2>5. CASE Handler
    BY <2>5, <2>2, <2>3 DEF Handler, SetExit, NotifyExit, Woken, TestJoinable, HandlerJoined
  <2>6. CASE Sender
    BY <2>6, <2>2 DEF Sender, Lock, Take, TestExit, Sleep, SendMail
  <2>7. CASE Signal \/ ExitVisible \/ SpuriousWakeup \/ UNCHANGED vars
    BY <2>7, <2>2 DEF Signal, ExitVisible, SpuriousWakeup, vars
  <2> QED
    BY <2>4, <2>5, <2>6, <2>7 DEF Next
<1>3. InOrder2'
  <2>1. CASE AlertPush
    <3>1. /\ sent' = sent /\ Hand' = Hand /\ list' = Append(list, accepted + 1)
          /\ accepted' = accepted + 1
      BY <2>1 DEF AlertPush, Hand
    <3>2. sent \o Hand \in Seq(Nat) /\ accepted + 1 \in Nat
      BY <1>1, ConcatProperties
    <3>3. Append(list, accepted + 1) = list \o <<accepted + 1>>
      BY <1>1, <3>2, AppendIsConcat
    <3>4. (sent \o Hand) \o (list \o <<accepted + 1>>)
            = ((sent \o Hand) \o list) \o <<accepted + 1>>
      <4>1. <<accepted + 1>> \in Seq(Nat)
        BY <3>2
      <4> QED
        BY <1>1, <3>2, <4>1, Regroup
    <3>5. Numbers(accepted) \o <<accepted + 1>> = Append(Numbers(accepted), accepted + 1)
      BY <1>1, <3>2, NumbersGrow, AppendIsConcat
    <3> QED
      BY <1>1, <3>1, <3>3, <3>4, <3>5, NumbersGrow
  <2>2. CASE Take /\ list # <<>>
    <3>1. /\ sent' = sent /\ Hand = <<>> /\ Hand' = <<Head(list)>> /\ list' = Tail(list)
          /\ accepted' = accepted
      BY <2>2 DEF Take, Hand
    <3>2. Head(list) \in Nat /\ Tail(list) \in Seq(Nat) /\ <<Head(list)>> \in Seq(Nat)
      BY <1>1, <2>2, HeadTailProperties
    <3>3. <<Head(list)>> \o Tail(list) = list
      BY <1>1, <2>2
    <3>4. (sent \o <<Head(list)>>) \o Tail(list) = sent \o (<<Head(list)>> \o Tail(list))
      BY <1>1, <3>2, Regroup
    <3>5. sent \o <<>> = sent
      BY <1>1, ConcatEmptySeq
    <3> QED
      BY <1>1, <3>1, <3>3, <3>4, <3>5
  <2>3. CASE SendMail
    <3>1. /\ sent' = Append(sent, inHand) /\ Hand = <<inHand>> /\ Hand' = <<>>
          /\ list' = list /\ accepted' = accepted
      BY <2>3 DEF SendMail, Hand
    <3>2. Append(sent, inHand) = sent \o <<inHand>>
      BY <1>1, AppendIsConcat
    <3>3. sent' \in Seq(Nat)
      BY <1>0 DEF MonitorTypes
    <3>4. sent' \o <<>> = sent'
      BY <3>3, ConcatEmptySeq
    <3> QED
      BY <1>1, <3>1, <3>2, <3>4
  <2>4. CASE UNCHANGED mails /\ (tpc' = "send" <=> tpc = "send")
    BY <1>1, <2>4 DEF Hand, mails
  <2> USE DEF flags
  <2>5. CASE Main
    BY <2>5, <2>1, <2>4, <1>0 DEF Main, InitMonitorMailInfo, Run, AlertLock,
       AlertNotify, Woken, Wait, Return, Sections
  <2>6. CASE Handler
    BY <2>6, <2>4 DEF Handler, SetExit, NotifyExit, Woken, TestJoinable, HandlerJoined
  <2>7. CASE Sender
    <3>1. CASE Take /\ list = <<>>
      BY <3>1, <2>4 DEF Take, mails
    <3> QED
      BY <2>7, <3>1, <2>2, <2>3, <2>4 DEF Sender, Lock, TestExit, Sleep
  <2>8. CASE Signal \/ ExitVisible \/ SpuriousWakeup \/ UNCHANGED vars
    BY <2>8, <2>4 DEF Signal, ExitVisible, SpuriousWakeup, vars, mails
  <2> QED
    BY <2>5, <2>6, <2>7, <2>8 DEF Next
<1>4. Drained'
  <2>1. CASE TestExit /\ bVisible
    <3>1. tpc = "empty" /\ list = <<>> /\ UNCHANGED <<sent, atExit>>
      BY <1>0, <2>1 DEF TestExit, Sections, mails, flags
    <3>2. sent = Numbers(accepted)
      <4>1. sent \o Hand \o list = sent
        BY <1>1, <3>1, ConcatEmptySeq DEF Hand
      <4> QED
        BY <1>1, <4>1
    <3>3. Len(sent) = accepted /\ atExit <= accepted
      BY <1>0, <1>1, <3>2, NumbersGrow DEF Stopping
    <3> QED
      BY <1>1, <3>1, <3>3
  <2>2. CASE /\ UNCHANGED <<sent, atExit>>
             /\ tpc' = "exited" => tpc = "exited"
    BY <1>0, <2>2 DEF DrainsBeforeExit
  <2>3. CASE tpc' # "exited"
    BY <2>3
  <2> USE DEF flags, mails
  <2>4. CASE Main
    BY <2>4, <2>2, <2>3 DEF Main, InitMonitorMailInfo, Run, AlertLock, AlertPush,
       AlertNotify, Woken, Wait, Return
  <2>5. CASE Handler
    <3>1. CASE SetExit
      BY <1>0, <2>3, <3>1 DEF SetExit, Stopping
    <3> QED
      BY <2>5, <3>1, <2>2 DEF Handler, NotifyExit, Woken, TestJoinable, HandlerJoined
  <2>6. CASE Sender
    BY <2>6, <2>1, <2>3 DEF Sender, Lock, Take, TestExit, Sleep, SendMail
  <2>7. CASE Signal \/ ExitVisible \/ SpuriousWakeup \/ UNCHANGED vars
    BY <2>7, <2>2 DEF Signal, ExitVisible, SpuriousWakeup, vars
  <2> QED
    BY <2>4, <2>5, <2>6, <2>7 DEF Next
<1> QED
  BY <1>2, <1>3, <1>4 DEF DrainsBeforeExit, Numbers

\* The monitor's invariant holds in every reachable state of the service.
THEOREM MonitorInductive == ServiceSpec => []MonitorInv
<1>1. ServiceInit => MonitorInv
  BY MonitorStart DEF ServiceInit
<1>2. MonitorInv /\ [ServiceNext]_serviceVars => MonitorInv'
  BY MonitorSteps, MonitorTypesStep, SectionsStep, StoppingStep, MailsStep DEF MonitorInv
<1> QED
  BY <1>1, <1>2, PTL DEF ServiceSpec

\* The sender is never asleep with mail in the list, whatever is interrupted.
THEOREM SenderWoken == ServiceSpec => []NoSleepOnMail
<1>1. MonitorInv => NoSleepOnMail
  BY DEF MonitorInv
<1> QED
  BY <1>1, MonitorInductive, PTL

\* Mails leave in order, each once, and stopping drains the queue.
THEOREM QueueDrained == ServiceSpec => []DrainsBeforeExit
<1>1. MonitorInv => DrainsBeforeExit
  BY DEF MonitorInv
<1> QED
  BY <1>1, MonitorInductive, PTL

-----------------------------------------------------------------------------
(* The dialogue's half.                                                    *)

Commands == [cmd : {"greeting", "HELO", "AUTH", "user", "password", "MAIL", "RCPT", "DATA", "text"},
             want : {220, 235, 250, 334, 354}]

Join(s, t) == s \o t

\* Two sequences, one after the other: its type, its length and its elements.
LEMMA JoinType == ASSUME NEW S, NEW s \in Seq(S), NEW t \in Seq(S) PROVE Join(s, t) \in Seq(S)
BY ConcatProperties DEF Join

LEMMA JoinLen ==
    ASSUME NEW S, NEW s \in Seq(S), NEW t \in Seq(S) PROVE Len(Join(s, t)) = Len(s) + Len(t)
BY ConcatProperties DEF Join

LEMMA JoinLeft ==
    ASSUME NEW S, NEW s \in Seq(S), NEW t \in Seq(S)
    PROVE  \A i \in 1..Len(s) : Join(s, t)[i] = s[i]
<1> SUFFICES ASSUME NEW i \in 1..Len(s) PROVE Join(s, t)[i] = s[i]
  OBVIOUS
<1>1. Len(s) \in Nat /\ Len(t) \in Nat
  BY LenProperties
<1>2. i \in 1..(Len(s) + Len(t)) /\ i <= Len(s)
  BY <1>1
<1> QED
  BY <1>2, ConcatProperties DEF Join

LEMMA JoinRight ==
    ASSUME NEW S, NEW s \in Seq(S), NEW t \in Seq(S)
    PROVE  \A i \in 1..Len(t) : Join(s, t)[Len(s) + i] = t[i]
<1> SUFFICES ASSUME NEW i \in 1..Len(t) PROVE Join(s, t)[Len(s) + i] = t[i]
  OBVIOUS
<1>1. Len(s) \in Nat /\ Len(t) \in Nat
  BY LenProperties
<1>2. /\ Len(s) + i \in 1..(Len(s) + Len(t)) /\ ~(Len(s) + i <= Len(s))
      /\ (Len(s) + i) - Len(s) = i
  BY <1>1
<1> QED
  BY <1>2, ConcatProperties DEF Join

\* An element comes from the first sequence, at its place, or from the second.
LEMMA JoinCases ==
    ASSUME NEW S, NEW s \in Seq(S), NEW t \in Seq(S)
    PROVE  \A i \in 1..Len(Join(s, t)) : \/ i \in 1..Len(s) /\ Join(s, t)[i] = s[i]
                                         \/ i > Len(s) /\ \E j \in 1..Len(t) : Join(s, t)[i] = t[j]
<1> SUFFICES ASSUME NEW i \in 1..Len(Join(s, t))
             PROVE  \/ i \in 1..Len(s) /\ Join(s, t)[i] = s[i]
                    \/ i > Len(s) /\ \E j \in 1..Len(t) : Join(s, t)[i] = t[j]
  OBVIOUS
<1>1. Len(s) \in Nat /\ Len(t) \in Nat
  BY LenProperties
<1>2. i \in 1..(Len(s) + Len(t))
  BY JoinLen
<1>3. CASE i <= Len(s)
  BY <1>1, <1>2, <1>3, JoinLeft
<1>4. CASE i > Len(s)
  <2> DEFINE j == i - Len(s)
  <2>1. j \in 1..Len(t) /\ Len(s) + j = i
    BY <1>1, <1>2, <1>4
  <2> HIDE DEF j
  <2>2. Join(s, t)[Len(s) + j] = t[j]
    BY <2>1, JoinRight
  <2> QED
    BY <1>4, <2>1, <2>2
<1> QED
  BY <1>1, <1>2, <1>3, <1>4

\* Codes other than DATA's are joined to codes other than DATA's.
Plain(s) == s \in Seq(Commands) /\ \A i \in 1..Len(s) : s[i].want # 354

LEMMA JoinPlain == ASSUME NEW s, NEW t, Plain(s), Plain(t) PROVE Plain(Join(s, t))
<1>1. s \in Seq(Commands) /\ t \in Seq(Commands)
  BY DEF Plain
<1>2. Join(s, t) \in Seq(Commands)
  BY <1>1, JoinType
<1>3. ASSUME NEW i \in 1..Len(Join(s, t)) PROVE Join(s, t)[i].want # 354
  <2>1. \/ i \in 1..Len(s) /\ Join(s, t)[i] = s[i]
        \/ i > Len(s) /\ \E j \in 1..Len(t) : Join(s, t)[i] = t[j]
    BY <1>1, JoinCases
  <2> QED
    BY <2>1 DEF Plain
<1> QED
  BY <1>2, <1>3 DEF Plain

LEMMA PlainLen ==
    ASSUME NEW s, NEW t, Plain(s), Plain(t) PROVE Len(Join(s, t)) = Len(s) + Len(t)
<1>1. s \in Seq(Commands) /\ t \in Seq(Commands)
  BY DEF Plain
<1> QED
  BY <1>1, JoinLen

\* The dialogue has eight steps besides the recipients.  The answer to DATA,
\* the last but one, has a code of its own, and the last step wants a 250.
LEMMA Shape ==
    /\ Len(sendMail) = Recipients + 8
    /\ sendMail \in Seq(Commands)
    /\ \A i \in Steps : sendMail[i].want = 354 <=> i = Data
    /\ sendMail[Text].want = 250
    /\ sendMail[Text].cmd # "RCPT"
<1> USE SmtpAssumption
<1> DEFINE s1 == Join(connect, logon)
           s2 == Join(s1, setMailFrom)
           s3 == Join(s2, setMailTo)
<1>1. Plain(connect) /\ Len(connect) = 2
  BY DEF connect, Commands, Plain
<1>2. Plain(logon) /\ Len(logon) = 3
  BY DEF logon, Commands, Plain
<1>3. Plain(setMailFrom) /\ Len(setMailFrom) = 1
  BY DEF setMailFrom, Commands, Plain
<1>4. Plain(setMailTo) /\ Len(setMailTo) = Recipients
  BY DEF setMailTo, Commands, Plain
<1>5. /\ send \in Seq(Commands) /\ Len(send) = 2
      /\ send[1].want = 354 /\ send[2].want = 250 /\ send[2].cmd = "text"
  BY DEF send, Commands
<1>6. Plain(s1) /\ Len(s1) = 5
  <2>1. Plain(s1)
    BY <1>1, <1>2, JoinPlain
  <2>2. Len(s1) = Len(connect) + Len(logon)
    BY <1>1, <1>2, PlainLen
  <2> QED
    BY <1>1, <1>2, <2>1, <2>2
<1> HIDE DEF s1
<1>7. Plain(s2) /\ Len(s2) = 6
  <2>1. Plain(s2)
    BY <1>3, <1>6, JoinPlain
  <2>2. Len(s2) = Len(s1) + Len(setMailFrom)
    BY <1>3, <1>6, PlainLen
  <2> QED
    BY <1>3, <1>6, <2>1, <2>2
<1> HIDE DEF s2
<1>8. Plain(s3) /\ Len(s3) = Recipients + 6
  <2>1. Plain(s3)
    BY <1>4, <1>7, JoinPlain
  <2>2. Len(s3) = Len(s2) + Len(setMailTo)
    BY <1>4, <1>7, PlainLen
  <2> QED
    BY <1>4, <1>7, <2>1, <2>2
<1> HIDE DEF s3
<1>9. sendMail = Join(s3, send)
  BY DEF sendMail, Join, s1, s2, s3
<1>10. /\ sendMail \in Seq(Commands) /\ Len(sendMail) = Recipients + 8
       /\ \A i \in 1..(Recipients + 6) : sendMail[i] = s3[i]
       /\ \A i \in 1..2 : sendMail[(Recipients + 6) + i] = send[i]
  <2>0. s3 \in Seq(Commands) /\ send \in Seq(Commands)
    BY <1>5, <1>8 DEF Plain
  <2>1. sendMail \in Seq(Commands)
    BY <1>9, <2>0, JoinType
  <2>2. Len(sendMail) = Len(s3) + Len(send)
    BY <1>9, <2>0, JoinLen
  <2>3. \A i \in 1..Len(s3) : sendMail[i] = s3[i]
    BY <1>9, <2>0, JoinLeft
  <2>4. \A i \in 1..Len(send) : sendMail[Len(s3) + i] = send[i]
    BY <1>9, <2>0, JoinRight
  <2> QED
    BY <1>5, <1>8, <2>1, <2>2, <2>3, <2>4
<1>11. sendMail[Recipients + 7] = send[1] /\ sendMail[Recipients + 8] = send[2]
  <2>1. (Recipients + 6) + 1 = Recipients + 7 /\ (Recipients + 6) + 2 = Recipients + 8
    OBVIOUS
  <2>2. 1 \in 1..2 /\ 2 \in 1..2
    OBVIOUS
  <2> QED
    BY <1>10, <2>1, <2>2
<1>12. Text = Recipients + 8 /\ Data = Recipients + 7 /\ Steps = 1..(Recipients + 8)
  BY <1>10 DEF Text, Data, Steps
<1>13. \A i \in Steps : i \in 1..(Recipients + 6) \/ i = Recipients + 7 \/ i = Recipients + 8
  BY <1>12
<1>14. \A i \in 1..(Recipients + 6) : i # Recipients + 7
  OBVIOUS
<1>15. Recipients + 7 # Recipients + 8
  OBVIOUS
<1>16. \A i \in Steps : sendMail[i].want = 354 <=> i = Data
  BY <1>5, <1>8, <1>10, <1>11, <1>12, <1>13, <1>14, <1>15 DEF Plain
<1> QED
  BY <1>5, <1>10, <1>11, <1>12, <1>16

\* Every step wants a code that no refusal has.
LEMMA Wants == ASSUME NEW i \in Steps PROVE sendMail[i].want \in Nat \ {0, 550}
<1>1. sendMail[i] \in Commands
  BY Shape DEF Steps
<1> QED
  BY <1>1 DEF Commands

\* What the lemma says of the numbers of the steps.
LEMMA StepNumbers ==
    /\ Text \in Steps /\ Data \in Steps /\ Data < Text
    /\ Text \in Nat /\ Data \in Nat /\ Text = Data + 1
    /\ Steps = 1..Text
    /\ Rcpts \subseteq 1..(Text - 1)
<1>1. Text \in Nat /\ Text > 7
  BY Shape, SmtpAssumption DEF Text
<1>2. Steps = 1..Text
  BY DEF Steps, Text
<1>3. Rcpts \subseteq 1..(Text - 1)
  BY <1>1, <1>2, Shape DEF Rcpts
<1> QED
  BY <1>1, <1>2, <1>3 DEF Data

CodeOf(agree) == IF agree THEN sendMail[todo[1]].want ELSE 550

\* The segments of a reply go to the end of what is on the wire.
LEMMA ReplyEffect ==
    ASSUME DialogueTypes, NEW agree \in BOOLEAN, NEW segments,
           segments = <<TRUE>> \/ \E start \in BOOLEAN : segments = <<TRUE, start>>,
           Reply(agree, segments)
    PROVE  LET h == todo[1]
               code == CodeOf(agree)
           IN
             /\ todo # <<>> /\ h \in Steps /\ code \in Nat /\ 1 \in 1..Len(todo) /\ up
             /\ todo' \in Seq(Steps) /\ Len(todo') = Len(todo) - 1
             /\ \A i \in 1..Len(todo') : i + 1 \in 1..Len(todo) /\ todo'[i] = todo[i + 1]
             /\ wire' \in Seq(Nat)
             /\ \A i \in 1..Len(wire') : \/ i \in 1..Len(wire) /\ wire'[i] = wire[i]
                                         \/ i > Len(wire) /\ wire'[i] \in {code, 0}
             /\ segments = <<TRUE>> => wire' = Append(wire, code)
             /\ segments # <<TRUE>> => "split" \in trouble'
             /\ agreed' = IF agree THEN agreed \cup {h} ELSE agreed
             /\ trouble \subseteq trouble' /\ trouble' \subseteq {"network", "refused", "split"}
             /\ ~agree => "refused" \in trouble'
             /\ UNCHANGED <<phase, step, result, sockets, up>>
<1> DEFINE h == todo[1]
           code == CodeOf(agree)
           tail == [s \in 1..Len(segments) |-> IF segments[s] THEN code ELSE 0]
<1>1. /\ todo \in Seq(Steps) /\ todo # <<>> /\ wire \in Seq(Nat) /\ up
      /\ trouble \subseteq {"network", "refused", "split"}
  BY DEF DialogueTypes, Reply
<1>2. h \in Steps /\ Head(todo) = h /\ 1 \in 1..Len(todo)
  BY <1>1
<1>3. code \in Nat
  BY <1>2, Wants DEF CodeOf
<1>4. wire' = Join(wire, tail) /\ todo' = Tail(todo)
  BY <1>2 DEF Reply, CodeOf, Join
<1>5. /\ todo' \in Seq(Steps) /\ Len(todo') = Len(todo) - 1
      /\ \A i \in 1..Len(todo') : i + 1 \in 1..Len(todo) /\ todo'[i] = todo[i + 1]
  BY <1>1, <1>4, HeadTailProperties
<1>6. /\ Len(segments) \in Nat /\ Len(segments) \in {1, 2}
      /\ segments = <<TRUE>> => Len(segments) = 1
      /\ segments # <<TRUE>> => Len(segments) = 2
      /\ segments[1] = TRUE
  <2>1. CASE segments = <<TRUE>>
    BY <2>1
  <2>2. CASE \E start \in BOOLEAN : segments = <<TRUE, start>>
    BY <2>2
  <2> QED
    BY <2>1, <2>2
<1>7. /\ agreed' = IF agree THEN agreed \cup {h} ELSE agreed
      /\ trouble' = trouble \cup (IF agree THEN {} ELSE {"refused"})
                            \cup (IF Len(segments) = 2 THEN {"split"} ELSE {})
      /\ UNCHANGED <<phase, step, result, sockets, up>>
  BY <1>2 DEF Reply
<1> HIDE DEF h, code
<1>8. /\ tail \in Seq(Nat) /\ Len(tail) = Len(segments)
      /\ \A i \in 1..Len(tail) : tail[i] \in {code, 0}
      /\ tail[1] = code
  BY <1>3, <1>6
<1> HIDE DEF tail
<1>9. wire' \in Seq(Nat)
  BY <1>1, <1>4, <1>8, JoinType
<1>10. ASSUME NEW i \in 1..Len(wire')
       PROVE  \/ i \in 1..Len(wire) /\ wire'[i] = wire[i]
              \/ i > Len(wire) /\ wire'[i] \in {code, 0}
  <2>1. \/ i \in 1..Len(wire) /\ wire'[i] = wire[i]
        \/ i > Len(wire) /\ \E j \in 1..Len(tail) : wire'[i] = tail[j]
    BY <1>1, <1>4, <1>8, JoinCases
  <2> QED
    BY <1>8, <2>1
<1>11. segments = <<TRUE>> => wire' = Append(wire, code)
  <2> SUFFICES ASSUME segments = <<TRUE>> PROVE wire' = Append(wire, code)
    OBVIOUS
  <2>1. tail = <<code>>
    BY <1>6, <1>8
  <2> QED
    BY <1>1, <1>3, <1>4, <2>1, AppendIsConcat DEF Join
<1>12. segments # <<TRUE>> => "split" \in trouble'
  BY <1>6, <1>7
<1> QED
  <2>1. trouble \subseteq trouble' /\ trouble' \subseteq {"network", "refused", "split"}
    BY <1>1, <1>7
  <2>2. ~agree => "refused" \in trouble'
    BY <1>7
  <2> QED
    BY <1>1, <1>2, <1>3, <1>5, <1>7, <1>9, <1>10, <1>11, <1>12, <2>1, <2>2 DEF h, code

\* A recv takes a part of what is on the wire, and looks at its first code.
LEMMA RecvEffect ==
    ASSUME DialogueTypes, checkResponse
    PROVE  \E n \in 1..Len(wire) :
             /\ wire' \in Seq(Nat) /\ Len(wire') = Len(wire) - n
             /\ \A i \in 1..Len(wire') : i + n \in 1..Len(wire) /\ wire'[i] = wire[i + n]
             /\ 1 \in 1..Len(wire) /\ Head(wire) = wire[1]
<1>1. wire \in Seq(Nat) /\ wire # <<>> /\ Len(wire) \in Nat
  BY DEF DialogueTypes, checkResponse
<1>2. PICK n \in 1..Len(wire) : wire' = SubSeq(wire, n + 1, Len(wire))
  BY DEF checkResponse
<1>3. n \in Int /\ n + 1 \in Int /\ Len(wire) \in Int /\ n >= 1 /\ n <= Len(wire)
  BY <1>1
<1>4. \A i \in (n + 1)..Len(wire) : wire[i] \in Nat
  BY <1>1, <1>3
<1> DEFINE a == n + 1
           b == Len(wire)
<1>a. a \in Int /\ b \in Int /\ \A i \in a..b : wire[i] \in Nat
  BY <1>3, <1>4
<1> HIDE DEF a, b
<1>5. /\ wire' \in Seq(Nat)
      /\ Len(wire') = IF a <= b THEN b - a + 1 ELSE 0
      /\ \A i \in 1..(b - a + 1) : wire'[i] = wire[a + i - 1]
  BY <1>2, <1>a, SubSeqProperties DEF a, b
<1>6. b - a + 1 = Len(wire) - n /\ (a <= b <=> Len(wire) - n > 0)
  BY <1>3 DEF a, b
<1>7. Len(wire') = Len(wire) - n
  BY <1>3, <1>5, <1>6
<1>8. \A i \in 1..Len(wire') : i \in 1..(b - a + 1) /\ i + n \in 1..Len(wire) /\ a + i - 1 = i + n
  BY <1>3, <1>6, <1>7 DEF a
<1>9. \A i \in 1..Len(wire') : i + n \in 1..Len(wire) /\ wire'[i] = wire[i + n]
  BY <1>5, <1>8
<1>10. 1 \in 1..Len(wire) /\ Head(wire) = wire[1] /\ wire' \in Seq(Nat)
  BY <1>1, <1>5
<1> QED
  BY <1>7, <1>9, <1>10, Zenon

\* A step of the service is a step of the dialogue, or none of its business.
SmtpStep == Client \/ Server \/ Failures \/ Returned

LEMMA DialogueSteps == [ServiceNext]_serviceVars => SmtpStep \/ UNCHANGED smtpVars
BY DEF ServiceNext, serviceVars, SmtpStep, Dialogue, SmtpServer, Trouble, MailDone,
       ServiceMain, ServiceHandler, ServiceSender, ServiceOther

LEMMA DialogueStart == SmtpInit => DialogueInv
<1> SUFFICES ASSUME SmtpInit PROVE DialogueInv
  OBVIOUS
<1>1. Len(todo) = 0 /\ Len(wire) = 0 /\ todo \in Seq(Steps) /\ wire \in Seq(Nat)
  BY DEF SmtpInit
<1>2. 1 \in Steps /\ 1 # Text
  BY StepNumbers, Shape, SmtpAssumption DEF Text
<1>3. DialogueTypes
  <2>1. sockets \in 0..MaxSockets
    BY SmtpAssumption DEF SmtpInit
  <2>2. /\ phase = "none" /\ step \in Steps /\ result \in BOOLEAN /\ up \in BOOLEAN /\ ~up
        /\ todo = <<>> /\ wire = <<>> /\ agreed = {} /\ trouble = {} /\ step = 1
    BY <1>2 DEF SmtpInit
  <2> QED
    BY <1>1, <2>1, <2>2 DEF DialogueTypes
<1>4. InOrderOnce /\ Behind
  BY <1>1 DEF SmtpInit, InOrderOnce, Behind, Talking
<1>5. InStep /\ Outcome /\ TrueMeansSent /\ NoTroubleDelivered
  BY DEF SmtpInit, InStep, Outcome, TrueMeansSent, NoTroubleDelivered, Talking
<1> QED
  BY <1>3, <1>4, <1>5 DEF DialogueInv

\* The server answers: the client has not moved.
LEMMA ReplyStep ==
    ASSUME DialogueInv, NEW agree \in BOOLEAN, NEW segments,
           segments = <<TRUE>> \/ \E start \in BOOLEAN : segments = <<TRUE, start>>,
           Reply(agree, segments)
    PROVE  DialogueInv'
<1> DEFINE h == todo[1]
           code == CodeOf(agree)
<1>1. DialogueTypes /\ InOrderOnce /\ Behind /\ InStep /\ Outcome /\ TrueMeansSent
  BY DEF DialogueInv
<1>2. /\ todo # <<>> /\ h \in Steps /\ code \in Nat /\ 1 \in 1..Len(todo) /\ up
      /\ todo' \in Seq(Steps) /\ Len(todo') = Len(todo) - 1
      /\ \A i \in 1..Len(todo') : i + 1 \in 1..Len(todo) /\ todo'[i] = todo[i + 1]
      /\ wire' \in Seq(Nat)
      /\ \A i \in 1..Len(wire') : \/ i \in 1..Len(wire) /\ wire'[i] = wire[i]
                                  \/ i > Len(wire) /\ wire'[i] \in {code, 0}
      /\ segments = <<TRUE>> => wire' = Append(wire, code)
      /\ segments # <<TRUE>> => "split" \in trouble'
      /\ agreed' = IF agree THEN agreed \cup {h} ELSE agreed
      /\ trouble \subseteq trouble' /\ trouble' \subseteq {"network", "refused", "split"}
      /\ ~agree => "refused" \in trouble'
      /\ UNCHANGED <<phase, step, result, sockets, up>>
  BY <1>1, ReplyEffect
<1>3. code = IF agree THEN sendMail[h].want ELSE 550
  BY DEF CodeOf
<1>4. code = 354 => agree /\ h = Data
  BY <1>2, <1>3, Shape
<1>5. code = 250 /\ Data \in agreed => agree /\ h = Text
  <2> SUFFICES ASSUME code = 250, Data \in agreed PROVE agree /\ h = Text
    OBVIOUS
  <2>1. Data < h
    BY <1>1, <1>2 DEF InOrderOnce
  <2> QED
    BY <1>2, <1>3, <2>1, StepNumbers
<1>a. Len(todo) \in Nat /\ Len(wire) \in Nat /\ Len(todo') \in Nat /\ Len(wire') \in Nat
  BY <1>1, <1>2 DEF DialogueTypes
<1>b. \A i \in 1..Len(todo) : todo[i] \in Nat /\ todo[i] \in Steps
  BY <1>1, StepNumbers DEF DialogueTypes
<1> HIDE DEF h, code
<1>6. phase # "none"
  BY <1>1, <1>2 DEF DialogueTypes
<1>7. DialogueTypes'
  BY <1>1, <1>2, <1>6 DEF DialogueTypes
<1>8. InOrderOnce'
  <2>1. \A i, j \in 1..Len(todo') : i < j => todo'[i] < todo'[j]
    <3> SUFFICES ASSUME NEW i \in 1..Len(todo'), NEW j \in 1..Len(todo'), i < j
                 PROVE  todo'[i] < todo'[j]
      OBVIOUS
    <3>1. /\ i + 1 \in 1..Len(todo) /\ todo'[i] = todo[i + 1]
          /\ j + 1 \in 1..Len(todo) /\ todo'[j] = todo[j + 1]
          /\ i + 1 < j + 1
      BY <1>2, <1>a
    <3> QED
      BY <1>1, <3>1 DEF InOrderOnce
  <2>2. \A i \in 1..Len(todo') : h < todo'[i]
    <3> SUFFICES ASSUME NEW i \in 1..Len(todo') PROVE h < todo'[i]
      OBVIOUS
    <3>1. i + 1 \in 1..Len(todo) /\ todo'[i] = todo[i + 1] /\ 1 < i + 1
      BY <1>2, <1>a
    <3> QED
      BY <1>1, <1>2, <3>1 DEF InOrderOnce, h
  <2>3. \A i \in 1..Len(todo'), j \in agreed' : j < todo'[i]
    BY <1>1, <1>2, <2>2 DEF InOrderOnce
  <2>4. Talking => h <= step /\ (phase = "send" => h < step)
    BY <1>1, <1>2 DEF InOrderOnce, h
  <2>5. Talking' => /\ \A i \in 1..Len(todo') : todo'[i] <= step'
                    /\ \A j \in agreed' : j <= step'
                    /\ phase' = "send" => step' \notin agreed' /\ \A i \in 1..Len(todo') : todo'[i] < step'
    <3> SUFFICES ASSUME Talking
                 PROVE  /\ \A i \in 1..Len(todo') : todo'[i] <= step
                        /\ \A j \in agreed' : j <= step
                        /\ phase = "send" => step \notin agreed' /\ \A i \in 1..Len(todo') : todo'[i] < step
      BY <1>2 DEF Talking
    <3>1. \A i \in 1..Len(todo') : todo'[i] <= step
      BY <1>1, <1>2 DEF InOrderOnce
    <3>2. \A j \in agreed' : j <= step
      BY <1>1, <1>2, <2>4 DEF InOrderOnce
    <3>3. ASSUME phase = "send" PROVE step \notin agreed' /\ \A i \in 1..Len(todo') : todo'[i] < step
      <4>1. step \notin agreed /\ h # step
        BY <1>1, <1>2, <2>4, <3>3, StepNumbers DEF InOrderOnce, DialogueTypes
      <4> QED
        BY <1>1, <1>2, <3>3, <4>1 DEF InOrderOnce
    <3> QED
      BY <3>1, <3>2, <3>3
  <2> QED
    BY <2>1, <2>3, <2>5 DEF InOrderOnce
<1>9. Behind'
  <2>1. Talking' <=> Talking
    BY <1>2 DEF Talking
  <2>2. ASSUME 250 \in {wire'[i] : i \in 1..Len(wire')}, Talking', step' = Text
        PROVE  Text \in agreed'
    <3>1. PICK i \in 1..Len(wire') : wire'[i] = 250
      BY <2>2
    <3>2. CASE i \in 1..Len(wire) /\ wire'[i] = wire[i]
      BY <1>1, <1>2, <2>1, <2>2, <3>1, <3>2 DEF Behind
    <3>3. CASE i > Len(wire) /\ wire'[i] \in {code, 0}
      <4>1. code = 250
        BY <3>1, <3>3
      <4>2. Data \in agreed
        BY <1>1, <1>2, <2>1, <2>2 DEF Behind
      <4> QED
        BY <1>2, <1>5, <4>1, <4>2
    <3> QED
      BY <1>2, <3>2, <3>3
  <2>3. ASSUME NEW i \in 1..Len(wire'), wire'[i] = 354 PROVE Data \in agreed'
    <3>1. CASE i \in 1..Len(wire) /\ wire'[i] = wire[i]
      BY <1>1, <1>2, <2>3, <3>1 DEF Behind
    <3>2. CASE i > Len(wire) /\ wire'[i] \in {code, 0}
      BY <1>2, <1>4, <2>3, <3>2
    <3> QED
      BY <1>2, <3>1, <3>2
  <2>4. ASSUME NEW i \in 1..Len(wire'), NEW j \in 1..Len(wire'), i < j,
               wire'[i] = 354, wire'[j] = 250
        PROVE  Text \in agreed'
    <3>1. CASE j \in 1..Len(wire) /\ wire'[j] = wire[j]
      <4>1. i \in 1..Len(wire) /\ wire'[i] = wire[i]
        <5>1. ~(i > Len(wire))
          BY <1>a, <2>4, <3>1
        <5> QED
          BY <1>2, <5>1
      <4> QED
        BY <1>1, <1>2, <2>4, <3>1, <4>1 DEF Behind
    <3>2. CASE j > Len(wire) /\ wire'[j] \in {code, 0}
      <4>1. code = 250
        BY <2>4, <3>2
      <4>2. i \in 1..Len(wire) /\ wire'[i] = wire[i]
        <5>1. wire'[i] \notin {code, 0}
          BY <2>4, <4>1
        <5> QED
          BY <1>2, <5>1
      <4>3. Data \in agreed
        BY <1>1, <2>4, <4>2 DEF Behind
      <4> QED
        BY <1>2, <1>5, <4>1, <4>3
    <3> QED
      BY <1>2, <3>1, <3>2
  <2>5. Talking' /\ step' = Text => Data \in agreed'
    BY <1>1, <1>2, <2>1 DEF Behind
  <2> QED
    BY <2>2, <2>3, <2>4, <2>5 DEF Behind
<1>10. InStep'
  <2> SUFFICES ASSUME "split" \notin trouble' PROVE InStep'
    BY DEF InStep
  <2>1. "split" \notin trouble /\ wire' = Append(wire, code)
    BY <1>2
  <2>2. Talking' => 1..(step' - 1) \subseteq agreed'
    BY <1>1, <1>2, <2>1 DEF InStep, Talking
  <2>3. phase # "send"
    BY <1>1, <1>2, <2>1 DEF InStep
  <2>4. ASSUME phase = "recv"
        PROVE  \/ todo' = <<>> /\ wire' = <<sendMail[step'].want>> /\ step' \in agreed'
               \/ todo' = <<>> /\ wire' = <<550>> /\ "refused" \in trouble'
    <3>1. todo = <<step>> /\ wire = <<>>
      BY <1>1, <1>2, <2>1, <2>4 DEF InStep
    <3>2. h = step /\ Len(todo) = 1
      BY <3>1 DEF h
    <3>3. todo' = <<>>
      BY <1>2, <3>2, EmptySeq
    <3>4. wire' = <<code>>
      BY <2>1, <3>1
    <3> QED
      BY <1>2, <1>3, <3>2, <3>3, <3>4
  <2> QED
    BY <1>2, <2>2, <2>3, <2>4 DEF InStep
<1>11. Outcome' /\ TrueMeansSent' /\ NoTroubleDelivered'
  <2>1. trouble' = {} => trouble = {}
    BY <1>2
  <2>2. Outcome'
    BY <1>1, <1>2, <2>1 DEF Outcome
  <2>3. TrueMeansSent'
    BY <1>1, <1>2 DEF TrueMeansSent
  <2>4. NoTroubleDelivered'
    BY <1>2 DEF NoTroubleDelivered, Reply
  <2> QED
    BY <2>2, <2>3, <2>4
<1> QED
  BY <1>7, <1>8, <1>9, <1>10, <1>11 DEF DialogueInv

\* The client takes what has arrived for the answer to its last command.
LEMMA RecvStep == ASSUME DialogueInv, checkResponse PROVE DialogueInv'
<1>1. DialogueTypes /\ InOrderOnce /\ Behind /\ InStep /\ Outcome /\ TrueMeansSent
  BY DEF DialogueInv
<1>2. PICK n \in 1..Len(wire) :
        /\ wire' \in Seq(Nat) /\ Len(wire') = Len(wire) - n
        /\ \A i \in 1..Len(wire') : i + n \in 1..Len(wire) /\ wire'[i] = wire[i + n]
        /\ 1 \in 1..Len(wire) /\ Head(wire) = wire[1]
  BY <1>1, RecvEffect
<1>3. /\ phase = "recv" /\ Talking
      /\ IF wire[1] = sendMail[step].want THEN Advance ELSE GiveUp
      /\ UNCHANGED <<sockets, up, todo, agreed, trouble>>
  BY <1>2 DEF checkResponse, Talking
<1>4. /\ step \in Steps /\ step \in Nat /\ n \in Nat /\ n >= 1
      /\ Len(wire) \in Nat /\ n <= Len(wire)
  BY <1>1, StepNumbers DEF DialogueTypes
<1>5. "split" \notin trouble =>
        /\ 1..(step - 1) \subseteq agreed
        /\ todo = <<>> /\ Len(wire) = 1
        /\ wire[1] = sendMail[step].want => step \in agreed
        /\ wire[1] # sendMail[step].want => "refused" \in trouble
  <2> SUFFICES ASSUME "split" \notin trouble
               PROVE  /\ 1..(step - 1) \subseteq agreed
                      /\ todo = <<>> /\ Len(wire) = 1
                      /\ wire[1] = sendMail[step].want => step \in agreed
                      /\ wire[1] # sendMail[step].want => "refused" \in trouble
    OBVIOUS
  <2>1. wire # <<>>
    BY DEF checkResponse
  <2>2. \/ todo = <<>> /\ wire = <<sendMail[step].want>> /\ step \in agreed
        \/ todo = <<>> /\ wire = <<550>> /\ "refused" \in trouble
    BY <1>1, <1>3, <2>1 DEF InStep
  <2>3. sendMail[step].want # 550
    BY <1>4, Wants
  <2>4. 1..(step - 1) \subseteq agreed
    BY <1>1, <1>3 DEF InStep
  <2> QED
    BY <2>2, <2>3, <2>4
<1>7. /\ \A i \in 1..Len(wire') : wire'[i] = 354 => Data \in agreed
      /\ \A i, j \in 1..Len(wire') : i < j /\ wire'[i] = 354 /\ wire'[j] = 250 => Text \in agreed
  <2>1. /\ \A i \in 1..Len(wire) : wire[i] = 354 => Data \in agreed
        /\ \A i, j \in 1..Len(wire) : i < j /\ wire[i] = 354 /\ wire[j] = 250 => Text \in agreed
    BY <1>1 DEF Behind
  <2>2. ASSUME NEW i \in 1..Len(wire'), wire'[i] = 354 PROVE Data \in agreed
    <3>1. i + n \in 1..Len(wire) /\ wire[i + n] = 354
      BY <1>2, <2>2
    <3> QED
      BY <2>1, <3>1
  <2>3. ASSUME NEW i \in 1..Len(wire'), NEW j \in 1..Len(wire'), i < j,
               wire'[i] = 354, wire'[j] = 250
        PROVE  Text \in agreed
    <3>1. /\ i + n \in 1..Len(wire) /\ wire[i + n] = 354
          /\ j + n \in 1..Len(wire) /\ wire[j + n] = 250
      BY <1>2, <2>3
    <3>2. i + n < j + n
      BY <1>2, <1>4, <2>3
    <3> QED
      BY <2>1, <3>1, <3>2
  <2> QED
    BY <2>2, <2>3
<1>6. CASE wire[1] = sendMail[step].want /\ step # Text
  <2>1. phase' = "send" /\ step' = step + 1 /\ step' \in Steps /\ result' = result
    BY <1>3, <1>4, <1>6, StepNumbers DEF Advance
  <2>2. DialogueTypes'
    BY <1>1, <1>2, <1>3, <2>1 DEF DialogueTypes
  <2>3. InOrderOnce'
    <3>1. /\ \A i \in 1..Len(todo) : todo[i] < step + 1
          /\ \A j \in agreed : j < step + 1
      <4>1. /\ \A i \in 1..Len(todo) : todo[i] <= step /\ todo[i] \in Nat
            /\ \A j \in agreed : j <= step /\ j \in Nat
        BY <1>1, <1>3, StepNumbers DEF InOrderOnce, DialogueTypes
      <4> QED
        BY <1>4, <4>1
    <3>2. /\ \A i \in 1..Len(todo) : todo[i] <= step + 1
          /\ \A j \in agreed : j <= step + 1
          /\ step + 1 \notin agreed
      BY <1>1, <1>4, <3>1, StepNumbers DEF DialogueTypes
    <3> QED
      BY <1>1, <1>3, <2>1, <3>1, <3>2 DEF InOrderOnce
  <2>4. Behind'
    <3>1. ASSUME step' = Text
          PROVE  Data \in agreed /\ wire[1] = 354
      <4>1. step = Data
        BY <1>4, <2>1, <3>1, StepNumbers
      <4> QED
        BY <1>1, <1>2, <1>6, <4>1, Shape, StepNumbers DEF Behind
    <3>2. ASSUME NEW i \in 1..Len(wire'), wire'[i] = 250, step' = Text PROVE Text \in agreed
      <4>1. i + n \in 1..Len(wire) /\ wire[i + n] = 250 /\ 1 < i + n
        BY <1>2, <1>4, <3>2
      <4> QED
        BY <1>1, <1>2, <3>1, <3>2, <4>1 DEF Behind
    <3>3. \A i \in 1..Len(wire') : wire'[i] = 354 => Data \in agreed
      BY <1>7
    <3>4. \A i, j \in 1..Len(wire') : i < j /\ wire'[i] = 354 /\ wire'[j] = 250 => Text \in agreed
      BY <1>7
    <3> QED
      BY <1>3, <3>1, <3>2, <3>3, <3>4 DEF Behind
  <2>5. InStep'
    <3> SUFFICES ASSUME "split" \notin trouble PROVE InStep'
      BY <1>3 DEF InStep
    <3>1. step \in agreed /\ 1..(step - 1) \subseteq agreed /\ todo' = <<>>
      BY <1>3, <1>5, <1>6
    <3>2. 1..(step' - 1) \subseteq agreed'
      BY <1>3, <1>4, <2>1, <3>1
    <3>3. Len(wire') = 0
      <4>1. Len(wire) = 1
        BY <1>5
      <4>2. n = 1
        BY <1>4, <4>1
      <4>3. Len(wire') = Len(wire) - n
        BY <1>2
      <4> QED
        BY <4>1, <4>2, <4>3
    <3>4. wire' = <<>>
      BY <1>2, <3>3, EmptySeq
    <3> QED
      BY <2>1, <3>1, <3>2, <3>4 DEF InStep
  <2>6. Outcome' /\ TrueMeansSent' /\ NoTroubleDelivered'
    BY <1>1, <1>3, <2>1 DEF Outcome, TrueMeansSent, NoTroubleDelivered
  <2> QED
    BY <2>2, <2>3, <2>4, <2>5, <2>6 DEF DialogueInv
<1>8. CASE wire[1] # sendMail[step].want \/ step = Text
  <2>1. phase' = "quit" /\ step' = step /\ result' \in BOOLEAN
    BY <1>1, <1>3, <1>8 DEF Advance, GiveUp, DialogueTypes
  <2>2. DialogueTypes'
    BY <1>1, <1>2, <1>3, <2>1 DEF DialogueTypes
  <2>3. InOrderOnce'
    BY <1>1, <1>3, <2>1 DEF InOrderOnce, Talking
  <2>4. Behind'
    BY <1>3, <1>7, <2>1 DEF Behind, Talking
  <2>5. InStep'
    BY <2>1 DEF InStep, Talking
  <2>6. Outcome'
    <3>1. trouble = {} => result'
      BY <1>1, <1>3, <1>5, <1>8 DEF Advance
    <3> QED
      BY <1>3, <2>1, <3>1 DEF Outcome
  <2>7. TrueMeansSent'
    <3>1. CASE wire[1] # sendMail[step].want
      BY <1>1, <1>3, <3>1 DEF GiveUp, TrueMeansSent
    <3>2. CASE wire[1] = sendMail[step].want
      <4>1. step = Text /\ wire[1] = 250
        BY <1>8, <3>2, Shape
      <4>2. Text \in agreed
        BY <1>1, <1>2, <1>3, <4>1 DEF Behind
      <4>3. "split" \notin trouble => Rcpts \subseteq agreed
        BY <1>5, <4>1, StepNumbers
      <4> QED
        BY <1>3, <4>2, <4>3 DEF TrueMeansSent
    <3> QED
      BY <3>1, <3>2
  <2>8. NoTroubleDelivered'
    BY <2>1 DEF NoTroubleDelivered
  <2> QED
    BY <2>2, <2>3, <2>4, <2>5, <2>6, <2>7, <2>8 DEF DialogueInv
<1> QED
  BY <1>6, <1>8

\* The client's other steps, and what goes wrong besides refusals.
LEMMA DialogueStep == DialogueInv /\ SmtpStep => DialogueInv'
<1> SUFFICES ASSUME DialogueInv, SmtpStep PROVE DialogueInv'
  OBVIOUS
<1> USE DEF server
<1>1. DialogueTypes /\ InOrderOnce /\ Behind /\ InStep /\ Outcome
      /\ TrueMeansSent /\ NoTroubleDelivered
  BY DEF DialogueInv
<1>2. /\ step \in Nat /\ sockets \in Nat /\ MaxSockets \in Nat /\ Len(todo) \in Nat
      /\ 1 \in Steps /\ 1 # Text
  BY <1>1, StepNumbers, Shape, SmtpAssumption DEF DialogueTypes, Text
<1>3. CASE Begin
  <2>1. /\ phase' = "recv" /\ step' = 1 /\ todo' = <<1>> /\ wire' = <<>> /\ agreed' = {}
        /\ up' /\ ~result' /\ trouble' = {}
    BY <1>1, <1>3 DEF Begin, DialogueTypes, Outcome
  <2>2. sockets' \in 0..MaxSockets /\ sockets' > 0
    BY <1>2, <1>3 DEF Begin
  <2>3. /\ todo' \in Seq(Steps) /\ Len(todo') = 1 /\ todo'[1] = 1
        /\ wire' \in Seq(Nat) /\ Len(wire') = 0
    BY <1>2, <2>1
  <2>4. DialogueTypes'
    <3>1. up' \in BOOLEAN /\ result' \in BOOLEAN
      BY <1>1, <1>3 DEF Begin, DialogueTypes
    <3> QED
      BY <1>2, <2>1, <2>2, <2>3, <3>1 DEF DialogueTypes
  <2>5. InOrderOnce'
    BY <2>1, <2>3 DEF InOrderOnce
  <2>6. Behind'
    BY <1>2, <2>1, <2>3 DEF Behind
  <2>7. InStep'
    BY <2>1 DEF InStep
  <2>8. Outcome' /\ TrueMeansSent' /\ NoTroubleDelivered'
    BY <2>1 DEF Outcome, TrueMeansSent, NoTroubleDelivered
  <2> QED
    BY <2>4, <2>5, <2>6, <2>7, <2>8 DEF DialogueInv
<1>4. CASE BeginFails
  <2>1. /\ phase = "none" /\ phase' = "done" /\ ~result'
        /\ sockets' = sockets /\ UNCHANGED <<step, up, todo, wire, agreed, result>>
        /\ trouble' \in {{"network"}, {}} /\ (sockets < MaxSockets => trouble' = {"network"})
    BY <1>1, <1>4 DEF BeginFails, Outcome
  <2>2. DialogueTypes'
    BY <1>1, <2>1 DEF DialogueTypes
  <2>3. InOrderOnce'
    BY <1>1, <2>1 DEF InOrderOnce, Talking
  <2>4. Behind'
    BY <1>1, <2>1 DEF Behind, Talking
  <2>5. InStep' /\ Outcome' /\ TrueMeansSent'
    BY <2>1 DEF InStep, Outcome, TrueMeansSent, Talking
  <2>6. NoTroubleDelivered'
    <3>1. sockets \in 0..MaxSockets
      BY <1>1 DEF DialogueTypes
    <3>2. sockets < MaxSockets \/ sockets = MaxSockets
      BY <1>2, <3>1
    <3> QED
      BY <2>1, <3>2 DEF NoTroubleDelivered
  <2> QED
    BY <2>2, <2>3, <2>4, <2>5, <2>6 DEF DialogueInv
<1>5. CASE SendCommand
  <2>1. /\ phase = "send" /\ phase' = "recv" /\ Talking /\ Talking'
        /\ todo' = (IF up THEN Append(todo, step) ELSE todo)
        /\ UNCHANGED <<step, result, sockets, up, wire, agreed, trouble>>
    BY <1>5 DEF SendCommand, Talking
  <2>2. todo' \in Seq(Steps) /\ todo \in Seq(Steps) /\ step \in Steps
    BY <1>1, <2>1, AppendProperties DEF DialogueTypes
  <2>3. DialogueTypes'
    BY <1>1, <2>1, <2>2 DEF DialogueTypes
  <2>4. InOrderOnce'
    <3>1. CASE ~up
      BY <1>1, <2>1, <3>1 DEF InOrderOnce
    <3>2. CASE up
      <4>1. /\ Len(todo') = Len(todo) + 1 /\ todo'[Len(todo) + 1] = step
            /\ \A i \in 1..Len(todo) : todo'[i] = todo[i]
        BY <2>1, <2>2, <3>2, AppendProperties
      <4>2. /\ \A i \in 1..Len(todo) : todo[i] < step
            /\ \A j \in agreed : j < step
        <5>1. \A j \in agreed : j <= step /\ j \in Nat /\ j # step
          BY <1>1, <2>1, StepNumbers DEF InOrderOnce, DialogueTypes
        <5>2. \A i \in 1..Len(todo) : todo[i] < step
          BY <1>1, <2>1 DEF InOrderOnce
        <5> QED
          BY <1>2, <5>1, <5>2
      <4>3. \A i \in 1..Len(todo') : i \in 1..Len(todo) \/ i = Len(todo) + 1
        BY <1>2, <4>1
      <4>4. \A i \in 1..Len(todo') : todo'[i] <= step'
        <5>1. step <= step /\ \A i \in 1..Len(todo) : todo[i] <= step
          BY <1>1, <1>2, <2>1 DEF InOrderOnce
        <5> QED
          BY <2>1, <4>1, <4>3, <5>1
      <4>5. \A i, j \in 1..Len(todo') : i < j => todo'[i] < todo'[j]
        <5> SUFFICES ASSUME NEW i \in 1..Len(todo'), NEW j \in 1..Len(todo'), i < j
                     PROVE  todo'[i] < todo'[j]
          OBVIOUS
        <5>1. i \in 1..Len(todo)
          BY <1>2, <4>1
        <5>2. CASE j \in 1..Len(todo)
          BY <1>1, <4>1, <5>1, <5>2 DEF InOrderOnce
        <5>3. CASE j = Len(todo) + 1
          BY <4>1, <4>2, <5>1, <5>3
        <5> QED
          BY <4>3, <5>2, <5>3
      <4>6. \A i \in 1..Len(todo'), j \in agreed' : j < todo'[i]
        BY <1>1, <2>1, <4>1, <4>2, <4>3 DEF InOrderOnce
      <4>7. \A j \in agreed' : j <= step'
        BY <1>1, <2>1 DEF InOrderOnce
      <4> QED
        BY <2>1, <4>4, <4>5, <4>6, <4>7 DEF InOrderOnce
    <3> QED
      BY <3>1, <3>2
  <2>5. Behind'
    BY <1>1, <2>1 DEF Behind
  <2>6. InStep'
    <3> SUFFICES ASSUME "split" \notin trouble PROVE InStep'
      BY <2>1 DEF InStep
    <3>1. todo = <<>> /\ wire = <<>> /\ 1..(step - 1) \subseteq agreed
      BY <1>1, <2>1 DEF InStep
    <3>2. up => todo' = <<step>>
      BY <2>1, <3>1
    <3> QED
      BY <2>1, <3>1, <3>2 DEF InStep
  <2>7. Outcome' /\ TrueMeansSent' /\ NoTroubleDelivered'
    BY <1>1, <2>1 DEF Outcome, TrueMeansSent, NoTroubleDelivered
  <2> QED
    BY <2>3, <2>4, <2>5, <2>6, <2>7 DEF DialogueInv
<1>6. CASE SendFails \/ RecvFails
  <2>1. /\ phase \in {"send", "recv"} /\ phase' = "quit" /\ ~result'
        /\ UNCHANGED <<step, sockets, up, todo, wire, agreed, result>>
        /\ trouble' \subseteq trouble \cup {"network"} /\ trouble' # {}
    BY <1>1, <1>6 DEF SendFails, RecvFails, GiveUp, Outcome
  <2>2. DialogueTypes'
    BY <1>1, <2>1 DEF DialogueTypes
  <2>3. InOrderOnce'
    BY <1>1, <2>1 DEF InOrderOnce, Talking
  <2>4. Behind'
    BY <1>1, <2>1 DEF Behind, Talking
  <2>5. InStep' /\ Outcome' /\ TrueMeansSent' /\ NoTroubleDelivered'
    BY <2>1 DEF InStep, Outcome, TrueMeansSent, NoTroubleDelivered, Talking
  <2> QED
    BY <2>2, <2>3, <2>4, <2>5 DEF DialogueInv
<1>7. CASE Quit \/ QuitFails \/ Bye
  <2>1. /\ phase \in {"quit", "bye"} /\ phase' \in {"bye", "done"}
        /\ UNCHANGED <<step, up, todo, wire, agreed, result>>
        /\ trouble' = trouble \/ trouble' = trouble \cup {"network"}
        /\ sockets' = sockets \/ (sockets' = sockets - 1 /\ phase' = "done")
    BY <1>7 DEF Quit, QuitFails, Bye
  <2>2. sockets' \in 0..MaxSockets /\ (phase' = "bye" => sockets' > 0)
    BY <1>1, <1>2, <2>1 DEF DialogueTypes
  <2>3. DialogueTypes'
    BY <1>1, <2>1, <2>2 DEF DialogueTypes
  <2>4. InOrderOnce'
    BY <1>1, <2>1 DEF InOrderOnce, Talking
  <2>5. Behind'
    BY <1>1, <2>1 DEF Behind, Talking
  <2>6. InStep' /\ TrueMeansSent'
    BY <1>1, <2>1 DEF InStep, TrueMeansSent, Talking
  <2>7. Outcome' /\ NoTroubleDelivered'
    <3>1. trouble' = {} => result'
      BY <1>1, <2>1 DEF Outcome
    <3> QED
      BY <2>1, <3>1 DEF Outcome, NoTroubleDelivered
  <2> QED
    BY <2>3, <2>4, <2>5, <2>6, <2>7 DEF DialogueInv
<1>8. CASE Returned
  <2>1. /\ phase' = "none" /\ step' = 1 /\ ~result' /\ result' = FALSE /\ sockets' = sockets
        /\ up' = FALSE /\ todo' = <<>> /\ wire' = <<>> /\ agreed' = {} /\ trouble' = {}
        /\ Len(todo') = 0 /\ Len(wire') = 0 /\ todo' \in Seq(Steps) /\ wire' \in Seq(Nat)
    BY <1>8 DEF Returned
  <2>2. DialogueTypes'
    BY <1>1, <1>2, <2>1 DEF DialogueTypes
  <2>3. InOrderOnce' /\ Behind'
    BY <2>1 DEF InOrderOnce, Behind, Talking
  <2>4. InStep' /\ Outcome' /\ TrueMeansSent' /\ NoTroubleDelivered'
    BY <2>1 DEF InStep, Outcome, TrueMeansSent, NoTroubleDelivered, Talking
  <2> QED
    BY <2>2, <2>3, <2>4 DEF DialogueInv
<1>9. CASE HangUp
  <2>1. /\ phase \notin {"none", "done"} /\ up' = FALSE /\ todo' = <<>> /\ Len(todo') = 0
        /\ todo' \in Seq(Steps) /\ trouble' = trouble \cup {"network"}
        /\ UNCHANGED <<phase, step, result, sockets, wire, agreed>>
    BY <1>9 DEF HangUp
  <2>2. DialogueTypes'
    BY <1>1, <2>1 DEF DialogueTypes
  <2>3. InOrderOnce'
    BY <1>1, <2>1 DEF InOrderOnce, Talking
  <2>4. Behind'
    BY <1>1, <2>1 DEF Behind, Talking
  <2>5. InStep'
    BY <1>1, <2>1 DEF InStep, Talking
  <2>6. Outcome' /\ TrueMeansSent' /\ NoTroubleDelivered'
    BY <1>1, <2>1 DEF Outcome, TrueMeansSent, NoTroubleDelivered
  <2> QED
    BY <2>2, <2>3, <2>4, <2>5, <2>6 DEF DialogueInv
<1>10. CASE checkResponse
  BY <1>10, RecvStep
<1>11. CASE Server
  <2>1. PICK agree \in BOOLEAN : Reply(agree, <<TRUE>>)
    BY <1>11 DEF Server
  <2> QED
    BY <2>1, ReplyStep
<1>12. CASE \E agree \in BOOLEAN, start \in BOOLEAN : SplitReply(agree, <<TRUE, start>>)
  <2>1. PICK agree \in BOOLEAN, start \in BOOLEAN : SplitReply(agree, <<TRUE, start>>)
    BY <1>12
  <2>2. Reply(agree, <<TRUE, start>>)
    BY <2>1 DEF SplitReply
  <2> QED
    BY <2>2, ReplyStep
<1> QED
  BY <1>3, <1>4, <1>5, <1>6, <1>7, <1>8, <1>9, <1>10, <1>11, <1>12
     DEF SmtpStep, Client, Failures

\* Steps outside the dialogue do not disturb it.
LEMMA DialogueStutter == DialogueInv /\ UNCHANGED smtpVars => DialogueInv'
BY DEF smtpVars, DialogueInv, DialogueTypes, InOrderOnce, Behind, InStep, Outcome, Talking,
       TrueMeansSent, NoTroubleDelivered

\* The inductive invariant of the dialogue: commands are answered in order and
\* once, client and server are at the same step as long as no reply is split,
\* and even then the answer to DATA is not mistaken for another.
THEOREM DialogueInductive == ServiceSpec => []DialogueInv
<1>1. ServiceInit => DialogueInv
  BY DialogueStart DEF ServiceInit
<1>2. DialogueInv /\ [ServiceNext]_serviceVars => DialogueInv'
  BY DialogueSteps, DialogueStep, DialogueStutter
<1> QED
  BY <1>1, <1>2, PTL DEF ServiceSpec

\* sendMail() returns true only for a mail whose text the server has accepted,
\* and, unless a reply was split, every one of its recipients.
THEOREM TrueIsSent == ServiceSpec => []TrueMeansSent
<1>1. DialogueInv => TrueMeansSent
  BY DEF DialogueInv
<1> QED
  BY <1>1, DialogueInductive, PTL

\* Without trouble from network or server sendMail() delivers the mail as long
\* as the process has a descriptor left.
THEOREM DeliveredWithoutTrouble == ServiceSpec => []NoTroubleDelivered
<1>1. DialogueInv => NoTroubleDelivered
  BY DEF DialogueInv
<1> QED
  BY <1>1, DialogueInductive, PTL
==============================================================================
