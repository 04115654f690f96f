----------------------------- MODULE SmtpSocket -----------------------------
(***************************************************************************)
(* network/api/smtp-socket/SmtpSocket: one sendMail() at a time, a dialogue*)
(* of commands each of which waits for a reply with one code, and the      *)
(* server it talks to.  A recv takes whatever has arrived and looks at its *)
(* first three bytes, so replies are told apart only by their timing.      *)
(* SO_RCVTIMEO is set from a long, which Linux refuses: recv has no limit. *)
(***************************************************************************)
EXTENDS Naturals, Sequences

CONSTANTS Recipients,   \* how many addresses a mail goes to
          MaxSockets    \* size of the descriptor table

ASSUME SmtpAssumption == Recipients \in Nat /\ MaxSockets \in Nat

VARIABLES phase,    \* "none", "send", "recv", "quit", "bye" or "done"
          step,     \* position in the dialogue
          result,   \* what sendMail returns
          sockets,  \* descriptors the process has open
          up,       \* the server has not hung up
          todo,     \* steps the server has not answered
          wire,     \* segments of replies on their way to the client
          agreed,   \* steps the server has accepted
          trouble   \* what has gone wrong with this mail

smtpVars == <<phase, step, result, sockets, up, todo, wire, agreed, trouble>>
server == <<up, todo, wire, agreed>>

connect == <<[cmd |-> "greeting", want |-> 220], [cmd |-> "HELO", want |-> 250]>>
logon == <<[cmd |-> "AUTH", want |-> 334], [cmd |-> "user", want |-> 334],
           [cmd |-> "password", want |-> 235]>>
setMailFrom == <<[cmd |-> "MAIL", want |-> 250]>>
setMailTo == [i \in 1..Recipients |-> [cmd |-> "RCPT", want |-> 250]]
\* Mutant: the text follows DATA without waiting for the 354.
sendAtOnce == <<[cmd |-> "text", want |-> 250]>>
send == <<[cmd |-> "DATA", want |-> 354], [cmd |-> "text", want |-> 250]>>
sendMail == connect \o logon \o setMailFrom \o setMailTo \o send

Steps == 1..Len(sendMail)
Rcpts == {i \in Steps : sendMail[i].cmd = "RCPT"}
Text == Len(sendMail)

SmtpInit ==
    /\ phase = "none" /\ step = 1 /\ result = FALSE /\ sockets = 0
    /\ up = FALSE /\ todo = <<>> /\ wire = <<>> /\ agreed = {} /\ trouble = {}

-----------------------------------------------------------------------------
\* The server greets on its own.
Begin ==
    /\ phase = "none" /\ sockets < MaxSockets
    /\ phase' = "recv" /\ step' = 1 /\ sockets' = sockets + 1
    /\ up' = TRUE /\ todo' = <<1>>
    /\ UNCHANGED <<result, wire, agreed, trouble>>

\* The name is not resolved or the connection not made: QUIT cannot be sent
\* either, and the socket is closed.  With a full table there is none.
BeginFails ==
    /\ phase = "none"
    /\ phase' = "done"
    /\ trouble' = IF sockets < MaxSockets THEN {"network"} ELSE {}
    /\ UNCHANGED <<step, result, sockets, server>>

GiveUp == phase' = "quit" /\ UNCHANGED <<step, result>>

Advance ==
    IF step = Text
    THEN phase' = "quit" /\ result' = TRUE /\ UNCHANGED step
    ELSE phase' = "send" /\ step' = step + 1 /\ UNCHANGED result

\* What is sent to a server that has hung up is lost.
SendCommand ==
    /\ phase = "send"
    /\ phase' = "recv"
    /\ todo' = IF up THEN Append(todo, step) ELSE todo
    /\ UNCHANGED <<step, result, sockets, up, wire, agreed, trouble>>

SendFails ==
    /\ phase = "send"
    /\ GiveUp
    /\ trouble' = trouble \cup {"network"}
    /\ UNCHANGED <<sockets, server>>

\* One recv takes a part of what is under way.
checkResponse ==
    /\ phase = "recv" /\ wire # <<>>
    /\ \E n \in 1..Len(wire) : wire' = SubSeq(wire, n + 1, Len(wire))
    /\ IF Head(wire) = sendMail[step].want THEN Advance ELSE GiveUp
    /\ UNCHANGED <<sockets, up, todo, agreed, trouble>>

\* Mutant: a recv that has to wait is an error.
RecvImpatient ==
    /\ phase = "recv" /\ wire = <<>>
    /\ GiveUp
    /\ UNCHANGED <<sockets, server, trouble>>

RecvFails ==
    /\ phase = "recv" /\ wire = <<>> /\ ~up
    /\ GiveUp
    /\ UNCHANGED <<sockets, server, trouble>>

\* The destructor: after QUIT the answer is awaited and the socket stays open;
\* it is closed only when QUIT cannot be sent.
Quit ==
    /\ phase = "quit"
    /\ phase' = "bye"
    /\ UNCHANGED <<step, result, sockets, server, trouble>>

QuitFails ==
    /\ phase = "quit"
    /\ phase' = "done" /\ sockets' = sockets - 1
    /\ trouble' = trouble \cup {"network"}
    /\ UNCHANGED <<step, result, server>>

\* Whatever comes is taken for the answer; with nothing else to answer the
\* server answers QUIT.
Bye ==
    /\ phase = "bye" /\ (wire # <<>> \/ todo = <<>>)
    /\ phase' = "done"
    /\ UNCHANGED <<step, result, sockets, server, trouble>>

\* sendMail returns; the next mail has a connection of its own.
Returned ==
    /\ phase = "done"
    /\ phase' = "none" /\ step' = 1 /\ result' = FALSE
    /\ up' = FALSE /\ todo' = <<>> /\ wire' = <<>> /\ agreed' = {} /\ trouble' = {}
    /\ UNCHANGED sockets

-----------------------------------------------------------------------------
(* The server.                                                             *)

\* A command is in order when what it builds on has been accepted.
InOrder(i) ==
    CASE sendMail[i].cmd \in {"greeting", "HELO"} -> TRUE
      [] sendMail[i].cmd = "RCPT" -> \A j \in 1..i - 1 : j \in agreed \cup Rcpts
      [] sendMail[i].cmd = "DATA" -> (\A j \in 1..i - 1 : j \in agreed \cup Rcpts) /\ agreed \cap Rcpts # {}
      [] OTHER -> i - 1 \in agreed

\* 550 stands for every refusal.  A long reply may come in two segments: the
\* second begins a line, with the code again, or not (0).
Reply(agree, segments) ==
    /\ phase # "done" /\ up /\ todo # <<>>
    /\ agree => InOrder(Head(todo))
    /\ LET code == IF agree THEN sendMail[Head(todo)].want ELSE 550
       IN wire' = wire \o [s \in 1..Len(segments) |-> IF segments[s] THEN code ELSE 0]
    /\ todo' = Tail(todo)
    /\ agreed' = IF agree THEN agreed \cup {Head(todo)} ELSE agreed
    /\ trouble' = trouble \cup (IF agree THEN {} ELSE {"refused"})
                          \cup (IF Len(segments) = 2 THEN {"split"} ELSE {})
    /\ UNCHANGED <<phase, step, result, sockets, up>>

SplitReply(agree, segments) == "split" \notin trouble /\ Reply(agree, segments)

HangUp ==
    /\ phase \notin {"none", "done"} /\ up
    /\ up' = FALSE /\ todo' = <<>>
    /\ trouble' = trouble \cup {"network"}
    /\ UNCHANGED <<phase, step, result, sockets, wire, agreed>>

Client ==
    Begin \/ (sockets = MaxSockets /\ BeginFails) \/ SendCommand \/ checkResponse \/ RecvFails
          \/ Quit \/ Bye
Server == \E agree \in BOOLEAN : Reply(agree, <<TRUE>>)
Failures ==
    \/ BeginFails \/ SendFails \/ QuitFails \/ HangUp
    \/ \E agree \in BOOLEAN, start \in BOOLEAN : SplitReply(agree, <<TRUE, start>>)

-----------------------------------------------------------------------------
\* sendMail returns true only for a mail whose text the server has accepted,
\* however replies are split and merged on the way: the 354 in between is what
\* brings the two ends together again.  As long as replies come in one piece
\* every recipient was accepted as well; a reply in two pieces can pass for the
\* answer to the next recipient.
TrueMeansSent ==
    result => Text \in agreed /\ ("split" \notin trouble => Rcpts \subseteq agreed)

\* If neither network nor server makes trouble, the mail is delivered as long as
\* the process has a descriptor left: quit() keeps the one of every mail sent.
NoTroubleDelivered == phase = "done" /\ trouble = {} => result \/ sockets = MaxSockets
=============================================================================
