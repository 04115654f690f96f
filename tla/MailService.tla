----------------------------- MODULE MailService ----------------------------
(***************************************************************************)
(* MailMonitor with the dialogues of SmtpSocket in the place of its single *)
(* SendMail step: the sender, or main for the first mail, is inside        *)
(* sendMail() while the rest of the program goes on.                       *)
(***************************************************************************)
EXTENDS MailMonitor, SmtpSocket

serviceVars == <<vars, smtpVars>>

ServiceInit == Init /\ SmtpInit

\* The thread inside sendMail() can run.
Calling == (MainRuns /\ mpc = "init") \/ (outcome = "alive" /\ tpc = "send")

Dialogue == Calling /\ Client /\ UNCHANGED vars
SmtpServer == outcome = "alive" /\ Server /\ UNCHANGED vars
Trouble == outcome = "alive" /\ (phase \in {"none", "send", "quit"} => Calling) /\ Failures /\ UNCHANGED vars
MailDone == (InitMonitorMailInfo \/ SendMail) /\ Returned

ServiceMain ==
    (Run \/ AlertLock \/ AlertPush \/ AlertNotify \/ Wait \/ Return) /\ UNCHANGED smtpVars
ServiceHandler == Handler /\ UNCHANGED smtpVars
ServiceSender == (Lock \/ Take \/ TestExit \/ Sleep) /\ UNCHANGED smtpVars
ServiceOther == (Signal \/ ExitVisible \/ SpuriousWakeup) /\ UNCHANGED smtpVars

ServiceNext ==
    \/ Dialogue \/ SmtpServer \/ Trouble \/ MailDone
    \/ ServiceMain \/ ServiceHandler \/ ServiceSender \/ ServiceOther

\* As in MailMonitor; the SMTP server answers or hangs up, there being no time
\* limit that would help when it does neither.
ServiceSpec ==
    /\ ServiceInit /\ [][ServiceNext]_serviceVars
    /\ WF_serviceVars(ServiceMain) /\ WF_serviceVars(ServiceHandler)
    /\ WF_serviceVars(ExitVisible /\ UNCHANGED smtpVars) /\ WF_serviceVars(ServiceSender)
    /\ WF_serviceVars(Dialogue \/ MailDone) /\ WF_serviceVars(SmtpServer)
=============================================================================
