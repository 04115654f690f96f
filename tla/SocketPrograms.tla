--------------------------- MODULE SocketPrograms ---------------------------
(***************************************************************************)
(* The straight-line socket programs of network/api/cpp-tcp, tcp/helloworld*)
(* and network/api/dns.  A program is a table of system calls: each entry  *)
(* says where the program goes on for every outcome of its call (label 0   *)
(* is the exit, a result without an entry of its own is treated as "err"). *)
(* One server runs beside a client and a telnet that types nothing; the    *)
(* kernel keeps connections and buffers.  The event loops' programs end in *)
(* "serve": what follows is EventServers.                                  *)
(***************************************************************************)
EXTENDS Integers, Sequences, TLC

Entry(call, go) == [call |-> call, go |-> go]
Try(call, ok, err) == Entry(call, [ok |-> ok, err |-> err])
Then(call, next) == Try(call, next, next)
Close == Then("close", 0)

\* A socket and calls that must succeed.  The first form closes the socket when
\* one fails (label Len + 2, the program goes on at Len + 3), the second just
\* exits (the program goes on at Len + 2).
Tidy(calls) ==
    LET n == Len(calls)
    IN <<Try("socket", 2, 0)>>
       \o [i \in 1..n |-> Try(calls[i], IF i = n THEN n + 3 ELSE i + 2, n + 2)]
       \o <<Close>>
Untidy(calls) ==
    <<Try("socket", 2, 0)>> \o [i \in 1..Len(calls) |-> Try(calls[i], i + 2, 0)]

-----------------------------------------------------------------------------
(* The clients.                                                            *)

client == Untidy(<<"connect">>) \o
    <<Try("send", 4, 0), Then("recv", 5), Close>>
\* Mutant: the loop returns instead of breaking to the close.
BlockingClientReturns == Tidy(<<"connect">>) \o <<Try("send", 4, 0)>>
blocking_client == Tidy(<<"connect">>) \o <<Try("send", 4, 3)>>
blocking_client_recv == Tidy(<<"connect">>) \o <<Then("recv", 3)>>
nonblocking_client == Tidy(<<"connect", "nonblock">>) \o
    <<Entry("send", [ok |-> 5, part |-> 5, again |-> 5, intr |-> 5, zero |-> 6, err |-> 4]),
      Then("close", 4)>>
\* Mutant: the end of file is taken for "nothing yet".
RecvTriesForever == Tidy(<<"connect", "nonblock">>) \o
    <<Entry("recv", [ok |-> 5, eof |-> 5, again |-> 5, intr |-> 5, err |-> 4])>>
nonblocking_client_recv == Tidy(<<"connect", "nonblock">>) \o
    <<Entry("recv", [ok |-> 5, again |-> 5, intr |-> 5, err |-> 4])>>
nonblocking_client_send_zero_bytes == Tidy(<<"connect", "nonblock">>) \o
    <<Entry("send0", [zero |-> 6, intr |-> 5, err |-> 4]), Then("sleep", 5)>>
select_client_tv0 == Tidy(<<"connect">>) \o
    <<Entry("poll_read", [ok |-> 5, timeout |-> 4, intr |-> 4, err |-> 3]),
      Entry("recv", [ok |-> 4, intr |-> 4, err |-> 3])>>
select_client_tvnull == Tidy(<<"connect">>) \o
    <<Entry("wait_read", [ok |-> 5, intr |-> 4, err |-> 3]),
      Entry("recv", [ok |-> 4, intr |-> 4, err |-> 3])>>

\* The non-blocking connects: label 3 closes, the call is label 4.
Connecting(wait, said) ==
    Entry("connect", [ok |-> said, intr |-> 4, wait |-> wait, err |-> 3])
nonblocking_connect == Tidy(<<"nonblock">>) \o
    <<Connecting(5, 6), Try("wait_write", 6, 3), Then("say_connected", 3)>>
\* Mutant: SO_ERROR is not asked for.
TrustSelect == Tidy(<<"nonblock">>) \o
    <<Connecting(5, 7), Try("wait_write", 7, 3), Try("so_error", 7, 3),
      Then("say_connected", 3)>>
linux_nonblocking_connect == Tidy(<<"nonblock">>) \o
    <<Connecting(5, 7), Try("wait_write", 6, 3), Try("so_error", 7, 3),
      Then("say_connected", 3)>>
linux_nonblocking_connect_poll == Tidy(<<"nonblock">>) \o
    <<Connecting(5, 7), Try("wait_write", 6, 3),
      Entry("so_error", [ok |-> 7, refused |-> 3, err |-> 0]), Then("say_connected", 3)>>
connect_to_server == <<Try("socket", 2, 0), Try("resolve", 3, 0), Try("connect", 4, 0),
                       Then("say_connected", 0)>>

-----------------------------------------------------------------------------
(* The servers.                                                            *)

\* Mutant: the connection is closed before the answer is sent.
ServerClosesFirst == Untidy(<<"bind", "listen">>) \o
    <<Try("accept", 5, 4), Try("recv", 7, 7), Then("send", 4), Then("close_conn", 6)>>
server == Untidy(<<"bind", "listen">>) \o
    <<Try("accept", 5, 4), Try("recv", 6, 7), Then("send", 7), Then("close_conn", 4)>>
blocking_server == Tidy(<<"bind", "listen">>) \o <<Then("accept", 5)>>
server_recv_zero_bytes == Tidy(<<"bind", "listen">>) \o
    <<Try("accept", 6, 7), Entry("recv", [ok |-> 6, eof |-> 6, err |-> 7]),
      Then("close_conn", 4)>>
helloworld1 == Untidy(<<"setsockopt", "bind", "listen">>) \o
    <<Try("accept", 6, 0), Then("send", 7), Then("close_conn", 5)>>
helloworld2 == Untidy(<<"setsockopt", "bind", "listen">>) \o
    <<Try("accept", 6, 8), Then("send", 7), Then("close_conn", 5), Then("close_conn", 0)>>
helloworld3 ==
    <<Try("socket", 2, 0), Try("setsockopt", 3, 0), Try("bind", 4, 8), Try("listen", 5, 8),
      Try("accept", 6, 8), Then("send", 7), Then("close_conn", 5), Close>>
\* Mutant: the accepted descriptor has no owner and is not closed.
HelloKeepsClient == Tidy(<<"setsockopt", "bind", "listen">>) \o
    <<Try("accept", 7, 5), Then("send", 6), Then("close_conn", 6)>>
helloworld4_RAII == Tidy(<<"setsockopt", "bind", "listen">>) \o
    <<Try("accept", 7, 5), Then("send", 8), Then("close_conn", 6)>>
select_server == Tidy(<<"bind", "listen">>) \o <<Then("serve", 0)>>
poll_server == Tidy(<<"nonblock", "bind", "listen">>) \o <<Then("serve", 0)>>
linux_ioctl == Tidy(<<"nonblock", "bind", "listen">>) \o <<Then("serve", 0)>>
epoll_server ==
    Tidy(<<"nonblock", "bind", "listen", "epoll_create", "epoll_ctl">>) \o <<Then("serve", 0)>>
epoll_server_with_oneshot ==
    Tidy(<<"nonblock", "bind", "listen", "epoll_create", "epoll_ctl">>) \o <<Then("serve", 0)>>

\* Programs of other hosts and users: a telnet that types nothing, and the
\* host the name resolution sample connects to.
telnet == Tidy(<<"connect">>) \o <<Try("recv", 4, 3)>>
remote == select_server

Clients3000 ==
    [client |-> client, blocking_client |-> blocking_client,
     blocking_client_recv |-> blocking_client_recv,
     nonblocking_client |-> nonblocking_client,
     nonblocking_client_recv |-> nonblocking_client_recv,
     nonblocking_client_send_zero_bytes |-> nonblocking_client_send_zero_bytes,
     select_client_tv0 |-> select_client_tv0, select_client_tvnull |-> select_client_tvnull,
     nonblocking_connect |-> nonblocking_connect,
     linux_nonblocking_connect |-> linux_nonblocking_connect,
     linux_nonblocking_connect_poll |-> linux_nonblocking_connect_poll]
Servers3000 == [server |-> server, blocking_server |-> blocking_server,
                server_recv_zero_bytes |-> server_recv_zero_bytes]
Servers6000 == [helloworld1 |-> helloworld1, helloworld2 |-> helloworld2,
                helloworld3 |-> helloworld3, helloworld4_RAII |-> helloworld4_RAII]
EventLoops == [select_server |-> select_server, poll_server |-> poll_server,
               linux_ioctl |-> linux_ioctl, epoll_server |-> epoll_server,
               epoll_server_with_oneshot |-> epoll_server_with_oneshot]
Others == [telnet |-> telnet, remote |-> remote, connect_to_server |-> connect_to_server,
           absent |-> <<>>]
Table == Clients3000 @@ Servers3000 @@ Servers6000 @@ EventLoops @@ Others

\* Who runs beside whom: the programs for port 3000, those for port 6000 with
\* telnet as their client, and the rest alone.
Casts ==
    [client : DOMAIN Clients3000, server : DOMAIN Servers3000, visitor : {"telnet", "absent"}]
    \cup [client : {"telnet"}, server : DOMAIN Servers6000, visitor : {"telnet", "absent"}]
    \cup [client : {"absent"}, server : DOMAIN EventLoops, visitor : {"absent"}]
    \cup {[client |-> "connect_to_server", server |-> "remote", visitor |-> "absent"]}

-----------------------------------------------------------------------------
VARIABLES prog,      \* prog[p]: the program process p runs
          code,      \* code[p]: its table
          pc,        \* label of its next call; 0: exited, -1: killed by SIGPIPE
          fd,        \* its descriptors: "none", "open" or "closed"
          block,     \* its socket blocks
          said,      \* it printed that it is connected
          phase,     \* phase[c]: the connection of client c
          buf,       \* buf[c][side]: something to read waits there
          listening, backlog,
          held,      \* accepted connections whose server end is open
          cur        \* the server's clientfd: a connection, "none", or "closed"

vars == <<prog, code, pc, fd, block, said, phase, buf, listening, backlog, held, cur>>

Conns == {"client", "visitor"}
Procs == Conns \cup {"server"}
Desc == {"sock", "epoll"}

Init ==
    /\ prog \in Casts
    /\ code = [p \in Procs |-> Table[prog[p]]]
    /\ pc = [p \in Procs |-> IF prog[p] = "absent" THEN 0 ELSE 1]
    /\ fd = [p \in Procs |-> [d \in Desc |-> "none"]]
    /\ block = [p \in Procs |-> TRUE] /\ said = [p \in Procs |-> FALSE]
    /\ phase = [c \in Conns |-> "none"]
    /\ buf = [c \in Conns |-> [side \in {"conn", "server"} |-> FALSE]]
    /\ listening = FALSE /\ backlog = {} /\ held = {} /\ cur = "none"

Code(p) == code[p][pc[p]]
At(p, call) == pc[p] > 0 /\ Code(p).call = call
Label(p, result) ==
    LET go == Code(p).go IN IF result \in DOMAIN go THEN go[result] ELSE go.err
Goto(p, result) == pc' = [pc EXCEPT ![p] = Label(p, result)]

\* A process that has ended holds nothing: the kernel closes its descriptors.
Runs(p) == pc[p] > 0
Listening == listening /\ Runs("server") /\ fd["server"]["sock"] = "open"
ClientEnd(c) == Runs(c) /\ fd[c]["sock"] = "open"
ServerEnd(c) == (Listening /\ c \in backlog) \/ (Runs("server") /\ c \in held)

Conn(p) == IF p = "server" THEN cur ELSE p
Mine(p) == IF p = "server" THEN "server" ELSE "conn"
Other(p) == IF p = "server" THEN "conn" ELSE "server"
PeerGone(p) == IF p = "server" THEN ~ClientEnd(cur) ELSE ~ServerEnd(p)
Unread(p) == buf[Conn(p)][Mine(p)]
Readable(p) == Unread(p) \/ PeerGone(p)

net == <<phase, buf, listening, backlog, held, cur>>
own == <<prog, code, fd, block, said>>

-----------------------------------------------------------------------------
(* The system calls.                                                       *)

Open(p, call, d) ==
    /\ At(p, call) /\ Goto(p, "ok")
    /\ fd' = [fd EXCEPT ![p][d] = "open"]
    /\ UNCHANGED <<prog, code, block, said, net>>

\* Calls of which only the result counts.
Plain(p) ==
    /\ \E call \in {"setsockopt", "bind", "epoll_ctl", "resolve", "sleep"} : At(p, call)
    /\ Goto(p, "ok")
    /\ UNCHANGED <<own, net>>

NonBlock(p) ==
    /\ At(p, "nonblock") /\ Goto(p, "ok")
    /\ block' = [block EXCEPT ![p] = FALSE]
    /\ UNCHANGED <<prog, code, fd, said, net>>

SayConnected(p) ==
    /\ At(p, "say_connected") /\ Goto(p, "ok")
    /\ said' = [said EXCEPT ![p] = TRUE]
    /\ UNCHANGED <<prog, code, fd, block, net>>

Listen ==
    /\ At("server", "listen") /\ Goto("server", "ok")
    /\ listening' = TRUE
    /\ UNCHANGED <<own, phase, buf, backlog, held, cur>>

\* The kernel answers the connection request.
Answer(c) ==
    /\ phase' = [phase EXCEPT ![c] = IF Listening THEN "est" ELSE "refused"]
    /\ backlog' = IF Listening THEN backlog \cup {c} ELSE backlog

Connect(c) ==
    /\ At(c, "connect") /\ phase[c] = "none"
    /\ Answer(c)
    /\ Goto(c, IF Listening THEN "ok" ELSE "err")
    /\ UNCHANGED <<own, buf, listening, held, cur>>

\* A non-blocking connect only begins; so does one interrupted by a signal.
\* Called again it fails with EALREADY, EISCONN or ECONNREFUSED.
ConnectBegins(c, result) ==
    /\ At(c, "connect") /\ phase[c] = "none"
    /\ result = "intr" \/ ~block[c]
    /\ phase' = [phase EXCEPT ![c] = "syn"]
    /\ Goto(c, result)
    /\ UNCHANGED <<own, buf, listening, backlog, held, cur>>

ConnectAgain(c) ==
    /\ At(c, "connect") /\ phase[c] # "none"
    /\ Goto(c, "err")
    /\ UNCHANGED <<own, net>>

Handshake(c) ==
    /\ phase[c] = "syn" /\ ClientEnd(c)
    /\ Answer(c)
    /\ UNCHANGED <<own, pc, buf, listening, held, cur>>

WaitWrite(c) ==
    /\ At(c, "wait_write") /\ phase[c] \in {"est", "refused"}
    /\ Goto(c, "ok")
    /\ UNCHANGED <<own, net>>

SoError(c) ==
    /\ At(c, "so_error")
    /\ Goto(c, IF phase[c] = "est" THEN "ok" ELSE "refused")
    /\ UNCHANGED <<own, net>>

Accept ==
    /\ At("server", "accept") /\ backlog # {}
    /\ cur' \in backlog
    /\ backlog' = backlog \ {cur'} /\ held' = held \cup {cur'}
    /\ Goto("server", "ok")
    /\ UNCHANGED <<own, phase, buf, listening>>

\* Into a full buffer a blocking send waits; what is sent to an end that is gone
\* is lost.
Send(p, result) ==
    /\ At(p, "send")
    /\ \/ result \in {"ok", "part"} /\ PeerGone(p) /\ UNCHANGED buf
       \/ /\ result \in {"ok", "part"} /\ ~PeerGone(p) /\ ~buf[Conn(p)][Other(p)]
          /\ buf' = [buf EXCEPT ![Conn(p)][Other(p)] = TRUE]
       \/ result = "again" /\ ~block[p] /\ buf[Conn(p)][Other(p)] /\ UNCHANGED buf
    /\ Goto(p, result)
    /\ UNCHANGED <<own, phase, listening, backlog, held, cur>>

\* The peer's reset has arrived: SIGPIPE ends the process.
Killed(p) ==
    /\ At(p, "send") \/ At(p, "send0")
    /\ PeerGone(p)
    /\ pc' = [pc EXCEPT ![p] = -1]
    /\ UNCHANGED <<own, net>>

SendZero(p) == At(p, "send0") /\ Goto(p, "zero") /\ UNCHANGED <<own, net>>

Recv(p) ==
    /\ At(p, "recv") /\ Readable(p)
    /\ buf' = [buf EXCEPT ![Conn(p)][Mine(p)] = FALSE]
    /\ Goto(p, IF Unread(p) THEN "ok" ELSE "eof")
    /\ UNCHANGED <<own, phase, listening, backlog, held, cur>>

RecvNothing(p) ==
    /\ At(p, "recv") /\ ~Readable(p) /\ ~block[p]
    /\ Goto(p, "again")
    /\ UNCHANGED <<own, net>>

\* select with no time limit, and with the limit zero.
WaitRead(p) ==
    /\ \/ At(p, "wait_read") /\ Readable(p) /\ Goto(p, "ok")
       \/ At(p, "poll_read") /\ Goto(p, IF Readable(p) THEN "ok" ELSE "timeout")
    /\ UNCHANGED <<own, net>>

\* What the peer has not accepted is reset with the listening socket.
CloseSocket(p) ==
    /\ At(p, "close") /\ Goto(p, "ok")
    /\ fd' = [fd EXCEPT ![p]["sock"] = "closed"]
    /\ UNCHANGED <<prog, code, block, said, net>>

\* The descriptor may be -1, after an accept that failed.
CloseConn ==
    /\ At("server", "close_conn") /\ Goto("server", "ok")
    /\ held' = held \ {cur} /\ cur' = "closed"
    /\ UNCHANGED <<own, phase, buf, listening, backlog>>

\* Calls that can fail without having had an effect.  A failed accept leaves -1
\* in clientfd.
Fallible == {"socket", "setsockopt", "nonblock", "bind", "listen", "epoll_create", "epoll_ctl",
             "resolve", "connect", "wait_write", "so_error", "accept", "send", "send0", "recv",
             "wait_read", "poll_read"}
Fails(p, result) ==
    /\ Goto(p, result)
    /\ cur' = IF At(p, "accept") THEN "none" ELSE cur
    /\ UNCHANGED <<own, phase, buf, listening, backlog, held>>

Error(p) == Runs(p) /\ Code(p).call \in Fallible /\ Fails(p, "err")

\* A signal interrupts a call only when there is nothing for it to do.
Interrupted(p) ==
    /\ \/ (At(p, "recv") \/ At(p, "wait_read") \/ At(p, "poll_read")) /\ ~Readable(p)
       \/ At(p, "send") /\ ~PeerGone(p) /\ buf[Conn(p)][Other(p)]
       \/ At(p, "accept") /\ backlog = {}
       \/ At(p, "wait_write") /\ phase[p] = "syn"
    /\ Fails(p, "intr")

-----------------------------------------------------------------------------
Progress(p) ==
    \/ Open(p, "socket", "sock") \/ Open(p, "epoll_create", "epoll")
    \/ Plain(p) \/ NonBlock(p) \/ SayConnected(p)
    \/ p = "server" /\ (Listen \/ Accept \/ CloseConn)
    \/ /\ p # "server"
       /\ Connect(p) \/ ConnectBegins(p, "wait") \/ ConnectAgain(p) \/ WaitWrite(p) \/ SoError(p)
    \/ Send(p, "ok") \/ Send(p, "again") \/ Killed(p) \/ SendZero(p)
    \/ Recv(p) \/ RecvNothing(p) \/ WaitRead(p) \/ CloseSocket(p)

Fault ==
    \/ \E p \in Procs : Send(p, "part") \/ Error(p) \/ Interrupted(p)
    \/ \E c \in Conns : ConnectBegins(c, "intr")

Next == Fault \/ (\E p \in Procs : Progress(p)) \/ (\E c \in Conns : Handshake(c))

\* Every process is scheduled and the kernel answers connection requests.  No
\* call has to fail, but data sent again and again to an end that is gone is
\* answered by a reset.
Spec ==
    /\ Init /\ [][Next]_vars
    /\ \A p \in Procs : WF_vars(Progress(p))
    /\ WF_vars(Handshake("client"))
    /\ SF_vars(At("client", "send") /\ Killed("client"))

-----------------------------------------------------------------------------
\* On no path, failures included, does a program use or close a descriptor that
\* it has closed before, or read or write through one it does not have.
NoMisuse ==
    \A p \in Procs : Runs(p) =>
      LET call == Code(p).call IN
      /\ call \in {"nonblock", "setsockopt", "connect", "wait_write", "so_error", "send0",
                  "wait_read", "poll_read", "bind", "listen", "accept", "close", "epoll_ctl",
                  "serve"} => fd[p]["sock"] = "open"
      /\ call \in {"send", "recv"} /\ p # "server" => fd[p]["sock"] = "open"
      /\ call \in {"send", "recv"} /\ p = "server" => cur \in held
      /\ call = "close_conn" => cur # "closed"

\* Programs with an exit that leaves a descriptor to the kernel: client.cpp:37,
\* server.cpp:33, resolution_dns.cpp:42, linux_nonblocking_connect_poll.cpp:96,
\* helloworld1.cpp:57, helloworld2.cpp:58, helloworld3.cpp:20, and the epoll
\* instance at epoll_server.cpp:88 and epoll_server_with_oneshot.cpp:86.
Leaky == {"client", "server", "connect_to_server", "linux_nonblocking_connect_poll",
          "helloworld1", "helloworld2", "helloworld3",
          "epoll_server", "epoll_server_with_oneshot"}

\* Every other program closes all it opened before it exits, whichever call fails.
CleanExit ==
    \A p \in Procs : pc[p] = 0 /\ prog[p] \notin Leaky =>
      /\ \A d \in Desc : fd[p][d] # "open"
      /\ p = "server" => held = {}

\* Who reports that it is connected is: the readiness of select is not enough,
\* and nonblocking_connect, which asks no further, reports refused connections.
ReportTrue ==
    \A c \in Conns : said[c] => phase[c] = "est" \/ prog[c] = "nonblocking_connect"

\* The server of one client at a time waits for the first word of a telnet.
HeldUp == prog["server"] = "server" /\ At("server", "recv") /\ cur = "visitor"

\* The clients that speak first are served by server.cpp, unless a silent
\* connection holds it; those that only connect finish beside every server,
\* the helloworld servers let every telnet finish.
Finishing ==
    \/ prog["client"] \in {"nonblocking_connect", "linux_nonblocking_connect",
                           "linux_nonblocking_connect_poll", "connect_to_server"}
    \/ prog["server"] = "server"
       /\ prog["client"] \in {"client", "blocking_client", "nonblocking_client"}
    \/ prog["server"] \in DOMAIN Servers6000
ClientFinishes == Finishing ~> ~Runs("client") \/ HeldUp

\* When its peer is gone a client comes to an end, except the one that sends
\* nothing; and server.cpp and the helloworld servers let go of a client that is
\* gone, or are killed with their answer to it, while blocking_server never closes and server_recv_zero_bytes takes
\* the end of file for an empty message.
PeerEndNoticed ==
    /\ phase["client"] = "est" /\ PeerGone("client")
       /\ prog["client"] # "nonblocking_client_send_zero_bytes" ~> ~Runs("client")
    /\ "client" \in held /\ ~Runs("client")
       /\ prog["server"] \in {"server"} \cup DOMAIN Servers6000 ~> ~ServerEnd("client")
=============================================================================
