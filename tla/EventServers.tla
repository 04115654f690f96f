---------------------------- MODULE EventServers ----------------------------
(***************************************************************************)
(* The five event loops of network/api/cpp-tcp: select_server, poll_server,*)
(* linux_ioctl (poll with FIONREAD), epoll_server and                      *)
(* epoll_server_with_oneshot.  Each waits for readiness, then handles the  *)
(* reported descriptors one by one: the listening socket by an accept, a   *)
(* client by one recv.  The programs differ in what ends a round, in when  *)
(* a client is closed and in how a descriptor is armed; these differences  *)
(* are the operators below.  Clients and kernel move between any two steps.*)
(* The set-up before the loop is in SocketPrograms.                        *)
(***************************************************************************)
EXTENDS Integers, FiniteSets

CONSTANTS Clients,   \* the peers; each connects at most once
          Silent,    \* those that neither send nor hang up
          FDs,       \* numbers of the client descriptors (the table's size)
          MaxBytes   \* bytes a client may send in all (a bound of the model)

VARIABLES server,    \* the program that runs
          pc,        \* "wait", "scan" or "stopped"
          errno,     \* what errno was last set to: "retry" (EINTR or EWOULDBLOCK,
                     \* which every test in the programs treats alike) or "other"
          link,      \* link[c]: the client's end of the connection
          left,      \* left[c]: bytes it may still send
          unread,    \* unread[c]: bytes in the server's receive buffer
          backlog,   \* connections not yet accepted
          file,      \* file[f]: the connection descriptor f refers to
          armed,     \* armed[f]: how f is watched
          batch      \* events reported and not yet handled, with their origin

\* Number 0 stands for the listening socket.
ASSUME EventServersAssumption ==
    /\ Silent \subseteq Clients /\ {"none", "listen"} \cap Clients = {}
    /\ FDs \subseteq Nat \ {0} /\ MaxBytes \in Nat

vars == <<server, pc, errno, link, left, unread, backlog, file, armed, batch>>
kernel == <<link, left, unread, backlog>>

Programs == {"select_server", "poll_server", "linux_ioctl",
             "epoll_server", "epoll_server_with_oneshot"}
PollFamily == {"poll_server", "linux_ioctl"}
EpollFamily == {"epoll_server", "epoll_server_with_oneshot"}
NoConn == "none"
Listen == [fd |-> 0, conn |-> "listen"]

Free == {f \in FDs : file[f] = NoConn}
LowestFree == CHOOSE f \in Free : \A g \in Free : f <= g
Open == FDs \ Free
Accepted(c) == \E f \in Open : file[f] = c
Readable(c) == unread[c] > 0 \/ link[c] \in {"fin", "reset"}

Init ==
    /\ server \in Programs
    /\ pc = "wait" /\ errno = "other"
    /\ link = [c \in Clients |-> "idle"]
    /\ left = [c \in Clients |-> MaxBytes]
    /\ unread = [c \in Clients |-> 0]
    /\ backlog = {}
    /\ file = [f \in FDs |-> NoConn]
    /\ armed = [f \in FDs |-> "off"]
    /\ batch = {}

-----------------------------------------------------------------------------
(* The clients.                                                            *)

Connect(c) ==
    /\ link[c] = "idle" /\ pc # "stopped"
    /\ link' = [link EXCEPT ![c] = "live"]
    /\ backlog' = backlog \cup {c}
    /\ UNCHANGED <<server, pc, errno, left, unread, file, armed, batch>>

Send(c) ==
    /\ link[c] = "live" /\ left[c] > 0 /\ pc # "stopped"
    /\ left' = [left EXCEPT ![c] = @ - 1]
    /\ unread' = [unread EXCEPT ![c] = @ + 1]
    /\ UNCHANGED <<server, pc, errno, link, backlog, file, armed, batch>>

\* An orderly close keeps what is unread; a reset discards it.
Leave(c, how) ==
    /\ link[c] = "live" /\ pc # "stopped"
    /\ link' = [link EXCEPT ![c] = how]
    /\ unread' = IF how = "reset" THEN [unread EXCEPT ![c] = 0] ELSE unread
    /\ UNCHANGED <<server, pc, errno, left, backlog, file, armed, batch>>

-----------------------------------------------------------------------------
(* Waiting: select, poll or epoll_wait.                                    *)

Event(f) == [fd |-> f, conn |-> file[f]]
Reported == {f \in Open : armed[f] \in {"once", "level"} /\ Readable(file[f])}
Events(fds) == {Event(f) : f \in fds} \cup (IF backlog # {} THEN {Listen} ELSE {})

\* A reported one-shot descriptor is disarmed by the kernel.
Report(fds) ==
    /\ pc = "wait" /\ Events(fds) # {}
    /\ pc' = "scan"
    /\ batch' = Events(fds)
    /\ armed' = [f \in FDs |-> IF f \in fds /\ armed[f] = "once" THEN "fired" ELSE armed[f]]
    /\ UNCHANGED <<server, errno, kernel, file>>

WaitReady == Report(Reported)

\* A descriptor reported although nothing is there to read: the programs with
\* non-blocking sockets are written for it.
WaitSpurious(f) ==
    /\ server # "select_server"
    /\ f \in Open /\ armed[f] \in {"once", "level"} /\ ~Readable(file[f])
    /\ Report(Reported \cup {f})

\* A signal: every program goes back to wait, and errno stays set.
WaitInterrupted ==
    /\ pc = "wait" /\ errno' = "retry"
    /\ UNCHANGED <<server, pc, kernel, file, armed, batch>>

\* Any other failure leaves the loop: select_server and the poll servers close
\* every client, the epoll servers only the listening socket.
\* Mutant: the clients are left open by every server.
StopLeavesClients ==
    /\ pc' = "stopped" /\ batch' = {}
    /\ UNCHANGED <<file, armed>>
Stop ==
    /\ pc' = "stopped" /\ batch' = {}
    /\ IF server \in EpollFamily
       THEN UNCHANGED <<file, armed>>
       ELSE file' = [f \in FDs |-> NoConn] /\ armed' = [f \in FDs |-> "off"]

WaitFails ==
    /\ pc = "wait" /\ errno' = "other"
    /\ Stop
    /\ UNCHANGED <<server, kernel>>

-----------------------------------------------------------------------------
(* One event of the batch.  Events are taken in any order, which covers    *)
(* the order of the vector and that of epoll_wait.                         *)

\* A round ends when its events are handled; select_server handles no client
\* in a round with a new connection.
Handled(e) ==
    LET rest == IF server = "select_server" /\ e = Listen THEN {} ELSE batch \ {e}
    IN /\ batch' = rest
       /\ pc' = IF rest = {} THEN "wait" ELSE "scan"

\* Mutant: the lowest descriptor is closed.
CloseWrong(f) ==
    LET low == CHOOSE g \in Open : \A h \in Open : g <= h IN
    /\ file' = [file EXCEPT ![low] = NoConn]
    /\ armed' = [armed EXCEPT ![low] = "off"]
    /\ link' = [link EXCEPT ![file[low]] = "over"]
    /\ unread' = [unread EXCEPT ![file[low]] = 0]
Close(f) ==
    /\ file' = [file EXCEPT ![f] = NoConn]
    /\ armed' = [armed EXCEPT ![f] = "off"]
    /\ link' = [link EXCEPT ![file[f]] = "over"]
    /\ unread' = [unread EXCEPT ![file[f]] = 0]

FirstArmed == IF server = "epoll_server_with_oneshot" THEN "once" ELSE "level"

\* Mutant: the new descriptor is not watched.
AcceptUnwatched ==
    /\ Listen \in batch /\ Free # {}
    /\ \E c \in backlog :
         /\ backlog' = backlog \ {c}
         /\ file' = [file EXCEPT ![LowestFree] = c]
    /\ Handled(Listen)
    /\ UNCHANGED <<server, errno, link, left, unread, armed>>
Accept ==
    /\ Listen \in batch /\ Free # {}
    /\ \E c \in backlog :
         /\ backlog' = backlog \ {c}
         /\ file' = [file EXCEPT ![LowestFree] = c]
         /\ armed' = [armed EXCEPT ![LowestFree] = FirstArmed]
    /\ Handled(Listen)
    /\ UNCHANGED <<server, errno, link, left, unread>>

\* The new descriptor cannot be made non-blocking or watched: it is closed.
AcceptThenClose ==
    /\ Listen \in batch /\ Free # {} /\ server # "select_server"
    /\ \E c \in backlog :
         /\ backlog' = backlog \ {c}
         /\ link' = [link EXCEPT ![c] = "over"]
         /\ unread' = [unread EXCEPT ![c] = 0]
    /\ errno' = "other"
    /\ Handled(Listen)
    /\ UNCHANGED <<server, left, file, armed>>

\* accept fails, as it does when the table is full: select_server ends, the
\* others go on with the next event.
AcceptFails(e) ==
    /\ Listen \in batch
    /\ errno' = e
    /\ IF server = "select_server" THEN Stop
       ELSE Handled(Listen) /\ UNCHANGED <<file, armed>>
    /\ UNCHANGED <<server, kernel>>

\* recv fills its buffer: one byte in the epoll servers, all in the others.
\* The one-shot server arms the descriptor again, without EPOLLONESHOT.
RecvData(e) ==
    /\ e # Listen /\ unread[e.conn] > 0
    /\ unread' = [unread EXCEPT ![e.conn] = IF server \in EpollFamily THEN @ - 1 ELSE 0]
    /\ armed' = [armed EXCEPT ![e.fd] = "level"]
    /\ Handled(e)
    /\ UNCHANGED <<server, errno, link, left, backlog, file>>

\* The one-shot server fails to arm the descriptor again and closes it.
RearmFails(e) ==
    /\ server = "epoll_server_with_oneshot"
    /\ e # Listen /\ unread[e.conn] > 0
    /\ Close(e.fd) /\ errno' = "other" /\ Handled(e)
    /\ UNCHANGED <<server, left, backlog>>

\* recv returns 0: errno is not set, but the poll servers look at it.
ClosesAtEof == server \notin PollFamily \/ errno = "other"

\* Mutant: a client is closed only when recv returns less than 0.
RecvEofIgnored(e) ==
    /\ e # Listen /\ unread[e.conn] = 0 /\ link[e.conn] = "fin"
    /\ Handled(e)
    /\ UNCHANGED <<server, errno, link, left, unread, backlog, file, armed>>
RecvEof(e) ==
    /\ e # Listen /\ unread[e.conn] = 0 /\ link[e.conn] = "fin"
    /\ IF ClosesAtEof THEN Close(e.fd) ELSE UNCHANGED <<file, armed, link, unread>>
    /\ Handled(e)
    /\ UNCHANGED <<server, errno, left, backlog>>

RecvReset(e) ==
    /\ e # Listen /\ link[e.conn] = "reset"
    /\ errno' = "other" /\ Close(e.fd) /\ Handled(e)
    /\ UNCHANGED <<server, left, backlog>>

\* Nothing to read after all: the descriptor stays as it is, so a one-shot
\* descriptor that was reported for the first time stays disarmed.
\* Mutant: an empty read is taken for the end of file.
RecvNothingCloses(e) ==
    /\ e # Listen /\ ~Readable(e.conn) /\ server # "select_server"
    /\ errno' = "retry" /\ Close(e.fd) /\ Handled(e)
    /\ UNCHANGED <<server, left, backlog>>
RecvNothing(e) ==
    /\ e # Listen /\ ~Readable(e.conn) /\ server # "select_server"
    /\ errno' = "retry" /\ Handled(e)
    /\ UNCHANGED <<server, kernel, file, armed>>

-----------------------------------------------------------------------------
Serve ==
    \/ WaitReady
    \/ Accept
    \/ Free = {} /\ AcceptFails("other")
    \/ \E e \in batch : RecvData(e) \/ RecvEof(e) \/ RecvReset(e) \/ RecvNothing(e)

Fault ==
    \/ WaitInterrupted
    \/ WaitFails
    \/ AcceptThenClose
    \/ \E f \in FDs : WaitSpurious(f)
    \/ \E e \in {"retry", "other"} : AcceptFails(e)
    \/ \E e \in batch : RearmFails(e)

Peer ==
    \/ \E c \in Clients : Connect(c)
    \/ \E c \in Clients \ Silent : Send(c) \/ Leave(c, "fin") \/ Leave(c, "reset")

Next == Serve \/ Fault \/ Peer

\* The loop never stops by itself and is the only thread of its process, so
\* the kernel lets it go on; an accept that is tried again and again succeeds
\* at last while the table has room.  Other faults and the peers owe nothing.
Spec == Init /\ [][Next]_vars /\ WF_vars(Serve) /\ SF_vars(Accept)

-----------------------------------------------------------------------------
\* A reported event still belongs to the connection it was reported for when
\* its turn comes, although descriptors are closed and their numbers reused
\* within a round.
NoStaleEvent == \A e \in batch \ {Listen} : file[e.fd] = e.conn

\* Every connection that came and was not closed waits in the backlog or has
\* one descriptor, and the server watches just its open descriptors; when the
\* loop is left select_server and the poll servers leave none open.
NoOrphan ==
    /\ pc # "stopped" =>
         /\ \A f \in FDs : f \in Open <=> armed[f] # "off"
         /\ \A c \in Clients : link[c] \in {"live", "fin", "reset"} =>
                \/ c \in backlog /\ ~Accepted(c)
                \/ c \notin backlog /\ Cardinality({f \in Open : file[f] = c}) = 1
    /\ pc = "stopped" /\ server \notin EpollFamily => Open = {}

\* A client that has not hung up is closed only on account of a system call
\* that failed for good, never for a signal, an empty read or another client.
LiveClientKept ==
    [][\A c \in Clients : link[c] = "live" /\ link'[c] = "over" => errno' = "other"]_vars

\* A one-shot descriptor that was reported and not armed again.
Deaf(c) == \E f \in Open : file[f] = c /\ armed[f] = "fired" /\ Event(f) \notin batch
Stopped == pc = "stopped"

\* Whatever the others do, a connection is accepted unless the table is full,
\* and what an accepted client sends is read, in select_server too, where new
\* connections go first.
RequestsServed ==
    \A c \in Clients \ Silent :
      /\ c \in backlog ~> c \notin backlog \/ Free = {} \/ Stopped
      /\ Accepted(c) /\ unread[c] > 0 ~> unread[c] = 0 \/ Deaf(c) \/ Stopped

Closed(c) == link[c] = "over" \/ Stopped

\* A client that hung up is closed, unless a poll server looks at an errno
\* that a signal or an empty read has left behind.
HangUpClosed ==
    \A c \in Clients \ Silent :
      Accepted(c) /\ link[c] \in {"fin", "reset"} ~> Closed(c) \/ Deaf(c) \/ ~ClosesAtEof

\* "On an error, or when the peer closed the connection, close the clientfd"
\* (poll_server.cpp:138): false once errno is stale.
PollClosesPeer ==
    \A c \in Clients \ Silent :
      server = "poll_server" /\ Accepted(c) /\ link[c] = "fin" ~> Closed(c)
=============================================================================
