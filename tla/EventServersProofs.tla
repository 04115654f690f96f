------------------------- MODULE EventServersProofs -------------------------
(***************************************************************************)
(* Proofs about EventServers, for all five programs, every set of clients  *)
(* and every size of the descriptor table.                                 *)
(*                                                                         *)
(* The argument rests on who owns a descriptor: a client is idle, waits in *)
(* the backlog, has exactly one descriptor, or is over (Owned).  An event  *)
(* names the connection it was reported for, and closing a descriptor      *)
(* takes its only event out of the batch before the number can be reused.  *)
(***************************************************************************)
EXTENDS EventServers, FiniteSetTheorems, WellFoundedInduction, TLAPS

ClientEvents == [fd : FDs, conn : Clients]
Present == {"live", "fin", "reset"}

TypeOK ==
    /\ server \in Programs
    /\ pc \in {"wait", "scan", "stopped"} /\ errno \in {"retry", "other"}
    /\ link \in [Clients -> Present \cup {"idle", "over"}]
    /\ left \in [Clients -> Nat] /\ unread \in [Clients -> Nat]
    /\ backlog \subseteq Clients
    /\ file \in [FDs -> Clients \cup {NoConn}]
    /\ armed \in [FDs -> {"off", "once", "level", "fired"}]
    /\ batch \subseteq ClientEvents \cup {Listen}

\* A client present waits in the backlog or has one descriptor.
Owned ==
    /\ \A f, g \in FDs : file[f] = file[g] /\ file[f] # NoConn => f = g
    /\ \A c \in backlog : link[c] \in Present /\ \A f \in FDs : file[f] # c
    /\ \A f \in FDs : file[f] # NoConn => link[file[f]] \in Present
    /\ pc # "stopped" =>
          \A c \in Clients : link[c] \in Present => c \in backlog \/ \E f \in FDs : file[f] = c

\* What is watched is what is open.
Watched ==
    /\ pc # "stopped" => \A f \in FDs : file[f] # NoConn <=> armed[f] # "off"
    /\ pc = "stopped" => batch = {} /\ (server \notin EpollFamily => \A f \in FDs : file[f] = NoConn)

ServersInv == TypeOK /\ Owned /\ Watched /\ NoStaleEvent

-----------------------------------------------------------------------------
\* The kernel can name the lowest free descriptor.
LEMMA LowestFreeIsFree == Free # {} => LowestFree \in FDs /\ file[LowestFree] = NoConn
<1> SUFFICES ASSUME Free # {} PROVE LowestFree \in Free
  BY DEF Free
<1>1. Free \subseteq Nat
  BY EventServersAssumption DEF Free
<1>2. PICK f \in Free : \A g \in Free : ~(<<g, f>> \in OpToRel(<, Nat))
  BY <1>1, NatLessThanWellFounded, WFMin
<1>3. \A g \in Free : f <= g
  <2>1. \A a, b \in Nat : a < b => <<a, b>> \in OpToRel(<, Nat)
    BY DEF OpToRel
  <2>2. \A a, b \in Nat : ~(a < b) => b <= a
    OBVIOUS
  <2> QED
    BY <1>1, <1>2, <2>1, <2>2, Zenon
<1> QED
  BY <1>3 DEF LowestFree

\* An event of a client is not that of the listening socket, and the batch has
\* one for a descriptor.
LEMMA ClientEvent ==
    ASSUME TypeOK, NoStaleEvent, NEW e \in batch, e # Listen
    PROVE  /\ e \in ClientEvents /\ e.fd \in FDs /\ e.conn \in Clients /\ file[e.fd] = e.conn
           /\ file[e.fd] # NoConn
           /\ \A d \in batch : d # Listen /\ d.fd = e.fd => d = e
<1>1. e \in ClientEvents /\ e.fd \in FDs /\ e.conn \in Clients
  BY DEF TypeOK, ClientEvents
<1>2. file[e.fd] = e.conn /\ file[e.fd] # NoConn
  BY <1>1, EventServersAssumption DEF NoStaleEvent, NoConn
<1>3. ASSUME NEW d \in batch, d # Listen, d.fd = e.fd PROVE d = e
  <2>1. d \in ClientEvents
    BY <1>3 DEF TypeOK
  <2>2. d.conn = e.conn
    BY <1>2, <1>3 DEF NoStaleEvent
  <2> QED
    BY <1>1, <1>3, <2>1, <2>2 DEF ClientEvents
<1> QED
  BY <1>1, <1>2, <1>3

\* The end of a handler.
LEMMA HandledEffect ==
    ASSUME NEW e, Handled(e)
    PROVE  batch' \subseteq batch \ {e} /\ pc' \in {"wait", "scan"}
BY DEF Handled

\* Closing a descriptor makes an end of its client, and of no other.
LEMMA CloseStep ==
    ASSUME ServersInv, NEW e \in batch, e # Listen, Close(e.fd), Handled(e),
           UNCHANGED <<server, left, backlog>>, errno' \in {"retry", "other"}
    PROVE  ServersInv'
<1> DEFINE f == e.fd
           c == e.conn
<1>1. TypeOK /\ Owned /\ Watched /\ NoStaleEvent
  BY DEF ServersInv
<1>2. /\ f \in FDs /\ c \in Clients /\ file[f] = c /\ c # NoConn
      /\ \A d \in batch : d # Listen /\ d.fd = f => d = e
  BY <1>1, ClientEvent
<1>3. /\ file' = [file EXCEPT ![f] = NoConn] /\ armed' = [armed EXCEPT ![f] = "off"]
      /\ link' = [link EXCEPT ![c] = "over"] /\ unread' = [unread EXCEPT ![c] = 0]
      /\ batch' \subseteq batch \ {e} /\ pc' # "stopped" /\ pc' \in {"wait", "scan"}
  BY <1>2, HandledEffect DEF Close
<1>4. pc # "stopped"
  BY <1>1 DEF Watched
<1> HIDE DEF f, c
<1>5. TypeOK'
  BY <1>1, <1>2, <1>3 DEF TypeOK
<1>6. /\ file'[f] = NoConn /\ \A g \in FDs \ {f} : file'[g] = file[g]
      /\ link'[c] = "over" /\ \A b \in Clients \ {c} : link'[b] = link[b]
      /\ armed'[f] = "off" /\ \A g \in FDs \ {f} : armed'[g] = armed[g]
      /\ \A g \in FDs \ {f} : file[g] # c
      /\ c \notin backlog
  BY <1>1, <1>2, <1>3 DEF TypeOK, Owned
<1>7. Owned'
  <2>1. \A g, h \in FDs : file'[g] = file'[h] /\ file'[g] # NoConn => g = h
    BY <1>1, <1>6 DEF Owned
  <2>2. \A b \in backlog' : link'[b] \in Present /\ \A g \in FDs : file'[g] # b
    BY <1>1, <1>6, EventServersAssumption DEF Owned, TypeOK, NoConn
  <2>3. \A g \in FDs : file'[g] # NoConn => link'[file'[g]] \in Present
    BY <1>1, <1>6 DEF Owned, TypeOK
  <2>4. \A b \in Clients : link'[b] \in Present => b \in backlog' \/ \E g \in FDs : file'[g] = b
    <3> SUFFICES ASSUME NEW b \in Clients, link'[b] \in Present, b \notin backlog
                 PROVE  \E g \in FDs : file'[g] = b
      OBVIOUS
    <3>1. b # c /\ link[b] \in Present
      BY <1>6 DEF Present
    <3>2. PICK g \in FDs : file[g] = b
      BY <1>1, <1>4, <3>1 DEF Owned
    <3> QED
      BY <1>2, <1>6, <3>1, <3>2
  <2> QED
    BY <2>1, <2>2, <2>3, <2>4 DEF Owned
<1>8. Watched'
  BY <1>1, <1>3, <1>4, <1>6 DEF Watched
<1>9. NoStaleEvent'
  <2> SUFFICES ASSUME NEW d \in batch', d # Listen PROVE file'[d.fd] = d.conn
    BY DEF NoStaleEvent, Listen
  <2>1. d \in batch /\ d # e
    BY <1>3
  <2>2. d.fd \in FDs /\ file[d.fd] = d.conn
    BY <1>1, <2>1, ClientEvent
  <2>3. d.fd # f
    BY <1>2, <2>1
  <2> QED
    BY <1>6, <2>2, <2>3
<1> QED
  BY <1>5, <1>7, <1>8, <1>9 DEF ServersInv

\* A connection leaves the backlog for a descriptor nobody has.
LEMMA AcceptStep == ASSUME ServersInv, Accept PROVE ServersInv'
<1>1. TypeOK /\ Owned /\ Watched /\ NoStaleEvent
  BY DEF ServersInv
<1> DEFINE f == LowestFree
<1>2. f \in FDs /\ file[f] = NoConn
  BY LowestFreeIsFree DEF Accept
<1>3. PICK c \in backlog :
        /\ backlog' = backlog \ {c} /\ file' = [file EXCEPT ![f] = c]
        /\ armed' = [armed EXCEPT ![f] = FirstArmed]
  BY DEF Accept
<1>4. /\ Handled(Listen) /\ Listen \in batch /\ batch' \subseteq batch /\ pc' \in {"wait", "scan"}
      /\ UNCHANGED <<server, errno, link, left, unread>>
  BY HandledEffect DEF Accept
<1>5. pc # "stopped" /\ pc' # "stopped"
  BY <1>1, <1>4 DEF Watched
<1>6. c \in Clients /\ c # NoConn /\ FirstArmed \in {"once", "level"}
  BY <1>1, <1>3, EventServersAssumption DEF TypeOK, FirstArmed, NoConn
<1> HIDE DEF f
<1>7. TypeOK'
  BY <1>1, <1>2, <1>3, <1>4, <1>6 DEF TypeOK
<1>8. /\ file'[f] = c /\ \A g \in FDs \ {f} : file'[g] = file[g]
      /\ armed'[f] # "off" /\ \A g \in FDs \ {f} : armed'[g] = armed[g]
      /\ link[c] \in Present /\ \A g \in FDs : file[g] # c
  BY <1>1, <1>2, <1>3, <1>6 DEF TypeOK, Owned
<1>9. Owned'
  <2>1. \A g, h \in FDs : file'[g] = file'[h] /\ file'[g] # NoConn => g = h
    BY <1>1, <1>8 DEF Owned
  <2>2. \A b \in backlog' : link'[b] \in Present /\ \A g \in FDs : file'[g] # b
    BY <1>1, <1>3, <1>4, <1>8 DEF Owned
  <2>3. \A g \in FDs : file'[g] # NoConn => link'[file'[g]] \in Present
    BY <1>1, <1>4, <1>8 DEF Owned
  <2>4. \A b \in Clients : link'[b] \in Present => b \in backlog' \/ \E g \in FDs : file'[g] = b
    <3> SUFFICES ASSUME NEW b \in Clients, link[b] \in Present, b \notin backlog, b # c
                 PROVE  \E g \in FDs : file'[g] = b
      BY <1>2, <1>3, <1>4, <1>8
    <3>1. PICK g \in FDs : file[g] = b
      BY <1>1, <1>5 DEF Owned
    <3>2. g # f
      BY <1>2, <3>1, EventServersAssumption DEF NoConn
    <3> QED
      BY <1>8, <3>1, <3>2
  <2> QED
    BY <2>1, <2>2, <2>3, <2>4 DEF Owned
<1>10. Watched'
  BY <1>1, <1>5, <1>6, <1>8 DEF Watched
<1>11. NoStaleEvent'
  <2> SUFFICES ASSUME NEW d \in batch', d # Listen PROVE file'[d.fd] = d.conn
    BY DEF NoStaleEvent, Listen
  <2>1. d \in batch /\ d.fd \in FDs /\ file[d.fd] = d.conn /\ file[d.fd] # NoConn
    BY <1>1, <1>4, ClientEvent
  <2> QED
    BY <1>2, <1>8, <2>1
<1> QED
  BY <1>7, <1>9, <1>10, <1>11 DEF ServersInv

\* What is reported is reported of the connections there are.
LEMMA ReportStep ==
    ASSUME ServersInv, NEW fds, fds \subseteq Open, Report(fds) PROVE ServersInv'
<1>1. TypeOK /\ Owned /\ Watched
  BY DEF ServersInv
<1>2. /\ pc = "wait" /\ pc' = "scan" /\ batch' = Events(fds)
      /\ armed' = [f \in FDs |-> IF f \in fds /\ armed[f] = "once" THEN "fired" ELSE armed[f]]
      /\ UNCHANGED <<server, errno, link, left, unread, backlog, file>>
  BY DEF Report, kernel
<1>3. \A f \in fds : f \in FDs /\ file[f] \in Clients
  BY <1>1 DEF Open, Free, TypeOK
<1>4. \A e \in batch' : \/ e = Listen
                        \/ \E f \in fds : e = [fd |-> f, conn |-> file[f]]
  BY <1>2 DEF Events, Event
<1>5. batch' \subseteq ClientEvents \cup {Listen}
  BY <1>3, <1>4 DEF ClientEvents
<1>6. TypeOK'
  BY <1>1, <1>2, <1>5 DEF TypeOK
<1>7. Owned'
  BY <1>1, <1>2 DEF Owned
<1>8. Watched'
  <2>1. \A f \in FDs : armed'[f] # "off" <=> armed[f] # "off"
    BY <1>2
  <2> QED
    BY <1>1, <1>2, <2>1 DEF Watched
<1>9. NoStaleEvent'
  BY <1>2, <1>4 DEF NoStaleEvent
<1> QED
  BY <1>6, <1>7, <1>8, <1>9 DEF ServersInv

\* The loop is left.
LEMMA StopStep ==
    ASSUME ServersInv, Stop, UNCHANGED <<server, kernel>>, errno' \in {"retry", "other"}
    PROVE  ServersInv'
<1>1. TypeOK /\ Owned /\ Watched
  BY DEF ServersInv
<1>2. /\ pc' = "stopped" /\ batch' = {}
      /\ UNCHANGED <<server, link, left, unread, backlog>>
      /\ \/ server \in EpollFamily /\ UNCHANGED <<file, armed>>
         \/ /\ server \notin EpollFamily
            /\ file' = [f \in FDs |-> NoConn] /\ armed' = [f \in FDs |-> "off"]
  BY DEF Stop, kernel
<1>3. TypeOK' /\ NoStaleEvent'
  BY <1>1, <1>2 DEF TypeOK, NoStaleEvent
<1>4. Owned'
  <2>1. CASE UNCHANGED <<file, armed>>
    BY <1>1, <1>2, <2>1 DEF Owned
  <2>2. CASE file' = [f \in FDs |-> NoConn]
    <3>1. \A f \in FDs : file'[f] = NoConn
      BY <2>2
    <3>2. \A c \in backlog : c # NoConn
      BY <1>1, EventServersAssumption DEF TypeOK, NoConn
    <3> QED
      BY <1>1, <1>2, <3>1, <3>2 DEF Owned
  <2> QED
    BY <1>2, <2>1, <2>2
<1>5. Watched'
  BY <1>1, <1>2 DEF Watched
<1> QED
  BY <1>3, <1>4, <1>5 DEF ServersInv

\* The next event's turn, with the connections as they were.
LEMMA NextEventStep ==
    ASSUME ServersInv, NEW e \in batch, Handled(e),
           UNCHANGED <<server, link, left, backlog, file>>,
           unread' \in [Clients -> Nat], errno' \in {"retry", "other"},
           armed' \in [FDs -> {"off", "once", "level", "fired"}],
           \A f \in FDs : armed'[f] # "off" <=> armed[f] # "off"
    PROVE  ServersInv'
<1>1. TypeOK /\ Owned /\ Watched /\ NoStaleEvent
  BY DEF ServersInv
<1>2. batch' \subseteq batch /\ pc' \in {"wait", "scan"} /\ pc # "stopped"
  BY <1>1, HandledEffect DEF Watched
<1>3. TypeOK' /\ NoStaleEvent'
  BY <1>1, <1>2 DEF TypeOK, NoStaleEvent
<1>4. Owned' /\ Watched'
  BY <1>1, <1>2 DEF Owned, Watched
<1> QED
  BY <1>3, <1>4 DEF ServersInv

\* Clients come, send and go.
LEMMA PeerStep == ServersInv /\ Peer => ServersInv'
<1> SUFFICES ASSUME ServersInv, Peer PROVE ServersInv'
  OBVIOUS
<1>1. TypeOK /\ Owned /\ Watched /\ NoStaleEvent
  BY DEF ServersInv
<1>2. ASSUME NEW c \in Clients, Connect(c) PROVE ServersInv'
  <2>1. /\ link[c] = "idle" /\ link' = [link EXCEPT ![c] = "live"]
        /\ backlog' = backlog \cup {c}
        /\ UNCHANGED <<server, pc, errno, left, unread, file, armed, batch>>
    BY <1>2 DEF Connect
  <2>2. TypeOK' /\ NoStaleEvent' /\ Watched'
    BY <1>1, <2>1 DEF TypeOK, NoStaleEvent, Watched, Present
  <2>3. /\ \A b \in Clients : link[b] \in Present => link'[b] \in Present
        /\ \A b \in Clients \ {c} : link'[b] = link[b]
        /\ link'[c] \in Present
    BY <1>1, <2>1 DEF TypeOK, Present
  <2>4. \A f \in FDs : file[f] # c
    BY <1>1, <2>1, EventServersAssumption DEF Owned, Present, NoConn
  <2>5. \A f \in FDs : file[f] # NoConn => file[f] \in Clients
    BY <1>1 DEF TypeOK
  <2>6. backlog \subseteq Clients
    BY <1>1 DEF TypeOK
  <2>7. Owned'
    BY <1>1, <2>1, <2>3, <2>4, <2>5, <2>6 DEF Owned
  <2> QED
    BY <2>2, <2>7 DEF ServersInv
<1>3. ASSUME NEW c \in Clients, Send(c) PROVE ServersInv'
  <2>1. /\ left' = [left EXCEPT ![c] = @ - 1] /\ left[c] > 0
        /\ unread' = [unread EXCEPT ![c] = @ + 1]
        /\ UNCHANGED <<server, pc, errno, link, backlog, file, armed, batch>>
    BY <1>3 DEF Send
  <2>2. TypeOK'
    <3>1. left[c] \in Nat /\ unread[c] \in Nat /\ left[c] - 1 \in Nat /\ unread[c] + 1 \in Nat
      BY <1>1, <2>1 DEF TypeOK
    <3> QED
      BY <1>1, <2>1, <3>1 DEF TypeOK
  <2>3. Owned' /\ Watched' /\ NoStaleEvent'
    BY <1>1, <2>1 DEF Owned, Watched, NoStaleEvent
  <2> QED
    BY <2>2, <2>3 DEF ServersInv
<1>4. ASSUME NEW c \in Clients, NEW how \in {"fin", "reset"}, Leave(c, how) PROVE ServersInv'
  <2>1. /\ link[c] = "live" /\ link' = [link EXCEPT ![c] = how]
        /\ unread' = IF how = "reset" THEN [unread EXCEPT ![c] = 0] ELSE unread
        /\ UNCHANGED <<server, pc, errno, left, backlog, file, armed, batch>>
    BY <1>4 DEF Leave
  <2>2. TypeOK' /\ Watched' /\ NoStaleEvent'
    BY <1>1, <2>1 DEF TypeOK, Watched, NoStaleEvent, Present
  <2>3. \A b \in Clients : link'[b] \in Present <=> link[b] \in Present
    BY <1>1, <2>1 DEF TypeOK, Present
  <2>4. backlog \subseteq Clients /\ \A f \in FDs : file[f] # NoConn => file[f] \in Clients
    BY <1>1 DEF TypeOK
  <2>5. Owned'
    BY <1>1, <2>1, <2>3, <2>4 DEF Owned
  <2> QED
    BY <2>2, <2>5 DEF ServersInv
<1> QED
  BY <1>2, <1>3, <1>4, EventServersAssumption DEF Peer

LEMMA ServersStart == Init => ServersInv
<1> SUFFICES ASSUME Init PROVE ServersInv
  OBVIOUS
<1>1. TypeOK
  BY EventServersAssumption DEF Init, TypeOK
<1>2. Owned /\ Watched /\ NoStaleEvent
  BY DEF Init, Owned, Watched, NoStaleEvent, Present
<1> QED
  BY <1>1, <1>2 DEF ServersInv

LEMMA ServersStep == ServersInv /\ [Next]_vars => ServersInv'
<1> SUFFICES ASSUME ServersInv, [Next]_vars PROVE ServersInv'
  OBVIOUS
<1> USE DEF kernel
<1>1. TypeOK /\ Owned /\ Watched /\ NoStaleEvent
  BY DEF ServersInv
<1>2. CASE WaitReady
  <2>1. Reported \subseteq Open
    BY DEF Reported
  <2> QED
    BY <1>2, <2>1, ReportStep DEF WaitReady
<1>3. ASSUME NEW f \in FDs, WaitSpurious(f) PROVE ServersInv'
  <2>1. Reported \cup {f} \subseteq Open
    BY <1>3 DEF Reported, WaitSpurious
  <2> QED
    BY <1>3, <2>1, ReportStep DEF WaitSpurious
<1>4. CASE WaitInterrupted
  <2>1. errno' = "retry" /\ UNCHANGED <<server, pc, link, left, unread, backlog, file, armed, batch>>
    BY <1>4 DEF WaitInterrupted
  <2> QED
    BY <1>1, <2>1 DEF ServersInv, TypeOK, Owned, Watched, NoStaleEvent
<1>5. CASE WaitFails
  BY <1>5, StopStep DEF WaitFails
<1>6. CASE Accept
  BY <1>6, AcceptStep
<1>7. CASE AcceptThenClose
  <2>1. PICK c \in backlog :
          /\ backlog' = backlog \ {c} /\ link' = [link EXCEPT ![c] = "over"]
          /\ unread' = [unread EXCEPT ![c] = 0]
    BY <1>7 DEF AcceptThenClose
  <2>2. /\ batch' \subseteq batch /\ pc' \in {"wait", "scan"} /\ pc # "stopped" /\ errno' = "other"
        /\ UNCHANGED <<server, left, file, armed>>
    BY <1>1, <1>7, HandledEffect DEF AcceptThenClose, Watched
  <2>3. c \in Clients /\ \A f \in FDs : file[f] # c
    BY <1>1 DEF TypeOK, Owned
  <2>4. TypeOK' /\ NoStaleEvent' /\ Watched'
    BY <1>1, <2>1, <2>2, <2>3 DEF TypeOK, NoStaleEvent, Watched
  <2>5. link'[c] \notin Present /\ \A b \in Clients \ {c} : link'[b] = link[b]
    BY <1>1, <2>1, <2>3 DEF TypeOK, Present
  <2>6. backlog \subseteq Clients /\ \A f \in FDs : file[f] # NoConn => file[f] \in Clients
    BY <1>1 DEF TypeOK
  <2>7. Owned'
    BY <1>1, <2>1, <2>2, <2>3, <2>5, <2>6 DEF Owned
  <2> QED
    BY <2>4, <2>7 DEF ServersInv
<1>8. ASSUME NEW e \in {"retry", "other"}, AcceptFails(e) PROVE ServersInv'
  <2>1. CASE server = "select_server"
    BY <1>8, <2>1, StopStep DEF AcceptFails
  <2>2. CASE server # "select_server"
    <3>1. /\ Listen \in batch /\ Handled(Listen) /\ errno' = e
          /\ UNCHANGED <<server, link, left, unread, backlog, file, armed>>
      BY <1>8, <2>2 DEF AcceptFails
    <3>2. unread' \in [Clients -> Nat] /\ armed' \in [FDs -> {"off", "once", "level", "fired"}]
      BY <1>1, <3>1 DEF TypeOK
    <3> QED
      BY <3>1, <3>2, NextEventStep
  <2> QED
    BY <2>1, <2>2
<1>9. ASSUME NEW e \in batch, RecvData(e) PROVE ServersInv'
  <2>1. /\ e # Listen /\ unread[e.conn] > 0 /\ Handled(e)
        /\ unread' = [unread EXCEPT ![e.conn] = IF server \in EpollFamily THEN @ - 1 ELSE 0]
        /\ armed' = [armed EXCEPT ![e.fd] = "level"]
        /\ UNCHANGED <<server, errno, link, left, backlog, file>>
    BY <1>9 DEF RecvData
  <2>2. e.fd \in FDs /\ e.conn \in Clients /\ file[e.fd] # NoConn
    BY <1>1, <2>1, ClientEvent
  <2>3. unread' \in [Clients -> Nat]
    <3>1. unread[e.conn] \in Nat /\ unread[e.conn] - 1 \in Nat
      BY <1>1, <2>1, <2>2 DEF TypeOK
    <3> QED
      BY <1>1, <2>1, <3>1 DEF TypeOK
  <2>4. /\ armed' \in [FDs -> {"off", "once", "level", "fired"}]
        /\ armed[e.fd] # "off" /\ armed'[e.fd] # "off"
        /\ \A f \in FDs \ {e.fd} : armed'[f] = armed[f]
    BY <1>1, <2>1, <2>2 DEF TypeOK, Watched
  <2>5. errno' \in {"retry", "other"}
    BY <1>1, <2>1 DEF TypeOK
  <2> QED
    BY <2>1, <2>3, <2>4, <2>5, NextEventStep
<1>10. ASSUME NEW e \in batch, RearmFails(e) PROVE ServersInv'
  BY <1>10, CloseStep DEF RearmFails
<1>11. ASSUME NEW e \in batch, RecvEof(e) PROVE ServersInv'
  <2>1. e # Listen /\ Handled(e) /\ UNCHANGED <<server, errno, left, backlog>>
        /\ errno' \in {"retry", "other"}
    BY <1>1, <1>11 DEF RecvEof, TypeOK
  <2>2. CASE ClosesAtEof
    BY <1>11, <2>1, <2>2, CloseStep DEF RecvEof
  <2>3. CASE ~ClosesAtEof
    <3>1. UNCHANGED <<file, armed, link, unread>>
      BY <1>11, <2>3 DEF RecvEof
    <3>2. unread' \in [Clients -> Nat] /\ armed' \in [FDs -> {"off", "once", "level", "fired"}]
      BY <1>1, <3>1 DEF TypeOK
    <3> QED
      BY <2>1, <3>1, <3>2, NextEventStep
  <2> QED
    BY <2>2, <2>3
<1>12. ASSUME NEW e \in batch, RecvReset(e) PROVE ServersInv'
  BY <1>12, CloseStep DEF RecvReset
<1>13. ASSUME NEW e \in batch, RecvNothing(e) PROVE ServersInv'
  <2>1. /\ Handled(e) /\ errno' = "retry"
        /\ UNCHANGED <<server, link, left, unread, backlog, file, armed>>
    BY <1>13 DEF RecvNothing
  <2>2. unread' \in [Clients -> Nat] /\ armed' \in [FDs -> {"off", "once", "level", "fired"}]
    BY <1>1, <2>1 DEF TypeOK
  <2> QED
    BY <2>1, <2>2, NextEventStep
<1>14. CASE Peer
  BY <1>14, PeerStep
<1>15. CASE UNCHANGED vars
  BY <1>1, <1>15 DEF vars, ServersInv, TypeOK, Owned, Watched, NoStaleEvent
<1> QED
  BY <1>2, <1>3, <1>4, <1>5, <1>6, <1>7, <1>8, <1>9, <1>10, <1>11, <1>12, <1>13, <1>14, <1>15
     DEF Next, Serve, Fault

-----------------------------------------------------------------------------
\* The inductive invariant: who owns a descriptor, and what is watched.
THEOREM Inductive == Spec => []ServersInv
<1>1. Init => ServersInv
  BY ServersStart
<1>2. ServersInv /\ [Next]_vars => ServersInv'
  BY ServersStep
<1> QED
  BY <1>1, <1>2, PTL DEF Spec

\* When the turn of an event comes its descriptor still has the connection the
\* event was reported for, however descriptors are closed and reused in a round.
THEOREM EventsAreFresh == Spec => []NoStaleEvent
<1>1. ServersInv => NoStaleEvent
  BY DEF ServersInv
<1> QED
  BY <1>1, Inductive, PTL

LEMMA OwnedIsNoOrphan == ServersInv => NoOrphan
<1> SUFFICES ASSUME ServersInv PROVE NoOrphan
  OBVIOUS
<1>1. TypeOK /\ Owned /\ Watched
  BY DEF ServersInv
<1>2. \A f : f \in Open <=> f \in FDs /\ file[f] # NoConn
  BY DEF Open, Free
<1>3. ASSUME NEW c \in Clients, pc # "stopped", link[c] \in Present
      PROVE  \/ c \in backlog /\ ~Accepted(c)
             \/ c \notin backlog /\ Cardinality({f \in Open : file[f] = c}) = 1
  <2>1. CASE c \in backlog
    BY <1>1, <1>2, <2>1 DEF Owned, Accepted
  <2>2. CASE c \notin backlog
    <3>1. PICK f \in FDs : file[f] = c
      BY <1>1, <1>3, <2>2 DEF Owned
    <3>2. c # NoConn
      BY EventServersAssumption DEF NoConn
    <3>3. {g \in Open : file[g] = c} = {f}
      BY <1>1, <1>2, <3>1, <3>2 DEF Owned
    <3> QED
      BY <2>2, <3>3, FS_Singleton
  <2> QED
    BY <2>1, <2>2
<1>4. pc # "stopped" => \A f \in FDs : f \in Open <=> armed[f] # "off"
  BY <1>1, <1>2 DEF Watched
<1>5. pc = "stopped" /\ server \notin EpollFamily => Open = {}
  BY <1>1, <1>2 DEF Watched
<1> QED
  BY <1>3, <1>4, <1>5 DEF NoOrphan, Present

\* No connection is forgotten or held twice, just the open descriptors are
\* watched, and a poll or select server that ends leaves none of them open.
THEOREM NothingOrphaned == Spec => []NoOrphan
BY OwnedIsNoOrphan, Inductive, PTL

\* A client is closed by the step that handles its own event.
LEMMA ClosedForCause ==
    ServersInv /\ [Next]_vars =>
        \A c \in Clients : link[c] = "live" /\ link'[c] = "over" => errno' = "other"
<1> SUFFICES ASSUME ServersInv, [Next]_vars, NEW c \in Clients,
                    link[c] = "live", link'[c] = "over", errno' # "other"
             PROVE  FALSE
  OBVIOUS
<1>1. TypeOK /\ NoStaleEvent /\ link \in [Clients -> Present \cup {"idle", "over"}]
  BY DEF ServersInv, TypeOK
<1>2. link' # link
  OBVIOUS
<1>3. CASE Peer
  <2>1. PICK b \in Clients : \E how \in {"live", "fin", "reset"} : link' = [link EXCEPT ![b] = how]
    <3>1. CASE \E b \in Clients : Connect(b)
      BY <3>1 DEF Connect
    <3>2. CASE \E b \in Clients \ Silent : Send(b) \/ Leave(b, "fin") \/ Leave(b, "reset")
      BY <1>2, <3>2 DEF Send, Leave
    <3> QED
      BY <1>3, <3>1, <3>2 DEF Peer
  <2> QED
    BY <1>1, <2>1
<1>4. ASSUME NEW e \in batch, RecvEof(e) PROVE FALSE
  <2>1. e # Listen /\ link[e.conn] = "fin"
    BY <1>4 DEF RecvEof
  <2>2. file[e.fd] = e.conn /\ e.conn \in Clients
    BY <1>1, <2>1, ClientEvent
  <2>3. link' = [link EXCEPT ![e.conn] = "over"]
    BY <1>2, <1>4, <2>2 DEF RecvEof, Close
  <2> QED
    BY <1>1, <2>1, <2>2, <2>3
<1>5. CASE WaitReady \/ WaitInterrupted \/ WaitFails \/ \E f \in FDs : WaitSpurious(f)
  BY <1>2, <1>5 DEF WaitReady, WaitInterrupted, WaitFails, WaitSpurious, Report, kernel
<1>6. CASE Accept \/ AcceptThenClose \/ \E e \in {"retry", "other"} : AcceptFails(e)
  BY <1>2, <1>6 DEF Accept, AcceptThenClose, AcceptFails, kernel
<1>7. CASE \E e \in batch : RecvData(e) \/ RearmFails(e) \/ RecvReset(e) \/ RecvNothing(e)
  BY <1>2, <1>7 DEF RecvData, RearmFails, RecvReset, RecvNothing, kernel
<1>8. CASE UNCHANGED vars
  BY <1>2, <1>8 DEF vars
<1> QED
  BY <1>3, <1>4, <1>5, <1>6, <1>7, <1>8 DEF Next, Serve, Fault

\* No signal, no empty read and no other client's fate closes a client that has
\* not hung up.
THEOREM LiveClientsKept == Spec => LiveClientKept
<1>1. ServersInv /\ [Next]_vars =>
        [\A c \in Clients : link[c] = "live" /\ link'[c] = "over" => errno' = "other"]_vars
  BY ClosedForCause
<1> QED
  BY <1>1, Inductive, PTL DEF Spec, LiveClientKept
=============================================================================
