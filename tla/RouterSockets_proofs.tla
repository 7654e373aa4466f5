------------------------ MODULE RouterSockets_proofs ------------------------
(* Theorems about RouterSockets, for every number of hosts, connections,     *)
(* slots and descriptors.                                                    *)
EXTENDS RouterSockets, MinTheorems, TLAPS

Serving == {"walk", "temp", "run", "joinAnnouncer", "joinListener", "close"}

\* What holds of the main thread's place: the sockets it has made, and the
\* threads that may run.
PhaseInv ==
    /\ main \in {"udp", "tcp", "listen", "failed"} =>
         /\ listener = "none" /\ announcer = "none" /\ ~ running
         /\ peers_fds = [i \in Slots |-> NoFd]
    /\ main = "udp" => open[3] = "free" /\ open[4] = "free"
    /\ main = "tcp" => (open[3] = "free" \/ open[4] = "free") /\ open[udp_socket_fd] = "udp"
    /\ main \in {"tcp", "listen"} \cup Serving => udp_socket_fd \in Fds /\ open[udp_socket_fd] = "udp"
    /\ main \in {"listen"} \cup Serving => tcp_socket_fd \in Fds /\ open[tcp_socket_fd] = "tcp"
    /\ main = "temp" => temp \in Fds /\ open[temp] = "temp"
    /\ main \in {"walk", "temp"} => announcer = "none"
    /\ main \in {"joinListener", "close", "exit"} => announcer \in {"none", "ended"}
    /\ main \in {"close", "exit"} => listener = "ended"

\* A connection has one descriptor, and none before it is accepted.
ConnectionsInv ==
    /\ \A fd \in Fds : open[fd] \in Conns => client[open[fd]] = "accepted"
    /\ \A fd, other \in Fds : open[fd] \in Conns /\ open[fd] = open[other] => fd = other

\* The copy of the slots that is being gone through, and what select said of them.
TodoInv ==
    /\ ready \subseteq Fds
    /\ listener = "accept" => \A fd \in ready : open[fd] \in Conns \cup {"tcp"}
    /\ listener = "accept" => \A fd \in ready \cap Neighbors : Readable(fd)
    /\ listener = "read" =>
         \A i \in DOMAIN todo : todo[i] # NoFd =>
             /\ todo[i] \in Neighbors
             /\ todo[i] \in ready => Readable(todo[i])
             /\ \A j \in DOMAIN todo : todo[i] = todo[j] => i = j

\* A host's route is the descriptor of the connection that announced it last,
\* as long as that one is open.
OwnerInv ==
    \A h \in Hosts :
        /\ owner[h] \in Conns => client[owner[h]] = "accepted"
        /\ \A fd \in Fds : open[fd] = owner[h] => route[h] = fd

\* The two halves of TypeOK: the main thread's variables and the others.
MainTypes ==
    /\ open \in [Fds -> Kernel \cup Conns]
    /\ udp_socket_fd \in Fds \cup {NoFd} /\ tcp_socket_fd \in Fds \cup {NoFd}
    /\ running \in BOOLEAN /\ keepRunning \in BOOLEAN
    /\ main \in {"udp", "tcp", "listen", "walk", "temp", "run", "joinAnnouncer", "joinListener",
                 "close", "exit", "failed", "crashed"}
    /\ walk \in 0 .. Walk /\ temp \in Fds \cup {NoFd}
    /\ announcer \in {"none", "top", "send", "ended"}
    /\ listener \in {"none", "top", "accept", "read", "ended"}

OtherTypes ==
    /\ peers_fds \in [Slots -> Fds \cup {NoFd}]
    /\ ready \subseteq Fds
    /\ todo \in Seq(Fds \cup {NoFd}) /\ Len(todo) <= MaxPeers
    /\ route \in [Hosts -> Nat]
    /\ client \in [Conns -> {"new", "pending", "accepted"}]
    /\ inbox \in [Conns -> Seq([type : {"ANNOUNCE", "DATA"}, host : Hosts])]
    /\ hungUp \subseteq Conns
    /\ wrote \in {Nothing} \cup [to : Conns \cup {"temp"}, host : Hosts]
    /\ owner \in [Hosts -> Conns \cup {Nobody}]

Inv == TypeOK /\ PhaseInv /\ PeersOpen /\ ConnectionsInv /\ TodoInv /\ OwnerInv

-----------------------------------------------------------------------------
(* Descriptors.                                                             *)

\* A new socket gets a descriptor that nothing else has.
LEMMA NewFdIsFree ==
    ASSUME FreeFds # {}
    PROVE  NewFd \in Fds /\ open[NewFd] = "free"
<1>1. FreeFds \subseteq Nat
  BY DEF FreeFds, Fds
<1>2. NewFd \in FreeFds
  BY <1>1, MinIsMember DEF NewFd
<1> QED
  BY <1>2 DEF FreeFds

\* Descriptors of the kernel's kinds are not those of connections.
LEMMA KindsDiffer ==
    /\ \A k \in Kernel : k \notin Conns
    /\ Nobody \notin Conns /\ Nobody \notin Kernel
BY RouterSocketsAssumption DEF Kernel, Nobody

\* What the threads watch is open while they run.
LEMMA WatchedIsOpen ==
    ASSUME Inv, main \in Serving
    PROVE  /\ Watched \subseteq Fds /\ \A fd \in Watched : open[fd] # "free"
           /\ \A fd \in Neighbors : fd \in Fds /\ open[fd] \in Conns
           /\ \A fd \in Watched : Readable(fd) => open[fd] \in Conns \cup {"tcp"}
<1>1. \A fd \in Neighbors : fd \in Fds /\ open[fd] \in Conns
  BY DEF Inv, TypeOK, PeersOpen, Neighbors, ToSet
<1>2. /\ udp_socket_fd \in Fds /\ open[udp_socket_fd] = "udp"
      /\ tcp_socket_fd \in Fds /\ open[tcp_socket_fd] = "tcp"
  BY DEF Inv, PhaseInv
<1>3. "free" \notin Conns
  BY KindsDiffer DEF Kernel
<1> QED
  BY <1>1, <1>2, <1>3 DEF Watched, Readable

-----------------------------------------------------------------------------
(* The steps that leave the connections alone.                              *)

LEMMA OtherTypesStay ==
    ASSUME Inv, UNCHANGED <<peers_fds, ready, todo, route, client, inbox, hungUp, wrote, owner>>
    PROVE  OtherTypes'
BY DEF Inv, TypeOK, OtherTypes

ConnectionsKept == UNCHANGED <<peers_fds, listenVars, client, route, owner>>
Connections == PeersOpen /\ ConnectionsInv /\ TodoInv /\ OwnerInv

\* Nothing is opened, closed, sent or read.
LEMMA SocketsStay ==
    ASSUME Inv, ConnectionsKept, UNCHANGED <<open, inbox, hungUp>>, running' => running
    PROVE  Connections'
<1> USE DEF ConnectionsKept, listenVars
<1>1. PeersOpen'
  BY DEF Inv, PeersOpen
<1>2. ConnectionsInv'
  BY DEF Inv, ConnectionsInv
<1>3. UNCHANGED Neighbors /\ \A fd : UNCHANGED Readable(fd)
  BY DEF Neighbors, Readable, Pending
<1>4. TodoInv'
  BY <1>3 DEF Inv, TodoInv
<1>5. OwnerInv'
  BY DEF Inv, OwnerInv
<1> QED
  BY <1>1, <1>2, <1>4, <1>5 DEF Connections

\* The main thread opens a socket of its own.
LEMMA SocketOpened ==
    ASSUME Inv, ConnectionsKept, UNCHANGED <<inbox, hungUp, running>>, FreeFds # {},
           NEW kind \in {"udp", "tcp", "temp"}, open' = [open EXCEPT ![NewFd] = kind]
    PROVE  Connections'
<1> USE DEF ConnectionsKept, listenVars
<1>1. NewFd \in Fds /\ open[NewFd] = "free" /\ "free" \notin Conns /\ kind \notin Conns
  BY NewFdIsFree, KindsDiffer DEF Kernel
<1>2. /\ open \in [Fds -> Kernel \cup Conns]
      /\ open'[NewFd] = kind
      /\ \A fd \in Fds \ {NewFd} : open'[fd] = open[fd]
  BY <1>1 DEF Inv, TypeOK
<1>3. PeersOpen'
  BY <1>1, <1>2 DEF Inv, PeersOpen, TypeOK
<1>4. ConnectionsInv'
  BY <1>1, <1>2 DEF Inv, ConnectionsInv
<1>5. UNCHANGED Neighbors /\ \A fd \in Neighbors : fd \in Fds /\ open[fd] \in Conns
  BY DEF Inv, PeersOpen, TypeOK, Neighbors, ToSet
<1>6. \A fd \in Neighbors : Readable(fd) => Readable(fd)'
  <2> TAKE fd \in Neighbors
  <2>1. open'[fd] = open[fd] /\ open[fd] \in Conns /\ open[fd] # "tcp"
    BY <1>1, <1>2, <1>5, KindsDiffer DEF Kernel
  <2> QED
    BY <2>1 DEF Readable
<1>7. TodoInv'
  BY <1>1, <1>2, <1>5, <1>6 DEF Inv, TodoInv
<1>8. OwnerInv'
  <2> SUFFICES ASSUME NEW h \in Hosts, NEW fd \in Fds, open'[fd] = owner[h]
               PROVE  route[h] = fd
    BY DEF Inv, OwnerInv
  <2>1. owner[h] \in Conns \cup {Nobody} /\ kind # Nobody
    BY DEF Inv, TypeOK, Nobody
  <2> QED
    BY <1>1, <1>2, <2>1 DEF Inv, OwnerInv
<1> QED
  BY <1>3, <1>4, <1>7, <1>8 DEF Connections

\* The main thread closes sockets of its own.
LEMMA SocketsClosed ==
    ASSUME Inv, ConnectionsKept, UNCHANGED <<inbox, hungUp, running>>,
           NEW set, open' = Closed(set), \A fd \in set : open[fd] \in {"udp", "tcp", "temp"},
           listener = "none" \/ \A fd \in set : open[fd] = "temp"
    PROVE  Connections'
<1> USE DEF ConnectionsKept, listenVars
<1>1. /\ open \in [Fds -> Kernel \cup Conns]
      /\ \A fd \in Fds : open'[fd] = IF fd \in set THEN "free" ELSE open[fd]
  BY DEF Closed, Inv, TypeOK
<1>2. "free" \notin Conns /\ \A fd \in set : open[fd] \notin Conns
  BY KindsDiffer DEF Kernel
<1>3. PeersOpen'
  BY <1>1, <1>2 DEF Inv, PeersOpen, TypeOK
<1>4. ConnectionsInv'
  BY <1>1, <1>2 DEF Inv, ConnectionsInv
<1>5. UNCHANGED Neighbors /\ \A fd \in Neighbors : fd \in Fds /\ open[fd] \in Conns
  BY DEF Inv, PeersOpen, TypeOK, Neighbors, ToSet
<1>6. \A fd \in Neighbors : Readable(fd) => Readable(fd)'
  <2> TAKE fd \in Neighbors
  <2>1. open'[fd] = open[fd] /\ open[fd] \in Conns /\ open[fd] # "tcp"
    BY <1>1, <1>2, <1>5, KindsDiffer DEF Kernel
  <2> QED
    BY <2>1 DEF Readable
<1>7. listener # "none" => \A fd \in ready : open[fd] \in Conns \cup {"tcp"} => open'[fd] = open[fd]
  BY <1>1, <1>2 DEF Inv, TodoInv
<1>8. TodoInv'
  BY <1>5, <1>6, <1>7 DEF Inv, TodoInv
<1>9. OwnerInv'
  <2> SUFFICES ASSUME NEW h \in Hosts, NEW fd \in Fds, open'[fd] = owner[h]
               PROVE  route[h] = fd
    BY DEF Inv, OwnerInv
  <2>1. owner[h] \in Conns \cup {Nobody}
    BY DEF Inv, TypeOK
  <2> QED
    BY <1>1, <1>2, <2>1 DEF Inv, OwnerInv, Nobody
<1> QED
  BY <1>3, <1>4, <1>8, <1>9 DEF Connections

-----------------------------------------------------------------------------
(* The main thread and the thread of announcements.                         *)

LEMMA CreateUdpKeepsInv ==
    ASSUME Inv, CreateUdp
    PROVE  Inv'
<1> USE DEF CreateUdp
<1>1. 3 \in Fds /\ 4 \in Fds /\ open[3] = "free" /\ open[4] = "free"
  BY RouterSocketsAssumption DEF Inv, PhaseInv, Fds
<1>2. FreeFds # {}
  BY <1>1 DEF FreeFds
<1>3. NewFd \in Fds
  BY <1>2, NewFdIsFree
<1>4. ConnectionsKept /\ UNCHANGED <<inbox, hungUp, running>>
  BY DEF ConnectionsKept, listenVars, clientVars, historyVars
<1>5. Connections'
  BY <1>2, <1>4, SocketOpened, SocketsStay
<1>6. TypeOK'
  <2>1. OtherTypes'
    BY OtherTypesStay DEF listenVars, clientVars, historyVars
  <2>2. MainTypes'
    BY <1>3, SMTT(30) DEF Inv, TypeOK, MainTypes, Kernel, listenVars
  <2> QED
    BY <2>1, <2>2 DEF TypeOK, MainTypes, OtherTypes
<1>7. PhaseInv'
  BY <1>1, <1>3 DEF Inv, TypeOK, PhaseInv, Serving, listenVars, clientVars, historyVars
<1> QED
  BY <1>5, <1>6, <1>7 DEF Inv, Connections

LEMMA CreateTcpKeepsInv ==
    ASSUME Inv, CreateTcp
    PROVE  Inv'
<1> USE DEF CreateTcp
<1>1. /\ udp_socket_fd \in Fds /\ open[udp_socket_fd] = "udp" /\ listener = "none"
      /\ \E fd \in Fds : open[fd] = "free"
  BY RouterSocketsAssumption DEF Inv, PhaseInv, Fds
<1>2. FreeFds # {}
  BY <1>1 DEF FreeFds
<1>3. NewFd \in Fds /\ open[NewFd] = "free"
  BY <1>2, NewFdIsFree
<1>4. ConnectionsKept /\ UNCHANGED <<inbox, hungUp, running>>
  BY DEF ConnectionsKept, listenVars, clientVars, historyVars
<1>5. Connections'
  BY <1>1, <1>2, <1>4, SocketOpened, SocketsClosed
<1>6. TypeOK'
  <2>1. OtherTypes'
    BY OtherTypesStay DEF listenVars, clientVars, historyVars
  <2>2. MainTypes'
    <3>1. open' \in [Fds -> Kernel \cup Conns]
      BY DEF Inv, TypeOK, Kernel, Closed
    <3>2. tcp_socket_fd' \in Fds \cup {NoFd} /\ main' \in {"listen", "failed"}
      BY <1>3 DEF Inv, TypeOK
    <3> QED
      BY <3>1, <3>2 DEF Inv, TypeOK, MainTypes, listenVars
  <2> QED
    BY <2>1, <2>2 DEF TypeOK, MainTypes, OtherTypes
<1>7. PhaseInv'
  BY <1>1, <1>3 DEF Inv, TypeOK, PhaseInv, Serving, listenVars, clientVars, historyVars
<1> QED
  BY <1>5, <1>6, <1>7 DEF Inv, Connections

LEMMA StartListenerKeepsInv ==
    ASSUME Inv, StartListener
    PROVE  Inv'
<1> USE DEF StartListener
<1>1. /\ udp_socket_fd \in Fds /\ open[udp_socket_fd] = "udp"
      /\ tcp_socket_fd \in Fds /\ open[tcp_socket_fd] = "tcp"
      /\ listener = "none" /\ ~ running
  BY DEF Inv, PhaseInv
<1>2. Connections'
  <2>1. CASE open' = open /\ running' = TRUE /\ listener' = "top"
    BY <2>1 DEF Inv, Connections, PeersOpen, ConnectionsInv, TodoInv, OwnerInv, Neighbors, Readable,
                Pending, clientVars, historyVars
  <2>2. CASE open' = Closed({udp_socket_fd, tcp_socket_fd}) /\ UNCHANGED <<running, listener>>
    <3>1. ConnectionsKept /\ UNCHANGED <<inbox, hungUp, running>>
      BY <2>2 DEF ConnectionsKept, listenVars, clientVars, historyVars
    <3> QED
      BY <1>1, <2>2, <3>1, SocketsClosed
  <2> QED
    BY <2>1, <2>2
<1>3. TypeOK'
  <2>1. OtherTypes'
    BY OtherTypesStay DEF clientVars, historyVars
  <2>2. MainTypes'
    <3>1. MainTypes
      BY DEF Inv, TypeOK, MainTypes
    <3>2. Closed({udp_socket_fd, tcp_socket_fd}) \in [Fds -> Kernel \cup Conns]
      BY <3>1 DEF MainTypes, Kernel, Closed
    <3>3. open' \in [Fds -> Kernel \cup Conns]
      BY <3>1, <3>2 DEF MainTypes
    <3> QED
      BY <3>1, <3>3 DEF MainTypes
  <2> QED
    BY <2>1, <2>2 DEF TypeOK, MainTypes, OtherTypes
<1>4. PhaseInv'
  BY <1>1 DEF Inv, PhaseInv, Serving
<1> QED
  BY <1>2, <1>3, <1>4 DEF Inv, Connections

LEMMA WalkKeepsInv ==
    ASSUME Inv, WalkOpen \/ WalkClose
    PROVE  Inv'
<1>1. /\ udp_socket_fd \in Fds /\ open[udp_socket_fd] = "udp"
      /\ tcp_socket_fd \in Fds /\ open[tcp_socket_fd] = "tcp"
      /\ announcer = "none"
  BY DEF Inv, PhaseInv, WalkOpen, WalkClose, Serving
<1>2. ConnectionsKept /\ UNCHANGED <<inbox, hungUp, running>>
  BY DEF ConnectionsKept, WalkOpen, WalkClose, listenVars, clientVars, historyVars
<1>3. CASE WalkOpen /\ FreeFds = {}
  <2>1. Connections'
    BY <1>2, <1>3, SocketsStay DEF WalkOpen
  <2>2. TypeOK'
    <3>1. OtherTypes'
      BY <1>3, OtherTypesStay DEF WalkOpen, listenVars, clientVars, historyVars
    <3>2. MainTypes'
      BY <1>3, RouterSocketsAssumption DEF Inv, TypeOK, MainTypes, WalkOpen, listenVars
    <3> QED
      BY <3>1, <3>2 DEF TypeOK, MainTypes, OtherTypes
  <2>3. PhaseInv'
    BY <1>1, <1>3 DEF Inv, PhaseInv, WalkOpen, Serving, listenVars
  <2> QED
    BY <2>1, <2>2, <2>3 DEF Inv, Connections
<1>4. CASE WalkOpen /\ FreeFds # {}
  <2>1. NewFd \in Fds /\ open[NewFd] = "free"
    BY <1>4, NewFdIsFree
  <2>2. Connections'
    BY <1>2, <1>4, SocketOpened DEF WalkOpen
  <2>3. TypeOK'
    <3>1. OtherTypes'
      BY <1>4, OtherTypesStay DEF WalkOpen, listenVars, clientVars, historyVars
    <3>2. MainTypes'
      BY <1>4, <2>1, RouterSocketsAssumption DEF Inv, TypeOK, MainTypes, Kernel, WalkOpen, listenVars
    <3> QED
      BY <3>1, <3>2 DEF TypeOK, MainTypes, OtherTypes
  <2>4. PhaseInv'
    BY <1>1, <1>4, <2>1 DEF Inv, TypeOK, PhaseInv, WalkOpen, Serving, listenVars
  <2> QED
    BY <2>2, <2>3, <2>4 DEF Inv, Connections
<1>5. CASE WalkClose
  <2>1. temp \in Fds /\ open[temp] = "temp"
    BY <1>5 DEF Inv, PhaseInv, WalkClose
  <2>2. Connections'
    BY <1>2, <1>5, <2>1, SocketsClosed DEF WalkClose
  <2>3. TypeOK'
    <3>1. OtherTypes'
      BY <1>5, OtherTypesStay DEF WalkClose, listenVars, clientVars, historyVars
    <3>2. MainTypes'
      BY <1>5 DEF Inv, TypeOK, MainTypes, Kernel, Closed, WalkClose, listenVars
    <3> QED
      BY <3>1, <3>2 DEF TypeOK, MainTypes, OtherTypes
  <2>4. PhaseInv'
    BY <1>1, <1>5, <2>1 DEF Inv, TypeOK, PhaseInv, WalkClose, Closed, Serving, listenVars
  <2> QED
    BY <2>2, <2>3, <2>4 DEF Inv, Connections
<1> QED
  BY <1>3, <1>4, <1>5

\* The steps that touch no socket.
LEMMA ThreadsKeepInv ==
    ASSUME Inv, StartAnnouncer \/ Sigint \/ EndListen \/ JoinAnnouncer \/ JoinListener \/ Announcer
    PROVE  Inv'
<1> USE DEF StartAnnouncer, Sigint, EndListen, JoinAnnouncer, JoinListener, Announcer, mainVars, sockets
<1>1. /\ ConnectionsKept /\ UNCHANGED <<sockets, inbox, hungUp, walk, temp, wrote>>
      /\ running' => running
  BY DEF ConnectionsKept, listenVars, clientVars, historyVars
<1>2. Connections'
  BY <1>1, SocketsStay
<1>3. TypeOK'
  <2>1. OtherTypes'
    BY <1>1, OtherTypesStay DEF ConnectionsKept, listenVars
  <2>2. MainTypes'
    <3>1. /\ open' \in [Fds -> Kernel \cup Conns]
          /\ udp_socket_fd' \in Fds \cup {NoFd} /\ tcp_socket_fd' \in Fds \cup {NoFd}
          /\ walk' \in 0 .. Walk /\ temp' \in Fds \cup {NoFd}
          /\ listener' \in {"none", "top", "accept", "read", "ended"}
      BY <1>1 DEF Inv, TypeOK, ConnectionsKept, listenVars
    <3>2. running' \in BOOLEAN /\ keepRunning' \in BOOLEAN
      BY DEF Inv, TypeOK
    <3>3. main' \in {"udp", "tcp", "listen", "walk", "temp", "run", "joinAnnouncer", "joinListener",
                    "close", "exit", "failed", "crashed"}
      BY DEF Inv, TypeOK
    <3>4. announcer' \in {"none", "top", "send", "ended"}
      BY DEF Inv, TypeOK
    <3> QED
      BY <3>1, <3>2, <3>3, <3>4 DEF MainTypes
  <2> QED
    BY <2>1, <2>2 DEF TypeOK, MainTypes, OtherTypes
<1>4. PhaseInv'
  BY <1>1 DEF Inv, TypeOK, PhaseInv, Serving, Alive, ConnectionsKept, listenVars
<1> QED
  BY <1>2, <1>3, <1>4 DEF Inv, Connections

LEMMA CloseAllKeepsInv ==
    ASSUME Inv, CloseAll
    PROVE  Inv'
<1> USE DEF CloseAll
<1>1. listener = "ended" /\ announcer \in {"none", "ended"}
  BY DEF Inv, PhaseInv
<1>2. TypeOK'
  <2>1. MainTypes'
    BY DEF Inv, TypeOK, MainTypes, Kernel, Closed, listenVars
  <2>2. OtherTypes'
    BY DEF Inv, TypeOK, OtherTypes, listenVars, clientVars, historyVars
  <2> QED
    BY <2>1, <2>2 DEF TypeOK, MainTypes, OtherTypes
<1>3. PhaseInv'
  BY <1>1 DEF PhaseInv, Serving, listenVars
<1>4. /\ \A fd \in Fds : open'[fd] \in {"free", open[fd]}
      /\ UNCHANGED <<client, owner, route>>
      /\ "free" \notin Conns
  BY KindsDiffer DEF Closed, Kernel, clientVars, historyVars
<1>5. PeersOpen' /\ TodoInv'
  BY <1>1 DEF Inv, PeersOpen, TodoInv, listenVars
<1>6. ConnectionsInv'
  BY <1>4 DEF Inv, ConnectionsInv
<1>7. OwnerInv'
  <2>0. \A h \in Hosts : owner'[h] \in Conns => client'[owner'[h]] = "accepted"
    BY <1>4 DEF Inv, OwnerInv
  <2> SUFFICES ASSUME NEW h \in Hosts, NEW fd \in Fds, open'[fd] = owner[h]
               PROVE  route[h] = fd
    BY <1>4, <2>0 DEF OwnerInv
  <2>1. owner[h] \in Conns \cup {Nobody}
    BY DEF Inv, TypeOK
  <2> QED
    BY <1>4, <2>1 DEF Inv, OwnerInv, Nobody
<1> QED
  BY <1>2, <1>3, <1>5, <1>6, <1>7 DEF Inv

-----------------------------------------------------------------------------
(* The hosts.                                                               *)

\* What hosts do only adds to what can be read.
LEMMA HostsKeepInv ==
    ASSUME Inv, NEW c \in Conns, Connect(c) \/ HangUp(c)
    PROVE  Inv'
<1>1. /\ UNCHANGED <<sockets, peers_fds, running, mainVars, announcer, listenVars, route, historyVars>>
      /\ Neighbors' = Neighbors
  BY DEF Connect, HangUp, Neighbors
<1>2. /\ client' \in [Conns -> {"new", "pending", "accepted"}]
      /\ inbox' \in [Conns -> Seq([type : {"ANNOUNCE", "DATA"}, host : Hosts])]
      /\ hungUp' \subseteq Conns
      /\ \A d \in Conns : client[d] = "accepted" => client'[d] = "accepted"
      /\ \A d \in Conns : inbox[d] # << >> => inbox'[d] # << >>
      /\ hungUp \subseteq hungUp'
  <2>1. CASE HangUp(c)
    <3>1. hungUp' = hungUp \cup {c} /\ UNCHANGED <<client, inbox>>
      BY <2>1 DEF HangUp
    <3>2. /\ client \in [Conns -> {"new", "pending", "accepted"}]
          /\ inbox \in [Conns -> Seq([type : {"ANNOUNCE", "DATA"}, host : Hosts])]
          /\ hungUp \subseteq Conns
      BY DEF Inv, TypeOK
    <3>3. hungUp' \subseteq Conns /\ hungUp \subseteq hungUp'
      BY <3>1, <3>2
    <3> QED
      BY <3>1, <3>2, <3>3 DEF Inv
  <2>2. CASE Connect(c)
    <3>1. client' = [client EXCEPT ![c] = "pending"] /\ client[c] = "new" /\ hungUp' = hungUp
      BY <2>2 DEF Connect
    <3>2. PICK frame \in [type : {"ANNOUNCE", "DATA"}, host : Hosts] :
              inbox' = [inbox EXCEPT ![c] = <<frame>>]
      <4>1. HostOf[c] # "sender" => HostOf[c] \in Hosts
        BY RouterSocketsAssumption
      <4> QED
        BY <2>2, <4>1 DEF Connect
    <3>3. /\ client \in [Conns -> {"new", "pending", "accepted"}]
          /\ inbox \in [Conns -> Seq([type : {"ANNOUNCE", "DATA"}, host : Hosts])]
          /\ hungUp \subseteq Conns
      BY DEF Inv, TypeOK
    <3>4. <<frame>> \in Seq([type : {"ANNOUNCE", "DATA"}, host : Hosts]) /\ <<frame>> # << >>
      OBVIOUS
    <3>5. /\ inbox' \in [Conns -> Seq([type : {"ANNOUNCE", "DATA"}, host : Hosts])]
          /\ \A d \in Conns : inbox'[d] \in {inbox[d], <<frame>>}
      BY <3>2, <3>3, <3>4
    <3>6. /\ client' \in [Conns -> {"new", "pending", "accepted"}]
          /\ \A d \in Conns : client[d] = "accepted" => client'[d] = "accepted"
      BY <3>1, <3>3
    <3> QED
      BY <3>1, <3>3, <3>4, <3>5, <3>6
  <2> QED
    BY <2>1, <2>2
<1>3. TypeOK'
  <2>1. MainTypes'
    BY <1>1 DEF Inv, TypeOK, MainTypes, sockets, mainVars, listenVars
  <2>2. OtherTypes'
    BY <1>1, <1>2 DEF Inv, TypeOK, OtherTypes, listenVars, historyVars
  <2> QED
    BY <2>1, <2>2 DEF TypeOK, MainTypes, OtherTypes
<1>4. PhaseInv'
  BY <1>1 DEF Inv, PhaseInv, sockets, mainVars, listenVars
<1>5. PeersOpen'
  BY <1>1 DEF Inv, PeersOpen, sockets, listenVars
<1>6. ConnectionsInv'
  BY <1>1, <1>2 DEF Inv, ConnectionsInv, sockets
<1>7. TodoInv'
  <2>1. Neighbors \subseteq Fds /\ \A fd \in Neighbors : open[fd] \in Conns
    BY DEF Inv, TypeOK, PeersOpen, Neighbors, ToSet
  <2>2. \A fd \in Neighbors : Readable(fd) => Readable(fd)'
    <3> TAKE fd \in Neighbors
    <3>1. open'[fd] = open[fd] /\ open[fd] \in Conns /\ open[fd] # "tcp"
      BY <1>1, <2>1, KindsDiffer DEF Kernel, sockets
    <3> QED
      BY <1>2, <3>1 DEF Readable
  <2> QED
    BY <1>1, <2>2 DEF Inv, TodoInv, sockets, listenVars
<1>8. OwnerInv'
  BY <1>1, <1>2 DEF Inv, OwnerInv, sockets, historyVars
<1> QED
  BY <1>3, <1>4, <1>5, <1>6, <1>7, <1>8 DEF Inv

-----------------------------------------------------------------------------
(* The listening thread.                                                    *)

\* A listening thread that runs has its sockets.
LEMMA ListenerServes ==
    ASSUME Inv, Alive, listener \in {"top", "accept", "read"}
    PROVE  main \in Serving \ {"close"}
BY DEF Inv, TypeOK, PhaseInv, Serving, Alive

LEMMA SelectKeepsInv ==
    ASSUME Inv, Select
    PROVE  Inv'
<1> USE DEF Select
<1>1. main \in Serving \ {"close"}
  BY ListenerServes
<1>2. /\ Watched \subseteq Fds /\ \A fd \in Watched : open[fd] # "free"
      /\ \A fd \in Watched : Readable(fd) => open[fd] \in Conns \cup {"tcp"}
  BY <1>1, WatchedIsOpen
<1>3. /\ UNCHANGED <<sockets, peers_fds, running, mainVars, announcer, todo, route, clientVars, historyVars>>
      /\ UNCHANGED Neighbors
      /\ \/ listener' = "ended" /\ ready' = ready /\ ~ running
         \/ listener' = "accept" /\ ready' = {fd \in Watched : Readable(fd)}
  BY <1>2 DEF Neighbors
<1>4. TypeOK'
  <2>1. MainTypes'
    BY <1>3 DEF Inv, TypeOK, MainTypes, sockets, mainVars
  <2>2. OtherTypes'
    BY <1>2, <1>3 DEF Inv, TypeOK, OtherTypes, clientVars, historyVars
  <2> QED
    BY <2>1, <2>2 DEF TypeOK, MainTypes, OtherTypes
<1>5. PhaseInv'
  BY <1>1, <1>3 DEF Inv, PhaseInv, sockets, mainVars, Serving
<1>6. PeersOpen' /\ ConnectionsInv' /\ OwnerInv'
  BY <1>3 DEF Inv, PeersOpen, ConnectionsInv, OwnerInv, sockets, clientVars, historyVars
<1>7. TodoInv'
  <2>1. \A fd : Readable(fd) => Readable(fd)'
    BY <1>3 DEF Readable, Pending, sockets, clientVars
  <2> QED
    BY <1>2, <1>3, <2>1 DEF Inv, TodoInv, sockets
<1> QED
  BY <1>4, <1>5, <1>6, <1>7 DEF Inv

LEMMA AcceptKeepsInv ==
    ASSUME Inv, Accept
    PROVE  Inv'
<1>1. /\ main \in Serving \ {"close"} /\ listener = "accept" /\ listener' = "read"
      /\ todo' = peers_fds'
      /\ UNCHANGED <<udp_socket_fd, tcp_socket_fd, running, mainVars, announcer, ready, route>>
      /\ UNCHANGED <<inbox, hungUp, historyVars>>
  BY ListenerServes DEF Accept
<1>2. CASE UNCHANGED <<open, client, peers_fds>>
  <2>1. UNCHANGED Neighbors /\ \A fd : Readable(fd) => Readable(fd)'
    BY <1>1, <1>2 DEF Neighbors, Readable, Pending
  <2>2. \A i \in DOMAIN todo' : todo'[i] # NoFd => todo'[i] \in Neighbors'
    BY <1>1 DEF Neighbors, ToSet
  <2>3. PeersOpen' /\ ConnectionsInv' /\ OwnerInv'
    BY <1>1, <1>2 DEF Inv, PeersOpen, ConnectionsInv, OwnerInv, historyVars
  <2>4. TodoInv'
    BY <1>1, <1>2, <2>1, <2>2, <2>3 DEF Inv, TypeOK, TodoInv, PeersOpen
  <2>5. PhaseInv'
    BY <1>1, <1>2 DEF Inv, PhaseInv, mainVars, Serving
  <2>6. MainTypes'
    BY <1>1, <1>2 DEF Inv, TypeOK, MainTypes, mainVars
  <2>7. OtherTypes'
    <3>1. todo' \in Seq(Fds \cup {NoFd}) /\ Len(todo') <= MaxPeers
      BY <1>1, <1>2, RouterSocketsAssumption DEF Inv, TypeOK, Slots
    <3> QED
      BY <1>1, <1>2, <3>1 DEF Inv, TypeOK, OtherTypes, historyVars
  <2> QED
    BY <2>3, <2>4, <2>5, <2>6, <2>7 DEF Inv, TypeOK, MainTypes, OtherTypes
<1>3. ASSUME FreeFds # {},
             NEW c \in Pending,
             open' = [open EXCEPT ![NewFd] = c],
             client' = [client EXCEPT ![c] = "accepted"],
             AddPeer(NewFd)
      PROVE  Inv'
  <2>1. /\ NewFd \in Fds /\ open[NewFd] = "free" /\ "free" \notin Conns /\ "tcp" \notin Conns
        /\ c \in Conns /\ c \notin Kernel /\ client[c] = "pending"
    BY <1>3, NewFdIsFree, KindsDiffer DEF Kernel, Pending
  <2>2. /\ open'[NewFd] = c
        /\ \A fd \in Fds \ {NewFd} : open'[fd] = open[fd]
        /\ \A d \in Conns : client'[d] = IF d = c THEN "accepted" ELSE client[d]
    BY <1>3, <2>1 DEF Inv, TypeOK
  <2>3. /\ peers_fds' \in [Slots -> Fds \cup {NoFd}]
        /\ \A i \in Slots : peers_fds'[i] \in {peers_fds[i], NewFd}
        /\ \A i, j \in Slots : peers_fds'[i] = NewFd /\ peers_fds'[j] = NewFd => i = j
    <3>1. \A i \in Slots : peers_fds[i] # NewFd
      BY <2>1 DEF Inv, PeersOpen, NoFd, Fds
    <3> QED
      BY <1>3, <2>1, <3>1 DEF Inv, TypeOK, AddPeer
  <2>4. PeersOpen'
    <3>1. \A i \in Slots : peers_fds'[i] # NoFd => open'[peers_fds'[i]] \in Conns
      <4> TAKE i \in Slots
      <4>1. CASE peers_fds'[i] = NewFd
        BY <2>1, <2>2, <4>1
      <4>2. CASE peers_fds'[i] # NewFd
        BY <2>2, <2>3, <4>2 DEF Inv, TypeOK, PeersOpen
      <4> QED
        BY <4>1, <4>2
    <3>2. \A i, j \in Slots : peers_fds'[i] = peers_fds'[j] /\ peers_fds'[i] # NoFd => i = j
      BY <2>3 DEF Inv, PeersOpen
    <3> QED
      BY <1>1, <3>1, <3>2 DEF PeersOpen
  <2>5. \A fd \in Fds : open[fd] # c
    BY <2>1 DEF Inv, ConnectionsInv
  <2>6. ConnectionsInv'
    <3>1. \A fd \in Fds : open'[fd] \in Conns => client'[open'[fd]] = "accepted"
      BY <2>1, <2>2 DEF Inv, ConnectionsInv
    <3>2. \A fd, other \in Fds : open'[fd] \in Conns /\ open'[fd] = open'[other] => fd = other
      BY <2>1, <2>2, <2>5 DEF Inv, ConnectionsInv
    <3> QED
      BY <3>1, <3>2 DEF ConnectionsInv
  <2>7. OwnerInv'
    <3>1. \A h \in Hosts : owner[h] # c
      BY <2>1 DEF Inv, OwnerInv
    <3>2. \A h \in Hosts : owner'[h] \in Conns => client'[owner'[h]] = "accepted"
      BY <1>1, <2>2 DEF Inv, OwnerInv, historyVars
    <3>3. \A h \in Hosts : \A fd \in Fds : open'[fd] = owner'[h] => route'[h] = fd
      BY <1>1, <2>2, <3>1 DEF Inv, OwnerInv, historyVars
    <3> QED
      BY <3>2, <3>3 DEF OwnerInv
  <2>8. TodoInv'
    <3>1. NewFd \notin ready
      BY <1>1, <2>1 DEF Inv, TodoInv
    <3>2. \A i \in DOMAIN todo' : todo'[i] # NoFd => todo'[i] \in Neighbors'
      BY <1>1 DEF Neighbors, ToSet
    <3>3. \A i \in DOMAIN todo' : todo'[i] # NoFd /\ todo'[i] # NewFd => todo'[i] \in Neighbors
      BY <1>1, <2>3 DEF Inv, TypeOK, Neighbors, ToSet
    <3>4. \A fd \in Neighbors : fd # NewFd /\ Readable(fd) => Readable(fd)'
      <4> SUFFICES ASSUME NEW fd \in Neighbors, fd # NewFd, Readable(fd)
                   PROVE  Readable(fd)'
        OBVIOUS
      <4>1. fd \in Fds /\ open'[fd] = open[fd] /\ open[fd] \in Conns /\ open[fd] # "tcp"
        BY <1>1, <2>1, <2>2, WatchedIsOpen
      <4> QED
        BY <1>1, <4>1 DEF Readable
    <3>5. (\A i \in DOMAIN todo : todo[i] # NoFd /\ todo[i] \in ready => Readable(todo[i]))'
      <4>1. \A fd \in Neighbors \cap ready : Readable(fd)'
        BY <1>1, <3>1, <3>4 DEF Inv, TodoInv
      <4> QED
        BY <1>1, <3>1, <3>3, <4>1 DEF Readable
    <3>6. \A i, j \in DOMAIN todo' : todo'[i] # NoFd /\ todo'[i] = todo'[j] => i = j
      BY <1>1, <2>3, <2>4 DEF PeersOpen
    <3>7. ready' \subseteq Fds
      BY <1>1 DEF Inv, TodoInv
    <3> QED
      BY <1>1, <3>2, <3>5, <3>6, <3>7 DEF TodoInv
  <2>9. PhaseInv'
    BY <1>1, <2>1, <2>2 DEF Inv, PhaseInv, mainVars, Serving
  <2>10. MainTypes'
    <3>1. open' \in [Fds -> Kernel \cup Conns]
      BY <1>3, <2>1 DEF Inv, TypeOK
    <3> QED
      BY <1>1, <3>1 DEF Inv, TypeOK, MainTypes, mainVars
  <2>11. OtherTypes'
    <3>1. client' \in [Conns -> {"new", "pending", "accepted"}]
      BY <1>3, <2>1 DEF Inv, TypeOK
    <3>2. todo' \in Seq(Fds \cup {NoFd}) /\ Len(todo') <= MaxPeers
      BY <1>1, <2>3, RouterSocketsAssumption DEF Slots
    <3> QED
      BY <1>1, <2>3, <3>1, <3>2 DEF Inv, TypeOK, OtherTypes, historyVars
  <2> QED
    BY <2>4, <2>6, <2>7, <2>8, <2>9, <2>10, <2>11 DEF Inv, TypeOK, MainTypes, OtherTypes
<1> QED
  BY <1>2, <1>3 DEF Accept

\* The descriptor that is read is an open connection, with something to read.
LEMMA HeadIsConnection ==
    ASSUME Inv, listener = "read", todo # << >>, Reads(Head(todo))
    PROVE  /\ Head(todo) \in Fds \cap Neighbors /\ open[Head(todo)] \in Conns
           /\ Readable(Head(todo))
<1>1. Head(todo) # NoFd /\ Head(todo) = todo[1] /\ 1 \in DOMAIN todo
  BY DEF Inv, TypeOK, TodoInv, Reads, NoFd, Fds
<1>2. \A fd \in Neighbors : fd \in Fds /\ open[fd] \in Conns
  BY DEF Inv, TypeOK, PeersOpen, Neighbors, ToSet
<1> QED
  BY <1>1, <1>2 DEF Inv, TodoInv, Reads

\* What is left to look at is what was, without the first.
LEMMA TailKept ==
    ASSUME Inv, todo # << >>
    PROVE  /\ Tail(todo) \in Seq(Fds \cup {NoFd}) /\ Len(Tail(todo)) <= MaxPeers
           /\ \A i \in DOMAIN Tail(todo) : i + 1 \in DOMAIN todo /\ Tail(todo)[i] = todo[i + 1]
           /\ DOMAIN Tail(todo) \subseteq Nat \ {0}
BY RouterSocketsAssumption DEF Inv, TypeOK

\* One turn of the loop over the copied slots, whatever is done with the slot:
\* what must hold of the step for the rest of the copy to stay good.
LEMMA TurnKeepsTodo ==
    ASSUME Inv, listener = "read", todo # << >>, todo' = Tail(todo),
           UNCHANGED <<ready, listener>>,
           Neighbors \ {Head(todo)} \subseteq Neighbors',
           \A fd \in Neighbors \ {Head(todo)} : Readable(fd) => Readable(fd)'
    PROVE  TodoInv'
<1>1. /\ \A i \in DOMAIN todo' : i + 1 \in DOMAIN todo /\ todo'[i] = todo[i + 1]
      /\ DOMAIN todo' \subseteq Nat \ {0}
      /\ Head(todo) = todo[1] /\ 1 \in DOMAIN todo
  BY TailKept DEF Inv, TypeOK
<1>2. \A i \in DOMAIN todo' : todo'[i] # NoFd =>
          /\ todo'[i] \in Neighbors \ {Head(todo)}
          /\ todo'[i] \in ready => Readable(todo[i + 1])
          /\ \A j \in DOMAIN todo' : todo'[i] = todo'[j] => i = j
  <2> SUFFICES ASSUME NEW i \in DOMAIN todo', todo'[i] # NoFd
               PROVE  /\ todo'[i] \in Neighbors \ {Head(todo)}
                      /\ todo'[i] \in ready => Readable(todo[i + 1])
                      /\ \A j \in DOMAIN todo' : todo'[i] = todo'[j] => i = j
    OBVIOUS
  <2>1. /\ i + 1 \in DOMAIN todo /\ todo'[i] = todo[i + 1] /\ i \in Nat \ {0}
        /\ todo[i + 1] \in Neighbors
        /\ todo[i + 1] \in ready => Readable(todo[i + 1])
        /\ \A j \in DOMAIN todo : todo[i + 1] = todo[j] => i + 1 = j
    BY <1>1 DEF Inv, TodoInv
  <2>2. todo[i + 1] # Head(todo)
    BY <1>1, <2>1
  <2>3. \A j \in DOMAIN todo' : todo'[i] = todo'[j] => i = j
    BY <1>1, <2>1
  <2> QED
    BY <2>1, <2>2, <2>3
<1>3. (\A i \in DOMAIN todo : todo[i] # NoFd =>
          /\ todo[i] \in Neighbors
          /\ todo[i] \in ready => Readable(todo[i])
          /\ \A j \in DOMAIN todo : todo[i] = todo[j] => i = j)'
  BY <1>1, <1>2 DEF Readable
<1> QED
  BY <1>3 DEF Inv, TodoInv

LEMMA ReadKeepsInv ==
    ASSUME Inv, Read
    PROVE  Inv'
<1>1. /\ main \in Serving \ {"close"} /\ listener = "read"
      /\ UNCHANGED <<udp_socket_fd, tcp_socket_fd, running, mainVars, announcer, client, hungUp>>
  BY ListenerServes DEF Read
<1>2. CASE todo = << >>
  <2>1. /\ listener' = "top" /\ ready' = {} /\ wrote' = Nothing
        /\ UNCHANGED <<open, peers_fds, todo, route, inbox, owner>>
    BY <1>2 DEF Read
  <2>2. MainTypes'
    BY <1>1, <2>1 DEF Inv, TypeOK, MainTypes, mainVars
  <2>3. OtherTypes'
    BY <1>1, <2>1 DEF Inv, TypeOK, OtherTypes
  <2>4. PhaseInv'
    BY <1>1, <2>1 DEF Inv, PhaseInv, mainVars, Serving
  <2>5. PeersOpen' /\ ConnectionsInv' /\ OwnerInv' /\ TodoInv'
    BY <1>1, <2>1 DEF Inv, PeersOpen, ConnectionsInv, OwnerInv, TodoInv
  <2> QED
    BY <2>2, <2>3, <2>4, <2>5 DEF Inv, TypeOK, MainTypes, OtherTypes
<1>3. ASSUME todo # << >>, todo' = Tail(todo), UNCHANGED <<listener, ready>>
      PROVE  /\ Skip => Inv'
             /\ ReadFrame => Inv'
             /\ Disconnect => Inv'
  <2>1. todo' \in Seq(Fds \cup {NoFd}) /\ Len(todo') <= MaxPeers
    BY <1>3, TailKept
  <2>2. \A fd \in Neighbors : fd \in Fds /\ open[fd] \in Conns /\ open[fd] # "tcp"
    BY KindsDiffer DEF Inv, TypeOK, PeersOpen, Neighbors, ToSet, Kernel
  <2>3. ASSUME Skip PROVE Inv'
    <3>1. UNCHANGED <<open, peers_fds, route, inbox, owner>> /\ wrote' = Nothing
      BY <2>3 DEF Skip
    <3>2. UNCHANGED Neighbors /\ \A fd \in Neighbors : Readable(fd) => Readable(fd)'
      BY <1>1, <3>1 DEF Neighbors, Readable, Pending
    <3>3. TodoInv'
      BY <1>1, <1>3, <3>2, TurnKeepsTodo
    <3>4. MainTypes'
      BY <1>1, <1>3, <3>1 DEF Inv, TypeOK, MainTypes, mainVars
    <3>5. OtherTypes'
      BY <1>1, <1>3, <2>1, <3>1 DEF Inv, TypeOK, OtherTypes
    <3>6. PhaseInv' /\ PeersOpen' /\ ConnectionsInv' /\ OwnerInv'
      BY <1>1, <1>3, <3>1 DEF Inv, PhaseInv, mainVars, Serving, PeersOpen, ConnectionsInv, OwnerInv
    <3> QED
      BY <3>3, <3>4, <3>5, <3>6 DEF Inv, TypeOK, MainTypes, OtherTypes
  <2>4. ASSUME ReadFrame PROVE Inv'
    <3> DEFINE fd == Head(todo)
               c  == open[fd]
               frame == Head(inbox[c])
    <3>1. /\ Reads(fd) /\ inbox[c] # << >>
          /\ inbox' = [inbox EXCEPT ![c] = Tail(@)]
          /\ Process(fd, frame)
          /\ UNCHANGED <<open, peers_fds>>
      BY <2>4 DEF ReadFrame
    <3>2. fd \in Fds /\ c \in Conns
      BY <1>1, <1>3, <3>1, HeadIsConnection
    <3>3. /\ inbox[c] \in Seq([type : {"ANNOUNCE", "DATA"}, host : Hosts])
          /\ frame.host \in Hosts
      <4> DEFINE Frames == [type : {"ANNOUNCE", "DATA"}, host : Hosts]
      <4>1. inbox[c] \in Seq(Frames)
        BY <3>2 DEF Inv, TypeOK
      <4>2. frame \in Frames
        <5> HIDE DEF Frames
        <5> QED
          BY <3>1, <4>1
      <4> QED
        BY <4>1, <4>2
    <3>4. /\ inbox' \in [Conns -> Seq([type : {"ANNOUNCE", "DATA"}, host : Hosts])]
          /\ \A d \in Conns \ {c} : inbox'[d] = inbox[d]
      <4>1. Tail(inbox[c]) \in Seq([type : {"ANNOUNCE", "DATA"}, host : Hosts])
        BY <3>1, <3>3
      <4> QED
        BY <3>1, <3>2, <4>1 DEF Inv, TypeOK
    <3>5. TodoInv'
      <4>1. \A other \in Neighbors \ {fd} : Readable(other) => Readable(other)'
        <5> TAKE other \in Neighbors \ {fd}
        <5>1. open[other] \in Conns \ {c} /\ open[other] # "tcp"
          BY <2>2, <3>2 DEF Inv, ConnectionsInv
        <5> QED
          BY <1>1, <3>1, <3>4, <5>1 DEF Readable
      <4> QED
        BY <1>1, <1>3, <3>1, <4>1, TurnKeepsTodo DEF Neighbors
    <3>6. /\ route' \in [Hosts -> Nat] /\ owner' \in [Hosts -> Conns \cup {Nobody}]
          /\ wrote' \in {Nothing} \cup [to : Conns \cup {"temp"}, host : Hosts]
      <4>1. CASE Announce(fd, frame.host)
        <5>1. /\ route \in [Hosts -> Nat] /\ owner \in [Hosts -> Conns \cup {Nobody}]
              /\ wrote' = Nothing /\ fd \in Nat
              /\ route' = [route EXCEPT ![frame.host] = fd] /\ owner' = [owner EXCEPT ![frame.host] = c]
          BY <3>2, <4>1 DEF Inv, TypeOK, Announce, Fds
        <5> HIDE DEF fd, c, frame
        <5>2. route' \in [Hosts -> Nat] /\ owner' \in [Hosts -> Conns \cup {Nobody}]
          BY <3>2, <3>3, <5>1
        <5> QED
          BY <5>1, <5>2
      <4>2. CASE SendToHost(frame.host)
        BY <3>3, <4>2 DEF Inv, TypeOK, SendToHost
      <4> QED
        BY <3>1, <4>1, <4>2 DEF Process
    <3>7. OwnerInv'
      <4>1. CASE Announce(fd, frame.host)
        <5>1. /\ route' = [route EXCEPT ![frame.host] = fd] /\ owner' = [owner EXCEPT ![frame.host] = c]
              /\ route \in [Hosts -> Nat] /\ owner \in [Hosts -> Conns \cup {Nobody}]
              /\ UNCHANGED <<open, client>>
          BY <1>1, <3>1, <4>1 DEF Inv, TypeOK, Announce, clientVars
        <5>2. client[c] = "accepted" /\ \A other \in Fds : open[other] = c => other = fd
          BY <3>2 DEF Inv, ConnectionsInv
        <5> HIDE DEF fd, c, frame
        <5>3. \A h \in Hosts : /\ route'[h] = IF h = frame.host THEN fd ELSE route[h]
                               /\ owner'[h] = IF h = frame.host THEN c ELSE owner[h]
          BY <3>3, <5>1
        <5> QED
          BY <5>1, <5>2, <5>3 DEF Inv, OwnerInv
      <4>2. CASE SendToHost(frame.host)
        BY <1>1, <3>1, <4>2 DEF Inv, OwnerInv, SendToHost
      <4> QED
        BY <3>1, <4>1, <4>2 DEF Process
    <3>8. MainTypes'
      BY <1>1, <1>3, <3>1 DEF Inv, TypeOK, MainTypes, mainVars
    <3>9. OtherTypes'
      BY <1>1, <1>3, <2>1, <3>1, <3>4, <3>6 DEF Inv, TypeOK, OtherTypes
    <3>10. PhaseInv' /\ PeersOpen' /\ ConnectionsInv'
      BY <1>1, <1>3, <3>1 DEF Inv, PhaseInv, mainVars, Serving, PeersOpen, ConnectionsInv
    <3> QED
      BY <3>5, <3>7, <3>8, <3>9, <3>10 DEF Inv, TypeOK, MainTypes, OtherTypes
  <2>5. ASSUME Disconnect PROVE Inv'
    <3> DEFINE fd == Head(todo)
    <3>1. /\ Reads(fd) /\ RemovePeer(fd) /\ open' = Closed({fd}) /\ wrote' = Nothing
          /\ UNCHANGED <<route, inbox, owner>>
      BY <2>5 DEF Disconnect
    <3>2. fd \in Fds /\ open[fd] \in Conns /\ open[fd] \notin Kernel /\ "free" \notin Conns
      BY <1>1, <1>3, <3>1, HeadIsConnection, KindsDiffer DEF Kernel
    <3>3. /\ open' \in [Fds -> Kernel \cup Conns]
          /\ \A other \in Fds : open'[other] = IF other = fd THEN "free" ELSE open[other]
      BY <3>1 DEF Closed, Inv, TypeOK, Kernel
    <3>4. /\ peers_fds' \in [Slots -> Fds \cup {NoFd}]
          /\ \A i \in Slots : peers_fds'[i] = IF peers_fds[i] = fd THEN NoFd ELSE peers_fds[i]
      BY <3>1 DEF RemovePeer, Inv, TypeOK
    <3>5. PeersOpen'
      BY <1>1, <1>3, <3>2, <3>3, <3>4 DEF Inv, TypeOK, PeersOpen
    <3>6. ConnectionsInv'
      BY <1>1, <3>2, <3>3 DEF Inv, ConnectionsInv
    <3>7. TodoInv'
      <4>1. Neighbors \ {fd} \subseteq Neighbors'
        BY <3>4 DEF Neighbors, ToSet, Inv, TypeOK
      <4>2. \A other \in Neighbors \ {fd} : Readable(other) => Readable(other)'
        <5> TAKE other \in Neighbors \ {fd}
        <5>1. open[other] \in Conns /\ open[other] # "tcp" /\ open'[other] = open[other]
          BY <2>2, <3>3
        <5> QED
          BY <1>1, <3>1, <5>1 DEF Readable
      <4> QED
        BY <1>1, <1>3, <4>1, <4>2, TurnKeepsTodo
    <3>8. OwnerInv'
      <4>1. \A h \in Hosts : owner'[h] \in Conns => client'[owner'[h]] = "accepted"
        BY <1>1, <3>1 DEF Inv, OwnerInv
      <4>2. \A h \in Hosts : owner[h] # "free"
        BY <3>2 DEF Inv, TypeOK, Nobody
      <4>3. \A h \in Hosts : \A other \in Fds : open'[other] = owner'[h] => route'[h] = other
        BY <3>1, <3>3, <4>2 DEF Inv, OwnerInv
      <4> QED
        BY <4>1, <4>3 DEF OwnerInv
    <3>9. MainTypes'
      BY <1>1, <1>3, <3>3 DEF Inv, TypeOK, MainTypes, mainVars
    <3>10. OtherTypes'
      BY <1>1, <1>3, <2>1, <3>1, <3>4 DEF Inv, TypeOK, OtherTypes
    <3>11. PhaseInv'
      <4>1. \A other \in Fds : open[other] \in Kernel => open'[other] = open[other]
        BY <3>2, <3>3
      <4> QED
        BY <1>1, <1>3, <4>1 DEF Inv, PhaseInv, mainVars, Serving, Kernel
    <3> QED
      BY <3>5, <3>6, <3>7, <3>8, <3>9, <3>10, <3>11 DEF Inv, TypeOK, MainTypes, OtherTypes
  <2> QED
    BY <2>3, <2>4, <2>5
<1> QED
  BY <1>2, <1>3 DEF Read

-----------------------------------------------------------------------------
(* The invariant.                                                           *)

LEMMA InitInv == Init => Inv
<1> SUFFICES ASSUME Init PROVE Inv
  OBVIOUS
<1> USE DEF Init
<1>1. 3 \in Fds /\ 4 \in Fds /\ "free" \notin Conns /\ "std" \notin Conns /\ Nobody \notin Conns
  BY RouterSocketsAssumption DEF Fds, Kernel
<1>2. MainTypes
  <2>1. open \in [Fds -> Kernel \cup Conns]
    BY DEF Kernel
  <2>2. walk \in 0 .. Walk
    BY RouterSocketsAssumption
  <2> QED
    BY <2>1, <2>2 DEF MainTypes
<1>3. OtherTypes
  <2>1. << >> \in Seq([type : {"ANNOUNCE", "DATA"}, host : Hosts]) /\ << >> \in Seq(Fds \cup {NoFd})
    OBVIOUS
  <2>2. inbox \in [Conns -> Seq([type : {"ANNOUNCE", "DATA"}, host : Hosts])]
    BY <2>1
  <2> QED
    BY <2>1, <2>2, RouterSocketsAssumption DEF OtherTypes, NoFd
<1>4. PhaseInv
  BY <1>1 DEF PhaseInv, Serving
<1>5. PeersOpen /\ TodoInv
  BY DEF PeersOpen, TodoInv
<1>6. \A fd \in Fds : open[fd] \in {"std", "free"}
  OBVIOUS
<1>7. ConnectionsInv
  BY <1>1, <1>6 DEF ConnectionsInv
<1>8. OwnerInv
  BY <1>1, <1>6 DEF OwnerInv, Nobody
<1> QED
  BY <1>2, <1>3, <1>4, <1>5, <1>7, <1>8 DEF Inv, TypeOK, MainTypes, OtherTypes

LEMMA InvStep == Inv /\ [Next]_vars => Inv'
<1> SUFFICES ASSUME Inv, [Next]_vars PROVE Inv'
  OBVIOUS
<1>1. CASE Main
  BY <1>1, CreateUdpKeepsInv, CreateTcpKeepsInv, StartListenerKeepsInv, WalkKeepsInv, ThreadsKeepInv,
     CloseAllKeepsInv DEF Main
<1>2. CASE Sigint \/ Announcer
  BY <1>2, ThreadsKeepInv
<1>3. CASE Listener
  BY <1>3, SelectKeepsInv, AcceptKeepsInv, ReadKeepsInv DEF Listener
<1>4. CASE \E c \in Conns : Connect(c) \/ HangUp(c)
  BY <1>4, HostsKeepInv
<1>5. CASE UNCHANGED vars
  <2>1. UNCHANGED <<open, udp_socket_fd, tcp_socket_fd, peers_fds, running, keepRunning, main, walk, temp,
                    announcer, listener, ready, todo, route, client, inbox, hungUp, wrote, owner>>
    BY <1>5 DEF vars, sockets, mainVars, listenVars, clientVars, historyVars
  <2>2. Connections'
    BY <2>1, SocketsStay DEF ConnectionsKept, listenVars
  <2>3. MainTypes' /\ OtherTypes'
    <3>1. MainTypes
      BY DEF Inv, TypeOK, MainTypes
    <3>2. MainTypes'
      BY <2>1, <3>1 DEF MainTypes
    <3> QED
      BY <2>1, <3>2, OtherTypesStay
  <2>4. PhaseInv'
    BY <2>1 DEF Inv, PhaseInv
  <2> QED
    BY <2>2, <2>3, <2>4 DEF Inv, Connections, TypeOK, MainTypes, OtherTypes
<1> QED
  BY <1>1, <1>2, <1>3, <1>4, <1>5 DEF Next

LEMMA InvAlways == Spec => []Inv
BY InitInv, InvStep, PTL DEF Spec

-----------------------------------------------------------------------------
(* The theorems.                                                            *)

\* The variables of the router and of its hosts keep their types and bounds.
THEOREM TypeCorrect == Spec => []TypeOK
<1>1. Inv => TypeOK
  BY DEF Inv
<1> QED
  BY <1>1, InvAlways, PTL

\* addPeer, removePeer and close keep peers_fds and the open connections
\* together, whatever else opens and closes descriptors meanwhile: each slot in
\* use is an open connection, in one slot only, and select never fails, so that
\* the listening thread ends only after endRouterListen.
THEOREM PeersStayOpen == Spec => []PeersOpen
<1>1. Inv => PeersOpen
  BY DEF Inv
<1> QED
  BY <1>1, InvAlways, PTL

\* The recv of `listening` is called on a descriptor that still is the
\* connection of which select spoke, and still has something to read.
THEOREM RecvNeverBlocks == Spec => []NeverBlocks
<1>1. Inv => NeverBlocks
  BY HeadIsConnection DEF NeverBlocks
<1> QED
  BY <1>1, InvAlways, PTL

\* endRouterListen closes the sockets when both other threads have ended, and
\* until then they are open for them.
THEOREM SocketsOutliveThreads == Spec => []ClosedUnused
<1>1. Inv => ClosedUnused
  BY DEF Inv, TypeOK, PhaseInv, ClosedUnused, Alive, Serving
<1> QED
  BY <1>1, InvAlways, PTL

\* learnRoute and sendFrame: while a host's connection is open, the DATA for it
\* is written there, whichever descriptors are closed and given out again.
THEOREM OwnMailDelivered == Spec => OwnMail
<1> DEFINE Own == wrote' \notin {wrote, Nothing} =>
                      wrote'.to = owner[wrote'.host] \/ ~ Connected(owner[wrote'.host])
<1>1. Inv /\ [Next]_vars => [Own]_vars
  <2> SUFFICES ASSUME Inv, [Next]_vars, wrote' \notin {wrote, Nothing}
               PROVE  wrote'.to = owner[wrote'.host] \/ ~ Connected(owner[wrote'.host])
    OBVIOUS
  <2>1. \E h \in Hosts : SendToHost(h)
    <3>1. ASSUME NEW c \in Conns, Connect(c) \/ HangUp(c) PROVE wrote' = wrote
      BY <3>1 DEF Connect, HangUp, historyVars
    <3>2. CASE Main \/ Sigint \/ Announcer
      BY <3>2 DEF Main, CreateUdp, CreateTcp, StartListener, WalkOpen, WalkClose, StartAnnouncer, EndListen,
                  JoinAnnouncer, JoinListener, CloseAll, Sigint, Announcer, historyVars
    <3>3. CASE Select \/ Accept
      BY <3>3 DEF Select, Accept, historyVars
    <3>4. CASE Read
      <4>1. listener = "read" /\ todo # << >> /\ ReadFrame
        BY <3>4 DEF Read, Skip, Disconnect
      <4>2. open[Head(todo)] \in Conns /\ inbox[open[Head(todo)]] # << >>
        BY <4>1, HeadIsConnection DEF ReadFrame
      <4>3. Head(inbox[open[Head(todo)]]).host \in Hosts
        <5> DEFINE Frames == [type : {"ANNOUNCE", "DATA"}, host : Hosts]
        <5>1. inbox[open[Head(todo)]] \in Seq(Frames)
          BY <4>2 DEF Inv, TypeOK
        <5>2. Head(inbox[open[Head(todo)]]) \in Frames
          <6> HIDE DEF Frames
          <6> QED
            BY <4>2, <5>1
        <5> QED
          BY <5>2
      <4> QED
        BY <4>1, <4>3 DEF ReadFrame, Process, Announce
    <3>5. CASE UNCHANGED vars
      BY <3>5 DEF vars, historyVars
    <3> QED
      BY <3>1, <3>2, <3>3, <3>4, <3>5 DEF Next, Listener
  <2>2. PICK h \in Hosts : SendToHost(h)
    BY <2>1
  <2>3. wrote' = [to |-> open[route[h]], host |-> h]
    BY <2>2 DEF SendToHost
  <2>4. Connected(owner[h]) => open[route[h]] = owner[h]
    BY DEF Connected, Inv, OwnerInv
  <2> QED
    BY <2>3, <2>4
<1> QED
  BY <1>1, InvAlways, PTL DEF Spec, OwnMail
=============================================================================
