--------------------------- MODULE RouterSockets ----------------------------
(***************************************************************************)
(* The descriptors and the threads of one router of Etapa2                  *)
(* (router/src/router.c, main.c): the main thread opens the sockets, starts *)
(* the listening thread, walks the table, starts the thread of periodic     *)
(* announcements and stops everything at Ctrl+C; the listening thread       *)
(* accepts the connections of hosts, keeps them in peers_fds, reads them,   *)
(* closes them, and writes DATA to the descriptor that the route of a local *)
(* host names.                                                              *)
(*                                                                          *)
(* The kernel gives a new socket the lowest free descriptor.  A connection  *)
(* is one run of a host program, used once.  The sockets that a handler of  *)
(* the listening thread opens towards neighbors are closed before it        *)
(* returns, so only those of the main thread's walk appear.                 *)
(***************************************************************************)
EXTENDS Naturals, FiniteSetsExt, SequencesExt

CONSTANTS
    Hosts,          \* the host lines of config.txt
    Interface,      \* Interface[h]: the number in h's line
    Conns,          \* connections that hosts may open
    HostOf,         \* HostOf[c]: the host of a --listen, "sender" for a --send
    MaxPeers,       \* MAX_PEERS
    MaxFd,          \* the limit on descriptors
    Walk            \* bound: sockets that the initial walk of the table opens

Kernel == {"free", "std", "udp", "tcp", "temp"}     \* what is not a host's connection
Fds    == 1 .. MaxFd                                \* 1 and 2 are stdout and stderr
NoFd   == 0                                         \* -1
Slots  == 1 .. MaxPeers
Nobody == "nobody"
Nothing == [to |-> Nobody, host |-> Nobody]

ASSUME RouterSocketsAssumption ==
    /\ Interface \in [Hosts -> Nat \ {0}]
    /\ HostOf \in [Conns -> Hosts \cup {"sender"}]
    /\ Conns \cap (Kernel \cup {Nobody}) = {}
    /\ MaxPeers \in Nat \ {0} /\ MaxFd \in Nat /\ MaxFd > 4 /\ Walk \in Nat

VARIABLES
    open,           \* what each descriptor is
    udp_socket_fd, tcp_socket_fd,
    peers_fds,
    running,        \* router.c
    keepRunning,    \* main.c, cleared by the handler of SIGINT
    main,           \* the main thread's place in versionRouter and initRouterListen
    walk, temp,     \* sockets its walk still opens, and the one it has open
    announcer,      \* the thread of announceRoutine: "none", "top", "send", "ended"
    listener,       \* the thread of `listening`: "none", "top", "accept", "read", "ended"
    ready,          \* read_fds after select
    todo,           \* active_sockets, copied from peers_fds, still to be looked at
    route,          \* the descriptor that the table gives for a local host
    client,         \* each connection: "new", "pending" (not accepted), "accepted"
    inbox,          \* what it has sent and the router has not read
    hungUp,         \* connections closed by their client
    wrote,          \* the DATA just written: the socket and the host it was for
    owner           \* the connection that last announced a host (for the properties)

sockets     == <<open, udp_socket_fd, tcp_socket_fd>>
mainVars    == <<main, walk, temp, keepRunning>>
listenVars  == <<listener, ready, todo>>
clientVars  == <<client, inbox, hungUp>>
historyVars == <<wrote, owner>>
vars == <<sockets, peers_fds, running, mainVars, announcer, listenVars, route, clientVars, historyVars>>

Alive == main \notin {"failed", "exit", "crashed"}

Init ==
    /\ open = [fd \in Fds |-> IF fd <= 2 THEN "std" ELSE "free"]
    /\ udp_socket_fd = NoFd /\ tcp_socket_fd = NoFd
    /\ peers_fds = [i \in Slots |-> NoFd]
    /\ running = FALSE /\ keepRunning = TRUE
    /\ main = "udp" /\ walk = Walk /\ temp = NoFd
    /\ announcer = "none"
    /\ listener = "none" /\ ready = {} /\ todo = << >>
    /\ route = Interface
    /\ client = [c \in Conns |-> "new"] /\ inbox = [c \in Conns |-> << >>] /\ hungUp = {}
    /\ wrote = Nothing /\ owner = [h \in Hosts |-> Nobody]

FreeFds == {fd \in Fds : open[fd] = "free"}
NewFd   == Min(FreeFds)
Closed(set) == [fd \in Fds |-> IF fd \in set THEN "free" ELSE open[fd]]

-----------------------------------------------------------------------------
(* The main thread: initRouterListen.                                       *)

\* socket and bind.
CreateUdp ==
    /\ main = "udp"
    /\ \/ /\ open' = [open EXCEPT ![NewFd] = "udp"]
          /\ udp_socket_fd' = NewFd /\ main' = "tcp"
       \/ main' = "failed" /\ UNCHANGED <<open, udp_socket_fd>>
    /\ UNCHANGED <<tcp_socket_fd, peers_fds, running, walk, temp, keepRunning, announcer>>
    /\ UNCHANGED <<listenVars, route, clientVars, historyVars>>

\* socket, bind and listen.
CreateTcp ==
    /\ main = "tcp"
    /\ \/ /\ open' = [open EXCEPT ![NewFd] = "tcp"]
          /\ tcp_socket_fd' = NewFd /\ main' = "listen"
       \/ main' = "failed" /\ open' = Closed({udp_socket_fd}) /\ UNCHANGED tcp_socket_fd
    /\ UNCHANGED <<udp_socket_fd, peers_fds, running, walk, temp, keepRunning, announcer>>
    /\ UNCHANGED <<listenVars, route, clientVars, historyVars>>

StartListener ==
    /\ main = "listen"
    /\ \/ /\ running' = TRUE /\ listener' = "top" /\ main' = "walk"
          /\ UNCHANGED open
       \/ /\ main' = "failed" /\ open' = Closed({udp_socket_fd, tcp_socket_fd})
          /\ UNCHANGED <<running, listener>>
    /\ UNCHANGED <<udp_socket_fd, tcp_socket_fd, peers_fds, walk, temp, keepRunning, announcer>>
    /\ UNCHANGED <<ready, todo, route, clientVars, historyVars>>

\* sendInitialAdvertise: a socket per message (sendToIpPort), if there is one...
WalkOpen ==
    /\ main = "walk" /\ walk > 0
    /\ walk' = walk - 1
    /\ IF FreeFds = {}
       THEN UNCHANGED <<open, temp, main>>
       ELSE open' = [open EXCEPT ![NewFd] = "temp"] /\ temp' = NewFd /\ main' = "temp"
    /\ UNCHANGED <<udp_socket_fd, tcp_socket_fd, peers_fds, running, keepRunning, announcer>>
    /\ UNCHANGED <<listenVars, route, clientVars, historyVars>>

\* ...which is closed after the message.
WalkClose ==
    /\ main = "temp"
    /\ open' = Closed({temp}) /\ temp' = NoFd /\ main' = "walk"
    /\ UNCHANGED <<udp_socket_fd, tcp_socket_fd, peers_fds, running, walk, keepRunning, announcer>>
    /\ UNCHANGED <<listenVars, route, clientVars, historyVars>>

\* The thread of announcements; that it may not start is only reported.
StartAnnouncer ==
    /\ main = "walk" /\ walk = 0
    /\ announcer' \in {"top", "none"}
    /\ main' = "run"
    /\ UNCHANGED <<sockets, peers_fds, running, walk, temp, keepRunning>>
    /\ UNCHANGED <<listenVars, route, clientVars, historyVars>>

-----------------------------------------------------------------------------
(* The main thread: SIGINT and endRouterListen.                             *)

Sigint ==
    /\ Alive /\ keepRunning
    /\ keepRunning' = FALSE
    /\ UNCHANGED <<sockets, peers_fds, running, main, walk, temp, announcer>>
    /\ UNCHANGED <<listenVars, route, clientVars, historyVars>>

EndListen ==
    /\ main = "run" /\ ~ keepRunning
    /\ running' = FALSE /\ main' = "joinAnnouncer"
    /\ UNCHANGED <<sockets, peers_fds, walk, temp, keepRunning, announcer>>
    /\ UNCHANGED <<listenVars, route, clientVars, historyVars>>

\* Mutant of JoinAnnouncer: the thread is not waited for.
JoinNoAnnouncer ==
    /\ main = "joinAnnouncer"
    /\ main' = "joinListener"
    /\ UNCHANGED <<sockets, peers_fds, running, walk, temp, keepRunning, announcer>>
    /\ UNCHANGED <<listenVars, route, clientVars, historyVars>>

\* pthread_join of the announcements' thread.  Of a thread that was never
\* created it is undefined: it returns an error, or the process dies.
JoinAnnouncer ==
    /\ main = "joinAnnouncer"
    /\ \/ announcer = "ended" /\ main' = "joinListener"
       \/ announcer = "none" /\ main' \in {"joinListener", "crashed"}
    /\ UNCHANGED <<sockets, peers_fds, running, walk, temp, keepRunning, announcer>>
    /\ UNCHANGED <<listenVars, route, clientVars, historyVars>>

JoinListener ==
    /\ main = "joinListener" /\ listener = "ended"
    /\ main' = "close"
    /\ UNCHANGED <<sockets, peers_fds, running, walk, temp, keepRunning, announcer>>
    /\ UNCHANGED <<listenVars, route, clientVars, historyVars>>

\* Connections that are in no slot stay open until the process is gone.
CloseAll ==
    /\ main = "close"
    /\ open' = Closed(ToSet(peers_fds) \cup {udp_socket_fd, tcp_socket_fd})
    /\ peers_fds' = [i \in Slots |-> NoFd]
    /\ main' = "exit"
    /\ UNCHANGED <<udp_socket_fd, tcp_socket_fd, running, walk, temp, keepRunning, announcer>>
    /\ UNCHANGED <<listenVars, route, clientVars, historyVars>>

Main ==
    \/ CreateUdp \/ CreateTcp \/ StartListener \/ WalkOpen \/ WalkClose \/ StartAnnouncer
    \/ EndListen \/ JoinAnnouncer \/ JoinListener \/ CloseAll

-----------------------------------------------------------------------------
(* announceRoutine: it sees `running`, sends on the UDP socket, and again.   *)

Announcer ==
    /\ Alive
    /\ \/ announcer = "top" /\ announcer' = IF running THEN "send" ELSE "ended"
       \/ announcer = "send" /\ announcer' = "top"
    /\ UNCHANGED <<sockets, peers_fds, running, mainVars, listenVars, route, clientVars, historyVars>>

-----------------------------------------------------------------------------
(* The listening thread.                                                    *)

Empty == {i \in Slots : peers_fds[i] = NoFd}

\* Mutant of AddPeer: it writes past the end of a full array.
AddPeerPastEnd(fd) ==
    peers_fds' = IF Empty = {} THEN Append(peers_fds, fd) ELSE [peers_fds EXCEPT ![Min(Empty)] = fd]

\* addPeer: the first empty slot, or none.
AddPeer(fd) == peers_fds' = IF Empty = {} THEN peers_fds ELSE [peers_fds EXCEPT ![Min(Empty)] = fd]

\* Mutant of RemovePeer: nothing is removed.
RemoveNothing(fd) == UNCHANGED peers_fds

RemovePeer(fd) == peers_fds' = [i \in Slots |-> IF peers_fds[i] = fd THEN NoFd ELSE peers_fds[i]]

\* Mutant of Neighbors: the last slot is not looked at.
NeighborsButLast == {peers_fds[i] : i \in 1 .. MaxPeers - 1} \ {NoFd}

\* getNeighborSockets.
Neighbors == ToSet(peers_fds) \ {NoFd}

Pending == {c \in Conns : client[c] = "pending"}

\* A recv or an accept of the descriptor would return at once.
Readable(fd) ==
    \/ open[fd] = "tcp" /\ Pending # {}
    \/ open[fd] \in Conns /\ (inbox[open[fd]] # << >> \/ open[fd] \in hungUp)

Watched == Neighbors \cup {udp_socket_fd, tcp_socket_fd}

\* Mutant of Select: `running` is not looked at.
SelectForEver ==
    /\ Alive /\ listener = "top"
    /\ \E fd \in Watched : Readable(fd)
    /\ listener' = "accept" /\ ready' = {fd \in Watched : Readable(fd)}
    /\ UNCHANGED <<sockets, peers_fds, running, mainVars, announcer, todo, route, clientVars, historyVars>>

\* The head of the loop.  select fails, and the thread ends, when one of the
\* descriptors is closed; it returns nothing after a second, and the loop goes on.
Select ==
    /\ Alive /\ listener = "top"
    /\ \/ /\ ~ running \/ \E fd \in Watched : open[fd] = "free"
          /\ listener' = "ended" /\ UNCHANGED ready
       \/ /\ running /\ \A fd \in Watched : open[fd] # "free"
          /\ \E fd \in Watched : Readable(fd)
          /\ listener' = "accept" /\ ready' = {fd \in Watched : Readable(fd)}
    /\ UNCHANGED <<sockets, peers_fds, running, mainVars, announcer, todo, route, clientVars, historyVars>>

\* One connection is accepted, unless there is no descriptor for it.  Then the
\* slots are copied; the code leaves out the empty ones, which are never ready.
Accept ==
    /\ Alive /\ listener = "accept"
    /\ listener' = "read"
    /\ IF tcp_socket_fd \in ready /\ FreeFds # {}
       THEN \E c \in Pending :
               /\ open' = [open EXCEPT ![NewFd] = c]
               /\ client' = [client EXCEPT ![c] = "accepted"]
               /\ AddPeer(NewFd)
       ELSE UNCHANGED <<open, client, peers_fds>>
    /\ todo' = peers_fds'
    /\ UNCHANGED <<udp_socket_fd, tcp_socket_fd, running, mainVars, announcer, ready, route>>
    /\ UNCHANGED <<inbox, hungUp, historyVars>>

\* Mutant of Announce: a route that the table has already is kept.
AnnounceOnce(fd, h) == owner' = [owner EXCEPT ![h] = open[fd]] /\ wrote' = Nothing /\ UNCHANGED route

\* learnRoute of a local host: its route is the descriptor it came from.
Announce(fd, h) ==
    /\ route' = [route EXCEPT ![h] = fd]
    /\ owner' = [owner EXCEPT ![h] = open[fd]]
    /\ wrote' = Nothing

\* sendFrame to a local host: what its route names, whatever that is by now.
\* What is not a connected socket refuses the write.
SendToHost(h) ==
    /\ wrote' = IF route[h] \in Fds /\ open[route[h]] \in Conns \cup {"temp"}
                THEN [to |-> open[route[h]], host |-> h] ELSE Nothing
    /\ UNCHANGED <<route, owner>>

Process(fd, frame) ==
    IF frame.type = "ANNOUNCE" THEN Announce(fd, frame.host) ELSE SendToHost(frame.host)

\* Mutant of Reads: FD_ISSET is forgotten.
ReadsAny(fd) == TRUE

Reads(fd) == fd \in ready

Skip ==
    /\ ~ Reads(Head(todo))
    /\ wrote' = Nothing
    /\ UNCHANGED <<open, peers_fds, route, inbox, owner>>

\* recv returns a frame...
ReadFrame ==
    LET c == open[Head(todo)]
    IN  /\ Reads(Head(todo)) /\ inbox[c] # << >>
        /\ inbox' = [inbox EXCEPT ![c] = Tail(@)]
        /\ Process(Head(todo), Head(inbox[c]))
        /\ UNCHANGED <<open, peers_fds>>

\* ...or the end of the connection.  No route is withdrawn.
Disconnect ==
    LET c == open[Head(todo)]
    IN  /\ Reads(Head(todo)) /\ inbox[c] = << >> /\ c \in hungUp
        /\ RemovePeer(Head(todo))
        /\ open' = Closed({Head(todo)})
        /\ wrote' = Nothing
        /\ UNCHANGED <<route, inbox, owner>>

Read ==
    /\ Alive /\ listener = "read"
    /\ IF todo = << >>
       THEN /\ listener' = "top" /\ ready' = {} /\ wrote' = Nothing
            /\ UNCHANGED <<open, peers_fds, todo, route, inbox, owner>>
       ELSE (Skip \/ ReadFrame \/ Disconnect) /\ todo' = Tail(todo) /\ UNCHANGED <<listener, ready>>
    /\ UNCHANGED <<udp_socket_fd, tcp_socket_fd, running, mainVars, announcer, client, hungUp>>

Listener == Select \/ Accept \/ Read

-----------------------------------------------------------------------------
(* The hosts: a --listen announces itself, a --send gives DATA; both may    *)
(* hang up at any time.                                                     *)

Connect(c) ==
    /\ Alive /\ client[c] = "new" /\ tcp_socket_fd # NoFd
    /\ client' = [client EXCEPT ![c] = "pending"]
    /\ inbox' \in IF HostOf[c] # "sender"
                  THEN {[inbox EXCEPT ![c] = <<[type |-> "ANNOUNCE", host |-> HostOf[c]]>>]}
                  ELSE {[inbox EXCEPT ![c] = <<[type |-> "DATA", host |-> h]>>] : h \in Hosts}
    /\ UNCHANGED <<sockets, peers_fds, running, mainVars, announcer, listenVars, route, hungUp, historyVars>>

HangUp(c) ==
    /\ Alive /\ client[c] # "new" /\ c \notin hungUp
    /\ hungUp' = hungUp \cup {c}
    /\ UNCHANGED <<sockets, peers_fds, running, mainVars, announcer, listenVars, route, client, inbox, historyVars>>

-----------------------------------------------------------------------------
Next == Main \/ Sigint \/ Announcer \/ Listener \/ \E c \in Conns : Connect(c) \/ HangUp(c)

Spec == Init /\ [][Next]_vars

\* The three threads run.  Nothing is assumed of the hosts.
FairSpec == Spec /\ WF_vars(Main) /\ WF_vars(Announcer) /\ WF_vars(Listener)

-----------------------------------------------------------------------------
(* Properties.                                                              *)

Connected(c) == \E fd \in Fds : open[fd] = c

\* The types of the variables.
TypeOK ==
    /\ open \in [Fds -> Kernel \cup Conns]
    /\ udp_socket_fd \in Fds \cup {NoFd} /\ tcp_socket_fd \in Fds \cup {NoFd}
    /\ peers_fds \in [Slots -> Fds \cup {NoFd}]
    /\ running \in BOOLEAN /\ keepRunning \in BOOLEAN
    /\ main \in {"udp", "tcp", "listen", "walk", "temp", "run", "joinAnnouncer", "joinListener",
                 "close", "exit", "failed", "crashed"}
    /\ walk \in 0 .. Walk /\ temp \in Fds \cup {NoFd}
    /\ announcer \in {"none", "top", "send", "ended"}
    /\ listener \in {"none", "top", "accept", "read", "ended"}
    /\ ready \subseteq Fds
    /\ todo \in Seq(Fds \cup {NoFd}) /\ Len(todo) <= MaxPeers
    /\ route \in [Hosts -> Nat]
    /\ client \in [Conns -> {"new", "pending", "accepted"}]
    /\ inbox \in [Conns -> Seq([type : {"ANNOUNCE", "DATA"}, host : Hosts])]
    /\ hungUp \subseteq Conns
    /\ wrote \in {Nothing} \cup [to : Conns \cup {"temp"}, host : Hosts]
    /\ owner \in [Hosts -> Conns \cup {Nobody}]

\* Every descriptor in peers_fds is an open connection of a host, in one slot
\* only, although descriptors are closed and given out again by three threads:
\* so select does not fail, and the listening thread ends only when told to.
PeersOpen ==
    /\ \A i \in Slots : peers_fds[i] # NoFd => open[peers_fds[i]] \in Conns
    /\ \A i, j \in Slots : peers_fds[i] = peers_fds[j] /\ peers_fds[i] # NoFd => i = j
    /\ listener = "ended" => ~ running

\* What select said is still true when its turn comes, after an accept and
\* the reads and closes before it: no recv blocks the thread, or reads another
\* connection than the one that was ready.
NeverBlocks ==
    listener = "read" /\ todo # << >> /\ Reads(Head(todo)) =>
        Head(todo) \in Neighbors /\ Readable(Head(todo))

\* endRouterListen closes the sockets only when no thread can use them.
ClosedUnused ==
    /\ main = "exit" => announcer \in {"none", "ended"} /\ listener = "ended"
    /\ Alive /\ (announcer = "send" \/ listener \in {"top", "accept", "read"}) =>
         open[udp_socket_fd] = "udp" /\ open[tcp_socket_fd] = "tcp"

\* While a host's connection is open its DATA goes there and nowhere else,
\* whichever descriptors come and go.
OwnMail ==
    [][wrote' \notin {wrote, Nothing} => wrote'.to = owner[wrote'.host] \/ ~ Connected(owner[wrote'.host])]_vars

\* "recibir tramas DATA dirigidas a esta PC" (listener.h:7): a listening host is
\* given no DATA for another.
MailForThisPC == wrote.to \in Conns /\ HostOf[wrote.to] \in Hosts => wrote.host = HostOf[wrote.to]

\* What a host in peers_fds has sent is read, whatever the others do.
Heard ==
    \A c \in Conns : (\E i \in Slots : peers_fds[i] # NoFd /\ open[peers_fds[i]] = c)
                         ~> (inbox[c] = << >> \/ ~ running)

\* Ctrl+C ends the router, and cleanly (main.c:115), unless the thread of
\* announcements never started.
StopsClean == ~ keepRunning ~> (main \in {"exit", "failed"} \/ (main = "crashed" /\ announcer = "none"))
=============================================================================
