--------------------------- MODULE RouterNetwork ----------------------------
(***************************************************************************)
(* How the routers of Etapa2 spread a route (router/src/forwarding.c,       *)
(* router.c): ANNOUNCE datagrams, ADVERTISE messages, each on a TCP         *)
(* connection of its own, the main thread's initial walk of the table next  *)
(* to the listening thread, and DATA that follows the routes.               *)
(*                                                                          *)
(* One destination at a time: handlers and replies treat destinations       *)
(* independently, and the walk of the table reaches every route that is     *)
(* there before it ends (RouteTable: AdvertisesHosts, ImplementsStore).     *)
(* The destination is a host of Home, or the address of Home itself.        *)
(*                                                                          *)
(* Bound: a message that is in flight between two routers is in flight once. *)
(***************************************************************************)
EXTENDS Naturals, FiniteSets

CONSTANTS
    Routers,        \* named by their address
    Neighbors,      \* Neighbors[r]: the neighbor lines of r's config.txt
    Home,           \* the router whose host, or address, is the destination
    FullTables,     \* routers whose table is full of other destinations
    MaxRestarts,    \* bound on the routers' stops
    SendsData       \* bound: FALSE where no DATA packet is sent

NoRoute == "no route"       \* findRoute returns -1
Local   == "local"          \* an interface or socket of the router itself
Nowhere == "nowhere"

ASSUME RouterNetworkAssumption ==
    /\ Neighbors \in [Routers -> SUBSET Routers]
    /\ \A r, s \in Routers : s \in Neighbors[r] => r # s /\ r \in Neighbors[s]
    /\ Home \in Routers
    /\ FullTables \subseteq Routers
    /\ MaxRestarts \in Nat
    /\ SendsData \in BOOLEAN
    /\ {NoRoute, Local, Nowhere} \cap Routers = {}

VARIABLES
    isHost,         \* is the destination a `host:` of Home's config.txt, or Home's own address?
    up,             \* is the router running?
    route,          \* next hop of the destination in each router's table
    walk,           \* sendInitialAdvertise: "pending" until it has passed the destination
    announces,      \* ANNOUNCE datagrams in flight, <<from, to>>
    adverts,        \* ADVERTISE messages in flight, <<from, to>>
    packet,         \* the router where a DATA packet is, or Nowhere
    restarts        \* stops so far

vars == <<isHost, up, route, walk, announces, adverts, packet, restarts>>

Links == {l \in Routers \X Routers : l[2] \in Neighbors[l[1]]}

\* isLocalHost, for the destination.
IsLocal(r) == r = Home

Init ==
    /\ isHost \in BOOLEAN
    /\ up = [r \in Routers |-> FALSE]
    /\ route = [r \in Routers |-> NoRoute]
    /\ walk = [r \in Routers |-> "done"]
    /\ announces = {} /\ adverts = {}
    /\ packet = Nowhere
    /\ restarts = 0

-----------------------------------------------------------------------------
(* Starting and stopping.                                                   *)

\* parseConfigAndPreload, initRouterListen.
Start(r) ==
    /\ ~ up[r]
    /\ up' = [up EXCEPT ![r] = TRUE]
    /\ route' = [route EXCEPT ![r] = IF isHost /\ IsLocal(r) THEN Local ELSE NoRoute]
    /\ walk' = [walk EXCEPT ![r] = "pending"]
    /\ UNCHANGED <<isHost, announces, adverts, packet, restarts>>

\* Ctrl+C or a crash: the table is gone, and so is what was sent to it.
Stop(r) ==
    /\ up[r] /\ restarts < MaxRestarts
    /\ restarts' = restarts + 1
    /\ up' = [up EXCEPT ![r] = FALSE]
    /\ route' = [route EXCEPT ![r] = NoRoute]
    /\ walk' = [walk EXCEPT ![r] = "done"]
    /\ announces' = {l \in announces : l[2] # r}
    /\ adverts' = {l \in adverts : l[2] # r}
    /\ packet' = IF packet = r THEN Nowhere ELSE packet
    /\ UNCHANGED isHost

-----------------------------------------------------------------------------
(* Sending.                                                                 *)

\* A connection to a router that is not running fails, and the error is
\* ignored.
To(r, set) == {<<r, s>> : s \in {x \in set : up[x]}}

\* Mutant of AnnounceToNeighbors: every router, itself included.
AnnounceToAll(r, except) == To(r, Routers \ {except})

\* announceToNeighbors(ADVERTISE, destination, except).
AnnounceToNeighbors(r, except) == To(r, Neighbors[r] \ {except})

\* sendInitialAnnounce, at boot and every 25 s.
SendAnnounce(r) ==
    /\ up[r]
    /\ announces' = announces \cup To(r, Neighbors[r])
    /\ UNCHANGED <<isHost, up, route, walk, adverts, packet, restarts>>

\* sendInitialAdvertise reaches the destination's route: it goes to every
\* neighbor, wherever the route came from.
WalkAdvertise(r) ==
    /\ up[r] /\ walk[r] = "pending" /\ route[r] # NoRoute
    /\ walk' = [walk EXCEPT ![r] = "done"]
    /\ adverts' = adverts \cup AnnounceToNeighbors(r, Nowhere)
    /\ UNCHANGED <<isHost, up, route, announces, packet, restarts>>

\* sendInitialAdvertise comes to the end of a table without the destination.
WalkEnd(r) ==
    /\ up[r] /\ walk[r] = "pending" /\ route[r] = NoRoute
    /\ walk' = [walk EXCEPT ![r] = "done"]
    /\ UNCHANGED <<isHost, up, route, announces, adverts, packet, restarts>>

\* The destination's host connects to its router and announces itself: its
\* socket replaces what was stored, which is news.
HostAnnounce ==
    /\ isHost /\ up[Home]
    /\ route' = [route EXCEPT ![Home] = Local]
    /\ adverts' = adverts \cup AnnounceToNeighbors(Home, Nowhere)
    /\ UNCHANGED <<isHost, up, walk, announces, packet, restarts>>

-----------------------------------------------------------------------------
(* processPacket, in the listening thread.                                  *)

\* saveRoute: what it returns for a full table is ignored.
Saved(r, s) == IF route[r] = NoRoute /\ r \in FullTables THEN route ELSE [route EXCEPT ![r] = s]

News(r, s) == IF route[r] # s THEN AnnounceToNeighbors(r, s) ELSE {}

\* Mutants of Learn: the first route is never replaced; saving may fail
\* unnoticed.
LearnFirst(r, s) ==
    /\ route' = IF route[r] = NoRoute THEN Saved(r, s) ELSE route
    /\ adverts' = (adverts \ {<<s, r>>}) \cup (IF route[r] = NoRoute THEN News(r, s) ELSE {})

LearnOrNot(r, s) ==
    /\ route' \in {route, Saved(r, s)}
    /\ adverts' = (adverts \ {<<s, r>>}) \cup News(r, s)

\* learnRoute from neighbor s, and the ADVERTISE that follows news.
Learn(r, s) ==
    /\ route' = Saved(r, s)
    /\ adverts' = (adverts \ {<<s, r>>}) \cup News(r, s)

\* Mutants of Reply: without the split horizon; no reply at all.
ReplyAlways(r, s) == IF route'[r] = NoRoute THEN {} ELSE To(r, {s})
ReplyNever(r, s) == {}

\* sendTableToSocket: the route, unless it goes through the announcer.
Reply(r, s) == IF route'[r] \in {NoRoute, s} THEN {} ELSE To(r, {s})

ReceiveAnnounce(s, r) ==
    /\ <<s, r>> \in announces /\ up[r]
    /\ announces' = announces \ {<<s, r>>}
    /\ IF ~ isHost /\ s = Home      \* the destination announces itself
       THEN route' = Saved(r, s) /\ adverts' = adverts \cup News(r, s) \cup Reply(r, s)
       ELSE UNCHANGED route /\ adverts' = adverts \cup Reply(r, s)
    /\ UNCHANGED <<isHost, up, walk, packet, restarts>>

\* Mutant of ReceiveAdvertise: a host of its own is not protected.
ReceiveAnyAdvertise(s, r) ==
    /\ <<s, r>> \in adverts /\ up[r]
    /\ Learn(r, s)
    /\ UNCHANGED <<isHost, up, walk, announces, packet, restarts>>

\* An ADVERTISE of the router's own address or of its own host is ignored.
ReceiveAdvertise(s, r) ==
    /\ <<s, r>> \in adverts /\ up[r]
    /\ IF IsLocal(r)
       THEN adverts' = adverts \ {<<s, r>>} /\ UNCHANGED route
       ELSE Learn(r, s)
    /\ UNCHANGED <<isHost, up, walk, announces, packet, restarts>>

LoseAnnounce(l) ==
    /\ l \in announces
    /\ announces' = announces \ {l}
    /\ UNCHANGED <<isHost, up, route, walk, adverts, packet, restarts>>

\* A connection times out (1 s) or is refused.
LoseAdvertise(l) ==
    /\ l \in adverts
    /\ adverts' = adverts \ {l}
    /\ UNCHANGED <<isHost, up, route, walk, announces, packet, restarts>>

\* A host gives its router a DATA frame for the destination.
SendData(r) ==
    /\ SendsData /\ packet = Nowhere /\ up[r]
    /\ packet' = r
    /\ UNCHANGED <<isHost, up, route, walk, announces, adverts, restarts>>

\* The lookup of a DATA frame and sendFrame: to the host, to a neighbor that
\* runs, or dropped.
ForwardData ==
    /\ packet # Nowhere
    /\ packet' = IF route[packet] \in Neighbors[packet] /\ up[route[packet]] /\ ~ IsLocal(packet)
                 THEN route[packet] ELSE Nowhere
    /\ UNCHANGED <<isHost, up, route, walk, announces, adverts, restarts>>

Next ==
    \/ \E r \in Routers :
          \/ Start(r) \/ Stop(r) \/ SendAnnounce(r) \/ WalkAdvertise(r) \/ WalkEnd(r) \/ SendData(r)
    \/ HostAnnounce
    \/ \E l \in Links : \/ ReceiveAnnounce(l[1], l[2]) \/ ReceiveAdvertise(l[1], l[2])
                        \/ LoseAnnounce(l) \/ LoseAdvertise(l)
    \/ ForwardData

Spec == Init /\ [][Next]_vars

\* Every router is run (again); its threads go on; a message that is sent
\* again and again gets through.
FairSpec ==
    /\ Spec
    /\ \A r \in Routers : WF_vars(Start(r)) /\ WF_vars(SendAnnounce(r))
                          /\ WF_vars(WalkAdvertise(r) \/ WalkEnd(r))
    /\ \A l \in Links : SF_vars(ReceiveAnnounce(l[1], l[2])) /\ SF_vars(ReceiveAdvertise(l[1], l[2]))
    /\ WF_vars(ForwardData)

-----------------------------------------------------------------------------
(* Properties.                                                              *)

\* The types of the variables.
TypeOK ==
    /\ isHost \in BOOLEAN
    /\ up \in [Routers -> BOOLEAN]
    /\ route \in [Routers -> Routers \cup {NoRoute, Local}]
    /\ walk \in [Routers -> {"pending", "done"}]
    /\ announces \subseteq Links /\ adverts \subseteq Links
    /\ packet \in Routers \cup {Nowhere}
    /\ restarts \in 0 .. MaxRestarts

\* "Proteger rutas de hosts locales de ser sobreescritas por rebotes de
\* vecinos" (forwarding.c:208): a running router never sends its own host's
\* traffic elsewhere, and no router but Home takes the host for its own.
HostStaysHome ==
    \A r \in Routers : route[r] = Local <=> r = Home /\ isHost /\ up[r]

\* As long as nobody stops and no table is full, a router that forwards to a neighbor has been
\* promised the destination by one that knows it: a packet is never sent to a
\* router that must drop it.
PromisedByOneThatKnows ==
    restarts = 0 /\ FullTables = {} =>
        \A r \in Routers : route[r] \in Routers =>
            up[route[r]] /\ (route[r] = Home \/ route[route[r]] # NoRoute)

\* "split horizon" (forwarding.c:73): no router advertises a route to the
\* neighbor the route goes through.
SplitHorizon ==
    [][\A l \in adverts' \ adverts : route'[l[1]] # l[2]]_vars

\* "guardarlo con saveRoute(). Si la ruta resulta ser nueva, generar un
\* ADVERTISE" (README.md:54): what a router advertises, it has stored.
AdvertisesWhatItStored ==
    [][\A l \in adverts' \ adverts : route'[l[1]] # NoRoute]_vars

\* The handlers of the listening thread keep the split horizon, whatever the
\* interleaving: only the initial walk breaks it.
HandlersSplitHorizon ==
    [][\A l \in adverts' \ adverts : route'[l[1]] = l[2] => walk[l[1]] # walk'[l[1]]]_vars

\* The router that a packet from r reaches after n hops.
After(r, n) ==
    LET at[k \in 0 .. n] == IF k = 0 THEN r
                            ELSE IF route[at[k - 1]] \in Routers THEN route[at[k - 1]] ELSE at[k - 1]
    IN  at[n]

\* On a network without cycles every router comes to know a way to the
\* destination, for good: the periodic ANNOUNCE undoes the loops that the
\* initial walks and restarts make, and what loss left untold.
Converges == <>[] \A r \in Routers : After(r, Cardinality(Routers)) = Home

\* Every DATA packet is delivered or dropped in the end: none goes round for
\* ever, though frames have no hop count.
PacketEnds == packet # Nowhere ~> packet = Nowhere
=============================================================================
