------------------------ MODULE RouterNetwork_proofs ------------------------
(* Theorems about RouterNetwork, for every network of routers, symmetric as  *)
(* config.txt makes it, and every number of restarts.                        *)
EXTENDS RouterNetwork, TLAPS

\* Only a router that runs has a table; Home alone has the host, from its boot on.
RouteInv ==
    /\ \A r \in Routers : route[r] # NoRoute => up[r]
    /\ \A r \in Routers : route[r] = Local => r = Home /\ isHost
    /\ isHost /\ up[Home] => route[Home] = Local

\* Home knows its own address; any other router knows what is in its table.
Knows(r) == r = Home \/ route[r] # NoRoute

\* While nobody has stopped and no table is full, every message comes from a
\* router that runs, and an ADVERTISE from one that knows the destination.
PromiseInv ==
    restarts = 0 /\ FullTables = {} =>
        /\ \A l \in announces \cup adverts : up[l[1]]
        /\ \A l \in adverts : Knows(l[1])
        /\ \A r \in Routers : route[r] \in Routers => up[route[r]] /\ Knows(route[r])

Inv == TypeOK /\ RouteInv /\ PromiseInv

-----------------------------------------------------------------------------
(* The operators of the model.                                              *)

\* What a router sends goes out of itself, to neighbors that run, and is no
\* news to the router that is left out.
LEMMA SentByNeighbors ==
    ASSUME TypeOK, NEW r \in Routers, NEW set \in SUBSET Neighbors[r]
    PROVE  /\ To(r, set) \subseteq Links
           /\ \A l \in To(r, set) : l[1] = r /\ l[2] \in set /\ up[l[2]]
<1>1. Neighbors[r] \subseteq Routers
  BY RouterNetworkAssumption
<1> QED
  BY <1>1 DEF To, Links

\* A reserved name is not a router.
LEMMA NamesDiffer ==
    /\ NoRoute \notin Routers /\ Local \notin Routers /\ Nowhere \notin Routers
    /\ NoRoute # Local
BY RouterNetworkAssumption DEF NoRoute, Local, Nowhere

\* A link joins two different routers.
LEMMA LinkEnds ==
    ASSUME NEW l \in Links
    PROVE  l[1] \in Routers /\ l[2] \in Routers /\ l[1] # l[2] /\ l = <<l[1], l[2]>>
BY RouterNetworkAssumption DEF Links

\* Storing a route changes the entry of one router, unless its table is full.
LEMMA SavedRoute ==
    ASSUME TypeOK, NEW r \in Routers, NEW s \in Routers
    PROVE  /\ Saved(r, s) \in [Routers -> Routers \cup {NoRoute, Local}]
           /\ \A other \in Routers \ {r} : Saved(r, s)[other] = route[other]
           /\ Saved(r, s)[r] \in {s, NoRoute}
           /\ Saved(r, s)[r] = NoRoute => r \in FullTables /\ route[r] = NoRoute
           /\ r \notin FullTables => Saved(r, s)[r] = s
BY NamesDiffer DEF TypeOK, Saved

\* The ADVERTISE of news goes to every neighbor that runs but the one it came from.
LEMMA NewsSent ==
    ASSUME TypeOK, NEW r \in Routers, NEW s \in Routers
    PROVE  /\ News(r, s) \subseteq Links
           /\ \A l \in News(r, s) : l[1] = r /\ l[2] # s /\ up[l[2]]
BY SentByNeighbors DEF News, AnnounceToNeighbors

\* A reply goes to the announcer alone, and never the way the route goes.
LEMMA ReplySent ==
    ASSUME TypeOK, NEW r \in Routers, NEW s \in Neighbors[r]
    PROVE  /\ Reply(r, s) \subseteq Links
           /\ \A l \in Reply(r, s) : /\ l[1] = r /\ l[2] = s
                                     /\ route'[r] # s /\ route'[r] # NoRoute
BY SentByNeighbors DEF Reply

-----------------------------------------------------------------------------
(* The steps.  A handler in the listening thread changes one entry of one    *)
(* table, to the sender of the message.                                     *)

\* What the steps that store a route have in common: a running router r, not
\* Home, takes s for its next hop and sends only from itself.
LEMMA StoredKeepsInv ==
    ASSUME Inv, NEW r \in Routers, NEW s \in Routers, r # Home, up[r],
           route' = Saved(r, s),
           adverts' \subseteq Links, announces' \subseteq announces,
           \A l \in adverts' : l \in adverts \/ l[1] = r,
           restarts = 0 /\ FullTables = {} => up[s] /\ Knows(s),
           UNCHANGED <<isHost, up, walk, packet, restarts>>
    PROVE  Inv'
<1>1. TypeOK'
  BY SavedRoute DEF Inv, TypeOK
<1>2. RouteInv'
  <2>1. Saved(r, s)[r] # Local /\ \A other \in Routers \ {r} : route'[other] = route[other]
    BY SavedRoute, NamesDiffer DEF Inv
  <2> QED
    BY <2>1, RouterNetworkAssumption DEF Inv, RouteInv
<1>3. PromiseInv'
  <2> SUFFICES ASSUME restarts = 0, FullTables = {}
               PROVE  /\ \A l \in announces' \cup adverts' : up[l[1]]
                      /\ \A l \in adverts' : Knows(l[1])'
                      /\ \A x, y \in Routers : route'[x] = y => up[y] /\ Knows(y)'
    BY DEF PromiseInv, Knows
  <2>1. route'[r] = s /\ s # NoRoute
    BY SavedRoute, NamesDiffer DEF Inv
  <2>2. \A x \in Routers \ {r} : route'[x] = route[x]
    BY SavedRoute DEF Inv
  <2>3. \A x \in Routers : Knows(x) => Knows(x)'
    BY <2>1, <2>2 DEF Knows
  <2>4. r = Home \/ route'[r] # NoRoute
    BY <2>1
  <2>5. Knows(r)'
    BY <2>4 DEF Knows
  <2>6. \A l \in adverts' : l[1] \in Routers
    BY LinkEnds
  <2>7. \A x, y \in Routers : route'[x] = y => up[y] /\ Knows(y)
    BY <2>1, <2>2 DEF Inv, PromiseInv
  <2> QED
    BY <2>3, <2>5, <2>6, <2>7 DEF Inv, PromiseInv
<1> QED
  BY <1>1, <1>2, <1>3 DEF Inv

\* The steps that leave every table alone and send only from routers that know.
LEMMA SendingKeepsInv ==
    ASSUME Inv, UNCHANGED <<isHost, up, route, restarts>>,
           announces' \subseteq Links, adverts' \subseteq Links,
           walk' \in [Routers -> {"pending", "done"}], packet' \in Routers \cup {Nowhere},
           \A l \in announces' : l \in announces \/ up[l[1]],
           \A l \in adverts' : l \in adverts \/ (up[l[1]] /\ Knows(l[1]))
    PROVE  Inv'
<1>1. TypeOK'
  BY DEF Inv, TypeOK
<1>2. RouteInv'
  BY DEF Inv, RouteInv
<1>3. PromiseInv'
  BY DEF Inv, PromiseInv, Knows
<1> QED
  BY <1>1, <1>2, <1>3 DEF Inv

LEMMA StartKeepsInv ==
    ASSUME Inv, NEW r \in Routers, Start(r)
    PROVE  Inv'
<1> USE DEF Start
<1>1. TypeOK'
  BY DEF Inv, TypeOK
<1>2. /\ \A x \in Routers \ {r} : route'[x] = route[x] /\ up'[x] = up[x]
      /\ up'[r] /\ route[r] = NoRoute
      /\ route'[r] = IF isHost /\ IsLocal(r) THEN Local ELSE NoRoute
  BY DEF Inv, TypeOK, RouteInv
<1>3. RouteInv'
  BY <1>2, NamesDiffer, RouterNetworkAssumption DEF Inv, RouteInv, IsLocal
<1>4. PromiseInv'
  <2>1. \A x \in Routers : up[x] => up'[x]
    BY <1>2
  <2>2. \A x \in Routers : Knows(x) => Knows(x)'
    BY <1>2 DEF Knows
  <2>3. \A l \in announces \cup adverts : l[1] \in Routers
    BY LinkEnds DEF Inv, TypeOK
  <2>4. \A x \in Routers : route'[x] \in Routers => route'[x] = route[x]
    BY <1>2, NamesDiffer
  <2> QED
    BY <2>1, <2>2, <2>3, <2>4 DEF Inv, PromiseInv
<1> QED
  BY <1>1, <1>3, <1>4 DEF Inv

LEMMA StopKeepsInv ==
    ASSUME Inv, NEW r \in Routers, Stop(r)
    PROVE  Inv'
<1> USE DEF Stop
<1>1. TypeOK'
  BY RouterNetworkAssumption DEF Inv, TypeOK
<1>2. /\ \A x \in Routers \ {r} : route'[x] = route[x] /\ up'[x] = up[x]
      /\ ~ up'[r] /\ route'[r] = NoRoute
  BY DEF Inv, TypeOK
<1>3. RouteInv'
  BY <1>2, NamesDiffer, RouterNetworkAssumption DEF Inv, RouteInv
<1>4. PromiseInv'
  BY DEF Inv, TypeOK, PromiseInv
<1> QED
  BY <1>1, <1>3, <1>4 DEF Inv

LEMMA SendAnnounceKeepsInv ==
    ASSUME Inv, NEW r \in Routers, SendAnnounce(r)
    PROVE  Inv'
<1>1. To(r, Neighbors[r]) \subseteq Links /\ \A l \in To(r, Neighbors[r]) : l[1] = r
  BY SentByNeighbors DEF Inv
<1> QED
  BY <1>1, SendingKeepsInv DEF SendAnnounce, Inv, TypeOK

LEMMA WalkKeepsInv ==
    ASSUME Inv, NEW r \in Routers, WalkAdvertise(r) \/ WalkEnd(r)
    PROVE  Inv'
<1>1. AnnounceToNeighbors(r, Nowhere) \subseteq Links
      /\ \A l \in AnnounceToNeighbors(r, Nowhere) : l[1] = r
  BY SentByNeighbors DEF Inv, AnnounceToNeighbors
<1> QED
  BY <1>1, SendingKeepsInv DEF WalkAdvertise, WalkEnd, Inv, TypeOK, Knows

\* The host's socket replaces Local by Local: the host's boot entry was there.
LEMMA HostAnnounceKeepsInv ==
    ASSUME Inv, HostAnnounce
    PROVE  Inv'
<1> USE RouterNetworkAssumption
<1>1. AnnounceToNeighbors(Home, Nowhere) \subseteq Links
      /\ \A l \in AnnounceToNeighbors(Home, Nowhere) : l[1] = Home
  BY SentByNeighbors DEF Inv, AnnounceToNeighbors
<1>2. UNCHANGED route
  BY DEF HostAnnounce, Inv, RouteInv, TypeOK
<1> QED
  BY <1>1, <1>2, SendingKeepsInv DEF HostAnnounce, Inv, TypeOK, Knows

LEMMA ReceiveAnnounceKeepsInv ==
    ASSUME Inv, NEW l \in Links, ReceiveAnnounce(l[1], l[2])
    PROVE  Inv'
<1> DEFINE s == l[1]
           r == l[2]
<1>1. s \in Routers /\ r \in Routers /\ s # r /\ <<s, r>> \in announces /\ up[r] /\ s \in Neighbors[r]
  BY LinkEnds, RouterNetworkAssumption DEF ReceiveAnnounce, Links
<1>2. Reply(r, s) \subseteq Links /\ \A m \in Reply(r, s) : m[1] = r /\ route'[r] # NoRoute
  BY <1>1, ReplySent DEF Inv
<1>3. CASE ~ isHost /\ s = Home
  <2>1. route' = Saved(r, s) /\ adverts' = adverts \cup News(r, s) \cup Reply(r, s)
    BY <1>3 DEF ReceiveAnnounce
  <2>2. News(r, s) \subseteq Links /\ \A m \in News(r, s) : m[1] = r
    BY <1>1, NewsSent DEF Inv
  <2>3. adverts' \subseteq Links /\ \A m \in adverts' : m \in adverts \/ m[1] = r
    BY <1>2, <2>1, <2>2 DEF Inv, TypeOK
  <2>4. restarts = 0 /\ FullTables = {} => up[s] /\ Knows(s)
    BY <1>1, <1>3 DEF Inv, PromiseInv, Knows
  <2>5. announces' \subseteq announces /\ UNCHANGED <<isHost, up, walk, packet, restarts>>
    BY DEF ReceiveAnnounce
  <2> QED
    BY <1>1, <1>3, <2>1, <2>3, <2>4, <2>5, StoredKeepsInv
<1>4. CASE ~ (~ isHost /\ s = Home)
  <2>1. UNCHANGED route /\ adverts' = adverts \cup Reply(r, s)
    BY <1>4 DEF ReceiveAnnounce
  <2> QED
    BY <1>1, <1>2, <2>1, SendingKeepsInv DEF ReceiveAnnounce, Inv, TypeOK, Knows
<1> QED
  BY <1>3, <1>4

LEMMA ReceiveAdvertiseKeepsInv ==
    ASSUME Inv, NEW l \in Links, ReceiveAdvertise(l[1], l[2])
    PROVE  Inv'
<1> DEFINE s == l[1]
           r == l[2]
<1>1. s \in Routers /\ r \in Routers /\ s # r /\ <<s, r>> \in adverts /\ up[r]
  BY LinkEnds DEF ReceiveAdvertise
<1>2. CASE IsLocal(r)
  BY <1>2, SendingKeepsInv DEF ReceiveAdvertise, Inv, TypeOK
<1>3. CASE ~ IsLocal(r)
  <2>1. route' = Saved(r, s) /\ adverts' = (adverts \ {<<s, r>>}) \cup News(r, s)
    BY <1>3 DEF ReceiveAdvertise, Learn
  <2>2. News(r, s) \subseteq Links /\ \A m \in News(r, s) : m[1] = r
    BY <1>1, NewsSent DEF Inv
  <2>3. adverts' \subseteq Links /\ \A m \in adverts' : m \in adverts \/ m[1] = r
    BY <2>1, <2>2 DEF Inv, TypeOK
  <2>4. restarts = 0 /\ FullTables = {} => up[s] /\ Knows(s)
    BY <1>1 DEF Inv, PromiseInv
  <2>5. announces' \subseteq announces /\ UNCHANGED <<isHost, up, walk, packet, restarts>>
    BY DEF ReceiveAdvertise
  <2> QED
    BY <1>1, <1>3, <2>1, <2>3, <2>4, <2>5, StoredKeepsInv DEF IsLocal
<1> QED
  BY <1>2, <1>3

LEMMA LossKeepsInv ==
    ASSUME Inv, NEW l \in Links, LoseAnnounce(l) \/ LoseAdvertise(l)
    PROVE  Inv'
BY SendingKeepsInv DEF LoseAnnounce, LoseAdvertise, Inv, TypeOK

LEMMA PacketKeepsInv ==
    ASSUME Inv, ForwardData \/ \E r \in Routers : SendData(r)
    PROVE  Inv'
<1>1. packet' \in Routers \cup {Nowhere}
  BY RouterNetworkAssumption DEF ForwardData, SendData, Inv, TypeOK
<1> QED
  BY <1>1, SendingKeepsInv DEF ForwardData, SendData, Inv, TypeOK

LEMMA InitInv == Init => Inv
<1> SUFFICES ASSUME Init
             PROVE  Inv
  OBVIOUS
<1>1. TypeOK
  BY RouterNetworkAssumption DEF Init, TypeOK
<1>2. RouteInv
  BY NamesDiffer, RouterNetworkAssumption DEF Init, RouteInv
<1>3. PromiseInv
  BY NamesDiffer DEF Init, PromiseInv
<1> QED
  BY <1>1, <1>2, <1>3 DEF Inv

LEMMA InvStep == Inv /\ [Next]_vars => Inv'
<1> SUFFICES ASSUME Inv, [Next]_vars
             PROVE  Inv'
  OBVIOUS
<1>1. CASE UNCHANGED vars
  BY <1>1 DEF vars, Inv, TypeOK, RouteInv, PromiseInv, Knows
<1>2. CASE \E r \in Routers : \/ Start(r) \/ Stop(r) \/ SendAnnounce(r)
                              \/ WalkAdvertise(r) \/ WalkEnd(r) \/ SendData(r)
  BY <1>2, StartKeepsInv, StopKeepsInv, SendAnnounceKeepsInv, WalkKeepsInv, PacketKeepsInv
<1>3. CASE HostAnnounce
  BY <1>3, HostAnnounceKeepsInv
<1>4. CASE \E l \in Links : \/ ReceiveAnnounce(l[1], l[2]) \/ ReceiveAdvertise(l[1], l[2])
                            \/ LoseAnnounce(l) \/ LoseAdvertise(l)
  BY <1>4, ReceiveAnnounceKeepsInv, ReceiveAdvertiseKeepsInv, LossKeepsInv
<1>5. CASE ForwardData
  BY <1>5, PacketKeepsInv
<1> QED
  BY <1>1, <1>2, <1>3, <1>4, <1>5 DEF Next

LEMMA InvAlways == Spec => []Inv
BY InitInv, InvStep, PTL DEF Spec

-----------------------------------------------------------------------------
(* Theorems.                                                                *)

\* Whatever the routers learn and forget, the variables keep their types:
\* messages stay between neighbors and next hops are routers (forwarding.c).
THEOREM TypeCorrect == Spec => []TypeOK
<1>1. Inv => TypeOK
  BY DEF Inv
<1> QED
  BY <1>1, InvAlways, PTL

\* In every network, no ADVERTISE replaces the route to a router's own host, and
\* no other router takes the host for its own (isLocalHost, forwarding.c:208).
THEOREM HostNeverLeaves == Spec => []HostStaysHome
<1>1. Inv => HostStaysHome
  <2> SUFFICES ASSUME Inv, NEW r \in Routers
               PROVE  route[r] = Local <=> r = Home /\ isHost /\ up[r]
    BY DEF HostStaysHome
  <2> QED
    BY NamesDiffer DEF Inv, RouteInv
<1> QED
  BY <1>1, InvAlways, PTL

\* In every network where nobody stops and no table is full, the next hop of a
\* route is a running router that knows the destination, whatever messages are
\* lost or overtake one another (learnRoute and ADVERTISE, forwarding.c).
THEOREM PromisesKept == Spec => []PromisedByOneThatKnows
<1>1. Inv => PromisedByOneThatKnows
  BY DEF Inv, PromiseInv, PromisedByOneThatKnows, Knows
<1> QED
  BY <1>1, InvAlways, PTL

\* In every network the handlers of the listening thread never advertise a
\* route to the neighbor it goes through: announceToNeighbors leaves it out, and
\* so does sendTableToSocket (forwarding.c:73).
THEOREM HandlersKeepSplitHorizon == Spec => HandlersSplitHorizon
<1> DEFINE A == \A l \in adverts' \ adverts : route'[l[1]] = l[2] => walk[l[1]] # walk'[l[1]]
<1>1. Inv /\ [Next]_vars => [A]_vars
  <2> SUFFICES ASSUME Inv, Next, NEW l \in adverts' \ adverts, route'[l[1]] = l[2]
               PROVE  walk[l[1]] # walk'[l[1]]
    BY DEF vars
  <2>1. CASE \E r \in Routers : WalkAdvertise(r)
    <3>1. PICK r \in Routers : WalkAdvertise(r)
      BY <2>1
    <3>2. l[1] = r
      BY <3>1, SentByNeighbors DEF WalkAdvertise, AnnounceToNeighbors, Inv
    <3> QED
      BY <3>1, <3>2 DEF WalkAdvertise, Inv, TypeOK
  <2>2. CASE HostAnnounce
    <3>1. l[1] = Home /\ l[2] \in Routers
      BY <2>2, SentByNeighbors, RouterNetworkAssumption DEF HostAnnounce, AnnounceToNeighbors, Inv
    <3>2. route'[Home] = Local
      BY <2>2, RouterNetworkAssumption DEF HostAnnounce, Inv, TypeOK
    <3> QED
      BY <3>1, <3>2, NamesDiffer
  <2>3. CASE \E m \in Links : ReceiveAnnounce(m[1], m[2])
    <3>1. PICK m \in Links : ReceiveAnnounce(m[1], m[2])
      BY <2>3
    <3>2. m[1] \in Routers /\ m[2] \in Routers /\ m[1] \in Neighbors[m[2]]
      BY RouterNetworkAssumption DEF Links
    <3>3. ASSUME l \in News(m[2], m[1]), route' = Saved(m[2], m[1])
          PROVE  route'[l[1]] # l[2]
      BY <3>2, <3>3, NewsSent, SavedRoute, NamesDiffer, LinkEnds DEF Inv
    <3>4. l \in Reply(m[2], m[1]) => route'[l[1]] # l[2]
      BY <3>2, ReplySent DEF Inv
    <3> QED
      BY <3>1, <3>3, <3>4 DEF ReceiveAnnounce
  <2>4. CASE \E m \in Links : ReceiveAdvertise(m[1], m[2])
    <3>1. PICK m \in Links : ReceiveAdvertise(m[1], m[2])
      BY <2>4
    <3>2. m[1] \in Routers /\ m[2] \in Routers
      BY LinkEnds
    <3>3. ASSUME l \in News(m[2], m[1]), route' = Saved(m[2], m[1])
          PROVE  route'[l[1]] # l[2]
      BY <3>2, <3>3, NewsSent, SavedRoute, NamesDiffer, LinkEnds DEF Inv
    <3> QED
      BY <3>1, <3>3 DEF ReceiveAdvertise, Learn
  <2> QED
    BY <2>1, <2>2, <2>3, <2>4
    DEF Next, Start, Stop, SendAnnounce, WalkEnd, SendData, LoseAnnounce, LoseAdvertise, ForwardData
<1> QED
  BY <1>1, InvAlways, PTL DEF Spec, HandlersSplitHorizon

\* Full tables are the only reason to advertise a route that is not stored:
\* with room in every table "guardarlo con saveRoute()" comes before the
\* ADVERTISE (README.md:54), whatever is lost and whoever restarts.
THEOREM AdvertisedIsStored ==
    ASSUME FullTables = {}
    PROVE  Spec => AdvertisesWhatItStored
<1> DEFINE A == \A l \in adverts' \ adverts : route'[l[1]] # NoRoute
<1>1. Inv /\ [Next]_vars => [A]_vars
  <2> SUFFICES ASSUME Inv, Next, NEW l \in adverts' \ adverts
               PROVE  route'[l[1]] # NoRoute
    BY DEF vars
  <2>1. CASE \E r \in Routers : WalkAdvertise(r)
    BY <2>1, SentByNeighbors DEF WalkAdvertise, AnnounceToNeighbors, Inv
  <2>2. CASE HostAnnounce
    <3>1. l[1] = Home
      BY <2>2, SentByNeighbors, RouterNetworkAssumption DEF HostAnnounce, AnnounceToNeighbors, Inv
    <3> QED
      BY <2>2, <3>1, NamesDiffer, RouterNetworkAssumption DEF HostAnnounce, Inv, TypeOK
  <2>3. ASSUME NEW r \in Routers, NEW s \in Routers, l \in News(r, s), route' = Saved(r, s)
        PROVE  route'[l[1]] # NoRoute
    BY <2>3, NewsSent, SavedRoute, NamesDiffer DEF Inv
  <2>4. CASE \E m \in Links : ReceiveAnnounce(m[1], m[2])
    <3>1. PICK m \in Links : ReceiveAnnounce(m[1], m[2])
      BY <2>4
    <3>2. m[1] \in Routers /\ m[2] \in Routers /\ m[1] \in Neighbors[m[2]]
      BY RouterNetworkAssumption DEF Links
    <3>3. l \in Reply(m[2], m[1]) => route'[l[1]] # NoRoute
      BY <3>2, ReplySent DEF Inv
    <3> QED
      BY <2>3, <3>1, <3>2, <3>3 DEF ReceiveAnnounce
  <2>5. CASE \E m \in Links : ReceiveAdvertise(m[1], m[2])
    <3>1. PICK m \in Links : ReceiveAdvertise(m[1], m[2])
      BY <2>5
    <3>2. m[1] \in Routers /\ m[2] \in Routers
      BY LinkEnds
    <3> QED
      BY <2>3, <3>1, <3>2 DEF ReceiveAdvertise, Learn
  <2> QED
    BY <2>1, <2>2, <2>4, <2>5
    DEF Next, Start, Stop, SendAnnounce, WalkEnd, SendData, LoseAnnounce, LoseAdvertise, ForwardData
<1> QED
  BY <1>1, InvAlways, PTL DEF Spec, AdvertisesWhatItStored
=============================================================================
