----------------------------- MODULE RouteStore -----------------------------
(***************************************************************************)
(* What routingTable.h and the tableMutex of forwarding.c promise together: *)
(* a list of routes, each with a destination of its own, on which the       *)
(* router's threads act one whole call at a time.                           *)
(***************************************************************************)
EXTENDS Naturals, Sequences

CONSTANTS
    Threads,        \* threads that use the table
    Ips, Hops,      \* positive numbers: destinations and next hops
    Capacity        \* ROUTE_CAPACITY

VARIABLES
    routes,         \* Seq([ip, hop]): routes[i] is the route of index i - 1
    reply           \* what the last call of each thread returned

storeVars == <<routes, reply>>

Absent == 0         \* the reply of a search that found nothing

Has(ip)   == \E i \in DOMAIN routes : routes[i].ip = ip
HopOf(ip) == routes[CHOOSE i \in DOMAIN routes : routes[i].ip = ip].hop

Saved(ip, hop) ==
    IF Has(ip)
    THEN [i \in DOMAIN routes |-> IF routes[i].ip = ip THEN [ip |-> ip, hop |-> hop] ELSE routes[i]]
    ELSE IF Len(routes) < Capacity THEN Append(routes, [ip |-> ip, hop |-> hop]) ELSE routes

Init == routes = << >> /\ reply = [t \in Threads |-> Absent]

\* The boot's saveRoute.
Save(ip, hop) ==
    /\ routes' = Saved(ip, hop)
    /\ UNCHANGED reply

\* learnRoute: the reply is 1 when the route is news.  A table that is full
\* makes every unknown destination news, for ever.
Learn(t, ip, hop) ==
    IF Has(ip) /\ HopOf(ip) = hop
    THEN reply' = [reply EXCEPT ![t] = 0] /\ UNCHANGED routes
    ELSE reply' = [reply EXCEPT ![t] = 1] /\ routes' = Saved(ip, hop)

\* findRoute.
Find(t, ip) ==
    /\ reply' = [reply EXCEPT ![t] = IF Has(ip) THEN HopOf(ip) ELSE Absent]
    /\ UNCHANGED routes

\* getRouteIp, alone or with the findRoute that follows it in one section.
EntryIp(t, i) ==
    /\ reply' = [reply EXCEPT ![t] = IF i \in DOMAIN routes THEN routes[i].ip ELSE Absent]
    /\ UNCHANGED routes

EntryHop(t, i) ==
    /\ reply' = [reply EXCEPT ![t] = IF i \in DOMAIN routes THEN routes[i].hop ELSE Absent]
    /\ UNCHANGED routes

Next ==
    \/ \E ip \in Ips, hop \in Hops : Save(ip, hop)
    \/ \E t \in Threads :
          \/ \E ip \in Ips, hop \in Hops : Learn(t, ip, hop)
          \/ \E ip \in Ips : Find(t, ip)
          \/ \E i \in 1 .. Capacity + 1 : EntryIp(t, i) \/ EntryHop(t, i)

Spec == Init /\ [][Next]_storeVars
=============================================================================
