---------------------------- MODULE MCRouteTable ----------------------------
(* Instances of RouteTable for TLC.                                         *)
EXTENDS RouteTable

MCTwoHosts == <<[ip |-> 1, hop |-> 1], [ip |-> 2, hop |-> 1]>>
=============================================================================
