-------------------------- MODULE MCRouterNetwork ---------------------------
(* Instances of RouterNetwork for TLC: a line and a ring of routers.         *)
EXTENDS RouterNetwork, TLC

CONSTANTS a, b, c      \* the routers

MCLine3 == a :> {b} @@ b :> {a, c} @@ c :> {b}
MCRing3 == a :> {b, c} @@ b :> {a, c} @@ c :> {a, b}
=============================================================================
