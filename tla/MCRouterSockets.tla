-------------------------- MODULE MCRouterSockets ---------------------------
(* Instances of RouterSockets for TLC.                                      *)
EXTENDS RouterSockets

CONSTANTS h1, h2, c1, c2, c3

MCHostOf == c1 :> h1 @@ c2 :> h2 @@ c3 :> "sender"

MCStdInterfaces == h1 :> 1 @@ h2 :> 2
MCInterfaces    == h1 :> 1 @@ h2 :> 5
=============================================================================
