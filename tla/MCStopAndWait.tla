--------------------------- MODULE MCStopAndWait ----------------------------
(* Instances of StopAndWait for TLC.                                        *)
EXTENDS StopAndWait

MCThreeFiles == <<2, 3, 1>>
MCEvenThenAny == <<2, 3>>       \* the first has an even number of blocks
MCOneFile    == <<3>>

MCOrderKept  == FaultKinds \ {"reorder"}
MCReorder    == {"dup", "reorder"}
MCNone       == {}
=============================================================================
