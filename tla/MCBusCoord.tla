----------------------------- MODULE MCBusCoord -----------------------------
(* Two threads on one path, one on a second path, one on a third path that   *)
(* finds the table full (or displaces one of the others), one TCP thread.    *)
EXTENDS BusCoord, TLC

CONSTANTS t1, t2, t3, t4, tcp, pa, pb, pc

MCThreads == {t1, t2, t3, t4, tcp}
MCPaths   == {pa, pb, pc}
MCPathOf  == t1 :> pa @@ t2 :> pa @@ t3 :> pb @@ t4 :> pc @@ tcp :> NoPath
=============================================================================
