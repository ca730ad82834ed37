------------------------------ MODULE MCRtuPort -----------------------------
(* Two units at one rate and one at another on a first path, one unit on a   *)
(* second and one on a third, and a registry that holds two paths.           *)
EXTENDS RtuPort, TLC

CONSTANTS u1, u2, u3, u4, u5, pa, pb, pc1

MCUnits  == {u1, u2, u3, u4, u5}
MCPaths  == {pa, pb, pc1}
MCPathOf == u1 :> pa @@ u2 :> pa @@ u3 :> pa @@ u4 :> pb @@ u5 :> pc1
MCBaudOf == u1 :> 9600 @@ u2 :> 9600 @@ u3 :> 19200 @@ u4 :> 9600 @@ u5 :> 9600
Alike    == Permutations({u1, u2})
=============================================================================
