------------------------ MODULE MC_MethodDictionary -------------------------
(***************************************************************************)
(* Five selectors whose probe sequences collide and wrap round.            *)
(***************************************************************************)
EXTENDS MethodDictionary, TLC

CONSTANTS k1, k2, k3, k4, k5

MCKeys == {k1, k2, k3, k4, k5}
MCHash == (k1 :> 3) @@ (k2 :> 3) @@ (k3 :> 4) @@ (k4 :> 7) @@ (k5 :> 14)
=============================================================================
