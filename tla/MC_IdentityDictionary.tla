------------------------ MODULE MC_IdentityDictionary -----------------------
(***************************************************************************)
(* Keys whose probe sequences collide and wrap round, two associations     *)
(* for some of the keys.                                                   *)
(***************************************************************************)
EXTENDS IdentityDictionary, TLC

CONSTANTS k1, k2, k3, k4, a1, b1, a2, a3, a4, v1, v2

MCKeys == {k1, k2, k3, k4}
MCAssociations == {a1, b1, a2, a3, a4}
MCKeyOf == (a1 :> k1) @@ (b1 :> k1) @@ (a2 :> k2) @@
           (a3 :> k3) @@ (a4 :> k4)
MCHash == (k1 :> 3) @@ (k2 :> 3) @@ (k3 :> 7) @@ (k4 :> 12)
=============================================================================
