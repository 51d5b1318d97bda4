------------------------- MODULE MCReplacementStore -------------------------
(* Instances of the replacement store.  Records k1 and k2 belong to run a; k2 *)
(* and k3 decide the same lease; k4 reuses the key of k1 for another lease.   *)
EXTENDS ReplacementStore, TLC

CONSTANTS a, b, c, g1, g2, x, y, k1, k2, k3, k4

MCKey == (k1 :> 1) @@ (k2 :> 2) @@ (k3 :> 3) @@ (k4 :> 1)
MCLease == (k1 :> 1) @@ (k2 :> 2) @@ (k3 :> 2) @@ (k4 :> 3)
MCRunOf == (k1 :> a) @@ (k2 :> a) @@ (k3 :> a) @@ (k4 :> b)
MCDecOf == (k1 :> x) @@ (k2 :> x) @@ (k3 :> x) @@ (k4 :> x)

=============================================================================
