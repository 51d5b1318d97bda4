--------------------------- MODULE MCAffinityLoad ---------------------------
(***************************************************************************)
(* Instances of AffinityLoad for TLC.                                      *)
(***************************************************************************)
EXTENDS AffinitySlots, TLC

CONSTANTS d1, r1, r2, o1, o2, e1

=============================================================================
