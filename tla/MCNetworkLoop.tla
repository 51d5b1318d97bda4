--------------------------- MODULE MCNetworkLoop ---------------------------
(***************************************************************************)
(* Instances of NetworkLoop for TLC.                                       *)
(***************************************************************************)
EXTENDS NetworkSlots, TLC

CONSTANTS p1, d1, d2, r1, r2, r3, e1, c1

\* Requests are interchangeable, and so are the decode instances of a run.
Symmetry == Permutations(Ops) \cup Permutations(Decodes)

=============================================================================
