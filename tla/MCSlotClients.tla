--------------------------- MODULE MCSlotClients ---------------------------
(***************************************************************************)
(* A small instance of SlotClients: one prefill and two decode instances   *)
(* with up to two slots each, two operations, two epochs.                  *)
(***************************************************************************)
EXTENDS SlotClients, TLC

CONSTANTS p1, d1, d2, o1, o2, e1, e2, c1, c2

MCOps == {o1, o2}
MCEpochs == {e1, e2}
MCSymmetry == Permutations(MCOps) \cup Permutations(MCEpochs)

=============================================================================
