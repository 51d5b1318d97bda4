--------------------------- MODULE AffinitySlots ---------------------------
(***************************************************************************)
(* Prefix loads and their cleanups as users of the slot protocol: a load   *)
(* reserves its slot at once, so it never holds a ticket.                  *)
(***************************************************************************)
EXTENDS AffinityLoad

\* The loads and their cleanups call the scheduler within the protocol of SlotClients.
Sched == INSTANCE SlotClients WITH ticket <- [o \in Ops |-> NoTicket], Loads <- Nat

\* Prefix loads implement the calling protocol, so the slot accounting proved of
\* SlotClients holds for them.
SchedSpec == Sched!Spec

=============================================================================
