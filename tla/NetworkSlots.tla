---------------------------- MODULE NetworkSlots ----------------------------
(***************************************************************************)
(* The loop under network control as a user of the slot protocol.          *)
(***************************************************************************)
EXTENDS NetworkLoop

\* The loop calls the scheduler within the protocol of SlotClients.  A slot that
\* was picked and not yet adopted is the ticket of that module.
ticketOf ==
    [o \in Ops |-> IF pc.at \in {"adopt", "dead"} /\ pc.req = o
                   THEN [inst |-> pc.d, epoch |-> WorldEpoch] ELSE NoTicket]

Sched == INSTANCE SlotClients WITH ticket <- ticketOf, Loads <- Nat

\* The loop under network control implements the calling protocol, so the slot
\* accounting proved of SlotClients holds for it.
SchedSpec == Sched!Spec

=============================================================================
