---------------------------- MODULE SlotClients ----------------------------
(***************************************************************************)
(* The calling protocol of the PD scheduler: what the control loops, the   *)
(* prefix loader and the resource release evaluator may do with decode     *)
(* slots, and what the slot counters then guarantee.  The modules of these *)
(* clients are checked to stay within this protocol.                       *)
(*                                                                         *)
(* A slot that pick_decode_instance handed out is owned through a ticket,  *)
(* the decode_instance and decode_instance_epoch fields of the request,    *)
(* until the owner finishes it or adopts it as a lease.                    *)
(***************************************************************************)
EXTENDS PDScheduler

CONSTANTS
    NoTicket,
    Loads       \* the prefill loads of an instance that the model explores

Tickets == [inst : Decodes, epoch : Epochs]

ASSUME TicketAssumption == NoTicket \notin Tickets

ASSUME FiniteAssumption == IsFiniteSet(Ops)

VARIABLE ticket   \* [Ops -> Tickets \cup {NoTicket}]

vars == <<schedVars, ticket>>

-----------------------------------------------------------------------------

\* The operations that own a slot of d under its current epoch by a ticket.
TicketOn(d) == {o \in Ops : ticket[o] = [inst |-> d, epoch |-> epoch[d]]}

Holders(d) == TicketOn(d) \cup LiveOn(d)

Init == SchedInit /\ ticket = [o \in Ops |-> NoTicket]

\* No ticket of an earlier life of instance i carries epoch e.
FreshEpoch(i, e) == \A o \in Ops : ticket[o] # [inst |-> i, epoch |-> e]

\* An instance appears, disappears or returns.  Leases carry no epoch, so an
\* instance with live leases is not rebuilt (network control, which uses them,
\* never quarantines an instance).
Unleased(i) == i \in Decodes => LiveOn(i) = {}

Register(i, e, n) ==
    /\ FreshEpoch(i, e) /\ Unleased(i)
    /\ register_instance(i, e, n)
    /\ UNCHANGED ticket

Deregister(i) == Unleased(i) /\ deregister_instance(i) /\ UNCHANGED ticket

QuarantineInstance(i) == Unleased(i) /\ quarantine_instance(i) /\ UNCHANGED ticket

Reconcile(i, e, n) ==
    /\ FreshEpoch(i, e) /\ Unleased(i)
    /\ reconcile_instance(i, e, n)
    /\ UNCHANGED ticket

PickPrefill(p, open) ==
    /\ load[p] + 1 \in Loads
    /\ pick_prefill_instance(p, open)
    /\ UNCHANGED ticket

PrefillDone(p, e) == on_prefill_done(p, e) /\ UNCHANGED ticket

\* The operation owns no slot.
Unowned(o) == ticket[o] = NoTicket /\ \A d \in Decodes : o \notin LiveOn(d)

\* A caller picks a slot and remembers instance and epoch.
PickDecode(o, d, open) ==
    /\ Unowned(o)
    /\ pick_decode_instance(d, open)
    /\ ticket' = [ticket EXCEPT ![o] = [inst |-> d, epoch |-> epoch[d]]]

\* It gives the slot back, once, under the epoch it remembered.
Finish(o) ==
    /\ ticket[o] # NoTicket
    /\ on_decode_finished(ticket[o].inst, ticket[o].epoch)
    /\ ticket' = [ticket EXCEPT ![o] = NoTicket]

\* It turns the ticket into a lease.
Adopt(o) ==
    /\ ticket[o] # NoTicket
    /\ epoch[ticket[o].inst] = ticket[o].epoch
    /\ adopt_picked_decode_slot(ticket[o].inst, o)
    /\ ticket' = [ticket EXCEPT ![o] = NoTicket]

Reserve(o, d, open) ==
    /\ Unowned(o)
    /\ reserve_decode_slot(d, o, open)
    /\ UNCHANGED ticket

Commit(o) == commit_decode_slot(o) /\ UNCHANGED ticket

Rollback(o) == release_decode_slot(o) /\ UNCHANGED ticket

QuarantineSlot(o) == quarantine_decode_slot(o) /\ UNCHANGED ticket

ReleaseQuarantined(o, c) == release_quarantined_decode_slot(o, c) /\ UNCHANGED ticket

FinishLease(o, d) == on_leased_decode_finished(d, epoch[d], o) /\ UNCHANGED ticket

\* A replacement transaction is rolled back before the schedule loop restarts:
\* the slot it gave back has not been picked again.
Restore(o, c, s) ==
    /\ Unowned(o)
    /\ lease[o] # NoLease
    /\ lease[o].inst \in cap => free[lease[o].inst] > 0
    /\ restore_decode_slot(o, c, s)
    /\ UNCHANGED ticket

Unfreeze(o, s) == unfreeze_decode_slot(o, s) /\ UNCHANGED ticket

InstanceStep(i) ==
    \/ \E e \in Epochs, n \in SlotCounts : Register(i, e, n) \/ Reconcile(i, e, n)
    \/ Deregister(i)
    \/ QuarantineInstance(i)

PrefillStep(p) ==
    \/ \E open \in SUBSET Instances : PickPrefill(p, open)
    \/ \E e \in Epochs : PrefillDone(p, e)

SlotStep(o, d) ==
    \/ \E open \in SUBSET Instances : PickDecode(o, d, open) \/ Reserve(o, d, open)
    \/ FinishLease(o, d)

LeaseStep(o) ==
    \/ Finish(o) \/ Adopt(o) \/ Commit(o) \/ Rollback(o) \/ QuarantineSlot(o)
    \/ \E c \in CleanupIds : ReleaseQuarantined(o, c)
    \/ \E c \in CleanupIds, s \in Live : Restore(o, c, s)
    \/ \E s \in Live : Unfreeze(o, s)

Next ==
    \/ \E i \in Instances : InstanceStep(i)
    \/ \E p \in Prefills : PrefillStep(p)
    \/ \E o \in Ops, d \in Decodes : SlotStep(o, d)
    \/ \E o \in Ops : LeaseStep(o)

Spec == Init /\ [][Next]_vars

-----------------------------------------------------------------------------

TypeOK ==
    /\ load \in [Prefills -> Nat]
    /\ free \in [Decodes -> Nat]
    /\ slots \in [Decodes -> Nat]
    /\ cap \subseteq Instances
    /\ epoch \in [Instances -> Epochs \cup {NoEpoch}]
    /\ quarantined \subseteq Instances
    /\ lease \in [Ops -> Leases \cup {NoLease}]
    /\ ticket \in [Ops -> Tickets \cup {NoTicket}]

\* Slot conservation: the free slots of a decode instance and the operations
\* that own one of its slots always add up to its capacity.  No sequence of
\* picks, adoptions, rollbacks, quarantines, late finishes of an old epoch and
\* replacement rollbacks loses a slot or hands one out twice; in particular the
\* min and max of the release paths never hide a double release.
SlotsConserved ==
    \A d \in Decodes \cap cap : free[d] + Cardinality(Holders(d)) = slots[d]

\* Quarantine fences: an instance is scheduled only under a current epoch and
\* never while its quarantine record stands, whichever of registration,
\* deregistration, quarantine and reconciliation came last.
QuarantineFences ==
    /\ cap \cap quarantined = {}
    /\ \A i \in cap : epoch[i] # NoEpoch

\* A slot is owned by a ticket or by a lease, never by both.
OneOwnership ==
    \A o \in Ops : ticket[o] # NoTicket => \A d \in Decodes : o \notin LiveOn(d)

=============================================================================
