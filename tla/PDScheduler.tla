---------------------------- MODULE PDScheduler ----------------------------
(***************************************************************************)
(* The slot view of the PD scheduler (scheduler/scheduler.py): prefill     *)
(* load, free decode slots, decode slot leases, instance epochs and the    *)
(* instance quarantine.  This module holds the state of a PDScheduler and  *)
(* one action per method that changes it; the modules that extend it say   *)
(* who calls them.  An action is the call that takes effect: a call that   *)
(* raises or returns early is the negation of its guard and changes        *)
(* nothing.                                                                *)
(*                                                                         *)
(* Instance roles are fixed.  What worker_registry.can_route and the KV    *)
(* usage samples say at the moment of a call is the argument open, the set *)
(* of instances they let through: they change at any time.                 *)
(***************************************************************************)
EXTENDS Integers, FiniteSets

CONSTANTS
    Prefills, Decodes,   \* instance ids by role
    Ops,                 \* operation ids, the keys of _slot_leases
    CleanupIds,          \* release_cleanup_id values
    SlotCounts,          \* max_slots an instance may report
    Epochs,              \* instance epochs
    NoEpoch, NoLease, NoCleanup

Instances == Prefills \cup Decodes

ASSUME InstanceAssumption ==
    /\ Prefills \cap Decodes = {}
    /\ NoEpoch \notin Epochs
    /\ SlotCounts \subseteq Nat \ {0}

VARIABLES
    load,         \* _prefill_load
    free,         \* _decode_free_slots
    slots,        \* _decode_max_slots
    cap,          \* the instances that have an entry in these dictionaries
    epoch,        \* _instance_epochs
    quarantined,  \* the keys of _quarantined
    lease         \* _slot_leases

capacity == <<free, slots, cap>>
schedVars == <<load, free, slots, cap, epoch, quarantined, lease>>

-----------------------------------------------------------------------------

Live == {"RESERVED", "ACTIVE", "QUARANTINED"}

Leases == [inst : Decodes, state : Live \cup {"RELEASED"},
           cleanup : CleanupIds \cup {NoCleanup}]

ASSUME LeaseAssumption == NoLease \notin Leases /\ NoCleanup \notin CleanupIds

\* The operations whose lease occupies a slot of d.
LiveOn(d) == {o \in Ops : /\ lease[o] # NoLease
                          /\ lease[o].inst = d
                          /\ lease[o].state \in Live}

epoch_matches(i, e) == e # NoEpoch /\ epoch[i] = e

SchedInit ==
    /\ load = [p \in Prefills |-> 0]
    /\ free = [d \in Decodes |-> 0]
    /\ slots = [d \in Decodes |-> 0]
    /\ cap = {}
    /\ epoch = [i \in Instances |-> NoEpoch]
    /\ quarantined = {}
    /\ lease = [o \in Ops |-> NoLease]

-----------------------------------------------------------------------------
\* Registration, quarantine, reconciliation

\* (Re)build the capacity entry of instance i, n slots if it decodes.
Install(i, n) ==
    /\ cap' = cap \cup {i}
    /\ \/ /\ i \in Prefills
          /\ load' = [load EXCEPT ![i] = 0]
          /\ UNCHANGED <<free, slots>>
       \/ /\ i \in Decodes
          /\ free' = [free EXCEPT ![i] = n]
          /\ slots' = [slots EXCEPT ![i] = n]
          /\ UNCHANGED load

\* register_instance: a known instance with the same epoch is a no-op, one with
\* another epoch, a quarantined one or a busy one is refused.
register_instance(i, e, n) ==
    /\ i \notin quarantined
    /\ epoch[i] = NoEpoch
    /\ Install(i, n)
    /\ epoch' = [epoch EXCEPT ![i] = e]
    /\ UNCHANGED <<quarantined, lease>>

\* Pop the capacity entry of instance i (counters without entry are kept at 0).
Drop(i) ==
    /\ cap' = cap \ {i}
    /\ load' = [p \in Prefills |-> IF p = i THEN 0 ELSE load[p]]
    /\ free' = [d \in Decodes |-> IF d = i THEN 0 ELSE free[d]]
    /\ slots' = [d \in Decodes |-> IF d = i THEN 0 ELSE slots[d]]

\* deregister_instance: the epoch goes with the capacity entry.
deregister_instance(i) ==
    /\ Drop(i)
    /\ epoch' = [epoch EXCEPT ![i] = NoEpoch]
    /\ UNCHANGED <<quarantined, lease>>

\* quarantine_instance: the capacity entry goes, epoch and role stay.
quarantine_instance(i) ==
    /\ quarantined' = quarantined \cup {i}
    /\ Drop(i)
    /\ UNCHANGED <<epoch, lease>>

\* reconcile_instance: the instance reported an empty ledger under epoch e.
reconcile_instance(i, e, n) ==
    /\ i \in quarantined
    /\ Install(i, n)
    /\ epoch' = [epoch EXCEPT ![i] = e]
    /\ quarantined' = quarantined \ {i}
    /\ UNCHANGED lease

-----------------------------------------------------------------------------
\* Selection

PrefillCandidates(open) == Prefills \cap cap \cap open

pick_prefill_instance(p, open) ==
    /\ p \in PrefillCandidates(open)
    /\ \A q \in PrefillCandidates(open) : load[p] <= load[q]
    /\ load' = [load EXCEPT ![p] = @ + 1]
    /\ UNCHANGED <<capacity, epoch, quarantined, lease>>

DecodeCandidates(open) == {d \in Decodes \cap cap \cap open : free[d] > 0}

\* pick_decode_instance: the candidate with the most free slots.
pick_decode_instance(d, open) ==
    /\ d \in DecodeCandidates(open)
    /\ \A c \in DecodeCandidates(open) : free[c] <= free[d]
    /\ free' = [free EXCEPT ![d] = @ - 1]
    /\ UNCHANGED <<load, slots, cap, epoch, quarantined, lease>>

-----------------------------------------------------------------------------
\* Slot leases

NewLease(d) == [inst |-> d, state |-> "RESERVED", cleanup |-> NoCleanup]

SetState(o, s) == lease' = [lease EXCEPT ![o].state = s]

\* min(maximum, free + 1), if the instance still has a capacity entry.
GiveBack(d) ==
    free' = IF d \in cap /\ free[d] < slots[d]
            THEN [free EXCEPT ![d] = @ + 1] ELSE free

\* max(0, free - 1), likewise.
TakeBack(d) ==
    free' = IF d \in cap /\ free[d] > 0
            THEN [free EXCEPT ![d] = @ - 1] ELSE free

\* reserve_decode_slot, when the operation has no lease yet.
reserve_decode_slot(d, o, open) ==
    /\ lease[o] = NoLease
    /\ d \in DecodeCandidates(open)
    /\ free' = [free EXCEPT ![d] = @ - 1]
    /\ lease' = [lease EXCEPT ![o] = NewLease(d)]
    /\ UNCHANGED <<load, slots, cap, epoch, quarantined>>

\* adopt_picked_decode_slot: raises when the operation ever had a lease.
adopt_raises(d, o) == lease[o] # NoLease \/ d \notin cap

adopt_picked_decode_slot(d, o) ==
    /\ ~adopt_raises(d, o)
    /\ lease' = [lease EXCEPT ![o] = NewLease(d)]
    /\ UNCHANGED <<load, capacity, epoch, quarantined>>

\* commit_decode_slot: only a RESERVED lease becomes ACTIVE.
commit_decode_slot(o) ==
    /\ lease[o] # NoLease
    /\ IF lease[o].state = "RESERVED" THEN SetState(o, "ACTIVE") ELSE UNCHANGED lease
    /\ UNCHANGED <<load, capacity, epoch, quarantined>>

\* release_decode_slot: roll a RESERVED lease back.
release_decode_slot(o) ==
    /\ lease[o] # NoLease
    /\ lease[o].state = "RESERVED"
    /\ SetState(o, "RELEASED")
    /\ GiveBack(lease[o].inst)
    /\ UNCHANGED <<load, slots, cap, epoch, quarantined>>

quarantine_decode_slot(o) ==
    /\ lease[o] # NoLease
    /\ lease[o].state # "RELEASED"
    /\ SetState(o, "QUARANTINED")
    /\ UNCHANGED <<load, capacity, epoch, quarantined>>

\* release_quarantined_decode_slot(o, cleanup_id = c), when it returns True.
release_quarantined_decode_slot(o, c) ==
    /\ lease[o] # NoLease
    /\ lease[o].state = "QUARANTINED"
    /\ lease' = [lease EXCEPT ![o].state = "RELEASED", ![o].cleanup = c]
    /\ GiveBack(lease[o].inst)
    /\ UNCHANGED <<load, slots, cap, epoch, quarantined>>

\* restore_quarantined_decode_slot and restore_replaced_decode_slot: undo a
\* release of cleanup c, back to the lease state s it was made from.
restore_decode_slot(o, c, s) ==
    /\ lease[o] # NoLease
    /\ lease[o].state = "RELEASED"
    /\ lease[o].cleanup = c
    /\ lease' = [lease EXCEPT ![o].state = s, ![o].cleanup = NoCleanup]
    /\ TakeBack(lease[o].inst)
    /\ UNCHANGED <<load, slots, cap, epoch, quarantined>>

\* restore_replaced_decode_slot of a lease that was frozen but not released.
unfreeze_decode_slot(o, s) ==
    /\ lease[o] # NoLease
    /\ lease[o].state = "QUARANTINED"
    /\ lease' = [lease EXCEPT ![o].state = s, ![o].cleanup = NoCleanup]
    /\ UNCHANGED <<load, capacity, epoch, quarantined>>

-----------------------------------------------------------------------------
\* Feedback from the workers

\* on_prefill_done: clamped at zero; a stale epoch is ignored.
on_prefill_done(p, e) ==
    /\ load' = IF p \in cap /\ epoch_matches(p, e) /\ load[p] > 0
               THEN [load EXCEPT ![p] = @ - 1] ELSE load
    /\ UNCHANGED <<capacity, epoch, quarantined, lease>>

\* Mutant: a finish under an old epoch gives a slot back.
on_decode_finishedAnyEpoch(d, e) ==
    /\ GiveBack(d)
    /\ UNCHANGED <<load, slots, cap, epoch, quarantined, lease>>

\* on_decode_finished without an operation id; a stale epoch is ignored.
on_decode_finished(d, e) ==
    /\ IF epoch_matches(d, e) THEN GiveBack(d) ELSE UNCHANGED free
    /\ UNCHANGED <<load, slots, cap, epoch, quarantined, lease>>

\* on_decode_finished with the operation id of a lease that is not quarantined.
on_leased_decode_finished(d, e, o) ==
    /\ epoch_matches(d, e)
    /\ lease[o] # NoLease
    /\ lease[o].inst = d
    /\ lease[o].state \in {"RESERVED", "ACTIVE"}
    /\ SetState(o, "RELEASED")
    /\ GiveBack(d)
    /\ UNCHANGED <<load, slots, cap, epoch, quarantined>>

=============================================================================
