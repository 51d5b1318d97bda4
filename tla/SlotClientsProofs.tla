------------------------- MODULE SlotClientsProofs -------------------------
(***************************************************************************)
(* Decode slots are conserved for every number of instances, slots,        *)
(* operations and epochs.  SlotInv is the inductive invariant: counting    *)
(* the owners of a slot needs that an owner is counted once (OneOwnership) *)
(* and that every scheduled instance has a current epoch to match tickets  *)
(* against (QuarantineFences).                                             *)
(***************************************************************************)
EXTENDS SlotClients, FiniteSetTheorems, TLAPS

SlotInv == TypeOK /\ QuarantineFences /\ OneOwnership /\ SlotsConserved

USE DEF Instances

\* Counting the owners of a slot when one is added or removed.
LEMMA Counting ==
    ASSUME NEW H \in SUBSET Ops, NEW o \in Ops
    PROVE  /\ Cardinality(H) \in Nat
           /\ H = {} => Cardinality(H) = 0
           /\ o \notin H => Cardinality(H \cup {o}) = Cardinality(H) + 1
           /\ o \in H => /\ Cardinality(H \ {o}) = Cardinality(H) - 1
                         /\ Cardinality(H) >= 1
<1>1. IsFiniteSet(H)
  BY FS_Subset, FiniteAssumption
<1>2. Cardinality(H) \in Nat /\ (H = {} => Cardinality(H) = 0)
  BY <1>1, FS_CardinalityType, FS_EmptySet
<1>3. o \notin H => Cardinality(H \cup {o}) = Cardinality(H) + 1
  BY <1>1, FS_AddElement
<1>4. o \in H => Cardinality(H \ {o}) = Cardinality(H) - 1
  BY <1>1, FS_RemoveElement
<1>5. o \in H => Cardinality(H) # 0
  BY <1>1, FS_EmptySet
<1> QED
  BY <1>2, <1>3, <1>4, <1>5

\* The ticket of a scheduled instance is a proper ticket.
LEMMA ScheduledTicket ==
    ASSUME SlotInv, NEW d \in Decodes \cap cap
    PROVE  /\ epoch[d] \in Epochs
           /\ [inst |-> d, epoch |-> epoch[d]] \in Tickets
           /\ [inst |-> d, epoch |-> epoch[d]] # NoTicket
<1>1. epoch[d] \in Epochs
  BY DEF SlotInv, TypeOK, QuarantineFences
<1> QED
  BY <1>1, TicketAssumption DEF Tickets

\* The owners of a slot are operations.
LEMMA HoldersAreOps ==
    ASSUME NEW d \in Decodes
    PROVE  Holders(d) \in SUBSET Ops /\ Holders(d)' \in SUBSET Ops
BY DEF Holders, TicketOn, LiveOn

LEMMA InitSlotInv == Init => SlotInv
<1> SUFFICES ASSUME Init PROVE SlotInv
  OBVIOUS
<1> USE DEF Init, SchedInit
<1>1. TypeOK
  BY DEF TypeOK
<1>2. QuarantineFences /\ SlotsConserved
  BY DEF QuarantineFences, SlotsConserved
<1>3. OneOwnership
  BY DEF OneOwnership
<1> QED
  BY <1>1, <1>2, <1>3 DEF SlotInv

\* An instance that is installed under a fresh epoch has no owners.
LEMMA InstallStep ==
    ASSUME SlotInv, NEW i \in Instances, NEW e \in Epochs, NEW n \in SlotCounts,
           FreshEpoch(i, e), Unleased(i), Install(i, n),
           epoch' = [epoch EXCEPT ![i] = e],
           quarantined' \subseteq quarantined, i \notin quarantined',
           UNCHANGED <<lease, ticket>>
    PROVE  SlotInv'
<1> n \in Nat
  BY InstanceAssumption
<1>1. TypeOK'
  BY DEF SlotInv, TypeOK, Install
<1>2. QuarantineFences'
  BY InstanceAssumption DEF SlotInv, TypeOK, QuarantineFences, Install
<1>3. OneOwnership'
  BY DEF SlotInv, OneOwnership, LiveOn
<1>4. ASSUME NEW d \in Decodes \cap cap', d # i
      PROVE  free'[d] + Cardinality(Holders(d)') = slots'[d]
  <2>1. d \in cap /\ free'[d] = free[d] /\ slots'[d] = slots[d] /\ epoch'[d] = epoch[d]
    BY <1>4 DEF SlotInv, TypeOK, Install
  <2>2. Holders(d)' = Holders(d)
    BY <2>1 DEF Holders, TicketOn, LiveOn
  <2> QED
    BY <2>1, <2>2 DEF SlotInv, SlotsConserved
<1>5. ASSUME i \in Decodes
      PROVE  free'[i] + Cardinality(Holders(i)') = slots'[i]
  <2>1. free'[i] = n /\ slots'[i] = n /\ epoch'[i] = e
    BY <1>5, InstanceAssumption DEF SlotInv, TypeOK, Install
  <2>2. Holders(i)' = {}
    BY <1>5, <2>1 DEF Holders, TicketOn, LiveOn, FreshEpoch, Unleased
  <2>3. Cardinality(Holders(i)') = 0
    BY <2>2, FS_EmptySet
  <2> QED
    BY <2>1, <2>3
<1>6. SlotsConserved'
  BY <1>4, <1>5 DEF SlotsConserved
<1> QED
  BY <1>1, <1>2, <1>3, <1>6 DEF SlotInv

\* Dropping a capacity entry disturbs no other instance.
LEMMA DropStep ==
    ASSUME SlotInv, NEW i \in Instances, Drop(i),
           \A j \in Instances \ {i} : epoch'[j] = epoch[j],
           epoch' \in [Instances -> Epochs \cup {NoEpoch}],
           quarantined' \subseteq quarantined \cup {i},
           UNCHANGED <<lease, ticket>>
    PROVE  SlotInv'
<1>1. TypeOK'
  BY DEF SlotInv, TypeOK, Drop
<1>2. QuarantineFences'
  BY DEF SlotInv, TypeOK, QuarantineFences, Drop
<1>3. OneOwnership'
  BY DEF SlotInv, OneOwnership, LiveOn
<1>4. ASSUME NEW d \in Decodes \cap cap'
      PROVE  free'[d] + Cardinality(Holders(d)') = slots'[d]
  <2>1. d \in cap /\ free'[d] = free[d] /\ slots'[d] = slots[d] /\ epoch'[d] = epoch[d]
    BY <1>4 DEF SlotInv, TypeOK, Drop
  <2>2. Holders(d)' = Holders(d)
    BY <2>1 DEF Holders, TicketOn, LiveOn
  <2> QED
    BY <2>1, <2>2 DEF SlotInv, SlotsConserved
<1>5. SlotsConserved'
  BY <1>4 DEF SlotsConserved
<1> QED
  BY <1>1, <1>2, <1>3, <1>5 DEF SlotInv

LEMMA InstanceStepInv ==
    ASSUME SlotInv, NEW i \in Instances, InstanceStep(i)
    PROVE  SlotInv'
<1>1. CASE \E e \in Epochs, n \in SlotCounts : Register(i, e, n)
  <2>1. PICK e \in Epochs, n \in SlotCounts : Register(i, e, n)
    BY <1>1
  <2> QED
    BY <2>1, InstallStep, ZenonT(40) DEF Register, register_instance
<1>2. CASE \E e \in Epochs, n \in SlotCounts : Reconcile(i, e, n)
  <2>1. PICK e \in Epochs, n \in SlotCounts : Reconcile(i, e, n)
    BY <1>2
  <2>2. quarantined' \subseteq quarantined /\ i \notin quarantined'
    BY <2>1 DEF Reconcile, reconcile_instance
  <2> QED
    BY <2>1, <2>2, InstallStep, ZenonT(40) DEF Reconcile, reconcile_instance
<1>3. CASE Deregister(i)
  BY <1>3, DropStep DEF Deregister, deregister_instance, SlotInv, TypeOK
<1>4. CASE QuarantineInstance(i)
  BY <1>4, DropStep DEF QuarantineInstance, quarantine_instance, SlotInv, TypeOK
<1> QED
  BY <1>1, <1>2, <1>3, <1>4 DEF InstanceStep

\* One more owner takes a free slot of d.
LEMMA TakeConserves ==
    ASSUME SlotInv, NEW o \in Ops, NEW d \in Decodes \cap cap, free[d] > 0,
           free' = [free EXCEPT ![d] = @ - 1], UNCHANGED <<slots, cap>>,
           o \notin Holders(d), Holders(d)' = Holders(d) \cup {o},
           \A c \in (Decodes \cap cap) \ {d} : Holders(c)' = Holders(c)
    PROVE  SlotsConserved' /\ free' \in [Decodes -> Nat]
<1>1. free' \in [Decodes -> Nat]
  BY DEF SlotInv, TypeOK
<1>2. Cardinality(Holders(d)') = Cardinality(Holders(d)) + 1
      /\ Cardinality(Holders(d)) \in Nat
  BY Counting, HoldersAreOps, ZenonT(40)
<1>3. ASSUME NEW c \in Decodes \cap cap
      PROVE  free'[c] + Cardinality(Holders(c)') = slots'[c]
  <2>1. free[c] + Cardinality(Holders(c)) = slots[c] /\ free[c] \in Nat
    BY DEF SlotInv, SlotsConserved, TypeOK
  <2>2. CASE c = d
    <3>1. free'[d] = free[d] - 1
      BY DEF SlotInv, TypeOK
    <3>2. free[d] + Cardinality(Holders(d)) = slots[d] /\ free[d] \in Nat
      BY <2>1, <2>2
    <3>3. free'[d] + Cardinality(Holders(d)') = slots[d]
      BY <3>1, <3>2, <1>2
    <3> QED
      BY <2>2, <3>3
  <2>3. CASE c # d
    BY <2>1, <2>3 DEF SlotInv, TypeOK
  <2> QED
    BY <2>2, <2>3
<1> QED
  BY <1>1, <1>3 DEF SlotsConserved

\* An owner leaves d and the slot is given back, if d is still scheduled: the
\* minimum of the release paths is never the one to decide.
LEMMA GiveConserves ==
    ASSUME SlotInv, NEW o \in Ops, NEW d \in Decodes,
           GiveBack(d), UNCHANGED <<slots, cap>>,
           d \in cap => o \in Holders(d) /\ Holders(d)' = Holders(d) \ {o},
           \A c \in (Decodes \cap cap) \ {d} : Holders(c)' = Holders(c)
    PROVE  SlotsConserved' /\ free' \in [Decodes -> Nat]
<1>1. free' \in [Decodes -> Nat]
  BY DEF SlotInv, TypeOK, GiveBack
<1>2. ASSUME NEW c \in Decodes \cap cap
      PROVE  free'[c] + Cardinality(Holders(c)') = slots'[c]
  <2>1. free[c] + Cardinality(Holders(c)) = slots[c] /\ free[c] \in Nat
    BY DEF SlotInv, SlotsConserved, TypeOK
  <2>2. CASE c = d
    <3>1. /\ Cardinality(Holders(d)') = Cardinality(Holders(d)) - 1
          /\ Cardinality(Holders(d)) >= 1 /\ Cardinality(Holders(d)) \in Nat
      BY <2>2, Counting, HoldersAreOps
    <3>2. free[d] < slots[d]
      BY <2>1, <2>2, <3>1
    <3>3. free'[d] = free[d] + 1
      BY <2>2, <3>2 DEF GiveBack, SlotInv, TypeOK
    <3> QED
      BY <2>1, <2>2, <3>1, <3>3
  <2>3. CASE c # d
    BY <2>1, <2>3 DEF SlotInv, TypeOK, GiveBack
  <2> QED
    BY <2>2, <2>3
<1> QED
  BY <1>1, <1>2 DEF SlotsConserved

\* Nothing changes hands.
LEMMA KeepConserves ==
    ASSUME SlotInv, UNCHANGED <<free, slots, cap>>,
           \A c \in Decodes \cap cap : Holders(c)' = Holders(c)
    PROVE  SlotsConserved'
BY DEF SlotInv, SlotsConserved

LEMMA PrefillStepInv ==
    ASSUME SlotInv, NEW p \in Prefills, PrefillStep(p)
    PROVE  SlotInv'
<1>1. /\ load' \in [Prefills -> Nat]
      /\ UNCHANGED <<free, slots, cap, epoch, quarantined, lease, ticket>>
  <2>1. CASE \E open \in SUBSET Instances : PickPrefill(p, open)
    BY <2>1 DEF PickPrefill, pick_prefill_instance, capacity, SlotInv, TypeOK
  <2>2. CASE \E e \in Epochs : PrefillDone(p, e)
    BY <2>2 DEF PrefillDone, on_prefill_done, capacity, SlotInv, TypeOK
  <2> QED
    BY <2>1, <2>2 DEF PrefillStep
<1>2. \A c \in Decodes : Holders(c)' = Holders(c)
  BY <1>1 DEF Holders, TicketOn, LiveOn
<1> QED
  BY <1>1, <1>2, KeepConserves
  DEF SlotInv, TypeOK, QuarantineFences, OneOwnership, LiveOn

\* A slot is picked against a ticket.
LEMMA PickDecodeInv ==
    ASSUME SlotInv, NEW o \in Ops, NEW d \in Decodes, NEW open \in SUBSET Instances,
           PickDecode(o, d, open)
    PROVE  SlotInv'
<1> USE DEF PickDecode, pick_decode_instance
<1>1. d \in Decodes \cap cap /\ free[d] > 0
  BY DEF DecodeCandidates
<1>2. [inst |-> d, epoch |-> epoch[d]] \in Tickets
  BY <1>1, ScheduledTicket
<1>3. /\ ticket' \in [Ops -> Tickets \cup {NoTicket}]
      /\ ticket'[o] = [inst |-> d, epoch |-> epoch[d]]
      /\ \A u \in Ops \ {o} : ticket'[u] = ticket[u]
  BY <1>2 DEF SlotInv, TypeOK
<1>4. \A c \in Decodes : LiveOn(c)' = LiveOn(c) /\ o \notin LiveOn(c)
  BY DEF LiveOn, Unowned
<1>5. o \notin Holders(d) /\ Holders(d)' = Holders(d) \cup {o}
  BY <1>1, <1>3, <1>4, ScheduledTicket DEF Holders, TicketOn, Unowned
<1>6. \A c \in (Decodes \cap cap) \ {d} : Holders(c)' = Holders(c)
  BY <1>3, <1>4, ScheduledTicket DEF Holders, TicketOn, Unowned
<1>7. SlotsConserved' /\ free' \in [Decodes -> Nat]
  BY <1>1, <1>5, <1>6, TakeConserves, ZenonT(40)
<1>8. OneOwnership'
  BY <1>3, <1>4 DEF SlotInv, OneOwnership
<1> QED
  BY <1>3, <1>7, <1>8 DEF SlotInv, TypeOK, QuarantineFences

\* A slot is reserved by a lease.
LEMMA ReserveInv ==
    ASSUME SlotInv, NEW o \in Ops, NEW d \in Decodes, NEW open \in SUBSET Instances,
           Reserve(o, d, open)
    PROVE  SlotInv'
<1> USE DEF Reserve, reserve_decode_slot
<1>1. d \in Decodes \cap cap /\ free[d] > 0
  BY DEF DecodeCandidates
<1>2. NewLease(d) \in Leases /\ NewLease(d).inst = d /\ NewLease(d).state = "RESERVED"
  BY DEF NewLease, Leases, Live
<1>3. /\ lease' \in [Ops -> Leases \cup {NoLease}]
      /\ lease'[o] = NewLease(d)
      /\ \A u \in Ops \ {o} : lease'[u] = lease[u]
  BY <1>2 DEF SlotInv, TypeOK
<1>4. /\ LiveOn(d)' = LiveOn(d) \cup {o}
      /\ \A c \in Decodes \ {d} : LiveOn(c)' = LiveOn(c)
  BY <1>2, <1>3, LeaseAssumption DEF LiveOn, Live
<1>5. \A c \in Decodes : TicketOn(c)' = TicketOn(c)
  BY DEF TicketOn
<1>6. o \notin Holders(d)
  BY <1>1, ScheduledTicket DEF Holders, TicketOn, Unowned
<1>7. SlotsConserved' /\ free' \in [Decodes -> Nat]
  <2>1. /\ Holders(d)' = Holders(d) \cup {o}
        /\ \A c \in (Decodes \cap cap) \ {d} : Holders(c)' = Holders(c)
    BY <1>4, <1>5 DEF Holders
  <2> QED
    BY <1>1, <1>6, <2>1, TakeConserves, ZenonT(40)
<1>8. OneOwnership'
  BY <1>4 DEF SlotInv, OneOwnership, Unowned
<1> QED
  BY <1>3, <1>7, <1>8 DEF SlotInv, TypeOK, QuarantineFences

\* A ticket is handed in: it counts only if its epoch is the current one.
LEMMA FinishInv ==
    ASSUME SlotInv, NEW o \in Ops, Finish(o)
    PROVE  SlotInv'
<1> USE DEF Finish, on_decode_finished
<1>1. PICK d \in Decodes, e \in Epochs : ticket[o] = [inst |-> d, epoch |-> e]
  BY DEF SlotInv, TypeOK, Tickets
<1>2. /\ ticket' \in [Ops -> Tickets \cup {NoTicket}]
      /\ ticket'[o] = NoTicket
      /\ \A u \in Ops \ {o} : ticket'[u] = ticket[u]
  BY DEF SlotInv, TypeOK
<1>3. \A c \in Decodes : LiveOn(c)' = LiveOn(c) /\ o \notin LiveOn(c)
  BY DEF LiveOn, SlotInv, OneOwnership
<1>4. \A c \in Decodes \cap cap :
         TicketOn(c)' = IF c = d /\ epoch[c] = e THEN TicketOn(c) \ {o} ELSE TicketOn(c)
  BY <1>1, <1>2, ScheduledTicket DEF TicketOn
<1>5. SlotsConserved' /\ free' \in [Decodes -> Nat]
  <2>1. CASE epoch[d] = e
    <3>1. GiveBack(d)
      BY <1>1, <2>1, InstanceAssumption DEF epoch_matches
    <3>2. d \in cap => o \in Holders(d) /\ Holders(d)' = Holders(d) \ {o}
      BY <1>1, <1>3, <1>4, <2>1 DEF Holders, TicketOn
    <3>3. \A c \in (Decodes \cap cap) \ {d} : Holders(c)' = Holders(c)
      BY <1>3, <1>4 DEF Holders
    <3> QED
      BY <1>1, <3>1, <3>2, <3>3, GiveConserves
  <2>2. CASE epoch[d] # e
    <3>1. UNCHANGED free
      BY <1>1, <2>2 DEF epoch_matches
    <3>2. \A c \in Decodes \cap cap : Holders(c)' = Holders(c)
      BY <1>3, <1>4, <2>2 DEF Holders
    <3> QED
      BY <3>1, <3>2, KeepConserves DEF SlotInv, TypeOK
  <2> QED
    BY <2>1, <2>2
<1>6. OneOwnership'
  BY <1>2, <1>3 DEF SlotInv, OneOwnership
<1> QED
  BY <1>2, <1>5, <1>6 DEF SlotInv, TypeOK, QuarantineFences

\* A ticket becomes a lease of the same instance.
LEMMA AdoptInv ==
    ASSUME SlotInv, NEW o \in Ops, Adopt(o)
    PROVE  SlotInv'
<1> USE DEF Adopt, adopt_picked_decode_slot, adopt_raises, capacity
<1>0. PICK d \in Decodes : d = ticket[o].inst
  BY DEF SlotInv, TypeOK, Tickets
<1>1. d \in Decodes \cap cap /\ ticket[o] = [inst |-> d, epoch |-> epoch[d]]
  BY <1>0 DEF SlotInv, TypeOK, Tickets
<1>2. NewLease(d) \in Leases /\ NewLease(d).inst = d /\ NewLease(d).state \in Live
  BY <1>1 DEF NewLease, Leases, Live
<1>3. /\ lease' \in [Ops -> Leases \cup {NoLease}]
      /\ lease'[o] = NewLease(d)
      /\ \A u \in Ops \ {o} : lease'[u] = lease[u]
  BY <1>0, <1>2 DEF SlotInv, TypeOK
<1>4. /\ ticket' \in [Ops -> Tickets \cup {NoTicket}]
      /\ ticket'[o] = NoTicket
      /\ \A u \in Ops \ {o} : ticket'[u] = ticket[u]
  BY DEF SlotInv, TypeOK
<1>5. /\ LiveOn(d)' = LiveOn(d) \cup {o}
      /\ \A c \in Decodes \ {d} : LiveOn(c)' = LiveOn(c)
  BY <1>2, <1>3, LeaseAssumption DEF LiveOn
<1>6. /\ TicketOn(d)' = TicketOn(d) \ {o} /\ o \in TicketOn(d)
      /\ \A c \in (Decodes \cap cap) \ {d} : TicketOn(c)' = TicketOn(c)
  BY <1>1, <1>4, ScheduledTicket DEF TicketOn
<1>7. \A c \in Decodes \cap cap : Holders(c)' = Holders(c)
  BY <1>5, <1>6 DEF Holders
<1>8. OneOwnership'
  BY <1>4, <1>5 DEF SlotInv, OneOwnership
<1> QED
  BY <1>3, <1>4, <1>7, <1>8, KeepConserves DEF SlotInv, TypeOK, QuarantineFences

\* A live lease stays live.
LEMMA RelabelInv ==
    ASSUME SlotInv, NEW o \in Ops, lease[o] # NoLease, lease[o].state \in Live,
           UNCHANGED <<load, free, slots, cap, epoch, quarantined, ticket>>,
           lease' \in [Ops -> Leases \cup {NoLease}],
           lease'[o] # NoLease, lease'[o].inst = lease[o].inst, lease'[o].state \in Live,
           \A u \in Ops \ {o} : lease'[u] = lease[u]
    PROVE  SlotInv'
<1>1. \A c \in Decodes : LiveOn(c)' = LiveOn(c)
  BY DEF LiveOn
<1>2. \A c \in Decodes : TicketOn(c)' = TicketOn(c)
  BY DEF TicketOn
<1>3. SlotsConserved'
  BY <1>1, <1>2, KeepConserves DEF Holders
<1> QED
  BY <1>1, <1>3 DEF SlotInv, TypeOK, QuarantineFences, OneOwnership

\* A live lease is released and its slot given back.
LEMMA FreedInv ==
    ASSUME SlotInv, NEW o \in Ops, NEW d \in Decodes,
           o \in LiveOn(d), GiveBack(d),
           UNCHANGED <<load, slots, cap, epoch, quarantined, ticket>>,
           lease' \in [Ops -> Leases \cup {NoLease}],
           lease'[o].state = "RELEASED",
           \A u \in Ops \ {o} : lease'[u] = lease[u]
    PROVE  SlotInv'
<1>1. LiveOn(d)' = LiveOn(d) \ {o} /\ \A c \in Decodes \ {d} : LiveOn(c)' = LiveOn(c)
  BY DEF LiveOn, Live
<1>2. \A c \in Decodes : TicketOn(c)' = TicketOn(c)
  BY DEF TicketOn
<1>3. d \in cap => o \notin TicketOn(d)
  BY ScheduledTicket DEF TicketOn, SlotInv, OneOwnership
<1>4. /\ d \in cap => o \in Holders(d) /\ Holders(d)' = Holders(d) \ {o}
      /\ \A c \in (Decodes \cap cap) \ {d} : Holders(c)' = Holders(c)
  BY <1>1, <1>2, <1>3 DEF Holders
<1>5. SlotsConserved' /\ free' \in [Decodes -> Nat]
  BY <1>4, GiveConserves
<1>6. OneOwnership'
  BY <1>1 DEF SlotInv, OneOwnership
<1> QED
  BY <1>5, <1>6 DEF SlotInv, TypeOK, QuarantineFences

\* A released lease is restored and takes its slot back.
LEMMA RestoreInv ==
    ASSUME SlotInv, NEW o \in Ops, NEW c \in CleanupIds, NEW s \in Live, Restore(o, c, s)
    PROVE  SlotInv'
<1> USE DEF Restore, restore_decode_slot
<1>1. PICK d \in Decodes : d = lease[o].inst /\ lease[o] \in Leases
  BY DEF SlotInv, TypeOK, Leases
<1>2. /\ lease' \in [Ops -> Leases \cup {NoLease}]
      /\ lease'[o] # NoLease /\ lease'[o].inst = d /\ lease'[o].state = s
      /\ \A u \in Ops \ {o} : lease'[u] = lease[u]
  BY <1>1, LeaseAssumption DEF SlotInv, TypeOK, Leases
<1>3. LiveOn(d)' = LiveOn(d) \cup {o} /\ \A k \in Decodes \ {d} : LiveOn(k)' = LiveOn(k)
  BY <1>1, <1>2, ZenonT(40) DEF LiveOn
<1>4. \A k \in Decodes : TicketOn(k)' = TicketOn(k)
  BY DEF TicketOn
<1>5. SlotsConserved' /\ free' \in [Decodes -> Nat]
  <2>1. CASE d \in cap
    <3>1. free[d] > 0 /\ free' = [free EXCEPT ![d] = @ - 1]
      BY <1>1, <2>1 DEF TakeBack
    <3>2. o \notin Holders(d)
      BY <1>1, <2>1, ScheduledTicket DEF Holders, TicketOn, Unowned
    <3>3. /\ Holders(d)' = Holders(d) \cup {o}
          /\ \A k \in (Decodes \cap cap) \ {d} : Holders(k)' = Holders(k)
      BY <1>3, <1>4 DEF Holders
    <3> QED
      BY <1>1, <2>1, <3>1, <3>2, <3>3, TakeConserves, ZenonT(40)
  <2>2. CASE d \notin cap
    <3>1. free' = free
      BY <1>1, <2>2 DEF TakeBack
    <3>2. \A k \in Decodes \cap cap : Holders(k)' = Holders(k)
      BY <1>3, <1>4, <2>2 DEF Holders
    <3> QED
      BY <3>1, <3>2, KeepConserves DEF SlotInv, TypeOK
  <2> QED
    BY <2>1, <2>2
<1>6. OneOwnership'
  BY <1>1, <1>3 DEF SlotInv, OneOwnership, Unowned
<1> QED
  BY <1>2, <1>5, <1>6 DEF SlotInv, TypeOK, QuarantineFences

\* What the lease updates do to the lease they name.
LEMMA SetStateFacts ==
    ASSUME TypeOK, NEW o \in Ops, lease[o] # NoLease, NEW s \in Live \cup {"RELEASED"},
           SetState(o, s)
    PROVE  /\ lease' \in [Ops -> Leases \cup {NoLease}]
           /\ lease'[o] # NoLease /\ lease'[o].inst = lease[o].inst
           /\ lease'[o].state = s
           /\ \A u \in Ops \ {o} : lease'[u] = lease[u]
<1>1. lease[o] \in Leases
  BY DEF TypeOK
<1> QED
  BY <1>1, LeaseAssumption DEF TypeOK, Leases, SetState

LEMMA LeaseStepInv ==
    ASSUME SlotInv, NEW o \in Ops, LeaseStep(o)
    PROVE  SlotInv'
<1> USE DEF capacity
<1>0. TypeOK
  BY DEF SlotInv
<1>1. CASE Finish(o)
  BY <1>1, FinishInv
<1>2. CASE Adopt(o)
  BY <1>2, AdoptInv
<1>3. CASE Commit(o)
  <2> USE <1>3 DEF Commit, commit_decode_slot
  <2>1. CASE lease[o].state = "RESERVED"
    <3>1. "ACTIVE" \in Live /\ lease[o].state \in Live
      BY <2>1 DEF Live
    <3>2. SetState(o, "ACTIVE")
      BY <2>1
    <3> QED
      BY <1>0, <3>1, <3>2, SetStateFacts, RelabelInv
  <2>2. CASE lease[o].state # "RESERVED"
    BY <2>2 DEF SlotInv, TypeOK, QuarantineFences, OneOwnership, SlotsConserved,
                Holders, TicketOn, LiveOn
  <2> QED
    BY <2>1, <2>2
<1>4. CASE Rollback(o)
  <2> USE <1>4 DEF Rollback, release_decode_slot
  <2>1. lease[o].inst \in Decodes /\ o \in LiveOn(lease[o].inst)
    BY <1>0 DEF TypeOK, Leases, LiveOn, Live
  <2> QED
    BY <1>0, <2>1, SetStateFacts, FreedInv
<1>5. CASE QuarantineSlot(o)
  <2> USE <1>5 DEF QuarantineSlot, quarantine_decode_slot
  <2>1. "QUARANTINED" \in Live /\ lease[o].state \in Live
    BY <1>0 DEF TypeOK, Leases, Live
  <2> QED
    BY <1>0, <2>1, SetStateFacts, RelabelInv
<1>6. ASSUME NEW c \in CleanupIds, ReleaseQuarantined(o, c)
      PROVE  SlotInv'
  <2> USE <1>6 DEF ReleaseQuarantined, release_quarantined_decode_slot
  <2>1. lease[o] \in Leases /\ lease[o].inst \in Decodes /\ o \in LiveOn(lease[o].inst)
    BY <1>0 DEF TypeOK, Leases, LiveOn, Live
  <2>2. /\ lease' \in [Ops -> Leases \cup {NoLease}]
        /\ lease'[o].state = "RELEASED"
        /\ \A u \in Ops \ {o} : lease'[u] = lease[u]
    BY <1>0, <2>1, ZenonT(40) DEF TypeOK, Leases
  <2> QED
    BY <2>1, <2>2, FreedInv
<1>7. ASSUME NEW c \in CleanupIds, NEW s \in Live, Restore(o, c, s)
      PROVE  SlotInv'
  BY <1>7, RestoreInv
<1>8. ASSUME NEW s \in Live, Unfreeze(o, s)
      PROVE  SlotInv'
  <2> USE <1>8 DEF Unfreeze, unfreeze_decode_slot
  <2>1. lease[o] \in Leases /\ lease[o].state \in Live
    BY <1>0 DEF TypeOK, Live
  <2>2. /\ lease' \in [Ops -> Leases \cup {NoLease}]
        /\ lease'[o] # NoLease /\ lease'[o].inst = lease[o].inst
        /\ lease'[o].state = s
        /\ \A u \in Ops \ {o} : lease'[u] = lease[u]
    BY <1>0, <2>1, LeaseAssumption, ZenonT(40) DEF TypeOK, Leases
  <2> QED
    BY <2>1, <2>2, RelabelInv, ZenonT(40)
<1> QED
  BY <1>1, <1>2, <1>3, <1>4, <1>5, <1>6, <1>7, <1>8 DEF LeaseStep

LEMMA SlotStepInv ==
    ASSUME SlotInv, NEW o \in Ops, NEW d \in Decodes, SlotStep(o, d)
    PROVE  SlotInv'
<1>1. ASSUME NEW open \in SUBSET Instances, PickDecode(o, d, open) \/ Reserve(o, d, open)
      PROVE  SlotInv'
  BY <1>1, PickDecodeInv, ReserveInv
<1>2. CASE FinishLease(o, d)
  <2> USE <1>2 DEF FinishLease, on_leased_decode_finished
  <2>1. o \in LiveOn(d)
    BY DEF LiveOn, Live
  <2>2. TypeOK
    BY DEF SlotInv
  <2> QED
    BY <2>1, <2>2, SetStateFacts, FreedInv, SMTT(40)
<1> QED
  BY <1>1, <1>2 DEF SlotStep

LEMMA NextSlotInv ==
    ASSUME SlotInv, [Next]_vars
    PROVE  SlotInv'
<1>1. CASE UNCHANGED vars
  BY <1>1 DEF vars, schedVars, SlotInv, TypeOK, QuarantineFences, OneOwnership,
              SlotsConserved, Holders, TicketOn, LiveOn
<1> QED
  BY <1>1, InstanceStepInv, PrefillStepInv, SlotStepInv, LeaseStepInv, SMTT(40) DEF Next

\* The inductive invariant of the slot counters holds whatever the clients of
\* PDScheduler do within the calling protocol.
THEOREM SlotAccounting == Spec => []SlotInv
BY InitSlotInv, NextSlotInv, PTL DEF Spec

\* Every value of the scheduler's dictionaries keeps its type.
THEOREM SchedulerTypeOK == Spec => []TypeOK
<1>1. SlotInv => TypeOK
  BY DEF SlotInv
<1> QED
  BY <1>1, SlotAccounting, PTL

\* Free slots and slot owners always add up to the capacity of the instance:
\* no order of pick, adopt, release, quarantine, reconcile and rollback calls
\* loses a decode slot or hands one out twice.
THEOREM SlotsAlwaysConserved == Spec => []SlotsConserved
<1>1. SlotInv => SlotsConserved
  BY DEF SlotInv
<1> QED
  BY <1>1, SlotAccounting, PTL

\* A quarantined instance is never scheduled, and a scheduled one has an epoch.
THEOREM QuarantineAlwaysFences == Spec => []QuarantineFences
<1>1. SlotInv => QuarantineFences
  BY DEF SlotInv
<1> QED
  BY <1>1, SlotAccounting, PTL

\* No operation ever owns a slot through a ticket and a lease at once.
THEOREM OwnershipAlwaysUnique == Spec => []OneOwnership
<1>1. SlotInv => OneOwnership
  BY DEF SlotInv
<1> QED
  BY <1>1, SlotAccounting, PTL

=============================================================================
