------------------------- MODULE NetworkLoopProofs -------------------------
(***************************************************************************)
(* For every number of requests, instances, slots and dispatch attempts: a *)
(* slot and its request live together, a slot is reused only when nothing  *)
(* can touch it, byte credits cover every KV transfer on the wire, at most *)
(* one transfer is on the wire, and the loop calls the scheduler within    *)
(* the protocol of SlotClients.  LoopInv ties the position of the loop to  *)
(* the request it works on, and the ledger and the transfer task of a      *)
(* request to its state and to its operations at the workers.              *)
(***************************************************************************)
EXTENDS NetworkSlots, TLAPS

Places == {"boot", "idle", "pick", "adopt", "prepare", "rollback", "publish", "retry",
           "cleanup", "fence", "query", "dead"}

\* The loop at one of the positions in S.
LoopAt(S) == [at : S, req : Ops \cup {NoReq}, p : Prefills \cup {NoInst},
              d : Decodes \cup {NoInst}, abort : BOOLEAN]

Shape == TypeOK /\ lease \in [Ops -> Leases \cup {NoLease}]

\* The request has been assigned to its instances.
Assigned(r) == rq[r].state \notin {"ABSENT", "WAITING"}

\* What the loop knows of its request at each position.
Position ==
    /\ pc.at \notin {"boot", "idle"} => pc.req \in Ops
    /\ pc.at \in {"pick", "adopt", "dead", "prepare", "rollback"} =>
          rq[pc.req].state = "WAITING" /\ pc.p \in Prefills
    /\ pc.at \in {"adopt", "dead", "prepare", "rollback"} => pc.d \in Decodes
    /\ pc.at \in {"publish", "retry"} => rq[pc.req].state = "PREFILLING"
    /\ pc.at = "retry" => rq[pc.req].attempts < MaxAttempts
    /\ pc.at \in {"cleanup", "fence", "query"} => Assigned(pc.req)

\* No transfer of the request is under way and no worker runs anything for it.
Quiet(r) ==
    /\ task[r] = "none"
    /\ xfer[r] = "none"
    /\ \A part \in Parts : remote[r][part] \in Terminal

\* The loop prepares request r, or cleans it up.
Preparing(r) == pc.at \in {"prepare", "rollback"} /\ pc.req = r
Cleaning(r) == pc.at \in {"cleanup", "fence", "query"} /\ pc.req = r

Owned(r) ==
    /\ Assigned(r) => /\ Leased(r) /\ lease[r].inst = rq[r].d
                      /\ rq[r].p \in Prefills /\ rq[r].d \in Decodes
    /\ Leased(r) => Assigned(r) \/ Preparing(r)
    /\ Preparing(r) => Leased(r) /\ lease[r].inst = pc.d
    /\ ~Leased(r) \/ Preparing(r) => Quiet(r)

Ledger(r) ==
    /\ rq[r].state = "PREFILLING" => xfer[r] = "none" /\ task[r] = "none"
    /\ xfer[r] = "deferred" => rq[r].state = "KV_PENDING" /\ task[r] = "none" /\ ~Cleaning(r)
    /\ task[r] # "none" => xfer[r] = "inflight" /\ ~(pc.at = "query" /\ pc.req = r)
    /\ task[r] = "commit" => remote[r].wire = "done"
    /\ remote[r].wire = "run" => xfer[r] = "inflight" /\ (task[r] = "pair" \/ poisoned)

LoopInv == Shape /\ Position /\ OnePairOnWire /\ \A r \in Ops : Owned(r) /\ Ledger(r)

LEMMA InitLoop == Init => LoopInv
<1> SUFFICES ASSUME Init PROVE LoopInv
  OBVIOUS
<1>1. Shape
  <2>1. Absent \in [state : States, p : Prefills \cup {NoInst}, d : Decodes \cup {NoInst},
                   attempts : 0 .. MaxAttempts]
    BY LoopAssumption DEF Absent, States
  <2> QED
    BY <2>1, Zenon DEF Init, SchedInit, Shape, TypeOK, Terminal
<1>2. Position /\ OnePairOnWire
  BY Zenon DEF Init, Position, OnePairOnWire, Parts
<1>3. \A r \in Ops : Owned(r) /\ Ledger(r)
  BY Zenon
     DEF Init, SchedInit, Owned, Ledger, Assigned, Leased, Preparing, Quiet, Absent, Terminal,
         Parts
<1> QED
  BY <1>1, <1>2, <1>3 DEF LoopInv

-----------------------------------------------------------------------------
\* Steps that leave a request alone

\* The loop prepares or cleans up request r.
Visiting(r) == Preparing(r) \/ Cleaning(r)

\* Nothing of request r changes, and the loop neither takes it up nor leaves it.
Still(r) ==
    /\ rq'[r] = rq[r] /\ xfer'[r] = xfer[r] /\ task'[r] = task[r]
    /\ remote'[r] = remote[r] /\ lease'[r] = lease[r]
    /\ poisoned => poisoned'
    /\ pc' = pc \/ (~Visiting(r) /\ ~Visiting(r)')

LEMMA StillKeeps ==
    ASSUME NEW r \in Ops, Owned(r), Ledger(r), Still(r)
    PROVE  Owned(r)' /\ Ledger(r)'
<1>1. /\ Preparing(r)' = Preparing(r) /\ Cleaning(r)' = Cleaning(r)
      /\ Preparing(r) => pc' = pc
      /\ (pc.at = "query" /\ pc.req = r) = (pc'.at = "query" /\ pc'.req = r)
  BY Zenon DEF Still, Visiting, Preparing, Cleaning
<1>2. /\ Assigned(r)' = Assigned(r) /\ Leased(r)' = Leased(r) /\ Quiet(r)' = Quiet(r)
      /\ rq'[r] = rq[r] /\ lease'[r] = lease[r]
  BY Zenon DEF Still, Assigned, Leased, Quiet
<1>3. Owned(r)'
  BY <1>1, <1>2, Zenon DEF Owned
<1>4. Ledger(r)'
  BY <1>1, Zenon DEF Ledger, Still
<1> QED
  BY <1>3, <1>4

\* A step about request r: the others are left alone.  It puts a transfer on the
\* wire only through the gate.
LEMMA StepKeeps ==
    ASSUME LoopInv, NEW r \in Ops, Shape', Position',
           \A q \in Ops : q # r => Still(q),
           Owned(r)', Ledger(r)',
           \/ remote'[r].wire = "run" => remote[r].wire = "run"
           \/ ~poisoned /\ \A q \in Ops : task[q] # "pair"
    PROVE  LoopInv'
<1>1. \A q \in Ops : Owned(q)' /\ Ledger(q)'
  BY StillKeeps, Zenon DEF LoopInv
<1>2. ASSUME NEW q \in Ops, NEW p \in Ops, remote'[q].wire = "run", remote'[p].wire = "run"
      PROVE  q = p
  <2>1. \A o \in Ops : /\ o # r => remote'[o] = remote[o]
                       /\ remote[o].wire = "run" => task[o] = "pair" \/ poisoned
    BY Zenon DEF LoopInv, Ledger, Still
  <2>2. \A o, u \in Ops : remote[o].wire = "run" /\ remote[u].wire = "run" => o = u
    BY Zenon DEF LoopInv, OnePairOnWire
  <2> QED
    BY <1>2, <2>1, <2>2, Zenon
<1> QED
  BY <1>1, <1>2, Zenon DEF LoopInv, OnePairOnWire

\* A step beside the loop: it changes the transfer and the operations of r only.
LEMMA SideKeeps ==
    ASSUME LoopInv, NEW r \in Ops, Shape', UNCHANGED <<schedVars, pc, rq>>,
           \A q \in Ops : q # r => /\ xfer'[q] = xfer[q] /\ task'[q] = task[q]
                                   /\ remote'[q] = remote[q],
           poisoned => poisoned',
           Quiet(r) => Quiet(r)', Ledger(r)',
           \/ remote'[r].wire = "run" => remote[r].wire = "run"
           \/ ~poisoned /\ \A q \in Ops : task[q] # "pair"
    PROVE  LoopInv'
<1>1. Position'
  BY Zenon DEF LoopInv, Position, Assigned
<1>2. ASSUME NEW q \in Ops, q # r PROVE Still(q)
  <2>1. rq' = rq /\ pc' = pc /\ lease' = lease
    BY Zenon DEF schedVars
  <2> QED
    BY <1>2, <2>1, Zenon DEF Still
<1>3. Owned(r)'
  BY Zenon DEF LoopInv, Owned, Assigned, Leased, Preparing, schedVars
<1> QED
  BY <1>1, <1>2, <1>3, StepKeeps, Zenon

\* The loop moves on; nothing of any request changes.
LEMMA PcKeeps ==
    ASSUME LoopInv, Shape', Position', UNCHANGED <<lease, rq, xfer, task, poisoned, remote>>,
           \A r \in Ops : /\ Preparing(r)' = Preparing(r)
                          /\ Cleaning(r)' => xfer[r] # "deferred",
           pc'.d = pc.d \/ pc'.at \notin {"prepare", "rollback"},
           pc'.at # "query" \/ pc' = pc
    PROVE  LoopInv'
<1>1. OnePairOnWire'
  BY Zenon DEF LoopInv, OnePairOnWire
<1>2. ASSUME NEW r \in Ops PROVE Owned(r)'
  <2>1. Preparing(r)' => pc'.d = pc.d
    BY Zenon DEF Preparing
  <2>2. Assigned(r)' = Assigned(r) /\ Leased(r)' = Leased(r) /\ Quiet(r)' = Quiet(r)
    BY Zenon DEF Assigned, Leased, Quiet
  <2>3. Preparing(r)' = Preparing(r)
    OBVIOUS
  <2> QED
    BY <2>1, <2>2, <2>3, Zenon DEF LoopInv, Owned
<1>3. ASSUME NEW r \in Ops PROVE Ledger(r)'
  BY <1>3, Zenon DEF LoopInv, Ledger
<1> QED
  BY <1>1, <1>2, <1>3, Zenon DEF LoopInv

-----------------------------------------------------------------------------
\* The transfer task and the workers

Remotes == [Ops -> [Parts -> Terminal \cup {"sent", "run", "held", "committing", "decoding"}]]

Put(r, part, v) == remote' = [remote EXCEPT ![r][part] = v]

\* An operation at a worker changes; the other ones do not.
LEMMA RemoteSet ==
    ASSUME Shape, NEW r \in Ops, NEW part \in Parts,
           NEW v \in Terminal \cup {"sent", "run", "held", "committing", "decoding"},
           Put(r, part, v)
    PROVE  /\ remote' \in Remotes
           /\ \A q \in Ops : q # r => remote'[q] = remote[q]
           /\ \A other \in Parts : remote'[r][other] = IF other = part THEN v ELSE remote[r][other]
<1> DEFINE Row == [Parts -> Terminal \cup {"sent", "run", "held", "committing", "decoding"}]
<1>1. remote \in [Ops -> Row] /\ remote[r] \in Row
  BY Zenon DEF Shape, TypeOK
<1>2. [remote[r] EXCEPT ![part] = v] \in Row
  BY <1>1, Zenon
<1>3. remote' = [remote EXCEPT ![r] = [remote[r] EXCEPT ![part] = v]]
  BY DEF Put
<1>4. remote' \in [Ops -> Row]
  BY <1>1, <1>2, <1>3, Zenon
<1>5. /\ \A q \in Ops : q # r => remote'[q] = remote[q]
      /\ remote'[r] = [remote[r] EXCEPT ![part] = v]
  BY <1>1, <1>3, Zenon
<1> QED
  BY <1>1, <1>4, <1>5, Zenon DEF Remotes

\* A worker advances or fences an operation that is not terminal.
LEMMA PutKeeps ==
    ASSUME LoopInv, NEW r \in Ops, NEW part \in Parts,
           NEW v \in {"held", "decoding", "done", "fenced"},
           Put(r, part, v), remote[r][part] \notin Terminal,
           UNCHANGED <<schedVars, pc, rq, xfer, task, poisoned, out>>
    PROVE  LoopInv'
<1>1. /\ remote' \in Remotes
      /\ \A q \in Ops : q # r => remote'[q] = remote[q]
      /\ \A other \in Parts : remote'[r][other] = IF other = part THEN v ELSE remote[r][other]
  BY RemoteSet DEF LoopInv, Terminal
<1>2. Shape'
  BY <1>1 DEF LoopInv, Shape, TypeOK, Remotes, schedVars
<1>3. ~Quiet(r)
  BY Zenon DEF Quiet
<1>4. /\ remote'[r].wire = "run" => remote[r].wire = "run"
      /\ remote[r].wire = "done" => remote'[r].wire = "done"
  BY <1>1, Zenon DEF Parts, Terminal
<1>5. Ledger(r)'
  BY <1>4, Zenon DEF LoopInv, Ledger, Cleaning
<1> QED
  BY <1>1, <1>2, <1>3, <1>4, <1>5, SideKeeps, Zenon

LEMMA WorkerKeeps ==
    ASSUME LoopInv, NEW r \in Ops, Worker(r)
    PROVE  LoopInv'
<1>1. ASSUME NEW part \in Parts, Fence(r, part) PROVE LoopInv'
  BY <1>1, PutKeeps, Zenon DEF Fence, Put
<1>2. ASSUME NEW part \in Parts, NEW from \in {"sent", "run", "committing", "decoding"},
             NEW to \in {"held", "decoding", "done"}, RunOn(r, part, from, to)
      PROVE  LoopInv'
  BY <1>2, PutKeeps, Zenon DEF RunOn, Put, Terminal
<1> QED
  BY <1>1, <1>2, Zenon DEF Worker, RunPrefill, RunTransfer, RunDecode, Parts

\* The governor dispatches a deferred transfer.
LEMMA FlushKeeps ==
    ASSUME LoopInv, NEW r \in Ops, Flush(r)
    PROVE  LoopInv'
<1>1. Shape /\ Ledger(r)
  BY DEF LoopInv
<1>2. /\ xfer' \in [Ops -> {"none", "deferred", "inflight"}]
      /\ task' \in [Ops -> {"none", "queued", "pair", "commit"}]
      /\ xfer'[r] = "inflight" /\ task'[r] = "queued"
      /\ \A q \in Ops : q # r => xfer'[q] = xfer[q] /\ task'[q] = task[q]
      /\ UNCHANGED <<schedVars, pc, rq, poisoned, remote, out>>
  BY <1>1, Zenon DEF Flush, Shape, TypeOK
<1>3. Shape'
  BY <1>1, <1>2 DEF Shape, TypeOK, schedVars
<1>4. ~Quiet(r) /\ ~Cleaning(r) /\ task[r] = "none"
  BY <1>1, Zenon DEF Flush, Quiet, Ledger
<1>5. Ledger(r)'
  BY <1>1, <1>2, <1>4, Zenon DEF Flush, Ledger, Cleaning
<1> QED
  BY <1>2, <1>3, <1>4, <1>5, SideKeeps, Zenon

\* A transfer task starts its pair, or finds the gate poisoned.
LEMMA StartPairKeeps ==
    ASSUME LoopInv, NEW r \in Ops, StartPair(r)
    PROVE  LoopInv'
<1>1. /\ Shape /\ Ledger(r) /\ task[r] = "queued" /\ ~Quiet(r)
      /\ UNCHANGED <<schedVars, pc, rq, xfer, poisoned, out>>
  BY Zenon DEF LoopInv, StartPair, Quiet
<1>2. /\ task' \in [Ops -> {"none", "queued", "pair", "commit"}]
      /\ \A q \in Ops : q # r => task'[q] = task[q]
  BY <1>1, Zenon DEF StartPair, Shape, TypeOK
<1>3. CASE poisoned
  <2>1. task'[r] = "none" /\ UNCHANGED remote
    BY <1>1, <1>3, Zenon DEF StartPair, Shape, TypeOK
  <2>2. Shape'
    BY <1>1, <1>2, <2>1 DEF Shape, TypeOK, schedVars
  <2>3. Ledger(r)'
    BY <1>1, <1>3, <2>1, Zenon DEF Ledger, Cleaning
  <2> QED
    BY <1>1, <1>2, <2>1, <2>2, <2>3, SideKeeps, Zenon
<1>4. CASE ~poisoned
  <2>1. task'[r] = "pair" /\ Put(r, "wire", "run") /\ \A q \in Ops : task[q] # "pair"
    BY <1>1, <1>4, Zenon DEF StartPair, Shape, TypeOK, Put
  <2>2. /\ remote' \in Remotes
        /\ \A q \in Ops : q # r => remote'[q] = remote[q]
        /\ remote'[r].wire = "run"
    BY <1>1, <2>1, RemoteSet, Zenon DEF Parts
  <2>3. Shape'
    BY <1>1, <1>2, <2>2, Zenon DEF Shape, TypeOK, Remotes, schedVars
  <2>4. Ledger(r)'
    BY <1>1, <2>1, <2>2, Zenon DEF Ledger, Cleaning
  <2> QED
    BY <1>1, <1>2, <1>4, <2>1, <2>2, <2>3, <2>4, SideKeeps, Zenon
<1> QED
  BY <1>3, <1>4

\* A pair ends: the commit goes out, or the gate is poisoned.
LEMMA EndPairKeeps ==
    ASSUME LoopInv, NEW r \in Ops, EndPair(r)
    PROVE  LoopInv'
<1>1. /\ Shape /\ Ledger(r) /\ task[r] = "pair" /\ ~Quiet(r)
      /\ UNCHANGED <<schedVars, pc, rq, xfer, out>>
  BY Zenon DEF LoopInv, EndPair, Quiet
<1>2. /\ task' \in [Ops -> {"none", "queued", "pair", "commit"}]
      /\ \A q \in Ops : q # r => task'[q] = task[q]
  BY <1>1, Zenon DEF EndPair, Shape, TypeOK
<1>3. CASE poisoned' = TRUE /\ task' = [task EXCEPT ![r] = "none"] /\ UNCHANGED remote
  <2>1. task'[r] = "none"
    BY <1>1, <1>3, Zenon DEF Shape, TypeOK
  <2>2. Shape'
    BY <1>1, <1>2, <1>3, Zenon DEF Shape, TypeOK, schedVars
  <2>3. Ledger(r)'
    BY <1>1, <1>3, <2>1, Zenon DEF Ledger, Cleaning
  <2> QED
    BY <1>1, <1>2, <1>3, <2>1, <2>2, <2>3, SideKeeps, Zenon
<1>4. CASE /\ remote[r].wire = "done" /\ task' = [task EXCEPT ![r] = "commit"]
           /\ Put(r, "tgt", "committing") /\ UNCHANGED poisoned
  <2>1. task'[r] = "commit"
    BY <1>1, <1>4, Zenon DEF Shape, TypeOK
  <2>2. /\ remote' \in Remotes
        /\ \A q \in Ops : q # r => remote'[q] = remote[q]
        /\ remote'[r].wire = "done"
    BY <1>1, <1>4, RemoteSet, Zenon DEF Parts
  <2>3. Shape'
    BY <1>1, <1>2, <1>4, <2>2, Zenon DEF Shape, TypeOK, Remotes, schedVars
  <2>4. Ledger(r)'
    BY <1>1, <2>1, <2>2, Zenon DEF Ledger, Cleaning
  <2> QED
    BY <1>1, <1>2, <1>4, <2>1, <2>2, <2>3, <2>4, SideKeeps, Zenon
<1> QED
  BY <1>3, <1>4, Zenon DEF EndPair, Put

LEMMA CommitFailsKeeps ==
    ASSUME LoopInv, NEW r \in Ops, CommitFails(r)
    PROVE  LoopInv'
<1>1. /\ Shape /\ Ledger(r) /\ task[r] = "commit" /\ ~Quiet(r)
      /\ UNCHANGED <<schedVars, pc, rq, xfer, poisoned, remote, out>>
  BY Zenon DEF LoopInv, CommitFails, Quiet
<1>2. /\ task' \in [Ops -> {"none", "queued", "pair", "commit"}] /\ task'[r] = "none"
      /\ \A q \in Ops : q # r => task'[q] = task[q]
  BY <1>1, Zenon DEF CommitFails, Shape, TypeOK
<1>3. Shape'
  BY <1>1, <1>2 DEF Shape, TypeOK, schedVars
<1>4. Ledger(r)'
  BY <1>1, <1>2, Zenon DEF Ledger, Cleaning
<1> QED
  BY <1>1, <1>2, <1>3, <1>4, SideKeeps, Zenon

\* A stream becomes terminal beside the loop.
LEMMA StreamKeeps ==
    ASSUME LoopInv, NEW r \in Ops, RepairOutput(r) \/ TerminateStream(r)
    PROVE  LoopInv'
<1>1. /\ UNCHANGED <<schedVars, pc, rq, xfer, task, poisoned, remote>>
      /\ out' = [out EXCEPT ![r] = TRUE]
  BY Zenon DEF RepairOutput, TerminateStream
<1>2. Shape'
  BY <1>1 DEF LoopInv, Shape, TypeOK, schedVars
<1>3. Ledger(r)' /\ (Quiet(r) => Quiet(r)')
  BY <1>1, Zenon DEF LoopInv, Ledger, Cleaning, Quiet
<1> QED
  BY <1>1, <1>2, <1>3, SideKeeps, Zenon

-----------------------------------------------------------------------------
\* The loop moves on

\* The loop takes up a request, to retry or to clean it up.
LEMMA VisitKeeps ==
    ASSUME LoopInv, NEW r \in Ops,
           StuckPrefill(r) \/ PrefillDoneInvalid(r) \/ StuckDecode(r) \/ FinishCleanup(r)
    PROVE  LoopInv'
<1>1. Shape /\ pc.at = "idle" /\ UNCHANGED <<lease, rq, xfer, task, poisoned, remote, out>>
  BY Zenon DEF LoopInv, StuckPrefill, PrefillDoneInvalid, StuckDecode, FinishCleanup, Idle, At,
         schedVars
<1>2. /\ Assigned(r) /\ xfer[r] # "deferred"
      /\ pc' \in LoopAt({"cleanup", "retry", "fence"})
      /\ pc'.req = r
      /\ pc'.at = "retry" => rq[r].state = "PREFILLING" /\ rq[r].attempts < MaxAttempts
  <2>1. Ledger(r)
    BY DEF LoopInv
  <2>2. rq[r].state \in {"PREFILLING", "DECODING", "FINISHED", "ABORTED"}
    BY Zenon DEF StuckPrefill, PrefillDoneInvalid, StuckDecode, FinishCleanup
  <2>3. rq[r].attempts \in 0 .. MaxAttempts /\ pc \in LoopAt(Places)
    BY <1>1, Zenon DEF Shape, TypeOK, LoopAt, Places
  <2>4. rq[r].attempts \in Nat /\ MaxAttempts \in Nat
    BY <2>3, LoopAssumption
  <2>5. CASE StuckPrefill(r)
    <3>1. \E to \in {"cleanup", "retry"} : /\ Goto(to, r)
                                           /\ to = "retry" => rq[r].attempts < MaxAttempts
      BY <2>4, <2>5 DEF StuckPrefill
    <3>2. rq[r].state = "PREFILLING"
      BY <2>5, Zenon DEF StuckPrefill
    <3> QED
      BY <2>1, <2>3, <3>1, <3>2, Zenon DEF Goto, Assigned, Ledger, LoopAt
  <2>6. CASE PrefillDoneInvalid(r) \/ StuckDecode(r)
    BY <2>1, <2>2, <2>3, <2>6, Zenon
       DEF PrefillDoneInvalid, StuckDecode, Goto, Assigned, Ledger, LoopAt
  <2>7. CASE FinishCleanup(r)
    BY <2>1, <2>2, <2>3, <2>7, Zenon DEF FinishCleanup, Assigned, Ledger, LoopAt
  <2> QED
    BY <2>5, <2>6, <2>7, Zenon
<1>3. Shape'
  BY <1>1, <1>2, Zenon DEF Shape, TypeOK, LoopAt
<1>4. Position'
  BY <1>1, <1>2, Zenon DEF Position, Assigned, LoopAt
<1>5. \A q \in Ops : /\ Preparing(q)' = Preparing(q)
                     /\ Cleaning(q)' => xfer[q] # "deferred"
  BY <1>1, <1>2, Zenon DEF Preparing, Cleaning, LoopAt
<1>6. pc'.at \notin {"prepare", "rollback", "query"}
  BY <1>2, Zenon DEF LoopAt
<1> QED
  BY <1>1, <1>3, <1>4, <1>5, <1>6, PcKeeps, Zenon

\* The loop is at a position of an admission and goes to another one.
LEMMA AdmissionMoves ==
    ASSUME LoopInv, UNCHANGED <<lease, rq, xfer, task, poisoned, remote, out>>,
           pc' \in LoopAt({"boot", "idle", "pick", "adopt", "rollback", "dead"}),
           pc'.at \in {"pick", "adopt", "rollback", "dead"} =>
              pc'.req \in Ops /\ rq[pc'.req].state = "WAITING" /\ pc'.p \in Prefills,
           pc'.at \in {"adopt", "rollback", "dead"} => pc'.d \in Decodes,
           \/ /\ pc.at \in {"boot", "idle", "pick", "adopt"}
              /\ pc'.at \in {"boot", "idle", "pick", "adopt", "dead"}
           \/ /\ pc.at = "prepare" /\ pc'.at = "rollback"
              /\ pc'.req = pc.req /\ pc'.d = pc.d
    PROVE  LoopInv'
<1>1. Shape'
  BY Zenon DEF LoopInv, Shape, TypeOK, LoopAt
<1>2. Position'
  BY Zenon DEF Position, LoopAt
<1>3. \A q \in Ops : /\ Preparing(q)' = Preparing(q)
                     /\ Cleaning(q)' => xfer[q] # "deferred"
  BY Zenon DEF Preparing, Cleaning
<1> QED
  BY <1>1, <1>2, <1>3, PcKeeps, Zenon

LEMMA AdmissionKeeps ==
    ASSUME LoopInv,
           \/ \E i \in Instances : Boot(i)
           \/ \E r \in Ops, p \in Prefills : StartAdmission(r, p)
           \/ PickTarget \/ PrepareRejected
           \/ AdoptSlot /\ pc'.at = "dead"
    PROVE  LoopInv'
<1>1. pc \in LoopAt(Places) /\ Position
  BY Zenon DEF LoopInv, Shape, TypeOK, LoopAt, Places
<1>2. CASE \E i \in Instances : Boot(i)
  <2>1. /\ UNCHANGED <<lease, rq, xfer, task, poisoned, remote, out>>
        /\ pc.at = "boot" /\ (ToIdle \/ UNCHANGED pc)
    BY <1>2, Zenon DEF Boot, At, register_instance
  <2> QED
    <3>1. pc' \in LoopAt({"boot", "idle"})
      <4>1. ToIdle => pc' \in LoopAt({"boot", "idle"})
        BY DEF ToIdle, LoopAt
      <4>2. UNCHANGED pc => pc' \in LoopAt({"boot", "idle"})
        BY <1>1, <2>1, Zenon DEF LoopAt
      <4> QED
        BY <2>1, <4>1, <4>2, Zenon
    <3>2. pc' \in LoopAt({"boot", "idle", "pick", "adopt", "rollback", "dead"})
      BY <3>1 DEF LoopAt
    <3>3. pc'.at \in {"boot", "idle"}
      BY <3>1 DEF LoopAt
    <3> QED
      BY <2>1, <3>2, <3>3, AdmissionMoves, Zenon
<1>3. ASSUME NEW r \in Ops, NEW p \in Prefills, StartAdmission(r, p) PROVE LoopInv'
  BY <1>1, <1>3, AdmissionMoves, Zenon
     DEF StartAdmission, Idle, At, pick_prefill_instance, LoopAt
<1>4. CASE PickTarget
  <2>1. ASSUME NEW d \in Decodes, NEW open \in SUBSET Instances, pick_decode_instance(d, open),
               pc' = [pc EXCEPT !.at = "adopt", !.d = d]
        PROVE  LoopInv'
    BY <1>1, <1>4, <2>1, AdmissionMoves , Zenon
       DEF PickTarget, At, pick_decode_instance, Position, LoopAt
  <2>2. CASE on_prefill_done(pc.p, epoch[pc.p]) /\ ToIdle
    BY <1>1, <1>4, <2>2, AdmissionMoves , Zenon
       DEF PickTarget, At, on_prefill_done, ToIdle, LoopAt
  <2> QED
    BY <1>4, <2>1, <2>2, Zenon DEF PickTarget
<1>5. CASE PrepareRejected
  BY <1>1, <1>5, AdmissionMoves, Zenon
     DEF PrepareRejected, At, on_prefill_done, Position, LoopAt
<1>6. CASE AdoptSlot /\ pc'.at = "dead"
  <2>1. /\ UNCHANGED <<schedVars, rq, xfer, task, poisoned, remote, out>>
        /\ pc.at = "adopt" /\ pc' = [pc EXCEPT !.at = "dead"]
    BY <1>1, <1>6, Zenon DEF AdoptSlot, At, LoopAt
  <2> QED
    BY <1>1, <2>1, AdmissionMoves, Zenon DEF schedVars, Position, LoopAt
<1> QED
  BY <1>2, <1>3, <1>4, <1>5, <1>6, Zenon

\* _canonical_cleanup begins, or nothing happens.
LEMMA IdleKeeps ==
    ASSUME LoopInv, CanonicalCleanup \/ UNCHANGED vars
    PROVE  LoopInv'
<1>1. Shape /\ UNCHANGED <<lease, rq, xfer, task, poisoned, remote, out>>
  BY Zenon DEF LoopInv, CanonicalCleanup, on_prefill_done, vars, schedVars, loopVars
<1>2. CASE UNCHANGED vars
  <2>1. pc' = pc
    BY <1>2 DEF vars, loopVars
  <2>2. Shape' /\ Position'
    BY <1>1, <2>1 DEF LoopInv, Shape, TypeOK, Position, Assigned
  <2>3. \A q \in Ops : /\ Preparing(q)' = Preparing(q)
                       /\ Cleaning(q)' => xfer[q] # "deferred"
    BY <2>1, Zenon DEF LoopInv, Ledger, Preparing, Cleaning
  <2> QED
    BY <1>1, <2>1, <2>2, <2>3, PcKeeps, Zenon
<1>3. CASE CanonicalCleanup
  <2>1. /\ pc \in LoopAt(Places) /\ pc.at = "cleanup"
        /\ pc' = [pc EXCEPT !.at = "fence", !.abort = TRUE]
    BY <1>1, <1>3, Zenon DEF CanonicalCleanup, At, Shape, TypeOK, LoopAt, Places
  <2>2. pc' \in LoopAt({"fence"}) /\ pc'.at = "fence" /\ pc'.req = pc.req
    BY <2>1, Zenon DEF LoopAt
  <2>3. Shape'
    BY <1>1, <2>2, Zenon DEF Shape, TypeOK, LoopAt
  <2>4. Position'
    BY <1>1, <2>1, <2>2, Zenon DEF LoopInv, Position, Assigned
  <2>5. \A q \in Ops : /\ Preparing(q)' = Preparing(q)
                       /\ Cleaning(q)' => xfer[q] # "deferred"
    BY <2>1, <2>2 DEF LoopInv, Ledger, Preparing, Cleaning
  <2> QED
    BY <1>1, <2>2, <2>3, <2>4, <2>5, PcKeeps, Zenon
<1> QED
  BY <1>2, <1>3

-----------------------------------------------------------------------------
\* Steps that move a request

\* The other requests are left alone by a step of the loop's request or of an idle loop.
LEMMA OthersStill ==
    ASSUME NEW r \in Ops,
           \A q \in Ops : q # r => /\ rq'[q] = rq[q] /\ xfer'[q] = xfer[q] /\ task'[q] = task[q]
                                   /\ remote'[q] = remote[q] /\ lease'[q] = lease[q],
           poisoned' = poisoned,
           pc.at \in {"boot", "idle", "adopt"} \/ pc.req = r,
           pc'.at \in {"boot", "idle"} \/ pc'.req = r
    PROVE  \A q \in Ops : q # r => Still(q)
<1> SUFFICES ASSUME NEW q \in Ops, q # r PROVE Still(q)
  OBVIOUS
<1>1. ~Visiting(q) /\ ~Visiting(q)'
  BY Zenon DEF Visiting, Preparing, Cleaning
<1> QED
  BY <1>1, Zenon DEF Still

Entries == [state : States, p : Prefills \cup {NoInst}, d : Decodes \cup {NoInst},
            attempts : 0 .. MaxAttempts]
Tracked == [Ops -> Entries]

\* RequestTracker.transition
LEMMA MoveSet ==
    ASSUME Shape, NEW r \in Ops, NEW s \in States, Move(r, s)
    PROVE  /\ rq' \in Tracked
           /\ rq'[r].state = s /\ rq'[r].p = rq[r].p /\ rq'[r].d = rq[r].d
           /\ \A q \in Ops : rq'[q].attempts = rq[q].attempts
           /\ \A q \in Ops : q # r => rq'[q] = rq[q]
<1> DEFINE x == [rq[r] EXCEPT !.state = s]
<1>1. rq \in Tracked /\ rq[r] \in Entries
  BY Zenon DEF Shape, TypeOK, Tracked, Entries
<1>2. /\ x \in Entries
      /\ x.state = s /\ x.p = rq[r].p /\ x.d = rq[r].d /\ x.attempts = rq[r].attempts
  BY <1>1, Zenon DEF Entries
<1>3. rq' = [rq EXCEPT ![r] = x]
  BY DEF Move
<1> HIDE DEF x
<1> QED
  BY <1>1, <1>2, <1>3, Zenon DEF Tracked

\* The lease of one operation is replaced.
LEMMA LeaseSet ==
    ASSUME Shape, NEW r \in Ops, NEW l \in Leases, lease' = [lease EXCEPT ![r] = l]
    PROVE  /\ lease' \in [Ops -> Leases \cup {NoLease}]
           /\ lease'[r] = l /\ l # NoLease
           /\ \A q \in Ops : q # r => lease'[q] = lease[q]
BY LeaseAssumption DEF Shape

LEMMA StateSet ==
    ASSUME Shape, NEW r \in Ops, lease[r] # NoLease, NEW s \in Live \cup {"RELEASED"},
           SetState(r, s)
    PROVE  /\ lease' \in [Ops -> Leases \cup {NoLease}]
           /\ lease'[r] # NoLease /\ lease'[r].inst = lease[r].inst /\ lease'[r].state = s
           /\ \A q \in Ops : q # r => lease'[q] = lease[q]
<1> DEFINE l == [lease[r] EXCEPT !.state = s]
<1>1. lease[r] \in Leases
  BY DEF Shape
<1>2. l \in Leases /\ l.inst = lease[r].inst /\ l.state = s
  BY <1>1 DEF Leases
<1>3. lease' = [lease EXCEPT ![r] = l]
  BY DEF SetState
<1> HIDE DEF l
<1> QED
  BY <1>2, <1>3, LeaseSet, Zenon

LEMMA ArriveKeeps ==
    ASSUME LoopInv, NEW r \in Ops, Arrive(r)
    PROVE  LoopInv'
<1>1. /\ Shape /\ Position /\ Owned(r) /\ rq[r].state = "ABSENT"
      /\ UNCHANGED <<schedVars, pc, xfer, task, poisoned, remote, out>>
  BY Zenon DEF LoopInv, Arrive
<1>2. /\ rq' \in Tracked
      /\ rq'[r].state = "WAITING"
      /\ \A q \in Ops : rq'[q].attempts = rq[q].attempts
      /\ \A q \in Ops : q # r => rq'[q] = rq[q]
  BY <1>1, MoveSet, Zenon DEF Arrive, States
<1>3. pc.at \in {"boot", "idle"} \/ pc.req # r
  BY <1>1, Zenon DEF Position, Assigned, Shape, TypeOK
<1>4. Shape' /\ pc' = pc /\ lease' = lease
  BY <1>1, <1>2 DEF Shape, TypeOK, Tracked, Entries, schedVars
<1>5. Position'
  BY <1>1, <1>2, <1>3, <1>4, Zenon DEF Position, Assigned
<1>6. \A q \in Ops : q # r => Still(q)
  BY <1>1, <1>2, <1>4, Zenon DEF Still
<1>7. ~Leased(r) /\ Quiet(r) /\ ~Preparing(r)
  BY <1>1, <1>3, Zenon DEF Owned, Assigned, Preparing
<1>8. Owned(r)' /\ Ledger(r)'
  BY <1>1, <1>2, <1>4, <1>7, Zenon
     DEF Owned, Assigned, Preparing, Leased, Quiet, Ledger, Terminal, Parts
<1> QED
  BY <1>1, <1>4, <1>5, <1>6, <1>8, StepKeeps, Zenon

\* adopt_picked_decode_slot succeeds.
LEMMA AdoptKeeps ==
    ASSUME LoopInv, NEW r \in Ops, pc.req = r, At("adopt"), adopt_picked_decode_slot(pc.d, pc.req),
           pc' = [pc EXCEPT !.at = "prepare"],
           UNCHANGED <<rq, xfer, task, poisoned, remote, out>>
    PROVE  LoopInv'
<1>1. /\ Shape /\ pc \in LoopAt(Places) /\ pc.at = "adopt" /\ pc.req = r
      /\ rq[r].state = "WAITING" /\ pc.p \in Prefills /\ pc.d \in Decodes
      /\ Owned(r) /\ Ledger(r)
  BY Zenon DEF LoopInv, Shape, TypeOK, At, Position, LoopAt, Places
<1>2. /\ pc' \in LoopAt({"prepare"}) /\ pc'.at = "prepare" /\ pc'.req = r
      /\ pc'.p = pc.p /\ pc'.d = pc.d
  BY <1>1, Zenon DEF LoopAt
<1>3. /\ NewLease(pc.d) \in Leases /\ NewLease(pc.d).inst = pc.d
      /\ NewLease(pc.d).state = "RESERVED"
  BY <1>1, Zenon DEF NewLease, Leases, Live
<1>4. lease[r] = NoLease /\ lease' = [lease EXCEPT ![r] = NewLease(pc.d)]
  BY DEF adopt_picked_decode_slot, adopt_raises
<1>5. /\ lease' \in [Ops -> Leases \cup {NoLease}]
      /\ lease'[r] = NewLease(pc.d) /\ NewLease(pc.d) # NoLease
      /\ \A q \in Ops : q # r => lease'[q] = lease[q]
  BY <1>1, <1>3, <1>4, LeaseSet, Zenon
<1>6. Shape'
  BY <1>1, <1>2, <1>5, Zenon DEF Shape, TypeOK, LoopAt
<1>7. Position'
  BY <1>1, <1>2, Zenon DEF Position
<1>8. \A q \in Ops : q # r => Still(q)
  BY <1>1, <1>2, <1>5, OthersStill, Zenon
<1>9. Quiet(r) /\ Leased(r)'
  BY <1>1, <1>2, <1>3, <1>4, <1>5, Zenon DEF Owned, Leased, Live
<1>10. Owned(r)'
  BY <1>1, <1>2, <1>3, <1>5, <1>9, Zenon DEF Owned, Assigned, Preparing, Quiet
<1>11. Ledger(r)'
  BY <1>1, <1>2, <1>9, Zenon DEF Ledger, Quiet, Terminal, Parts
<1> QED
  BY <1>1, <1>6, <1>7, <1>8, <1>10, <1>11, StepKeeps, Zenon

\* prepare_normal_request returned, or was ambiguous.
LEMMA PrepareKeeps ==
    ASSUME LoopInv, NEW r \in Ops, pc.req = r, PrepareOk \/ PrepareAmbiguous
    PROVE  LoopInv'
<1>1. /\ Shape /\ pc \in LoopAt(Places) /\ pc.at = "prepare" /\ pc.req = r
      /\ rq[r].state = "WAITING" /\ pc.p \in Prefills /\ pc.d \in Decodes
      /\ Owned(r) /\ Ledger(r) /\ Preparing(r)
  BY Zenon
     DEF LoopInv, Shape, TypeOK, At, Position, LoopAt, Places, PrepareOk, PrepareAmbiguous,
         Preparing
<1>2. UNCHANGED <<lease, xfer, task, poisoned, out>> /\ Assign(r)
  BY Zenon DEF PrepareOk, PrepareAmbiguous, schedVars, on_prefill_done
<1>3. \E to \in {"publish", "cleanup"} : pc' = [pc EXCEPT !.at = to]
  BY Zenon DEF PrepareOk, PrepareAmbiguous
<1>4. \E v \in {"held", "sent"} : Put(r, "tgt", v)
  BY Zenon DEF PrepareOk, PrepareAmbiguous, Put
<1>5. pc' \in LoopAt({"publish", "cleanup"}) /\ pc'.req = r
  BY <1>1, <1>3, Zenon DEF LoopAt
<1>6. pc'.at \in {"publish", "cleanup"}
  BY <1>5 DEF LoopAt
<1>7. /\ remote' \in Remotes
      /\ \A q \in Ops : q # r => remote'[q] = remote[q]
      /\ remote'[r].wire = remote[r].wire
  BY <1>1, <1>4, RemoteSet, Zenon DEF Parts
<1>8. /\ rq' \in Tracked
      /\ rq'[r].state = "PREFILLING" /\ rq'[r].p = pc.p /\ rq'[r].d = pc.d
      /\ \A q \in Ops : q # r => rq'[q] = rq[q]
  <2> DEFINE x == [state |-> "PREFILLING", p |-> pc.p, d |-> pc.d, attempts |-> 1]
  <2>1. 1 \in 0 .. MaxAttempts
    BY LoopAssumption
  <2>2. x \in Entries /\ x.state = "PREFILLING" /\ x.p = pc.p /\ x.d = pc.d
    BY <1>1, <2>1, Zenon DEF Entries, States
  <2>3. rq \in Tracked /\ rq' = [rq EXCEPT ![r] = x]
    BY <1>1, <1>2, Zenon DEF Assign, Shape, TypeOK, Tracked, Entries
  <2> HIDE DEF x
  <2> QED
    BY <1>1, <2>2, <2>3, Zenon DEF Tracked
<1>9. Shape'
  BY <1>1, <1>2, <1>5, <1>7, <1>8, Zenon DEF Shape, TypeOK, LoopAt, Remotes, Tracked, Entries
<1>10. Position'
  BY <1>1, <1>5, <1>6, <1>8, Zenon DEF Position, Assigned
<1>11. \A q \in Ops : q # r => Still(q)
  BY <1>1, <1>2, <1>5, <1>7, <1>8, OthersStill, Zenon
<1>12. Leased(r) /\ lease[r].inst = pc.d /\ Quiet(r)
  BY <1>1, Zenon DEF Owned
<1>13. Owned(r)'
  BY <1>1, <1>2, <1>5, <1>6, <1>8, <1>12, Zenon DEF Owned, Assigned, Preparing, Leased
<1>14. Ledger(r)'
  BY <1>1, <1>2, <1>5, <1>6, <1>7, <1>12, Zenon DEF Ledger, Quiet, Terminal, Parts
<1> QED
  BY <1>1, <1>7, <1>9, <1>10, <1>11, <1>13, <1>14, StepKeeps, Zenon

\* A refused prepare: the lease is rolled back.
LEMMA RollbackKeeps ==
    ASSUME LoopInv, NEW r \in Ops, pc.req = r, RollbackSlot
    PROVE  LoopInv'
<1>1. /\ Shape /\ pc.at = "rollback" /\ pc.req = r /\ rq[r].state = "WAITING"
      /\ Owned(r) /\ Ledger(r) /\ Preparing(r)
  BY Zenon DEF LoopInv, Shape, TypeOK, At, Position, RollbackSlot, Preparing
<1>2. /\ UNCHANGED <<rq, xfer, task, poisoned, remote, out>> /\ ToIdle
      /\ lease[r] # NoLease /\ SetState(r, "RELEASED")
  BY Zenon DEF RollbackSlot, release_decode_slot
<1>3. /\ lease' \in [Ops -> Leases \cup {NoLease}]
      /\ lease'[r].state = "RELEASED"
      /\ \A q \in Ops : q # r => lease'[q] = lease[q]
  BY <1>1, <1>2, StateSet, Zenon
<1>4. pc' \in LoopAt({"idle"}) /\ pc'.at = "idle"
  BY <1>2, Zenon DEF ToIdle, LoopAt
<1>5. Shape' /\ Position'
  BY <1>1, <1>2, <1>3, <1>4, Zenon DEF Shape, TypeOK, LoopAt, Position
<1>6. \A q \in Ops : q # r => Still(q)
  BY <1>1, <1>2, <1>3, <1>4, OthersStill, Zenon
<1>7. Quiet(r) /\ ~Leased(r)'
  BY <1>1, <1>3, Zenon DEF Owned, Leased, Live
<1>8. Owned(r)'
  BY <1>1, <1>2, <1>4, <1>7, Zenon DEF Owned, Assigned, Preparing, Quiet
<1>9. Ledger(r)'
  BY <1>1, <1>2, <1>4, <1>7, Zenon DEF Ledger, Quiet, Terminal, Parts
<1> QED
  BY <1>1, <1>2, <1>5, <1>6, <1>8, <1>9, StepKeeps, Zenon

\* The prefill command is published, or the publication fails.
LEMMA PublishKeeps ==
    ASSUME LoopInv, NEW r \in Ops, pc.req = r, pc.at \in {"publish", "retry"},
           NEW n \in 0 .. MaxAttempts, Publish(n)
    PROVE  LoopInv'
<1>1. /\ Shape /\ rq[r].state = "PREFILLING" /\ Owned(r) /\ Ledger(r)
      /\ pc \in LoopAt(Places)
  BY Zenon DEF LoopInv, Position, Shape, TypeOK, LoopAt, Places
<1>2. UNCHANGED <<schedVars, xfer, task, poisoned, out>>
  BY Zenon DEF Publish
<1>3. /\ rq' \in Tracked
      /\ rq'[r].state = "PREFILLING" /\ rq'[r].p = rq[r].p /\ rq'[r].d = rq[r].d
      /\ \A q \in Ops : q # r => rq'[q] = rq[q]
  <2> DEFINE x == [rq[r] EXCEPT !.attempts = n]
  <2>1. rq \in Tracked /\ rq[r] \in Entries
    BY <1>1, Zenon DEF Shape, TypeOK, Tracked, Entries
  <2>2. x \in Entries /\ x.state = "PREFILLING" /\ x.p = rq[r].p /\ x.d = rq[r].d
    BY <1>1, <2>1, Zenon DEF Entries
  <2>3. rq' = rq \/ rq' = [rq EXCEPT ![r] = x]
    BY Zenon DEF Publish
  <2> HIDE DEF x
  <2> QED
    BY <1>1, <2>1, <2>2, <2>3, Zenon DEF Tracked
<1>4. pc' \in LoopAt({"idle", "cleanup"}) /\ (pc'.at = "idle" \/ pc'.req = r)
  <2>1. ToIdle => pc' \in LoopAt({"idle", "cleanup"}) /\ pc'.at = "idle"
    BY DEF ToIdle, LoopAt
  <2>2. Goto("cleanup", r) => pc' \in LoopAt({"idle", "cleanup"}) /\ pc'.req = r
    BY <1>1, Zenon DEF Goto, LoopAt
  <2> QED
    BY <2>1, <2>2, Zenon DEF Publish
<1>5. pc'.at \in {"idle", "cleanup"}
  BY <1>4 DEF LoopAt
<1>6. /\ remote' \in Remotes
      /\ \A q \in Ops : q # r => remote'[q] = remote[q]
      /\ remote'[r].wire = remote[r].wire
  <2>1. remote \in Remotes /\ remote[r].src \in Terminal \cup {"sent", "run", "held", "committing", "decoding"}
    BY <1>1 DEF Shape, TypeOK, Remotes, Parts
  <2>2. \/ UNCHANGED remote
        \/ \E v \in Terminal \cup {"sent", "run", "held", "committing", "decoding"} :
              Put(r, "src", v)
    BY <2>1, Zenon DEF Publish, Put
  <2> QED
    BY <1>1, <2>1, <2>2, RemoteSet, Zenon DEF Parts
<1>7. Shape'
  BY <1>1, <1>2, <1>3, <1>4, <1>6, Zenon
     DEF Shape, TypeOK, LoopAt, Remotes, Tracked, Entries, schedVars
<1>8. Position'
  BY <1>3, <1>4, <1>5, Zenon DEF Position, Assigned
<1>9. \A q \in Ops : q # r => Still(q)
  BY <1>2, <1>3, <1>4, <1>6, OthersStill, Zenon DEF schedVars
<1>10. Owned(r)'
  BY <1>1, <1>2, <1>3, <1>5, Zenon DEF Owned, Assigned, Preparing, Leased, schedVars
<1>11. Ledger(r)'
  BY <1>1, <1>2, <1>3, <1>5, <1>6, Zenon DEF Ledger
<1> QED
  BY <1>6, <1>7, <1>8, <1>9, <1>10, <1>11, StepKeeps, Zenon

LEMMA DispatchKeeps ==
    ASSUME LoopInv, PublishDispatch \/ RetryDispatch
    PROVE  LoopInv'
<1>1. /\ Position /\ MaxAttempts \in Nat \ {0}
      /\ pc.at \in {"publish", "retry"} /\ pc.req \in Ops
  BY LoopAssumption, Zenon DEF LoopInv, Position, PublishDispatch, RetryDispatch, At
<1>2. rq[pc.req].attempts \in 0 .. MaxAttempts
  BY <1>1, Zenon DEF LoopInv, Shape, TypeOK
<1>3. CASE PublishDispatch
  <2>1. 1 \in 0 .. MaxAttempts
    BY <1>1
  <2> QED
    BY <1>1, <1>3, <2>1, PublishKeeps DEF PublishDispatch
<1>4. CASE RetryDispatch
  <2>1. rq[pc.req].attempts < MaxAttempts
    BY <1>1, <1>4, Zenon DEF Position, RetryDispatch, At
  <2>2. rq[pc.req].attempts + 1 \in 0 .. MaxAttempts
    BY <1>1, <1>2, <2>1
  <2> QED
    BY <1>1, <1>4, <2>2, PublishKeeps, Zenon DEF RetryDispatch
<1> QED
  BY <1>3, <1>4

\* A prefill result: the transfer is submitted.
LEMMA PrefillDoneKeeps ==
    ASSUME LoopInv, NEW r \in Ops, PrefillDone(r)
    PROVE  LoopInv'
<1>1. /\ Shape /\ Owned(r) /\ Ledger(r) /\ pc.at = "idle" /\ rq[r].state = "PREFILLING"
      /\ UNCHANGED <<lease, pc, poisoned, remote, out>>
  BY Zenon DEF LoopInv, PrefillDone, Idle, At, on_prefill_done
<1>2. /\ rq' \in Tracked
      /\ rq'[r].state = "KV_PENDING" /\ rq'[r].p = rq[r].p /\ rq'[r].d = rq[r].d
      /\ \A q \in Ops : q # r => rq'[q] = rq[q]
  BY <1>1, MoveSet, Zenon DEF PrefillDone, States
<1>3. /\ xfer' \in [Ops -> {"none", "deferred", "inflight"}]
      /\ task' \in [Ops -> {"none", "queued", "pair", "commit"}]
      /\ \A q \in Ops : q # r => xfer'[q] = xfer[q] /\ task'[q] = task[q]
      /\ \/ xfer'[r] = "inflight" /\ task'[r] = "queued"
         \/ xfer'[r] = "deferred" /\ task'[r] = "none"
  <2>1. /\ xfer \in [Ops -> {"none", "deferred", "inflight"}] /\ task[r] = "none"
        /\ task \in [Ops -> {"none", "queued", "pair", "commit"}]
    BY <1>1, Zenon DEF Shape, TypeOK, Ledger
  <2> QED
    BY <2>1 DEF PrefillDone, Submit
<1>4. Shape' /\ Position'
  BY <1>1, <1>2, <1>3, Zenon DEF Shape, TypeOK, Position, Tracked, Entries
<1>5. \A q \in Ops : q # r => Still(q)
  BY <1>1, <1>2, <1>3, OthersStill, Zenon
<1>6. Owned(r)'
  BY <1>1, <1>2, Zenon DEF Owned, Assigned, Preparing, Leased
<1>7. Ledger(r)'
  BY <1>1, <1>2, <1>3, Zenon DEF Ledger, Cleaning
<1> QED
  BY <1>1, <1>4, <1>5, <1>6, <1>7, StepKeeps, Zenon

\* The commit succeeded: the ledger forgets the transfer, and a request that waits
\* for it decodes.  The loop may be anywhere it awaits, even cleaning up this request.
LEMMA CompletesKeeps ==
    ASSUME LoopInv, NEW r \in Ops, TransferCompletes(r)
    PROVE  LoopInv'
<1>1. /\ Shape /\ Position /\ Owned(r) /\ Ledger(r) /\ task[r] = "commit"
      /\ remote[r].wire = "done" /\ UNCHANGED <<pc, poisoned, remote, out>>
  BY Zenon DEF LoopInv, TransferCompletes, Ledger
<1>2. /\ xfer' \in [Ops -> {"none", "deferred", "inflight"}]
      /\ task' \in [Ops -> {"none", "queued", "pair", "commit"}]
      /\ xfer'[r] = "none" /\ task'[r] = "none"
      /\ \A q \in Ops : q # r => xfer'[q] = xfer[q] /\ task'[q] = task[q]
  BY <1>1, Zenon DEF TransferCompletes, Shape, TypeOK
<1>3. /\ lease' \in [Ops -> Leases \cup {NoLease}]
      /\ \A q \in Ops : q # r => lease'[q] = lease[q]
      /\ Leased(r)' = Leased(r) /\ (Leased(r) => lease'[r].inst = lease[r].inst)
  <2>1. CASE UNCHANGED lease
    BY <1>1, <2>1, Zenon DEF Shape, Leased
  <2>2. CASE lease[r] # NoLease /\ lease[r].state = "RESERVED" /\ SetState(r, "ACTIVE")
    BY <1>1, <2>2, StateSet, Zenon DEF Leased, Live
  <2> QED
    BY <2>1, <2>2, Zenon DEF TransferCompletes, commit_decode_slot, schedVars
<1>4. /\ rq' \in Tracked
      /\ \A q \in Ops : rq'[q].attempts = rq[q].attempts
      /\ \A q \in Ops : q # r => rq'[q] = rq[q]
      /\ \/ rq'[r] = rq[r]
         \/ /\ rq[r].state = "KV_PENDING" /\ rq'[r].state \in {"FINISHED", "DECODING"}
            /\ rq'[r].p = rq[r].p /\ rq'[r].d = rq[r].d
  <2>1. CASE UNCHANGED rq
    BY <1>1, <2>1, Zenon DEF Shape, TypeOK, Tracked, Entries
  <2>2. ASSUME rq[r].state = "KV_PENDING", NEW s \in {"FINISHED", "DECODING"}, Move(r, s)
        PROVE  /\ rq' \in Tracked
               /\ \A q \in Ops : rq'[q].attempts = rq[q].attempts
               /\ \A q \in Ops : q # r => rq'[q] = rq[q]
               /\ rq'[r].state = s /\ rq'[r].p = rq[r].p /\ rq'[r].d = rq[r].d
    BY <1>1, <2>2, MoveSet, Zenon DEF States
  <2>3. \/ UNCHANGED rq
        \/ rq[r].state = "KV_PENDING" /\ \E s \in {"FINISHED", "DECODING"} : Move(r, s)
    BY Zenon DEF TransferCompletes
  <2> QED
    BY <2>1, <2>2, <2>3, Zenon
<1>5. Shape'
  BY <1>1, <1>2, <1>3, <1>4 DEF Shape, TypeOK, Tracked, Entries
<1>6. Position'
  BY <1>1, <1>4, Zenon DEF Position, Assigned
<1>7. \A q \in Ops : q # r => Still(q)
  BY <1>1, <1>2, <1>3, <1>4, Zenon DEF Still
<1>8. Leased(r) /\ ~Preparing(r) /\ Assigned(r)
  BY <1>1, Zenon DEF Owned, Quiet
<1>9. Owned(r)'
  BY <1>1, <1>3, <1>4, <1>8, Zenon DEF Owned, Assigned, Preparing
<1>10. Ledger(r)'
  BY <1>1, <1>2, Zenon DEF Ledger
<1> QED
  BY <1>1, <1>5, <1>6, <1>7, <1>9, <1>10, StepKeeps, Zenon

\* A transfer times out; a deferred one is cancelled.
LEMMA StuckTransferKeeps ==
    ASSUME LoopInv, NEW r \in Ops, StuckTransfer(r)
    PROVE  LoopInv'
<1>1. /\ Shape /\ Owned(r) /\ Ledger(r) /\ pc.at = "idle" /\ rq[r].state = "KV_PENDING"
      /\ UNCHANGED <<lease, rq, task, poisoned, remote, out>> /\ pc \in LoopAt(Places)
  BY Zenon DEF LoopInv, StuckTransfer, Idle, At, schedVars, Shape, TypeOK, LoopAt, Places
<1>2. pc' \in LoopAt({"cleanup"}) /\ pc'.at = "cleanup" /\ pc'.req = r
  BY <1>1, Zenon DEF StuckTransfer, Goto, LoopAt
<1>3. /\ xfer' \in [Ops -> {"none", "deferred", "inflight"}]
      /\ xfer'[r] # "deferred" /\ (xfer[r] = "inflight" => xfer'[r] = "inflight")
      /\ \A q \in Ops : q # r => xfer'[q] = xfer[q]
  BY <1>1, Zenon DEF StuckTransfer, Shape, TypeOK
<1>4. Shape'
  BY <1>1, <1>2, <1>3, Zenon DEF Shape, TypeOK, LoopAt
<1>5. Position'
  BY <1>1, <1>2, Zenon DEF Position, Assigned
<1>6. \A q \in Ops : q # r => Still(q)
  BY <1>1, <1>2, <1>3, OthersStill, Zenon
<1>7. Owned(r)'
  BY <1>1, <1>2, Zenon DEF Owned, Assigned, Preparing, Leased
<1>8. Ledger(r)'
  BY <1>1, <1>2, <1>3, Zenon DEF Ledger, Cleaning
<1> QED
  BY <1>1, <1>4, <1>5, <1>6, <1>7, <1>8, StepKeeps, Zenon

\* The output of a request becomes terminal.
LEMMA OutputKeeps ==
    ASSUME LoopInv, NEW r \in Ops, DecodeDone(r) \/ QueryOutput(r)
    PROVE  LoopInv'
<1>1. /\ Shape /\ Owned(r) /\ Ledger(r) /\ pc.at = "idle"
      /\ rq[r].state \in {"KV_PENDING", "DECODING"}
      /\ UNCHANGED <<lease, pc, xfer, task, poisoned, remote>>
      /\ out' = [out EXCEPT ![r] = TRUE]
  BY Zenon DEF LoopInv, DecodeDone, QueryOutput, Idle, At, schedVars
<1>2. \E s \in {"KV_PENDING", "FINISHED"} :
         Move(r, s) /\ (rq[r].state = "KV_PENDING" => s = "KV_PENDING")
  BY Zenon DEF DecodeDone, QueryOutput
<1>3. /\ rq' \in Tracked
      /\ rq'[r].state \in {"KV_PENDING", "FINISHED"}
      /\ rq[r].state = "KV_PENDING" => rq'[r].state = "KV_PENDING"
      /\ rq'[r].p = rq[r].p /\ rq'[r].d = rq[r].d
      /\ \A q \in Ops : q # r => rq'[q] = rq[q]
  BY <1>1, <1>2, MoveSet, Zenon DEF States
<1>4. Shape' /\ Position'
  BY <1>1, <1>3, Zenon DEF Shape, TypeOK, Position, Tracked, Entries
<1>5. \A q \in Ops : q # r => Still(q)
  BY <1>1, <1>3, OthersStill, Zenon
<1>6. Owned(r)'
  BY <1>1, <1>3, Zenon DEF Owned, Assigned, Preparing, Leased
<1>7. Ledger(r)'
  BY <1>1, <1>3, Zenon DEF Ledger, Cleaning
<1> QED
  BY <1>1, <1>4, <1>5, <1>6, <1>7, StepKeeps, Zenon

\* A cleanup that releases nothing: the request keeps its lease and its ledger.
LEMMA KeepKeeps ==
    ASSUME LoopInv, NEW r \in Ops, pc.req = r, pc.at \in {"fence", "query"}, Keep(r),
           lease' \in [Ops -> Leases \cup {NoLease}],
           \A q \in Ops : q # r => lease'[q] = lease[q],
           Leased(r)', lease'[r].inst = lease[r].inst,
           UNCHANGED <<xfer, task, poisoned, remote, out>>
    PROVE  LoopInv'
<1>1. Shape /\ Owned(r) /\ Ledger(r) /\ Assigned(r) /\ Cleaning(r) /\ ~Preparing(r)
  BY Zenon DEF LoopInv, Position, Cleaning, Preparing
<1>2. PICK s \in {"FINISHED", "ABORTED"} : Move(r, s) /\ ToIdle
  BY Zenon DEF Keep
<1>3. /\ rq' \in Tracked
      /\ rq'[r].state = s /\ rq'[r].p = rq[r].p /\ rq'[r].d = rq[r].d
      /\ \A q \in Ops : q # r => rq'[q] = rq[q]
  BY <1>1, <1>2, MoveSet, Zenon DEF States
<1>4. pc' \in LoopAt({"idle"}) /\ pc'.at = "idle"
  BY <1>2, Zenon DEF ToIdle, LoopAt
<1>5. Shape' /\ Position'
  BY <1>1, <1>3, <1>4, Zenon DEF Shape, TypeOK, LoopAt, Position, Tracked, Entries
<1>6. \A q \in Ops : q # r => Still(q)
  BY <1>3, <1>4, OthersStill, Zenon
<1>7. Owned(r)'
  BY <1>1, <1>3, <1>4, Zenon DEF Owned, Assigned, Preparing
<1>8. Ledger(r)'
  BY <1>1, <1>3, <1>4, Zenon DEF Ledger
<1> QED
  BY <1>5, <1>6, <1>7, <1>8, StepKeeps, Zenon

\* The slot is quarantined; the cleanup goes on only without a transfer task.
LEMMA FenceSlotKeeps ==
    ASSUME LoopInv, NEW r \in Ops, pc.req = r, FenceSlot
    PROVE  LoopInv'
<1>1. /\ Shape /\ Position /\ Owned(r) /\ Ledger(r) /\ pc.at = "fence" /\ Assigned(r)
      /\ lease[r] # NoLease /\ SetState(r, "QUARANTINED") /\ pc \in LoopAt(Places)
      /\ UNCHANGED <<xfer, task, poisoned, remote, out>>
  BY Zenon
     DEF LoopInv, FenceSlot, At, Position, quarantine_decode_slot, Shape, TypeOK, LoopAt,
         Places
<1>2. /\ lease' \in [Ops -> Leases \cup {NoLease}]
      /\ lease'[r] # NoLease /\ lease'[r].inst = lease[r].inst
      /\ lease'[r].state = "QUARANTINED"
      /\ \A q \in Ops : q # r => lease'[q] = lease[q]
  BY <1>1, StateSet, Zenon DEF Live
<1>3. Leased(r)'
  BY <1>2 DEF Leased, Live
<1>4. CASE Keep(r)
  BY <1>1, <1>2, <1>3, <1>4, KeepKeeps, Zenon
<1>5. CASE task[r] = "none" /\ pc' = [pc EXCEPT !.at = "query"] /\ UNCHANGED rq
  <2>1. pc' \in LoopAt({"query"}) /\ pc'.at = "query" /\ pc'.req = r
    BY <1>1, <1>5, Zenon DEF LoopAt
  <2>2. Shape' /\ Position'
    BY <1>1, <1>2, <1>5, <2>1, Zenon DEF Shape, TypeOK, LoopAt, Position, Assigned
  <2>3. \A q \in Ops : q # r => Still(q)
    BY <1>1, <1>2, <1>5, <2>1, OthersStill, Zenon
  <2>4. Owned(r)'
    BY <1>1, <1>2, <1>3, <1>5, <2>1, Zenon DEF Owned, Assigned, Preparing
  <2>5. Ledger(r)'
    BY <1>1, <1>5, <2>1, Zenon DEF Ledger, Cleaning
  <2> QED
    BY <1>1, <2>2, <2>3, <2>4, <2>5, StepKeeps, Zenon
<1> QED
  BY <1>4, <1>5 DEF FenceSlot

LEMMA QueryUnknownKeeps ==
    ASSUME LoopInv, NEW r \in Ops, pc.req = r, QueryUnknown
    PROVE  LoopInv'
<1>1. /\ Shape /\ Position /\ Owned(r) /\ pc.at = "query" /\ Keep(r)
      /\ UNCHANGED <<lease, xfer, task, poisoned, remote, out>>
  BY Zenon DEF LoopInv, QueryUnknown, At, schedVars
<1>2. Leased(r)
  BY <1>1, Zenon DEF Position, Owned
<1> QED
  BY <1>1, <1>2, KeepKeeps, Zenon DEF Shape, Leased

\* The cleanup releases the slot last and forgets the request.
LEMMA QueryReleasesKeeps ==
    ASSUME LoopInv, NEW r \in Ops, pc.req = r, NEW c \in CleanupIds, QueryReleases(c)
    PROVE  LoopInv'
<1>1. /\ Shape /\ Position /\ Owned(r) /\ Ledger(r) /\ pc.at = "query"
      /\ \A part \in Parts : remote[r][part] \in Terminal
      /\ lease[r] # NoLease
      /\ UNCHANGED <<task, poisoned, remote>> /\ ToIdle
  BY Zenon DEF LoopInv, QueryReleases, At, release_quarantined_decode_slot
<1>2. /\ lease' \in [Ops -> Leases \cup {NoLease}]
      /\ lease'[r].state = "RELEASED"
      /\ \A q \in Ops : q # r => lease'[q] = lease[q]
  <2> DEFINE l == [lease[r] EXCEPT !.state = "RELEASED", !.cleanup = c]
  <2>1. lease[r] \in Leases
    BY <1>1, Zenon DEF Shape
  <2>2. l \in Leases /\ l.state = "RELEASED"
    BY <2>1, Zenon DEF Leases
  <2>3. lease' = [lease EXCEPT ![r] = l]
    BY Zenon DEF QueryReleases, release_quarantined_decode_slot
  <2> HIDE DEF l
  <2> QED
    BY <1>1, <2>2, <2>3, LeaseSet, Zenon
<1>3. /\ rq' \in Tracked /\ rq'[r].state = "ABSENT"
      /\ \A q \in Ops : q # r => rq'[q] = rq[q]
  <2>1. rq \in Tracked
    BY <1>1, Zenon DEF Shape, TypeOK, Tracked, Entries
  <2>2. Absent \in Entries /\ Absent.state = "ABSENT"
    BY LoopAssumption DEF Absent, States, Entries
  <2> QED
    BY <2>1, <2>2, Zenon DEF QueryReleases, Tracked
<1>4. /\ xfer' \in [Ops -> {"none", "deferred", "inflight"}] /\ out' \in [Ops -> BOOLEAN]
      /\ xfer'[r] = "none" /\ \A q \in Ops : q # r => xfer'[q] = xfer[q]
  BY <1>1, Zenon DEF QueryReleases, Shape, TypeOK
<1>5. pc' \in LoopAt({"idle"}) /\ pc'.at = "idle"
  BY <1>1, Zenon DEF ToIdle, LoopAt
<1>6. Shape' /\ Position'
  BY <1>1, <1>2, <1>3, <1>4, <1>5, Zenon DEF Shape, TypeOK, LoopAt, Position, Tracked, Entries
<1>7. \A q \in Ops : q # r => Still(q)
  BY <1>1, <1>2, <1>3, <1>4, <1>5, OthersStill, Zenon
<1>8. task[r] = "none" /\ Quiet(r)' /\ ~Leased(r)'
  BY <1>1, <1>2, <1>4, Zenon DEF Ledger, Quiet, Leased, Live
<1>9. Owned(r)'
  BY <1>3, <1>5, <1>8, Zenon DEF Owned, Assigned, Preparing
<1>10. Ledger(r)'
  BY <1>1, <1>3, <1>4, <1>5, <1>8, Zenon DEF Ledger, Terminal, Parts
<1> QED
  BY <1>1, <1>6, <1>7, <1>9, <1>10, StepKeeps, Zenon

-----------------------------------------------------------------------------
\* The invariants

LEMMA NextLoop == LoopInv /\ [Next]_vars => LoopInv'
<1> SUFFICES ASSUME LoopInv, [Next]_vars PROVE LoopInv'
  OBVIOUS
<1>1. CASE Admission
  <2>1. CASE AdoptSlot
    <3>1. pc.req \in Ops
      BY <2>1, Zenon DEF AdoptSlot, At, LoopInv, Position
    <3>2. CASE pc' = [pc EXCEPT !.at = "dead"]
      BY <2>1, <3>2, AdmissionKeeps
    <3>3. CASE /\ At("adopt") /\ adopt_picked_decode_slot(pc.d, pc.req)
               /\ pc' = [pc EXCEPT !.at = "prepare"]
               /\ UNCHANGED <<rq, xfer, task, poisoned, remote, out>>
      BY <3>1, <3>3, AdoptKeeps
    <3> QED
      BY <2>1, <3>2, <3>3, Zenon DEF AdoptSlot
  <2>2. CASE PrepareOk \/ PrepareAmbiguous \/ RollbackSlot
    <3>1. pc.req \in Ops
      BY <2>2, Zenon DEF PrepareOk, PrepareAmbiguous, RollbackSlot, At, LoopInv, Position
    <3> QED
      BY <2>2, <3>1, PrepareKeeps, RollbackKeeps
  <2> QED
    BY <1>1, <2>1, <2>2, AdmissionKeeps, DispatchKeeps, Zenon DEF Admission
<1>2. CASE Cleanup
  <2>1. pc.req \in Ops \/ CanonicalCleanup
    BY <1>2, Zenon DEF Cleanup, FenceSlot, QueryUnknown, QueryReleases, At, LoopInv, Position
  <2> QED
    BY <1>2, <2>1, IdleKeeps, FenceSlotKeeps, QueryUnknownKeeps, QueryReleasesKeeps, Zenon
       DEF Cleanup
<1>3. ASSUME NEW r \in Ops, LoopVisit(r) PROVE LoopInv'
  BY <1>3, VisitKeeps, PrefillDoneKeeps, StuckTransferKeeps, OutputKeeps, Zenon DEF LoopVisit
<1>4. ASSUME NEW r \in Ops, TransferTask(r) PROVE LoopInv'
  BY <1>4, StartPairKeeps, EndPairKeeps, CommitFailsKeeps, CompletesKeeps DEF TransferTask
<1>5. ASSUME NEW r \in Ops,
             Arrive(r) \/ Flush(r) \/ RepairOutput(r) \/ TerminateStream(r) \/ Worker(r)
      PROVE  LoopInv'
  BY <1>5, ArriveKeeps, FlushKeeps, StreamKeeps, WorkerKeeps, Zenon
<1>6. CASE Tick \/ UNCHANGED vars
  BY <1>6, IdleKeeps DEF Tick
<1> QED
  BY <1>1, <1>2, <1>3, <1>4, <1>5, <1>6, AdmissionKeeps, Zenon DEF Next

LEMMA SpecLoop == Spec => []LoopInv
BY InitLoop, NextLoop, PTL DEF Spec

\* From its assignment until its removal a request owns a live lease on its decode
\* instance, and every live lease belongs to a request the loop still works on: no
\* failed prepare, publication, transfer or cleanup loses decode capacity, for any
\* number of requests, instances, slots and dispatch attempts.
THEOREM SlotsFollowRequests == Spec => []SlotFollowsRequest
<1>1. LoopInv => SlotFollowsRequest
  BY Zenon DEF LoopInv, SlotFollowsRequest, Owned, Assigned, Preparing
<1> QED
  BY SpecLoop, <1>1, PTL

\* cleanup_request releases the slot last: once a lease is RELEASED the transfer task
\* has ended, the ledger has forgotten the request and no worker runs anything for it.
THEOREM ReleasedSlotsAreQuiet == Spec => []NoWriterAfterRelease
<1>1. LoopInv => NoWriterAfterRelease
  BY Zenon DEF LoopInv, NoWriterAfterRelease, Owned, Quiet, Leased, Live
<1> QED
  BY SpecLoop, <1>1, PTL

\* The byte credits of a KV transfer are held for as long as it may write, also after
\* a timeout, a failed task or an inconclusive cleanup.
THEOREM CreditsOutliveTransfers == Spec => []CreditsCoverWriter
<1>1. LoopInv => CreditsCoverWriter
  BY Zenon DEF LoopInv, CreditsCoverWriter, Ledger
<1> QED
  BY SpecLoop, <1>1, PTL

\* The sequencer of _run_nccl_pair with its poisoned gate keeps every second KV
\* transfer off the wire, also after the gateway lost track of the first.
THEOREM PairsAreSequential == Spec => []OnePairOnWire
<1>1. LoopInv => OnePairOnWire
  BY DEF LoopInv
<1> QED
  BY SpecLoop, <1>1, PTL

-----------------------------------------------------------------------------
\* The calls to the scheduler

\* The world is registered before the loop starts.
Booted ==
    /\ load \in [Prefills -> Nat]
    /\ epoch \in [Instances -> Epochs \cup {NoEpoch}]
    /\ cap \subseteq Instances
    /\ \A i \in cap : epoch[i] = WorldEpoch
    /\ pc.at # "boot" => cap = Instances
    /\ pc.at = "boot" => \A r \in Ops : lease[r] = NoLease

\* The loop does not start or end the ownership of a picked slot.
SameTicket == pc' = pc \/ (pc.at \notin {"adopt", "dead"} /\ pc'.at \notin {"adopt", "dead"})

\* A call about the load of a prefill instance or the lease of a request.
LoadCall ==
    \/ \E p \in Prefills, open \in SUBSET Instances : pick_prefill_instance(p, open)
    \/ \E p \in Prefills : on_prefill_done(p, WorldEpoch)
LeaseCall(r) ==
    \/ commit_decode_slot(r) \/ release_decode_slot(r) \/ quarantine_decode_slot(r)
    \/ \E c \in CleanupIds : release_quarantined_decode_slot(r, c)

\* The loop picks a slot for request r, adopts it, or fails to.
TakesSlot(r) ==
    /\ pc.at = "pick" /\ pc.req = r /\ rq[r].state = "WAITING"
    /\ \E d \in Decodes, open \in SUBSET Instances :
          pick_decode_instance(d, open) /\ pc' = [pc EXCEPT !.at = "adopt", !.d = d]
AdoptsSlot(r) ==
    /\ pc.at = "adopt" /\ pc.req = r /\ pc.d \in Decodes
    /\ adopt_picked_decode_slot(pc.d, r) /\ pc' = [pc EXCEPT !.at = "prepare"]
LosesSlot == UNCHANGED schedVars /\ pc.at = "adopt" /\ pc' = [pc EXCEPT !.at = "dead"]

LEMMA SchedulerCalls ==
    ASSUME LoopInv, Booted, [Next]_vars
    PROVE  \/ \E i \in Instances : Boot(i)
           \/ \E r \in Ops : TakesSlot(r) \/ AdoptsSlot(r)
           \/ LosesSlot
           \/ /\ SameTicket /\ (pc'.at = "boot" <=> pc.at = "boot")
              /\ \/ UNCHANGED schedVars
                 \/ pc.at # "boot" /\ (LoadCall \/ \E r \in Ops : LeaseCall(r))
<1> DEFINE Done == /\ SameTicket /\ (pc'.at = "boot" <=> pc.at = "boot")
                   /\ \/ UNCHANGED schedVars
                      \/ pc.at # "boot" /\ (LoadCall \/ \E r \in Ops : LeaseCall(r))
<1>0. pc \in LoopAt(Places) /\ Position
  BY Zenon DEF LoopInv, Shape, TypeOK, LoopAt, Places
<1>1. ASSUME NEW r \in Ops, NEW p \in Prefills, StartAdmission(r, p) PROVE Done
  <2>1. pc'.at = "pick" /\ pc.at = "idle"
    BY <1>0, <1>1 DEF StartAdmission, Idle, At, LoopAt
  <2> QED
    BY <1>1, <2>1 DEF StartAdmission, SameTicket, LoadCall
<1>2. CASE PickTarget
  <2>1. pc.at = "pick" /\ pc.req \in Ops /\ pc.p \in Prefills /\ rq[pc.req].state = "WAITING"
    BY <1>0, <1>2, Zenon DEF PickTarget, At, Position
  <2>2. epoch[pc.p] = WorldEpoch
    BY <2>1, Zenon DEF Booted, Instances
  <2>3. ASSUME on_prefill_done(pc.p, epoch[pc.p]), ToIdle PROVE Done
    BY <2>1, <2>2, <2>3, Zenon DEF ToIdle, SameTicket, LoadCall
  <2>4. CASE ~(on_prefill_done(pc.p, epoch[pc.p]) /\ ToIdle)
    BY <1>2, <2>1, <2>4, Zenon DEF PickTarget, TakesSlot
  <2> QED
    BY <2>3, <2>4, Zenon
<1>3. CASE AdoptSlot
  <2>1. pc.at = "adopt" /\ pc.req \in Ops /\ pc.d \in Decodes
    BY <1>0, <1>3, Zenon DEF AdoptSlot, At, Position
  <2> QED
    BY <1>3, <2>1, Zenon DEF AdoptSlot, AdoptsSlot, LosesSlot
<1>4. CASE PrepareOk \/ PrepareAmbiguous \/ PrepareRejected \/ RollbackSlot
  <2>1. pc.at \in {"prepare", "rollback"} /\ pc.req \in Ops /\ pc.p \in Prefills
    BY <1>0, <1>4, Zenon
       DEF PrepareOk, PrepareAmbiguous, PrepareRejected, RollbackSlot, At, Position
  <2>2. pc'.at \in {"publish", "cleanup", "rollback", "idle"}
    BY <1>0, <1>4 DEF PrepareOk, PrepareAmbiguous, PrepareRejected, RollbackSlot, ToIdle, LoopAt
  <2>3. UNCHANGED schedVars \/ on_prefill_done(pc.p, WorldEpoch) \/ release_decode_slot(pc.req)
    BY <1>4, Zenon DEF PrepareOk, PrepareAmbiguous, PrepareRejected, RollbackSlot
  <2> QED
    BY <2>1, <2>2, <2>3, Zenon DEF SameTicket, LoadCall, LeaseCall
<1>5. CASE PublishDispatch \/ RetryDispatch
  <2>1. /\ pc.at \in {"publish", "retry"} /\ UNCHANGED schedVars
        /\ ToIdle \/ Goto("cleanup", pc.req)
    BY <1>5, Zenon DEF PublishDispatch, RetryDispatch, Publish, At
  <2>2. pc'.at \in {"idle", "cleanup"}
    <3>1. CASE ToIdle
      BY <3>1 DEF ToIdle
    <3>2. CASE Goto("cleanup", pc.req)
      BY <1>0, <3>2 DEF Goto, LoopAt
    <3> QED
      BY <2>1, <3>1, <3>2
  <2> QED
    BY <2>1, <2>2 DEF SameTicket
<1>6. CASE Cleanup
  <2>1. /\ pc.at \in {"cleanup", "fence", "query"} /\ pc.req \in Ops
        /\ rq[pc.req].p \in Prefills
    BY <1>0, <1>6, Zenon
       DEF Cleanup, CanonicalCleanup, FenceSlot, QueryUnknown, QueryReleases, At, Position,
           LoopInv, Owned
  <2>2. pc'.at \in {"fence", "query", "idle"}
    <3>1. \/ ToIdle \/ pc' = [pc EXCEPT !.at = "query"]
          \/ pc' = [pc EXCEPT !.at = "fence", !.abort = TRUE]
      BY <1>6, Zenon DEF Cleanup, CanonicalCleanup, FenceSlot, QueryUnknown, QueryReleases, Keep
    <3>2. ToIdle => pc'.at = "idle"
      BY DEF ToIdle
    <3>3. pc' = [pc EXCEPT !.at = "fence", !.abort = TRUE] => pc'.at = "fence"
      BY <1>0 DEF LoopAt
    <3> QED
      BY <1>0, <3>1, <3>2, <3>3 DEF LoopAt
  <2>3. \/ UNCHANGED schedVars \/ on_prefill_done(rq[pc.req].p, WorldEpoch)
        \/ quarantine_decode_slot(pc.req)
        \/ \E c \in CleanupIds : release_quarantined_decode_slot(pc.req, c)
    BY <1>6, Zenon DEF Cleanup, CanonicalCleanup, FenceSlot, QueryUnknown, QueryReleases
  <2> QED
    BY <2>1, <2>2, <2>3, Zenon DEF SameTicket, LoadCall, LeaseCall
<1>7. ASSUME NEW r \in Ops, LoopVisit(r) PROVE Done
  <2>1. pc.at = "idle" /\ pc'.at \in {"idle", "cleanup", "retry", "fence"}
    BY <1>0, <1>7, Zenon
       DEF LoopVisit, StuckPrefill, PrefillDone, PrefillDoneInvalid, StuckTransfer,
           DecodeDone, QueryOutput, StuckDecode, FinishCleanup, Idle, At, Goto, LoopAt
  <2>2. UNCHANGED schedVars \/ (on_prefill_done(rq[r].p, WorldEpoch) /\ rq[r].p \in Prefills)
    BY <1>7, Zenon DEF LoopVisit, StuckPrefill, PrefillDone, PrefillDoneInvalid, StuckTransfer,
                DecodeDone, QueryOutput, StuckDecode, FinishCleanup, LoopInv, Owned, Assigned
  <2> QED
    BY <2>1, <2>2, Zenon DEF SameTicket, LoadCall
<1>8. ASSUME NEW r \in Ops,
             \/ Arrive(r) \/ Flush(r) \/ TransferTask(r)
             \/ RepairOutput(r) \/ TerminateStream(r) \/ Worker(r)
      PROVE  Done
  <2>1. pc' = pc
    BY <1>8, Zenon
       DEF Arrive, Flush, TransferTask, StartPair, EndPair, CommitFails, TransferCompletes,
           RepairOutput, TerminateStream, Worker, Fence, RunPrefill, RunTransfer, RunDecode,
           RunOn
  <2>2. UNCHANGED schedVars \/ (commit_decode_slot(r) /\ task[r] = "commit")
    BY <1>8, Zenon
       DEF Arrive, Flush, TransferTask, StartPair, EndPair, CommitFails, TransferCompletes,
           RepairOutput, TerminateStream, Worker, Fence, RunPrefill, RunTransfer, RunDecode,
           RunOn
  <2>3. task[r] = "commit" => pc.at # "boot"
    BY Zenon DEF LoopInv, Owned, Quiet, Booted, Leased
  <2> QED
    BY <2>1, <2>2, <2>3 DEF SameTicket, LeaseCall
<1>9. CASE Tick \/ UNCHANGED vars
  BY <1>9, Zenon DEF Tick, vars, loopVars, SameTicket
<1> QED
  BY <1>1, <1>2, <1>3, <1>4, <1>5, <1>6, <1>7, <1>8, <1>9, Zenon DEF Next, Admission

LEMMA NextBooted == LoopInv /\ Booted /\ [Next]_vars => Booted'
<1> SUFFICES ASSUME LoopInv, Booted, [Next]_vars PROVE Booted'
  OBVIOUS
<1>0. pc \in LoopAt(Places)
  BY Zenon DEF LoopInv, Shape, TypeOK, LoopAt, Places
<1>1. ASSUME NEW i \in Instances, Boot(i) PROVE Booted'
  <2>1. register_instance(i, WorldEpoch, WorldSlots) /\ pc.at = "boot"
    BY <1>1 DEF Boot, At
  <2>2. /\ load' \in [Prefills -> Nat] /\ epoch' \in [Instances -> Epochs \cup {NoEpoch}]
        /\ cap' \subseteq Instances /\ \A j \in cap' : epoch'[j] = WorldEpoch
        /\ UNCHANGED lease
    BY <2>1, LoopAssumption DEF Booted, register_instance, Install
  <2>3. pc'.at # "boot" => cap' = Instances
    BY <1>1, <2>1 DEF Boot
  <2> QED
    BY <2>1, <2>2, <2>3, Zenon DEF Booted
<1>2. ASSUME pc.at # "boot", pc'.at # "boot", UNCHANGED <<epoch, cap>>,
             load' \in [Prefills -> Nat]
      PROVE  Booted'
  BY <1>2, Zenon DEF Booted
<1>3. ASSUME NEW r \in Ops, TakesSlot(r) \/ AdoptsSlot(r) PROVE Booted'
  <2>1. pc.at # "boot" /\ pc'.at # "boot"
    BY <1>0, <1>3, Zenon DEF TakesSlot, AdoptsSlot, LoopAt
  <2>2. UNCHANGED <<epoch, cap, load>>
    BY <1>3, Zenon
       DEF TakesSlot, AdoptsSlot, pick_decode_instance, adopt_picked_decode_slot, capacity
  <2> QED
    BY <1>2, <2>1, <2>2, Zenon DEF Booted
<1>4. CASE LosesSlot
  <2>1. pc.at # "boot" /\ pc'.at # "boot"
    BY <1>0, <1>4 DEF LosesSlot, LoopAt
  <2> QED
    BY <1>2, <1>4, <2>1, Zenon DEF Booted, LosesSlot, schedVars
<1>5. ASSUME pc'.at = "boot" <=> pc.at = "boot", UNCHANGED schedVars PROVE Booted'
  BY <1>5, Zenon DEF Booted, schedVars
<1>6. ASSUME pc'.at = "boot" <=> pc.at = "boot", pc.at # "boot", LoadCall PROVE Booted'
  <2>1. UNCHANGED <<epoch, cap>>
    BY <1>6, Zenon DEF LoadCall, pick_prefill_instance, on_prefill_done, capacity
  <2>2. load' \in [Prefills -> Nat]
    BY <1>6 DEF LoadCall, pick_prefill_instance, on_prefill_done, Booted
  <2> QED
    BY <1>2, <1>6, <2>1, <2>2
<1>7. ASSUME pc'.at = "boot" <=> pc.at = "boot", pc.at # "boot", NEW r \in Ops, LeaseCall(r)
      PROVE  Booted'
  <2>1. UNCHANGED <<epoch, cap, load>>
    BY <1>7, Zenon
       DEF LeaseCall, commit_decode_slot, release_decode_slot, quarantine_decode_slot,
           release_quarantined_decode_slot, capacity
  <2> QED
    BY <1>2, <1>7, <2>1, Zenon DEF Booted
<1> QED
  BY <1>1, <1>3, <1>4, <1>5, <1>6, <1>7, SchedulerCalls, Zenon

\* What the ticket of SlotClients becomes.
LEMMA TicketMoves ==
    ASSUME Shape
    PROVE  /\ SameTicket => UNCHANGED ticketOf
           /\ LosesSlot => UNCHANGED ticketOf
           /\ \A r \in Ops, d \in Decodes :
                 pc.at = "pick" /\ pc.req = r /\ pc' = [pc EXCEPT !.at = "adopt", !.d = d] =>
                    /\ ticketOf[r] = NoTicket
                    /\ ticketOf' = [ticketOf EXCEPT ![r] = [inst |-> d, epoch |-> WorldEpoch]]
           /\ \A r \in Ops :
                 pc.at = "adopt" /\ pc.req = r /\ pc' = [pc EXCEPT !.at = "prepare"] =>
                    /\ ticketOf[r] = [inst |-> pc.d, epoch |-> WorldEpoch]
                    /\ ticketOf' = [ticketOf EXCEPT ![r] = NoTicket]
<1>1. pc \in LoopAt(Places)
  BY Zenon DEF Shape, TypeOK, LoopAt, Places
<1>2. SameTicket => UNCHANGED ticketOf
  BY Zenon DEF SameTicket, ticketOf
<1>3. LosesSlot => UNCHANGED ticketOf
  <2>1. LosesSlot => pc'.at = "dead" /\ pc'.req = pc.req /\ pc'.d = pc.d
    BY <1>1 DEF LosesSlot, LoopAt
  <2> QED
    BY <2>1 DEF LosesSlot, ticketOf
<1>4. ASSUME NEW r \in Ops, NEW d \in Decodes,
             pc.at = "pick", pc.req = r, pc' = [pc EXCEPT !.at = "adopt", !.d = d]
      PROVE  /\ ticketOf[r] = NoTicket
             /\ ticketOf' = [ticketOf EXCEPT ![r] = [inst |-> d, epoch |-> WorldEpoch]]
  <2>1. pc'.at = "adopt" /\ pc'.req = r /\ pc'.d = d
    BY <1>1, <1>4 DEF LoopAt
  <2> QED
    BY <1>4, <2>1 DEF ticketOf
<1>5. ASSUME NEW r \in Ops, pc.at = "adopt", pc.req = r, pc' = [pc EXCEPT !.at = "prepare"]
      PROVE  /\ ticketOf[r] = [inst |-> pc.d, epoch |-> WorldEpoch]
             /\ ticketOf' = [ticketOf EXCEPT ![r] = NoTicket]
  <2>1. pc'.at = "prepare"
    BY <1>1, <1>5 DEF LoopAt
  <2> QED
    BY <1>5, <2>1, Zenon DEF ticketOf
<1> QED
  BY <1>2, <1>3, <1>4, <1>5, Zenon

\* The loop under network control implements the calling protocol SlotClients of the
\* scheduler: it registers the world once, picks only for a request that owns nothing,
\* adopts what it picked under the epoch it picked it in, and gives a leased slot back
\* by a rollback or by a release after quarantine, never both.
THEOREM LoopFollowsProtocol == Spec => SchedSpec
<1>1. Init => Booted /\ Sched!Init
  <2>1. Init => ticketOf = [o \in Ops |-> NoTicket]
    BY DEF Init, ticketOf
  <2> QED
    BY <2>1 DEF Init, SchedInit, Booted, Sched!Init, Sched!SchedInit, Instances,
                Sched!Instances
<1>2. ASSUME LoopInv, Booted, [Next]_vars PROVE [Sched!Next]_(Sched!vars)
  <2>0. Shape /\ WorldEpoch \in Epochs
    BY <1>2, LoopAssumption DEF LoopInv
  <2>1. ASSUME NEW i \in Instances, Boot(i) PROVE Sched!Next
    <3>1. /\ register_instance(i, WorldEpoch, WorldSlots) /\ pc.at = "boot"
          /\ ToIdle \/ UNCHANGED pc
      BY <2>1 DEF Boot, At
    <3>2. SameTicket
      BY <3>1 DEF SameTicket, ToIdle
    <3>3. Sched!Unleased(i)
      BY <1>2, <3>1, Zenon DEF Sched!Unleased, Sched!LiveOn, Booted
    <3>4. Sched!FreshEpoch(i, WorldEpoch)
      BY <2>0, <3>1, LoopAssumption DEF Sched!FreshEpoch, ticketOf
    <3>5. Sched!Register(i, WorldEpoch, WorldSlots)
      BY <2>0, <3>1, <3>2, <3>3, <3>4, TicketMoves, Zenon
         DEF Sched!Register, Sched!register_instance, register_instance, Sched!Install, Install
    <3> QED
      BY <2>0, <3>5, LoopAssumption, Zenon
         DEF Sched!Next, Sched!InstanceStep, Sched!Instances, Instances
  <2>2. ASSUME NEW r \in Ops, TakesSlot(r) PROVE Sched!Next
    <3>1. PICK d \in Decodes, open \in SUBSET Instances :
             pick_decode_instance(d, open) /\ pc' = [pc EXCEPT !.at = "adopt", !.d = d]
      BY <2>2, Zenon DEF TakesSlot
    <3>2. epoch[d] = WorldEpoch
      BY <1>2, <3>1, Zenon DEF pick_decode_instance, DecodeCandidates, Booted
    <3>3. /\ ticketOf[r] = NoTicket
          /\ ticketOf' = [ticketOf EXCEPT ![r] = [inst |-> d, epoch |-> epoch[d]]]
      BY <2>0, <2>2, <3>1, <3>2, TicketMoves, Zenon DEF TakesSlot
    <3>4. ~Leased(r)
      BY <1>2, <2>2, Zenon DEF TakesSlot, LoopInv, Owned, Assigned, Preparing
    <3>5. Sched!Unowned(r)
      BY <3>3, <3>4, Zenon DEF Sched!Unowned, Sched!LiveOn, Sched!Live, Leased, Live
    <3>6. Sched!PickDecode(r, d, open)
      BY <3>1, <3>3, <3>5, Zenon
         DEF Sched!PickDecode, Sched!pick_decode_instance, pick_decode_instance,
             Sched!DecodeCandidates, DecodeCandidates
    <3> QED
      BY <3>6 DEF Sched!Next, Sched!SlotStep, Sched!Instances, Instances
  <2>3. ASSUME NEW r \in Ops, AdoptsSlot(r) PROVE Sched!Next
    <3>1. /\ ticketOf[r] = [inst |-> pc.d, epoch |-> WorldEpoch]
          /\ ticketOf' = [ticketOf EXCEPT ![r] = NoTicket]
      BY <2>0, <2>3, TicketMoves, Zenon DEF AdoptsSlot
    <3>2. ticketOf[r] # NoTicket /\ ticketOf[r].inst = pc.d /\ ticketOf[r].epoch = WorldEpoch
      BY <2>0, <2>3, <3>1, LoopAssumption DEF AdoptsSlot, Instances
    <3>3. epoch[pc.d] = WorldEpoch
      BY <1>2, <2>3, Zenon DEF AdoptsSlot, adopt_picked_decode_slot, adopt_raises, Booted
    <3>4. Sched!adopt_picked_decode_slot(pc.d, r)
      BY <2>3 DEF AdoptsSlot, adopt_picked_decode_slot, adopt_raises, NewLease, capacity,
                  Sched!adopt_picked_decode_slot, Sched!adopt_raises, Sched!NewLease,
                  Sched!capacity
    <3>5. Sched!Adopt(r)
      BY <3>1, <3>2, <3>3, <3>4, Zenon DEF Sched!Adopt
    <3> QED
      BY <3>5 DEF Sched!Next, Sched!LeaseStep
  <2>4. ASSUME UNCHANGED schedVars, UNCHANGED ticketOf PROVE UNCHANGED Sched!vars
    BY <2>4 DEF Sched!vars, Sched!schedVars, schedVars
  <2>5. ASSUME LoadCall, UNCHANGED ticketOf PROVE Sched!Next
    <3>1. ASSUME NEW p \in Prefills, NEW open \in SUBSET Instances,
                 pick_prefill_instance(p, open)
          PROVE  Sched!PickPrefill(p, open)
      BY <1>2, <2>5, <3>1
         DEF Booted, Sched!PickPrefill, Sched!pick_prefill_instance, pick_prefill_instance,
             Sched!PrefillCandidates, PrefillCandidates, capacity, Sched!capacity
    <3>2. ASSUME NEW p \in Prefills, on_prefill_done(p, WorldEpoch)
          PROVE  Sched!PrefillDone(p, WorldEpoch)
      BY <2>5, <3>2, Zenon
         DEF Sched!PrefillDone, Sched!on_prefill_done, on_prefill_done, epoch_matches,
             Sched!epoch_matches, capacity, Sched!capacity
    <3> QED
      BY <2>0, <2>5, <3>1, <3>2, Zenon
         DEF LoadCall, Sched!Next, Sched!PrefillStep, Sched!Instances, Instances
  <2>6. ASSUME NEW r \in Ops, LeaseCall(r), UNCHANGED ticketOf PROVE Sched!Next
    <3>1. commit_decode_slot(r) => Sched!Commit(r)
      BY <2>6, Zenon DEF Sched!Commit, Sched!commit_decode_slot, commit_decode_slot, SetState,
                  Sched!SetState, capacity, Sched!capacity
    <3>2. release_decode_slot(r) => Sched!Rollback(r)
      BY <2>6, Zenon
         DEF Sched!Rollback, Sched!release_decode_slot, release_decode_slot, SetState,
             Sched!SetState, GiveBack, Sched!GiveBack
    <3>3. quarantine_decode_slot(r) => Sched!QuarantineSlot(r)
      BY <2>6 DEF Sched!QuarantineSlot, Sched!quarantine_decode_slot, quarantine_decode_slot,
                  SetState, Sched!SetState, capacity, Sched!capacity
    <3>4. \A c \in CleanupIds :
             release_quarantined_decode_slot(r, c) => Sched!ReleaseQuarantined(r, c)
      BY <2>6, Zenon DEF Sched!ReleaseQuarantined, Sched!release_quarantined_decode_slot,
                  release_quarantined_decode_slot, GiveBack, Sched!GiveBack
    <3> QED
      BY <2>6, <3>1, <3>2, <3>3, <3>4, Zenon DEF LeaseCall, Sched!Next, Sched!LeaseStep
  <2> QED
    BY <1>2, <2>0, <2>1, <2>2, <2>3, <2>4, <2>5, <2>6, SchedulerCalls, TicketMoves, Zenon
       DEF LosesSlot
<1> QED
  BY InitLoop, NextLoop, NextBooted, <1>1, <1>2, PTL DEF Spec, SchedSpec, Sched!Spec

=============================================================================
