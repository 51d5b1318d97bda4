---------------------------- MODULE NetworkLoop ----------------------------
(***************************************************************************)
(* The request life cycle under network control: schedule_loop             *)
(* (scheduler/main_loop.py) driving PDScheduler, the transfer ledger and   *)
(* NetworkControlPlane (router/network_rpc.py) for normal requests.        *)
(*                                                                         *)
(* The gateway is one asyncio thread.  The loop, the transfer tasks and    *)
(* the HTTP handlers interleave only where the loop awaits; pc says where  *)
(* the loop is, and while it is inside a synchronous section (Sync) only   *)
(* the loop itself moves.  One tick visits its phases in a fixed order;    *)
(* the model lets the loop start any phase when it is idle, which contains *)
(* every order of arrival of messages and timeouts.  Timeouts fire at any  *)
(* time.  The operation id of a normal request is its request id.          *)
(*                                                                         *)
(* The transfer ledger of a request is deferred or inflight; what lets a   *)
(* deferred transfer go (TransferGovernor) is left open.  The operations   *)
(* of a request at the workers are external: remote says how far the       *)
(* prefill (src), the KV transfer (wire) and the decode (tgt) got, whether *)
(* or not the gateway heard of it.  All instances keep the epoch they were *)
(* bootstrapped with.                                                      *)
(***************************************************************************)
EXTENDS PDScheduler

CONSTANTS
    MaxAttempts,   \* max_dispatch_attempts
    WorldEpoch,    \* the instance epoch of this topology
    WorldSlots,    \* max_slots of every decode instance
    Rejects,       \* whether a worker may refuse a prepare definitely
    Reuse,         \* whether a client may reuse the id of an ended request
    NoReq, NoInst, NoTicket

ASSUME LoopAssumption ==
    /\ MaxAttempts \in Nat \ {0}
    /\ WorldEpoch \in Epochs
    /\ WorldSlots \in SlotCounts
    /\ Rejects \in BOOLEAN /\ Reuse \in BOOLEAN
    /\ NoTicket \notin [inst : Instances, epoch : Epochs]

VARIABLES
    pc,        \* where the schedule loop is, and for which request
    rq,        \* RequestTracker: state, endpoints, dispatch attempts
    xfer,      \* transfer ledger of the request
    task,      \* _normal_tasks: the phase of a running transfer task
    poisoned,  \* _nccl_sequence_poisoned
    remote,    \* the request's operations at the workers
    out        \* output_buffer: the stream is terminal or failed

loopVars == <<pc, rq, xfer, task, poisoned, remote, out>>
vars == <<schedVars, loopVars>>

-----------------------------------------------------------------------------

Absent == [state |-> "ABSENT", p |-> NoInst, d |-> NoInst, attempts |-> 0]

At(where) == pc.at = where
Idle == At("idle")

\* The loop is inside a synchronous section; no other coroutine can run.
Sync == pc.at \in {"boot", "pick", "adopt", "rollback", "fence"}

Goto(where, r) == pc' = [pc EXCEPT !.at = where, !.req = r]
ToIdle == pc' = [at |-> "idle", req |-> NoReq, p |-> NoInst, d |-> NoInst, abort |-> TRUE]

\* RequestTracker.transition
Move(r, s) == rq' = [rq EXCEPT ![r].state = s]

Terminal == {"none", "done", "fenced"}

Parts == {"src", "wire", "tgt"}

Init ==
    /\ SchedInit
    /\ pc = [at |-> "boot", req |-> NoReq, p |-> NoInst, d |-> NoInst, abort |-> TRUE]
    /\ rq = [r \in Ops |-> Absent]
    /\ xfer = [r \in Ops |-> "none"]
    /\ task = [r \in Ops |-> "none"]
    /\ poisoned = FALSE
    /\ remote = [r \in Ops |-> [part \in Parts |-> "none"]]
    /\ out = [r \in Ops |-> FALSE]

\* lifespan registers the whole world before it starts the loop.
Boot(i) ==
    /\ At("boot")
    /\ register_instance(i, WorldEpoch, WorldSlots)
    /\ IF cap' = Instances THEN ToIdle ELSE UNCHANGED pc
    /\ UNCHANGED <<rq, xfer, task, poisoned, remote, out>>

\* chat_completions: tracker.add and output_buffer.ensure.  The id may be one
\* the client used before.
Arrive(r) ==
    /\ ~Sync
    /\ rq[r].state = "ABSENT"
    /\ Reuse \/ lease[r] = NoLease
    /\ Move(r, "WAITING")
    /\ UNCHANGED <<schedVars, pc, xfer, task, poisoned, remote, out>>

-----------------------------------------------------------------------------
\* Phase 1: WAITING -> PREFILLING

\* pick_prefill_instance
StartAdmission(r, p) ==
    /\ Idle
    /\ rq[r].state = "WAITING"
    /\ \E open \in SUBSET Instances : pick_prefill_instance(p, open)
    /\ pc' = [pc EXCEPT !.at = "pick", !.req = r, !.p = p]
    /\ UNCHANGED <<rq, xfer, task, poisoned, remote, out>>

\* pick_decode_instance; without a candidate the prefill load is given back.
PickTarget ==
    /\ At("pick")
    /\ \/ \E d \in Decodes, open \in SUBSET Instances :
             /\ pick_decode_instance(d, open)
             /\ pc' = [pc EXCEPT !.at = "adopt", !.d = d]
       \/ /\ on_prefill_done(pc.p, epoch[pc.p])
          /\ ToIdle
    /\ UNCHANGED <<rq, xfer, task, poisoned, remote, out>>

\* adopt_picked_decode_slot, outside of any try: its ValueError ends the loop.
AdoptSlot ==
    /\ At("adopt")
    /\ \/ /\ adopt_picked_decode_slot(pc.d, pc.req)
          /\ pc' = [pc EXCEPT !.at = "prepare"]
       \/ /\ adopt_raises(pc.d, pc.req)
          /\ pc' = [pc EXCEPT !.at = "dead"]
          /\ UNCHANGED schedVars
    /\ UNCHANGED <<rq, xfer, task, poisoned, remote, out>>

\* The transition to PREFILLING of the request under admission.
Assign(r) ==
    rq' = [rq EXCEPT ![r] = [state |-> "PREFILLING", p |-> pc.p, d |-> pc.d,
                             attempts |-> 1]]

\* prepare_normal_request returned.
PrepareOk ==
    /\ At("prepare")
    /\ Assign(pc.req)
    /\ remote' = [remote EXCEPT ![pc.req].tgt = "held"]
    /\ pc' = [pc EXCEPT !.at = "publish"]
    /\ UNCHANGED <<schedVars, xfer, task, poisoned, out>>

\* AmbiguousRPCError: the prepare may still arrive; join the cleanup.
PrepareAmbiguous ==
    /\ At("prepare")
    /\ on_prefill_done(pc.p, WorldEpoch)
    /\ Assign(pc.req)
    /\ remote' = [remote EXCEPT ![pc.req].tgt = "sent"]
    /\ pc' = [pc EXCEPT !.at = "cleanup"]
    /\ UNCHANGED <<xfer, task, poisoned, out>>

\* Any other failure: the request stays WAITING and its lease is rolled back.
PrepareRejected ==
    /\ At("prepare")
    /\ Rejects
    /\ on_prefill_done(pc.p, WorldEpoch)
    /\ pc' = [pc EXCEPT !.at = "rollback"]
    /\ UNCHANGED <<rq, xfer, task, poisoned, remote, out>>

\* Mutant: the slot is given back as a picked one, the lease stays.
RollbackSlotUnleased ==
    /\ At("rollback")
    /\ on_decode_finished(pc.d, WorldEpoch)
    /\ ToIdle
    /\ UNCHANGED <<rq, xfer, task, poisoned, remote, out>>

RollbackSlot ==
    /\ At("rollback")
    /\ release_decode_slot(pc.req)
    /\ ToIdle
    /\ UNCHANGED <<rq, xfer, task, poisoned, remote, out>>

\* The outcome of publishing the prefill command of the loop's request.  The
\* command may be lost after an ACK and delivered without one.
Publish(attempts) ==
    /\ \/ /\ rq' = [rq EXCEPT ![pc.req].attempts = attempts]
          /\ ToIdle
       \/ Goto("cleanup", pc.req) /\ UNCHANGED rq
    /\ \/ remote' = [remote EXCEPT ![pc.req].src = IF @ = "none" THEN "sent" ELSE @]
       \/ pc'.at = "cleanup" /\ UNCHANGED remote
    /\ UNCHANGED <<schedVars, xfer, task, poisoned, out>>

PublishDispatch == At("publish") /\ Publish(1)

RetryDispatch == At("retry") /\ Publish(rq[pc.req].attempts + 1)

\* A prefill times out: publish again, or give up.
StuckPrefill(r) ==
    /\ Idle
    /\ rq[r].state = "PREFILLING"
    /\ Goto(IF rq[r].attempts >= MaxAttempts THEN "cleanup" ELSE "retry", r)
    /\ UNCHANGED <<schedVars, rq, xfer, task, poisoned, remote, out>>

-----------------------------------------------------------------------------
\* Prefill results and KV transfer

\* governor.submit: dispatch at once or defer.
Submit(r) ==
    \/ /\ xfer' = [xfer EXCEPT ![r] = "inflight"]
       /\ task' = [task EXCEPT ![r] = "queued"]
    \/ /\ xfer' = [xfer EXCEPT ![r] = "deferred"]
       /\ UNCHANGED task

\* A prefill_done message.  A repeated one finds another state and is dropped.
PrefillDone(r) ==
    /\ Idle
    /\ rq[r].state = "PREFILLING"
    /\ remote[r].src = "done"
    /\ on_prefill_done(rq[r].p, WorldEpoch)
    /\ Move(r, "KV_PENDING")
    /\ Submit(r)
    /\ UNCHANGED <<pc, poisoned, remote, out>>

\* A prefill_done message without a first token.
PrefillDoneInvalid(r) ==
    /\ Idle
    /\ rq[r].state = "PREFILLING"
    /\ remote[r].src = "done"
    /\ Goto("cleanup", r)
    /\ UNCHANGED <<schedVars, rq, xfer, task, poisoned, remote, out>>

\* The governor flushes a deferred transfer (tick, a completion, a new sample).
Flush(r) ==
    /\ ~Sync
    /\ xfer[r] = "deferred"
    /\ xfer' = [xfer EXCEPT ![r] = "inflight"]
    /\ task' = [task EXCEPT ![r] = "queued"]
    /\ UNCHANGED <<schedVars, pc, rq, poisoned, remote, out>>

\* _run_nccl_pair: one pair at a time, none after a failed one.
StartPair(r) ==
    /\ ~Sync
    /\ task[r] = "queued"
    /\ \A q \in Ops : task[q] # "pair"
    /\ \/ /\ ~poisoned
          /\ task' = [task EXCEPT ![r] = "pair"]
          /\ remote' = [remote EXCEPT ![r].wire = "run"]
       \/ /\ poisoned
          /\ task' = [task EXCEPT ![r] = "none"]
          /\ UNCHANGED remote
    /\ UNCHANGED <<schedVars, pc, rq, xfer, poisoned, out>>

\* Mutant: a failed pair does not poison the sequencer.
EndPairUnpoisoned(r) ==
    /\ ~Sync
    /\ task[r] = "pair"
    /\ \/ /\ remote[r].wire = "done"
          /\ task' = [task EXCEPT ![r] = "commit"]
          /\ remote' = [remote EXCEPT ![r].tgt = "committing"]
       \/ task' = [task EXCEPT ![r] = "none"] /\ UNCHANGED remote
    /\ UNCHANGED <<schedVars, pc, rq, xfer, poisoned, out>>

\* Both ends of the pair are terminal and the commit RPC goes out, or a start,
\* a status query or the deadline failed and the transfer may still run.
EndPair(r) ==
    /\ ~Sync
    /\ task[r] = "pair"
    /\ \/ /\ remote[r].wire = "done"
          /\ task' = [task EXCEPT ![r] = "commit"]
          /\ remote' = [remote EXCEPT ![r].tgt = "committing"]
          /\ UNCHANGED poisoned
       \/ /\ task' = [task EXCEPT ![r] = "none"]
          /\ poisoned' = TRUE
          /\ UNCHANGED remote
    /\ UNCHANGED <<schedVars, pc, rq, xfer, out>>

\* The commit RPC failed for good; the target may have applied it or still may.
CommitFails(r) ==
    /\ ~Sync
    /\ task[r] = "commit"
    /\ task' = [task EXCEPT ![r] = "none"]
    /\ UNCHANGED <<schedVars, pc, rq, xfer, poisoned, remote, out>>

\* The commit RPC succeeded: governor._on_complete and _on_kv_done.
TransferCompletes(r) ==
    /\ ~Sync
    /\ task[r] = "commit"
    /\ remote[r].tgt \in {"decoding", "done"}
    /\ task' = [task EXCEPT ![r] = "none"]
    /\ xfer' = [xfer EXCEPT ![r] = "none"]
    /\ \/ /\ xfer[r] = "inflight" /\ rq[r].state = "KV_PENDING"
          /\ commit_decode_slot(r)
          /\ Move(r, IF out[r] THEN "FINISHED" ELSE "DECODING")
       \/ /\ ~(xfer[r] = "inflight" /\ rq[r].state = "KV_PENDING")
          /\ UNCHANGED <<schedVars, rq>>
    /\ UNCHANGED <<pc, poisoned, remote, out>>

\* A KV transfer times out.  NetworkControlPlane has no abort_transfer and
\* refuses to recompute, so every branch ends in the canonical cleanup; a
\* deferred transfer is cancelled first.
StuckTransfer(r) ==
    /\ Idle
    /\ rq[r].state = "KV_PENDING"
    /\ xfer' = [xfer EXCEPT ![r] = IF @ = "deferred" THEN "none" ELSE @]
    /\ Goto("cleanup", r)
    /\ UNCHANGED <<schedVars, rq, task, poisoned, remote, out>>

-----------------------------------------------------------------------------
\* Decode

\* A decode_done message; it may overtake the completion of the transfer.
DecodeDone(r) ==
    /\ Idle
    /\ rq[r].state \in {"KV_PENDING", "DECODING"}
    /\ remote[r].tgt = "done"
    /\ out' = [out EXCEPT ![r] = TRUE]
    /\ Move(r, IF rq[r].state = "DECODING" THEN "FINISHED" ELSE "KV_PENDING")
    /\ UNCHANGED <<schedVars, pc, xfer, task, poisoned, remote>>

\* The loop finds the stream terminal, or learns so from the worker
\* (_reconcile_authoritative_output).
QueryOutput(r) ==
    /\ Idle
    /\ rq[r].state = "DECODING"
    /\ out[r] \/ remote[r].tgt = "done"
    /\ out' = [out EXCEPT ![r] = TRUE]
    /\ Move(r, "FINISHED")
    /\ UNCHANGED <<schedVars, pc, xfer, task, poisoned, remote>>

\* The HTTP handler repairs a gap in the stream (repair_output_gap).
RepairOutput(r) ==
    /\ ~Sync
    /\ rq[r].state \in {"DECODING", "FINISHED"}
    /\ remote[r].tgt = "done"
    /\ out' = [out EXCEPT ![r] = TRUE]
    /\ UNCHANGED <<schedVars, pc, rq, xfer, task, poisoned, remote>>

\* A decode times out.
StuckDecode(r) ==
    /\ Idle
    /\ rq[r].state = "DECODING"
    /\ Goto("cleanup", r)
    /\ UNCHANGED <<schedVars, rq, xfer, task, poisoned, remote, out>>

-----------------------------------------------------------------------------
\* Cleanup

\* _canonical_cleanup up to cleanup_request: the prefill load is given back.
CanonicalCleanup ==
    /\ At("cleanup")
    /\ on_prefill_done(rq[pc.req].p, WorldEpoch)
    /\ pc' = [pc EXCEPT !.at = "fence", !.abort = TRUE]
    /\ UNCHANGED <<rq, xfer, task, poisoned, remote, out>>

\* Mutant: an ABORTED request is not visited again.
FinishCleanupOnce(r) ==
    /\ Idle
    /\ rq[r].state = "FINISHED"
    /\ pc' = [pc EXCEPT !.at = "fence", !.req = r, !.abort = FALSE]
    /\ UNCHANGED <<schedVars, rq, xfer, task, poisoned, remote, out>>

\* The loop visits a FINISHED or an ABORTED request.
FinishCleanup(r) ==
    /\ Idle
    /\ rq[r].state \in {"FINISHED", "ABORTED"}
    /\ pc' = [pc EXCEPT !.at = "fence", !.req = r, !.abort = rq[r].state = "ABORTED"]
    /\ UNCHANGED <<schedVars, rq, xfer, task, poisoned, remote, out>>

\* An unreleased request keeps its ledger; unless it is FINISHED it is ABORTED.
Keep(r) ==
    /\ Move(r, IF rq[r].state = "FINISHED" THEN "FINISHED" ELSE "ABORTED")
    /\ ToIdle

\* Mutant: a running transfer task does not stop the cleanup.
FenceSlotRunning ==
    /\ At("fence")
    /\ quarantine_decode_slot(pc.req)
    /\ pc' = [pc EXCEPT !.at = "query"]
    /\ UNCHANGED <<rq, xfer, task, poisoned, remote, out>>

\* cleanup_request up to its first await: quarantine the slot, and stop at once
\* while the transfer task still runs.
FenceSlot ==
    /\ At("fence")
    /\ quarantine_decode_slot(pc.req)
    /\ \/ task[pc.req] # "none" /\ Keep(pc.req)
       \/ /\ task[pc.req] = "none"
          /\ pc' = [pc EXCEPT !.at = "query"]
          /\ UNCHANGED rq
    /\ UNCHANGED <<xfer, task, poisoned, remote, out>>

\* Mutant: an inconclusive cleanup forgets the request.
QueryUnknownRemoves ==
    /\ At("query")
    /\ rq' = [rq EXCEPT ![pc.req] = Absent]
    /\ ToIdle
    /\ UNCHANGED <<schedVars, xfer, task, poisoned, remote, out>>

\* Mutant: an inconclusive cleanup gives the byte credits back.
QueryUnknownFinishes ==
    /\ At("query")
    /\ Keep(pc.req)
    /\ xfer' = [xfer EXCEPT ![pc.req] = "none"]
    /\ UNCHANGED <<schedVars, task, poisoned, remote, out>>

\* Some endpoint did not prove its operation terminal, or did not finalize.
QueryUnknown ==
    /\ At("query")
    /\ Keep(pc.req)
    /\ UNCHANGED <<schedVars, xfer, task, poisoned, remote, out>>

\* Every endpoint is terminal and finalized: release_endpoint_terminal releases
\* the slot last; the ledger and the tracker entry follow before any await.
QueryReleases(c) ==
    /\ At("query")
    /\ \A part \in Parts : remote[pc.req][part] \in Terminal
    /\ release_quarantined_decode_slot(pc.req, c)
    /\ xfer' = [xfer EXCEPT ![pc.req] = "none"]
    /\ rq' = [rq EXCEPT ![pc.req] = Absent]
    /\ out' = [out EXCEPT ![pc.req] = @ \/ rq[pc.req].state = "ABORTED"]
    /\ ToIdle
    /\ UNCHANGED <<task, poisoned, remote>>

\* The HTTP handler finds its request gone and the stream still open.
TerminateStream(r) ==
    /\ ~Sync
    /\ rq[r].state = "ABSENT"
    /\ lease[r] # NoLease
    /\ ~out[r]
    /\ out' = [out EXCEPT ![r] = TRUE]
    /\ UNCHANGED <<schedVars, pc, rq, xfer, task, poisoned, remote>>

-----------------------------------------------------------------------------
\* The workers

\* An abort of cleanup_request reaches a worker and fences the operation.
Fence(r, part) ==
    /\ At("query") /\ pc.req = r /\ pc.abort
    /\ remote[r][part] \notin Terminal
    /\ remote' = [remote EXCEPT ![r][part] = "fenced"]
    /\ UNCHANGED <<schedVars, pc, rq, xfer, task, poisoned, out>>

\* A worker advances an operation: the prefill command or a late prepare
\* arrives, the transfer ends, a commit starts the decode, the decode ends.
RunOn(r, part, from, to) ==
    /\ ~Sync
    /\ remote[r][part] = from
    /\ remote' = [remote EXCEPT ![r][part] = to]
    /\ UNCHANGED <<schedVars, pc, rq, xfer, task, poisoned, out>>

RunPrefill(r) == RunOn(r, "src", "sent", "done")

RunTransfer(r) == RunOn(r, "wire", "run", "done")

RunDecode(r) ==
    \/ RunOn(r, "tgt", "sent", "held")
    \/ RunOn(r, "tgt", "committing", "decoding")
    \/ RunOn(r, "tgt", "decoding", "done")

\* The loop sleeps until its next tick; once it ended it never moves again.
Tick == (Idle \/ At("dead")) /\ UNCHANGED vars

Admission ==
    \/ \E r \in Ops, p \in Prefills : StartAdmission(r, p)
    \/ PickTarget \/ AdoptSlot
    \/ PrepareOk \/ PrepareAmbiguous \/ PrepareRejected \/ RollbackSlot
    \/ PublishDispatch \/ RetryDispatch

Cleanup ==
    \/ CanonicalCleanup \/ FenceSlot \/ QueryUnknown
    \/ \E c \in CleanupIds : QueryReleases(c)

LoopVisit(r) ==
    \/ StuckPrefill(r) \/ PrefillDone(r) \/ PrefillDoneInvalid(r)
    \/ StuckTransfer(r) \/ DecodeDone(r) \/ QueryOutput(r) \/ StuckDecode(r)
    \/ FinishCleanup(r)

TransferTask(r) ==
    StartPair(r) \/ EndPair(r) \/ CommitFails(r) \/ TransferCompletes(r)

Worker(r) ==
    \/ \E part \in Parts : Fence(r, part)
    \/ RunPrefill(r) \/ RunTransfer(r) \/ RunDecode(r)

Next ==
    \/ \E i \in Instances : Boot(i)
    \/ Admission
    \/ Cleanup
    \/ \E r \in Ops :
          \/ Arrive(r) \/ LoopVisit(r) \/ Flush(r) \/ TransferTask(r)
          \/ RepairOutput(r) \/ TerminateStream(r) \/ Worker(r)
    \/ Tick

Spec == Init /\ [][Next]_vars


-----------------------------------------------------------------------------

States == {"ABSENT", "WAITING", "PREFILLING", "KV_PENDING", "DECODING",
           "FINISHED", "ABORTED"}

TypeOK ==
    /\ pc \in [at : {"boot", "idle", "pick", "adopt", "prepare", "rollback", "publish",
                     "retry", "cleanup", "fence", "query", "dead"},
               req : Ops \cup {NoReq}, p : Prefills \cup {NoInst},
               d : Decodes \cup {NoInst}, abort : BOOLEAN]
    /\ rq \in [Ops -> [state : States, p : Prefills \cup {NoInst},
                       d : Decodes \cup {NoInst}, attempts : 0 .. MaxAttempts]]
    /\ xfer \in [Ops -> {"none", "deferred", "inflight"}]
    /\ task \in [Ops -> {"none", "queued", "pair", "commit"}]
    /\ poisoned \in BOOLEAN
    /\ remote \in [Ops -> [Parts -> Terminal \cup
                            {"sent", "run", "held", "committing", "decoding"}]]
    /\ out \in [Ops -> BOOLEAN]

Leased(r) == lease[r] # NoLease /\ lease[r].state \in Live

\* A slot and its request live together: from its assignment until its removal
\* a request owns a live lease on its decode instance, and a live lease belongs
\* to a tracked request, however prepares, publishes, transfers, timeouts and
\* cleanups fail.  A lease without request would be lost capacity.
SlotFollowsRequest ==
    \A r \in Ops :
        /\ rq[r].state \notin {"ABSENT", "WAITING"} =>
              Leased(r) /\ lease[r].inst = rq[r].d
        /\ Leased(r) =>
              \/ rq[r].state \notin {"ABSENT", "WAITING"}
              \/ pc.at \in {"prepare", "rollback"} /\ pc.req = r

\* A slot is reused only when nothing of the previous request can still touch
\* it: once a lease is RELEASED the transfer task ended, the ledger forgot the
\* request, and every operation at a worker is completed or fenced (cleanup_request:
\* "Terminalize/query every original normal-PD ref, then release slot-last").
NoWriterAfterRelease ==
    \A r \in Ops :
        lease[r] # NoLease /\ lease[r].state = "RELEASED" =>
            /\ task[r] = "none"
            /\ xfer[r] = "none"
            /\ \A part \in Parts : remote[r][part] \in Terminal

\* While a KV transfer may still write, its byte credits are held, also after
\* a timeout, a failed task or an inconclusive cleanup (_canonical_cleanup keeps
\* the ledger until terminal proof).
CreditsCoverWriter ==
    \A r \in Ops : remote[r].wire = "run" => xfer[r] = "inflight"

\* At most one KV transfer is on the wire, even when the gateway lost track of
\* one (_run_nccl_pair: "Launch one pair globally, retaining the gate through
\* both terminals"; an ambiguous failure poisons the gate).
OnePairOnWire ==
    \A q, r \in Ops : remote[q].wire = "run" /\ remote[r].wire = "run" => q = r

-----------------------------------------------------------------------------

\* schedule_loop: "Run scheduling ticks until cancelled."  No exception ends it.
LoopRuns == ~At("dead")

-----------------------------------------------------------------------------

LoopStep == Admission \/ Cleanup \/ \E i \in Instances : Boot(i)

Due(r) ==
    \/ \E p \in Prefills : StartAdmission(r, p)
    \/ StuckPrefill(r) \/ StuckTransfer(r) \/ StuckDecode(r) \/ FinishCleanup(r)

Proof ==
    \/ \E r \in Ops, part \in Parts : Fence(r, part)
    \/ \E c \in CleanupIds : QueryReleases(c)

\* The loop never stops ticking: WAITING requests are tried, timeouts that stay due
\* fire, FINISHED and ABORTED requests are retried, and a free slot is found.  The
\* other coroutines run while it sleeps, and their RPCs are answered or time out.
\* Aborts and status queries do not fail for ever.  Nothing is assumed of the
\* workers' results and messages: they may be lost for ever.
Fairness ==
    /\ WF_vars(LoopStep)
    /\ SF_vars(\E r \in Ops : Due(r))
    /\ SF_vars(PickTarget /\ pc'.at = "adopt")
    /\ SF_vars(\E r \in Ops : TransferTask(r) \/ TerminateStream(r))
    /\ SF_vars(Proof)

FairSpec == Spec /\ Fairness

\* Every accepted request is answered and leaves the gateway: its stream becomes
\* terminal and its tracker entry, slot and byte credits are given back, although
\* any result may be lost, any transfer may fail and the sequencer may be poisoned.
\* Only the end of the loop itself stops this.
RequestsEnd ==
    \A r \in Ops :
        rq[r].state = "WAITING" ~> ((rq[r].state = "ABSENT" /\ out[r]) \/ ~LoopRuns)

=============================================================================
