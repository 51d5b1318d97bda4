---------------------------- MODULE AffinityLoad ----------------------------
(***************************************************************************)
(* A request whose prompt prefix is cached on a worker (affinity_enabled): *)
(* the AffinityCoordinator (router/coordinator.py) reserves a decode slot  *)
(* and runs load_cached_prefix (router/loader.py) as a task beside the     *)
(* schedule loop: pin the prefix at its source, prepare the target, copy,  *)
(* commit, publish the suffix prefill.  Everything that goes wrong ends in *)
(* cleanup_prefix_context or cleanup_request (router/network_rpc.py).      *)
(*                                                                         *)
(* Cleanups are the hard part.  The load task, the recovery task of the    *)
(* operation and the schedule loop each make passes over the same          *)
(* operation, and interleave at every await; run says where each is.  The  *)
(* worker operations are external: remote says how far each one got,       *)
(* whether or not the gateway heard of it.  An operation is attempted, and *)
(* joins every later cleanup, as soon as its command may have been sent.   *)
(* Timeouts fire at any time.  Only network control is modelled.           *)
(***************************************************************************)
EXTENDS PDScheduler

CONSTANTS
    Reqs, Loop,    \* requests; the schedule loop
    WorldEpoch, WorldSlots,
    NoOp, NoTicket

ASSUME AffinityAssumption ==
    /\ WorldEpoch \in Epochs
    /\ WorldSlots \in SlotCounts
    /\ Loop \notin Ops /\ NoOp \notin Ops
    /\ {"prefix", "normal"} \subseteq CleanupIds
    /\ NoTicket \notin [inst : Instances, epoch : Epochs]

VARIABLES
    rq,        \* RequestTracker: state and active_operation_id
    mode,      \* CachedPrefixPlan.mode of an operation
    run,       \* the tasks: where, on which operation, what for
    poisoned,  \* _nccl_sequence_poisoned
    remote     \* the worker operations of an operation id

affinityVars == <<rq, mode, run, poisoned, remote>>
vars == <<schedVars, affinityVars>>

-----------------------------------------------------------------------------

\* The worker operations: pin at the source, blocks at the target, the copy with
\* its two ends, the committed sequence, the suffix prefill and decode.
Kinds == {"resolve", "prepare", "copy", "commit", "suffix"}

\* COMPLETED or FENCED, with and without resources.
Terminal == {"done", "free"}

Attempted(o) == {k \in Kinds : remote[o][k] # "none"}

\* An operation id has a task, first for its load and later for its recovery.
Tasks == Ops \cup {Loop}

Off(o) == [at |-> "off", op |-> o, why |-> "load"]

Set(x, at) == run' = [run EXCEPT ![x].at = at]

Send(o, k) == remote' = [remote EXCEPT ![o][k] = "sent"]

\* The request whose active_operation_id is o, if any.
Owner(o) == {r \in Reqs : rq[r].op = o}

In(o, s) == \E r \in Owner(o) : rq[r].state = s

\* RequestTracker.transition of the owner of o, and remove.
Move(o, s) == rq' = [r \in Reqs |-> IF rq[r].op = o THEN [rq[r] EXCEPT !.state = s] ELSE rq[r]]

Leave(o, s) == rq' = [r \in Reqs |-> IF rq[r].op = o THEN [state |-> s, op |-> NoOp] ELSE rq[r]]

Init ==
    /\ SchedInit
    /\ rq = [r \in Reqs |-> [state |-> "ABSENT", op |-> NoOp]]
    /\ mode = [o \in Ops |-> "local"]
    /\ run = [x \in Tasks |-> Off(IF x = Loop THEN NoOp ELSE x)]
    /\ poisoned = FALSE
    /\ remote = [o \in Ops |-> [k \in Kinds |-> "none"]]

\* lifespan registers the world before any request arrives.
Boot(i) ==
    /\ register_instance(i, WorldEpoch, WorldSlots)
    /\ UNCHANGED affinityVars

Arrive(r) ==
    /\ cap = Instances
    /\ rq[r].state = "ABSENT"
    /\ rq' = [rq EXCEPT ![r].state = "WAITING"]
    /\ UNCHANGED <<schedVars, mode, run, poisoned, remote>>

-----------------------------------------------------------------------------
\* The load

LoopIdle == run[Loop].at = "off"

\* uuid4: an id that was never used.  Ids are interchangeable.
Unused == {o \in Ops : lease[o] = NoLease}

FreshOp == CHOOSE o \in Unused : TRUE

\* try_start: a decision of the router, a fresh operation id, a reserved slot.
try_start(r, o, d, m) ==
    /\ LoopIdle
    /\ rq[r].state = "WAITING"
    /\ Unused # {} /\ o = FreshOp
    /\ \E open \in SUBSET Instances : reserve_decode_slot(d, o, open)
    /\ rq' = [rq EXCEPT ![r] = [state |-> "AFFINITY_LOADING", op |-> o]]
    /\ mode' = [mode EXCEPT ![o] = m]
    /\ run' = [run EXCEPT ![o].at = "start"]
    /\ UNCHANGED <<poisoned, remote>>

\* No decision with a free slot, or it has waited long enough: the request takes
\* the cold path (NetworkLoop).
GoCold(r) ==
    /\ LoopIdle
    /\ rq[r].state = "WAITING"
    /\ rq' = [rq EXCEPT ![r].state = "COLD"]
    /\ UNCHANGED <<schedVars, mode, run, poisoned, remote>>

\* The task of o, at this await, goes on to the next one and sends its command.
Step(o, from, to) == run[o].at = from /\ Set(o, to)

\* resolve_prefix is sent.
Start(o) ==
    /\ Step(o, "start", "resolve")
    /\ Send(o, "resolve")
    /\ UNCHANGED <<schedVars, rq, mode, poisoned>>

\* The source is pinned: prepare_prefix is sent.
Resolved(o) ==
    /\ Step(o, "resolve", "prepare")
    /\ remote[o].resolve = "done"
    /\ Send(o, "prepare")
    /\ UNCHANGED <<schedVars, rq, mode, poisoned>>

\* The target is prepared: the copy queues up, a local prefix is committed.
Prepared(o) ==
    /\ remote[o].prepare = "done"
    /\ \/ /\ mode[o] = "remote"
          /\ Step(o, "prepare", "lock")
          /\ UNCHANGED remote
       \/ /\ mode[o] = "local"
          /\ Step(o, "prepare", "commit")
          /\ Send(o, "commit")
    /\ UNCHANGED <<schedVars, rq, mode, poisoned>>

\* _run_nccl_pair takes the lock.
Copy(o) ==
    /\ Step(o, "lock", "copy")
    /\ \A q \in Ops : run[q].at # "copy"
    /\ ~poisoned
    /\ Send(o, "copy")
    /\ UNCHANGED <<schedVars, rq, mode, poisoned>>

\* Both ends are COMPLETED: commit_cached_prefix is sent.
Copied(o) ==
    /\ Step(o, "copy", "commit")
    /\ remote[o].copy = "done"
    /\ Send(o, "commit")
    /\ UNCHANGED <<schedVars, rq, mode, poisoned>>

\* The load returned: the slot is committed, the request moves on, the suffix
\* command is attempted.
Committed(o) ==
    /\ Step(o, "commit", "publish")
    /\ remote[o].commit = "done"
    /\ commit_decode_slot(o)
    /\ Move(o, "PREFIX_PREFILLING")
    /\ Send(o, "suffix")
    /\ UNCHANGED <<mode, poisoned>>

\* The publish returned or raised; the command is on its way or lost.
Published(o) ==
    /\ Step(o, "publish", "off")
    /\ UNCHANGED <<schedVars, rq, mode, poisoned, remote>>

Loading == {"start", "resolve", "prepare", "lock", "copy", "commit"}

\* Mutant: a failed load gives its slot back at once, as a picked one.
LoadFailsFreesSlot(o, why) ==
    /\ run[o].at \in Loading
    /\ on_decode_finished(lease[o].inst, WorldEpoch)
    /\ run' = [run EXCEPT ![o].at = "begin", ![o].why = why]
    /\ poisoned' = (poisoned \/ run[o].at = "copy")
    /\ UNCHANGED <<rq, mode, remote>>

\* Mutant: the load has no timeout, a lost answer of the source is waited for.
LoadFailsUntimed(o, why) ==
    /\ run[o].at \in Loading
    /\ run[o].at = "resolve" => remote[o].resolve \in Terminal
    /\ run' = [run EXCEPT ![o].at = "begin", ![o].why = why]
    /\ poisoned' = (poisoned \/ run[o].at = "copy")
    /\ UNCHANGED <<schedVars, rq, mode, remote>>

\* The load fails, with an answer or without: PrefixLoadError and the timeout are
\* a fallback, everything else (a poisoned sequencer, an ambiguous answer) an
\* error.  A failure during the copy poisons the sequencer.
LoadFails(o, why) ==
    /\ run[o].at \in Loading
    /\ run[o].at = "start" => why = "error"
    /\ run[o].at = "lock" => poisoned \/ why = "fallback"
    /\ run' = [run EXCEPT ![o].at = "begin", ![o].why = why]
    /\ poisoned' = (poisoned \/ run[o].at = "copy")
    /\ UNCHANGED <<schedVars, rq, mode, remote>>

-----------------------------------------------------------------------------
\* The loop visits a request

Visit(r, s, why) ==
    /\ LoopIdle
    /\ rq[r].state = s
    /\ run' = [run EXCEPT ![Loop] = [at |-> "begin", op |-> rq[r].op, why |-> why]]
    /\ UNCHANGED <<schedVars, rq, mode, poisoned, remote>>

\* A suffix_prefill_done message.
SuffixDone(r) ==
    /\ LoopIdle
    /\ rq[r].state = "PREFIX_PREFILLING"
    /\ remote[rq[r].op].suffix \in {"run", "done"}
    /\ rq' = [rq EXCEPT ![r].state = "DECODING"]
    /\ UNCHANGED <<schedVars, mode, run, poisoned, remote>>

\* A decode_done message, or the output query.
DecodeDone(r) ==
    /\ LoopIdle
    /\ rq[r].state = "DECODING"
    /\ remote[rq[r].op].suffix \in Terminal
    /\ rq' = [rq EXCEPT ![r].state = "FINISHED"]
    /\ UNCHANGED <<schedVars, mode, run, poisoned, remote>>

\* get_stuck_suffix_prefills: cleanup_suffix.
StuckSuffix(r) == Visit(r, "PREFIX_PREFILLING", "suffix")

\* get_stuck_decodes: the canonical cleanup.
StuckDecode(r) == Visit(r, "DECODING", "abort")

\* cleanup_request of a FINISHED or ABORTED request.
FinishCleanup(r) == Visit(r, "FINISHED", "finish") \/ Visit(r, "ABORTED", "abort")

-----------------------------------------------------------------------------
\* What becomes of a cleanup

\* The recovery task of an operation starts, unless there is one.
Retained(o) ==
    IF run[o].why = "recover" /\ run[o].at # "off" THEN run[o]
    ELSE [at |-> "begin", op |-> o, why |-> "recover"]

\* The task is through with this cleanup.
Ends(x) == Set(x, "off")

\* cleanup_prefix_context returned QUARANTINED: the recovery task tries again, the
\* loop leaves the operation to it.  A load task has no branch for it and ends.
Quarantined(x) ==
    /\ run' = CASE run[x].why = "recover" -> [run EXCEPT ![x].at = "begin"]
                [] run[x].why = "suffix" ->
                      [run EXCEPT ![x].at = "off", ![run[x].op] = Retained(run[x].op)]
                [] OTHER -> [run EXCEPT ![x].at = "off"]
    /\ UNCHANGED rq

\* _cleanup returned None after its watchdog.
Expired(x) ==
    /\ run' = IF run[x].why = "suffix"
              THEN [run EXCEPT ![x].at = "off", ![run[x].op] = Retained(run[x].op)]
              ELSE [run EXCEPT ![x].at = "begin", ![x].why = "recover"]
    /\ UNCHANGED rq

\* It returned ABORTED.  A load task that failed with an error has no branch for it.
Aborted(x) ==
    LET o == run[x].op
    IN  /\ Ends(x)
        /\ CASE run[x].why \in {"fallback", "recover"} /\ In(o, "AFFINITY_LOADING") ->
                  Leave(o, "WAITING")
             [] run[x].why \in {"suffix", "recover"} /\ In(o, "PREFIX_PREFILLING") ->
                  Leave(o, "GONE")
             [] OTHER -> UNCHANGED rq

\* cleanup_request returned False: unless it is FINISHED the request is ABORTED.
Kept(x) ==
    /\ Ends(x)
    /\ IF In(run[x].op, "FINISHED") THEN UNCHANGED rq ELSE Move(run[x].op, "ABORTED")

\* It returned True.
Removed(x) == Ends(x) /\ Leave(run[x].op, "GONE")

-----------------------------------------------------------------------------
\* One pass of a cleanup

\* cleanup_request, otherwise cleanup_prefix_context under _cleanup.
ForRequest(x) == run[x].why \in {"finish", "abort"}

CleanupId(x) == IF ForRequest(x) THEN "normal" ELSE "prefix"

On(x, at) == run[x].at = at

LeaseOf(x) == lease[run[x].op]

\* Up to the first await: the slot is quarantined.  Without an attempted operation
\* the evaluator has no predicate to release by.
Begin(x) ==
    /\ On(x, "begin") \/ On(x, "retry")
    /\ quarantine_decode_slot(run[x].op)
    /\ IF Attempted(run[x].op) = {} THEN Quarantined(x) ELSE Set(x, "query") /\ UNCHANGED rq
    /\ UNCHANGED <<mode, poisoned, remote>>

\* Mutant: cleanup_request of a released slot fails, too.
BeginReleasedFails(x) ==
    /\ On(x, "begin") \/ On(x, "retry")
    /\ LeaseOf(x).state = "RELEASED"
    /\ IF ForRequest(x) THEN Kept(x) ELSE Set(x, "retry") /\ UNCHANGED rq
    /\ UNCHANGED <<schedVars, mode, poisoned, remote>>

\* A released slot cannot be quarantined: cleanup_prefix_context raises, while
\* cleanup_request is done.
BeginReleased(x) ==
    /\ On(x, "begin") \/ On(x, "retry")
    /\ LeaseOf(x).state = "RELEASED"
    /\ IF ForRequest(x) THEN Removed(x) ELSE Set(x, "retry") /\ UNCHANGED rq
    /\ UNCHANGED <<schedVars, mode, poisoned, remote>>

\* Mutant: a transfer that is still running does not stop the cleanup.
QueriedWithoutCopy(x) ==
    /\ On(x, "query")
    /\ \A k \in Attempted(run[x].op) \ {"copy"} : remote[run[x].op][k] \in Terminal
    /\ Set(x, "final")
    /\ UNCHANGED <<schedVars, rq, mode, poisoned, remote>>

\* The exact queries find every attempted operation terminal.
Queried(x) ==
    /\ On(x, "query")
    /\ \A k \in Attempted(run[x].op) : remote[run[x].op][k] \in Terminal
    /\ Set(x, "final")
    /\ UNCHANGED <<schedVars, rq, mode, poisoned, remote>>

\* One query fails, or finds its operation unknown or running.
QueryUnknown(x) ==
    /\ On(x, "query")
    /\ IF ForRequest(x) THEN Kept(x) ELSE Quarantined(x)
    /\ UNCHANGED <<schedVars, mode, poisoned, remote>>

\* A finalize fails, or prefix_load_timeout_s cuts the pass short.
Raises(x) ==
    /\ On(x, "final") \/ (On(x, "query") /\ ~ForRequest(x))
    /\ IF ForRequest(x) THEN Kept(x) ELSE Set(x, "retry") /\ UNCHANGED rq
    /\ UNCHANGED <<schedVars, mode, poisoned, remote>>

\* prefix_operation_watchdog_s
GiveUp(x) ==
    /\ On(x, "retry")
    /\ Expired(x)
    /\ UNCHANGED <<schedVars, mode, poisoned, remote>>

\* release_endpoint_terminal: an endpoint finalizes.
Finalize(x, k) ==
    /\ On(x, "final")
    /\ remote[run[x].op][k] = "done"
    /\ remote' = [remote EXCEPT ![run[x].op][k] = "free"]
    /\ UNCHANGED <<schedVars, rq, mode, run, poisoned>>

\* Mutant: the slot is released before the endpoints finalized.
ReleaseFirst(x) ==
    /\ On(x, "final")
    /\ release_quarantined_decode_slot(run[x].op, CleanupId(x))
    /\ IF ForRequest(x) THEN Removed(x) ELSE Set(x, "done") /\ UNCHANGED rq
    /\ UNCHANGED <<mode, poisoned, remote>>

\* All endpoints finalized: the slot comes last.
Release(x) ==
    /\ On(x, "final")
    /\ \A k \in Kinds : remote[run[x].op][k] # "done"
    /\ release_quarantined_decode_slot(run[x].op, CleanupId(x))
    /\ IF ForRequest(x) THEN Removed(x) ELSE Set(x, "done") /\ UNCHANGED rq
    /\ UNCHANGED <<mode, poisoned, remote>>

\* Another pass released it meanwhile, under this cleanup id or under another one,
\* which raises.
ReleasedMeanwhile(x) ==
    /\ On(x, "final")
    /\ LeaseOf(x).state = "RELEASED"
    /\ IF LeaseOf(x).cleanup = CleanupId(x)
       THEN Set(x, "done") /\ UNCHANGED rq
       ELSE IF ForRequest(x) THEN Kept(x) ELSE Set(x, "retry") /\ UNCHANGED rq
    /\ UNCHANGED <<schedVars, mode, poisoned, remote>>

\* wait_for hands the outcome to _cleanup, possibly in a later turn of the loop.
Deliver(x) ==
    /\ On(x, "done")
    /\ Aborted(x)
    /\ UNCHANGED <<schedVars, mode, poisoned, remote>>

-----------------------------------------------------------------------------
\* The workers

Work(o, k, from, to) ==
    /\ remote[o][k] = from
    /\ remote' = [remote EXCEPT ![o][k] = to]
    /\ UNCHANGED <<schedVars, rq, mode, run, poisoned>>

\* Pinning and preparing succeed or are refused (a miss).
RunResolve(o) == \E to \in Terminal : Work(o, "resolve", "sent", to)

RunPrepare(o) == \E to \in Terminal : Work(o, "prepare", "sent", to)

RunCopy(o) == Work(o, "copy", "sent", "run") \/ Work(o, "copy", "run", "done")

\* A local commit turns the pin into references of the sequence.
RunCommit(o) ==
    /\ remote[o].commit = "sent"
    /\ remote' = [remote EXCEPT ![o].commit = "done",
                      ![o].resolve = IF mode[o] = "local" THEN "free" ELSE @]
    /\ UNCHANGED <<schedVars, rq, mode, run, poisoned>>

RunSuffix(o) == Work(o, "suffix", "sent", "run") \/ Work(o, "suffix", "run", "done")

\* An abort arrives: what runs is stopped, what has not arrived is refused later.
Fence(x, k) ==
    /\ On(x, "query") /\ run[x].why # "finish"
    /\ remote[run[x].op][k] \in {"sent", "run"}
    /\ remote' = [remote EXCEPT ![run[x].op][k] = "done"]
    /\ UNCHANGED <<schedVars, rq, mode, run, poisoned>>

-----------------------------------------------------------------------------

Load(o) ==
    \/ Start(o) \/ Resolved(o) \/ Prepared(o) \/ Copy(o) \/ Copied(o)
    \/ Committed(o) \/ Published(o)
    \/ \E why \in {"fallback", "error"} : LoadFails(o, why)

Pass(x) ==
    \/ Begin(x) \/ BeginReleased(x) \/ Queried(x) \/ QueryUnknown(x) \/ Raises(x)
    \/ GiveUp(x) \/ Release(x) \/ ReleasedMeanwhile(x) \/ Deliver(x)
    \/ \E k \in Kinds : Finalize(x, k)

Visits(r) ==
    \/ \E o \in Ops, d \in Decodes, m \in {"local", "remote"} : try_start(r, o, d, m)
    \/ GoCold(r) \/ SuffixDone(r) \/ DecodeDone(r)
    \/ StuckSuffix(r) \/ StuckDecode(r) \/ FinishCleanup(r)

Worker(o) ==
    RunResolve(o) \/ RunPrepare(o) \/ RunCopy(o) \/ RunCommit(o) \/ RunSuffix(o)

\* The loop sleeps until its next tick.
Tick == LoopIdle /\ UNCHANGED vars

Next ==
    \/ \E i \in Instances : Boot(i)
    \/ \E r \in Reqs : Arrive(r) \/ Visits(r)
    \/ \E o \in Ops : Load(o) \/ Worker(o)
    \/ \E x \in Tasks : Pass(x) \/ \E k \in Kinds : Fence(x, k)
    \/ Tick

Spec == Init /\ [][Next]_vars

-----------------------------------------------------------------------------

\* The requests, tasks and worker operations have the values that the code gives them.
TypeOK ==
    /\ rq \in [Reqs -> [state : {"ABSENT", "WAITING", "COLD", "AFFINITY_LOADING",
                                 "PREFIX_PREFILLING", "DECODING", "FINISHED", "ABORTED",
                                 "GONE"},
                        op : Ops \cup {NoOp}]]
    /\ mode \in [Ops -> {"local", "remote"}]
    /\ run \in [Tasks -> [at : Loading \cup {"off", "publish", "begin", "retry", "query",
                                             "final", "done"},
                          op : Ops \cup {NoOp},
                          why : {"load", "fallback", "error", "recover", "suffix",
                                 "finish", "abort"}]]
    /\ poisoned \in BOOLEAN
    /\ remote \in [Ops -> [Kinds -> {"none", "sent", "run", "done", "free"}]]

\* A slot is reused only when nothing of the load can still touch it: once the lease
\* is RELEASED no command of it can start at a worker, none runs, none holds a
\* resource, and its task sends no further one, whichever of the load task, the
\* recovery task and the loop released it (cleanup_prefix_context: "Fence original
\* refs, query every predicate, then invoke sole evaluator").
NoWriterAfterRelease ==
    \A o \in Ops :
        lease[o] # NoLease /\ lease[o].state = "RELEASED" =>
            /\ run[o].at \notin Loading
            /\ \A k \in Kinds : remote[o][k] \in {"none", "free"}

\* Blocks outlive the work on them: while a copy runs the source stays pinned and
\* the target blocks stay allocated, and while the suffix runs the sequence stays
\* committed, although cleanups finalize these resources one by one.
BlocksCoverWork ==
    \A o \in Ops :
        /\ remote[o].copy = "run" => remote[o].resolve = "done" /\ remote[o].prepare = "done"
        /\ remote[o].suffix = "run" => remote[o].commit = "done"



-----------------------------------------------------------------------------

Due(r) == StuckSuffix(r) \/ StuckDecode(r) \/ FinishCleanup(r)

Proof(x) == Release(x) \/ \E k \in Kinds : Fence(x, k) \/ Finalize(x, k)

\* Every task runs on, because each of its awaits ends with an answer or a timeout;
\* the loop visits what stays due; aborts, queries and finalizes do not fail for
\* ever.  Nothing is assumed of the results of the workers.
Fairness ==
    /\ \A x \in Tasks : WF_vars(Pass(x) \/ (x \in Ops /\ Load(x)))
    /\ SF_vars(\E r \in Reqs : Due(r))
    /\ SF_vars(\E x \in Tasks : Queried(x))
    /\ SF_vars(\E x \in Tasks : Proof(x))

FairSpec == Spec /\ Fairness

\* A committed load always ends: a request that was promoted is finished or aborted
\* and leaves the gateway with its slot released, although the suffix command may
\* be lost, and the loop and the recovery task may clean it up at once.
PrefixEnds ==
    \A r \in Reqs : rq[r].state = "PREFIX_PREFILLING" ~> rq[r].state = "GONE"

\* A load does not stay under way: it is promoted, falls back to WAITING, or ends
\* with its slot quarantined and no task left to try again (a cleanup of the load
\* task that is inconclusive, or that follows an error).
LoadsSettle ==
    \A r \in Reqs :
        rq[r].state = "AFFINITY_LOADING" ~>
            \/ rq[r].state # "AFFINITY_LOADING"
            \/ run[rq[r].op].at = "off"

=============================================================================
