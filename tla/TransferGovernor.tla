-------------------------- MODULE TransferGovernor --------------------------
(***************************************************************************)
(* KV transfer flow control of prism-serve (scheduler/transfer_governor).  *)
(*                                                                         *)
(* The governor runs inside the single-threaded asyncio gateway: a handler *)
(* is never interrupted, so every public method is one action.  The only   *)
(* loop, _flush_deferred, is unrolled: while flushing is not empty no      *)
(* action but Flush is enabled, so the handler that started the flush and  *)
(* the flush itself still form one uninterrupted section.                  *)
(*                                                                         *)
(* Data is abstracted: a transfer task is an identity with a request, two  *)
(* endpoints, a size and a priority; a usage ratio is a point of an        *)
(* ordered set Ratios; the age of a sample is the flag stale.              *)
(***************************************************************************)
EXTENDS Integers, Sequences, FiniteSets

CONSTANTS
    Prefills,        \* source instances
    Decodes,         \* destination instances
    Reqs,            \* request ids
    Tasks,           \* TransferTask objects (compared by identity)
    Req, Src, Dst,   \* [Tasks -> ...]: req_id, src and dst of a task
    Size, Priority,  \* [Tasks -> Nat]: kv_size and priority of a task
    SizeSum,         \* [SUBSET Tasks -> Nat]: total size of a set of tasks
    Cap,             \* MAX_BYTES_INFLIGHT_PER_PAIR
    LowCap,          \* 0.3 * Cap, the cap of priority-0 tasks
    Ratios,          \* usage ratios, as an initial segment of Nat
    HighWatermark,
    LowWatermark,
    Epochs,          \* instance epochs
    NoSample, NoTask, NoEpoch

ASSUME TaskAssumption ==
    /\ Req \in [Tasks -> Reqs]
    /\ Src \in [Tasks -> Prefills]
    /\ Dst \in [Tasks -> Decodes]
    /\ Size \in [Tasks -> Nat]
    /\ Priority \in [Tasks -> Nat]
    /\ NoTask \notin Tasks

ASSUME LimitAssumption ==
    /\ Cap \in Nat /\ LowCap \in Nat /\ LowCap <= Cap
    /\ Ratios \subseteq Nat
    /\ HighWatermark \in Nat /\ LowWatermark \in Nat
    /\ LowWatermark <= HighWatermark

ASSUME SampleAssumption ==
    /\ NoSample \notin [ratio : Ratios, epoch : Epochs, stale : BOOLEAN]
    /\ NoEpoch \notin Epochs

\* SizeSum is the sum of Size over a finite set of tasks.
ASSUME SizeSumAssumption ==
    /\ IsFiniteSet(Tasks)
    /\ SizeSum \in [SUBSET Tasks -> Nat]
    /\ SizeSum[{}] = 0
    /\ \A S \in SUBSET Tasks : \A t \in Tasks \ S :
          SizeSum[S \cup {t}] = SizeSum[S] + Size[t]

VARIABLES
    kvUsage,    \* _kv_usage: last sample of each destination
    expected,   \* _expected_epochs
    governable, \* instances worker_registry.can_govern accepts
    pairBytes,  \* _pair_bytes_inflight
    dstBytes,   \* _bytes_inflight
    deferred,   \* _deferred: FIFO queue of each destination
    inflight,   \* _inflight_tasks: request id -> task
    remote,     \* tasks handed to the infer client that have not called back
    submitted,  \* tasks that were submitted so far (a task is submitted once)
    done,       \* tasks whose on_complete callback was fired
    flushing    \* destinations the running handler still has to flush

vars == <<kvUsage, expected, governable, pairBytes, dstBytes, deferred,
          inflight, remote, submitted, done, flushing>>

ledger == <<pairBytes, dstBytes, inflight>>
signals == <<kvUsage, expected, governable>>

-----------------------------------------------------------------------------

Samples == [ratio : Ratios, epoch : Epochs, stale : BOOLEAN]

Pairs == Prefills \X Decodes

Pair(t) == <<Src[t], Dst[t]>>

\* The tasks of the set T that occupy pair p, and those that target d.
OnPair(T, p) == {t \in T : Pair(t) = p}
ToDst(T, d) == {t \in T : Dst[t] = d}

Inflight == {t \in Tasks : inflight[Req[t]] = t}

Queued(d) == {deferred[d][i] : i \in DOMAIN deferred[d]}

Deferred == UNION {Queued(d) : d \in Decodes}

\* _sample_is_fresh
Fresh(d) ==
    /\ kvUsage[d] # NoSample
    /\ kvUsage[d].epoch = expected[d]
    /\ ~kvUsage[d].stale

\* Mutant: an oversized task is sent although the pair is busy.
can_sendOversizeAlways(t) ==
    LET limit == IF Priority[t] >= 1 THEN Cap ELSE LowCap
    IN  /\ {Dst[t], Src[t]} \subseteq governable
        /\ Fresh(Dst[t])
        /\ kvUsage[Dst[t]].ratio < HighWatermark
        /\ Size[t] > limit \/ pairBytes[Pair(t)] + Size[t] <= limit

\* can_send: registry, fresh sample, watermark, byte cap of the pair.
can_send(t) ==
    LET limit == IF Priority[t] >= 1 THEN Cap ELSE LowCap
        current == pairBytes[Pair(t)]
    IN  /\ Dst[t] \in governable
        /\ Src[t] \in governable
        /\ Fresh(Dst[t])
        /\ kvUsage[Dst[t]].ratio < HighWatermark
        /\ IF Size[t] > limit THEN current = 0
                              ELSE current + Size[t] <= limit

\* The elements of sequence q at the positions in K, in order.
Nth(K, j) == CHOOSE i \in K : Cardinality({k \in K : k <= i}) = j
Keep(q, K) == [j \in 1..Cardinality(K) |-> q[Nth(K, j)]]

\* q without the tasks of the set T (the filtered deque built by cancel).
Without(q, T) == Keep(q, {i \in DOMAIN q : q[i] \notin T})

\* max(0, value - size): every release is clamped at zero.
Minus(value, size) == IF value >= size THEN value - size ELSE 0

-----------------------------------------------------------------------------

Init ==
    /\ kvUsage = [d \in Decodes |-> NoSample]
    /\ expected = [d \in Decodes |-> NoEpoch]
    /\ governable = Prefills \cup Decodes
    /\ pairBytes = [p \in Pairs |-> 0]
    /\ dstBytes = [d \in Decodes |-> 0]
    /\ deferred = [d \in Decodes |-> <<>>]
    /\ inflight = [r \in Reqs |-> NoTask]
    /\ remote = {}
    /\ submitted = {}
    /\ done = {}
    /\ flushing = {}

\* Charge both byte counters and enter the identity ledger.
Account(t) ==
    /\ pairBytes' = [pairBytes EXCEPT ![Pair(t)] = @ + Size[t]]
    /\ dstBytes' = [dstBytes EXCEPT ![Dst[t]] = @ + Size[t]]
    /\ inflight' = [inflight EXCEPT ![Req[t]] = t]

\* Leave the identity ledger and give the bytes back.
Release(t) ==
    /\ pairBytes' = [pairBytes EXCEPT ![Pair(t)] = Minus(@, Size[t])]
    /\ dstBytes' = [dstBytes EXCEPT ![Dst[t]] = Minus(@, Size[t])]
    /\ inflight' = [inflight EXCEPT ![Req[t]] = NoTask]

\* Account and Release in the same handler: only the ledger entry can change.
Bounce(t) ==
    /\ inflight' = [inflight EXCEPT ![Req[t]] = NoTask]
    /\ UNCHANGED <<pairBytes, dstBytes>>

\* _dispatch: the infer client takes the task, or completes it inside the call
\* (the in-process client calls on_complete synchronously), or raises; then the
\* ledger is rolled back and TransferDispatchError ends the running handler.
_dispatch(t, todo) ==
    \/ /\ Account(t)
       /\ remote' = remote \cup {t}
       /\ flushing' = todo
       /\ UNCHANGED done
    \/ /\ Bounce(t)
       /\ done' = done \cup {t}
       /\ flushing' = todo \cup {Dst[t]}
       /\ UNCHANGED remote
    \/ /\ Bounce(t)
       /\ flushing' = {}
       /\ UNCHANGED <<remote, done>>

\* submit: schedule_loop submits one new task per request, on prefill_done, and
\* only while the request owns no other transfer.
submit(t) ==
    /\ flushing = {}
    /\ t \notin submitted
    /\ \A u \in Inflight \cup Deferred : Req[u] # Req[t]
    /\ submitted' = submitted \cup {t}
    /\ \/ /\ can_send(t)
          /\ _dispatch(t, {})
          /\ UNCHANGED deferred
       \/ /\ ~can_send(t)
          /\ deferred' = [deferred EXCEPT ![Dst[t]] = Append(@, t)]
          /\ UNCHANGED <<ledger, remote, done, flushing>>
    /\ UNCHANGED signals

\* One iteration of _flush_deferred(d): stop at the first task that cannot be
\* sent; otherwise pop the head, then dispatch it.
_flush_deferred(d) ==
    /\ d \in flushing
    /\ \/ /\ \A t \in Tasks : deferred[d] # <<>> /\ t = Head(deferred[d]) => ~can_send(t)
          /\ flushing' = flushing \ {d}
          /\ UNCHANGED <<deferred, ledger, remote, done>>
       \/ \E t \in Tasks :
             /\ deferred[d] # <<>>
             /\ t = Head(deferred[d])
             /\ can_send(t)
             /\ deferred' = [deferred EXCEPT ![d] = Tail(@)]
             /\ _dispatch(t, flushing)
    /\ UNCHANGED <<signals, submitted>>

\* Mutant: only the first non-empty queue is flushed.
tickFirstOnly ==
    /\ flushing = {}
    /\ \E d \in Decodes : deferred[d] # <<>>
    /\ flushing' = {CHOOSE d \in Decodes : deferred[d] # <<>>}
    /\ UNCHANGED <<signals, ledger, deferred, remote, submitted, done>>

\* tick: schedule_loop flushes every non-empty queue once per iteration.
tick ==
    /\ flushing = {}
    /\ flushing' = {d \in Decodes : deferred[d] # <<>>}
    /\ flushing' # {}
    /\ UNCHANGED <<signals, ledger, deferred, remote, submitted, done>>

\* Mutant: a callback is believed without comparing task identities.
_on_completeAnyTask(t) ==
    /\ flushing = {}
    /\ t \in remote
    /\ remote' = remote \ {t}
    /\ Release(t)
    /\ done' = done \cup {t}
    /\ flushing' = {Dst[t]}
    /\ UNCHANGED <<signals, deferred, submitted>>

\* _on_complete: the infer client calls back once.  A callback of a task that
\* was cancelled or superseded changes nothing.
_on_complete(t) ==
    /\ flushing = {}
    /\ t \in remote
    /\ remote' = remote \ {t}
    /\ \/ /\ inflight[Req[t]] = t
          /\ Release(t)
          /\ done' = done \cup {t}
          /\ flushing' = {Dst[t]}
       \/ /\ inflight[Req[t]] # t
          /\ UNCHANGED <<ledger, done, flushing>>
    /\ UNCHANGED <<signals, deferred, submitted>>

\* cancel of the tasks in T, all of one request: filter the queues and, when
\* the ledger entry of the request is among them, release it.
CancelTasks(r, T) ==
    /\ deferred' = [d \in Decodes |-> Without(deferred[d], T)]
    /\ \/ /\ inflight[r] \in T
          /\ Release(inflight[r])
       \/ /\ inflight[r] \notin T
          /\ UNCHANGED ledger
    /\ UNCHANGED <<signals, remote, submitted, done, flushing>>

\* cancel(req_id, operation_id): each task has an operation id of its own.
cancel_operation(t) ==
    /\ flushing = {}
    /\ CancelTasks(Req[t], {t})

\* cancel(req_id) as finish_request calls it.
finish_request(r) ==
    /\ flushing = {}
    /\ CancelTasks(r, {t \in Tasks : Req[t] = r})

\* update_kv_usage(d, sample); a fresh high-to-low crossing flushes d.
update_kv_usage(d, s) ==
    /\ flushing = {}
    /\ kvUsage' = [kvUsage EXCEPT ![d] = s]
    /\ flushing' = IF /\ s # NoSample /\ kvUsage[d] # NoSample
                      /\ kvUsage[d].ratio >= HighWatermark
                      /\ s.ratio < LowWatermark
                      /\ s.epoch = expected[d] /\ ~s.stale
                   THEN {d} ELSE {}
    /\ UNCHANGED <<expected, governable, ledger, deferred, remote, submitted, done>>

\* set_expected_epochs: samples of another epoch are dropped.
set_expected_epochs(epochs) ==
    /\ flushing = {}
    /\ expected' = epochs
    /\ kvUsage' = [d \in Decodes |->
                     IF kvUsage[d] # NoSample /\ kvUsage[d].epoch # epochs[d]
                     THEN NoSample ELSE kvUsage[d]]
    /\ UNCHANGED <<governable, ledger, deferred, remote, submitted, done, flushing>>

\* Time passes: the sample of d exceeds _kv_usage_stale_after_s.
Age(d) ==
    /\ flushing = {}
    /\ kvUsage[d] # NoSample
    /\ kvUsage' = [kvUsage EXCEPT ![d].stale = TRUE]
    /\ UNCHANGED <<expected, governable, ledger, deferred, remote, submitted, done, flushing>>

\* The worker registry changes its verdict on one instance.
Govern(i) ==
    /\ flushing = {}
    /\ governable' \in {governable \cup {i}, governable \ {i}}
    /\ UNCHANGED <<kvUsage, expected, ledger, deferred, remote, submitted, done, flushing>>

Next ==
    \/ \E t \in Tasks : submit(t) \/ _on_complete(t) \/ cancel_operation(t)
    \/ \E r \in Reqs : finish_request(r)
    \/ \E d \in Decodes : _flush_deferred(d) \/ Age(d)
    \/ \E d \in Decodes, s \in Samples \cup {NoSample} : update_kv_usage(d, s)
    \/ \E epochs \in [Decodes -> Epochs] : set_expected_epochs(epochs)
    \/ \E i \in Prefills \cup Decodes : Govern(i)
    \/ tick

\* schedule_loop ticks forever; a running flush always goes on; a task that was
\* handed over either calls back or is cancelled by the stuck-transfer check.
\* tick and the callbacks are strongly fair: asyncio runs every ready coroutine,
\* even when samples that start a flush keep coming in between.
Fairness ==
    /\ SF_vars(tick)
    /\ \A d \in Decodes : WF_vars(_flush_deferred(d))
    /\ \A t \in Tasks :
          SF_vars(_on_complete(t) \/ (inflight[Req[t]] = t /\ cancel_operation(t)))

Spec == Init /\ [][Next]_vars

FairSpec == Spec /\ Fairness

-----------------------------------------------------------------------------

TypeOK ==
    /\ kvUsage \in [Decodes -> Samples \cup {NoSample}]
    /\ expected \in [Decodes -> Epochs \cup {NoEpoch}]
    /\ governable \subseteq Prefills \cup Decodes
    /\ pairBytes \in [Pairs -> Nat]
    /\ dstBytes \in [Decodes -> Nat]
    /\ deferred \in [Decodes -> Seq(Tasks)]
    /\ inflight \in [Reqs -> Tasks \cup {NoTask}]
    /\ remote \subseteq Tasks
    /\ submitted \subseteq Tasks
    /\ done \subseteq Tasks
    /\ flushing \subseteq Decodes

\* Byte conservation: both counters are exactly the bytes of the tasks in the
\* identity ledger, whatever order dispatches, dispatch failures, cancels and
\* late callbacks come in.  (_dispatch, _on_complete and cancel each adjust
\* the counters on their own, and clamping at zero would hide a double release.)
BytesConserved ==
    /\ \A p \in Pairs : pairBytes[p] = SizeSum[OnPair(Inflight, p)]
    /\ \A d \in Decodes : dstBytes[d] = SizeSum[ToDst(Inflight, d)]

\* The byte cap of can_send bounds what is in flight on a pair, except for one
\* oversized task that had the pair to itself when it was dispatched.
PairCapRespected ==
    \A p \in Pairs :
       \/ pairBytes[p] <= Cap
       \/ \E t \in OnPair(Inflight, p) : Size[t] > Cap /\ pairBytes[p] = Size[t]

\* A request owns at most one entry of the ledger and the queues together, so
\* _dispatch never overwrites a ledger entry and leaks its bytes.
OneEntryPerRequest ==
    /\ \A r \in Reqs : inflight[r] # NoTask => Req[inflight[r]] = r
    /\ \A t \in Deferred : inflight[Req[t]] = NoTask
    /\ \A d, e \in Decodes : \A i \in DOMAIN deferred[d], j \in DOMAIN deferred[e] :
          Req[deferred[d][i]] = Req[deferred[e][j]] => d = e /\ i = j

\* is_drained: no bytes in flight and every queue empty.
is_drained ==
    /\ \A d \in Decodes : dstBytes[d] = 0
    /\ \A d \in Decodes : deferred[d] = <<>>

\* "Return true when no transfer is active or deferred" (is_drained).
DrainedMeansIdle == is_drained => Inflight = {} /\ Deferred = {}

\* The endpoints of a task are governable and its destination reports a fresh,
\* uncongested sample.
Open(t) ==
    /\ Dst[t] \in governable /\ Src[t] \in governable
    /\ Fresh(Dst[t]) /\ kvUsage[Dst[t]].ratio < HighWatermark

\* tick never strands a queue: once its endpoints stay open, a deferred task
\* does not wait forever, whatever the other destinations do.
DeferredDrains ==
    \A t \in Tasks : <>[]Open(t) => [](t \in Deferred => <>(t \notin Deferred))

=============================================================================
