# TLA+ models of prism-serve

prism-serve is the gateway and control plane of a disaggregated LLM serving
system: prefill workers compute the KV cache of a prompt, the cache is
transferred to a decode worker, and the decode worker generates tokens. The
gateway is one asyncio process. Its coroutines interleave only at `await`, it
talks to the workers over HTTP RPC (answers may be lost) and over NATS
(at-most-once), and it must never hand a decode slot or KV block to a second
request while the first may still write there. A command line controller,
`pd_worldctl.py`, starts the first worker world and replaces it as a whole. These
are the subjects of the models.

## Inventory

| Part | State | Operations | What is hard |
|---|---|---|---|
| `scheduler/scheduler.py` PDScheduler | prefill load, free slots, slot leases, epochs, quarantine | pick, reserve, adopt, commit, release, quarantine, reconcile, restore | late calls of an old epoch; counters clamped with min/max that hide double releases |
| `scheduler/transfer_governor.py` | byte counters, in-flight tasks, deferred queues, KV samples | submit, flush, complete, cancel, sample updates | stale callbacks, failing dispatch inside a flush, oversized and empty transfers |
| `scheduler/main_loop.py` + `sequence_state.py` | tracker, cleanup tasks | ten phases per tick, canonical cleanup | timeouts racing completions, lost messages, exceptions that end the loop |
| `router/network_rpc.py` | endpoint refs, transfer tasks, NCCL gate, cleanup plans | prepare, transfer, commit, cleanup, prefix operations, owner takeover | ambiguous RPCs, a task running during cleanup, a poisoned gate |
| `router/coordinator.py`, `loader.py` | prefix loads, recovery tasks | start, load, clean up, recover | three tasks cleaning up one operation |
| `router/prefix_index.py`, `reconciler.py` | index, cursors, world publication | report, peek, apply, acknowledge, rebuild | gaps, lost acknowledgements, restarted workers |
| `gateway/output.py` | cumulative output per request | apply, wait, fail, evict | lost and repeated events, cursors, eviction |
| `scheduler/resource_release.py` | cleanup plans and snapshots | finalize, replace | partial finalization, slot released last |
| `scheduler/replacement_store.py` | durable records and seals | persist, seal, load | crash between two commits, unsynced renames, retention |
| `router/worker_registry.py`, `gateway/topology_admin.py` | members, signals, acceptance ledger | refresh, stage, commit, roll back | two-phase acceptance with lost answers |
| `gateway/app.py` | admission gates, tasks, replacement | chat, bootstrap, refresh, accept, shut down | replacement racing requests, crashes half way |
| `scripts/pd_worldctl.py` | run-state file, journal, startup permit, Helm release | restart, initialize, resume | a crash between any two remote calls, other operators |

`PROJECT.json` lists every part with what is modelled of it, and every hazard
with the line where it bites and the properties that would catch it.

## Modules

| Module | Models | Extends |
|---|---|---|
| `TransferGovernor` | the governor | |
| `PDScheduler` | state and methods of the scheduler, without callers | |
| `SlotClients` | the protocol in which callers may use the scheduler | PDScheduler |
| `NetworkLoop` | the schedule loop, the network control plane and the workers, for normal requests | PDScheduler |
| `AffinityLoad` | requests whose prefix is cached: load task, recovery task, loop and workers | PDScheduler |
| `NetworkSlots`, `AffinitySlots` | the mappings under which those two implement SlotClients | NetworkLoop, AffinityLoad |
| `PrefixDirectory` | the index of cached prefixes and the task that follows the workers' event logs | |
| `OutputBuffer` | the gateway's output buffer, the HTTP handlers and the loop phases that use it | |
| `ReplacementStore` | the durable store of release decisions, its file system steps, crashes and restarts; implements DecisionLog | |
| `DecisionLog` | what that store promises: an atomic log | |
| `OwnerTakeover` | how a gateway becomes the owner of all workers | |
| `TopologyAcceptance` | boot, admission, refresh sweep and the acceptance of a replaced world by the gateway | OwnerTakeover |
| `HelmRelease` | one `helm upgrade` of the controller and its reconciliation | |
| `WorldCluster` | StatefulSets, Pods, nodes, watch history, startup permit (external) | |
| `TerminationWatch` | what one Pod event proves, as pure operators | |
| `WorldRestart` | `pd-worldctl restart`, in its three modes | WorldCluster, HelmRelease, TerminationWatch |
| `WorldInit` | `pd-worldctl initialize`, several operators at once | HelmRelease |
| `...Proofs` | the theorems of a module | that module |
| `MC...` | the instance TLC checks | that module |

### TransferGovernor

One action per public method. `_flush_deferred` is a loop that dispatches from
the head of a queue; it is unrolled into forced steps, and no other action can
run while a flush is in progress, because the code does not await there. A
dispatch may raise; the exception ends the flush. Tasks are objects with
identity: a request may be submitted again under a new task while the callback
of the old one is still outstanding. Sizes are constants per task, so that the
sum of a set of tasks is a constant function `SizeSum` constrained by
assumptions, which lets the ledger be proved for all sizes.

The model follows the code where the repository's README says something else: it
calls the cap "per-dst" and the queue "FIFO" (`src/README.md:29`), while `can_send`
caps the bytes of a pair and `submit` dispatches at once when it may, past tasks
that wait. A task of zero bytes (the default of `kv_size_bytes`) is invisible to
`is_drained`; the instances have positive sizes, and the theorem about draining
assumes them.

### PDScheduler, SlotClients

`PDScheduler` has one action per method, taken from the branch in which the
call has an effect. `SlotClients` adds who owns a slot: a `ticket` (the
decode_instance and decode_instance_epoch fields of a request that picked a
slot) or a lease. It states what callers must respect for the counters to be
exact: a slot is finished once, adopted under its epoch, an instance with live
leases is not rebuilt (leases carry no epoch), and a rebuilt instance gets an
epoch that no outstanding ticket carries.

### NetworkLoop

`pc` is the position of the loop. At `boot`, `pick`, `adopt`, `rollback` and
`fence` the loop is between two calls of one synchronous section, and nothing
else moves; at `prepare`, `publish`, `retry`, `cleanup` and `query` it awaits,
and transfer tasks, HTTP handlers and workers interleave. The phases of a tick
may start in any order, timeouts fire at any time, and any message may be lost,
which contains the code's tick order. `remote` is what the workers know, and is
external: a prepare or a commit whose answer was lost may still arrive. A worker
operation ends `done` or, after an abort, `fenced`; the gateway learns of it
only from a status query.

One await is easy to overlook: `_join_canonical_cleanup` creates a task, so
between the decision to clean up and its first statement a completion callback
may run. `cleanup` is therefore an await of the model.

`ticketOf` (in `NetworkSlots`) maps the loop to `SlotClients`: the slot between pick
and adoption is a ticket. Every step of the loop is a step of that protocol or
leaves the scheduler alone; the run `network` checks it and `NetworkLoopProofs`
proves it.

### AffinityLoad

A request whose prefix is cached does not pick a slot but reserves one, under a
fresh operation id. Three kinds of task then work on that operation and
interleave at every await: the load task (`run[o]`), the recovery task that takes
its place when a cleanup ran into its watchdog (also `run[o]`, with `why`
"recover"), and the schedule loop (`run[Loop]`), which cleans up timed out and
finished requests. A cleanup is a pass `begin`, `query`, `final`, `done`; a pass
that raises is retried (`retry`) until the watchdog. Two passes over one
operation meet in `ReleasedMeanwhile`: `cleanup_prefix_context` and
`cleanup_request` release under different cleanup ids, and the second one raises.

`remote[o][k]` is the worker operation of command `k`: `none`, `sent`, `run`,
`done` (terminal, resources held), `free`. It leaves `none` when the command may
have been sent, which is when the code marks its ref as attempted. A cleanup
fences and queries exactly the attempted refs, finalizes them one by one in any
order, and releases the slot last. The choice of the router (`router.py`, which
only reads) is any instance with a free slot and any mode.

### PrefixDirectory

The workers (external) number the changes of their caches and keep the last
`LogCap` unacknowledged ones; `past` remembers what each incarnation held after
each change, so that `IndexFaithful` can compare. `rc` is the position of the
reconciler: it reads all reports of a world concurrently (`world`, `got`), or one
(`report`), or peeks, applies and acknowledges a batch. `index`, `forward` and
`last` are the three maps of `PrefixIndex`, kept apart as in the code, because
`remove_instance` finds its owners in `_forward` only. With more than one
instance every failure clears the whole directory; with one, only the instance.

### OutputBuffer

Worker messages and query answers carry the whole output so far. They may be lost,
repeated and overtaken; an answer is what the worker had at some moment since the
query was sent. A handler alternates between sending and `wait_next`, whose timeout
leads to a query or, if the request is gone, to a failed stream. A handler inside
`wait_next` keeps the `OutputState` object it waits on when that is evicted
(`held`). `apply_cumulative`, `fail` and `mark_resource_free` are atomic: the lock of
a stream is never held across an await other than the wait itself. The loop awaits in
an output query and in a canonical cleanup; `KvDone` and the handlers run meanwhile.

A message whose `output_seq_no` is not the number of its tokens, or whose tokens
change what was committed, is rejected (`Rejects`). For a progress message that is
harmless. For a `decode_done` the loop applies an empty terminal error instead, which
a stream that already has tokens ignores as old output; the request is FINISHED all
the same, and `mark_resource_free` then raises in the loop. `LoopSurvives` therefore
names the two causes by which the loop dies: such a garbled `decode_done`, and a
request id that another call has used. `Workloads` has calls with ids of their own,
as when the gateway generates them, and two calls that chose the same one.

### ReplacementStore, DecisionLog

The store rewrites one file per commit: temp file, fsync, rename, directory
fsync. `mem` is the process's copy, `file` what the operating system shows,
`durable` what a power loss leaves. A commit is the record `job`; the process may
crash, the machine may lose power and a write may fail at each of its steps, and
`seal_run` is two commits in a row. A new process loads the file, validates it and
finishes an interrupted seal. `acked` remembers what callers were told is stored,
and `loss` whether a power loss took back a rename: that of the commit in
progress ("pending"), or one that a later process had adopted without syncing it
("stored"). Digests are injective, and the list of seals is a set, since sequence
numbers have no gaps.

`DecisionLog` is the view of the callers: a run is decided in batches and sealed
in one step. Under the refinement mapping a run with a seal in the file is closed,
whether or not its records are still there. A power loss that takes a rename back
ends the promise (`intact`).

### OwnerTakeover, TopologyAcceptance

Run k of the controller replaces generation k - 1 of the workers by generation k.
The gateway's part is one transaction of many awaits: stop the mutators of the old
world and take a snapshot, take over the workers, pull their reports, persist a
release record per old lease, release the leases, rebuild the prefix world, commit
the ledger, publish, seal. `acc` is its position. It may fail or be cut by a crash
of the gateway anywhere; the controller posts again, and the gateway finds the run
staged, committed, unsealed, sealed, or unknown to a process that has just booted
(`PostStage`, `PostUnsealed`, `PostSealed`, `PostCold`). The refresh sweep, which
opens and closes admission, and the request handlers interleave with it.

`OwnerTakeover` is `activate_replacement_owner`, one call to one worker per
action: status, identity, list, sweep, finalize, relist, retire-all, activate-all,
confirm. The takeover binds itself to the worker epoch it read, and refuses reports,
queries and acknowledgements of another one (`Bound`, `TkOtherEpoch`). A gateway that
boots uses the same steps. Three owners suffice for the gateway in
charge, one that dies half way and one that follows.

The store is the atomic log of `DecisionLog`, the controller the part of
`WorldRestart` that the gateway sees. `mishap` marks an activation of a dead
gateway that is delivered late: workers then name two owners, every takeover is
refused, and an operator must act.

### HelmRelease, WorldCluster, TerminationWatch, WorldRestart, WorldInit

`WorldRestart` is one controller: a sequential program whose steps are separated at
remote calls and durable writes. `st` is the run-state file, `pc` the position of
the invocation, `mode` the command (plain, with an injected crash, or by the
watchdog). A loop over the members keeps those it has still to visit in `todo` and
takes them in the order of `MEMBERS` (`Order`), the scale-down the victim first. A
crash or an error ends the invocation, and the operator invokes it
again: it resumes from the file. Meanwhile containers exit and are restarted, Pods
are deleted, a node is lost, another operator upgrades the release, and answers of
Kubernetes and Helm are lost. `TerminationWatch` translates the rules by which a
sequence of Pod events becomes a proof that a captured process has ended. The
observer looks at the node (`CheckNode`) and only then takes an event from its queue
(`Consume`), two steps as in the code. A Pod that is force-deleted between the two
gives a DELETED event that is accepted although the node is lost by then; `gap`
remembers the members it happened to, and `NoOverlap` excepts for them a container
that the kubelet had restarted after the captured one (`orphan` says which container
outlived its Pod). The captured container itself is known to have ended in any case.

One `helm upgrade` is a call whose outcome is read back from the history
(`HelmRelease`). A command may write nothing, or leave its revision pending, failed or
deployed; manifests of one that did not finish may or may not have been applied. The
upgrade of another operator is pending first (`ForeignBegin`), and then ends failed or
deployed (`ForeignEnd`) or stays pending; it changes a value of its own or asks for
the very values the controller asks for, and while it is pending Helm refuses the
controller's command (`HelmRefused`). The code tells revisions apart by number, status
and values, so what it deletes before its retry need not be its own:
`AskedRevisionOnly` says that it is unfinished and has exactly the values the retry
will write.

`WorldInit` has several initializers, each with a file of its own, and one record in
the topology ConfigMap that is moved forward by patches with preconditions. A patch
and the read that follows it are two steps. The Helm command may fail, and so may its
one retry, whose unfinished revision nobody deletes: every later invocation refuses
the release.

A `mishap` of these models is an event after which the code asks for an operator: a
Pod that is evicted or forcibly deleted, an exit that no event reports, watch
history that expired, a container found dead at the capture, another operator's
upgrade in the middle of a run, a controller that dies inside `helm`; in a run with
a fault stage also any exit, lost node, crash at CAPTURED or lost answer that the
stage does not wait for; in `WorldInit` a retry of Helm that leaves an unfinished
revision, a Pod replaced under a published permit, a deleted ConfigMap and the changes
of others. The liveness properties hold up to
mishaps; the safety properties do not except them, but for the gap of `NoOverlap`.

## Runs

| Run | Instance | Distinct states | Shows |
|---|---|---|---|
| `governor` | 1 prefill, 2 decodes, 3 tasks of 2 requests, cap 3 | 86,672 | exact byte ledger, pair cap, `DeferredDrains` |
| `slots` | 1 prefill, 2 decodes, 2 operations, 1 or 2 slots, 2 epochs | 122,672 | slot conservation |
| `network` | 1 prefill, 1 decode with 2 slots, 2 requests, 2 attempts, refused prepares, reused ids | 97,499 | four safety properties, the refinement of SlotClients, `RequestsEnd` |
| `network_dies` | as above, without reused ids | | a disagreement with the code's comments |
| `affinity` | 1 request, 2 operation ids, 1 slot | 65,796 | no writer after release, blocks cover work, the refinement of SlotClients, `PrefixEnds`, `LoadsSettle` |
| `directory` | 2 workers, one of which restarts, 1 key, 2 blocks, logs and batches of 2, 3 changes | 92,004 | faithful index, ready means whole, no event lost, `DirectoryCatchesUp` |
| `output` | 2 calls with up to 2 and 0 tokens, or with 1 each and one id, 1 active and 1 evictable state | 177,076 | faithful streams, what the loop survives, `StreamsEnd` |
| `store` | 2 runs, 4 records with a shared key and a shared lease, 2 decisions, retention 1, 2 seals, power loss | 347,462 | acknowledged decisions stay, every file loads, fail closed, the store implements the log |
| `world_restart` | 2 members, 3 containers per Pod, all modes | 408,347 | no overlap, exclusive permit, accepted world, forward only, only revisions asked for are deleted, `Completes` |
| `world_init` | 2 operators, 2 members, 2 faults | 241,962 | acceptance stands and binds the claim, `InitCompletes` |
| `acceptance` | 2 workers, 1 request, 3 owners, generations 1 and 2, 1 crash, 1 fault | 142,422 | complete admission, durable release, one owner, freed after writers, `ReplacementCompletes` |
| `acceptance_orphan` | as above | | a disagreement with the code's comments |

Every property has a mutant: a version of one definition that changes it as a
plausible bug would, under which TLC finds the property violated. They stand before
the definition they vary, under a comment that begins with "Mutant".

Bounds. Three tasks give an oversized transfer, a low priority one and two tasks of
one request. Two epochs suffice for a stale one and a current one. Two requests
suffice for a race between one request's cleanup and another's transfer; in `affinity`
the two loads of one request race, since the first may leave tasks behind when it
falls back. `MaxAttempts = 2` has a first dispatch, a retry and a give-up. `Loads`
bounds the protocol's prefill load in the run `slots`; the theorems and the
refinements have any natural number. Two seals are one more than the retention, so a
seal is retired and its run id can come back. Three changes overflow a log of two.
With one active and one evictable state, two calls suffice for a refusal, an eviction
under a waiting handler and a state that a handler creates again; that its `ensure`
finds the buffer full takes a third call and is outside of this instance. One crash
and one fault per behaviour fall between any two calls of an acceptance; of the two
faults of `world_restart` and of `world_init` at most one is a mishap (`OneMishap`; the
theorems have any number). Larger instances were checked by hand: `store` with 3 seals
(948,822), `acceptance` from the first generation (553,760), with two requests (917,927)
and with two faults (639,033, and 1.63 million with crashes counted separately), the
safety properties of `affinity` with two requests and two slots (6,990,193), `directory`
with four changes or with two mortal workers (about 300,000 each).

Fairness.

* `governor`: ticks recur, callbacks of dispatched transfers arrive or the
  stuck-transfer check cancels them. Submissions are finitely many, since new ones
  may overtake the queue for ever.
* `network`: the loop keeps ticking and what stays due is visited, a free slot is
  found, coroutines run while the loop sleeps, and aborts and status queries do not
  fail for ever. Nothing is assumed of the workers' results, which may all be lost.
  Fairness is strong where an action is disabled while the loop is inside a
  synchronous section. `RequestsEnd` holds as long as the loop lives.
* `affinity`: the same, per task.
* `directory`: the task runs, and calls to one worker, or the n-th report of a
  world, are answered if they are tried again and again.
* `output`: handlers run, awaits of the loop end, every request finishes or times
  out, and its cleanup does not fail for ever.
* `world_restart`, `world_init`: an invocation goes on, one that ended is invoked
  again, and Kubernetes carries out what it was told.
* `acceptance`: the tasks of the gateway run, the kubelet starts it again, and the
  controller asks until it is answered. Nothing is assumed of the client that sends
  the body of a request.

## What the violations show

* `network_dies`: a worker that refuses a prepare (any HTTP error) ends the
  schedule loop one tick later. The rolled back lease stays in `_slot_leases`,
  and `adopt_picked_decode_slot` raises for an operation id that has one.
* `acceptance_orphan`: a request that passed the admission gate and awaits its body
  enters the old tracker after the replacement took its snapshot; no loop serves it
  and nothing fails it.

Other behaviours of the models that a maintainer should know of, none of which a
property hides:

* `_canonical_cleanup` gives the prefill load back whether or not the request still
  holds it, so the load of an instance may be counted too low.
* A store that starts on a file whose rename was never synced answers from it, and
  a power loss may still take the decision back (`loss = "stored"`).
* A handler that times out on a removed request sends the whole snapshot instead of
  what follows its cursor: the client gets its tokens again, then the error.
* A client may choose `request_id`. If it repeats one whose output is still in the
  buffer, it gets the old output, and if its own differs it is rejected as a changed
  prefix, the request is FINISHED with an open stream, and `mark_resource_free`
  ends the schedule loop. Canonical cleanup removes a request without ending its
  stream; only the handler does that, so the state of a client that has left stays
  active for ever.
* A load task whose cleanup returns QUARANTINED, or that failed with something else
  than `PrefixLoadError` or a timeout, ends without a recovery task: the request
  stays AFFINITY_LOADING and its slot quarantined (`LoadsSettle` says just this). A
  recovery task whose operation another cleanup has released raises in every pass
  and never ends.
* With two or more instances a restarted worker is never reconciled: `rebuild_world`
  insists on the epochs the world was accepted with, so the directory stays closed
  until a new world is accepted.
* A watchdog restart that crashes after it recorded `whole_world_scale_down_started` and
  before TERMINATED records the event again and raises from then on.

## Proofs

`TransferGovernorProofs` proves for all tasks, sizes, caps and instances that
the counters are exact, the pair cap holds, no request has two entries, and
(for positive sizes) a drained governor is idle. The inductive invariant
`LedgerInv` is the type invariant, the exact counters, the pair cap and the
single entry per request together: a flush moves an entry from a queue to the
ledger, and the sums follow only if that request has no other entry.

`SlotClientsProofs` proves slot conservation, the quarantine fence and unique
ownership for all instances, operations, epochs and capacities. The inductive
invariant `SlotInv` is the type invariant, conservation, the fence and unique
ownership together: conservation alone is not inductive, because a step that
turns a ticket into a lease keeps the number of owners only if no operation has
both. The proofs assume that roles are disjoint, capacities positive, `Ops`
finite, and that the null values are not ordinary values. `NetworkLoop` and
`AffinityLoad` are proved to implement `SlotClients`, so these results are about
their slots as well.

`ReplacementStoreProofs` proves, for any runs, records, capacity and retention,
that every file that a crash, a power loss or a failed write leaves is accepted by
the next start, that the store answers only while memory and file agree, that
acknowledged decisions stay (`AckedKept`, with its one exception), and that the
store implements `DecisionLog` until a power loss takes a rename back. The
inductive invariant `StoreInv` says that a commit in progress is one of three pure
steps from the file to its target (add a batch, add a seal, drop a sealed segment),
so that everything reduces to lemmas about those steps. `Good` strengthens the
validation of `_load` by the window of sequence numbers from which the bound on
retained seals follows; `KeptInv` adds that the durable content keeps what the file
keeps, but for the commit in progress. The assumptions are positive capacity and
retention, finitely many records, and null values that are not ordinary ones.

`WorldInitProofs` proves two things for any number of operators, members and faults.
The accepting patch is made only by the run that claimed, under its own permit
(`AcceptBindsClaim`): `ClaimInv` says what a run carries from one check to the next,
and the preconditions of the patch turn it into a statement about the ConfigMap. And
an accepted run stays accepted (`AcceptedStands`): `StandsInv` says that as long as no
run is bound to a deleted ConfigMap, every permit in the history of the release is
that of the ConfigMap, that deployed values with a permit have been rendered, that a
pending revision, which somebody's command may still deploy, keeps the deployed permit
(`Pending`), and that a Helm call that ends well has left its permit deployed. It needs
in addition that only the latest revision is pending (`History`), and that a uid and a
resourceVersion name one content of the ConfigMap (`Versions`), so that a patch which is
applied changes exactly what the run has read. The assumption
`InitAssumption` says that every run may call Helm and that none is called "none".

`TopologyAcceptanceProofs` proves all four safety properties of the acceptance, for
any workers, requests, generations, owners, crashes and faults.

* `AdmissionComplete` from `AdmissionInv`, which relates the position of the
  acceptance to the flag that marks it and to what has been published so far: the
  property alone is not inductive, because the sweep that opens the gate looks
  neither at the loop nor at the ledger.
* `OneOwner` (up to an activation of a dead gateway that is delivered late) from
  `OwnerInv`, phase by phase: up to the retirement a worker has no
  owner, the new one or the one the takeover read, after it only none or the new
  one, and the workers that were visited in a phase have what the phase establishes.
  `Generations` says that a takeover is of the world the workers run.
* `FreedAfterWriters`, an action property, from `Stopped`: past the sweep every
  operation of the epoch the takeover has read is terminal. Without the binding to
  the epoch this is false of a worker that restarted half way.
* `ReleaseDurable` from `RelInv`: seals are in the order of their runs, so the one
  that retention drops is the oldest, and a lease that was released for the open run
  has its record there.

The assumptions are in `RestartAssumption`; retention is positive because
`replacement_store.py:123` refuses another value.

`NetworkLoopProofs` proves the four safety properties of the loop and that it
implements `SlotClients`, for any requests, instances, slots and attempts. `LoopInv`
has the types, what the position of the loop says about the request it visits
(`Position`), who owns the slot of a request in each of its states and that a
released one has nothing running anywhere (`Owned`), what the ledger and the transfer
task know of it (`Ledger`), and `OnePairOnWire`. None of the properties is inductive
without the others: that a fence finds no writer depends on the credits, and these on
which transfer has the sequencer. The refinement takes `ticketOf` as the mapping and
`Booted`, that nothing is leased before the world is registered, as its invariant.

`AffinityLoadProofs` proves that a slot is reused only when nothing can write to it,
that blocks outlive the work on them, and that loads, recovery tasks and loop
implement `SlotClients`. `PassInv` says that what the queries of a pass have found
stands until it releases, whichever task runs the pass (`Proven`), and that neither
the loop nor a promoted request meets an operation that is still loading (`Apart`);
`BlocksInv` says which commands a load has sent at which step, so that a copy has its
source pinned and its target allocated.

`WorldRestartProofs` proves the five safety properties of the whole-world restart,
for any members, any numbers of faults, mishaps, containers and journal entries, and
all modes. The argument has three layers.

* `PodsInv` is about the cluster alone: a uid is never used again, a container
  outlives its Pod only on a lost node, and a DELETED event tells of a Pod that is
  gone for good.
* `RunInv` is about one run: whatever an invocation has in hand, in the journal or in
  the checkpoint as a termination proof is true (`MatchesFrozen`, `Returns`, the check
  of the node), and stays true because a Pod that is gone stays gone. What a proof
  says is `Gone`: the captured container has ended, its Pod no longer exists, and no
  later container of it runs on a lost node, the last only up to `gap`. `Passing`
  carries the check of the node to the event that is taken after it. `RunForward`
  needs the invariant for the resumption, which merges journal and checkpoint.
* `ReleaseInv` is about the Helm release, which other operators write too: exactly one
  revision is deployed, the new generation is in it only with every proof, its permit
  only when no other Pod is left, and a call that ends well has left its values
  deployed. A call remembers the revision it saw, so the invariant has one clause for
  each point of a call. `Awaited` says that a pending upgrade of another operator keeps
  what the run has settled, and `Asked` that the revision a call found unfinished has
  the values it asked for.

`NoOverlap`, `PermitExclusive` and `AcceptedWorld` are consequences of the three
together; `RunForward` and `AskedRevisionOnly` are action properties under them. The
assumptions are those of `RestartAssumption`: the controller is one of the callers of
Helm, the new generation differs from the old one (`WorldRestartGuard`,
`pd_worldctl.py:4928`), and the member to fail is one of the members (the choices of
the command line).

Only model-checked:

* all liveness, and with it everything that rests on fairness or ENABLED, which the
  prover does not support;
* the safety properties of `OutputBuffer` and `PrefixDirectory`. `IndexFaithful` rests
  on what `FoldLeft` makes of every batch of events, and that takes an induction over
  data, for which the prover has no usable rule. Proofs of `ReadyIsWhole`,
  `NoEventLost`, `StreamFaithful` and `LoopSurvives` have not been attempted;
* what a RECURSIVE operator computes.

## Not modelled

* The loop for clients without network control, with its own cleanup evidence,
  recompute and instance quarantine, and the prefix cleanup of `loader.py` that
  belongs to it: a second control plane that a deployment under network control never
  runs. Its slot calls are actions of `SlotClients`.
* Shutdown of the gateway. One of its hazards is listed: it runs the canonical
  cleanup of WAITING requests, for which `cleanup_request` raises.
* `http_rpc.py` and `protocol.py`: the encoding of calls. Their outcomes (success,
  refusal, ambiguous) are the branches of the RPC actions.
* `worker_registry.py`: the schema of a report; `router/topology.py`, `router.py`:
  reads and arithmetic on costs, abstracted to an arbitrary choice.
* `pd_worldctl.py`: argument parsing, rendering of templates, diagnostics, the
  evidence files it writes for a reader, the journal of injection attempts.
* `gateway/termination_authority.py`, `process_identity.py`: inspection of host
  processes without state of their own.
* Harnesses, benchmark, metrics, configuration, tokenizer, fingerprints: no
  scheduling state.
