------------------------- MODULE TopologyAcceptance -------------------------
(***************************************************************************)
(* The gateway's side of a whole-world restart (gateway/app.py,            *)
(* gateway/topology_admin.py, router/worker_registry.py): how it boots,    *)
(* how it keeps admission tied to the worker world, and how it accepts the *)
(* world that the controller started in place of the old one, in one       *)
(* transaction that a lost answer, a failed call or a crash of the gateway *)
(* may cut anywhere and that the controller then asks for again.           *)
(*                                                                         *)
(* Run k replaces generation k - 1 by generation k.  A registry object is  *)
(* named by its generation: two registries of one generation never live at *)
(* the same time outside of a failed attempt.  The gateway runs one thread *)
(* and every action runs from one await to the next; the acceptance, the   *)
(* refresh sweep, the request handlers and the schedule loop interleave    *)
(* only there.  The store is the atomic log that ReplacementStore          *)
(* implements, the controller the part of WorldRestart that is seen here,  *)
(* and the loop the part of NetworkLoop that takes and returns a lease.    *)
(***************************************************************************)
EXTENDS OwnerTakeover

CONSTANTS
    Reqs,        \* chat requests
    FirstGen,    \* the generation in charge at the beginning
    MaxGen,      \* the last generation
    Retention,   \* seal_retention of the store
    MaxCrashes,  \* bound on crashes of the gateway
    MaxFaults,   \* bound on failed calls, lost answers and late messages
    NoRun

ASSUME RestartAssumption ==
    /\ FirstGen \in Nat /\ MaxGen \in Nat
    /\ Retention \in Nat \ {0}
    /\ NoRun \notin Nat

VARIABLES
    affinity,   \* affinity_enabled
    gw,         \* app.state of the gateway process
    fresh,      \* world_fresh of the registry of each generation
    acc,        \* the topology acceptance task
    sweep,      \* the registry the refresh sweep has in hand
    rq, lease,  \* the requests, and their decode slots
    store,      \* the replacement store
    mount,      \* the topology artifact the gateway boots from
    ctl,        \* the controller
    faults,
    mishap      \* a message of a dead gateway took effect

gatewayVars == <<gw, fresh, acc, sweep, rq, lease>>

vars == <<world, down, owner, op, tk, affinity, gw, fresh, acc, sweep, rq, lease,
          store, mount, ctl, faults, mishap>>

Gens == 0 .. MaxGen

Runs == 1 .. MaxGen

Idle == [at |-> "idle", run |-> NoRun, frozen |-> {}, replacing |-> FALSE]

Absent == [at |-> "new", trk |-> 0]

Dead == [st |-> "down", id |-> NoOwner, reg |-> 0, led |-> 0, runs |-> {},
         need |-> FALSE, pend |-> 0, open |-> FALSE, rpc |-> FALSE,
         loop |-> "none", failed |-> FALSE, rec |-> FALSE, pub |-> 0]

Init ==
    /\ world = FirstGen /\ down = FALSE
    /\ owner = [w \in Workers |-> NoOwner]
    /\ op = [w \in Workers |-> "none"]
    /\ tk = Off
    /\ affinity \in BOOLEAN
    /\ gw = Dead
    /\ fresh = [g \in Gens |-> "stale"]
    /\ acc = Idle /\ sweep = NoRun
    /\ rq = [r \in Reqs |-> Absent]
    /\ lease = [r \in Reqs |-> "none"]
    /\ store = [open |-> NoRun, recs |-> {}, fatal |-> FALSE,
                seals |-> IF FirstGen = 0 THEN <<>>
                          ELSE <<[run |-> FirstGen, root |-> {}]>>]
    /\ mount = [gen |-> FirstGen, acc |-> FirstGen]
    /\ ctl = [at |-> "steady", run |-> FirstGen, ops |-> {}]
    /\ faults = [call |-> 0, crash |-> 0] /\ mishap = FALSE

-----------------------------------------------------------------------------
\* The admission gates

\* _replacement_store_allows_admission
StoreAllows == ~store.fatal /\ store.open = NoRun

\* _prefix_world_allows_admission
PrefixAllows(g) == affinity => g.rec /\ g.pub = g.reg

\* _background_control_plane_tasks_healthy
Background(g) == ~g.failed /\ (affinity => g.rec)

\* healthz: as above, but a reconciler that the acceptance is replacing may be
\* stopped.
Healthy ==
    /\ ~gw.failed
    /\ affinity => gw.rec \/ (gw.need /\ acc.replacing)

\* The conjunction that the refresh sweep and the boot compute from a registry.
Admits(g, f) ==
    /\ f = "fresh" /\ StoreAllows /\ ~g.need
    /\ PrefixAllows(g) /\ Background(g)

\* A lease that replacement_decode_leases returns.
Live(r) == lease[r] \in {"active", "quarantined"}

\* The scheduler holds no slot: what a seal and a cold recovery ask for.
NoLiveLease == \A r \in Reqs : ~Live(r)

Tracked == {r \in Reqs : rq[r].at = "in" /\ rq[r].trk = gw.reg}

Fault == faults.call < MaxFaults /\ faults' = [faults EXCEPT !.call = @ + 1]

NoFault == UNCHANGED faults

\* A call to the workers fails: they are down, or it is bad luck.
CallFails == IF down THEN NoFault ELSE Fault

\* The workers of generation g answer.
Answers(g) == ~down /\ world = g

-----------------------------------------------------------------------------
\* Boot, crash and supervision of the gateway

\* lifespan up to the owner takeover: the store is loaded, the artifact read, one
\* complete round of identities, capabilities and reports pulled.  A round that
\* fails is repeated, or the process exits and is started again.
Boot ==
    /\ gw.st = "down"
    /\ Answers(mount.gen)
    /\ \E o \in Owners :
          /\ \A w \in Workers : owner[w] # o
          /\ \A p \in Owners : p < o => \E w \in Workers : owner[w] = p
          /\ gw' = [Dead EXCEPT !.st = "boot", !.id = o, !.reg = mount.gen,
                                !.need = mount.acc # mount.gen, !.rpc = TRUE,
                                !.pend = IF mount.acc # mount.gen THEN mount.gen ELSE 0]
          /\ tk' = Preflight(o)
    /\ UNCHANGED <<workerVars, affinity, fresh, acc, sweep, rq, lease, store, mount,
                   ctl, faults, mishap>>

\* The rest of lifespan: reports after the takeover, the prefix world, the loop,
\* the refresh task, and the first value of accepting.
BootReady ==
    /\ gw.st = "boot" /\ tk.at = "done"
    /\ Answers(gw.reg)
    /\ LET up == [gw EXCEPT !.st = "up", !.led = gw.reg, !.loop = "run",
                            !.rec = affinity, !.pub = gw.reg]
       IN  gw' = [up EXCEPT !.open = Admits(up, "fresh")]
    /\ fresh' = [fresh EXCEPT ![gw.reg] = "fresh"]
    /\ tk' = Off
    /\ UNCHANGED <<workerVars, affinity, acc, sweep, rq, lease, store, mount, ctl,
                   faults, mishap>>

\* The process is gone, and with it all requests, leases and tasks.
Die ==
    /\ gw' = Dead /\ acc' = Idle /\ sweep' = NoRun /\ tk' = Off
    /\ fresh' = [g \in Gens |-> "stale"]
    /\ rq' = [r \in Reqs |-> IF rq[r].at \in {"reading", "in"}
                             THEN [Absent EXCEPT !.at = "lost"] ELSE rq[r]]
    /\ lease' = [r \in Reqs |-> "none"]
    /\ store' = [store EXCEPT !.fatal = FALSE]
    /\ UNCHANGED <<workerVars, affinity, mount, ctl, mishap>>

\* The boot fails: the process exits.
BootFails ==
    /\ gw.st = "boot"
    /\ tk.at = "raised" \/ ~Answers(gw.reg)
    /\ Die
    /\ NoFault

\* _run_gateway_bootstrap_stage: a call that timed out, or an answer that was lost,
\* has the whole takeover repeated, under the same owner and the same fence.
BootRetries ==
    /\ gw.st = "boot" /\ tk.at \notin {"off", "done", "raised"}
    /\ Fault
    /\ tk' = TakeOver(gw.id, tk.fence)
    /\ UNCHANGED <<workerVars, affinity, gatewayVars, store, mount, ctl, mishap>>

Crash ==
    /\ gw.st # "down" /\ Die
    /\ faults.crash < MaxCrashes /\ faults' = [faults EXCEPT !.crash = @ + 1]

\* The liveness probe reads healthz and the gateway is restarted.
Probe == gw.st = "up" /\ ~Healthy /\ Die /\ NoFault

\* _on_control_plane_task_done: the schedule loop stops by itself.
LoopDies ==
    /\ gw.st = "up" /\ gw.loop = "run"
    /\ Fault
    /\ gw' = [gw EXCEPT !.loop = "dead", !.failed = TRUE, !.open = FALSE]
    /\ UNCHANGED <<takeoverVars, affinity, fresh, acc, sweep, rq, lease, store, mount,
                   ctl, mishap>>

-----------------------------------------------------------------------------
\* Requests

\* chat_completions passes the gate and waits for the body.
Gate(r) ==
    /\ gw.st = "up"
    /\ rq[r].at = "new"
    /\ gw.open /\ gw.rpc /\ fresh[gw.reg] = "fresh"
    /\ PrefixAllows(gw) /\ Background(gw)
    /\ rq' = [rq EXCEPT ![r].at = "reading"]
    /\ UNCHANGED <<takeoverVars, affinity, gw, fresh, acc, sweep, lease, store, mount,
                   ctl, faults, mishap>>

\* The body is there: the request enters app.state.tracker.
Body(r) ==
    /\ rq[r].at = "reading"
    /\ rq' = [rq EXCEPT ![r] = [at |-> "in", trk |-> gw.reg]]
    /\ UNCHANGED <<takeoverVars, affinity, gw, fresh, acc, sweep, lease, store, mount,
                   ctl, faults, mishap>>

\* The schedule loop gives a request the slot and dispatches it.
Serve(r) ==
    /\ gw.loop = "run" /\ r \in Tracked /\ lease[r] = "none"
    /\ Answers(gw.reg)
    /\ \A w \in Workers : owner[w] = gw.id /\ op[w] = "none"
    /\ lease' = [lease EXCEPT ![r] = "active"]
    /\ op' = [w \in Workers |-> "run"]
    /\ UNCHANGED <<world, down, owner, tk, affinity, gw, fresh, acc, sweep, rq, store,
                   mount, ctl, faults, mishap>>

\* It is complete, its resources are finalized and the slot is free.
Complete(r) ==
    /\ gw.loop = "run" /\ r \in Tracked /\ lease[r] = "active"
    /\ Answers(gw.reg)
    /\ lease' = [lease EXCEPT ![r] = "none"]
    /\ op' = [w \in Workers |-> "none"]
    /\ rq' = [rq EXCEPT ![r].at = "answered"]
    /\ UNCHANGED <<world, down, owner, tk, affinity, gw, fresh, acc, sweep, store,
                   mount, ctl, faults, mishap>>

-----------------------------------------------------------------------------
\* _refresh_worker_world_once

\* The sweep takes the registry of the moment; one that neither it nor an
\* acceptance refers to is gone.
SweepStart ==
    /\ gw.st = "up" /\ sweep = NoRun
    /\ sweep' = gw.reg
    /\ fresh' = [g \in Gens |-> IF g \in {gw.reg, acc.run} THEN fresh[g] ELSE "stale"]
    /\ UNCHANGED <<takeoverVars, affinity, gw, acc, rq, lease, store, mount, ctl,
                   faults, mishap>>

\* Mutant: accepting is what the swept registry says.
SweptFreshOnly(f, complete) ==
    gw' = [gw EXCEPT !.open = f = "fresh", !.rpc = complete /\ f = "fresh"]

\* The values it publishes without an await after the last answer.
Swept(f, complete) ==
    gw' = [gw EXCEPT !.open = Admits(gw, f), !.rpc = complete /\ f = "fresh"]

\* update_resource_report: a registry that has failed takes no report.
Reported(g) == [fresh EXCEPT ![g] = IF @ = "failed" THEN @ ELSE "fresh"]

\* Every worker answers for the registry in hand.
SweepOk ==
    /\ sweep # NoRun /\ Answers(sweep)
    /\ fresh' = Reported(sweep)
    /\ Swept(fresh'[sweep], TRUE)
    /\ sweep' = NoRun
    /\ UNCHANGED <<takeoverVars, affinity, acc, rq, lease, store, mount, ctl, faults,
                   mishap>>

\* A worker does not answer: what is known of it stays.
SweepIncomplete ==
    /\ sweep # NoRun
    /\ CallFails
    /\ Swept(fresh[sweep], FALSE)
    /\ sweep' = NoRun
    /\ UNCHANGED <<takeoverVars, affinity, fresh, acc, rq, lease, store, mount, ctl,
                   mishap>>

\* observe_identity: a member with another identity fails the registry for good.
Drifted(g) == [fresh EXCEPT ![g] = "failed"]

\* A worker answers with another identity.
SweepDrift ==
    /\ sweep # NoRun /\ ~down /\ world # sweep
    /\ fresh' = Drifted(sweep)
    /\ gw' = [gw EXCEPT !.open = FALSE, !.rpc = FALSE]
    /\ sweep' = NoRun
    /\ UNCHANGED <<takeoverVars, affinity, acc, rq, lease, store, mount, ctl, faults,
                   mishap>>

\* The reports of a world that no longer answers grow stale between two sweeps.
Lapse ==
    /\ fresh[gw.reg] = "fresh" /\ ~Answers(gw.reg)
    /\ fresh' = [fresh EXCEPT ![gw.reg] = "stale"]
    /\ UNCHANGED <<takeoverVars, affinity, gw, acc, sweep, rq, lease, store, mount, ctl,
                   faults, mishap>>

-----------------------------------------------------------------------------
\* topology_accept: one acceptance at a time

\* The exact run is sealed and the seal retained.
Sealed(run) == \E i \in DOMAIN store.seals : store.seals[i].run = run

\* Mutant: a pending acceptance of the same run is refused as well.
MayBeginOnce(run) == ~gw.need

\* _begin_topology_acceptance
MayBegin(run) == gw.need => gw.pend = run

Begun(run) == [gw EXCEPT !.need = TRUE, !.pend = run, !.open = FALSE]

\* The registry of the run is installed and is the one of the ledger.
Installed(run) == gw.reg = run /\ gw.led = run

Task(run, at) == [Idle EXCEPT !.at = at, !.run = run]

\* The controller asks (again), or a request of it arrives late.
Asked(run) ==
    /\ gw.st = "up" /\ acc.at = "idle"
    /\ \/ ctl.at = "posting" /\ run = ctl.run /\ NoFault
       \/ run < ctl.run /\ Fault
       \/ run = ctl.run /\ ctl.at \in {"accepted", "steady"} /\ Fault

\* A retained seal of the run: only its answer is to be repeated.
PostSealed(run) ==
    /\ Asked(run)
    /\ StoreAllows /\ Sealed(run) /\ gw.led = run
    /\ MayBegin(run)
    /\ gw' = Begun(run)
    /\ acc' = IF gw.reg = gw.led THEN Task(run, "sealed") ELSE Idle
    /\ UNCHANGED <<takeoverVars, affinity, fresh, sweep, rq, lease, store, mount, ctl,
                   mishap>>

\* validate_cold_recovery_base, and nothing of the old world in this process.
ColdBase(run) ==
    /\ store.seals # <<>> => store.seals[Len(store.seals)].run = run - 1
    /\ Tracked = {} /\ NoLiveLease

\* Nothing is known of the run: the gateway crashed before it wrote anything.
PostCold(run) ==
    /\ Asked(run)
    /\ StoreAllows /\ ~Sealed(run) /\ gw.runs = {} /\ Installed(run)
    /\ MayBegin(run)
    /\ gw' = Begun(run)
    /\ acc' = IF ColdBase(run) THEN Task(run, "cold") ELSE Idle
    /\ UNCHANGED <<takeoverVars, affinity, fresh, sweep, rq, lease, store, mount, ctl,
                   mishap>>

\* The run is durable and not sealed: the gateway crashed in between.
PostUnsealed(run) ==
    /\ Asked(run)
    /\ ~StoreAllows /\ Installed(run)
    /\ MayBegin(run)
    /\ gw' = Begun(run)
    /\ acc' = IF ~store.fatal /\ store.open = run THEN Task(run, "unsealed") ELSE Idle
    /\ UNCHANGED <<takeoverVars, affinity, fresh, sweep, rq, lease, store, mount, ctl,
                   mishap>>

\* ledger.stage: the evidence replaces the world in charge.
Stageable(run) == gw.led = run - 1

\* The evidence is staged; the old loop and the old network control are stopped
\* first.
PostStage(run) ==
    /\ Asked(run)
    /\ Stageable(run) /\ ~(StoreAllows /\ Sealed(run))
    /\ MayBegin(run)
    /\ gw' = [Begun(run) EXCEPT !.loop = IF @ = "run" THEN "stopped" ELSE @]
    /\ acc' = Task(run, "stop")
    /\ UNCHANGED <<takeoverVars, affinity, fresh, sweep, rq, lease, store, mount, ctl,
                   mishap>>

-----------------------------------------------------------------------------
\* The steps of an acceptance

\* It raises: the answer is an error, and what was done stays done.
AccEnds(g) == gw' = g /\ acc' = Idle

\* _pull_replacement_resource_reports succeeds for the registry of the run.
Pull(run) ==
    /\ Answers(run) /\ fresh[run] # "failed"
    /\ fresh' = Reported(run)

\* Frozen requests and leases that the evidence does not list.
Omitted == (Tracked \cup {r \in Reqs : Live(r)}) \ ctl.ops

\* _begin_expected_reconciler_replacement: a prefix reconciler that is already
\* stopped cannot be replaced.
Replaceable == affinity => gw.rec

\* All old tasks are stopped; the old world is frozen and compared with the
\* evidence.
AccFreeze ==
    /\ acc.at = "stop"
    /\ \/ /\ Replaceable /\ Omitted = {}
          /\ gw' = [gw EXCEPT !.rec = FALSE]
          /\ acc' = [acc EXCEPT !.at = "owner", !.frozen = Tracked,
                                !.replacing = affinity]
          /\ tk' = TakeOver(gw.id, Owners)
       \/ /\ Replaceable /\ Omitted # {}
          /\ AccEnds([gw EXCEPT !.rec = FALSE])
          /\ UNCHANGED tk
       \/ /\ ~Replaceable
          /\ AccEnds(gw)
          /\ UNCHANGED tk
    /\ UNCHANGED <<workerVars, affinity, fresh, sweep, rq, lease, store, mount, ctl,
                   faults, mishap>>

\* activate_replacement_owner returns or raises.
AccOwned ==
    /\ acc.at = "owner" /\ tk.at \in {"done", "raised"}
    /\ acc' = IF tk.at = "done" THEN [acc EXCEPT !.at = "pull"] ELSE Idle
    /\ tk' = Off
    /\ UNCHANGED <<workerVars, affinity, gw, fresh, sweep, rq, lease, store, mount, ctl,
                   faults, mishap>>

\* The new workers report; the frozen requests are failed and removed.
AccPull ==
    /\ acc.at = "pull"
    /\ Pull(acc.run)
    /\ rq' = [r \in Reqs |-> IF r \in acc.frozen THEN [rq[r] EXCEPT !.at = "answered"]
                             ELSE rq[r]]
    /\ acc' = [acc EXCEPT !.at = "persist"]
    /\ UNCHANGED <<takeoverVars, affinity, gw, sweep, lease, store, mount, ctl, faults,
                   mishap>>

\* The publication block, the new reconciler and the new loop.
Published(g, run) ==
    [g EXCEPT !.reg = run, !.pub = run, !.rec = affinity, !.loop = "run"]

\* persist_whole_world_replaced_batch: one record per frozen lease.
Recorded(run) ==
    [store EXCEPT !.open = run, !.recs = @ \cup {r \in Reqs : Live(r)}]

\* The frozen leases all move to one state.
LeasesTo(state) == [r \in Reqs |-> IF Live(r) THEN state ELSE lease[r]]

\* ledger.commit: the candidate is the world in charge and the run is known.
Committed(run) == [gw EXCEPT !.led = run, !.runs = @ \cup {run}]

\* The frozen leases are quarantined and their release recorded; the ledger
\* commits the candidate; the leases are released.  Without a prefix world to
\* rebuild the publication follows at once.
AccPersist ==
    /\ acc.at = "persist"
    /\ ~store.fatal /\ store.open \in {NoRun, acc.run}
    /\ store' = Recorded(acc.run)
    /\ lease' = LeasesTo("released")
    /\ gw' = IF affinity THEN Committed(acc.run)
             ELSE Published(Committed(acc.run), acc.run)
    /\ acc' = [acc EXCEPT !.at = IF affinity THEN "prefix" ELSE "final"]
    /\ UNCHANGED <<takeoverVars, affinity, fresh, sweep, rq, mount, ctl, faults, mishap>>

\* Mutant: the leases are given back although the record may be missing.
AccPersistFailsOpen ==
    /\ acc.at = "persist"
    /\ ~store.fatal /\ store.open \in {NoRun, acc.run}
    /\ Fault
    /\ \E s \in {store, Recorded(acc.run)} : store' = [s EXCEPT !.fatal = TRUE]
    /\ lease' = LeasesTo("released")
    /\ AccEnds(gw)
    /\ UNCHANGED <<takeoverVars, affinity, fresh, sweep, rq, mount, ctl, mishap>>

\* The write fails, before or after it took effect: the store is closed, the
\* leases stay quarantined and nothing is restored.
AccPersistFails ==
    /\ acc.at = "persist"
    /\ ~store.fatal /\ store.open \in {NoRun, acc.run}
    /\ Fault
    /\ \E s \in {store, Recorded(acc.run)} : store' = [s EXCEPT !.fatal = TRUE]
    /\ lease' = LeasesTo("quarantined")
    /\ AccEnds(gw)
    /\ UNCHANGED <<takeoverVars, affinity, fresh, sweep, rq, mount, ctl, mishap>>

\* rebuild_world of the new prefix reconciler, then the publication.
AccPrefix ==
    /\ acc.at = "prefix"
    /\ Answers(acc.run)
    /\ gw' = Published(gw, acc.run)
    /\ acc' = [acc EXCEPT !.at = "final", !.replacing = FALSE]
    /\ UNCHANGED <<takeoverVars, affinity, fresh, sweep, rq, lease, store, mount, ctl,
                   faults, mishap>>

\* seal_run of the active run; the last seals are retained.
SealedStore(s, run) ==
    LET all == Append(s.seals, [run |-> run, root |-> s.recs])
    IN  [s EXCEPT !.open = NoRun, !.recs = {},
                  !.seals = IF Len(all) > Retention THEN Tail(all) ELSE all]

\* Fresh reports once more, then the seal, by the evaluator of the old scheduler.
AccSeal ==
    /\ acc.at = "final"
    /\ Pull(acc.run)
    /\ ~store.fatal
    /\ store' = SealedStore(store, acc.run)
    /\ acc' = [acc EXCEPT !.at = "last"]
    /\ UNCHANGED <<takeoverVars, affinity, gw, sweep, rq, lease, mount, ctl, faults,
                   mishap>>

\* The write of the seal fails, or that of the run before it, each before or after
\* it took effect.
AccSealFails ==
    /\ acc.at \in {"final", "cold", "unsealed"}
    /\ acc.at = "final" \/ NoLiveLease
    /\ Pull(acc.run)
    /\ Fault
    /\ \E s \in {store, [store EXCEPT !.open = acc.run], SealedStore(store, acc.run)} :
          store' = [s EXCEPT !.fatal = TRUE]
    /\ AccEnds(gw)
    /\ UNCHANGED <<takeoverVars, affinity, sweep, rq, lease, mount, ctl, mishap>>

\* The checks of _finalize_topology_acceptance.
MayFinalize(run) ==
    /\ gw.need /\ gw.pend = run /\ Installed(run)
    /\ ~store'.fatal /\ store'.open = NoRun
    /\ PrefixAllows(gw) /\ gw.loop = "run" /\ Background(gw)

\* The answer reaches the controller, or is lost.
Answer(run) ==
    \/ /\ ctl.at = "posting" /\ ctl.run = run
       /\ ctl' = [ctl EXCEPT !.at = "accepted"]
       /\ NoFault
    \/ /\ ctl.at = "posting" /\ ctl.run = run
       /\ Fault
       /\ UNCHANGED ctl
    \/ /\ ~(ctl.at = "posting" /\ ctl.run = run)
       /\ UNCHANGED <<ctl, faults>>

\* recover_committed_run of the ledger; after a commit it changes nothing.
Known(run) == [gw EXCEPT !.runs = @ \cup {run}]

\* Admission opens when every check passes; otherwise the acceptance raises.
Finalize(run) ==
    IF MayFinalize(run)
    THEN /\ AccEnds([Known(run) EXCEPT !.need = FALSE, !.pend = 0, !.open = TRUE])
         /\ Answer(run)
    ELSE AccEnds(Known(run)) /\ UNCHANGED <<ctl, faults>>

\* The last pull, then admission.
AccFinalize ==
    /\ acc.at = "last"
    /\ Pull(acc.run)
    /\ UNCHANGED store
    /\ Finalize(acc.run)
    /\ UNCHANGED <<takeoverVars, affinity, sweep, rq, lease, mount, mishap>>

\* _recover_sealed_replacement after its pull: nothing is written.
RecoverSealed ==
    /\ acc.at = "sealed"
    /\ Pull(acc.run)
    /\ UNCHANGED store
    /\ Finalize(acc.run)
    /\ UNCHANGED <<takeoverVars, affinity, sweep, rq, lease, mount, mishap>>

\* _recover_cold_replacement after its pull: an empty run is recorded and sealed.
RecoverCold ==
    /\ acc.at = "cold"
    /\ Pull(acc.run) /\ NoLiveLease
    /\ store' = SealedStore(store, acc.run)
    /\ Finalize(acc.run)
    /\ UNCHANGED <<takeoverVars, affinity, sweep, rq, lease, mount, mishap>>

\* _recover_unsealed_replacement after its pull: the durable run is sealed.
RecoverUnsealed ==
    /\ acc.at = "unsealed"
    /\ Pull(acc.run) /\ NoLiveLease
    /\ store' = SealedStore(store, acc.run)
    /\ Finalize(acc.run)
    /\ UNCHANGED <<takeoverVars, affinity, sweep, rq, lease, mount, mishap>>

\* A request that came late is being served when a recovery comes to its seal.
RecoverLive ==
    /\ acc.at \in {"cold", "unsealed"}
    /\ Pull(acc.run) /\ ~NoLiveLease
    /\ store' = [store EXCEPT !.open = acc.run]
    /\ AccEnds(gw)
    /\ UNCHANGED <<takeoverVars, affinity, sweep, rq, lease, mount, ctl, faults, mishap>>

\* A pull or the rebuild of the prefix world fails.
AccFails ==
    /\ acc.at \in {"pull", "prefix", "final", "last", "sealed", "cold", "unsealed"}
    /\ IF Answers(acc.run) /\ fresh[acc.run] # "failed" THEN Fault ELSE NoFault
    /\ AccEnds(gw)
    /\ UNCHANGED <<takeoverVars, affinity, fresh, sweep, rq, lease, store, mount, ctl,
                   mishap>>

\* The store refuses, it failed before: the frozen leases are in quarantine by then.
AccRefused ==
    /\ acc.at \in {"persist", "final"} /\ store.fatal
    /\ lease' = IF acc.at = "persist" THEN LeasesTo("quarantined") ELSE lease
    /\ AccEnds(gw)
    /\ UNCHANGED <<takeoverVars, affinity, fresh, sweep, rq, store, mount, ctl, faults,
                   mishap>>

-----------------------------------------------------------------------------
\* The controller (WorldRestart) and the workers

\* The old world is captured from the gateway, with the operations that its
\* workers report.
Capture ==
    /\ ctl.at = "steady" /\ ctl.run < MaxGen
    /\ gw.st = "up" /\ gw.led = ctl.run /\ Answers(ctl.run)
    /\ ctl' = [at |-> "captured", run |-> ctl.run + 1,
               ops |-> {r \in Reqs : lease[r] = "active"}]
    /\ UNCHANGED <<takeoverVars, affinity, gatewayVars, store, mount, faults, mishap>>

\* All old workers are stopped, with proof.
StopWorld ==
    /\ ctl.at = "captured"
    /\ down' = TRUE
    /\ ctl' = [ctl EXCEPT !.at = "stopped"]
    /\ UNCHANGED <<world, owner, op, tk, affinity, gatewayVars, store, mount, faults,
                   mishap>>

\* The generation is patched, the new workers start and the evidence is there.
StartWorld ==
    /\ ctl.at = "stopped"
    /\ down' = FALSE /\ world' = ctl.run
    /\ owner' = [w \in Workers |-> NoOwner]
    /\ op' = [w \in Workers |-> "none"]
    /\ mount' = [mount EXCEPT !.gen = ctl.run]
    /\ ctl' = [ctl EXCEPT !.at = "posting"]
    /\ UNCHANGED <<tk, affinity, gatewayVars, store, faults, mishap>>

\* persist_started_world: the artifact names the accepted generation.
PersistWorld ==
    /\ ctl.at = "accepted"
    /\ mount' = [mount EXCEPT !.acc = ctl.run]
    /\ ctl' = [ctl EXCEPT !.at = "steady", !.ops = {}]
    /\ UNCHANGED <<takeoverVars, affinity, gatewayVars, store, faults, mishap>>

\* A worker ends an operation that nobody waits for any more.
WorkerEnds(w) ==
    /\ ~down /\ op[w] = "run" /\ owner[w] # gw.id
    /\ op' = [op EXCEPT ![w] = "held"]
    /\ UNCHANGED <<world, down, owner, tk, affinity, gatewayVars, store, mount, ctl,
                   faults, mishap>>

\* A command of a dead gateway reaches a worker that it still owns.
LateCommand(w) ==
    /\ ~down /\ owner[w] \notin {NoOwner, gw.id} /\ op[w] = "none"
    /\ Fault
    /\ op' = [op EXCEPT ![w] = "run"]
    /\ UNCHANGED <<world, down, owner, tk, affinity, gatewayVars, store, mount, ctl,
                   mishap>>

\* The activation of a gateway that crashed reaches a worker that has no owner.
LateActivate(w, o) ==
    /\ ~down /\ owner[w] = NoOwner /\ o # gw.id /\ faults.crash > 0
    /\ Fault
    /\ owner' = [owner EXCEPT ![w] = o]
    /\ mishap' = TRUE
    /\ UNCHANGED <<world, down, op, tk, affinity, gatewayVars, store, mount, ctl>>

\* A takeover step that only the fault budget bounds.
TakeoverFault ==
    /\ \/ TkFinalizeLost /\ Fault
       \/ TkFails /\ CallFails
    /\ UNCHANGED <<affinity, gatewayVars, store, mount, ctl, mishap>>

-----------------------------------------------------------------------------

Acceptance ==
    \/ AccFreeze \/ AccOwned \/ AccPull \/ AccPersist \/ AccPrefix \/ AccSeal
    \/ AccFinalize \/ RecoverSealed \/ RecoverCold \/ RecoverUnsealed
    \/ RecoverLive \/ AccRefused \/ AccFails
    \/ TakeoverStep /\ UNCHANGED <<affinity, gatewayVars, store, mount, ctl, faults,
                                   mishap>>

Post(run) == PostSealed(run) \/ PostCold(run) \/ PostUnsealed(run) \/ PostStage(run)

Booting == Boot \/ BootReady \/ BootFails \/ Probe

Sweep == SweepStart \/ SweepOk \/ SweepIncomplete \/ SweepDrift

Controller == StopWorld \/ StartWorld \/ PersistWorld \/ \E run \in Runs : Post(run)

Loop == \E r \in Reqs : Serve(r) \/ Complete(r)

Misfortune ==
    \/ Crash \/ BootRetries \/ Lapse \/ LoopDies \/ AccPersistFails \/ AccSealFails \/ TakeoverFault
    \/ \E w \in Workers : WorkerEnds(w) \/ LateCommand(w)
    \/ \E w \in Workers, o \in Owners : LateActivate(w, o)

Next ==
    \/ Acceptance \/ Booting \/ Sweep \/ Controller \/ Loop \/ Misfortune
    \/ Capture
    \/ \E r \in Reqs : Gate(r) \/ Body(r)

Spec == Init /\ [][Next]_vars

\* The event loop runs every task that is ready, the kubelet starts the gateway
\* again, the loop serves what it can, and the controller goes on and asks until it
\* is answered.  Nothing is assumed of the client that sends the body of a request.
Fairness ==
    /\ WF_vars(Acceptance) /\ WF_vars(Booting) /\ WF_vars(Sweep)
    /\ WF_vars(Controller) /\ WF_vars(Loop)

LiveSpec == Spec /\ Fairness

-----------------------------------------------------------------------------

TypeOK ==
    /\ world \in Gens /\ down \in BOOLEAN /\ affinity \in BOOLEAN /\ mishap \in BOOLEAN
    /\ owner \in [Workers -> Owners \cup {NoOwner}]
    /\ op \in [Workers -> OpStates]
    /\ gw.reg \in Gens /\ gw.led \in Gens /\ gw.runs \subseteq Runs
    /\ gw.id \in Owners \cup {NoOwner}
    /\ gw.loop \in {"none", "run", "stopped", "dead"}
    /\ gw.need => gw.pend \in Runs
    /\ acc.at # "idle" => gw.st = "up" /\ acc.run \in Runs
    /\ sweep \in Gens \cup {NoRun} /\ (sweep # NoRun => gw.st = "up")
    /\ \A r \in Reqs : lease[r] \in {"none", "active", "quarantined", "released"}
    /\ store.open \in Runs \cup {NoRun} /\ (store.open = NoRun => store.recs = {})
    /\ mount.acc <= mount.gen /\ mount.gen <= ctl.run

\* Admission is open only on a complete world: whatever the order of acceptance,
\* sweeps, failures and late requests of the controller, an open gate means that
\* no acceptance is pending, that the durable run is sealed, that the ledger, the
\* registry and the prefix world are of one generation, that no slot of an older
\* world is waiting for release, and that a schedule loop runs.  The sweep alone
\* looks neither at the loop nor at the ledger, nor at which registry it holds.
AdmissionComplete ==
    gw.open =>
        /\ ~gw.need /\ acc.at \notin {"stop", "owner", "pull", "persist", "prefix", "final"}
        /\ store.open = NoRun
        /\ gw.led = gw.reg /\ PrefixAllows(gw)
        /\ gw.loop = "run"
        /\ \A r \in Reqs : lease[r] # "quarantined"

\* Slot release remains strictly after the durable records: a slot of generation
\* k - 1 that the replacement gave back has its record in the durable run k, or in
\* the seal of that run until newer seals have displaced it.
ReleaseDurable ==
    \A r \in Reqs : lease[r] = "released" =>
        LET run == rq[r].trk + 1
        IN  \/ store.open = run /\ r \in store.recs
            \/ \E i \in DOMAIN store.seals :
                  \/ store.seals[i].run = run /\ r \in store.seals[i].root
                  \/ i = 1 /\ store.seals[i].run > run

\* Retire-all comes before activate-all, so that the workers never name two
\* owners, whichever gateways died half way through a takeover; and a gateway
\* that is up owns every worker of its world.
OneOwner ==
    ~mishap =>
        /\ \A v, w \in Workers : NoOwner \in {owner[v], owner[w]} \/ owner[v] = owner[w]
        /\ gw.st = "up" /\ world = gw.reg /\ acc.at = "idle" =>
              \A w \in Workers : owner[w] = gw.id

\* The takeover frees the resources of an endpoint only when every endpoint that
\* the old owner reported for the operation has stopped: no peer still writes.
FreedAfterWriters ==
    [][\A v, w \in Workers :
          tk.at = "finalize" /\ op[w] = "held" /\ op'[w] = "done" /\ tk.seen[v] # "none"
          => op[v] # "run"]_vars

\* The snapshot of the old world is complete: "Admission was closed above, so no
\* new request can enter this boundary."  A request is never left in a tracker
\* that the acceptance has replaced, where no loop serves it and nothing fails it.
NoRequestLeft ==
    \A r \in Reqs : rq[r].at = "in" => rq[r].trk = gw.reg

\* What stops a run for good, until someone restarts the gateway: a failed write
\* of the store; another generation that is pending; a gateway that booted before
\* the accepted generation was made durable, and that nobody asks again; a
\* request that came after the capture, so that the evidence omits it; or a
\* foreign owner.
Blocked ==
    \/ store.fatal \/ mishap
    \/ gw.need /\ (gw.pend # ctl.run \/ ctl.at # "posting")
    \/ gw.led < ctl.run /\ Omitted # {}

\* Under retries of the controller a restart of the world comes to its end,
\* wherever calls fail, answers are lost and the gateway crashes: the run is
\* accepted, made durable, and admission is open again, unless it is blocked.
ReplacementCompletes ==
    ctl.at = "posting" ~> (ctl.at = "steady" /\ gw.open) \/ Blocked

=============================================================================
