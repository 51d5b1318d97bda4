---------------------- MODULE TopologyAcceptanceProofs ----------------------
(***************************************************************************)
(* The gateway's side of a whole-world restart, for every number of        *)
(* workers, requests, generations, crashes and faults.                     *)
(*                                                                         *)
(* Admission is open only on a complete world.  The gate is computed in    *)
(* three places, none of which looks at everything: AdmissionInv says what *)
(* the flag topology_acceptance_required stands for while the acceptance   *)
(* is cut into steps, so that a sweep that looks only at the flag is       *)
(* right.                                                                  *)
(*                                                                         *)
(* Generations orders the registry, the ledger, the acceptance and the     *)
(* workers.  On top of it OwnerInv says what a takeover has established of *)
(* each worker, phase by phase; Stopped what its sweep has, as long as the *)
(* worker process is the one that was asked; and RelInv that runs are      *)
(* sealed in order and that held slots are of the registry in charge, so   *)
(* that the record of a slot given back never leaves the store before      *)
(* newer seals displace it.                                                *)
(***************************************************************************)
EXTENDS TopologyAcceptance, TLAPS, SequenceTheorems

\* The fields of the records, which every step keeps.
Shape ==
    /\ DOMAIN gw = {"st", "id", "reg", "led", "runs", "need", "pend", "open", "rpc",
                    "loop", "failed", "rec", "pub"}
    /\ DOMAIN acc = {"at", "run", "frozen", "replacing"}
    /\ DOMAIN store = {"open", "recs", "seals", "fatal"}
    /\ DOMAIN lease = Reqs

\* Only a gateway that is up has tasks; an acceptance has the flag set.
TasksOfUp ==
    /\ acc.at # "idle" => gw.st = "up" /\ gw.need
    /\ sweep # NoRun => gw.st = "up"

\* Without the flag the world in charge is of one generation, and its loop runs
\* or has been reported as failed.
SettledWithoutFlag ==
    gw.st = "up" /\ ~gw.need => gw.led = gw.reg /\ (gw.loop = "run" \/ gw.failed)

\* What an open gate was computed from still holds.
OpenStands ==
    gw.open => /\ gw.st = "up" /\ ~gw.need /\ ~gw.failed
               /\ StoreAllows /\ PrefixAllows(gw)

\* Only a failed write leaves a slot in quarantine.
QuarantineFatal == \A r \in Reqs : lease[r] = "quarantined" => store.fatal

AdmissionInv ==
    Shape /\ TasksOfUp /\ SettledWithoutFlag /\ OpenStands /\ QuarantineFatal

\* No process runs at the beginning.
LEMMA InitAdmission == Init => AdmissionInv
BY DEF Init, AdmissionInv, Shape, TasksOfUp, SettledWithoutFlag, OpenStands,
       QuarantineFatal, Dead, Idle

\* What the invariant says of an open gate.
LEMMA AdmissionInvSuffices == AdmissionInv => AdmissionComplete
BY Zenon DEF AdmissionInv, TasksOfUp, SettledWithoutFlag, OpenStands, QuarantineFatal,
       AdmissionComplete, StoreAllows

\* Steps that touch nothing the invariant speaks of.
LEMMA Elsewhere ==
    ASSUME AdmissionInv, UNCHANGED <<gw, acc, sweep, lease, store, affinity>>
    PROVE  AdmissionInv'
BY Zenon DEF AdmissionInv, Shape, TasksOfUp, SettledWithoutFlag, OpenStands, QuarantineFatal,
       StoreAllows, PrefixAllows

\* The process ends.
LEMMA DeathKeeps ==
    ASSUME AdmissionInv, Die
    PROVE  AdmissionInv'
BY Zenon DEF AdmissionInv, Shape, TasksOfUp, SettledWithoutFlag, OpenStands, QuarantineFatal,
       Die, Dead, Idle

\* Boot, crash and supervision.
LEMMA BootKeeps ==
    ASSUME AdmissionInv, Booting \/ Crash \/ LoopDies \/ Lapse
    PROVE  AdmissionInv'
<1>1. CASE BootFails \/ Probe \/ Crash
  BY <1>1, DeathKeeps, Zenon DEF BootFails, Probe, Crash
<1>2. CASE Boot
  BY <1>2 DEF Boot, Dead, AdmissionInv, Shape, TasksOfUp, SettledWithoutFlag, OpenStands,
              QuarantineFatal
<1>3. CASE BootReady
  BY <1>3, Zenon DEF BootReady, AdmissionInv, Shape, TasksOfUp, SettledWithoutFlag, OpenStands,
              QuarantineFatal, Admits, StoreAllows, PrefixAllows, Background
<1>4. CASE LoopDies
  BY <1>4, Zenon DEF LoopDies, AdmissionInv, Shape, TasksOfUp, SettledWithoutFlag, OpenStands,
              QuarantineFatal
<1>5. CASE Lapse
  BY <1>5, Elsewhere, Zenon DEF Lapse
<1> QED
  BY <1>1, <1>2, <1>3, <1>4, <1>5, Zenon DEF Booting

\* The refresh sweep opens and closes the gate.
LEMMA SweepKeeps ==
    ASSUME AdmissionInv, Sweep
    PROVE  AdmissionInv'
<1>1. CASE SweepStart
  BY <1>1, Zenon DEF SweepStart, AdmissionInv, Shape, TasksOfUp, SettledWithoutFlag, OpenStands,
              QuarantineFatal, StoreAllows, PrefixAllows
<1>2. ASSUME sweep # NoRun, sweep' = NoRun, NEW f, NEW c, Swept(f, c),
             UNCHANGED <<affinity, acc, lease, store>>
      PROVE  AdmissionInv'
  BY <1>2, Zenon DEF Swept, Admits, AdmissionInv, Shape, TasksOfUp, SettledWithoutFlag,
              OpenStands, QuarantineFatal, StoreAllows, PrefixAllows, Background
<1>3. CASE SweepOk \/ SweepIncomplete
  BY <1>2, <1>3, Zenon DEF SweepOk, SweepIncomplete
<1>4. CASE SweepDrift
  BY <1>4, Zenon DEF SweepDrift, AdmissionInv, Shape, TasksOfUp, SettledWithoutFlag, OpenStands,
              QuarantineFatal
<1> QED
  BY <1>1, <1>3, <1>4 DEF Sweep

\* Requests take and return slots.
LEMMA RequestKeeps ==
    ASSUME AdmissionInv, NEW r \in Reqs, Gate(r) \/ Body(r) \/ Serve(r) \/ Complete(r)
    PROVE  AdmissionInv'
<1>1. CASE Gate(r) \/ Body(r)
  BY <1>1, Elsewhere, Zenon DEF Gate, Body
<1>2. CASE Serve(r) \/ Complete(r)
  <2>1. PICK x \in {"active", "none"} : lease' = [lease EXCEPT ![r] = x]
    BY <1>2, Zenon DEF Serve, Complete
  <2>2. UNCHANGED <<gw, acc, sweep, store, affinity>>
    BY <1>2, Zenon DEF Serve, Complete
  <2> QED
    BY <2>1, <2>2, Zenon DEF AdmissionInv, Shape, TasksOfUp, SettledWithoutFlag, OpenStands,
                      QuarantineFatal, StoreAllows, PrefixAllows
<1> QED
  BY <1>1, <1>2, Zenon

\* An acceptance begins: the flag is set and the gate closed.
LEMMA PostKeeps ==
    ASSUME AdmissionInv, NEW run \in Runs, Post(run)
    PROVE  AdmissionInv'
<1> DEFINE Fields == {"at", "run", "frozen", "replacing"}
<1>1. DOMAIN Idle = Fields /\ \A at : DOMAIN Task(run, at) = Fields
  BY DEF Idle, Task
<1>2. DOMAIN Begun(run) = DOMAIN gw /\ Begun(run).st = gw.st
      /\ Begun(run).need = TRUE /\ Begun(run).open = FALSE
  BY DEF Begun, AdmissionInv, Shape
<1>3. ASSUME gw.st = "up", UNCHANGED <<affinity, sweep, lease, store>>,
             DOMAIN gw' = DOMAIN gw, gw'.st = gw.st, gw'.need = TRUE, gw'.open = FALSE,
             DOMAIN acc' = Fields
      PROVE  AdmissionInv'
  BY <1>3, Zenon DEF AdmissionInv, Shape, TasksOfUp, SettledWithoutFlag, OpenStands,
              QuarantineFatal
<1>4. CASE PostSealed(run)
  BY <1>1, <1>2, <1>3, <1>4, Zenon DEF PostSealed, Asked
<1>5. CASE PostCold(run)
  BY <1>1, <1>2, <1>3, <1>5, Zenon DEF PostCold, Asked
<1>6. CASE PostUnsealed(run)
  BY <1>1, <1>2, <1>3, <1>6, Zenon DEF PostUnsealed, Asked
<1>7. CASE PostStage(run)
  <2>1. /\ gw.st = "up" /\ UNCHANGED <<affinity, sweep, lease, store>>
        /\ acc' = Task(run, "stop")
        /\ \E l : gw' = [Begun(run) EXCEPT !.loop = l]
    BY <1>7, Zenon DEF PostStage, Asked
  <2>2. DOMAIN gw' = DOMAIN gw /\ gw'.st = gw.st /\ gw'.need = TRUE /\ gw'.open = FALSE
    BY <1>2, <2>1, Zenon DEF AdmissionInv, Shape
  <2> QED
    BY <1>1, <1>3, <2>1, <2>2, Zenon
<1> QED
  BY <1>4, <1>5, <1>6, <1>7, Zenon DEF Post

\* While an acceptance runs the gate is closed, so a step of it that keeps the
\* flag, or ends with it, is safe whatever it writes.
LEMMA UnderFlag ==
    ASSUME AdmissionInv, acc.at # "idle",
           DOMAIN gw' = DOMAIN gw, gw'.st = gw.st, gw'.need = gw.need, gw'.open = gw.open,
           DOMAIN acc' = DOMAIN acc, DOMAIN store' = DOMAIN store, DOMAIN lease' = Reqs,
           QuarantineFatal', UNCHANGED sweep
    PROVE  AdmissionInv'
BY Zenon DEF AdmissionInv, Shape, TasksOfUp, SettledWithoutFlag, OpenStands

\* The end of an acceptance: every check passes and the gate opens, or the flag
\* stays.
LEMMA FinalizeKeeps ==
    ASSUME AdmissionInv, acc.at # "idle", NEW run, Finalize(run),
           DOMAIN store' = DOMAIN store, store.fatal => store'.fatal,
           UNCHANGED <<affinity, sweep, lease>>
    PROVE  AdmissionInv'
<1>1. QuarantineFatal'
  BY Zenon DEF AdmissionInv, QuarantineFatal
<1>2. DOMAIN Idle = DOMAIN acc /\ Idle.at = "idle"
  BY Zenon DEF Idle, AdmissionInv, Shape
<1>3. CASE MayFinalize(run)
  <2>1. gw' = [Known(run) EXCEPT !.need = FALSE, !.pend = 0, !.open = TRUE] /\ acc' = Idle
    BY <1>3 DEF Finalize, AccEnds
  <2>2. /\ DOMAIN gw' = DOMAIN gw /\ gw'.st = gw.st /\ gw'.need = FALSE
        /\ gw'.failed = gw.failed /\ gw'.loop = gw.loop /\ gw'.led = gw.led
        /\ gw'.reg = gw.reg /\ gw'.rec = gw.rec /\ gw'.pub = gw.pub
    BY <2>1, Zenon DEF Known, AdmissionInv, Shape
  <2>3. /\ gw.st = "up" /\ gw.led = gw.reg /\ gw.loop = "run" /\ ~gw.failed
        /\ PrefixAllows(gw) /\ ~store'.fatal /\ store'.open = NoRun
    BY <1>3, Zenon DEF MayFinalize, Installed, Background, AdmissionInv, TasksOfUp
  <2> QED
    BY <1>1, <1>2, <2>1, <2>2, <2>3 DEF AdmissionInv, Shape, TasksOfUp, SettledWithoutFlag,
                                        OpenStands, StoreAllows, PrefixAllows
<1>4. CASE ~MayFinalize(run)
  <2>1. gw' = Known(run) /\ acc' = Idle
    BY <1>4 DEF Finalize, AccEnds
  <2>2. DOMAIN gw' = DOMAIN gw /\ gw'.st = gw.st /\ gw'.need = gw.need /\ gw'.open = gw.open
    BY <2>1, Zenon DEF Known, AdmissionInv, Shape
  <2>3. DOMAIN lease' = Reqs
    BY Zenon DEF AdmissionInv, Shape
  <2> QED
    BY <1>1, <1>2, <2>1, <2>2, <2>3, UnderFlag, Zenon
<1> QED
  BY <1>3, <1>4, Zenon

\* Sealing keeps the fields of the store and a failure of it.
LEMMA SealKeeps ==
    ASSUME AdmissionInv, NEW run
    PROVE  /\ DOMAIN SealedStore(store, run) = DOMAIN store
           /\ SealedStore(store, run).fatal = store.fatal
BY DEF SealedStore, AdmissionInv, Shape

\* The steps of an acceptance under the flag.
LEMMA AcceptanceKeeps ==
    ASSUME AdmissionInv,
           \/ AccFreeze \/ AccOwned \/ AccPull \/ AccPrefix \/ AccRefused \/ AccFails
           \/ AccPersist \/ AccPersistFails \/ AccSeal \/ AccSealFails \/ RecoverLive
    PROVE  AdmissionInv'
<1> DEFINE Kept(g) == /\ DOMAIN g = DOMAIN gw /\ g.st = gw.st
                      /\ g.need = gw.need /\ g.open = gw.open
<1>1. DOMAIN Idle = DOMAIN acc
  BY Zenon DEF Idle, AdmissionInv, Shape
<1>2. Kept(gw) /\ Kept([gw EXCEPT !.rec = FALSE])
  BY Zenon DEF AdmissionInv, Shape
<1>3. \A g, run : Kept(g) => Kept(Published(g, run))
  BY Zenon DEF Published, AdmissionInv, Shape
<1>4. QuarantineFatal /\ DOMAIN lease = Reqs
  BY Zenon DEF AdmissionInv, Shape
<1>5. CASE AccFreeze
  <2>1. acc.at # "idle" /\ UNCHANGED <<sweep, lease, store>>
    BY <1>5, Zenon DEF AccFreeze
  <2>2. gw' = gw \/ gw' = [gw EXCEPT !.rec = FALSE]
    BY <1>5, Zenon DEF AccFreeze, AccEnds
  <2>3. DOMAIN acc' = DOMAIN acc
    BY <1>1, <1>5, Zenon DEF AccFreeze, AccEnds
  <2> QED
    BY <1>2, <1>4, <2>1, <2>2, <2>3, UnderFlag, Zenon DEF QuarantineFatal
<1>6. CASE AccOwned \/ AccPull
  <2>1. acc.at # "idle" /\ DOMAIN acc' = DOMAIN acc /\ UNCHANGED <<gw, sweep, lease, store>>
    BY <1>1, <1>6, Zenon DEF AccOwned, AccPull
  <2> QED
    BY <1>2, <1>4, <2>1, UnderFlag, Zenon DEF QuarantineFatal
<1>7. CASE AccPrefix
  <2>1. /\ acc.at # "idle" /\ gw' = Published(gw, acc.run) /\ DOMAIN acc' = DOMAIN acc
        /\ UNCHANGED <<sweep, lease, store>>
    BY <1>7, Zenon DEF AccPrefix
  <2> QED
    BY <1>2, <1>3, <1>4, <2>1, UnderFlag DEF QuarantineFatal
<1>8. CASE AccFails
  <2>1. acc.at # "idle" /\ gw' = gw /\ acc' = Idle /\ UNCHANGED <<sweep, lease, store>>
    BY <1>8, Zenon DEF AccFails, AccEnds
  <2> QED
    BY <1>1, <1>2, <1>4, <2>1, UnderFlag, Zenon DEF QuarantineFatal
<1>9. CASE AccPersist
  <2>1. /\ acc.at # "idle" /\ DOMAIN acc' = DOMAIN acc /\ UNCHANGED sweep
        /\ DOMAIN store' = DOMAIN store
    BY <1>9, Zenon DEF AccPersist, Recorded, AdmissionInv, Shape
  <2>2. gw' = Committed(acc.run) \/ gw' = Published(Committed(acc.run), acc.run)
    BY <1>9, Zenon DEF AccPersist
  <2>3. Kept(Committed(acc.run))
    BY Zenon DEF Committed, AdmissionInv, Shape
  <2>4. Kept(gw')
    <3> HIDE DEF Kept
    <3> QED
      BY <1>3, <2>2, <2>3, Zenon
  <2>5. DOMAIN lease' = Reqs /\ \A r \in Reqs : lease'[r] # "quarantined"
    BY <1>9, Zenon DEF AccPersist, LeasesTo, Live
  <2> QED
    BY <2>1, <2>4, <2>5, UnderFlag, Zenon DEF QuarantineFatal
<1>10. CASE AccPersistFails
  <2>1. /\ acc.at # "idle" /\ gw' = gw /\ acc' = Idle /\ UNCHANGED sweep
        /\ DOMAIN lease' = Reqs
    BY <1>10, Zenon DEF AccPersistFails, AccEnds, LeasesTo
  <2>2. DOMAIN store' = DOMAIN store /\ store'.fatal = TRUE
    BY <1>10, Zenon DEF AccPersistFails, Recorded, AdmissionInv, Shape
  <2> QED
    BY <1>1, <1>2, <2>1, <2>2, UnderFlag, Zenon DEF QuarantineFatal
<1>11. CASE AccSeal
  <2>1. /\ acc.at # "idle" /\ DOMAIN acc' = DOMAIN acc /\ UNCHANGED <<gw, sweep, lease>>
        /\ store' = SealedStore(store, acc.run)
    BY <1>11, Zenon DEF AccSeal
  <2> QED
    BY <1>2, <1>4, <2>1, SealKeeps, UnderFlag, Zenon DEF QuarantineFatal
<1>12. CASE AccSealFails
  <2>1. acc.at # "idle" /\ gw' = gw /\ acc' = Idle /\ UNCHANGED <<sweep, lease>>
    BY <1>12, Zenon DEF AccSealFails, AccEnds
  <2>2. \/ store' = [store EXCEPT !.fatal = TRUE]
        \/ store' = [store EXCEPT !.open = acc.run, !.fatal = TRUE]
        \/ store' = [SealedStore(store, acc.run) EXCEPT !.fatal = TRUE]
    BY <1>12, Zenon DEF AccSealFails
  <2>3. DOMAIN store' = DOMAIN store /\ store'.fatal = TRUE
    BY <2>2, SealKeeps, Zenon DEF AdmissionInv, Shape
  <2> QED
    BY <1>1, <1>2, <1>4, <2>1, <2>3, UnderFlag, Zenon DEF QuarantineFatal
<1>13. CASE RecoverLive
  <2>1. /\ acc.at # "idle" /\ gw' = gw /\ acc' = Idle /\ UNCHANGED <<sweep, lease>>
        /\ store' = [store EXCEPT !.open = acc.run]
    BY <1>13, Zenon DEF RecoverLive, AccEnds
  <2>2. DOMAIN store' = DOMAIN store /\ store'.fatal = store.fatal
    BY <2>1, Zenon DEF AdmissionInv, Shape
  <2> QED
    BY <1>1, <1>2, <1>4, <2>1, <2>2, UnderFlag, Zenon DEF QuarantineFatal
<1>14. CASE AccRefused
  <2>1. /\ acc.at # "idle" /\ gw' = gw /\ acc' = Idle /\ UNCHANGED <<sweep, store>>
        /\ store.fatal /\ DOMAIN lease' = Reqs
    BY <1>4, <1>14, Zenon DEF AccRefused, AccEnds, LeasesTo
  <2> QED
    BY <1>1, <1>2, <2>1, UnderFlag, Zenon DEF QuarantineFatal
<1> QED
  BY <1>5, <1>6, <1>7, <1>8, <1>9, <1>10, <1>11, <1>12, <1>13, <1>14, Zenon

\* The steps that end an acceptance.
LEMMA EndKeeps ==
    ASSUME AdmissionInv, AccFinalize \/ RecoverSealed \/ RecoverCold \/ RecoverUnsealed
    PROVE  AdmissionInv'
<1>1. acc.at # "idle" /\ Finalize(acc.run) /\ UNCHANGED <<affinity, sweep, lease>>
  BY Zenon DEF AccFinalize, RecoverSealed, RecoverCold, RecoverUnsealed
<1>2. store' = store \/ store' = SealedStore(store, acc.run)
  BY Zenon DEF AccFinalize, RecoverSealed, RecoverCold, RecoverUnsealed
<1> QED
  BY <1>1, <1>2, SealKeeps, FinalizeKeeps, Zenon

\* Every step keeps the invariant of admission.
LEMMA NextKeepsAdmission == AdmissionInv /\ [Next]_vars => AdmissionInv'
<1> SUFFICES ASSUME AdmissionInv, [Next]_vars PROVE AdmissionInv'
  OBVIOUS
<1>1. CASE Acceptance
  <2>1. CASE TakeoverStep /\ UNCHANGED <<affinity, gatewayVars, store, mount, ctl, faults,
                                         mishap>>
    BY <2>1, Elsewhere, Zenon DEF gatewayVars
  <2> QED
    BY <1>1, <2>1, AcceptanceKeeps, EndKeeps, Zenon DEF Acceptance
<1>2. CASE Booting \/ Crash \/ LoopDies \/ Lapse
  BY <1>2, BootKeeps
<1>3. CASE Sweep
  BY <1>3, SweepKeeps
<1>4. CASE Controller \/ Capture
  <2>1. CASE StopWorld \/ StartWorld \/ PersistWorld \/ Capture
    BY <2>1, Elsewhere, Zenon DEF StopWorld, StartWorld, PersistWorld, Capture, gatewayVars
  <2> QED
    BY <1>4, <2>1, PostKeeps DEF Controller
<1>5. CASE Loop \/ \E r \in Reqs : Gate(r) \/ Body(r)
  BY <1>5, RequestKeeps, Zenon DEF Loop
<1>6. CASE AccPersistFails \/ AccSealFails
  BY <1>6, AcceptanceKeeps
<1>7. CASE TakeoverFault \/ BootRetries
  <2>1. UNCHANGED <<gw, acc, sweep, lease, store, affinity>>
    BY <1>7, Zenon DEF TakeoverFault, BootRetries, gatewayVars
  <2> QED
    BY <2>1, Elsewhere
<1>8. CASE \/ \E w \in Workers : WorkerEnds(w) \/ LateCommand(w)
           \/ \E w \in Workers, o \in Owners : LateActivate(w, o)
  BY <1>8, Elsewhere, Zenon DEF WorkerEnds, LateCommand, LateActivate, gatewayVars
<1>9. CASE UNCHANGED vars
  BY <1>9, Elsewhere, Zenon DEF vars
<1> QED
  BY <1>1, <1>2, <1>3, <1>4, <1>5, <1>6, <1>7, <1>8, <1>9, Zenon DEF Next, Misfortune

\* Admission is never open on a world that is not complete: the durable run is
\* sealed, ledger, registry and prefix world are of one generation, no slot of an
\* older world waits for release and a schedule loop runs, whatever interleaving
\* of acceptance, sweep, requests, failures and restarts led there.
THEOREM AdmissionIsComplete == Spec => []AdmissionComplete
BY InitAdmission, NextKeepsAdmission, AdmissionInvSuffices, PTL DEF Spec

-----------------------------------------------------------------------------
\* The order of the generations

\* The steps of an acceptance before the new world is published.
Unpublished == {"stop", "owner", "pull", "persist", "prefix"}

\* Generations only grow, and no process is ahead of the workers: an acceptance
\* is of a world that has started, and replaces an older registry.
Generations ==
    /\ world \in Nat /\ ctl.run \in Nat /\ mount.gen = world
    /\ DOMAIN ctl = {"at", "run", "ops"} /\ DOMAIN mount = {"gen", "acc"}
    /\ world = IF ctl.at \in {"captured", "stopped"} THEN ctl.run - 1 ELSE ctl.run
    /\ gw.reg \in Nat /\ gw.led \in Nat
    /\ gw.st # "down" => gw.reg <= world
    /\ gw.st = "up" => gw.reg <= gw.led /\ gw.led <= world
    /\ gw.loop = "run" => gw.st = "up" /\ gw.led = gw.reg
    /\ acc.at # "idle" =>
          /\ acc.run \in Nat /\ acc.run <= world
          /\ IF acc.at \in Unpublished
             THEN gw.reg < acc.run /\ gw.loop # "run"
             ELSE gw.reg = acc.run
          /\ gw.led = IF acc.at \in Unpublished \ {"prefix"} THEN acc.run - 1 ELSE acc.run

SameGateway ==
    /\ gw'.st = gw.st /\ gw'.id = gw.id /\ gw'.reg = gw.reg /\ gw'.led = gw.led
    /\ gw'.loop = gw.loop

\* The controller stays on its side of the start of the new workers.
SameWorld ==
    /\ UNCHANGED <<world, mount>>
    /\ DOMAIN ctl' = DOMAIN ctl /\ ctl'.run = ctl.run
    /\ (ctl'.at \in {"captured", "stopped"}) = (ctl.at \in {"captured", "stopped"})

\* All processes begin with the first generation.
LEMMA InitGenerations == Init => Generations
BY RestartAssumption DEF Init, Generations, Dead, Idle

\* Steps that touch no generation; an acceptance may end.
LEMMA GenerationsElsewhere ==
    ASSUME Generations, SameGateway, SameWorld, acc' = acc \/ acc' = Idle
    PROVE  Generations'
BY DEF Generations, SameGateway, SameWorld, Idle

\* An acceptance of a started world goes on, or begins.
LEMMA GenerationsTask ==
    ASSUME Generations, UNCHANGED <<world, mount, ctl>>,
           gw'.st = gw.st, gw'.reg \in Nat, gw'.led \in Nat,
           gw.st = "up", gw'.reg <= gw'.led, gw'.led <= world,
           gw'.loop = "run" => gw'.led = gw'.reg,
           acc'.run \in Nat, acc'.run <= world,
           IF acc'.at \in Unpublished THEN gw'.reg < acc'.run /\ gw'.loop # "run"
                                      ELSE gw'.reg = acc'.run,
           gw'.led = IF acc'.at \in Unpublished \ {"prefix"} THEN acc'.run - 1
                                                             ELSE acc'.run
    PROVE  Generations'
BY DEF Generations, Unpublished

\* The fields of the process that the steps of the sweep and of an acceptance keep.
LEMMA GatewayFields ==
    ASSUME AdmissionInv, NEW run
    PROVE  /\ \A o, p : LET g == [gw EXCEPT !.open = o, !.rpc = p]
                        IN  gw' = g => SameGateway
           /\ \A x : gw' = [gw EXCEPT !.rec = x] => SameGateway
           /\ gw' = Begun(run) => SameGateway
           /\ gw' = Known(run) => SameGateway
           /\ gw' = [Known(run) EXCEPT !.need = FALSE, !.pend = 0, !.open = TRUE]
              => SameGateway
BY Zenon DEF AdmissionInv, Shape, SameGateway, Begun, Known

\* A process boots from the artifact of the world, or dies.
LEMMA GenerationsBoot ==
    ASSUME AdmissionInv, Generations, Booting \/ Crash \/ LoopDies \/ Lapse
    PROVE  Generations'
<1>1. ASSUME Die PROVE Generations'
  BY <1>1, Zenon DEF Die, Dead, Idle, Generations, workerVars
<1>2. CASE BootFails \/ Probe \/ Crash
  BY <1>1, <1>2, Zenon DEF BootFails, Probe, Crash
<1>3. CASE Boot
  <2>1. /\ gw.st = "down" /\ gw'.st = "boot" /\ gw'.reg = mount.gen /\ gw'.led = 0
        /\ gw'.loop = "none" /\ UNCHANGED <<world, mount, ctl, acc>>
    BY <1>3 DEF Boot, Dead, workerVars
  <2> QED
    BY <2>1 DEF Generations, AdmissionInv, TasksOfUp
<1>4. CASE BootReady
  <2>1. /\ gw.st = "boot" /\ gw'.st = "up" /\ gw'.reg = gw.reg /\ gw'.led = gw.reg
        /\ acc' = acc /\ UNCHANGED <<world, mount, ctl>>
    BY <1>4, Zenon DEF BootReady, AdmissionInv, Shape, workerVars
  <2> QED
    BY <2>1 DEF Generations, AdmissionInv, TasksOfUp
<1>5. CASE LoopDies
  BY <1>5, Zenon DEF LoopDies, Generations, AdmissionInv, Shape, takeoverVars
<1>6. CASE Lapse
  BY <1>6, GenerationsElsewhere, Zenon DEF Lapse, SameGateway, SameWorld, takeoverVars
<1> QED
  BY <1>2, <1>3, <1>4, <1>5, <1>6 DEF Booting

\* The sweep touches the gates only.
LEMMA GenerationsSweep ==
    ASSUME AdmissionInv, Generations, Sweep
    PROVE  Generations'
<1>1. UNCHANGED <<world, mount, ctl, acc>>
  BY Zenon DEF Sweep, SweepStart, SweepOk, SweepIncomplete, SweepDrift, takeoverVars
<1>2. gw' = gw \/ \E o, p : gw' = [gw EXCEPT !.open = o, !.rpc = p]
  BY Zenon DEF Sweep, SweepStart, SweepOk, SweepIncomplete, SweepDrift, Swept
<1>3. SameGateway
  BY <1>2, GatewayFields, Zenon DEF SameGateway
<1> QED
  BY <1>1, <1>3, GenerationsElsewhere, Zenon DEF SameWorld

\* The controller asks only for worlds that it has started.
LEMMA GenerationsPost ==
    ASSUME AdmissionInv, Generations, NEW run \in Runs, Post(run)
    PROVE  Generations'
<1>1. /\ gw.st = "up" /\ UNCHANGED <<world, mount, ctl>>
      /\ run \in Nat /\ run <= world
  BY RestartAssumption DEF Post, PostSealed, PostCold, PostUnsealed, PostStage, Asked, Runs,
         Generations,
                           takeoverVars
<1>2. CASE PostStage(run)
  <2>1. /\ gw.led = run - 1 /\ acc' = Task(run, "stop")
        /\ gw' = [Begun(run) EXCEPT !.loop = IF @ = "run" THEN "stopped" ELSE @]
    BY <1>2, Zenon DEF PostStage, Stageable
  <2>2. /\ gw'.st = gw.st /\ gw'.reg = gw.reg /\ gw'.led = gw.led
        /\ gw'.loop # "run"
    BY <2>1 DEF Begun, AdmissionInv, Shape
  <2>3. acc'.at = "stop" /\ acc'.run = run
    BY <2>1 DEF Task, Idle
  <2> QED
    BY <1>1, <2>1, <2>2, <2>3, GenerationsTask DEF Generations, Unpublished
<1>3. CASE ~PostStage(run)
  <2>1. /\ gw' = Begun(run) /\ gw.led = run
        /\ acc' = Idle \/ (gw.reg = run /\ \E at \in {"sealed", "cold", "unsealed"} :
                                           acc' = Task(run, at))
    BY <1>3, Zenon DEF Post, PostSealed, PostCold, PostUnsealed, Installed
  <2>2. SameGateway
    BY <2>1, GatewayFields, Zenon
  <2>3. CASE acc' = Idle
    BY <1>1, <2>2, <2>3, GenerationsElsewhere, Zenon DEF SameWorld
  <2>4. CASE acc' # Idle
    <3>1. gw.reg = run /\ acc'.run = run /\ acc'.at \notin Unpublished
      BY <2>1, <2>4, Zenon DEF Task, Idle, Unpublished
    <3> QED
      BY <1>1, <2>1, <2>2, <3>1, GenerationsTask, Zenon DEF Generations, SameGateway
  <2> QED
    BY <2>3, <2>4
<1> QED
  BY <1>2, <1>3

\* The end of an acceptance.
LEMMA GenerationsEnd ==
    ASSUME AdmissionInv, Generations,
           AccFinalize \/ RecoverSealed \/ RecoverCold \/ RecoverUnsealed
    PROVE  Generations'
<1>1. Finalize(acc.run) /\ UNCHANGED <<world, mount>>
  BY Zenon DEF AccFinalize, RecoverSealed, RecoverCold, RecoverUnsealed, takeoverVars
<1>2. /\ acc' = Idle
      /\ \/ gw' = Known(acc.run)
         \/ gw' = [Known(acc.run) EXCEPT !.need = FALSE, !.pend = 0, !.open = TRUE]
  BY <1>1 DEF Finalize, AccEnds
<1>3. SameGateway
  BY <1>2, GatewayFields, Zenon
<1>4. ctl' = ctl \/ (ctl.at = "posting" /\ ctl' = [ctl EXCEPT !.at = "accepted"])
  BY <1>1, Zenon DEF Finalize, Answer
<1>5. SameWorld
  BY <1>1, <1>4 DEF SameWorld, Generations
<1> QED
  BY <1>2, <1>3, <1>5, GenerationsElsewhere

\* The ledger moves on at the commit, the registry at the publication.
LEMMA GenerationsAcceptance ==
    ASSUME AdmissionInv, Generations, Acceptance \/ AccPersistFails \/ AccSealFails
    PROVE  Generations'
<1>1. CASE AccFails \/ AccRefused \/ AccPersistFails \/ AccSealFails \/ RecoverLive
  <2>1. UNCHANGED <<world, mount, ctl, gw>> /\ acc' = Idle
    BY <1>1, Zenon DEF AccFails, AccRefused, AccPersistFails, AccSealFails, RecoverLive, AccEnds,
                takeoverVars
  <2> QED
    BY <2>1, GenerationsElsewhere, Zenon DEF SameGateway, SameWorld
<1>2. CASE AccFreeze
  <2>1. /\ UNCHANGED <<world, mount, ctl>>
        /\ gw' = gw \/ \E x : gw' = [gw EXCEPT !.rec = x]
    BY <1>2, Zenon DEF AccFreeze, AccEnds, workerVars
  <2>2. SameGateway
    BY <2>1, GatewayFields, Zenon DEF SameGateway
  <2>3. acc.at = "stop" /\ (acc' = Idle \/ (acc'.at = "owner" /\ acc'.run = acc.run))
    BY <1>2, Zenon DEF AccFreeze, AccEnds, AdmissionInv, Shape
  <2> QED
    BY <2>1, <2>2, <2>3, GenerationsElsewhere, Zenon DEF Generations, Unpublished, SameGateway,
           SameWorld
<1>3. CASE AccOwned \/ AccPull \/ AccSeal
  <2>1. /\ UNCHANGED <<world, mount, ctl, gw>>
        /\ \/ acc' = Idle
           \/ acc.at = "owner" /\ acc'.at = "pull" /\ acc'.run = acc.run
           \/ acc.at = "pull" /\ acc'.at = "persist" /\ acc'.run = acc.run
           \/ acc.at = "final" /\ acc'.at = "last" /\ acc'.run = acc.run
    BY <1>3, Zenon DEF AccOwned, AccPull, AccSeal, AdmissionInv, Shape, workerVars, takeoverVars
  <2> QED
    BY <2>1, GenerationsElsewhere, Zenon DEF Generations, Unpublished, SameGateway, SameWorld
<1>4. CASE AccPersist
  <2>1. /\ UNCHANGED <<world, mount, ctl>> /\ acc.at = "persist" /\ acc'.run = acc.run
        /\ IF affinity THEN acc'.at = "prefix" /\ gw' = Committed(acc.run)
           ELSE acc'.at = "final" /\ gw' = Published(Committed(acc.run), acc.run)
    BY <1>4, Zenon DEF AccPersist, takeoverVars, AdmissionInv, Shape
  <2>2. gw.st = "up"
    BY <2>1, Zenon DEF AdmissionInv, TasksOfUp
  <2>3. /\ Committed(acc.run).st = gw.st /\ Committed(acc.run).reg = gw.reg
        /\ Committed(acc.run).led = acc.run /\ Committed(acc.run).loop = gw.loop
        /\ DOMAIN Committed(acc.run) = DOMAIN gw
    BY DEF Committed, AdmissionInv, Shape
  <2>4. CASE affinity
    BY <2>1, <2>2, <2>3, <2>4, GenerationsTask DEF Generations, Unpublished
  <2>5. CASE ~affinity
    <3>1. gw'.st = gw.st /\ gw'.reg = acc.run /\ gw'.led = acc.run
      <4> DEFINE c == Committed(acc.run)
      <4>1. c.st = gw.st /\ c.led = acc.run /\ DOMAIN c = DOMAIN gw /\ gw' = Published(c, acc.run)
        BY <2>1, <2>3, <2>5, Zenon
      <4> HIDE DEF c
      <4> QED
        BY <4>1 DEF Published, AdmissionInv, Shape
    <3> QED
      BY <2>1, <2>2, <2>5, <3>1, GenerationsTask DEF Generations, Unpublished
  <2> QED
    BY <2>4, <2>5
<1>5. CASE AccPrefix
  <2>1. /\ UNCHANGED <<world, mount, ctl>> /\ acc.at = "prefix" /\ acc'.run = acc.run
        /\ acc'.at = "final" /\ gw' = Published(gw, acc.run)
    BY <1>5, Zenon DEF AccPrefix, takeoverVars, AdmissionInv, Shape
  <2>2. gw.st = "up" /\ gw'.st = gw.st /\ gw'.reg = acc.run /\ gw'.led = gw.led
    BY <2>1, Zenon DEF Published, AdmissionInv, Shape, TasksOfUp
  <2> QED
    BY <2>1, <2>2, GenerationsTask DEF Generations, Unpublished
<1>6. CASE TakeoverStep /\ UNCHANGED <<affinity, gatewayVars, store, mount, ctl, faults, mishap>>
  <2>1. UNCHANGED world
    BY <1>6, Zenon DEF TakeoverStep, TkStatus, TkIdentity, TkList, TkSweep, TkFinalize, TkRelist,
                TkOtherEpoch, TkRetire, TkActivate, TkConfirm, TkDeadline, workerVars
  <2> QED
    BY <1>6, <2>1, GenerationsElsewhere, Zenon DEF SameGateway, SameWorld, gatewayVars
<1> QED
  BY <1>1, <1>2, <1>3, <1>4, <1>5, <1>6, GenerationsEnd, Zenon DEF Acceptance

\* The controller starts one generation after the other.
LEMMA GenerationsController ==
    ASSUME AdmissionInv, Generations, StopWorld \/ StartWorld \/ PersistWorld \/ Capture
    PROVE  Generations'
<1>1. CASE StopWorld
  BY <1>1, Zenon DEF StopWorld, Generations, gatewayVars
<1>2. CASE StartWorld
  BY <1>2 DEF StartWorld, Generations, gatewayVars
<1>3. CASE PersistWorld
  BY <1>3, Zenon DEF PersistWorld, Generations, gatewayVars, takeoverVars
<1>4. CASE Capture
  BY <1>4 DEF Capture, Generations, gatewayVars, takeoverVars
<1> QED
  BY <1>1, <1>2, <1>3, <1>4

\* Every step keeps the order of the generations.
LEMMA NextKeepsGenerations == AdmissionInv /\ Generations /\ [Next]_vars => Generations'
<1> SUFFICES ASSUME AdmissionInv, Generations, [Next]_vars PROVE Generations'
  OBVIOUS
<1>1. CASE UNCHANGED <<world, mount, ctl, gw, acc>>
  BY <1>1, GenerationsElsewhere, Zenon DEF SameGateway, SameWorld
<1>2. CASE \E run \in Runs : Post(run)
  BY <1>2, GenerationsPost
<1>3. CASE \/ Loop \/ BootRetries \/ TakeoverFault
           \/ \E r \in Reqs : Gate(r) \/ Body(r)
           \/ \E w \in Workers : WorkerEnds(w) \/ LateCommand(w)
           \/ \E w \in Workers, o \in Owners : LateActivate(w, o)
           \/ UNCHANGED vars
  BY <1>1, <1>3, Zenon DEF Loop, Serve, Complete, BootRetries, TakeoverFault, Gate, Body,
         WorkerEnds,
                    LateCommand, LateActivate, vars, gatewayVars, takeoverVars, workerVars,
                    TkFinalizeLost, TkFails
<1> QED
  BY <1>2, <1>3, GenerationsBoot, GenerationsSweep, GenerationsAcceptance,
     GenerationsController, Zenon
     DEF Next, Controller, Misfortune

-----------------------------------------------------------------------------
\* The owner of the workers

\* A takeover belongs to a gateway that boots or to an acceptance.
Takeover ==
    /\ DOMAIN tk = DOMAIN Off
    /\ DOMAIN owner = Workers /\ DOMAIN tk.old = Workers /\ DOMAIN tk.seen = Workers
    /\ tk.at # "off" => gw.st = "boot" \/ acc.at = "owner"
    /\ tk.at \notin {"off", "raised"} => tk.new = gw.id
    /\ \A e \in tk.epochs : e \in Nat /\ e <= world

\* The generation of the workers that the takeover is for.
Target == IF gw.st = "boot" THEN gw.reg ELSE acc.run

\* The phases between the first answers and the first command.
Middle == {"identity", "list", "sweep", "finalize", "relist"}

\* What the takeover has established of a worker, phase by phase.
Listed(w) == owner[w] \in {NoOwner, tk.new, tk.old[w]}

Retired(w) == owner[w] \in {NoOwner, tk.new}

Progress ==
    /\ tk.at = "status" => \A w \in Workers \ tk.todo : Listed(w)
    /\ tk.at \in Middle => \A w \in Workers : Listed(w)
    /\ tk.at = "retire" => \A w \in Workers \ tk.todo : Retired(w)
    /\ tk.at \in {"activate", "confirm", "done"} => \A w \in Workers : Retired(w)
    /\ tk.at \in {"confirm", "done"} /\ world = Target =>
          \A w \in Workers : owner[w] = tk.new \/ (tk.at = "confirm" /\ w \in tk.todo)

\* The workers agree, and a gateway that is up, or has taken a new world over, owns
\* the workers of its world.
Owned ==
    /\ \A v, w \in Workers : NoOwner \in {owner[v], owner[w]} \/ owner[v] = owner[w]
    /\ gw.st = "up" /\ world = gw.reg => \A w \in Workers : owner[w] = gw.id
    /\ acc.at \in {"pull", "persist", "prefix"} /\ world = acc.run =>
          \A w \in Workers : owner[w] = gw.id

OwnerInv == Takeover /\ (~mishap => Progress /\ Owned)

\* A takeover leads from t to u and keeps what it has read.
Leads(t, u) ==
    /\ DOMAIN u = DOMAIN Off /\ u.new = t.new /\ u.old = t.old
    /\ DOMAIN u.seen = Workers /\ u.epochs \subseteq t.epochs
    /\ u.at \in Middle \/ (u.at = "retire" /\ u.todo = OldOf(t))

\* The phases before the first command keep what was read.
LEMMA PhaseLeads ==
    ASSUME NEW t, DOMAIN t = DOMAIN Off, DOMAIN t.seen = Workers
    PROVE  /\ \A at \in Middle : \A ws : Leads(t, Phase(t, at, ws))
           /\ Leads(t, ToRetire(t))
<1>1. \A at \in Middle : \A ws : Leads(t, Phase(t, at, ws))
  BY DEF Leads, Phase, Off
<1> DEFINE u == [t EXCEPT !.seen = Off.seen, !.epochs = {}, !.tries = 0]
<1>2. /\ DOMAIN u = DOMAIN Off /\ u.new = t.new /\ u.old = t.old /\ u.epochs = {}
      /\ DOMAIN u.seen = Workers
  BY Zenon DEF Off
<1>3. ToRetire(t) = Phase(u, "retire", OldOf(t))
  BY DEF ToRetire
<1> HIDE DEF u
<1>4. Leads(t, ToRetire(t))
  BY <1>2, <1>3, Zenon DEF Leads, Phase, Off
<1> QED
  BY <1>1, <1>4

\* So do the steps from one phase to the next.
LEMMA StepsLead ==
    ASSUME NEW t, DOMAIN t = DOMAIN Off, DOMAIN t.seen = Workers
    PROVE  /\ Leads(t, ToList(t)) /\ Leads(t, ToSweep(t)) /\ Leads(t, ToFinalize(t))
           /\ Leads(t, ToRelist(t)) /\ Leads(t, ToRetire(t))
BY PhaseLeads, Zenon DEF ToList, ToSweep, ToFinalize, ToRelist, Middle

\* A step up to the second report raises or goes on with what was read.
Carried ==
    /\ DOMAIN tk' = DOMAIN Off /\ tk'.new = tk.new /\ tk'.old = tk.old
    /\ DOMAIN tk'.seen = Workers /\ tk'.epochs \subseteq tk.epochs \cup {world}
    /\ tk'.at \in Middle \/ (tk'.at = "retire" /\ tk'.todo = OldOf(tk))

\* The copy of the takeover that a step writes before it moves on.
Copy(t) ==
    /\ DOMAIN t = DOMAIN Off /\ t.new = tk.new /\ t.old = tk.old /\ t.at = tk.at
    /\ DOMAIN t.seen = Workers /\ t.epochs \subseteq tk.epochs \cup {world}

\* The step to the next worker of a phase, or to the next phase.
LEMMA CopyCarried ==
    ASSUME NEW t, Copy(t), tk.at \in Middle,
           tk' = [t EXCEPT !.todo = @ \ {This}] \/ Leads(t, tk')
    PROVE  Carried
<1>1. CASE tk' = [t EXCEPT !.todo = @ \ {This}]
  BY <1>1, Zenon DEF Carried, Copy, Off
<1>2. CASE Leads(t, tk')
  BY <1>2, Zenon DEF Carried, Copy, Leads, OldOf
<1> QED
  BY <1>1, <1>2

\* The phases between the status and the retirement only read owners.
LEMMA MiddleSteps ==
    ASSUME Takeover,
           \/ TkIdentity \/ TkList \/ TkSweep \/ TkFinalize \/ TkFinalizeLost \/ TkRelist
           \/ TkOtherEpoch
    PROVE  /\ UNCHANGED <<world, owner>> /\ tk.at \in Middle
           /\ tk' = Raised \/ Carried
<1>1. UNCHANGED <<world, owner>> /\ tk.at \in Middle
  BY Zenon DEF TkIdentity, TkList, TkSweep, TkFinalize, TkFinalizeLost, TkRelist, TkOtherEpoch,
         Answered, At,
         Middle, workerVars
<1>2. CASE TkIdentity
  <2> DEFINE t == [tk EXCEPT !.epochs = @ \cup {world}]
  <2>1. Copy(t)
    BY Zenon DEF Copy, Takeover, Off
  <2>2. tk' = Move(t, ToList)
    BY <1>2 DEF TkIdentity
  <2> HIDE DEF t
  <2>3. tk' = [t EXCEPT !.todo = @ \ {This}] \/ tk' = ToList(t)
    BY <2>2 DEF Move
  <2> QED
    BY <1>1, <2>1, <2>3, StepsLead, CopyCarried, Zenon DEF Copy
<1>3. CASE TkList
  <2> DEFINE t == [tk EXCEPT !.seen[This] = op[This]]
  <2>1. Copy(t)
    BY Zenon DEF Copy, Takeover, Off
  <2>2. tk' = Move(t, ToSweep)
    BY <1>3 DEF TkList
  <2> HIDE DEF t
  <2>3. tk' = [t EXCEPT !.todo = @ \ {This}] \/ tk' = ToSweep(t)
    BY <2>2 DEF Move
  <2> QED
    BY <1>1, <2>1, <2>3, StepsLead, CopyCarried, Zenon DEF Copy
<1>4. CASE TkSweep
  <2> DEFINE t == [tk EXCEPT !.seen[This] = op'[This]]
  <2>1. Copy(t)
    BY Zenon DEF Copy, Takeover, Off
  <2>2. tk' = Move(t, ToFinalize)
    BY <1>4, Zenon DEF TkSweep
  <2> HIDE DEF t
  <2>3. tk' = [t EXCEPT !.todo = @ \ {This}] \/ tk' = ToFinalize(t)
    BY <2>2 DEF Move
  <2> QED
    BY <1>1, <2>1, <2>3, StepsLead, CopyCarried, Zenon DEF Copy
<1>5. Copy(tk)
  BY Zenon DEF Copy, Takeover
<1>6. CASE TkFinalize \/ TkRelist
  <2>1. \/ tk' = Raised \/ tk' = [tk EXCEPT !.todo = @ \ {This}]
        \/ tk' = ToRelist(tk) \/ tk' = ToRetire(tk)
    BY <1>6, Zenon DEF TkFinalize, TkRelist, Move
  <2> QED
    BY <1>1, <1>5, <2>1, StepsLead, CopyCarried, Zenon DEF Copy
<1>7. CASE TkFinalizeLost
  <2>1. tk' = Raised \/ tk' = [tk EXCEPT !.tries = @ + 1]
    BY <1>7, Zenon DEF TkFinalizeLost
  <2> QED
    BY <1>1, <2>1 DEF Carried, Takeover, Off
<1>8. CASE TkOtherEpoch
  BY <1>1, <1>8, Zenon DEF TkOtherEpoch
<1> QED
  BY <1>1, <1>2, <1>3, <1>4, <1>6, <1>7, <1>8, Zenon

\* No two workers name different owners.
Agree == \A v, w \in Workers : NoOwner \in {owner[v], owner[w]} \/ owner[v] = owner[w]

\* A step of a takeover keeps the process and the acceptance; what is left to show
\* is what it says of the owners.
LEMMA TakeoverStepKeeps ==
    ASSUME AdmissionInv, Generations, OwnerInv,
           tk.at \notin {"off", "raised"}, UNCHANGED <<world, gw, acc, mishap>>,
           DOMAIN tk' = DOMAIN Off, DOMAIN owner' = Workers,
           DOMAIN tk'.old = Workers, DOMAIN tk'.seen = Workers,
           tk'.at # "raised" => tk'.new = tk.new,
           tk'.epochs \subseteq tk.epochs \cup {world},
           ~mishap => Progress' /\ Agree'
    PROVE  OwnerInv'
<1>1. gw.st = "boot" \/ acc.at = "owner"
  BY Zenon DEF OwnerInv, Takeover
<1>2. Takeover'
  BY <1>1 DEF OwnerInv, Takeover, Generations, Off
<1>3. /\ ~(gw.st = "up" /\ world = gw.reg)
      /\ acc.at \notin {"pull", "persist", "prefix"}
  BY <1>1 DEF Generations, Unpublished, AdmissionInv, TasksOfUp
<1>4. ~mishap' => Progress' /\ Owned'
  BY <1>3, Zenon DEF Agree, Owned
<1> QED
  BY <1>2, <1>4, Zenon DEF OwnerInv

\* A takeover that raises says nothing about the workers any more.
LEMMA RaiseKeeps ==
    ASSUME AdmissionInv, Generations, OwnerInv,
           tk.at \notin {"off", "raised"}, tk' = Raised, UNCHANGED <<world, owner, gw, acc, mishap>>
    PROVE  OwnerInv'
<1>1. /\ DOMAIN tk' = DOMAIN Off /\ DOMAIN tk'.old = Workers /\ DOMAIN tk'.seen = Workers
      /\ tk'.at = "raised" /\ tk'.epochs = {}
  BY Zenon DEF Raised, Off
<1>2. ~mishap => Progress' /\ Agree'
  BY <1>1, Zenon DEF Progress, Agree, OwnerInv, Owned, Middle
<1> QED
  BY <1>1, <1>2, TakeoverStepKeeps, Zenon DEF OwnerInv, Takeover

\* Identity, reports, sweep and finalize.
LEMMA MiddleKeeps ==
    ASSUME AdmissionInv, Generations, OwnerInv, UNCHANGED <<gw, acc, mishap>>,
           \/ TkIdentity \/ TkList \/ TkSweep \/ TkFinalize \/ TkFinalizeLost \/ TkRelist
           \/ TkOtherEpoch
    PROVE  OwnerInv'
<1>1. UNCHANGED <<world, owner>> /\ tk.at \in Middle /\ (tk' = Raised \/ Carried)
  BY MiddleSteps, Zenon DEF OwnerInv
<1>2. CASE tk' = Raised
  BY <1>1, <1>2, RaiseKeeps, Zenon DEF Middle
<1>3. CASE Carried
  <2>1. ~mishap => Progress' /\ Agree'
    <3> SUFFICES ASSUME ~mishap PROVE Progress' /\ Agree'
      OBVIOUS
    <3>1. \A w \in Workers : owner'[w] \in {NoOwner, tk'.new, tk'.old[w]}
      BY <1>1, <1>3, Zenon DEF OwnerInv, Progress, Listed, Carried
    <3>2. tk'.at = "retire" => \A w \in Workers \ tk'.todo : tk'.old[w] = NoOwner
      BY <1>3, Zenon DEF Carried, OldOf, Middle
    <3>3. tk'.at \in Middle \cup {"retire"}
      BY <1>3, Zenon DEF Carried
    <3>4. Progress'
      BY <3>1, <3>2, <3>3, Zenon DEF Progress, Listed, Retired, Middle
    <3> QED
      BY <1>1, <3>4, Zenon DEF Agree, OwnerInv, Owned
  <2> QED
    BY <1>1, <1>3, <2>1, TakeoverStepKeeps, Zenon DEF Carried, Middle, OwnerInv, Takeover
<1> QED
  BY <1>1, <1>2, <1>3, Zenon

\* An owner that is read is one that the takeover knows from then on.
LEMMA StatusKeeps ==
    ASSUME AdmissionInv, Generations, OwnerInv, UNCHANGED <<gw, acc, mishap>>, TkStatus
    PROVE  OwnerInv'
<1>1. UNCHANGED <<world, owner>> /\ tk.at = "status"
  BY Zenon DEF TkStatus, At, workerVars
<1>2. CASE tk' = Raised
  BY <1>1, <1>2, RaiseKeeps
<1>3. CASE tk' # Raised
  <2> DEFINE x == IF owner[This] = tk.new THEN NoOwner ELSE owner[This]
             t == [tk EXCEPT !.old[This] = x]
  <2>1. /\ DOMAIN t = DOMAIN Off /\ DOMAIN t.old = Workers /\ t.seen = tk.seen
        /\ t.new = tk.new /\ t.at = "status" /\ t.epochs = tk.epochs /\ t.todo = tk.todo
        /\ \A w \in Workers : t.old[w] = IF w = This THEN x ELSE tk.old[w]
    BY <1>1, Zenon DEF OwnerInv, Takeover, Off
  <2>2. tk' = Move(t, ToIdentity)
    BY <1>3, Zenon DEF TkStatus
  <2>3. owner[This] \in {NoOwner, tk.new, x}
    OBVIOUS
  <2> HIDE DEF x, t
  <2>4. \/ tk' = [t EXCEPT !.todo = @ \ {This}]
        \/ t.todo = {This} /\ OldOf(t) = {} /\ tk' = Phase(t, "activate", Workers)
        \/ t.todo = {This} /\ tk' = Phase(t, "identity", OldOf(t))
    BY <1>3, <2>2, Zenon DEF Move, ToIdentity, ToActivate
  <2>5. /\ DOMAIN tk' = DOMAIN Off /\ tk'.new = t.new /\ tk'.old = t.old
        /\ tk'.seen = t.seen /\ tk'.epochs = t.epochs
        /\ \/ tk'.at = "status" /\ tk'.todo = t.todo \ {This}
           \/ t.todo = {This} /\ OldOf(t) = {} /\ tk'.at = "activate"
           \/ t.todo = {This} /\ tk'.at = "identity"
    BY <2>1, <2>4, ZenonT(20) DEF Phase, Off
  <2>6. ~mishap => Progress' /\ Agree'
    <3> SUFFICES ASSUME ~mishap PROVE Progress' /\ Agree'
      OBVIOUS
    <3>1. \A w \in Workers \ (tk.todo \ {This}) : owner[w] \in {NoOwner, tk.new, t.old[w]}
      BY <1>1, <2>1, <2>3, Zenon DEF OwnerInv, Progress, Listed
    <3>2. CASE tk'.at = "activate"
      <4>1. \A w \in Workers : owner'[w] \in {NoOwner, tk'.new}
        BY <1>1, <2>1, <2>5, <3>1, <3>2 DEF OldOf
      <4> QED
        BY <1>1, <3>2, <4>1, Zenon DEF Progress, Retired, Middle, Agree, OwnerInv, Owned
    <3>3. CASE tk'.at \in {"status", "identity"}
      BY <1>1, <2>1, <2>5, <3>1, <3>3 DEF Progress, Listed, Middle, Agree, OwnerInv, Owned
    <3> QED
      BY <2>5, <3>2, <3>3, Zenon
  <2> QED
    BY <1>1, <2>1, <2>5, <2>6, TakeoverStepKeeps DEF OwnerInv, Takeover
<1> QED
  BY <1>2, <1>3

\* A worker is let go or is as before.
LEMMA RetireOwners ==
    ASSUME DOMAIN owner = Workers, NEW v, Retire(v)
    PROVE  /\ DOMAIN owner' = Workers
           /\ \A w \in Workers : owner'[w] \in {NoOwner, owner[w]}
BY Zenon DEF Retire

\* Retire-all leaves no worker with another owner.
LEMMA RetireKeeps ==
    ASSUME AdmissionInv, Generations, OwnerInv, UNCHANGED <<gw, acc, mishap>>, TkRetire
    PROVE  OwnerInv'
<1>1. UNCHANGED world /\ tk.at = "retire" /\ DOMAIN owner = Workers
  BY Zenon DEF TkRetire, At, OwnerInv, Takeover
<1>2. CASE tk' = Raised /\ UNCHANGED owner
  BY <1>1, <1>2, RaiseKeeps
<1>3. CASE UNCHANGED tk /\ Retire(This)
  <2>1. DOMAIN owner' = Workers /\ \A w \in Workers : owner'[w] \in {NoOwner, owner[w]}
    BY <1>1, <1>3, RetireOwners, Zenon
  <2>2. ~mishap => Progress' /\ Agree'
    BY <1>1, <1>3, <2>1 DEF OwnerInv, Owned, Agree, Progress, Retired, Middle
  <2> QED
    BY <1>1, <1>3, <2>1, <2>2, TakeoverStepKeeps, Zenon DEF OwnerInv, Takeover
<1>4. CASE owner[This] \in {NoOwner, tk.new} /\ tk' = Move(tk, ToActivate) /\ UNCHANGED owner
  <2>1. \/ tk' = [tk EXCEPT !.todo = @ \ {This}]
        \/ tk.todo = {This} /\ tk' = Phase(tk, "activate", Workers)
    BY <1>4, Zenon DEF Move, ToActivate
  <2>2. /\ DOMAIN tk' = DOMAIN Off /\ tk'.new = tk.new /\ tk'.old = tk.old
        /\ tk'.seen = tk.seen /\ tk'.epochs = tk.epochs
        /\ \/ tk'.at = "retire" /\ tk'.todo = tk.todo \ {This}
           \/ tk.todo = {This} /\ tk'.at = "activate"
    BY <1>1, <2>1, Zenon DEF Phase, Off, OwnerInv, Takeover
  <2>3. ~mishap => Progress' /\ Agree'
    BY <1>1, <1>4, <2>2 DEF OwnerInv, Owned, Agree, Progress, Retired, Middle
  <2> QED
    BY <1>1, <1>4, <2>2, <2>3, TakeoverStepKeeps, Zenon DEF OwnerInv, Takeover
<1> QED
  BY <1>2, <1>3, <1>4, Zenon DEF TkRetire

\* Activate-all finds workers that have no other owner.
LEMMA ActivateKeeps ==
    ASSUME AdmissionInv, Generations, OwnerInv, UNCHANGED <<gw, acc, mishap>>, TkActivate
    PROVE  OwnerInv'
<1>1. UNCHANGED world /\ tk.at = "activate" /\ DOMAIN owner = Workers
  BY Zenon DEF TkActivate, At, OwnerInv, Takeover
<1>2. CASE tk' = Raised /\ UNCHANGED owner
  BY <1>1, <1>2, RaiseKeeps
<1>3. CASE UNCHANGED tk /\ (Retire(This) \/ owner' = [owner EXCEPT ![This] = tk.new])
  <2>1. DOMAIN owner' = Workers /\ \A w \in Workers : owner'[w] \in {NoOwner, owner[w], tk.new}
    BY <1>1, <1>3, RetireOwners, Zenon
  <2>2. ~mishap => Progress' /\ Agree'
    BY <1>1, <1>3, <2>1, Zenon DEF OwnerInv, Agree, Progress, Retired, Middle
  <2> QED
    BY <1>1, <1>3, <2>1, <2>2, TakeoverStepKeeps, Zenon DEF OwnerInv, Takeover
<1>4. CASE owner[This] = tk.new /\ tk' = Move(tk, ToConfirm) /\ UNCHANGED owner
  <2>1. \/ tk' = [tk EXCEPT !.todo = @ \ {This}]
        \/ tk' = Phase(tk, "confirm", Workers)
    BY <1>4 DEF Move, ToConfirm
  <2>2. /\ DOMAIN tk' = DOMAIN Off /\ tk'.new = tk.new /\ tk'.old = tk.old
        /\ tk'.seen = tk.seen /\ tk'.epochs = tk.epochs
        /\ tk'.at = "activate" \/ (tk'.at = "confirm" /\ tk'.todo = Workers)
    BY <1>1, <2>1, Zenon DEF Phase, Off, OwnerInv, Takeover
  <2>3. ~mishap => Progress' /\ Agree'
    BY <1>1, <1>4, <2>2 DEF OwnerInv, Owned, Agree, Progress, Retired, Middle
  <2> QED
    BY <1>1, <1>4, <2>2, <2>3, TakeoverStepKeeps, Zenon DEF OwnerInv, Takeover
<1> QED
  BY <1>2, <1>3, <1>4, Zenon DEF TkActivate

\* After the confirmation the new owner has all workers of its world.
LEMMA ConfirmKeeps ==
    ASSUME AdmissionInv, Generations, OwnerInv, UNCHANGED <<gw, acc, mishap>>, TkConfirm
    PROVE  OwnerInv'
<1>1. UNCHANGED <<world, owner>> /\ tk.at = "confirm"
  BY Zenon DEF TkConfirm, At, workerVars
<1>2. CASE tk' = Raised
  BY <1>1, <1>2, RaiseKeeps
<1>3. CASE tk' # Raised
  <2>1. /\ owner[This] = tk.new
        /\ \/ tk' = [tk EXCEPT !.todo = @ \ {This}]
           \/ tk.todo = {This} /\ tk' = Phase(tk, "done", {})
    BY <1>3, Zenon DEF TkConfirm, Move, ToDone
  <2>2. /\ DOMAIN tk' = DOMAIN Off /\ tk'.new = tk.new /\ tk'.old = tk.old
        /\ tk'.seen = tk.seen /\ tk'.epochs = tk.epochs
        /\ \/ tk'.at = "confirm" /\ tk'.todo = tk.todo \ {This}
           \/ tk.todo = {This} /\ tk'.at = "done"
    BY <1>1, <2>1, Zenon DEF Phase, Off, OwnerInv, Takeover
  <2>3. ASSUME ~mishap PROVE Progress' /\ Agree'
    <3>1. \A w \in Workers : Retired(w)
      BY <1>1, <2>3, Zenon DEF OwnerInv, Progress
    <3>2. world = Target => \A w \in Workers \ (tk.todo \ {This}) : owner[w] = tk.new
      BY <1>1, <2>1, <2>3, Zenon DEF OwnerInv, Progress
    <3>3. Target' = Target
      BY DEF Target
    <3>4. Progress'
      BY <1>1, <2>2, <3>1, <3>2, <3>3, Zenon DEF Progress, Retired, Middle
    <3> QED
      BY <1>1, <2>3, <3>4, Zenon DEF Agree, OwnerInv, Owned
  <2> QED
    BY <1>1, <2>2, <2>3, TakeoverStepKeeps, Zenon DEF OwnerInv, Takeover
<1> QED
  BY <1>2, <1>3

\* Every step of a takeover.
LEMMA TakeoverKeeps ==
    ASSUME AdmissionInv, Generations, OwnerInv, UNCHANGED <<gw, acc, mishap>>,
           TakeoverStep \/ TkFinalizeLost \/ TkFails
    PROVE  OwnerInv'
<1>1. CASE TkDeadline \/ TkFails
  BY <1>1, RaiseKeeps, Zenon DEF TkDeadline, TkFails, At, workerVars
<1> QED
  BY <1>1, MiddleKeeps, StatusKeeps, RetireKeeps, ActivateKeeps, ConfirmKeeps, Zenon
     DEF TakeoverStep

\* No worker has an owner at the beginning.
LEMMA InitOwners == Init => OwnerInv
BY RestartAssumption DEF Init, OwnerInv, Takeover, Progress, Owned, Listed, Retired, Middle,
       Off, Dead, Idle

\* The steps of an acceptance between the takeover and the publication.
TakenOver == {"pull", "persist", "prefix"}

\* Steps of others.
LEMMA OwnersElsewhere ==
    ASSUME OwnerInv, UNCHANGED <<world, owner, tk, mishap>>,
           gw'.st = gw.st, gw'.id = gw.id, gw'.reg = gw.reg,
           \/ acc' = acc
           \/ acc.at # "owner" /\ acc'.at \notin {"owner"} \cup TakenOver
           \/ {acc.at, acc'.at} \subseteq TakenOver /\ acc'.run = acc.run
    PROVE  OwnerInv'
<1>1. Takeover'
  BY Zenon DEF OwnerInv, Takeover, TakenOver
<1>2. ASSUME ~mishap PROVE Progress'
  <2>1. tk.at # "off" => Target' = Target
    BY Zenon DEF Target, OwnerInv, Takeover, TakenOver
  <2> QED
    BY <1>2, <2>1, Zenon DEF OwnerInv, Progress, Listed, Retired, Middle
<1>3. ASSUME ~mishap PROVE Owned'
  BY <1>3, Zenon DEF OwnerInv, Owned, TakenOver
<1> QED
  BY <1>1, <1>2, <1>3, Zenon DEF OwnerInv

\* A takeover begins, or is over.
LEMMA TakeoverEnds ==
    ASSUME OwnerInv, UNCHANGED <<world, owner, mishap>>, tk' = Off \/ tk' = Raised,
           tk'.at = "off" \/ gw'.st = "boot" \/ acc'.at = "owner",
           ~mishap => Owned'
    PROVE  OwnerInv'
BY DEF OwnerInv, Takeover, Progress, Middle, Off, Raised

\* Nothing is known of the workers when a takeover begins.
LEMMA TakeoverBegins ==
    ASSUME OwnerInv, UNCHANGED <<world, owner, mishap>>, NEW fence,
           tk' = TakeOver(gw'.id, fence),
           gw'.st = "boot" \/ acc'.at = "owner",
           ~mishap => Owned'
    PROVE  OwnerInv'
<1>1. /\ DOMAIN tk' = DOMAIN Off /\ tk'.at = "status" /\ tk'.todo = Workers
      /\ tk'.new = gw'.id /\ tk'.epochs = {}
      /\ DOMAIN tk'.old = Workers /\ DOMAIN tk'.seen = Workers
  BY DEF TakeOver, Off
<1> QED
  BY <1>1, Zenon DEF OwnerInv, Takeover, Progress, Middle

\* A gateway that comes up has all workers of its world; one that dies leaves them.
LEMMA OwnersBoot ==
    ASSUME AdmissionInv, Generations, OwnerInv, Booting \/ Crash \/ BootRetries \/ LoopDies \/ Lapse
    PROVE  OwnerInv'
<1>1. ASSUME Die PROVE OwnerInv'
  <2>1. /\ UNCHANGED <<world, owner, mishap>> /\ tk' = Off /\ gw'.st = "down"
        /\ acc'.at = "idle" /\ tk'.at = "off"
    BY <1>1, Zenon DEF Die, Dead, Idle, Off, workerVars
  <2>2. ~mishap => Owned'
    BY <2>1, Zenon DEF OwnerInv, Owned
  <2> QED
    BY <2>1, <2>2, TakeoverEnds, Zenon
<1>2. CASE BootFails \/ Probe \/ Crash
  BY <1>1, <1>2 DEF BootFails, Probe, Crash
<1>3. CASE Boot
  <2>1. PICK o \in Owners : gw' = [Dead EXCEPT !.st = "boot", !.id = o, !.reg = mount.gen,
                                !.need = mount.acc # mount.gen, !.rpc = TRUE,
                                !.pend = IF mount.acc # mount.gen THEN mount.gen ELSE 0]
                           /\ tk' = Preflight(o)
    BY <1>3, Zenon DEF Boot
  <2>2. gw'.st = "boot" /\ gw'.id = o
    BY <2>1, Zenon DEF Dead
  <2>3. UNCHANGED <<world, owner, mishap, acc>> /\ acc.at = "idle"
    BY <1>3, Zenon DEF Boot, workerVars, AdmissionInv, TasksOfUp
  <2>4. ~mishap => Owned'
    BY <2>2, <2>3, Zenon DEF OwnerInv, Owned
  <2>5. tk' = Raised \/ \E fence : tk' = TakeOver(gw'.id, fence)
    BY <2>1, <2>2, Zenon DEF Preflight
  <2> QED
    BY <2>2, <2>3, <2>4, <2>5, TakeoverEnds, TakeoverBegins, Zenon
<1>4. CASE BootReady
  <2>1. /\ gw.st = "boot" /\ tk.at = "done" /\ world = gw.reg /\ tk' = Off
        /\ gw'.id = gw.id /\ UNCHANGED <<world, owner, mishap, acc>> /\ acc.at = "idle"
    BY <1>4, Zenon DEF BootReady, Answers, workerVars, AdmissionInv, Shape, TasksOfUp
  <2>2. ~mishap => \A w \in Workers : owner[w] = gw.id
    BY <2>1, Zenon DEF OwnerInv, Takeover, Progress, Target
  <2>3. ~mishap => Owned'
    BY <2>1, <2>2, Zenon DEF OwnerInv, Owned
  <2> QED
    BY <2>1, <2>3, TakeoverEnds, Zenon DEF Off
<1>5. CASE BootRetries
  <2>1. /\ UNCHANGED <<world, owner, mishap, gw, acc>> /\ gw.st = "boot"
        /\ tk' = TakeOver(gw.id, tk.fence)
    BY <1>5, Zenon DEF BootRetries, workerVars, gatewayVars
  <2>2. ~mishap => Owned'
    BY <2>1, Zenon DEF OwnerInv, Owned
  <2> QED
    BY <2>1, <2>2, TakeoverBegins, Zenon
<1>6. CASE LoopDies \/ Lapse
  <2>1. /\ gw'.st = gw.st /\ gw'.id = gw.id /\ gw'.reg = gw.reg
        /\ UNCHANGED <<world, owner, tk, mishap, acc>>
    BY <1>6, Zenon DEF LoopDies, Lapse, takeoverVars, AdmissionInv, Shape
  <2> QED
    BY <2>1, OwnersElsewhere, Zenon
<1> QED
  BY <1>2, <1>3, <1>4, <1>5, <1>6 DEF Booting

\* The sweep touches the gates only.
LEMMA OwnersSweep ==
    ASSUME AdmissionInv, OwnerInv, Sweep
    PROVE  OwnerInv'
<1>1. UNCHANGED <<world, owner, tk, mishap, acc>>
  BY Zenon DEF Sweep, SweepStart, SweepOk, SweepIncomplete, SweepDrift, takeoverVars
<1>2. gw' = gw \/ \E o, p : gw' = [gw EXCEPT !.open = o, !.rpc = p]
  BY Zenon DEF Sweep, SweepStart, SweepOk, SweepIncomplete, SweepDrift, Swept
<1>3. SameGateway
  BY <1>2, GatewayFields, Zenon DEF SameGateway
<1> QED
  BY <1>1, <1>3, OwnersElsewhere, Zenon DEF SameGateway

\* An acceptance begins without a takeover.
LEMMA OwnersPost ==
    ASSUME AdmissionInv, OwnerInv, NEW run \in Runs, Post(run)
    PROVE  OwnerInv'
<1>1. UNCHANGED <<world, owner, tk, mishap>> /\ acc.at = "idle"
  BY Zenon DEF Post, PostSealed, PostCold, PostUnsealed, PostStage, Asked, takeoverVars
<1>2. acc' = Idle \/ \E at \in {"sealed", "cold", "unsealed", "stop"} : acc' = Task(run, at)
  BY Zenon DEF Post, PostSealed, PostCold, PostUnsealed, PostStage
<1>3. acc'.at \notin {"owner"} \cup TakenOver
  <2>1. Idle.at = "idle" /\ \A at : Task(run, at).at = at
    BY DEF Task, Idle
  <2>2. acc'.at \in {"idle", "sealed", "cold", "unsealed", "stop"}
    BY <1>2, <2>1
  <2> QED
    BY <2>2 DEF TakenOver
<1>4. gw' = Begun(run) \/ \E l : gw' = [Begun(run) EXCEPT !.loop = l]
  BY Zenon DEF Post, PostSealed, PostCold, PostUnsealed, PostStage
<1>5. gw'.st = gw.st /\ gw'.id = gw.id /\ gw'.reg = gw.reg
  <2> DEFINE b == Begun(run)
  <2>1. b.st = gw.st /\ b.id = gw.id /\ b.reg = gw.reg /\ DOMAIN b = DOMAIN gw
    BY DEF Begun, AdmissionInv, Shape
  <2>2. gw' = b \/ \E l : gw' = [b EXCEPT !.loop = l]
    BY <1>4
  <2> HIDE DEF b
  <2> QED
    BY <2>1, <2>2 DEF AdmissionInv, Shape
<1> QED
  BY <1>1, <1>3, <1>5, OwnersElsewhere, Zenon

\* The gateway owns the new world before it publishes it.
LEMMA OwnersAcceptance ==
    ASSUME AdmissionInv, Generations, OwnerInv, Acceptance \/ AccPersistFails \/ AccSealFails
    PROVE  OwnerInv'
<1>1. CASE AccFails \/ AccRefused \/ AccPersistFails \/ AccSealFails \/ RecoverLive
  <2>1. UNCHANGED <<world, owner, tk, mishap, gw>> /\ acc' = Idle /\ acc.at # "owner"
    BY <1>1, Zenon DEF AccFails, AccRefused, AccPersistFails, AccSealFails, RecoverLive, AccEnds,
                takeoverVars
  <2> QED
    BY <2>1, OwnersElsewhere, Zenon DEF Idle, TakenOver
<1>2. CASE AccFinalize \/ RecoverSealed \/ RecoverCold \/ RecoverUnsealed
  <2>1. Finalize(acc.run) /\ UNCHANGED <<world, owner, tk, mishap>> /\ acc.at # "owner"
    BY <1>2, Zenon DEF AccFinalize, RecoverSealed, RecoverCold, RecoverUnsealed, takeoverVars
  <2>2. /\ acc' = Idle
        /\ \/ gw' = Known(acc.run)
           \/ gw' = [Known(acc.run) EXCEPT !.need = FALSE, !.pend = 0, !.open = TRUE]
    BY <2>1 DEF Finalize, AccEnds
  <2>3. SameGateway
    BY <2>2, GatewayFields, Zenon
  <2> QED
    BY <2>1, <2>2, <2>3, OwnersElsewhere, Zenon DEF Idle, TakenOver, SameGateway
<1>3. CASE AccFreeze
  <2>1. /\ UNCHANGED <<world, owner, mishap>> /\ acc.at = "stop" /\ gw.st = "up"
        /\ gw' = gw \/ \E x : gw' = [gw EXCEPT !.rec = x]
        /\ \/ acc' = Idle /\ UNCHANGED tk
           \/ acc'.at = "owner" /\ tk' = TakeOver(gw.id, Owners)
    BY <1>3, Zenon DEF AccFreeze, AccEnds, workerVars, AdmissionInv, Shape, TasksOfUp
  <2>2. SameGateway
    BY <2>1, GatewayFields, Zenon DEF SameGateway
  <2>3. CASE acc' = Idle /\ UNCHANGED tk
    BY <2>1, <2>2, <2>3, OwnersElsewhere, Zenon DEF Idle, TakenOver, SameGateway
  <2>4. CASE acc'.at = "owner" /\ tk' = TakeOver(gw.id, Owners)
    <3>1. ~mishap => Owned'
      BY <2>1, <2>2, <2>4, Zenon DEF OwnerInv, Owned, SameGateway
    <3> QED
      BY <2>1, <2>2, <2>4, <3>1, TakeoverBegins, Zenon DEF SameGateway
  <2> QED
    BY <2>1, <2>3, <2>4
<1>4. CASE AccOwned
  <2>1. /\ UNCHANGED <<world, owner, mishap, gw>> /\ tk' = Off /\ gw.st = "up" /\ acc.at = "owner"
        /\ \/ acc' = Idle
           \/ acc'.at = "pull" /\ acc'.run = acc.run /\ tk.at = "done"
    BY <1>4, Zenon DEF AccOwned, workerVars, AdmissionInv, Shape, TasksOfUp
  <2>2. ~mishap /\ tk.at = "done" /\ world = acc.run => \A w \in Workers : owner[w] = gw.id
    BY <2>1, Zenon DEF OwnerInv, Takeover, Progress, Target
  <2>3. ~mishap => Owned'
    BY <2>1, <2>2 DEF OwnerInv, Owned, Idle
  <2> QED
    BY <2>1, <2>3, TakeoverEnds, Zenon DEF Off
<1>5. CASE AccPull \/ AccSeal
  <2>1. /\ UNCHANGED <<world, owner, tk, mishap, gw>> /\ acc'.run = acc.run
        /\ \/ acc.at = "pull" /\ acc'.at = "persist"
           \/ acc.at = "final" /\ acc'.at = "last"
    BY <1>5, Zenon DEF AccPull, AccSeal, takeoverVars, AdmissionInv, Shape
  <2> QED
    BY <2>1, OwnersElsewhere, Zenon DEF TakenOver
<1>6. ASSUME UNCHANGED <<world, owner, tk, mishap>>, acc.at \in {"persist", "prefix"},
             acc'.at = "final", gw'.st = gw.st, gw'.id = gw.id, gw'.reg = acc.run
      PROVE  OwnerInv'
  <2>1. gw.st = "up"
    BY <1>6, Zenon DEF AdmissionInv, TasksOfUp
  <2>2. Takeover' /\ tk.at = "off"
    BY <1>6, <2>1, Zenon DEF OwnerInv, Takeover
  <2>3. ~mishap => Progress' /\ Owned'
    BY <1>6, <2>1, <2>2, Zenon DEF OwnerInv, Progress, Owned, Middle
  <2> QED
    BY <1>6, <2>2, <2>3, Zenon DEF OwnerInv
<1>7. CASE AccPersist
  <2>1. /\ UNCHANGED <<world, owner, tk, mishap>> /\ acc.at = "persist" /\ acc'.run = acc.run
        /\ IF affinity THEN acc'.at = "prefix" /\ gw' = Committed(acc.run)
           ELSE acc'.at = "final" /\ gw' = Published(Committed(acc.run), acc.run)
    BY <1>7, Zenon DEF AccPersist, takeoverVars, AdmissionInv, Shape
  <2> DEFINE c == Committed(acc.run)
  <2>2. c.st = gw.st /\ c.id = gw.id /\ c.reg = gw.reg /\ DOMAIN c = DOMAIN gw
    BY DEF Committed, AdmissionInv, Shape
  <2>3. gw' = IF affinity THEN c ELSE Published(c, acc.run)
    BY <2>1, Zenon
  <2> HIDE DEF c
  <2>4. CASE affinity
    BY <2>1, <2>2, <2>3, <2>4, OwnersElsewhere, Zenon DEF TakenOver
  <2>5. CASE ~affinity
    <3>1. gw'.st = gw.st /\ gw'.id = gw.id /\ gw'.reg = acc.run
      BY <2>2, <2>3, <2>5 DEF Published, AdmissionInv, Shape
    <3> QED
      BY <1>6, <2>1, <2>5, <3>1, Zenon
  <2> QED
    BY <2>4, <2>5
<1>8. CASE AccPrefix
  <2>1. /\ UNCHANGED <<world, owner, tk, mishap>> /\ acc.at = "prefix"
        /\ acc'.at = "final" /\ gw' = Published(gw, acc.run)
    BY <1>8, Zenon DEF AccPrefix, takeoverVars, AdmissionInv, Shape
  <2>2. gw'.st = gw.st /\ gw'.id = gw.id /\ gw'.reg = acc.run
    BY <2>1 DEF Published, AdmissionInv, Shape
  <2> QED
    BY <1>6, <2>1, <2>2, Zenon
<1>9. CASE TakeoverStep /\ UNCHANGED <<affinity, gatewayVars, store, mount, ctl, faults, mishap>>
  BY <1>9, TakeoverKeeps, Zenon DEF gatewayVars
<1> QED
  BY <1>1, <1>2, <1>3, <1>4, <1>5, <1>7, <1>8, <1>9, Zenon DEF Acceptance

\* New workers have no owner, and belong to no world of a gateway yet.
LEMMA OwnersRestart ==
    ASSUME AdmissionInv, Generations, OwnerInv, StartWorld
    PROVE  OwnerInv'
<1>1. /\ UNCHANGED <<tk, gw, acc, mishap>> /\ world' = world + 1
      /\ owner' = [w \in Workers |-> NoOwner]
  BY DEF StartWorld, Generations, gatewayVars
<1>2. Takeover'
  BY <1>1 DEF OwnerInv, Takeover, Generations
<1>3. tk.at # "off" => world' # Target
  BY <1>1 DEF OwnerInv, Takeover, Target, Generations
<1>4. Target' = Target
  BY <1>1 DEF Target
<1>5. Progress'
  BY <1>1, <1>3, <1>4, Zenon DEF Progress, Listed, Retired, Middle
<1>6. gw.st = "up" => world' # gw.reg
  BY <1>1 DEF Generations
<1>7. acc.at # "idle" => world' # acc.run
  BY <1>1 DEF Generations
<1>8. Owned'
  BY <1>1, <1>6, <1>7, Zenon DEF Owned
<1> QED
  BY <1>2, <1>5, <1>8 DEF OwnerInv

\* Every step keeps the invariant of the owners.
LEMMA NextKeepsOwners == AdmissionInv /\ Generations /\ OwnerInv /\ [Next]_vars => OwnerInv'
<1> SUFFICES ASSUME AdmissionInv, Generations, OwnerInv, [Next]_vars PROVE OwnerInv'
  OBVIOUS
<1>1. CASE UNCHANGED <<world, owner, tk, gw, acc, mishap>>
  BY <1>1, OwnersElsewhere, Zenon
<1>2. CASE \E run \in Runs : Post(run)
  BY <1>2, OwnersPost
<1>3. CASE \/ Loop \/ StopWorld \/ PersistWorld \/ Capture
           \/ \E r \in Reqs : Gate(r) \/ Body(r)
           \/ \E w \in Workers : WorkerEnds(w) \/ LateCommand(w)
           \/ UNCHANGED vars
  BY <1>1, <1>3, Zenon DEF Loop, Serve, Complete, Gate, Body, WorkerEnds, LateCommand, vars,
         gatewayVars,
                    takeoverVars, StopWorld, PersistWorld, Capture
<1>4. CASE \E w \in Workers, o \in Owners : LateActivate(w, o)
  <2>1. UNCHANGED <<world, tk, gw, acc>> /\ mishap' = TRUE /\ DOMAIN owner' = Workers
    BY <1>4, Zenon DEF LateActivate, gatewayVars, OwnerInv, Takeover
  <2> QED
    BY <2>1, Zenon DEF OwnerInv, Takeover
<1>5. CASE TakeoverFault
  BY <1>5, TakeoverKeeps, Zenon DEF TakeoverFault, gatewayVars
<1> QED
  BY <1>2, <1>3, <1>4, <1>5, OwnersBoot, OwnersSweep, OwnersAcceptance, OwnersRestart, Zenon
     DEF Next, Controller, Misfortune

\* What it says of the workers.
LEMMA OwnersSuffice == OwnerInv => OneOwner
BY Zenon DEF OwnerInv, Owned, OneOwner

-----------------------------------------------------------------------------
\* Writers stop before resources are freed

\* An operation that the sweep has been through has stopped on this worker, as
\* long as the worker process is the one that was asked.
Stopped ==
    /\ op \in [Workers -> OpStates]
    /\ tk.at \in {"sweep", "finalize"} /\ Bound =>
          \A w \in Workers : tk.seen[w] # "none" =>
             op[w] \in Terminal \/ (tk.at = "sweep" /\ w \in tk.todo)

\* No operation runs at the beginning.
LEMMA InitStopped == Init => Stopped
BY DEF Init, Stopped, Off, OpStates

\* The invariant is about two phases only.
LEMMA StoppedOutside ==
    ASSUME op' \in [Workers -> OpStates], tk'.at \notin {"sweep", "finalize"}
    PROVE  Stopped'
BY DEF Stopped

\* Steps of others.
LEMMA StoppedElsewhere ==
    ASSUME Stopped, UNCHANGED <<world, op, tk>>
    PROVE  Stopped'
BY Zenon DEF Stopped, Bound

\* The sweep leaves the operation terminal on the worker in hand.
LEMMA SweepStops ==
    ASSUME Takeover, Stopped, TkSweep
    PROVE  Stopped'
<1> DEFINE t == [tk EXCEPT !.seen[This] = op'[This]]
<1>1. /\ tk.at = "sweep" /\ Bound /\ UNCHANGED world
      /\ op' = [op EXCEPT ![This] = IF @ = "run" THEN "held" ELSE @]
      /\ tk' = Move(t, ToFinalize)
  BY Zenon DEF TkSweep, Answered, At
<1>2. /\ DOMAIN t = DOMAIN Off /\ t.at = "sweep" /\ t.todo = tk.todo /\ t.epochs = tk.epochs
      /\ \A w \in Workers : t.seen[w] = IF w = This THEN op'[w] ELSE tk.seen[w]
  BY <1>1 DEF Takeover, Off
<1>3. op' \in [Workers -> OpStates]
  BY <1>1, Zenon DEF Stopped, OpStates
<1>4. \A w \in Workers \ (tk.todo \ {This}) : t.seen[w] # "none" => op'[w] \in Terminal
  BY <1>1, <1>2 DEF Stopped, OpStates, Terminal
<1> HIDE DEF t
<1>5. \/ tk' = [t EXCEPT !.todo = @ \ {This}]
      \/ t.todo = {This} /\ \E at \in {"relist", "finalize"} : \E ws : tk' = Phase(t, at, ws)
  BY <1>1, Zenon DEF Move, ToFinalize, ToRelist
<1>6. /\ tk'.seen = t.seen
      /\ \/ tk'.at = "sweep" /\ tk'.todo = tk.todo \ {This}
         \/ tk.todo = {This} /\ tk'.at \in {"relist", "finalize"}
  BY <1>2, <1>5, Zenon DEF Phase, Off
<1> QED
  BY <1>3, <1>4, <1>6, Zenon DEF Stopped

\* A finalize makes no operation run.
LEMMA FinalizeStops ==
    ASSUME Takeover, Stopped, TkFinalize \/ TkFinalizeLost
    PROVE  Stopped'
<1>1. /\ tk.at = "finalize" /\ Bound /\ UNCHANGED world
      /\ op' \in {op, [op EXCEPT ![This] = "done"]}
  BY Zenon DEF TkFinalize, TkFinalizeLost, Answered, At
<1>2. /\ op' \in [Workers -> OpStates]
      /\ \A w \in Workers : op[w] \in Terminal => op'[w] \in Terminal
  BY <1>1, Zenon DEF Stopped, OpStates, Terminal
<1>3. \/ tk' = Raised \/ tk' = [tk EXCEPT !.todo = @ \ {This}]
      \/ tk' = [tk EXCEPT !.tries = @ + 1] \/ tk' = Phase(tk, "relist", OldOf(tk))
  BY Zenon DEF TkFinalize, TkFinalizeLost, Move, ToRelist
<1>4. tk'.at \in {"raised", "relist"} \/ (tk'.at = "finalize" /\ tk'.seen = tk.seen)
  BY <1>1, <1>3, Zenon DEF Raised, Phase, Takeover, Off
<1> QED
  BY <1>1, <1>2, <1>4, Zenon DEF Stopped

\* The sweep goes through all workers that were listed.
LEMMA ListStops ==
    ASSUME Takeover, Stopped, TkList
    PROVE  Stopped'
<1> DEFINE t == [tk EXCEPT !.seen[This] = op[This]]
<1>1. tk.at = "list" /\ UNCHANGED <<world, op>> /\ tk' = Move(t, ToSweep)
  BY DEF TkList, Answered, At, workerVars
<1>2. DOMAIN t = DOMAIN Off /\ t.at = "list"
  BY <1>1, Zenon DEF Takeover, Off
<1> HIDE DEF t
<1> DEFINE listed == {w \in Workers : t.seen[w] # "none"}
<1>3. \/ tk' = [t EXCEPT !.todo = @ \ {This}] \/ tk' = Phase(t, "relist", OldOf(t))
      \/ tk' = Phase(t, "sweep", listed)
  BY <1>1, Zenon DEF Move, ToSweep, ToRelist
<1>4. \A w \in Workers : t.seen[w] # "none" => w \in listed
  OBVIOUS
<1> HIDE DEF listed
<1>5. \/ tk'.at \in {"list", "relist"}
      \/ tk'.at = "sweep" /\ tk'.todo = listed /\ tk'.seen = t.seen
  BY <1>2, <1>3, Zenon DEF Phase, Off
<1> QED
  BY <1>1, <1>4, <1>5, Zenon DEF Stopped

\* The other steps of a takeover.
LEMMA OtherStops ==
    ASSUME Takeover, Stopped,
           \/ TkStatus \/ TkIdentity \/ TkRelist \/ TkOtherEpoch \/ TkRetire
           \/ TkActivate \/ TkConfirm \/ TkDeadline \/ TkFails
    PROVE  Stopped'
<1>1. ASSUME NEW v, Retire(v) PROVE op' \in [Workers -> OpStates]
  BY <1>1, Zenon DEF Retire, Stopped, OpStates
<1>2. op' \in [Workers -> OpStates]
  BY <1>1, Zenon DEF TkStatus, TkIdentity, TkRelist, TkOtherEpoch, TkRetire, TkActivate,
         TkConfirm,
              TkDeadline, TkFails, workerVars, Stopped, OpStates
<1>3. Raised.at = "raised"
  BY DEF Raised, Off
<1>4. ASSUME NEW t, DOMAIN t = DOMAIN Off, t.at \notin {"sweep", "finalize"}, NEW u,
             \/ u = Raised \/ u = t \/ u = [t EXCEPT !.todo = @ \ {This}]
             \/ \E at, ws : at \notin {"sweep", "finalize"} /\ u = Phase(t, at, ws)
      PROVE  u.at \notin {"sweep", "finalize"}
  BY <1>3, <1>4, Zenon DEF Phase, Off
<1>5. CASE TkDeadline \/ TkFails \/ TkOtherEpoch
  BY <1>2, <1>3, <1>5, StoppedOutside, Zenon DEF TkDeadline, TkFails, TkOtherEpoch
<1>6. CASE TkStatus
  <2> DEFINE t == [tk EXCEPT !.old[This] = IF owner[This] = tk.new THEN NoOwner
                                           ELSE owner[This]]
  <2>1. DOMAIN t = DOMAIN Off /\ t.at = "status"
    BY <1>6, Zenon DEF TkStatus, At, Takeover, Off
  <2>2. tk' = Raised \/ tk' = Move(t, ToIdentity)
    BY <1>6, Zenon DEF TkStatus
  <2> HIDE DEF t
  <2>3. \/ tk' = Raised \/ tk' = [t EXCEPT !.todo = @ \ {This}]
        \/ tk' = Phase(t, "activate", Workers) \/ tk' = Phase(t, "identity", OldOf(t))
    BY <2>2, Zenon DEF Move, ToIdentity, ToActivate
  <2> QED
    BY <1>2, <1>4, <2>1, <2>3, StoppedOutside, Zenon
<1>7. CASE TkIdentity
  <2> DEFINE t == [tk EXCEPT !.epochs = @ \cup {world}]
  <2>1. DOMAIN t = DOMAIN Off /\ t.at = "identity"
    BY <1>7, Zenon DEF TkIdentity, At, Takeover, Off
  <2>2. tk' = Move(t, ToList)
    BY <1>7 DEF TkIdentity
  <2> HIDE DEF t
  <2>3. tk' = [t EXCEPT !.todo = @ \ {This}] \/ tk' = Phase(t, "list", OldOf(t))
    BY <2>2 DEF Move, ToList
  <2> QED
    BY <1>2, <1>4, <2>1, <2>3, StoppedOutside, Zenon
<1>8. CASE TkRelist
  <2>1. \/ tk' = Raised \/ tk' = [tk EXCEPT !.todo = @ \ {This}] \/ tk' = ToRetire(tk)
    BY <1>8, Zenon DEF TkRelist, Move
  <2>2. tk.at = "relist" /\ DOMAIN tk = DOMAIN Off /\ DOMAIN tk.seen = Workers
    BY <1>8, Zenon DEF TkRelist, Answered, At, Takeover
  <2>3. ToRetire(tk).at = "retire"
    <3> DEFINE u == [tk EXCEPT !.seen = Off.seen, !.epochs = {}, !.tries = 0]
    <3>1. ToRetire(tk) = Phase(u, "retire", OldOf(tk)) /\ DOMAIN u = DOMAIN Off
      BY <2>2 DEF ToRetire
    <3> HIDE DEF u
    <3> QED
      BY <3>1 DEF Phase, Off
  <2> QED
    BY <1>2, <1>4, <2>1, <2>2, <2>3, StoppedOutside, Zenon
<1>9. CASE TkRetire \/ TkActivate \/ TkConfirm
  <2>1. \/ tk' = Raised \/ tk' = tk \/ tk' = [tk EXCEPT !.todo = @ \ {This}]
        \/ tk' = Phase(tk, "activate", Workers) \/ tk' = Phase(tk, "confirm", Workers)
        \/ tk' = Phase(tk, "done", {})
    BY <1>9, Zenon DEF TkRetire, TkActivate, TkConfirm, Move, ToActivate, ToConfirm, ToDone
  <2>2. tk.at \in {"retire", "activate", "confirm"} /\ DOMAIN tk = DOMAIN Off
    BY <1>9, Zenon DEF TkRetire, TkActivate, TkConfirm, At, Takeover
  <2> QED
    BY <1>2, <1>4, <2>1, <2>2, StoppedOutside, Zenon
<1> QED
  BY <1>5, <1>6, <1>7, <1>8, <1>9

\* Every step keeps it; new workers are of another epoch.
LEMMA NextKeepsStopped ==
    AdmissionInv /\ Generations /\ Takeover /\ Stopped /\ [Next]_vars => Stopped'
<1> SUFFICES ASSUME AdmissionInv, Generations, Takeover, Stopped, [Next]_vars PROVE Stopped'
  OBVIOUS
<1>1. CASE TakeoverStep \/ TakeoverFault
  BY <1>1, SweepStops, FinalizeStops, ListStops, OtherStops, Zenon DEF TakeoverStep, TakeoverFault
<1>2. Off.at = "off" /\ Raised.at = "raised" /\ \A n, f : TakeOver(n, f).at = "status"
  BY DEF Off, Raised, TakeOver
<1>3. CASE Booting \/ Crash \/ BootRetries \/ AccFreeze \/ AccOwned
  <2>1. UNCHANGED <<op, world>>
    BY <1>3, Zenon DEF Booting, Boot, BootReady, BootFails, Probe, Crash, Die, BootRetries,
           AccFreeze,
                AccOwned, workerVars
  <2>2. tk' \in {tk, Off, Raised} \/ \E n, f : tk' = TakeOver(n, f)
    BY <1>3, Zenon DEF Booting, Boot, BootReady, BootFails, Probe, Crash, Die, BootRetries,
           AccFreeze,
                AccOwned, Preflight
  <2>3. CASE tk' = tk
    BY <2>1, <2>3, StoppedElsewhere
  <2> QED
    BY <1>2, <2>1, <2>2, <2>3, StoppedOutside, Zenon DEF Stopped
<1>4. CASE Loop
  <2>1. /\ UNCHANGED tk /\ gw.loop = "run"
        /\ \E x \in {"run", "none"} : op' = [w \in Workers |-> x]
    BY <1>4, Zenon DEF Loop, Serve, Complete
  <2>2. tk.at = "off"
    BY <2>1, Zenon DEF Generations, Unpublished, Takeover, AdmissionInv, TasksOfUp
  <2> QED
    BY <2>1, <2>2, StoppedOutside DEF OpStates
<1>5. CASE StartWorld
  <2>1. UNCHANGED tk /\ world' = world + 1 /\ op' = [w \in Workers |-> "none"]
    BY <1>5 DEF StartWorld, Generations
  <2>2. ~Bound'
    BY <2>1 DEF Bound, Takeover, Generations
  <2> QED
    BY <2>1, <2>2, Zenon DEF Stopped, OpStates
<1>6. CASE \E w \in Workers : WorkerEnds(w) \/ LateCommand(w)
  <2>1. PICK w \in Workers : \/ op[w] = "run" /\ op' = [op EXCEPT ![w] = "held"]
                             \/ op[w] = "none" /\ op' = [op EXCEPT ![w] = "run"]
    BY <1>6, Zenon DEF WorkerEnds, LateCommand
  <2>2. UNCHANGED <<tk, world>>
    BY <1>6, Zenon DEF WorkerEnds, LateCommand
  <2> QED
    BY <2>1, <2>2, Zenon DEF Stopped, Bound, OpStates, Terminal
<1>7. CASE UNCHANGED <<world, op, tk>>
  BY <1>7, StoppedElsewhere
<1>8. CASE Acceptance \/ AccPersistFails \/ AccSealFails
  BY <1>1, <1>3, <1>7, <1>8, Zenon
     DEF Acceptance, AccPull, AccPersist, AccPrefix, AccSeal, AccFinalize, RecoverSealed,
         RecoverCold, RecoverUnsealed, RecoverLive, AccRefused, AccFails, AccPersistFails,
         AccSealFails, takeoverVars
<1>9. CASE \/ Sweep \/ LoopDies \/ Lapse \/ Capture \/ StopWorld \/ PersistWorld
           \/ \E run \in Runs : Post(run)
           \/ \E r \in Reqs : Gate(r) \/ Body(r)
           \/ \E w \in Workers, o \in Owners : LateActivate(w, o)
           \/ UNCHANGED vars
  BY <1>7, <1>9, Zenon
     DEF Sweep, SweepStart, SweepOk, SweepIncomplete, SweepDrift, LoopDies, Lapse, Capture,
         StopWorld, PersistWorld, Post, PostSealed, PostCold, PostUnsealed, PostStage, Gate,
         Body, LateActivate, takeoverVars, vars
<1> QED
  BY <1>1, <1>3, <1>4, <1>5, <1>6, <1>8, <1>9, Zenon DEF Next, Controller, Misfortune

\* Only a finalize frees, and at that time all peers have stopped.
LEMMA StepFreesAfterWriters ==
    ASSUME AdmissionInv, Generations, Takeover, Stopped, [Next]_vars,
           NEW v \in Workers, NEW w \in Workers,
           tk.at = "finalize", op[w] = "held", op'[w] = "done", tk.seen[v] # "none"
    PROVE  op[v] # "run"
<1>1. CASE TkFinalize \/ TkFinalizeLost
  <2>1. Bound
    BY <1>1, Zenon DEF TkFinalize, TkFinalizeLost, Answered
  <2> QED
    BY <2>1, Zenon DEF Stopped, Terminal
<1>2. CASE UNCHANGED op
  BY <1>2
<1>3. CASE Acceptance \/ TakeoverFault \/ AccPersistFails \/ AccSealFails
  BY <1>1, <1>2, <1>3, Zenon
     DEF Acceptance, AccPull, AccPersist, AccPrefix, AccSeal, AccFinalize, RecoverSealed,
         RecoverCold, RecoverUnsealed, RecoverLive, AccRefused, AccFails, AccPersistFails,
         AccSealFails, AccFreeze, AccOwned, takeoverVars, workerVars, TakeoverFault,
         TakeoverStep, TkStatus, TkIdentity, TkList, TkSweep, TkRelist, TkOtherEpoch, TkRetire,
         TkActivate, TkConfirm, TkDeadline, TkFails, Answered, At
<1>4. CASE Loop
  <2>1. \E x \in {"run", "none"} : op' = [u \in Workers |-> x]
    BY <1>4, Zenon DEF Loop, Serve, Complete
  <2> QED
    BY <2>1
<1>5. CASE StartWorld
  BY <1>5, Zenon DEF StartWorld
<1>6. CASE \E u \in Workers : WorkerEnds(u) \/ LateCommand(u)
  BY <1>6, Zenon DEF WorkerEnds, LateCommand, Stopped
<1>7. CASE \/ Booting \/ Crash \/ BootRetries \/ Sweep \/ LoopDies \/ Lapse \/ Capture
           \/ StopWorld \/ PersistWorld
           \/ \E run \in Runs : Post(run)
           \/ \E r \in Reqs : Gate(r) \/ Body(r)
           \/ \E u \in Workers, o \in Owners : LateActivate(u, o)
           \/ UNCHANGED vars
  BY <1>2, <1>7, Zenon
     DEF Booting, Boot, BootReady, BootFails, Probe, Crash, Die, BootRetries, Sweep, SweepStart,
         SweepOk, SweepIncomplete, SweepDrift, LoopDies, Lapse, Capture, StopWorld,
         PersistWorld, Post, PostSealed, PostCold, PostUnsealed, PostStage, Gate, Body,
         LateActivate, takeoverVars, workerVars, vars
<1> QED
  BY <1>3, <1>4, <1>5, <1>6, <1>7, Zenon DEF Next, Controller, Misfortune

-----------------------------------------------------------------------------
\* The records of released slots

Seals == [run : Nat, root : SUBSET Reqs]

\* The newest generation that a run can have been sealed for.
Newest == IF gw.st = "up" THEN gw.led ELSE IF gw.st = "boot" THEN gw.reg ELSE world

\* The log of runs grows: seals are in the order of their runs, and the run that is
\* open, or about to be sealed, is newer than all of them.
Log ==
    /\ store.open \in Nat \cup {NoRun}
    /\ store.seals \in Seq(Seals) /\ store.recs \subseteq Reqs
    /\ \A i, j \in DOMAIN store.seals : i < j => store.seals[i].run < store.seals[j].run
    /\ \A i \in DOMAIN store.seals :
          /\ store.seals[i].run <= Newest
          /\ store.open # NoRun => store.seals[i].run < store.open
          /\ acc.at = "cold" => store.seals[i].run < acc.run
    /\ acc.at \in {"prefix", "final", "unsealed"} => store.open = acc.run
    /\ acc.at = "cold" => store.open = NoRun

\* A slot that is held belongs to a request of the registry in charge.
Slots ==
    /\ rq \in [Reqs -> [at : {"new", "reading", "in", "answered", "lost"}, trk : Nat]]
    /\ \A r \in Reqs :
          /\ lease[r] # "none" => rq[r].at \in {"in", "answered"}
          /\ Live(r) => gw.st = "up" /\ rq[r].trk = gw.reg /\ gw.led = gw.reg

Increasing(s) == \A i, j \in DOMAIN s : i < j => s[i].run < s[j].run

\* The log n is s without its first drop entries, followed by e.
Extends(s, n, k, drop, e) ==
    /\ DOMAIN s = 1 .. k /\ DOMAIN n = 1 .. (k + 1 - drop)
    /\ \A i \in 1 .. (k - drop) : n[i] = s[i + drop]
    /\ n[k + 1 - drop] = e

\* All entries of s are of runs before that of e.
Older(s, k, e) == e.run \in Nat /\ \A i \in 1 .. k : s[i].run \in Nat /\ s[i].run < e.run

\* The log n is in the order of the runs, e is in it, everything else is of s, and
\* only the first entry of s may be missing.
Grown(s, n, e) ==
    /\ Increasing(n)
    /\ \E i \in DOMAIN n : n[i] = e
    /\ \A i \in DOMAIN n : n[i] = e \/ \E j \in DOMAIN s : n[i] = s[j]
    /\ \A i \in DOMAIN s : \/ \E j \in DOMAIN n : n[j] = s[i] /\ (i = 1 => j = 1)
                           \/ i = 1 /\ 1 \in DOMAIN n /\ s[i].run < n[1].run

\* A log that is extended by a newer run, with or without its first entry.
LEMMA LogExtends ==
    ASSUME NEW s, NEW n, NEW k \in Nat, NEW drop \in {0, 1}, NEW e, Extends(s, n, k, drop, e),
           drop = 1 => k >= 1, Older(s, k, e), Increasing(s)
    PROVE  Grown(s, n, e)
<1>1. ASSUME NEW i \in DOMAIN n
      PROVE  \/ i = k + 1 - drop /\ n[i] = e
             \/ i < k + 1 - drop /\ i + drop \in 1 .. k /\ n[i] = s[i + drop]
  <2>1. i \in 1 .. (k + 1 - drop)
    BY <1>1, Zenon DEF Extends
  <2>2. CASE i = k + 1 - drop
    BY <2>2, Zenon DEF Extends
  <2>3. CASE i # k + 1 - drop
    <3>1. i \in 1 .. (k - drop) /\ i + drop \in 1 .. k /\ i < k + 1 - drop
      BY <2>1, <2>3
    <3> QED
      BY <3>1, Zenon DEF Extends
  <2> QED
    BY <2>2, <2>3, Zenon
<1>2. Increasing(n)
  <2> SUFFICES ASSUME NEW i \in DOMAIN n, NEW j \in DOMAIN n, i < j
               PROVE  n[i].run < n[j].run
    BY Zenon DEF Increasing
  <2>1. i \in Nat /\ j \in Nat
    BY DEF Extends
  <2>2. i < k + 1 - drop /\ i + drop \in 1 .. k /\ n[i] = s[i + drop]
    BY <1>1, <2>1 DEF Extends
  <2>3. CASE n[j] = e
    BY <2>2, <2>3, Zenon DEF Older
  <2>4. CASE n[j] # e
    <3>1. j + drop \in 1 .. k /\ n[j] = s[j + drop]
      BY <1>1, <2>4, Zenon
    <3>2. i + drop < j + drop
      BY <2>1
    <3>3. DOMAIN s = 1 .. k
      BY Zenon DEF Extends
    <3> QED
      BY <2>2, <3>1, <3>2, <3>3, Zenon DEF Increasing
  <2> QED
    BY <2>3, <2>4, Zenon
<1>3. \E i \in DOMAIN n : n[i] = e
  <2>1. k + 1 - drop \in 1 .. (k + 1 - drop)
    OBVIOUS
  <2> QED
    BY <2>1, Zenon DEF Extends
<1>4. \A i \in DOMAIN n : n[i] = e \/ \E j \in DOMAIN s : n[i] = s[j]
  BY <1>1, Zenon DEF Extends
<1>5. ASSUME NEW i \in DOMAIN s
      PROVE  \/ \E j \in DOMAIN n : n[j] = s[i] /\ (i = 1 => j = 1)
             \/ i = 1 /\ 1 \in DOMAIN n /\ s[i].run < n[1].run
  <2>1. i \in 1 .. k /\ DOMAIN s = 1 .. k
    BY <1>5, Zenon DEF Extends
  <2>2. CASE i > drop
    <3>1. i - drop \in 1 .. (k - drop) /\ (i - drop) + drop = i
      BY <2>1, <2>2
    <3>2. n[i - drop] = s[i] /\ i - drop \in DOMAIN n
      BY <3>1 DEF Extends
    <3>3. i = 1 => i - drop = 1
      BY <2>2
    <3> QED
      BY <3>2, <3>3, Zenon
  <2>3. CASE ~(i > drop)
    <3>1. i = 1 /\ drop = 1 /\ k >= 1
      BY <2>1, <2>3
    <3>2. 1 \in DOMAIN n
      BY <3>1 DEF Extends
    <3>3. CASE n[1] = e
      BY <2>1, <3>1, <3>2, <3>3, Zenon DEF Older
    <3>4. CASE n[1] # e
      <4>1. 2 \in 1 .. k /\ n[1] = s[2]
        BY <1>1, <3>1, <3>2, <3>4
      <4> QED
        BY <2>1, <3>1, <3>2, <4>1 DEF Increasing
    <3> QED
      BY <3>3, <3>4, Zenon
  <2> QED
    BY <2>2, <2>3, Zenon
<1> QED
  BY <1>2, <1>3, <1>4, <1>5, Zenon DEF Grown

\* What a seal does to the log.
LEMMA SealAppended ==
    ASSUME NEW s \in Seq(Seals), NEW e \in Seals, NEW n,
           n = IF Len(Append(s, e)) > Retention THEN Tail(Append(s, e)) ELSE Append(s, e)
    PROVE  /\ n \in Seq(Seals)
           /\ \E drop \in {0, 1} : /\ Extends(s, n, Len(s), drop, e)
                                   /\ drop = 1 => Len(s) >= 1
<1> DEFINE all == Append(s, e)
<1>1. /\ all \in Seq(Seals) /\ Len(all) = Len(s) + 1 /\ Len(s) \in Nat
      /\ DOMAIN s = 1 .. Len(s) /\ DOMAIN all = 1 .. Len(s) + 1
      /\ \A i \in 1 .. Len(s) : all[i] = s[i]
      /\ all[Len(s) + 1] = e
  BY AppendProperties
<1> HIDE DEF all
<1>2. CASE n = all
  <2> DEFINE k == Len(s)
  <2>1. /\ k \in Nat /\ DOMAIN s = 1 .. k /\ DOMAIN n = 1 .. (k + 1)
        /\ \A i \in 1 .. k : n[i] = s[i]
        /\ n[k + 1] = e
    BY <1>1, <1>2, Zenon
  <2> HIDE DEF k
  <2>2. k + 1 - 0 = k + 1 /\ k - 0 = k /\ \A i \in 1 .. k : i + 0 = i
    BY <2>1
  <2>3. Extends(s, n, k, 0, e)
    BY <2>1, <2>2, Zenon DEF Extends
  <2>4. n \in Seq(Seals)
    BY <1>1, <1>2, Zenon
  <2> QED
    BY <2>3, <2>4 DEF k
<1>3. CASE Len(all) > Retention /\ n = Tail(all)
  <2>1. Len(s) >= 1 /\ all # << >>
    BY <1>1, <1>3, RestartAssumption
  <2>2. /\ n \in Seq(Seals) /\ Len(n) = Len(s)
        /\ \A i \in 1 .. Len(s) : n[i] = all[i + 1]
    BY <1>1, <1>3, <2>1, HeadTailProperties
  <2>3. DOMAIN n = 1 .. Len(s)
    BY <2>2
  <2> DEFINE k == Len(s)
  <2>4. /\ k \in Nat /\ k >= 1 /\ DOMAIN s = 1 .. k /\ DOMAIN n = 1 .. k
        /\ \A i \in 1 .. k : n[i] = all[i + 1]
        /\ \A i \in 1 .. k : all[i] = s[i]
        /\ all[k + 1] = e
    BY <1>1, <2>1, <2>2, <2>3, Zenon
  <2> HIDE DEF k
  <2>5. \A i \in 1 .. (k - 1) : n[i] = s[i + 1]
    BY <2>4
  <2>6. Extends(s, n, k, 1, e)
    BY <2>4, <2>5 DEF Extends
  <2> QED
    BY <2>1, <2>2, <2>6, Zenon DEF k
<1> QED
  BY <1>2, <1>3, Zenon DEF all

RelInv == Log /\ Slots /\ ReleaseDurable

\* The record of a slot that was given back, in the store s.
Backed(s, r) ==
    LET run == rq[r].trk + 1
    IN  \/ s.open = run /\ r \in s.recs
        \/ \E i \in DOMAIN s.seals :
              \/ s.seals[i].run = run /\ r \in s.seals[i].root
              \/ i = 1 /\ s.seals[i].run > run

\* What Log says of a store alone, with the newest run that may be sealed.
LogOf(s, top) ==
    /\ s.open \in Nat \cup {NoRun} /\ s.recs \subseteq Reqs
    /\ s.seals \in Seq(Seals) /\ Increasing(s.seals)
    /\ \A i \in DOMAIN s.seals :
          /\ s.seals[i].run <= top
          /\ s.open # NoRun => s.seals[i].run < s.open

SameRecords == store'.open = store.open /\ store'.recs = store.recs /\ store'.seals = store.seals

SameRegistry == gw'.st = gw.st /\ gw'.reg = gw.reg /\ gw'.led = gw.led

\* The steps at which Log ties an acceptance to the open run.
Tied == {"cold", "prefix", "final", "unsealed"}

\* The part of Log that is about the acceptance.
Tie ==
    /\ acc.at \in {"prefix", "final", "unsealed"} => store.open = acc.run
    /\ acc.at = "cold" => /\ store.open = NoRun
                         /\ \A i \in DOMAIN store.seals : store.seals[i].run < acc.run

\* Log in two parts, of the store and of the acceptance.
LEMMA LogParts == /\ Log <=> LogOf(store, Newest) /\ Tie
                  /\ Log' <=> LogOf(store', Newest') /\ Tie'
<1>1. Log <=> LogOf(store, Newest) /\ Tie
  BY Zenon DEF Log, LogOf, Increasing, Tie
<1>2. Log' <=> LogOf(store', Newest') /\ Tie'
  BY Zenon DEF Log, LogOf, Increasing, Tie
<1> QED
  BY <1>1, <1>2

\* The newest generation is one.
LEMMA NewestNat == Generations => Newest \in Nat
BY Zenon DEF Generations, Newest

\* Every slot that was given back has its record.
LEMMA ReleasesBacked ==
    ReleaseDurable <=> \A r \in Reqs : lease[r] = "released" => Backed(store, r)
BY DEF ReleaseDurable, Backed

\* The store keeps its records and the newest run grows.
LEMMA LogGrows ==
    ASSUME Log, Newest \in Nat, Newest' \in Nat, Newest <= Newest', SameRecords,
           acc' = acc \/ acc'.at \notin Tied
    PROVE  Log'
<1>1. \A i \in DOMAIN store.seals : store.seals[i] \in Seals
  BY DEF Log
<1>2. \A i \in DOMAIN store.seals : store.seals[i].run \in Nat
  BY <1>1, Zenon DEF Seals
<1>3. \A i \in DOMAIN store.seals : store.seals[i].run <= Newest'
  <2> SUFFICES ASSUME NEW i \in DOMAIN store.seals PROVE store.seals[i].run <= Newest'
    OBVIOUS
  <2>1. store.seals[i].run \in Nat /\ store.seals[i].run <= Newest
    BY <1>2, Zenon DEF Log
  <2> HIDE DEF Newest
  <2> QED
    BY <2>1
<1>4. /\ store'.open \in Nat \cup {NoRun}
      /\ store'.seals \in Seq(Seals) /\ store'.recs \subseteq Reqs
      /\ \A i, j \in DOMAIN store'.seals : i < j => store'.seals[i].run < store'.seals[j].run
  BY Zenon DEF Log, SameRecords
<1>5. acc'.at \in Tied => acc' = acc
  OBVIOUS
<1> QED
  BY <1>3, <1>4, <1>5, Zenon DEF Log, SameRecords, Tied

\* Steps that give no slot back.
LEMMA ReleasesElsewhere ==
    ASSUME ReleaseDurable, SameRecords,
           \A r \in Reqs : lease'[r] = "released" => lease[r] = "released" /\ rq'[r].trk = rq[r].trk
    PROVE  ReleaseDurable'
BY DEF ReleaseDurable, SameRecords

\* Steps that touch neither requests, nor slots, nor the store.
LEMMA RelElsewhere ==
    ASSUME AdmissionInv, Generations, RelInv, Generations', UNCHANGED <<rq, lease>>,
           SameRecords, SameRegistry, world <= world', acc' = acc \/ acc'.at \notin Tied
    PROVE  RelInv'
<1>1. Newest \in Nat /\ Newest' \in Nat /\ Newest <= Newest'
  BY DEF Generations, Newest, SameRegistry
<1>2. Log'
  BY <1>1, LogGrows DEF RelInv
<1>3. Slots'
  BY Zenon DEF RelInv, Slots, SameRegistry, Live
<1>4. ReleaseDurable'
  BY ReleasesElsewhere DEF RelInv
<1> QED
  BY <1>2, <1>3, <1>4 DEF RelInv

\* Boot and death of the process: no slot is held.
LEMMA RelBoot ==
    ASSUME AdmissionInv, Generations, RelInv, Generations', Boot \/ BootReady \/ Die
    PROVE  RelInv'
<1>1. Newest \in Nat /\ Newest' \in Nat
  BY NewestNat, Zenon DEF Generations, Newest
<1>2. CASE Boot \/ BootReady
  <2>1. /\ UNCHANGED <<rq, lease, store, acc, world>> /\ gw.st # "up"
        /\ gw.st = "down" => gw'.st = "boot" /\ gw'.reg = mount.gen
        /\ gw.st = "boot" => gw'.st = "up" /\ gw'.led = gw.reg
    BY <1>2, ZenonT(20) DEF Boot, BootReady, Dead, AdmissionInv, Shape, workerVars
  <2>2. (gw.st = "down" \/ gw.st = "boot") /\ mount.gen = world
    BY <1>2, Zenon DEF Generations, Boot, BootReady
  <2>3. Newest' = Newest
    BY <2>1, <2>2, Zenon DEF Newest
  <2>4. Newest <= Newest'
    BY <1>1, <2>3
  <2>5. SameRecords
    BY <2>1 DEF SameRecords
  <2>6. Slots'
    BY <2>1, Zenon DEF RelInv, Slots, Live
  <2> QED
    BY <1>1, <2>1, <2>4, <2>5, <2>6, LogGrows, ReleasesElsewhere DEF RelInv
<1>3. CASE Die
  <2>1. /\ UNCHANGED world /\ gw'.st = "down" /\ acc'.at \notin Tied /\ SameRecords
        /\ \A r \in Reqs : lease'[r] = "none"
    BY <1>3, Zenon DEF Die, Dead, Idle, Tied, SameRecords, AdmissionInv, Shape, workerVars
  <2>2. Newest <= Newest'
    BY <1>1, <2>1 DEF Newest, Generations
  <2>3. rq' \in [Reqs -> [at : {"new", "reading", "in", "answered", "lost"}, trk : Nat]]
    BY <1>3, Zenon DEF Die, RelInv, Slots, Absent
  <2>4. Slots'
    BY <2>1, <2>3, Zenon DEF Slots, Live
  <2> QED
    BY <1>1, <2>1, <2>2, <2>4, LogGrows, ReleasesElsewhere, Zenon DEF RelInv
<1> QED
  BY <1>2, <1>3

\* Requests take and return slots of the registry in charge.
LEMMA RelRequest ==
    ASSUME AdmissionInv, Generations, RelInv, Generations', NEW r \in Reqs,
           Gate(r) \/ Body(r) \/ Serve(r) \/ Complete(r)
    PROVE  RelInv'
<1>1. UNCHANGED <<gw, acc, store, world>>
  BY Zenon DEF Gate, Body, Serve, Complete, takeoverVars
<1>2. Log'
  BY <1>1, NewestNat, LogGrows DEF RelInv, SameRecords, Newest
<1>3. DOMAIN lease = Reqs
  BY DEF AdmissionInv, Shape
<1>4. rq' \in [Reqs -> [at : {"new", "reading", "in", "answered", "lost"}, trk : Nat]]
  <2>1. gw.reg \in Nat
    BY Zenon DEF Generations
  <2> QED
    BY <2>1 DEF RelInv, Slots, Gate, Body, Serve, Complete
<1>5. \A q \in Reqs : q # r => rq'[q] = rq[q] /\ lease'[q] = lease[q]
  BY <1>3 DEF RelInv, Slots, Gate, Body, Serve, Complete
<1>6. CASE Gate(r) \/ Body(r)
  <2>1. lease[r] = "none" /\ lease' = lease
    BY <1>6, Zenon DEF Gate, Body, RelInv, Slots
  <2>2. Slots'
    BY <1>1, <1>4, <1>5, <2>1 DEF RelInv, Slots, Live
  <2> QED
    BY <1>1, <1>2, <1>5, <2>1, <2>2, ReleasesElsewhere DEF RelInv, SameRecords
<1>7. CASE Serve(r)
  <2>1. /\ rq' = rq /\ lease'[r] = "active" /\ rq[r].at = "in"
        /\ rq[r].trk = gw.reg /\ gw.st = "up" /\ gw.led = gw.reg
    BY <1>3, <1>7, Zenon DEF Serve, Tracked, Generations
  <2>2. Slots'
    BY <1>1, <1>4, <1>5, <2>1 DEF RelInv, Slots, Live
  <2> QED
    BY <1>1, <1>2, <1>5, <2>1, <2>2, ReleasesElsewhere, Zenon DEF RelInv, SameRecords
<1>8. CASE Complete(r)
  <2>1. lease'[r] = "none"
    BY <1>3, <1>8, Zenon DEF Complete
  <2>2. Slots'
    BY <1>1, <1>4, <1>5, <2>1 DEF RelInv, Slots, Live
  <2> QED
    BY <1>1, <1>2, <1>5, <2>1, <2>2, ReleasesElsewhere, Zenon DEF RelInv, SameRecords
<1> QED
  BY <1>6, <1>7, <1>8

\* An acceptance begins.
LEMMA RelPost ==
    ASSUME AdmissionInv, Generations, RelInv, Generations', NEW run \in Runs, Post(run)
    PROVE  RelInv'
<1>1. /\ UNCHANGED <<rq, lease, store, world>> /\ SameRecords
      /\ run \in Nat
  BY RestartAssumption DEF Post, PostSealed, PostCold, PostUnsealed, PostStage, Runs, SameRecords,
                           takeoverVars
<1>2. SameRegistry /\ gw.st = "up"
  <2>1. gw' = Begun(run) \/ \E l : gw' = [Begun(run) EXCEPT !.loop = l]
    BY Zenon DEF Post, PostSealed, PostCold, PostUnsealed, PostStage
  <2>2. /\ DOMAIN Begun(run) = DOMAIN gw /\ Begun(run).st = gw.st
        /\ Begun(run).reg = gw.reg /\ Begun(run).led = gw.led
    BY DEF Begun, AdmissionInv, Shape
  <2> QED
    BY <2>1, <2>2 DEF SameRegistry, AdmissionInv, Shape, Post, PostSealed, PostCold, PostUnsealed,
                      PostStage, Asked
<1>3. \A at : Task(run, at).at = at /\ Task(run, at).run = run
  BY DEF Task, Idle
<1>4. world <= world' /\ Idle.at \notin Tied
  BY <1>1 DEF Generations, Idle, Tied
<1>5. Slots' /\ ReleaseDurable'
  <2>1. Slots'
    BY <1>1, <1>2, Zenon DEF RelInv, Slots, SameRegistry, Live
  <2> QED
    BY <1>1, <2>1, ReleasesElsewhere DEF RelInv
<1>6. CASE PostSealed(run) \/ PostStage(run)
  <2>1. acc'.at \notin Tied
    BY <1>3, <1>4, <1>6 DEF PostSealed, PostStage, Tied
  <2> QED
    BY <1>1, <1>2, <1>4, <2>1, RelElsewhere, Zenon
<1>7. LogOf(store', Newest')
  <2>1. Newest' = Newest
    BY <1>1, <1>2 DEF Newest, SameRegistry
  <2> QED
    BY <1>1, <2>1, LogParts DEF RelInv
<1>8. CASE PostUnsealed(run)
  <2>1. acc'.at \notin Tied \/ (acc'.at = "unsealed" /\ acc'.run = run /\ store.open = run)
    BY <1>3, <1>4, <1>8, Zenon DEF PostUnsealed
  <2>2. Log'
    BY <1>1, <1>7, <2>1, LogParts, Zenon DEF Tied, Tie
  <2> QED
    BY <1>5, <2>2 DEF RelInv
<1>9. CASE PostCold(run)
  <2>1. \/ acc'.at \notin Tied
        \/ acc'.at = "cold" /\ acc'.run = run /\ store.open = NoRun /\ ColdBase(run)
    BY <1>3, <1>4, <1>9, Zenon DEF PostCold, StoreAllows
  <2>2. ASSUME ColdBase(run), NEW i \in DOMAIN store.seals PROVE store.seals[i].run < run
    <3> DEFINE k == Len(store.seals)
    <3>1. k \in Nat /\ DOMAIN store.seals = 1 .. k /\ store.seals # << >>
      BY <2>2 DEF RelInv, Log
    <3>2. i \in 1 .. k /\ k \in 1 .. k
      BY <2>2, <3>1
    <3>3. store.seals[k].run = run - 1
      BY <2>2, <3>1, Zenon DEF ColdBase
    <3>4. store.seals[i].run \in Nat
      <4>1. store.seals[i] \in Seals
        BY <2>2 DEF RelInv, Log
      <4> QED
        BY <4>1, Zenon DEF Seals
    <3> HIDE DEF k
    <3>5. i = k \/ i < k
      BY <3>1, <3>2
    <3>6. i < k => store.seals[i].run < store.seals[k].run
      BY <3>1, <3>2, Zenon DEF RelInv, Log
    <3> QED
      BY <1>1, <3>3, <3>4, <3>5, <3>6
  <2>3. Log'
    BY <1>1, <1>7, <2>1, <2>2, LogParts, Zenon DEF Tied, Tie
  <2> QED
    BY <1>5, <2>3 DEF RelInv
<1> QED
  BY <1>6, <1>8, <1>9 DEF Post

\* The frozen requests are answered; their slots are still held.
LEMMA RelPull ==
    ASSUME AdmissionInv, Generations, RelInv, Generations', AccPull
    PROVE  RelInv'
<1>1. UNCHANGED <<gw, lease, store, world>> /\ acc'.at \notin Tied /\ SameRecords
  BY Zenon DEF AccPull, AdmissionInv, Shape, Tied, SameRecords, takeoverVars
<1>2. Log'
  BY <1>1, NewestNat, LogGrows DEF RelInv, Newest
<1>3. /\ rq' \in [Reqs -> [at : {"new", "reading", "in", "answered", "lost"}, trk : Nat]]
      /\ \A r \in Reqs : /\ rq'[r].trk = rq[r].trk
                         /\ rq'[r].at = rq[r].at \/ rq'[r].at = "answered"
  BY DEF AccPull, RelInv, Slots
<1>4. Slots'
  BY <1>1, <1>3 DEF RelInv, Slots, Live
<1> QED
  BY <1>1, <1>2, <1>3, <1>4, ReleasesElsewhere, Zenon DEF RelInv

\* The publication: no slot of the old world is held by then.
LEMMA RelPrefix ==
    ASSUME AdmissionInv, Generations, RelInv, Generations', AccPrefix
    PROVE  RelInv'
<1>1. /\ UNCHANGED <<rq, lease, store, world>> /\ SameRecords
      /\ acc.at = "prefix" /\ acc'.at = "final" /\ acc'.run = acc.run
  BY Zenon DEF AccPrefix, AdmissionInv, Shape, SameRecords, takeoverVars
<1>2. gw.st = "up" /\ gw'.st = "up" /\ gw'.led = gw.led
  BY <1>1, Zenon DEF AccPrefix, Published, AdmissionInv, Shape, TasksOfUp
<1>3. Newest' = Newest
  BY <1>2 DEF Newest
<1>4. Log'
  BY <1>1, <1>3, LogParts, Zenon DEF RelInv, Tie
<1>5. gw.reg # gw.led
  BY <1>1 DEF Generations, Unpublished
<1>6. \A r \in Reqs : ~Live(r)
  BY <1>5, Zenon DEF RelInv, Slots
<1>7. Slots'
  BY <1>1, <1>6, Zenon DEF RelInv, Slots, Live
<1> QED
  BY <1>1, <1>4, <1>7, ReleasesElsewhere, Zenon DEF RelInv

\* The records of a run: the old ones stay, and all held slots have one.
LEMMA RunRecorded ==
    ASSUME AdmissionInv, Generations, RelInv, acc.at = "persist",
           store.open \in {NoRun, acc.run},
           NEW s \in {store, Recorded(acc.run)}
    PROVE  /\ LogOf(s, Newest) /\ DOMAIN s = DOMAIN store
           /\ \A r \in Reqs : Backed(store, r) => Backed(s, r)
           /\ s = Recorded(acc.run) => \A r \in Reqs : Live(r) => Backed(s, r)
<1>1. LogOf(store, Newest)
  BY LogParts DEF RelInv
<1>2. CASE s = store
  <2>1. s = Recorded(acc.run) => \A r \in Reqs : Live(r) => r \in store.recs /\ store.open = acc.run
    BY <1>2 DEF Recorded, AdmissionInv, Shape
  <2>2. \A r \in Reqs : Live(r) => rq[r].trk + 1 = acc.run
    BY DEF RelInv, Slots, Generations, Unpublished
  <2> QED
    BY <1>1, <1>2, <2>1, <2>2 DEF Backed
<1>3. CASE s = Recorded(acc.run)
  <2>1. /\ s.open = acc.run /\ s.seals = store.seals /\ DOMAIN s = DOMAIN store
        /\ s.recs = store.recs \cup {r \in Reqs : Live(r)}
    BY <1>3 DEF Recorded, AdmissionInv, Shape
  <2>2. Newest = acc.run - 1 /\ acc.run \in Nat
    BY Zenon DEF Newest, Generations, Unpublished, AdmissionInv, TasksOfUp
  <2>3. \A i \in DOMAIN store.seals : store.seals[i].run \in Nat
    <3>1. \A i \in DOMAIN store.seals : store.seals[i] \in Seals
      BY <1>1 DEF LogOf
    <3> QED
      BY <3>1, Zenon DEF Seals
  <2>4. \A i \in DOMAIN store.seals : store.seals[i].run < acc.run
    BY <1>1, <2>2, <2>3 DEF LogOf
  <2>5. LogOf(s, Newest)
    BY <1>1, <2>1, <2>2, <2>4, Zenon DEF LogOf
  <2>6. \A r \in Reqs : Live(r) => rq[r].trk + 1 = acc.run
    BY DEF RelInv, Slots, Generations, Unpublished
  <2>7. \A r \in Reqs : rq[r].trk + 1 \in Nat
    BY DEF RelInv, Slots
  <2>8. \A r \in Reqs : Backed(store, r) => Backed(s, r)
    BY <2>1, <2>7, RestartAssumption, Zenon DEF Backed
  <2>9. \A r \in Reqs : Live(r) => Backed(s, r)
    BY <2>1, <2>6, Zenon DEF Backed
  <2> QED
    BY <2>1, <2>5, <2>8, <2>9
<1> QED
  BY <1>2, <1>3, Zenon

\* The records are written, then the slots are given back.
LEMMA RelPersist ==
    ASSUME AdmissionInv, Generations, RelInv, Generations', AccPersist
    PROVE  RelInv'
<1>1. /\ acc.at = "persist" /\ store.open \in {NoRun, acc.run} /\ store' = Recorded(acc.run)
      /\ lease' = LeasesTo("released") /\ UNCHANGED rq
      /\ acc'.at \in {"prefix", "final"} /\ acc'.run = acc.run
  BY Zenon DEF AccPersist, AdmissionInv, Shape
<1>2. LogOf(store', Newest) /\ store'.open = acc.run
  BY <1>1, RunRecorded, Zenon DEF Recorded, AdmissionInv, Shape
<1>3. Newest = acc.run - 1 /\ acc.run \in Nat
  BY <1>1, Zenon DEF Newest, Generations, Unpublished, AdmissionInv, TasksOfUp
<1>4. gw'.st = "up" /\ gw'.led = acc.run
  <2>1. gw'.led = acc.run
    BY <1>1, Zenon DEF Generations, Unpublished
  <2>2. gw.st = "up" /\ DOMAIN Committed(acc.run) = DOMAIN gw /\ Committed(acc.run).st = gw.st
    BY <1>1 DEF Committed, AdmissionInv, Shape, TasksOfUp
  <2> DEFINE c == Committed(acc.run)
  <2>3. gw' = c \/ gw' = Published(c, acc.run)
    BY Zenon DEF AccPersist
  <2>4. gw.st = "up" /\ DOMAIN c = DOMAIN gw /\ c.st = "up"
    BY <2>2
  <2> HIDE DEF c
  <2>5. gw'.st = "up"
    BY <2>3, <2>4, Zenon DEF Published, AdmissionInv, Shape
  <2> QED
    BY <2>1, <2>5
<1>5. Newest' = acc.run
  BY <1>4 DEF Newest
<1>6. \A i \in DOMAIN store'.seals : store'.seals[i].run < acc.run
  BY <1>2, <1>3, RestartAssumption, Zenon DEF LogOf
<1>7. LogOf(store', Newest')
  <2>1. \A i \in DOMAIN store'.seals : store'.seals[i].run \in Nat
    <3>1. \A i \in DOMAIN store'.seals : store'.seals[i] \in Seals
      BY <1>2 DEF LogOf
    <3> QED
      BY <3>1 DEF Seals
  <2> QED
    BY <1>2, <1>3, <1>5, <1>6, <2>1 DEF LogOf
<1>8. Log'
  BY <1>1, <1>2, <1>7, LogParts, Zenon DEF Tie
<1>9. \A r \in Reqs : /\ ~(Live(r)')
                      /\ lease'[r] # "none" => lease[r] # "none"
                      /\ lease'[r] = "released" => Live(r) \/ lease[r] = "released"
  BY <1>1, Zenon DEF LeasesTo, Live
<1>10. Slots'
  BY <1>1, <1>9, Zenon DEF RelInv, Slots
<1>11. ReleaseDurable'
  <2>1. \A r \in Reqs : lease'[r] = "released" => Backed(store', r)
    BY <1>1, <1>9, RunRecorded, ReleasesBacked, Zenon DEF RelInv
  <2> QED
    BY <1>1, <2>1, Zenon DEF Backed, ReleaseDurable
<1> QED
  BY <1>8, <1>10, <1>11 DEF RelInv

\* The store fails or refuses: the slots stay in quarantine.
LEMMA RelQuarantine ==
    ASSUME AdmissionInv, Generations, RelInv, Generations', AccPersistFails \/ AccRefused
    PROVE  RelInv'
<1>1. UNCHANGED <<gw, rq, world>> /\ acc'.at \notin Tied
  BY DEF AccPersistFails, AccRefused, AccEnds, Idle, Tied, takeoverVars
<1>2. \A r \in Reqs : /\ Live(r)' => Live(r)
                      /\ lease'[r] # "none" => lease[r] # "none"
                      /\ lease'[r] = "released" => lease[r] = "released"
  BY DEF AccPersistFails, AccRefused, LeasesTo, Live
<1>3. Slots'
  BY <1>1, <1>2, Zenon DEF RelInv, Slots
<1>4. Newest' = Newest
  BY <1>1 DEF Newest
<1>5. CASE AccRefused
  <2>1. SameRecords
    BY <1>5, Zenon DEF AccRefused, SameRecords
  <2>2. Log'
    BY <1>1, <1>4, <2>1, LogGrows, NewestNat DEF RelInv
  <2> QED
    BY <1>1, <1>2, <1>3, <2>1, <2>2, ReleasesElsewhere, Zenon DEF RelInv
<1>6. CASE AccPersistFails
  <2>1. PICK s \in {store, Recorded(acc.run)} : store' = [s EXCEPT !.fatal = TRUE]
    BY <1>6, Zenon DEF AccPersistFails
  <2>2. /\ LogOf(s, Newest) /\ DOMAIN s = DOMAIN store
        /\ \A r \in Reqs : Backed(store, r) => Backed(s, r)
    BY <1>6, RunRecorded, Zenon DEF AccPersistFails
  <2>3. store'.open = s.open /\ store'.recs = s.recs /\ store'.seals = s.seals
    BY <2>1, <2>2 DEF AdmissionInv, Shape
  <2>4. LogOf(store', Newest')
    BY <1>4, <2>2, <2>3, Zenon DEF LogOf
  <2>5. Log'
    BY <1>1, <2>4, LogParts, Zenon DEF Tied, Tie
  <2>6. \A r \in Reqs : lease'[r] = "released" => Backed(store', r)
    BY <1>2, <2>2, <2>3, ReleasesBacked, Zenon DEF RelInv, Backed
  <2>7. ReleaseDurable'
    BY <1>1, <2>6, Zenon DEF Backed, ReleaseDurable
  <2> QED
    BY <1>3, <2>5, <2>7 DEF RelInv
<1> QED
  BY <1>5, <1>6

\* The run is opened, or sealed: what was durable before is durable still.
LEMMA RunSealed ==
    ASSUME AdmissionInv, Generations, RelInv, acc.at \in {"final", "cold", "unsealed"},
           NEW s \in {store, [store EXCEPT !.open = acc.run], SealedStore(store, acc.run)}
    PROVE  /\ LogOf(s, Newest) /\ DOMAIN s = DOMAIN store
           /\ \A r \in Reqs : Backed(store, r) => Backed(s, r)
<1>1. LogOf(store, Newest) /\ Tie
  BY LogParts DEF RelInv
<1>2. Newest = acc.run /\ acc.run \in Nat
  BY Zenon DEF Newest, Generations, Unpublished, AdmissionInv, TasksOfUp
<1>3. /\ store.open \in {NoRun, acc.run} /\ NoRun # acc.run
      /\ store.open = NoRun => acc.at = "cold"
  BY <1>1, <1>2, RestartAssumption, Zenon DEF Tie
<1>4. \A i \in DOMAIN store.seals : store.seals[i].run \in Nat /\ store.seals[i] \in Seals
  <2>1. \A i \in DOMAIN store.seals : store.seals[i] \in Seals
    BY <1>1 DEF LogOf
  <2> QED
    BY <2>1, Zenon DEF Seals
<1>5. \A i \in DOMAIN store.seals : store.seals[i].run < acc.run
  BY <1>1, <1>3, Zenon DEF LogOf, Tie
<1>6. \A r \in Reqs : rq[r].trk + 1 \in Nat
  BY DEF RelInv, Slots
<1>7. CASE s = store
  BY <1>1, <1>7
<1>8. CASE s = [store EXCEPT !.open = acc.run]
  <2>1. /\ s.open = acc.run /\ s.seals = store.seals /\ s.recs = store.recs
        /\ DOMAIN s = DOMAIN store
    BY <1>8 DEF AdmissionInv, Shape
  <2>2. LogOf(s, Newest)
    BY <1>1, <1>2, <1>5, <2>1, Zenon DEF LogOf
  <2>3. \A r \in Reqs : Backed(store, r) => Backed(s, r)
    BY <1>3, <1>6, <2>1, RestartAssumption, Zenon DEF Backed
  <2> QED
    BY <2>1, <2>2, <2>3
<1>9. CASE s = SealedStore(store, acc.run)
  <2> DEFINE e == [run |-> acc.run, root |-> store.recs]
             old == store.seals
             new == s.seals
  <2>1. /\ s.open = NoRun /\ s.recs = {} /\ DOMAIN s = DOMAIN store
        /\ new = IF Len(Append(old, e)) > Retention THEN Tail(Append(old, e)) ELSE Append(old, e)
    BY <1>9 DEF SealedStore, AdmissionInv, Shape
  <2>2. e \in Seals /\ e.run = acc.run /\ e.root = store.recs /\ old \in Seq(Seals)
    BY <1>1, <1>2, Zenon DEF LogOf, Seals
  <2> HIDE DEF e, new
  <2>3. PICK drop \in {0, 1} : /\ Extends(old, new, Len(old), drop, e)
                               /\ drop = 1 => Len(old) >= 1
    BY <2>1, <2>2, SealAppended, ZenonT(20)
  <2>4. new \in Seq(Seals) /\ Len(old) \in Nat /\ DOMAIN old = 1 .. Len(old)
    <3>1. new \in Seq(Seals)
      BY <2>1, <2>2, SealAppended, Zenon
    <3>2. Len(old) \in Nat /\ DOMAIN old = 1 .. Len(old)
      BY <2>2
    <3> QED
      BY <3>1, <3>2
  <2>5. Grown(old, new, e)
    <3>1. Increasing(old) /\ \A i \in 1 .. Len(old) : old[i].run \in Nat /\ old[i].run < e.run
      BY <1>1, <1>4, <1>5, <2>2, <2>4 DEF LogOf
    <3> DEFINE k == Len(old)
    <3>2. /\ k \in Nat /\ drop \in {0, 1} /\ Extends(old, new, k, drop, e)
          /\ drop = 1 => k >= 1
          /\ Older(old, k, e)
      BY <1>2, <2>2, <2>3, <2>4, <3>1, Zenon DEF Older
    <3> HIDE DEF k, old
    <3> QED
      BY <3>1, <3>2, LogExtends, Zenon
  <2>6. LogOf(s, Newest)
    <3>1. \A i \in DOMAIN new : new[i].run <= acc.run
      BY <1>2, <1>4, <1>5, <2>2, <2>5 DEF Grown
    <3> QED
      BY <1>2, <2>1, <2>4, <2>5, <3>1, Zenon DEF Grown, LogOf, new
  <2>7. ASSUME NEW r \in Reqs, Backed(store, r) PROVE Backed(s, r)
    <3> DEFINE run == rq[r].trk + 1
    <3>1. run \in Nat
      BY <1>6
    <3>2. CASE store.open = run /\ r \in store.recs
      <4>1. run = acc.run
        BY <1>3, <3>1, <3>2, RestartAssumption, Zenon
      <4> QED
        BY <2>2, <2>5, <3>2, <4>1, Zenon DEF Backed, Grown, new
    <3>3. CASE \E i \in DOMAIN old : \/ old[i].run = run /\ r \in old[i].root
                                     \/ i = 1 /\ old[i].run > run
      <4>1. PICK i \in DOMAIN old : \/ old[i].run = run /\ r \in old[i].root
                                    \/ i = 1 /\ old[i].run > run
        BY <3>3, Zenon
      <4>2. CASE \E j \in DOMAIN new : new[j] = old[i] /\ (i = 1 => j = 1)
        BY <4>1, <4>2, Zenon DEF Backed, new
      <4>3. CASE i = 1 /\ 1 \in DOMAIN new /\ old[i].run < new[1].run
        <5>1. new[1].run \in Nat /\ old[1].run \in Nat
          <6>1. new[1] \in Seals
            BY <2>4, <4>3
          <6> QED
            BY <1>4, <4>3, <6>1, Zenon DEF Seals
        <5>2. new[1].run > run
          BY <3>1, <4>1, <4>3, <5>1
        <5> QED
          BY <4>3, <5>2, Zenon DEF Backed, new
      <4> QED
        BY <2>5, <4>2, <4>3, Zenon DEF Grown
    <3> QED
      BY <2>7, <3>2, <3>3, Zenon DEF Backed
  <2> QED
    BY <2>1, <2>6, <2>7, Zenon
<1> QED
  BY <1>7, <1>8, <1>9

\* The steps that open or seal a run.
LEMMA RelSeal ==
    ASSUME AdmissionInv, Generations, RelInv, Generations',
           AccSeal \/ AccSealFails \/ RecoverCold \/ RecoverUnsealed \/ RecoverLive
    PROVE  RelInv'
<1>1. /\ acc.at \in {"final", "cold", "unsealed"} /\ UNCHANGED <<rq, lease, world>>
      /\ acc'.at \notin Tied
  BY DEF AccSeal, AccSealFails, RecoverCold, RecoverUnsealed, RecoverLive, AccEnds, Finalize,
         Idle,
         AdmissionInv, Shape, Tied, takeoverVars
<1>2. \E s \in {store, [store EXCEPT !.open = acc.run], SealedStore(store, acc.run)} :
         store' = s \/ store' = [s EXCEPT !.fatal = TRUE]
  BY Zenon DEF AccSeal, AccSealFails, RecoverCold, RecoverUnsealed, RecoverLive
<1>3. SameRegistry
  <2>1. CASE AccSeal \/ AccSealFails \/ RecoverLive
    BY <2>1, Zenon DEF AccSeal, AccSealFails, RecoverLive, AccEnds, SameRegistry
  <2>2. CASE RecoverCold \/ RecoverUnsealed
    <3>1. \/ gw' = Known(acc.run)
          \/ gw' = [Known(acc.run) EXCEPT !.need = FALSE, !.pend = 0, !.open = TRUE]
      BY <2>2, Zenon DEF RecoverCold, RecoverUnsealed, Finalize, AccEnds
    <3> QED
      BY <3>1, GatewayFields, Zenon DEF SameGateway, SameRegistry
  <2> QED
    BY <2>1, <2>2
<1>4. Newest' = Newest
  BY <1>1, <1>3, Zenon DEF Newest, SameRegistry
<1>5. PICK s \in {store, [store EXCEPT !.open = acc.run], SealedStore(store, acc.run)} :
         store' = s \/ store' = [s EXCEPT !.fatal = TRUE]
  BY <1>2, Zenon
<1>6. /\ LogOf(s, Newest) /\ DOMAIN s = DOMAIN store
      /\ \A r \in Reqs : Backed(store, r) => Backed(s, r)
  BY <1>1, RunSealed, Zenon
<1>7. store'.open = s.open /\ store'.recs = s.recs /\ store'.seals = s.seals
  BY <1>5, <1>6 DEF AdmissionInv, Shape
<1>8. LogOf(store', Newest')
  BY <1>4, <1>6, <1>7, Zenon DEF LogOf
<1>9. Log'
  BY <1>1, <1>8, LogParts, Zenon DEF Tied, Tie
<1>10. Slots'
  BY <1>1, <1>3, Zenon DEF RelInv, Slots, SameRegistry, Live
<1>11. \A r \in Reqs : lease'[r] = "released" => Backed(store', r)
  BY <1>1, <1>6, <1>7, ReleasesBacked DEF RelInv, Backed
<1>12. ReleaseDurable'
  BY <1>1, <1>11, Zenon DEF Backed, ReleaseDurable
<1> QED
  BY <1>9, <1>10, <1>12 DEF RelInv

\* No slot is held at the beginning.
LEMMA InitReleases == Init => RelInv
<1> SUFFICES ASSUME Init PROVE RelInv
  OBVIOUS
<1>1. LogOf(store, Newest)
  <2> DEFINE e == [run |-> FirstGen, root |-> {}]
  <2>1. e \in Seals /\ e.run = FirstGen /\ Newest = FirstGen /\ FirstGen \in Nat
    BY RestartAssumption, Zenon DEF Init, Seals, Newest, Dead
  <2>2. /\ store.open = NoRun /\ store.recs = {}
        /\ store.seals = <<>> \/ store.seals = <<e>>
    BY Zenon DEF Init
  <2> HIDE DEF e
  <2>3. CASE store.seals = <<>>
    BY <2>2, <2>3 DEF LogOf, Increasing
  <2>4. CASE store.seals = <<e>>
    <3>1. <<e>> \in Seq(Seals) /\ DOMAIN <<e>> = {1} /\ <<e>>[1] = e
      BY <2>1
    <3> QED
      BY <2>1, <2>2, <2>4, <3>1 DEF LogOf, Increasing
  <2> QED
    BY <2>2, <2>3, <2>4
<1>2. Tie
  BY Zenon DEF Init, Tie, Idle
<1>3. Slots
  BY Zenon DEF Init, Slots, Absent, Live
<1>4. ReleaseDurable
  BY Zenon DEF Init, ReleaseDurable
<1> QED
  BY <1>1, <1>2, <1>3, <1>4, LogParts DEF RelInv

\* Every step keeps the log, the slots and the records.
LEMMA NextKeepsReleases ==
    AdmissionInv /\ Generations /\ RelInv /\ [Next]_vars => RelInv'
<1> SUFFICES ASSUME AdmissionInv, Generations, RelInv, [Next]_vars PROVE RelInv'
  OBVIOUS
<1>1. Generations'
  BY NextKeepsGenerations
<1>2. ASSUME UNCHANGED <<rq, lease, store>>, SameRegistry, world' = world,
             acc' = acc \/ acc'.at \notin Tied
      PROVE  RelInv'
  <2>1. world <= world' /\ SameRecords
    BY <1>2 DEF Generations, SameRecords
  <2> QED
    BY <1>1, <1>2, <2>1, RelElsewhere, Zenon
<1>3. ASSUME UNCHANGED <<rq, lease, store, acc, world, gw>> PROVE RelInv'
  BY <1>2, <1>3 DEF SameRegistry
<1>4. Idle.at \notin Tied
  BY DEF Idle, Tied
<1>5. CASE Booting \/ Crash
  BY <1>1, <1>5, RelBoot DEF Booting, Crash, BootFails, Probe
<1>6. CASE Sweep \/ LoopDies
  <2>1. UNCHANGED <<rq, lease, store, acc, world>>
    BY <1>6, Zenon DEF Sweep, SweepStart, SweepOk, SweepIncomplete, SweepDrift, LoopDies,
           takeoverVars
  <2>2. \/ gw' = gw \/ \E o, p : gw' = [gw EXCEPT !.open = o, !.rpc = p]
        \/ gw' = [gw EXCEPT !.loop = "dead", !.failed = TRUE, !.open = FALSE]
    BY <1>6, Zenon DEF Sweep, SweepStart, SweepOk, SweepIncomplete, SweepDrift, Swept, LoopDies
  <2>3. SameRegistry
    BY <2>2, Zenon DEF SameRegistry, AdmissionInv, Shape
  <2> QED
    BY <1>2, <2>1, <2>3
<1>7. CASE Loop \/ \E r \in Reqs : Gate(r) \/ Body(r)
  BY <1>1, <1>7, RelRequest DEF Loop
<1>8. CASE \E run \in Runs : Post(run)
  BY <1>1, <1>8, RelPost
<1>9. CASE StopWorld \/ PersistWorld \/ Capture \/ Lapse \/ BootRetries \/ TakeoverFault
  BY <1>3, <1>9, Zenon DEF StopWorld, PersistWorld, Capture, Lapse, BootRetries, TakeoverFault,
                    TkFinalizeLost, TkFails, gatewayVars, takeoverVars, workerVars
<1>10. CASE StartWorld
  <2>1. UNCHANGED <<rq, lease, store, acc, gw>> /\ world <= world'
    BY <1>10 DEF StartWorld, Generations, gatewayVars
  <2> QED
    BY <1>1, <2>1, RelElsewhere DEF SameRecords, SameRegistry
<1>11. CASE \/ \E w \in Workers : WorkerEnds(w) \/ LateCommand(w)
            \/ \E w \in Workers, o \in Owners : LateActivate(w, o)
            \/ UNCHANGED vars
  BY <1>3, <1>11, Zenon DEF WorkerEnds, LateCommand, LateActivate, vars, gatewayVars
<1>12. CASE TakeoverStep /\ UNCHANGED <<affinity, gatewayVars, store, mount, ctl, faults, mishap>>
  <2>1. UNCHANGED world
    BY <1>12, Zenon DEF TakeoverStep, TkStatus, TkIdentity, TkList, TkSweep, TkFinalize, TkRelist,
                 TkOtherEpoch, TkRetire, TkActivate, TkConfirm, TkDeadline, workerVars
  <2> QED
    BY <1>3, <1>12, <2>1 DEF gatewayVars
<1>13. CASE AccFreeze \/ AccOwned \/ AccFails
  <2>1. UNCHANGED <<rq, lease, store, world>>
    BY <1>13, Zenon DEF AccFreeze, AccOwned, AccFails, workerVars, takeoverVars
  <2>2. acc'.at \notin Tied
    BY <1>4, <1>13, Zenon DEF AccFreeze, AccOwned, AccFails, AccEnds, AdmissionInv, Shape, Tied
  <2>3. gw' = gw \/ gw' = [gw EXCEPT !.rec = FALSE]
    BY <1>13, Zenon DEF AccFreeze, AccOwned, AccFails, AccEnds
  <2>4. SameRegistry
    BY <2>3 DEF SameRegistry, AdmissionInv, Shape
  <2> QED
    BY <1>2, <2>1, <2>2, <2>4
<1>14. CASE AccFinalize \/ RecoverSealed
  <2>1. UNCHANGED <<rq, lease, store, world>> /\ Finalize(acc.run)
    BY <1>14, Zenon DEF AccFinalize, RecoverSealed, takeoverVars
  <2>2. /\ acc' = Idle
        /\ \/ gw' = Known(acc.run)
           \/ gw' = [Known(acc.run) EXCEPT !.need = FALSE, !.pend = 0, !.open = TRUE]
    BY <2>1 DEF Finalize, AccEnds
  <2>3. SameRegistry
    BY <2>2, GatewayFields, Zenon DEF SameGateway, SameRegistry
  <2> QED
    BY <1>2, <1>4, <2>1, <2>2, <2>3
<1>15. CASE Acceptance \/ AccPersistFails \/ AccSealFails
  BY <1>1, <1>12, <1>13, <1>14, <1>15, RelPull, RelPrefix, RelPersist, RelQuarantine, RelSeal
     DEF Acceptance
<1> QED
  BY <1>5, <1>6, <1>7, <1>8, <1>9, <1>10, <1>11, <1>15, Zenon DEF Next, Controller, Misfortune

-----------------------------------------------------------------------------
\* The workers never name two owners, and a gateway that is up owns every worker of
\* its world, whichever gateways died half way through a takeover, as long as no
\* message of a dead one took effect (activate_replacement_owner).
THEOREM OneOwnerAtATime == Spec => []OneOwner
<1>1. Init => AdmissionInv /\ Generations /\ OwnerInv
  BY InitAdmission, InitGenerations, InitOwners
<1>2. AdmissionInv /\ Generations /\ OwnerInv /\ [Next]_vars
      => (AdmissionInv /\ Generations /\ OwnerInv)'
  BY NextKeepsAdmission, NextKeepsGenerations, NextKeepsOwners
<1> QED
  BY <1>1, <1>2, OwnersSuffice, PTL DEF Spec

\* A slot that a replacement gave back has its record in the durable run or in a
\* retained seal, whatever failed or crashed since (topology_admin.py).
THEOREM ReleasesAreDurable == Spec => []ReleaseDurable
<1>1. Init => AdmissionInv /\ Generations /\ RelInv
  BY InitAdmission, InitGenerations, InitReleases
<1>2. AdmissionInv /\ Generations /\ RelInv /\ [Next]_vars
      => (AdmissionInv /\ Generations /\ RelInv)'
  BY NextKeepsAdmission, NextKeepsGenerations, NextKeepsReleases
<1>3. RelInv => ReleaseDurable
  BY DEF RelInv
<1> QED
  BY <1>1, <1>2, <1>3, PTL DEF Spec

\* A takeover frees the resources of an endpoint only after all endpoints of the
\* operation have stopped (the sweep before the finalize).
THEOREM FreesAfterWriters == Spec => FreedAfterWriters
<1> DEFINE Inv == AdmissionInv /\ Generations /\ OwnerInv /\ Stopped
           Frees == \A v, w \in Workers :
                       tk.at = "finalize" /\ op[w] = "held" /\ op'[w] = "done"
                       /\ tk.seen[v] # "none" => op[v] # "run"
<1>1. Init => Inv
  BY InitAdmission, InitGenerations, InitOwners, InitStopped
<1>2. Inv /\ [Next]_vars => Inv'
  BY NextKeepsAdmission, NextKeepsGenerations, NextKeepsOwners, NextKeepsStopped DEF OwnerInv
<1>3. Inv /\ [Next]_vars => [Frees]_vars
  BY StepFreesAfterWriters DEF OwnerInv
<1>4. Spec => [][Frees]_vars
  BY <1>1, <1>2, <1>3, PTL DEF Spec
<1> QED
  BY <1>4 DEF FreedAfterWriters
=============================================================================
