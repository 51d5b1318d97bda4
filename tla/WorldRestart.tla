---------------------------- MODULE WorldRestart ----------------------------
(***************************************************************************)
(* `pd-worldctl restart`: WorldRestartActuator replaces the whole worker   *)
(* world.  It captures the old processes, proves from the Pods' watch      *)
(* history that each of them ended, moves the release to the new           *)
(* generation, starts the new Pods, publishes the permit that names them,  *)
(* and has the Gateway accept them.  Every phase ends with an atomic write *)
(* of the run state; the operator invokes the command again after a crash  *)
(* or an error and it goes on from the last write.                         *)
(*                                                                         *)
(* One invocation is a sequential program whose steps are separated at the *)
(* remote calls that change something, at what it waits for and at its     *)
(* durable writes; the node check of an observer and the event it then     *)
(* takes from the watch's queue are two steps.  An exception ends the      *)
(* invocation (Stop).  Between two steps the cluster, the release history  *)
(* and another operator may move.                                          *)
(***************************************************************************)
EXTENDS WorldCluster, HelmRelease, TerminationWatch

CONSTANTS
  Order,       \* Order[m]: the place of m in MEMBERS, which every loop follows
  Modes,       \* the commands considered: "plain", "crash", "watchdog"
  Victim,      \* --fault-member / --watchdog-member
  MaxFaults,   \* bound: faults of the environment in a run of each mode
  OneMishap,   \* bound: at most one of them is for an operator to repair
  MaxJournal   \* bound: journal entries after which the operator gives up

(* The controller is one of the callers of Helm; WorldRestartGuard refuses *)
(* a restart into the generation that is being replaced.                   *)
ASSUME RestartAssumption ==
  /\ "restart" \in Callers
  /\ OldGen # NewGen
  /\ Order \in [Members -> Nat] /\ Victim \in Members

VARIABLES
  mode,      \* which command is run
  st,        \* the durable run state
  pc,        \* where the running invocation is; "off" when none runs
  todo,      \* the set of members the current loop has still to visit
  cap,       \* captured old processes of this invocation
  ix,        \* ix[m]: events of m already consumed by its watch; -1 if closed
  frozen,    \* the termination the current observation has frozen
  gateway,   \* Pod uids of the world the Gateway accepted, or << >>
  faults,    \* faults so far
  mishap,    \* a fault happened that an operator has to repair by hand
  gap        \* history: the members whose Pod was force-deleted just when its
             \* observer had found the node ready and waited for that event

ctlVars == <<pc, todo, cap, ix, frozen>>
vars == <<clusterVars, helmVars, mode, st, ctlVars, gateway, faults, mishap,
          gap>>

Caller == "restart"

Checkpoints == << "CREATED", "CAPTURED", "TERMINATED", "GENERATION_PATCHED",
                  "STARTED", "PERMIT_READY", "PERMIT_PUBLISHED",
                  "EVIDENCE_READY", "ACCEPTED" >>
Rank(c) == CHOOSE i \in 1..Len(Checkpoints) : Checkpoints[i] = c

NoCap == [m \in Members |-> [uid |-> 0, ctr |-> 0, rv |-> 0]]
Closed == [m \in Members |-> -1]
NoProofs == [m \in Members |-> NoProof]

(* _load_or_create_run_state                                               *)
NewRunState ==
  [ckpt |-> "CREATED", cap |-> NoCap, journal |-> << >>, raw |-> {},
   proofs |-> NoProofs, events |-> {}, permit |-> NoPermit,
   evidence |-> << >>]

OldValues == [generation |-> OldGen, accepted |-> OldGen, replicas |-> 1,
              permit |-> NoPermit, other |-> 0]

Init ==
  /\ ClusterInit
  /\ HelmInit(OldValues)
  /\ mode \in Modes
  /\ st = NewRunState
  /\ pc = "off" /\ todo = {} /\ cap = NoCap /\ ix = Closed
  /\ frozen = NoProof
  /\ gateway = << >>
  /\ faults = 0 /\ mishap = FALSE /\ gap = {}

(***************************************************************************)
(* Helpers                                                                 *)
(***************************************************************************)
Fault(bad) == /\ faults < MaxFaults[mode]
              /\ OneMishap => ~ (bad /\ mishap)
              /\ faults' = faults + 1
              /\ mishap' = (mishap \/ bad)
              /\ UNCHANGED gap
NoFault == UNCHANGED <<faults, mishap, gap>>

(* An exception, or the death of the process: everything but the run       *)
(* state, the release and the cluster is gone.                             *)
Stop ==
  /\ pc' = "off" /\ todo' = {} /\ cap' = NoCap /\ ix' = Closed
  /\ frozen' = NoProof
  /\ HelmAbandon(Caller)

Step(next) == pc' = next /\ UNCHANGED <<todo, cap, ix, frozen, helmVars>>
Loop(next, members) ==
  /\ pc' = next /\ todo' = members /\ frozen' = NoProof
  /\ UNCHANGED <<cap, ix, helmVars>>

(* Mutant: the node is not looked at.                                      *)
NodeAvailableUnchecked(m) == TRUE
(* _assert_node_available                                                  *)
NodeAvailable(m) == node[m] = "ready"

Without(proofs) == {m \in Members : proofs[m] = NoProof}

(* The member a loop visits next; the scale-down begins with the victim.   *)
First(m) == \A k \in todo \ {m} : Order[m] < Order[k]
NextToStop(m) == IF mode # "plain" /\ Victim \in todo THEN m = Victim
                                                     ELSE First(m)
FaultStage == IF mode = "crash" THEN "worker_crash_injection"
                                ELSE "nccl_watchdog"
FaultExit == IF mode = "crash" THEN "137" ELSE "70"

(* _validated_journal_proofs: what the journal holds as observed and       *)
(* passed in a stage.                                                      *)
Passed(stage, m) ==
  {i \in 1..Len(st.journal) : /\ st.journal[i].stage = stage
                              /\ st.journal[i].member = m
                              /\ st.journal[i].verdict = "PASS"}
JournalProof(stage, m) ==
  IF Passed(stage, m) = {} THEN NoProof
                           ELSE st.journal[CHOOSE i \in Passed(stage, m) : TRUE].proof

(* _append_observation / _append_semantic_result: one journal entry.       *)
Entry(stage, m, proof, verdict) ==
  [stage |-> stage, member |-> m, proof |-> proof, verdict |-> verdict]
Journal(e) == st' = [st EXCEPT !.journal = Append(@, e)]
(* _append_raw_watch_observation                                           *)
RawJournaled(m, e) == [st EXCEPT !.raw = @ \cup {<<m, e.type>>}]
(* _validate_and_record_semantics of the observation in hand.              *)
Verdict(stage, m, ok) ==
  Journal(Entry(stage, m, frozen, IF ok THEN "PASS" ELSE "FAIL"))

(* What the fault stage of this run proved, if it has a fault stage.       *)
Injected == IF mode = "plain" THEN NoProof
                              ELSE JournalProof(FaultStage, Victim)
Prior(m) == IF mode # "plain" /\ m = Victim THEN Injected ELSE NoProof

(***************************************************************************)
(* Loading the run state, capture and watches                              *)
(***************************************************************************)
(* Mutant: the journal of a fault is not consulted.                        *)
MergedFromCheckpoint(m) == st.proofs[m]
(* The command is invoked and goes to where the run state says.  A         *)
(* STOPPING run restores its captured world and merges the proofs of the   *)
(* checkpoint with those of the journal.                                   *)
Merged(m) == IF st.proofs[m] # NoProof THEN st.proofs[m]
             ELSE JournalProof("whole_world_termination", m)
(* A journal or checkpoint that contradicts itself ends every invocation.  *)
Contradicts(stage, m) ==
  \E i \in Passed(stage, m), j \in 1..Len(st.journal) :
    /\ st.journal[j].stage = stage /\ st.journal[j].member = m
    /\ \/ st.journal[j].verdict = "PASS"
          /\ st.journal[j].proof # st.journal[i].proof
       \/ st.journal[j].verdict = "FAIL"
          /\ st.journal[j].proof = st.journal[i].proof
Consistent ==
  \A m \in Members :
    /\ ~ Contradicts("whole_world_termination", m)
    /\ mode # "plain" => ~ Contradicts(FaultStage, m)
    /\ st.proofs[m] # NoProof =>
         JournalProof("whole_world_termination", m) \in {NoProof, st.proofs[m]}

Resumed == [st EXCEPT !.proofs = [m \in Members |-> Merged(m)]]
ResumeAt(patched, ready, evidence) ==
  CASE st.ckpt = "CREATED"            -> "capture"
    [] st.ckpt = "CAPTURED"           -> "watch"
    [] st.ckpt = "TERMINATED"         -> "patch"
    [] st.ckpt = "GENERATION_PATCHED" -> patched
    [] st.ckpt = "STARTED"            -> "fresh"
    [] st.ckpt = "PERMIT_READY"       -> ready
    [] st.ckpt = "PERMIT_PUBLISHED"   -> "evidence"
    [] st.ckpt = "EVIDENCE_READY"     -> evidence
    [] OTHER                          -> "done"
(* Mutant: a resumed run waits for fresh Pods again.                       *)
ResumeRebuilds == ResumeAt("start", "fresh", "accept")
(* Mutant: a resumed run takes the acceptance for done.                    *)
ResumePersists == ResumeAt("start", "recheck", "persist")
(* Where the checkpoint of the run state says.                             *)
Resume == ResumeAt("start", "recheck", "accept")

Invoke ==
  /\ pc = "off"
  /\ Len(st.journal) < MaxJournal
  /\ Consistent
  /\ pc' = Resume
  /\ cap' = st.cap
  /\ st' = IF st.ckpt \in {"CREATED", "EVIDENCE_READY", "ACCEPTED"}
           THEN st ELSE Resumed
  /\ todo' = CASE st.ckpt = "CAPTURED" -> Without(Resumed.proofs)
               [] st.ckpt \in {"CREATED", "GENERATION_PATCHED"} -> Members
               [] OTHER -> {}
  /\ UNCHANGED <<ix, frozen>>
  /\ NoFault /\ UNCHANGED <<clusterVars, helmVars, mode, gateway>>

(* capture_world, one member: exactly one Pod, of the Gateway's uid, on a  *)
(* ready node.                                                             *)
Capturable(m) == /\ Exists(m) /\ pods[m].uid = 1 /\ pods[m].gen = OldGen
                 /\ NodeAvailable(m)
(* The ProcessIdentity that is captured and written to the run state.      *)
Process(m) == [uid |-> pods[m].uid, ctr |-> Container(pods[m]),
               rv |-> Len(stream[m])]

CaptureMember ==
  /\ pc = "capture"
  /\ \E m \in todo :
       /\ First(m)
       /\ IF Capturable(m)
          THEN /\ cap' = [cap EXCEPT ![m] = Process(m)]
               /\ todo' = IF todo = {m} THEN Members ELSE todo \ {m}
               /\ pc' = IF todo = {m} THEN "watch" ELSE "capture"
               /\ UNCHANGED <<ix, frozen, helmVars>>
          ELSE Stop
  /\ NoFault /\ UNCHANGED <<clusterVars, mode, st, gateway>>

(* start_termination_watch, from the captured resourceVersion.             *)
WatchCursor(m) == cap[m].rv

StartWatch ==
  /\ pc = "watch"
  /\ \E m \in todo :
       /\ First(m)
       /\ IF NodeAvailable(m) /\ ~ expired[m]
          THEN /\ ix' = [ix EXCEPT ![m] = WatchCursor(m)]
               /\ todo' = todo \ {m}
               /\ UNCHANGED <<pc, cap, frozen, helmVars>>
          ELSE Stop
  /\ NoFault /\ UNCHANGED <<clusterVars, mode, st, gateway>>

(* All watches stand: a CREATED run writes what it captured.               *)
WriteCaptured ==
  /\ pc = "watch" /\ todo = {}
  /\ st' = IF st.ckpt = "CREATED"
           THEN [st EXCEPT !.ckpt = "CAPTURED", !.cap = cap,
                           !.proofs = NoProofs]
           ELSE st
  /\ Step("fault")
  /\ NoFault /\ UNCHANGED <<clusterVars, mode, gateway>>

(***************************************************************************)
(* The fault stage of a worker_crash or a watchdog run                     *)
(***************************************************************************)
Faulted == mode = "plain" \/ st.proofs[Victim] # NoProof \/ Injected # NoProof

SkipFault ==
  /\ pc = "fault" /\ Faulted
  /\ Step("stop")
  /\ NoFault /\ UNCHANGED <<clusterVars, mode, st, gateway>>

(* inject_process_fault: the exec kills the process only if it is still    *)
(* the one the Gateway knew; any other answer ends the invocation.         *)
Selected == /\ pods[Victim].uid = cap[Victim].uid /\ Container(pods[Victim]) = 1
            /\ pods[Victim].up /\ node[Victim] = "ready"

InjectFault ==
  /\ pc = "fault" /\ ~ Faulted /\ mode = "crash"
  /\ IF Selected
     THEN /\ ContainerExits(Victim, "137", TRUE)
          /\ Step("faultobs")
     ELSE Stop /\ UNCHANGED clusterVars
  /\ NoFault /\ UNCHANGED <<mode, st, gateway>>

(* The process is dead but the exec's answer is lost.                      *)
InjectLost ==
  /\ pc = "fault" /\ ~ Faulted /\ mode = "crash"
  /\ Container(pods[Victim]) = 1
  /\ ContainerExits(Victim, "137", TRUE)
  /\ Stop
  /\ Fault(TRUE) /\ UNCHANGED <<mode, st, gateway>>

AwaitWatchdog ==
  /\ pc = "fault" /\ ~ Faulted /\ mode = "watchdog"
  /\ Step("faultobs")
  /\ NoFault /\ UNCHANGED <<clusterVars, mode, st, gateway>>

(***************************************************************************)
(* Observing a termination                                                 *)
(***************************************************************************)
NextEvent(m) == stream[m][ix[m] + 1]

(* _observe_or_persist_incomplete: the observer raises; what it saw is     *)
(* journaled as incomplete, which no later invocation reads.               *)
Incomplete(s) == Stop /\ st' = s

(* The member under observation.                                           *)
Observed == IF pc \in {"faultobs", "faulttake"} THEN {Victim}
           ELSE {m \in todo : First(m)}

(* Each turn of _consume_termination_observation begins with the node: one *)
(* that is not ready ends the observation before any event is taken.       *)
CheckNode ==
  /\ pc \in {"faultobs", "observe"}
  /\ \E m \in Observed :
       IF NodeAvailable(m)
       THEN Step(IF pc = "observe" THEN "take" ELSE "faulttake") /\ UNCHANGED st
       ELSE Incomplete(st)
  /\ NoFault /\ UNCHANGED <<clusterVars, mode, gateway>>

(* Then it waits on the queue that the watch fills, for 0.25 s at most.    *)
(* The raw event is journaled before it is read; then it is consumed.      *)
Consume(m, stage, requireDeleted, again, next) ==
  LET f == IF frozen = NoProof THEN Prior(m) ELSE frozen
      e == NextEvent(m)
      g == Frozen(e, cap[m], f, Len(st.journal) + 1)
      raw == RawJournaled(m, e)
  IN \/ /\ ix[m] = Len(stream[m])
        /\ Step(again) /\ UNCHANGED st
     \/ /\ ix[m] < Len(stream[m])
        /\ IF Rejects(e, cap[m], f)
           THEN Incomplete(raw)
           ELSE /\ ix' = [ix EXCEPT ![m] = @ + 1]
                /\ frozen' = IF Returns(e, cap[m], f, requireDeleted)
                             THEN Proof(e, g) ELSE g
                /\ pc' = IF Returns(e, cap[m], f, requireDeleted)
                         THEN next ELSE again
                /\ st' = IF Returns(e, cap[m], f, requireDeleted)
                         THEN [raw EXCEPT !.journal = Append(@,
                                 Entry(stage, m, Proof(e, g), "OBSERVED"))]
                         ELSE raw
                /\ UNCHANGED <<todo, cap, helmVars>>

(* observe_injected_process_termination and the watchdog's counterpart.    *)
ObserveFault ==
  /\ pc = "faulttake"
  /\ Consume(Victim, FaultStage, FALSE, "faultobs", "faultsem")
  /\ NoFault /\ UNCHANGED <<clusterVars, mode, gateway>>

(* _validate_worker_crash_termination / _validate_watchdog_termination     *)
FaultProven == frozen.exit = FaultExit

JudgeFault ==
  /\ pc = "faultsem"
  /\ Verdict(FaultStage, Victim, FaultProven)
  /\ IF FaultProven
     THEN /\ pc' = "stop" /\ frozen' = NoProof
          /\ UNCHANGED <<todo, cap, ix, helmVars>>
     ELSE Stop
  /\ NoFault /\ UNCHANGED <<clusterVars, mode, gateway>>

(* observe_termination of the next member without a proof.                 *)
ObserveMember ==
  /\ pc = "take"
  /\ \E m \in Observed :
       Consume(m, "whole_world_termination", TRUE, "observe", "judge")
  /\ NoFault /\ UNCHANGED <<clusterVars, mode, gateway>>

(* _validate_durable_termination_record: the proof is complete and refers  *)
(* to journaled raw events.                                                *)
CompleteProof(m, p) ==
  /\ p.deleted
  /\ <<m, "MODIFIED">> \in st.raw /\ <<m, "DELETED">> \in st.raw
(* WorldRestartGuard.record_termination: it binds the captured process.    *)
BindsCaptured(m, p) == p.uid = cap[m].uid /\ p.ctr = cap[m].ctr

JudgeMember ==
  /\ pc = "judge"
  /\ \E m \in todo :
       LET proven == CompleteProof(m, frozen) /\ BindsCaptured(m, frozen)
       IN /\ First(m)
          /\ Verdict("whole_world_termination", m, proven)
          /\ IF proven THEN Step("checkpoint") ELSE Stop
  /\ NoFault /\ UNCHANGED <<clusterVars, mode, gateway>>

(* _checkpoint_termination_proof                                           *)
CheckpointProof ==
  /\ pc = "checkpoint"
  /\ \E m \in todo : /\ First(m)
                      /\ st' = [st EXCEPT !.proofs[m] = frozen]
                      /\ Loop("observe", todo \ {m})
  /\ NoFault /\ UNCHANGED <<clusterVars, mode, gateway>>

(***************************************************************************)
(* Stopping the old world                                                  *)
(***************************************************************************)
(* _record_protocol_event: an event may be recorded once.                  *)
RecordEvent(name) ==
  name \notin st.events /\ st' = [st EXCEPT !.events = @ \cup {name}]

(* A watchdog run records the start of the scale-down as such an event.    *)
BeginStop ==
  /\ pc = "stop"
  /\ \/ mode # "watchdog" /\ UNCHANGED st /\ Loop("stopping", Members)
     \/ mode = "watchdog" /\ RecordEvent("scale_down") /\ Loop("stopping", Members)
     \/ mode = "watchdog" /\ "scale_down" \in st.events /\ Stop /\ UNCHANGED st
  /\ NoFault /\ UNCHANGED <<clusterVars, mode, gateway>>

(* stop_member                                                             *)
ScaleDown(m) ==
  /\ replicas' = [replicas EXCEPT ![m] = 0]
  /\ UNCHANGED <<tmpl, permit, pods, made, node, orphan, stream, expired>>

StopMember ==
  /\ pc = "stopping"
  /\ \E m \in todo :
       /\ NextToStop(m)
       /\ ScaleDown(m)
       /\ IF todo = {m} THEN Loop("observe", Without(st.proofs))
                        ELSE Loop("stopping", todo \ {m})
  /\ NoFault /\ UNCHANGED <<mode, st, gateway>>

StopLost ==
  /\ pc = "stopping"
  /\ \E m \in todo : NextToStop(m) /\ ScaleDown(m)
  /\ Stop
  /\ Fault(mode = "watchdog") /\ UNCHANGED <<mode, st, gateway>>

(* Four proofs, the fault's exit code among them, close the old world.     *)
HasAllProofs == \A m \in Members : st.proofs[m] # NoProof

Terminated ==
  /\ pc = "observe" /\ todo = {}
  /\ IF HasAllProofs /\ (mode = "crash" => st.proofs[Victim].exit = "137")
     THEN /\ st' = [st EXCEPT !.ckpt = "TERMINATED"]
          /\ ix' = Closed
          /\ pc' = "patch" /\ UNCHANGED <<todo, cap, frozen, helmVars>>
     ELSE Stop /\ UNCHANGED st
  /\ NoFault /\ UNCHANGED <<clusterVars, mode, gateway>>

(***************************************************************************)
(* _continue_after_termination                                             *)
(***************************************************************************)
(* patch_generation                                                        *)
PatchGeneration ==
  /\ pc = "patch" /\ HasAllProofs
  /\ HelmBegin(Caller, [generation |-> NewGen, replicas |-> 0])
  /\ pc' = "patching" /\ UNCHANGED <<todo, cap, ix, frozen>>
  /\ NoFault /\ UNCHANGED <<clusterVars, mode, st, gateway>>

GenerationPatched ==
  /\ pc = "patching" /\ HelmEnd(Caller)
  /\ st' = [st EXCEPT !.ckpt = "GENERATION_PATCHED"]
  /\ pc' = "start" /\ todo' = Members /\ UNCHANGED <<cap, ix, frozen>>
  /\ NoFault /\ UNCHANGED <<clusterVars, mode, gateway>>

(* start_member                                                            *)
ScaleUp(m) ==
  /\ replicas' = [replicas EXCEPT ![m] = 1]
  /\ UNCHANGED <<tmpl, permit, pods, made, node, orphan, stream, expired>>

StartMember ==
  /\ pc = "start"
  /\ \E m \in todo : /\ First(m)
                      /\ ScaleUp(m)
                      /\ Loop("start", todo \ {m})
  /\ NoFault /\ UNCHANGED <<mode, st, gateway>>

Started ==
  /\ pc = "start" /\ todo = {}
  /\ st' = [st EXCEPT !.ckpt = "STARTED"]
  /\ Step("fresh")
  /\ NoFault /\ UNCHANGED <<clusterVars, mode, gateway>>

(* _wait_worker_pod_uids: Pods being deleted are passed over, a Pod of     *)
(* another generation or of the captured world is an error.                *)
Listed == {m \in Members : Exists(m) /\ ~ pods[m].deleting}
ListedUids == [m \in Members |-> pods[m].uid]
(* Mutant: the generation of a Pod is not looked at.                       *)
WrongPodsAnyGeneration ==
  Listed = Members /\ \E m \in Members : pods[m].uid = st.cap[m].uid
WrongPods == \/ \E m \in Listed : pods[m].gen # NewGen
             \/ Listed = Members /\ \E m \in Members :
                                      pods[m].uid = st.cap[m].uid

(* build_startup_permit                                                    *)
BuiltPermit == [gen |-> NewGen, uids |-> ListedUids]

FreshPods ==
  /\ pc = "fresh"
  /\ WrongPods \/ Listed = Members
  /\ IF WrongPods THEN Stop /\ UNCHANGED st
     ELSE /\ st' = [st EXCEPT !.ckpt = "PERMIT_READY", !.permit = BuiltPermit]
          /\ Step("publish")
  /\ NoFault /\ UNCHANGED <<clusterVars, mode, gateway>>

(* A run resumed at PERMIT_READY insists on the Pods its permit names.     *)
RecheckPods ==
  /\ pc = "recheck"
  /\ WrongPods \/ Listed = Members
  /\ IF WrongPods \/ ListedUids # st.permit.uids THEN Stop
     ELSE Step("publish")
  /\ NoFault /\ UNCHANGED <<clusterVars, mode, st, gateway>>

(* publish_startup_permit: a merge patch; after an error the permit read   *)
(* back decides.                                                           *)
SetPermit == /\ permit' = st.permit
             /\ UNCHANGED <<replicas, tmpl, pods, made, node, orphan, stream,
                            expired>>

PublishPermit ==
  /\ pc = "publish"
  /\ SetPermit
  /\ st' = [st EXCEPT !.ckpt = "PERMIT_PUBLISHED"]
  /\ Step("evidence")
  /\ NoFault /\ UNCHANGED <<mode, gateway>>

PublishFails ==
  /\ pc = "publish"
  /\ SetPermit \/ UNCHANGED clusterVars
  /\ IF permit' = st.permit
     THEN st' = [st EXCEPT !.ckpt = "PERMIT_PUBLISHED"] /\ Step("evidence")
     ELSE Stop /\ UNCHANGED st
  /\ Fault(FALSE) /\ UNCHANGED <<mode, gateway>>

(* wait_acceptance_evidence: every worker runs, in the new generation and  *)
(* under the published permit.  The identities must be the permit's.       *)
EvidenceReady ==
  \A m \in Members : /\ pods[m].up /\ pods[m].gen = NewGen
                     /\ permit.gen = NewGen
                     /\ permit.uids[m] = pods[m].uid

(* _validate_permitted_identities                                          *)
Permitted == ListedUids = st.permit.uids

AcceptanceEvidence ==
  /\ pc = "evidence" /\ EvidenceReady
  /\ IF Permitted
     THEN /\ st' = [st EXCEPT !.ckpt = "EVIDENCE_READY",
                              !.evidence = ListedUids]
          /\ Step("accept")
     ELSE Stop /\ UNCHANGED st
  /\ NoFault /\ UNCHANGED <<clusterVars, mode, gateway>>

(* accept_topology: the Gateway takes the run's evidence if its workers    *)
(* are still the ones named, and answers a repeated run as before.         *)
GatewayAccepts == gateway = st.evidence
                  \/ (gateway = << >> /\ EvidenceReady
                      /\ ListedUids = st.evidence)

AcceptTopology ==
  /\ pc = "accept"
  /\ IF GatewayAccepts
     THEN /\ gateway' = st.evidence
          /\ Step("persist")
     ELSE Stop /\ UNCHANGED gateway
  /\ NoFault /\ UNCHANGED <<clusterVars, mode, st>>

AcceptLost ==
  /\ pc = "accept"
  /\ gateway' = IF GatewayAccepts THEN st.evidence ELSE gateway
  /\ Stop
  /\ Fault(FALSE) /\ UNCHANGED <<clusterVars, mode, st>>

(* persist_started_world                                                   *)
PersistWorld ==
  /\ pc = "persist"
  /\ HelmBegin(Caller, [generation |-> NewGen, accepted |-> NewGen,
                        replicas |-> 1, permit |-> st.permit])
  /\ pc' = "persisting" /\ UNCHANGED <<todo, cap, ix, frozen>>
  /\ NoFault /\ UNCHANGED <<clusterVars, mode, st, gateway>>

Accepted ==
  /\ pc = "persisting" /\ HelmEnd(Caller)
  /\ st' = [st EXCEPT !.ckpt = "ACCEPTED"]
  /\ pc' = "done" /\ UNCHANGED <<todo, cap, ix, frozen>>
  /\ NoFault /\ UNCHANGED <<clusterVars, mode, gateway>>

Return ==
  /\ pc = "done"
  /\ Stop
  /\ NoFault /\ UNCHANGED <<clusterVars, mode, st, gateway>>

(***************************************************************************)
(* The Helm call of this controller and what a revision does               *)
(***************************************************************************)
HelmQuiet ==
  /\ HelmSnapshot(Caller) \/ HelmConfirm(Caller) \/ HelmReconcile(Caller)
     \/ HelmDelete(Caller) \/ HelmRefused(Caller)
  /\ NoFault /\ UNCHANGED <<clusterVars, mode, st, ctlVars, gateway>>

Applies(result) == IF result = "deployed"
                   THEN ApplyManifest(hist'[Len(hist')].vals)
                   ELSE \/ UNCHANGED clusterVars
                        \/ /\ result # "none"
                           /\ ApplyManifest(hist'[Len(hist')].vals)

HelmCommand ==
  /\ HelmRun(Caller, "deployed", FALSE) \/ HelmRetry(Caller, "deployed")
  /\ Applies("deployed")
  /\ NoFault /\ UNCHANGED <<mode, st, ctlVars, gateway>>

HelmFails ==
  /\ \E result \in Results :
       /\ \/ HelmRun(Caller, result, TRUE)
          \/ result # "deployed" /\ HelmRetry(Caller, result)
       /\ Applies(result)
       /\ Fault(call[Caller].pc = "retry" /\ result # "none")
  /\ UNCHANGED <<mode, st, ctlVars, gateway>>

HelmRaises ==
  /\ call[Caller].pc = "raise"
  /\ Stop
  /\ NoFault /\ UNCHANGED <<clusterVars, mode, st, gateway>>

(* The deadline of a wait passes, or a watch ends.  What a run waits for   *)
(* in vain after a mishap it times out on as often as it is invoked.       *)
TimeOut ==
  /\ pc \in {"faultobs", "faulttake", "observe", "take", "fresh", "recheck",
            "evidence"}
  /\ Stop
  /\ IF mishap THEN NoFault ELSE Fault(mode # "plain")
  /\ UNCHANGED <<clusterVars, mode, st, gateway>>

(***************************************************************************)
(* The environment                                                         *)
(***************************************************************************)
(* The controller dies.  A revision it leaves unfinished stays unfinished. *)
Crash ==
  /\ pc # "off"
  /\ Stop
  /\ Fault(Latest.status # "deployed" \/ (mode # "plain" /\ st.ckpt = "CAPTURED"))
  /\ UNCHANGED <<clusterVars, mode, st, gateway>>

(* What the cluster does by itself.                                        *)
Kubernetes(m) ==
  /\ \/ replicas[m] = 0 /\ DeletePod(m)
     \/ pods[m].deleting /\ ContainerExits(m, "0", TRUE)
     \/ ContainerRestarts(m)
     \/ RemovePod(m)
     \/ CreatePod(m)
     \/ NodeBack(m)
     \/ /\ mode = "watchdog" /\ m = Victim /\ pc \in {"faultobs", "faulttake"}
        /\ pods[m].gen = OldGen /\ pods[m].exits = << >>
        /\ ContainerExits(m, "70", TRUE)
  /\ NoFault /\ UNCHANGED <<helmVars, mode, st, ctlVars, gateway>>

(* The observer of m has checked the node and waits for the next event.    *)
Waiting(m) == pc = "take" /\ m \in Observed /\ ix[m] = Len(stream[m])

(* What goes wrong with it.  Most of these leave a run that only an        *)
(* operator can complete: the exits of a run with a fault stage are not    *)
(* the ones it waits for, a container found dead at capture is not seen to *)
(* end, an unreported exit is never seen, an evicted Pod is not the one    *)
(* captured or permitted.                                                  *)
Misfortune(m) ==
  /\ \/ /\ ~ pods[m].deleting /\ Len(pods[m].exits) + 1 < MaxContainers
        /\ ContainerExits(m, "0", TRUE)
        /\ Fault(mode # "plain" \/ st.ckpt = "CREATED")
     \/ ContainerExits(m, "0", FALSE) /\ Fault(TRUE)
     \/ DeletePod(m) /\ Fault(TRUE)
     \/ NodeLost(m) /\ Fault(mode # "plain")
     \/ /\ ForceDelete(m) /\ mishap' = TRUE /\ UNCHANGED faults
        /\ gap' = IF Waiting(m) THEN gap \cup {m} ELSE gap
     \/ HistoryExpires(m) /\ Fault(TRUE)
  /\ UNCHANGED <<helmVars, mode, st, ctlVars, gateway>>

(* Another operator upgrades the same release, with a value of their own   *)
(* or with the very values this controller is asking for.  The manifests   *)
(* are applied when the command ends.                                      *)
OtherBegins ==
  /\ \/ ForeignBegin([other |-> 1])
     \/ call[Caller].pc # "idle" /\ ForeignBegin(call[Caller].want)
  /\ UNCHANGED clusterVars
  /\ Fault(TRUE)
  /\ UNCHANGED <<mode, st, ctlVars, gateway>>

OtherEnds ==
  /\ \E result \in {"failed", "deployed"} : ForeignEnd(result) /\ Applies(result)
  /\ NoFault /\ UNCHANGED <<mode, st, ctlVars, gateway>>

Controller ==
  \/ Invoke \/ CaptureMember \/ StartWatch \/ WriteCaptured
  \/ SkipFault \/ InjectFault \/ AwaitWatchdog \/ CheckNode
  \/ ObserveFault \/ JudgeFault
  \/ BeginStop \/ StopMember \/ ObserveMember \/ JudgeMember
  \/ CheckpointProof \/ Terminated
  \/ PatchGeneration \/ GenerationPatched \/ StartMember \/ Started
  \/ FreshPods \/ RecheckPods \/ PublishPermit \/ AcceptanceEvidence
  \/ AcceptTopology \/ PersistWorld \/ Accepted \/ Return
  \/ HelmQuiet \/ HelmCommand \/ HelmRaises

Next ==
  \/ Controller
  \/ InjectLost \/ StopLost \/ PublishFails \/ AcceptLost \/ HelmFails
  \/ TimeOut
  \/ Crash
  \/ \E m \in Members : Kubernetes(m) \/ Misfortune(m)
  \/ OtherBegins \/ OtherEnds

Spec == Init /\ [][Next]_vars

(* A running invocation takes its next step, an ended one is invoked       *)
(* again, and the cluster does what it is told.                            *)
Fairness == /\ WF_vars(Controller)
            /\ \A m \in Members : WF_vars(Kubernetes(m))
LiveSpec == Spec /\ Fairness

(***************************************************************************)
(* Properties                                                              *)
(***************************************************************************)
ProofType == [uid : 0..3, ctr : 0..MaxContainers + 1,
              exit : {"", "0", "70", "137"},
              source : {"", "state", "lastState"}, seq : 0..MaxJournal + 2,
              deleted : BOOLEAN]
TypeOK ==
  /\ replicas \in [Members -> {0, 1}]
  /\ tmpl \in {OldGen, NewGen}
  /\ node \in [Members -> {"ready", "lost"}]
  /\ st.ckpt \in {Checkpoints[i] : i \in 1..Len(Checkpoints)}
  /\ st.proofs \in [Members -> ProofType]
  /\ frozen \in ProofType
  /\ \A m \in Members : ix[m] \in -1..Len(stream[m])
  /\ faults \in 0..MaxFaults[mode] /\ mishap \in BOOLEAN

(* While a Pod of the new generation exists every member has a durable     *)
(* termination proof, and a proof is the truth: the captured Pod is gone,  *)
(* the captured container has ended, and no container that was restarted   *)
(* after it still runs on a lost node.  The last holds unless that Pod was *)
(* force-deleted between the observer's node check and the event it then   *)
(* read, which the code does not notice (_consume_termination_observation, *)
(* _assert_node_available, _continue_after_termination).                   *)
NoOverlap ==
  /\ \A m \in Members : st.proofs[m] # NoProof =>
       /\ pods[m].uid # st.cap[m].uid
       /\ ~ ContainerRuns(m, st.cap[m].uid, st.cap[m].ctr)
       /\ m \notin gap => ~ Running(m, st.cap[m].uid)
  /\ (\E m \in Members : Exists(m) /\ pods[m].gen = NewGen) => HasAllProofs

(* When the permit that lets the new world start is in the ConfigMap,      *)
(* every Pod name is held by the new generation: not even a Pod of the old *)
(* generation that was created after the capture is left                   *)
(* (_wait_worker_pod_uids before publish_startup_permit).                  *)
PermitExclusive ==
  permit.gen = NewGen => \A m \in Members : Exists(m) => pods[m].gen = NewGen

(* The world the Gateway accepted is the one the durable permit names, and *)
(* an ACCEPTED run has left it in the release: the next helm upgrade       *)
(* renders that permit, that generation and one replica each.              *)
AcceptedWorld ==
  /\ gateway # << >> => gateway = st.permit.uids
  /\ st.ckpt = "ACCEPTED" =>
       /\ gateway = st.evidence
       /\ LET v == hist[Deployed].vals
          IN /\ v.generation = NewGen /\ v.accepted = NewGen
             /\ v.replicas = 1 /\ v.permit = st.permit

(* Across crashes and resumptions the run only moves forward: checkpoints  *)
(* never go back, and a captured identity, a proof or a permit once        *)
(* written is never replaced by another.                                   *)
RunForward ==
  [][ /\ Rank(st'.ckpt) >= Rank(st.ckpt)
      /\ st.ckpt # "CREATED" => st'.cap = st.cap
      /\ \A m \in Members : st.proofs[m] # NoProof =>
                              st'.proofs[m] = st.proofs[m]
      /\ st.permit # NoPermit => st'.permit = st.permit ]_vars

(* The reconciliation of a lost Helm answer takes back nothing but what    *)
(* its own call asked for: the revision it deletes is unfinished, comes    *)
(* next after the call's snapshot and has exactly the values the retried   *)
(* command will write.  It may be another operator's, but then what that   *)
(* operator changed is not lost; an upgrade to other values stays, even    *)
(* an unfinished one (_inspect_helm_upgrade_result,                        *)
(* _delete_exact_helm_revision).                                           *)
AskedRevisionOnly ==
  [][ \A i \in 1..Len(hist) :
        (\A j \in 1..Len(hist') : hist'[j].rev # hist[i].rev) =>
          /\ hist[i].status \in {"pending-upgrade", "failed"}
          /\ hist[i].rev = call[Caller].rev + 1
          /\ hist[i].vals = Expected(Caller) ]_vars

(* A run that is invoked again after every exit ends ACCEPTED, unless      *)
(* something happened that has to be repaired by hand.                     *)
Completes == <>(st.ckpt = "ACCEPTED" \/ mishap)
=============================================================================
