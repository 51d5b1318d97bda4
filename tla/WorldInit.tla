----------------------------- MODULE WorldInit -----------------------------
(***************************************************************************)
(* `pd-worldctl initialize`: WorldInitializeActuator brings up the first   *)
(* worker world of a release.  The right to do so is a record in the       *)
(* topology ConfigMap, moved UNINITIALIZED -> INITIALIZING -> ACCEPTED by  *)
(* JSON patches that test the ConfigMap's uid, resourceVersion and state.  *)
(* A run keeps its own state in a local file and is invoked again after a  *)
(* crash or an error; several operators may run the command at once, each  *)
(* with a file of their own.                                               *)
(*                                                                         *)
(* A patch and the read that follows it are two steps; the answer to a     *)
(* patch may be lost, and the read alone tells whether it was applied.     *)
(***************************************************************************)
EXTENDS HelmRelease, FiniteSets

CONSTANTS
  Runs,        \* the initialization runs; each is also the caller of its Helm
  Members,     \* the fixed members of the world
  Order,       \* MEMBERS
  MaxFaults,   \* bound: faults of the environment in one behaviour
  OneMishap,   \* bound: at most one of them is to be repaired by hand
  MaxRevisions \* bound: an accepted run is invoked again up to this revision

(* Every run calls Helm, and no run bears the name that stands for none.   *)
ASSUME InitAssumption == Runs \subseteq Callers /\ "none" \notin Runs

VARIABLES
  cm,        \* the topology ConfigMap: [uid, rv, phase, run, permit]
  replicas,  \* replicas[m] of the StatefulSets
  pods,      \* pods[m]: uid of the live Pod of m, 0 when there is none
  made,      \* made[m]: Pods created for m so far
  local,     \* local[r]: the durable run state [phase, cmuid, permit]
  pc,        \* where each invocation is; "off" when none runs
  snap,      \* snap[r]: the ConfigMap as r last read it
  seen,      \* seen[r]: Pod uids r last waited for
  todo,      \* todo[r]: members r has still to start
  faults, mishap

worldVars == <<cm, replicas, pods, made>>
runVars == <<pc, snap, seen, todo>>
vars == <<helmVars, worldVars, local, runVars, faults, mishap>>

NoRun == "none"
NoPermit == [run |-> NoRun, uids |-> << >>]
NoMap == [uid |-> 0, rv |-> 0, phase |-> "UNINITIALIZED", run |-> NoRun,
          permit |-> NoPermit]
NoUids == [m \in Members |-> 0]
Values == [phase |-> "UNINITIALIZED", run |-> NoRun, permit |-> NoPermit,
           replicas |-> 0, other |-> 0]

(* _load_or_create_initialize_run_state                                    *)
NewLocal == [phase |-> "CREATED", cmuid |-> 0, permit |-> NoPermit]

Init ==
  /\ HelmInit(Values)
  /\ cm = [NoMap EXCEPT !.uid = 1]
  /\ replicas = [m \in Members |-> 0]
  /\ pods = NoUids /\ made = NoUids
  /\ local = [r \in Runs |-> NewLocal]
  /\ pc = [r \in Runs |-> "off"]
  /\ snap = [r \in Runs |-> NoMap]
  /\ seen = [r \in Runs |-> NoUids]
  /\ todo = [r \in Runs |-> << >>]
  /\ faults = 0 /\ mishap = FALSE

(***************************************************************************)
(* Helpers                                                                 *)
(***************************************************************************)
Fault(bad) == /\ faults < MaxFaults
              /\ OneMishap => ~ (bad /\ mishap)
              /\ faults' = faults + 1
              /\ mishap' = (mishap \/ bad)
NoFault == UNCHANGED <<faults, mishap>>

(* An exception or the death of the process.                               *)
Stop(r) == /\ pc' = [pc EXCEPT ![r] = "off"]
           /\ snap' = [snap EXCEPT ![r] = NoMap]
           /\ seen' = [seen EXCEPT ![r] = NoUids]
           /\ todo' = [todo EXCEPT ![r] = << >>]
           /\ HelmAbandon(r)

Go(r, next) == /\ pc' = [pc EXCEPT ![r] = next]
               /\ UNCHANGED <<seen, todo, helmVars>>
Step(r, next) == Go(r, next) /\ UNCHANGED snap

(* read_initialization_snapshot                                            *)
ReadBack(r, next) == Go(r, next) /\ snap' = [snap EXCEPT ![r] = cm]

(* _require_initialization_identity                                        *)
Owns(r, s, phases) == s.run = r /\ s.phase \in phases

SamePermit(r, permit) ==
  /\ permit.run = r
  /\ local[r].permit \in {NoPermit, permit}

(* _patch_initialization_configmap: applied only to the ConfigMap exactly  *)
(* as it was read.                                                         *)
Unmoved(r) == /\ cm.uid = snap[r].uid
              /\ cm.rv = snap[r].rv
              /\ cm.phase = snap[r].phase /\ cm.run = snap[r].run
Patch(r, new) ==
  cm' = IF Unmoved(r) THEN [new EXCEPT !.rv = cm.rv + 1] ELSE cm

(***************************************************************************)
(* initialize                                                              *)
(***************************************************************************)
Invoke(r) ==
  /\ pc[r] = "off"
  /\ local[r].phase = "ACCEPTED" => Len(hist) < MaxRevisions
  /\ Step(r, "read")
  /\ NoFault /\ UNCHANGED <<worldVars, local>>

(* The first snapshot binds the run to one ConfigMap and decides where an  *)
(* invocation goes on.                                                     *)
Bound(r) == local[r].cmuid \in {0, cm.uid}
EntryOf(r, resumes, accepted) ==
  CASE cm.phase = "UNINITIALIZED" /\ local[r].phase = "CREATED"
         /\ cm.permit = NoPermit -> "claim"
    [] cm.phase = "ACCEPTED" /\ accepted -> "persist"
    [] Owns(r, cm, {"INITIALIZING"}) /\ resumes -> "start"
    [] OTHER -> "off"
OwnAccepted(r) == Owns(r, cm, {"ACCEPTED"}) /\ SamePermit(r, cm.permit)
(* Mutant: a run resumes only what its own file says it claimed.           *)
EntryAfterClaimOnly(r) ==
  EntryOf(r, local[r].phase \in {"CLAIMED", "PERMIT_READY"}, OwnAccepted(r))
Entry(r) == EntryOf(r, local[r].phase # "ACCEPTED", OwnAccepted(r))

Read(r) ==
  /\ pc[r] = "read"
  /\ local' = IF Bound(r) THEN [local EXCEPT ![r].cmuid = cm.uid] ELSE local
  /\ IF Bound(r) /\ Entry(r) # "off"
     THEN /\ pc' = [pc EXCEPT ![r] = Entry(r)]
          /\ snap' = [snap EXCEPT ![r] = cm]
          /\ todo' = [todo EXCEPT ![r] = Order]
          /\ UNCHANGED <<seen, helmVars>>
     ELSE Stop(r)
  /\ NoFault /\ UNCHANGED worldVars

(* claim_initialization: the patch, then the exact read-back.              *)
Claimed(r) == [cm EXCEPT !.phase = "INITIALIZING", !.run = r]

Claim(r) ==
  /\ pc[r] = "claim"
  /\ Patch(r, Claimed(r))
  /\ Step(r, "claimed")
  /\ NoFault /\ UNCHANGED <<replicas, pods, made, local>>

ClaimReadBack(r) ==
  /\ pc[r] = "claimed"
  /\ IF /\ cm.uid = snap[r].uid /\ Owns(r, cm, {"INITIALIZING"})
        /\ cm.permit = NoPermit
     THEN /\ local' = [local EXCEPT ![r].phase = "CLAIMED"]
          /\ ReadBack(r, "start")
     ELSE Stop(r) /\ UNCHANGED local
  /\ NoFault /\ UNCHANGED worldVars

(* start_member for every member, then wait_initial_pod_uids.              *)
StartMember(r) ==
  /\ pc[r] = "start" /\ todo[r] # << >>
  /\ replicas' = [replicas EXCEPT ![Head(todo[r])] = 1]
  /\ todo' = [todo EXCEPT ![r] = Tail(@)]
  /\ UNCHANGED <<pc, snap, seen, helmVars>>
  /\ NoFault /\ UNCHANGED <<cm, pods, made, local>>

AllPods == \A m \in Members : pods[m] # 0

InitialPods(r) ==
  /\ pc[r] = "start" /\ todo[r] = << >> /\ AllPods
  /\ seen' = [seen EXCEPT ![r] = pods]
  /\ pc' = [pc EXCEPT ![r] = "permit"]
  /\ UNCHANGED <<snap, todo, helmVars>>
  /\ NoFault /\ UNCHANGED <<worldVars, local>>

(* The permit: built from the Pods and written to the run state before it  *)
(* is published, or taken over from the ConfigMap.                         *)
BuildPermit(r) ==
  /\ pc[r] = "permit" /\ snap[r].permit = NoPermit
  /\ local' = [local EXCEPT ![r].phase = "PERMIT_READY",
                            ![r].permit = [run |-> r, uids |-> seen[r]]]
  /\ Step(r, "publish")
  /\ NoFault /\ UNCHANGED worldVars

AdoptPermit(r) ==
  /\ pc[r] = "permit" /\ snap[r].permit # NoPermit
  /\ IF SamePermit(r, snap[r].permit)
     THEN /\ local' = [local EXCEPT ![r].phase = "PERMIT_READY",
                                    ![r].permit = snap[r].permit]
          /\ Step(r, "pods")
     ELSE Stop(r) /\ UNCHANGED local
  /\ NoFault /\ UNCHANGED worldVars

(* publish_initialization_permit                                           *)
Publish(r) ==
  /\ pc[r] = "publish"
  /\ Patch(r, [cm EXCEPT !.permit = local[r].permit])
  /\ Step(r, "published")
  /\ NoFault /\ UNCHANGED <<replicas, pods, made, local>>

PublishReadBack(r) ==
  /\ pc[r] = "published"
  /\ IF /\ cm.uid = snap[r].uid
        /\ cm.phase = snap[r].phase /\ cm.run = snap[r].run
        /\ cm.permit = local[r].permit
     THEN ReadBack(r, "pods")
     ELSE Stop(r)
  /\ NoFault /\ UNCHANGED <<worldVars, local>>

(* The permit must name the Pods seen before and the Pods seen now, both   *)
(* before the evidence is awaited and after the Gateway is ready.          *)
PodsAsPermitted(r) == seen[r] = local[r].permit.uids
                      /\ pods = local[r].permit.uids

CheckPods(r) ==
  /\ pc[r] \in {"pods", "ready"} /\ AllPods
  /\ IF PodsAsPermitted(r)
     THEN Step(r, IF pc[r] = "pods" THEN "evidence" ELSE "latest")
     ELSE Stop(r)
  /\ NoFault /\ UNCHANGED <<worldVars, local>>

(* wait_initialization_evidence, _validate_permitted_identities and        *)
(* wait_gateway_ready: a worker reports itself only under a permit that    *)
(* names its Pod.                                                          *)
Evidence(r) ==
  /\ pc[r] = "evidence"
  /\ AllPods /\ cm.permit.uids = pods
  /\ IF pods = local[r].permit.uids THEN Step(r, "ready") ELSE Stop(r)
  /\ NoFault /\ UNCHANGED <<worldVars, local>>

(* Mutant: whose claim it is is not looked at.                             *)
SameClaimAnyOwner(r) == cm.phase = "INITIALIZING"
(* The last read before acceptance must show the same claim and permit.    *)
SameClaim(r) == /\ cm.uid = snap[r].uid
              /\ Owns(r, cm, {"INITIALIZING"})
              /\ cm.permit = local[r].permit

ReadLatest(r) ==
  /\ pc[r] = "latest"
  /\ IF SameClaim(r) THEN ReadBack(r, "accept") ELSE Stop(r)
  /\ NoFault /\ UNCHANGED <<worldVars, local>>

(* accept_initialization                                                   *)
Accept(r) ==
  /\ pc[r] = "accept"
  /\ cm' = IF Unmoved(r) /\ cm.permit = snap[r].permit
           THEN [cm EXCEPT !.phase = "ACCEPTED", !.rv = @ + 1] ELSE cm
  /\ Step(r, "accepted")
  /\ NoFault /\ UNCHANGED <<replicas, pods, made, local>>

(* Mutant: the run is over once the patch was sent.                        *)
AcceptReadBackDone(r) ==
  /\ pc[r] = "accepted"
  /\ local' = [local EXCEPT ![r].phase = "ACCEPTED"]
  /\ ReadBack(r, "persist")
  /\ NoFault /\ UNCHANGED worldVars
AcceptReadBack(r) ==
  /\ pc[r] = "accepted"
  /\ IF /\ cm.uid = snap[r].uid /\ Owns(r, cm, {"ACCEPTED"})
        /\ cm.permit = snap[r].permit
     THEN ReadBack(r, "persist")
     ELSE Stop(r)
  /\ NoFault /\ UNCHANGED <<worldVars, local>>

(* persist_initialized_world, then the run is ACCEPTED locally.            *)
Persist(r) ==
  /\ pc[r] = "persist"
  /\ HelmBegin(r, [phase |-> "ACCEPTED", run |-> r, replicas |-> 1,
                   permit |-> snap[r].permit])
  /\ pc' = [pc EXCEPT ![r] = "persisting"]
  /\ UNCHANGED <<snap, seen, todo>>
  /\ NoFault /\ UNCHANGED <<worldVars, local>>

Finish(r) ==
  /\ pc[r] = "persisting" /\ call[r].pc = "ok"
  /\ local' = [local EXCEPT ![r].phase = "ACCEPTED",
                            ![r].permit = snap[r].permit]
  /\ Stop(r)
  /\ NoFault /\ UNCHANGED worldVars

(***************************************************************************)
(* The Helm calls and what a revision renders: the ConfigMap's state, its  *)
(* permit when the values have one, and the replicas.                      *)
(***************************************************************************)
ApplyManifest(vals) ==
  /\ cm' = [cm EXCEPT !.rv = @ + 1, !.phase = vals.phase, !.run = vals.run,
                      !.permit = IF vals.permit # NoPermit THEN vals.permit
                                                           ELSE @]
  /\ replicas' = [m \in Members |-> vals.replicas]
  /\ UNCHANGED <<pods, made>>

HelmQuiet(r) ==
  /\ HelmSnapshot(r) \/ HelmConfirm(r) \/ HelmReconcile(r)
     \/ HelmDelete(r) \/ HelmRefused(r)
  /\ NoFault /\ UNCHANGED <<worldVars, local, runVars>>

(* A command that does not finish may or may not have applied its          *)
(* manifests.                                                              *)
Applies(result) == IF result = "deployed"
                   THEN ApplyManifest(hist'[Len(hist')].vals)
                   ELSE \/ UNCHANGED worldVars
                        \/ /\ result # "none"
                           /\ ApplyManifest(hist'[Len(hist')].vals)

HelmCommand(r) ==
  /\ HelmRun(r, "deployed", FALSE) \/ HelmRetry(r, "deployed")
  /\ Applies("deployed")
  /\ NoFault /\ UNCHANGED <<local, runVars>>

(* The command fails, or the one retry does: an unfinished revision the    *)
(* retry leaves behind is never deleted, and every later invocation        *)
(* refuses the release.                                                    *)
HelmFails(r) ==
  /\ \E result \in Results :
       /\ \/ HelmRun(r, result, TRUE)
          \/ result # "deployed" /\ HelmRetry(r, result)
       /\ Applies(result)
       /\ Fault(call[r].pc = "retry" /\ result # "none")
  /\ UNCHANGED <<local, runVars>>

HelmRaises(r) ==
  /\ call[r].pc = "raise"
  /\ Stop(r)
  /\ NoFault /\ UNCHANGED <<worldVars, local>>

(***************************************************************************)
(* The environment                                                         *)
(***************************************************************************)
(* A wait's deadline passes; free once the run waits in vain.              *)
TimeOut(r) ==
  /\ pc[r] \in {"start", "pods", "evidence", "ready"}
  /\ Stop(r)
  /\ IF mishap THEN NoFault ELSE Fault(FALSE)
  /\ UNCHANGED <<worldVars, local>>

Crash(r) ==
  /\ pc[r] # "off"
  /\ Stop(r)
  /\ Fault(Latest.status # "deployed") /\ UNCHANGED <<worldVars, local>>

(* A patch is not applied, though its caller cannot know.                  *)
PatchLost(r) ==
  /\ \/ pc[r] = "claim" /\ Step(r, "claimed")
     \/ pc[r] = "publish" /\ Step(r, "published")
     \/ pc[r] = "accept" /\ Step(r, "accepted")
  /\ Fault(FALSE) /\ UNCHANGED <<worldVars, local>>

Kubernetes(m) ==
  /\ \/ /\ replicas[m] = 1 /\ pods[m] = 0
        /\ pods' = [pods EXCEPT ![m] = made[m] + 1]
        /\ made' = [made EXCEPT ![m] = @ + 1]
     \/ /\ replicas[m] = 0 /\ pods[m] # 0
        /\ pods' = [pods EXCEPT ![m] = 0]
        /\ UNCHANGED made
  /\ NoFault /\ UNCHANGED <<helmVars, cm, replicas, local, runVars>>

(* A Pod is replaced; a permit that already names it does not follow.      *)
PodReplaced(m) ==
  /\ pods[m] # 0
  /\ pods' = [pods EXCEPT ![m] = 0]
  /\ Fault(\E r \in Runs : local[r].permit # NoPermit
                           \/ seen[r] # NoUids)
  /\ UNCHANGED <<helmVars, cm, replicas, made, local, runVars>>

(* Another operator upgrades the release: the ConfigMap is rendered again  *)
(* from values that may know nothing of the initialization, when the       *)
(* command ends.                                                           *)
OtherBegins ==
  /\ ForeignBegin([other |-> 1])
  /\ Fault(TRUE) /\ UNCHANGED <<worldVars, local, runVars>>

OtherEnds ==
  /\ \E result \in {"failed", "deployed"} : ForeignEnd(result) /\ Applies(result)
  /\ NoFault /\ UNCHANGED <<local, runVars>>

(* The ConfigMap is deleted and rendered anew.                             *)
Recreated ==
  /\ cm' = [NoMap EXCEPT !.uid = cm.uid + 1]
  /\ Fault(TRUE) /\ UNCHANGED <<helmVars, replicas, pods, made, local, runVars>>

Operator(r) ==
  \/ Invoke(r) \/ Read(r) \/ Claim(r) \/ ClaimReadBack(r) \/ StartMember(r)
  \/ InitialPods(r) \/ BuildPermit(r) \/ AdoptPermit(r) \/ Publish(r)
  \/ PublishReadBack(r) \/ CheckPods(r) \/ Evidence(r) \/ ReadLatest(r)
  \/ Accept(r) \/ AcceptReadBack(r) \/ Persist(r) \/ Finish(r)
  \/ HelmQuiet(r) \/ HelmCommand(r) \/ HelmRaises(r)

Next ==
  \/ \E r \in Runs : \/ Operator(r) \/ HelmFails(r) \/ TimeOut(r)
                     \/ Crash(r) \/ PatchLost(r)
  \/ \E m \in Members : Kubernetes(m) \/ PodReplaced(m)
  \/ OtherBegins \/ OtherEnds \/ Recreated

Spec == Init /\ [][Next]_vars

Fairness == /\ \A r \in Runs : WF_vars(Operator(r))
            /\ \A m \in Members : WF_vars(Kubernetes(m))
LiveSpec == Spec /\ Fairness

(***************************************************************************)
(* Properties                                                              *)
(***************************************************************************)
MapType == [uid : Nat, rv : Nat,
            phase : {"UNINITIALIZED", "INITIALIZING", "ACCEPTED"},
            run : Runs \cup {NoRun},
            permit : [run : Runs \cup {NoRun}, uids : [Members -> Nat]]
                     \cup {NoPermit}]
TypeOK ==
  /\ cm \in MapType
  /\ replicas \in [Members -> {0, 1}]
  /\ \A m \in Members : pods[m] \in {0, made[m]}
  /\ \A r \in Runs :
       /\ local[r].phase \in {"CREATED", "CLAIMED", "PERMIT_READY", "ACCEPTED"}
       /\ snap[r] \in MapType
  /\ faults \in 0..MaxFaults

(* No run is bound to a ConfigMap that has been deleted since.  Such a run *)
(* can no longer patch, but a Helm command it has under way still renders  *)
(* its permit over whatever the release holds by then.                     *)
NoStaleRun == \A r \in Runs : Bound(r)

(* An accepted run stays accepted: its ConfigMap says so, names it, and    *)
(* carries the permit the run state holds, even after another operator     *)
(* rendered the release again (persist_initialized_world precedes the      *)
(* local ACCEPTED).  In particular two operators never both succeed,       *)
(* whatever patches were lost, crashed over or rolled back between them.   *)
AcceptedStands ==
  \A r \in Runs :
    (local[r].phase = "ACCEPTED" /\ NoStaleRun) =>
      /\ cm.phase = "ACCEPTED" /\ cm.run = r
      /\ cm.permit = local[r].permit

(* The accepting patch is made only by the run that claimed, under its own *)
(* permit, which was in its run state before the ConfigMap had it and      *)
(* names Pods the run has seen twice.                                      *)
AcceptBindsClaim ==
  [][ \A r \in Runs :
        (pc[r] = "accept" /\ pc'[r] = "accepted" /\ cm' # cm) =>
          /\ cm.run = r /\ cm.phase = "INITIALIZING"
          /\ cm.permit = local[r].permit /\ cm.permit.run = r
          /\ cm.permit.uids = seen[r] ]_vars

(* Some operator's run ends ACCEPTED, unless something happened that has   *)
(* to be repaired by hand.                                                 *)
InitCompletes ==
  <>((\E r \in Runs : local[r].phase = "ACCEPTED") \/ mishap)
=============================================================================
