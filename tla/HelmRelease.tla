---------------------------- MODULE HelmRelease ----------------------------
(***************************************************************************)
(* The Helm release of the fixed 2P2D world as scripts/pd_worldctl.py      *)
(* uses it: the release history (external) and one _run_helm_upgrade call  *)
(* per controller.  A call takes a snapshot of the deployed revision, runs *)
(* `helm upgrade --reuse-values`, and believes neither its success nor its *)
(* failure: it inspects the history, deletes the one unfinished revision   *)
(* it may have left behind, and runs the command once more.                *)
(*                                                                         *)
(* A release's values are a function from value names to values.  The      *)
(* effect of a revision on the cluster's objects is conjoined by the       *)
(* module that composes this one with a cluster.                           *)
(***************************************************************************)
EXTENDS Integers, Sequences

CONSTANTS Callers   \* the controllers that may run `helm upgrade`

VARIABLES
  hist,   \* the release history: [rev, status, vals, by], oldest first
  call    \* the upgrade each controller is running

helmVars == <<hist, call>>

Latest == hist[Len(hist)]

(* helm upgrade computes the reused values from the deployed revision.     *)
Deployed == CHOOSE i \in 1..Len(hist) :
              /\ hist[i].status = "deployed"
              /\ \A j \in (i+1)..Len(hist) : hist[j].status # "deployed"

(* _apply_helm_overrides: the requested paths replaced, the others kept.   *)
Override(vals, want) ==
  [f \in DOMAIN vals |-> IF f \in DOMAIN want THEN want[f] ELSE vals[f]]

NoCall == [pc |-> "idle", want |-> << >>, rev |-> 0, vals |-> << >>]

Expected(c) == Override(call[c].vals, call[c].want)

HelmInit(vals) ==
  /\ hist = << [rev |-> 1, status |-> "deployed", vals |-> vals,
                by |-> "install"] >>
  /\ call = [c \in Callers |-> NoCall]

Goto(c, pc) == call' = [call EXCEPT ![c].pc = pc]

(***************************************************************************)
(* The command itself (external).  A revision is written pending first; a  *)
(* command that finishes supersedes the deployed one.  A pending revision  *)
(* makes the next command refuse to run.                                   *)
(***************************************************************************)
NewRevision(who, status, want) ==
  [rev |-> Latest.rev + 1, status |-> status, by |-> who,
   vals |-> Override(hist[Deployed].vals, want)]

Supersede ==
  [i \in 1..Len(hist) |->
     IF hist[i].status = "deployed"
     THEN [hist[i] EXCEPT !.status = "superseded"] ELSE hist[i]]

Upgrade(who, result, want) ==
  CASE result = "none"     -> hist' = hist
    [] result = "deployed" -> /\ Latest.status # "pending-upgrade"
                              /\ hist' = Append(Supersede,
                                   NewRevision(who, "deployed", want))
    [] OTHER               -> /\ Latest.status # "pending-upgrade"
                              /\ hist' = Append(hist,
                                   NewRevision(who, result, want))

Results == {"none", "pending-upgrade", "failed", "deployed"}

(* Another operator upgrades the release: the revision is pending until    *)
(* the command ends it, and stays pending when the command is killed.      *)
ForeignBegin(want) ==
  /\ Upgrade("foreign", "pending-upgrade", want)
  /\ UNCHANGED call

ForeignEnd(result) ==
  /\ Latest.status = "pending-upgrade" /\ Latest.by = "foreign"
  /\ hist' = [IF result = "deployed" THEN Supersede ELSE hist
                EXCEPT ![Len(hist)].status = result]
  /\ UNCHANGED call

(***************************************************************************)
(* _run_helm_upgrade                                                       *)
(***************************************************************************)
HelmBegin(c, want) ==
  /\ call[c].pc = "idle"
  /\ call' = [call EXCEPT ![c] = [NoCall EXCEPT !.pc = "snapshot",
                                                !.want = want]]
  /\ UNCHANGED hist

(* _helm_deployed_snapshot: the latest revision must be the deployed one.  *)
HelmSnapshot(c) ==
  /\ call[c].pc = "snapshot"
  /\ IF Latest.status = "deployed"
     THEN call' = [call EXCEPT ![c].pc = "run", ![c].rev = Latest.rev,
                               ![c].vals = Latest.vals]
     ELSE Goto(c, "raise")
  /\ UNCHANGED hist

(* _run_mutation(command): what the command did, and whether the caller    *)
(* was told; an error says nothing about the result.                       *)
HelmRun(c, result, error) ==
  /\ call[c].pc = "run"
  /\ result # "deployed" => error
  /\ Upgrade(c, result, call[c].want)
  /\ Goto(c, IF error THEN "lost" ELSE "success")

(* A pending revision makes the command refuse to run.                     *)
HelmRefused(c) ==
  /\ Latest.status = "pending-upgrade"
  /\ \/ call[c].pc = "run" /\ Goto(c, "lost")
     \/ call[c].pc = "retry" /\ Goto(c, "success")
  /\ UNCHANGED hist

(* _inspect_helm_upgrade_result: the history against the snapshot.  New is *)
(* whether the values of a new revision pass.                              *)
InspectWith(c, new) ==
  LET prior == hist[Len(hist) - 1]
      exact == /\ Latest.rev = call[c].rev + 1
               /\ Len(hist) >= 2
               /\ prior.rev = call[c].rev
               /\ prior.vals = call[c].vals
               /\ new
  IN CASE Latest.rev = call[c].rev ->
            IF Latest.status = "deployed" /\ Latest.vals = call[c].vals
            THEN "unchanged" ELSE "invalid"
       [] Latest.rev # call[c].rev /\ exact /\ Latest.status = "deployed" ->
            IF prior.status = "superseded" THEN "deployed" ELSE "invalid"
       [] Latest.rev # call[c].rev /\ exact
            /\ Latest.status \in {"pending-upgrade", "failed"} ->
            IF prior.status = "deployed" THEN Latest.status ELSE "invalid"
       [] OTHER -> "invalid"
(* Mutant: any values pass for the ones that were asked for.               *)
InspectAnyValues(c) == InspectWith(c, TRUE)
Inspect(c) == InspectWith(c, Latest.vals = Expected(c))

(* The command succeeded: only the exact deployed revision counts.         *)
HelmConfirm(c) ==
  /\ call[c].pc = "success"
  /\ Goto(c, IF Inspect(c) = "deployed" THEN "ok" ELSE "raise")
  /\ UNCHANGED hist

(* _reconcile_helm_upgrade_response_loss, up to its bounded retry.         *)
HelmReconcile(c) ==
  /\ call[c].pc = "lost"
  /\ Goto(c, CASE Inspect(c) = "deployed"  -> "ok"
               [] Inspect(c) = "unchanged" -> "retry"
               [] Inspect(c) = "invalid"   -> "raise"
               [] OTHER -> Inspect(c))
  /\ UNCHANGED hist

(* The Secrets of one revision and status, and the history without one.    *)
Recoverable(c) == {i \in 1..Len(hist) : /\ hist[i].rev = call[c].rev + 1
                                        /\ hist[i].status = call[c].pc}
Deleted(i) == [j \in 1..Len(hist) - 1 |-> hist[IF j < i THEN j ELSE j + 1]]

(* _delete_exact_helm_revision: the Secret of revision rev + 1, which must *)
(* still carry the inspected status; uid and resourceVersion are           *)
(* preconditions of the delete.                                            *)
HelmDelete(c) ==
  /\ call[c].pc \in {"pending-upgrade", "failed"}
  /\ \/ /\ \E i \in Recoverable(c) : hist' = Deleted(i)
        /\ Goto(c, "retry")
     \/ /\ Recoverable(c) = {}
        /\ Goto(c, "raise")
        /\ UNCHANGED hist

(* The one retry; whatever it answers, the history decides.                *)
HelmRetry(c, result) ==
  /\ call[c].pc = "retry"
  /\ Upgrade(c, result, call[c].want)
  /\ Goto(c, "success")

(* The controller process ends: the call is gone, the history is not.      *)
HelmAbandon(c) ==
  /\ call' = [call EXCEPT ![c] = NoCall]
  /\ UNCHANGED hist

HelmEnd(c) == call[c].pc = "ok" /\ HelmAbandon(c)
=============================================================================
