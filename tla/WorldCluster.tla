---------------------------- MODULE WorldCluster ----------------------------
(***************************************************************************)
(* The Kubernetes objects scripts/pd_worldctl.py acts on and watches: one  *)
(* single-replica StatefulSet per world member, its Pod, the node under    *)
(* it, the Pod's watch history, and the startup permit of the topology     *)
(* ConfigMap.  Everything here is external to the repository; it is        *)
(* modelled from what the controller reads and from the objects the chart  *)
(* renders.                                                                *)
(*                                                                         *)
(* A Pod's containers are numbered from 1; exits[k] is how container k     *)
(* ended.  With `up` the container after them runs, otherwise the last of  *)
(* them is the one state.terminated describes.  restartCount is the        *)
(* container's number less one.                                            *)
(***************************************************************************)
EXTENDS Integers, Sequences

CONSTANTS
  Members,          \* the fixed members of the world (p0, p1, d0, d1)
  OldGen, NewGen,   \* the topology generations of the replaced and the new world
  MaxContainers     \* bound: containers one Pod may start

VARIABLES
  replicas,  \* replicas[m]: what the StatefulSet of m is scaled to
  tmpl,      \* the topology generation of the worker templates
  permit,    \* startup-permit.json of the topology ConfigMap
  pods,      \* pods[m]: the Pod of m, or NoPod
  made,      \* made[m]: Pods created for m so far; the last one's uid
  node,      \* node[m]: "ready" or "lost"
  orphan,    \* orphan[m]: Pod and container of a process that still ran when
             \* its Pod was deleted, or NoOrphan
  stream,    \* stream[m]: watch events of the Pod name of m
  expired    \* expired[m]: the watch history of m can no longer be replayed

clusterVars ==
  <<replicas, tmpl, permit, pods, made, node, orphan, stream, expired>>

NoPod == [uid |-> 0, gen |-> OldGen, exits |-> << >>, up |-> FALSE,
          deleting |-> FALSE]
NoOrphan == [uid |-> 0, ctr |-> 0]
NoPermit == [gen |-> OldGen, uids |-> << >>]

NewPod(u, g) == [uid |-> u, gen |-> g, exits |-> << >>, up |-> TRUE,
                 deleting |-> FALSE]

Exists(m) == pods[m] # NoPod
Container(p) == Len(p.exits) + (IF p.up THEN 1 ELSE 0)
Event(type, p) == [type |-> type, uid |-> p.uid, exits |-> p.exits,
                   up |-> p.up]
Emit(m, type, p) == stream' = [stream EXCEPT ![m] = Append(@, Event(type, p))]

(* A process of Pod u of member m is running, whether or not Kubernetes    *)
(* still has the Pod.                                                      *)
Running(m, u) == (pods[m].uid = u /\ pods[m].up) \/ orphan[m].uid = u

(* Container k of that Pod is the one that runs.                           *)
ContainerRuns(m, u, k) ==
  \/ pods[m].uid = u /\ pods[m].up /\ Container(pods[m]) = k
  \/ orphan[m] = [uid |-> u, ctr |-> k]

ClusterInit ==
  /\ replicas = [m \in Members |-> 1]
  /\ tmpl = OldGen
  /\ permit = NoPermit
  /\ pods = [m \in Members |-> NewPod(1, OldGen)]
  /\ made = [m \in Members |-> 1]
  /\ node = [m \in Members |-> "ready"]
  /\ orphan = [m \in Members |-> NoOrphan]
  /\ stream = [m \in Members |-> << >>]
  /\ expired = [m \in Members |-> FALSE]

(* What rendering a Helm revision does to the objects.                     *)
ApplyManifest(vals) ==
  /\ replicas' = [m \in Members |-> vals.replicas]
  /\ tmpl' = vals.generation
  /\ permit' = vals.permit
  /\ UNCHANGED <<pods, made, node, orphan, stream, expired>>

(***************************************************************************)
(* Kubelet and controllers                                                 *)
(***************************************************************************)
(* The running container ends; the kubelet may report it only later.       *)
ContainerExits(m, code, reported) ==
  /\ pods[m].up /\ node[m] = "ready"
  /\ LET dead == [pods[m] EXCEPT !.up = FALSE, !.exits = Append(@, code)]
     IN /\ pods' = [pods EXCEPT ![m] = dead]
        /\ IF reported THEN Emit(m, "MODIFIED", dead) ELSE UNCHANGED stream
  /\ UNCHANGED <<replicas, tmpl, permit, made, node, orphan, expired>>

ContainerRestarts(m) ==
  /\ Exists(m) /\ ~ pods[m].up /\ ~ pods[m].deleting /\ node[m] = "ready"
  /\ Len(pods[m].exits) < MaxContainers
  /\ LET again == [pods[m] EXCEPT !.up = TRUE]
     IN /\ pods' = [pods EXCEPT ![m] = again]
        /\ Emit(m, "MODIFIED", again)
  /\ UNCHANGED <<replicas, tmpl, permit, made, node, orphan, expired>>

(* Deletion is graceful: the Pod object outlives its containers.           *)
DeletePod(m) ==
  /\ Exists(m) /\ ~ pods[m].deleting
  /\ pods' = [pods EXCEPT ![m].deleting = TRUE]
  /\ UNCHANGED <<replicas, tmpl, permit, made, node, orphan, stream, expired>>

RemovePod(m) ==
  /\ Exists(m) /\ pods[m].deleting /\ ~ pods[m].up /\ node[m] = "ready"
  /\ Emit(m, "DELETED", pods[m])
  /\ pods' = [pods EXCEPT ![m] = NoPod]
  /\ UNCHANGED <<replicas, tmpl, permit, made, node, orphan, expired>>

(* A StatefulSet creates the next Pod only when the name is free; it runs  *)
(* once the member's node is there.                                        *)
CreatePod(m) ==
  /\ replicas[m] = 1 /\ ~ Exists(m) /\ node[m] = "ready"
  /\ LET p == NewPod(made[m] + 1, tmpl)
     IN /\ pods' = [pods EXCEPT ![m] = p]
        /\ Emit(m, "ADDED", p)
  /\ made' = [made EXCEPT ![m] = @ + 1]
  /\ UNCHANGED <<replicas, tmpl, permit, node, orphan, expired>>

(***************************************************************************)
(* A node drops out: nothing on it is reported, its Pods may be removed    *)
(* from the API while their containers go on, and those containers end     *)
(* when the node is back.                                                  *)
(***************************************************************************)
NodeLost(m) ==
  /\ node[m] = "ready"
  /\ node' = [node EXCEPT ![m] = "lost"]
  /\ UNCHANGED <<replicas, tmpl, permit, pods, made, orphan, stream, expired>>

ForceDelete(m) ==
  /\ node[m] = "lost" /\ Exists(m)
  /\ Emit(m, "DELETED", pods[m])
  /\ pods' = [pods EXCEPT ![m] = NoPod]
  /\ orphan' = [orphan EXCEPT ![m] =
                  IF pods[m].up
                  THEN [uid |-> pods[m].uid, ctr |-> Container(pods[m])] ELSE @]
  /\ UNCHANGED <<replicas, tmpl, permit, made, node, expired>>

NodeBack(m) ==
  /\ node[m] = "lost"
  /\ node' = [node EXCEPT ![m] = "ready"]
  /\ orphan' = [orphan EXCEPT ![m] = NoOrphan]
  /\ UNCHANGED <<replicas, tmpl, permit, pods, made, stream, expired>>

(* The API server forgets the history a watch would have to replay.        *)
HistoryExpires(m) ==
  /\ ~ expired[m]
  /\ expired' = [expired EXCEPT ![m] = TRUE]
  /\ UNCHANGED <<replicas, tmpl, permit, pods, made, node, orphan, stream>>
=============================================================================
