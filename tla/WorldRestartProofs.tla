------------------------- MODULE WorldRestartProofs -------------------------
(***************************************************************************)
(* What a whole-world restart guarantees, for every set of members, every  *)
(* number of faults, containers and journal entries.                       *)
(*                                                                         *)
(* The argument has three layers.  PodsInv is about the cluster alone: a   *)
(* uid is never used again, a container outlives its Pod only on a lost    *)
(* node, and what an event of the watch tells of its Pod is not taken      *)
(* back.  RunInv is about one run: whatever an invocation has in hand, in  *)
(* the journal or in the checkpoint as a termination proof is true, and    *)
(* stays true because a container that has ended stays ended and a Pod     *)
(* that is gone stays gone.  ReleaseInv is about the Helm release, which   *)
(* other operators write too: exactly one revision is deployed, the new    *)
(* generation is in it only with every proof, its permit only when no      *)
(* other Pod is left, a call that ends well has left its values deployed,  *)
(* and an upgrade another operator has under way keeps what was settled    *)
(* when it began.                                                          *)
(***************************************************************************)
EXTENDS WorldRestart, TLAPS

(***************************************************************************)
(* The invariant                                                           *)
(***************************************************************************)
\* A sequence, whatever its elements are.
IsSeq(s) == Len(s) \in Nat /\ s = [i \in 1..Len(s) |-> s[i]]

\* Container c.ctr of Pod c.uid of m has ended, wherever the Pod is.
Ended(m, c) ==
    /\ c.uid \in 1..made[m] /\ c.ctr \in Nat
    /\ pods[m].uid = c.uid => Len(pods[m].exits) >= c.ctr
    /\ orphan[m].uid = c.uid => orphan[m].ctr > c.ctr

\* Its Pod is gone as well, and runs nowhere unless it was force-deleted
\* behind the observer's back.
Gone(m, c) ==
    /\ Ended(m, c) /\ pods[m].uid # c.uid
    /\ m \notin gap => orphan[m].uid # c.uid

\* What an event tells of its Pod is not taken back: the containers it shows
\* ended have ended, and a deleted Pod is not coming back.
EventOf(m, e) ==
    /\ e.uid \in 1..made[m] /\ Len(e.exits) \in Nat
    /\ e.type = "DELETED" => e.uid # pods[m].uid
    /\ e.uid = pods[m].uid => Len(e.exits) <= Len(pods[m].exits)
    /\ e.uid = orphan[m].uid => Len(e.exits) < orphan[m].ctr

\* Uids are never used twice, and a container that outlives its Pod is on a
\* lost node.
PodsOf(m) ==
    /\ DOMAIN pods[m] = {"uid", "gen", "exits", "up", "deleting"}
    /\ made[m] \in Nat \ {0}
    /\ pods[m].uid = IF Exists(m) THEN made[m] ELSE 0
    /\ pods[m].up \in BOOLEAN /\ pods[m].deleting \in BOOLEAN
    /\ IsSeq(pods[m].exits)
    /\ orphan[m].uid \in 0..made[m] /\ orphan[m].ctr \in Nat
    /\ orphan[m].uid # 0 => node[m] # "ready" /\ orphan[m].uid # pods[m].uid
    /\ IsSeq(stream[m])
    /\ \A i \in 1..Len(stream[m]) : EventOf(m, stream[m][i])

PodsInv ==
    /\ DOMAIN pods = Members /\ DOMAIN made = Members /\ DOMAIN node = Members
    /\ DOMAIN orphan = Members /\ DOMAIN stream = Members
    /\ \A m \in Members : PodsOf(m)

Observing == {"fault", "faultobs", "faulttake", "faultsem", "stop", "stopping",
              "observe", "take", "judge", "checkpoint"}
Ckpts == {"CREATED", "CAPTURED", "TERMINATED", "GENERATION_PATCHED", "STARTED",
          "PERMIT_READY", "PERMIT_PUBLISHED", "EVIDENCE_READY", "ACCEPTED"}
CkptsOf(p) ==
    CASE p = "capture"                           -> {"CREATED"}
      [] p = "watch"                             -> {"CREATED", "CAPTURED"}
      [] p \in Observing                         -> {"CAPTURED"}
      [] p \in {"patch", "patching"}             -> {"TERMINATED"}
      [] p = "start"                             -> {"GENERATION_PATCHED"}
      [] p = "fresh"                             -> {"STARTED"}
      [] p \in {"recheck", "publish"}            -> {"PERMIT_READY"}
      [] p = "evidence"                          -> {"PERMIT_PUBLISHED"}
      [] p \in {"accept", "persist", "persisting"} -> {"EVIDENCE_READY"}
      [] p = "done"                              -> {"ACCEPTED"}
      [] OTHER                                   -> Ckpts

Accepting == {"EVIDENCE_READY", "ACCEPTED"}
WithPermit == {"PERMIT_READY", "PERMIT_PUBLISHED"} \cup Accepting
Patched == {"GENERATION_PATCHED", "STARTED"} \cup WithPermit

Program == {"off", "capture", "watch", "patch", "patching", "start", "fresh",
            "recheck", "publish", "evidence", "accept", "persist",
            "persisting", "done"} \cup Observing

\* What a verdict of a stage says of a captured process.
Shown(stage, m, c) ==
    Ended(m, c) /\ (stage = "whole_world_termination" => Gone(m, c))

\* What is proved is true, in the journal as in the checkpoint; nothing is
\* proved before CAPTURED, and everything after TERMINATED.
Proved ==
    /\ \A m \in Members : st.proofs[m] # NoProof => Gone(m, st.cap[m])
    /\ \A i \in 1..Len(st.journal) : \A m \in Members :
         st.journal[i].verdict = "PASS" /\ st.journal[i].member = m
         => Shown(st.journal[i].stage, m, st.cap[m])

Durable ==
    /\ DOMAIN st = {"ckpt", "cap", "journal", "raw", "proofs", "events",
                    "permit", "evidence"}
    /\ DOMAIN st.proofs = Members /\ DOMAIN st.cap = Members
    /\ \A m \in Members : st.cap[m].rv \in Nat /\ st.cap[m].ctr \in Nat
    /\ IsSeq(st.journal) /\ st.ckpt \in Ckpts
    /\ st.ckpt = "CREATED" => st.proofs = NoProofs /\ Len(st.journal) = 0
    /\ st.ckpt \in Patched \cup {"TERMINATED"} => HasAllProofs
    /\ Proved

\* Each point of the program is reached under one checkpoint, works on the
\* captured world of the run state, and has a watch open for every member
\* without a proof.
Shape ==
    /\ DOMAIN cap = Members /\ DOMAIN ix = Members
    /\ \A m \in Members : cap[m].rv \in Nat /\ cap[m].ctr \in Nat
    /\ todo \subseteq Members
    /\ pc \in Program
    /\ st.ckpt \in CkptsOf(pc)
    /\ st.ckpt # "CREATED" /\ pc # "off" => cap = st.cap

Watched ==
    /\ pc \in Observing \cup {"watch"} =>
         \A m \in Members :
           \/ st.proofs[m] # NoProof
           \/ pc = "watch" /\ m \in todo
           \/ ix[m] \in Nat
    /\ pc \in {"observe", "take", "judge", "checkpoint"} => todo = Without(st.proofs)

\* Not the DELETED event of a captured Pod that runs on a lost node, unless
\* the Pod was force-deleted while its observer waited for that event.
Passing(m) ==
    /\ orphan[m].uid # 0 /\ orphan[m].uid = st.cap[m].uid /\ m \notin gap
    /\ ix[m] + 1 \in 1..Len(stream[m])
    => ~ (/\ stream[m][ix[m] + 1].type = "DELETED"
          /\ stream[m][ix[m] + 1].uid = st.cap[m].uid)

\* The observation in hand is as true as a proof.
InHand ==
    /\ pc \in {"judge", "checkpoint"} =>
         \A m \in todo : First(m) => Gone(m, st.cap[m])
    /\ pc = "checkpoint" => frozen # NoProof
    /\ pc \in {"off", "capture", "watch", "fault"} => frozen = NoProof
    /\ pc \in {"faultobs", "faulttake", "faultsem"} /\ frozen # NoProof =>
         Ended(Victim, st.cap[Victim])
    /\ pc \in {"observe", "take"} /\ frozen # NoProof =>
         \A m \in todo : First(m) => Ended(m, st.cap[m])
    /\ pc = "take" => \A m \in todo : First(m) => Passing(m)

RunInv == Durable /\ Shape /\ Watched /\ InHand

Live == hist[Deployed].vals
Names == {"generation", "accepted", "replicas", "permit", "other"}
PatchWant == [generation |-> NewGen, replicas |-> 0]
PersistWant == [generation |-> NewGen, accepted |-> NewGen, replicas |-> 1,
                permit |-> st.permit]

\* One revision is deployed; revisions are numbered in order, and only the
\* last one can be pending.
RevisionOK(i) ==
    /\ DOMAIN hist[i] = {"rev", "status", "vals", "by"}
    /\ DOMAIN hist[i].vals = Names /\ hist[i].rev \in Nat
    /\ hist[i].status = "pending-upgrade" => i = Len(hist)

History ==
    /\ IsSeq(hist) /\ Len(hist) > 0
    /\ \A i \in 1..Len(hist) : RevisionOK(i)
    /\ \A i, j \in 1..Len(hist) : i < j => hist[i].rev < hist[j].rev
    /\ \E i \in 1..Len(hist) :
         \A j \in 1..Len(hist) : (hist[j].status = "deployed") <=> (j = i)

\* An upgrade that is reported done is in the deployed values.
Upgrading ==
    /\ DOMAIN call = Callers
    /\ DOMAIN call[Caller] = {"pc", "want", "rev", "vals"}
    /\ call[Caller].pc \in {"run", "lost", "success", "retry", "failed",
                            "pending-upgrade"}
         => DOMAIN call[Caller].vals = Names
    /\ call[Caller].pc = "ok" =>
         \A f \in DOMAIN call[Caller].want : Live[f] = call[Caller].want[f]
    /\ pc = "patching" => call[Caller].want = PatchWant
    /\ pc = "persisting" => call[Caller].want = PersistWant
    /\ pc \notin {"patching", "persisting"} => call[Caller].pc = "idle"

\* The new generation is in the release, in the templates and in a Pod only
\* with every proof; its permit only when no other Pod is left.
World ==
    /\ \A i \in 1..Len(hist) :
         /\ hist[i].vals.generation = NewGen => HasAllProofs
         /\ hist[i].vals.permit.gen = NewGen => st.ckpt \in WithPermit
    /\ Live.generation = NewGen => tmpl = NewGen
    /\ tmpl = NewGen => HasAllProofs
    /\ \A m \in Members : Exists(m) /\ pods[m].gen = NewGen => HasAllProofs
    /\ st.ckpt \in Patched => Live.generation = NewGen
    /\ st.ckpt \in WithPermit =>
         \A m \in Members : Exists(m) => pods[m].gen = NewGen
    /\ permit.gen = NewGen => st.ckpt \in WithPermit

\* The permit, the evidence and the Gateway's world are one.
Acceptance ==
    /\ st.ckpt \notin WithPermit => st.permit = NoPermit
    /\ st.ckpt \in Accepting => st.evidence = st.permit.uids
    /\ gateway # << >> => st.ckpt \in Accepting /\ gateway = st.evidence
    /\ pc \in {"persist", "persisting"} => gateway = st.evidence
    /\ AcceptedWorld

\* The values of the release after the upgrade that another operator has
\* under way, which keep what was settled when it began.
Coming == IF Latest.status = "pending-upgrade" /\ Latest.by = "foreign"
          THEN Latest.vals ELSE Live

Awaited ==
    /\ Live.generation = NewGen => Coming.generation = NewGen
    /\ call[Caller].pc = "ok" =>
         \A f \in DOMAIN call[Caller].want : Coming[f] = call[Caller].want[f]
    /\ st.ckpt = "ACCEPTED" =>
         \A f \in Names \ {"other"} : Coming[f] = Live[f]

\* The revision that a call has found unfinished has the values it asked for.
Asked ==
    /\ call[Caller].rev \in Nat
    /\ call[Caller].pc \in {"pending-upgrade", "failed"} =>
         \E i \in 1..Len(hist) : /\ hist[i].rev = call[Caller].rev + 1
                                 /\ hist[i].vals = Expected(Caller)

ReleaseInv == History /\ Upgrading /\ World /\ Acceptance /\ Awaited /\ Asked

RestartInv == PodsInv /\ RunInv /\ ReleaseInv

(***************************************************************************)
(* Sequences                                                               *)
(***************************************************************************)
\* A sequence takes any new element at its end.
LEMMA AppendIsSeq ==
    ASSUME NEW s, NEW e, IsSeq(s)
    PROVE  /\ IsSeq(Append(s, e)) /\ Len(Append(s, e)) = Len(s) + 1
           /\ \A i \in 1..Len(s) : Append(s, e)[i] = s[i]
           /\ Append(s, e)[Len(s) + 1] = e
<1> DEFINE S == {s[i] : i \in 1..Len(s)} \cup {e}
<1>1. s \in Seq(S)
  <2>1. s \in [1..Len(s) -> S]
    BY Zenon DEF IsSeq
  <2> QED
    BY <2>1 DEF IsSeq
<1>2. e \in S
  OBVIOUS
<1> HIDE DEF S
<1>3. Append(s, e) \in Seq(S)
  BY <1>1, <1>2
<1>4. Len(Append(s, e)) = Len(s) + 1
  BY <1>1, <1>2
<1>5. \A i \in 1..Len(s) : Append(s, e)[i] = s[i]
  BY <1>1, <1>2
<1>6. Append(s, e)[Len(s) + 1] = e
  BY <1>1, <1>2
<1>7. \A t \in Seq(S) : IsSeq(t)
  BY DEF IsSeq
<1>8. IsSeq(Append(s, e))
  BY <1>3, <1>7, Zenon
<1> QED
  BY <1>4, <1>5, <1>6, <1>8, Zenon

\* A function on 1..n is a sequence of length n.
LEMMA FunIsSeq ==
    ASSUME NEW n \in Nat, NEW f, f = [i \in 1..n |-> f[i]]
    PROVE  IsSeq(f) /\ Len(f) = n
<1>1. f \in [1..n -> {f[i] : i \in 1..n}]
  OBVIOUS
<1>2. f \in Seq({f[i] : i \in 1..n})
  BY <1>1
<1>3. DOMAIN f = 1..Len(f) /\ Len(f) \in Nat /\ DOMAIN f = 1..n
  BY <1>1, <1>2
<1>4. Len(f) = n
  BY <1>3
<1> QED
  BY <1>4 DEF IsSeq

LEMMA EmptyIsSeq == IsSeq(<< >>) /\ Len(<< >>) = 0
BY DEF IsSeq

(***************************************************************************)
(* The cluster                                                             *)
(***************************************************************************)
\* What a step may do to the Pods of m: a uid that is gone stays gone, and
\* containers that have ended stay ended.
Shifts(m) ==
    /\ made'[m] \in Nat /\ made'[m] >= made[m]
    /\ pods'[m].uid \in {pods[m].uid, 0, made[m] + 1}
    /\ Len(pods'[m].exits) \in Nat
    /\ pods'[m].uid = pods[m].uid => Len(pods'[m].exits) >= Len(pods[m].exits)
    /\ \/ orphan'[m] = orphan[m]
       \/ orphan'[m].uid = 0
       \/ orphan'[m].uid = pods[m].uid /\ orphan'[m].ctr = Len(pods[m].exits) + 1

\* A Pod that was not there before has the generation of the template.
Grows(m) ==
    Exists(m)' => \/ Exists(m) /\ pods'[m].gen = pods[m].gen
                  \/ pods'[m].gen = tmpl

\* The stream gets at most one event more.
Tells(m) ==
    \/ stream'[m] = stream[m]
    \/ \E e : /\ stream'[m] = Append(stream[m], e)
              /\ e.type = "DELETED" => e.uid = pods[m].uid

Changes(m) == PodsOf(m)' /\ Shifts(m) /\ Grows(m) /\ Tells(m)

\* A Pod that is force-deleted while its observer waits is remembered.
Marks(m) ==
    /\ gap \subseteq gap'
    /\ \/ orphan'[m] = orphan[m]
       \/ orphan'[m].uid = 0
       \/ Waiting(m) => m \in gap'

Moves(m) == Changes(m) /\ Marks(m)

\* A container that has ended stays ended, and a Pod that is gone stays gone.
LEMMA EndedStays ==
    ASSUME NEW m \in Members, NEW c, PodsOf(m), Shifts(m), Ended(m, c)
    PROVE  /\ c.uid \in 1..made'[m] /\ c.ctr \in Nat
           /\ pods'[m].uid = c.uid => Len(pods'[m].exits) >= c.ctr
           /\ orphan'[m].uid = c.uid => orphan'[m].ctr > c.ctr
           /\ pods[m].uid # c.uid => pods'[m].uid # c.uid
           /\ pods[m].uid # c.uid /\ orphan[m].uid # c.uid => orphan'[m].uid # c.uid
<1>1. made[m] \in Nat /\ c.uid \in Nat \ {0} /\ c.uid <= made[m] /\ c.ctr \in Nat
      /\ Len(pods[m].exits) \in Nat
  BY DEF PodsOf, Ended, IsSeq
<1>2. (pods[m].uid = c.uid => Len(pods[m].exits) >= c.ctr)
      /\ (orphan[m].uid = c.uid => orphan[m].ctr > c.ctr)
  BY Zenon DEF Ended
<1>3. pods'[m].uid = c.uid => pods[m].uid = c.uid /\ Len(pods'[m].exits) >= c.ctr
  BY <1>1, <1>2 DEF Shifts
<1>4. orphan'[m].uid = c.uid => orphan'[m].ctr > c.ctr
  BY <1>1, <1>2 DEF Shifts
<1>5. pods[m].uid # c.uid /\ orphan[m].uid # c.uid => orphan'[m].uid # c.uid
  BY <1>1 DEF Shifts
<1>6. c.uid \in 1..made'[m]
  BY <1>1 DEF Shifts
<1> QED
  BY <1>1, <1>3, <1>4, <1>5, <1>6, Zenon

\* An event that told the truth still does.
LEMMA EventStays ==
    ASSUME NEW m \in Members, NEW e, PodsOf(m), Shifts(m), EventOf(m, e)
    PROVE  /\ e.uid \in 1..made'[m] /\ Len(e.exits) \in Nat
           /\ e.type = "DELETED" => e.uid # pods'[m].uid
           /\ e.uid = pods'[m].uid => Len(e.exits) <= Len(pods'[m].exits)
           /\ e.uid = orphan'[m].uid => Len(e.exits) < orphan'[m].ctr
<1>1. made[m] \in Nat /\ e.uid \in Nat \ {0} /\ e.uid <= made[m]
      /\ Len(e.exits) \in Nat /\ Len(pods[m].exits) \in Nat
  BY DEF PodsOf, EventOf, IsSeq
<1>2. /\ e.type = "DELETED" => e.uid # pods[m].uid
      /\ e.uid = pods[m].uid => Len(e.exits) <= Len(pods[m].exits)
      /\ e.uid = orphan[m].uid => Len(e.exits) < orphan[m].ctr
  BY Zenon DEF EventOf
<1>3. e.uid = pods'[m].uid => e.uid = pods[m].uid /\ Len(e.exits) <= Len(pods'[m].exits)
  BY <1>1, <1>2 DEF Shifts
<1>4. e.uid = orphan'[m].uid => Len(e.exits) < orphan'[m].ctr
  BY <1>1, <1>2 DEF Shifts
<1>5. e.uid \in 1..made'[m]
  BY <1>1 DEF Shifts
<1> QED
  BY <1>1, <1>2, <1>3, <1>4, <1>5, Zenon

\* The events of a stream, apart from the objects they tell of.
StreamOf(m) ==
    /\ IsSeq(stream[m])
    /\ \A i \in 1..Len(stream[m]) : EventOf(m, stream[m][i])

ObjectsOf(m) ==
    /\ DOMAIN pods[m] = {"uid", "gen", "exits", "up", "deleting"}
    /\ made[m] \in Nat \ {0}
    /\ pods[m].uid = IF Exists(m) THEN made[m] ELSE 0
    /\ pods[m].up \in BOOLEAN /\ pods[m].deleting \in BOOLEAN
    /\ IsSeq(pods[m].exits)
    /\ orphan[m].uid \in 0..made[m] /\ orphan[m].ctr \in Nat
    /\ orphan[m].uid # 0 => node[m] # "ready" /\ orphan[m].uid # pods[m].uid

LEMMA PodsSplit ==
    /\ \A m : PodsOf(m) <=> ObjectsOf(m) /\ StreamOf(m)
    /\ \A m : PodsOf(m)' <=> ObjectsOf(m)' /\ StreamOf(m)'
BY Zenon DEF PodsOf, ObjectsOf, StreamOf

\* The stream stands while its Pods shift.
LEMMA StreamStands ==
    ASSUME NEW m \in Members, PodsOf(m), Shifts(m), stream'[m] = stream[m]
    PROVE  StreamOf(m)'
<1>1. \A i \in 1..Len(stream[m]) : EventOf(m, stream[m][i])
  BY Zenon DEF PodsOf
<1>2. \A i \in 1..Len(stream[m]) : EventOf(m, stream[m][i])'
  BY <1>1, EventStays, Zenon DEF EventOf
<1> QED
  BY <1>2, Zenon DEF PodsOf, StreamOf

\* An event may be appended that tells the truth.
LEMMA EmitMoves ==
    ASSUME NEW m \in Members, PodsOf(m), Shifts(m), NEW e,
           stream'[m] = Append(stream[m], e),
           e.uid \in 1..made'[m], Len(e.exits) \in Nat,
           e.type = "DELETED" => e.uid # pods'[m].uid,
           e.uid = pods'[m].uid => Len(e.exits) <= Len(pods'[m].exits),
           e.uid = orphan'[m].uid => Len(e.exits) < orphan'[m].ctr
    PROVE  StreamOf(m)'
<1>1. IsSeq(stream[m]) /\ \A i \in 1..Len(stream[m]) : EventOf(m, stream[m][i])
  BY Zenon DEF PodsOf
<1>2. /\ IsSeq(stream'[m]) /\ Len(stream'[m]) = Len(stream[m]) + 1
      /\ \A i \in 1..Len(stream[m]) : stream'[m][i] = stream[m][i]
      /\ stream'[m][Len(stream[m]) + 1] = e
  BY <1>1, AppendIsSeq
<1>3. ASSUME NEW i \in 1..Len(stream'[m]) PROVE EventOf(m, stream[m][i])'
  <2>1. CASE i \in 1..Len(stream[m])
    <3>1. stream'[m][i] = stream[m][i] /\ EventOf(m, stream[m][i])
      BY <1>1, <1>2, <2>1, Zenon
    <3> QED
      BY <3>1, EventStays, Zenon DEF EventOf
  <2>2. CASE i = Len(stream[m]) + 1
    BY <1>2, <2>2, Zenon DEF EventOf
  <2> QED
    BY <1>1, <1>2, <2>1, <2>2 DEF IsSeq
<1> QED
  BY <1>2, <1>3, Zenon DEF StreamOf

\* What is unchanged moves nowhere.
LEMMA StillMoves ==
    ASSUME NEW m \in Members, PodsOf(m),
           pods'[m] = pods[m], made'[m] = made[m], node'[m] = node[m],
           orphan'[m] = orphan[m], stream'[m] = stream[m]
    PROVE  Changes(m)
<1>1. PodsOf(m)'
  BY Zenon DEF PodsOf, EventOf, Exists, NoPod
<1>2. made[m] \in Nat /\ Len(pods[m].exits) \in Nat
  BY Zenon DEF PodsOf, IsSeq
<1>3. Shifts(m)
  BY <1>2 DEF Shifts
<1> QED
  BY <1>1, <1>3, Zenon DEF Changes, Grows, Tells, Exists, NoPod

\* A container of the Pod starts or ends.
LEMMA ChangeMoves ==
    ASSUME PodsInv, NEW m \in Members, NEW p, Exists(m),
           p.uid = pods[m].uid, p.gen = pods[m].gen,
           DOMAIN p = {"uid", "gen", "exits", "up", "deleting"},
           p.up \in BOOLEAN, p.deleting \in BOOLEAN,
           IsSeq(p.exits), Len(p.exits) >= Len(pods[m].exits),
           pods' = [pods EXCEPT ![m] = p],
           Emit(m, "MODIFIED", p) \/ UNCHANGED stream,
           UNCHANGED <<made, node, orphan>>
    PROVE  Changes(m)
<1>1. PodsOf(m) /\ DOMAIN stream = Members
  BY Zenon DEF PodsInv
<1>2. pods'[m] = p /\ pods[m].uid = made[m] /\ made[m] \in Nat \ {0}
  BY <1>1, Zenon DEF PodsInv, PodsOf
<1>3. Exists(m)'
  BY <1>2 DEF Exists, NoPod
<1>4. ObjectsOf(m)'
  <2>1. IsSeq(pods'[m].exits) /\ DOMAIN pods'[m] = {"uid", "gen", "exits", "up", "deleting"}
        /\ pods'[m].up \in BOOLEAN /\ pods'[m].deleting \in BOOLEAN /\ pods'[m].uid = pods[m].uid
    BY <1>2, Zenon
  <2> QED
    BY <1>1, <1>2, <1>3, <2>1, PodsSplit, Zenon DEF ObjectsOf
<1>5. Len(p.exits) \in Nat
  BY Zenon DEF IsSeq
<1>6. Shifts(m)
  BY <1>2, <1>5 DEF Shifts
<1>7. StreamOf(m)' /\ Tells(m)
  <2>1. CASE UNCHANGED stream
    BY <2>1, <1>1, <1>6, StreamStands, Zenon DEF Tells
  <2>2. CASE Emit(m, "MODIFIED", p)
    <3> DEFINE e == Event("MODIFIED", p)
    <3>1. stream'[m] = Append(stream[m], e)
      BY <2>2, <1>1, Zenon DEF Emit
    <3>2. e.type # "DELETED" /\ e.uid = p.uid /\ e.exits = p.exits
      BY Zenon DEF Event
    <3> HIDE DEF e
    <3>3. e.uid \in 1..made'[m] /\ Len(e.exits) <= Len(pods'[m].exits)
      BY <1>2, <1>5, <3>2
    <3>4. e.uid # orphan'[m].uid
      BY <1>1, <1>2, <3>2 DEF PodsOf
    <3>5. StreamOf(m)'
      BY <3>1, <3>2, <3>3, <3>4, <1>1, <1>5, <1>6, EmitMoves, Zenon
    <3> QED
      BY <3>1, <3>2, <3>5, Zenon DEF Tells
  <2> QED
    BY <2>1, <2>2, Zenon
<1>8. Grows(m)
  BY <1>2, Zenon DEF Grows
<1> QED
  BY <1>4, <1>6, <1>7, <1>8, PodsSplit, Zenon DEF Changes

LEMMA ExitMoves ==
    ASSUME PodsInv, NEW m \in Members, NEW code, NEW rep, ContainerExits(m, code, rep)
    PROVE  Changes(m)
<1> DEFINE dead == [pods[m] EXCEPT !.up = FALSE, !.exits = Append(@, code)]
<1>1. PodsOf(m)
  BY Zenon DEF PodsInv
<1>2. Exists(m)
  BY DEF ContainerExits, Exists, NoPod
<1>3. /\ dead.uid = pods[m].uid /\ dead.gen = pods[m].gen
      /\ dead.up = FALSE /\ dead.deleting = pods[m].deleting
      /\ dead.exits = Append(pods[m].exits, code)
      /\ DOMAIN dead = {"uid", "gen", "exits", "up", "deleting"}
  BY <1>1, Zenon DEF PodsOf
<1>4. /\ pods' = [pods EXCEPT ![m] = dead] /\ UNCHANGED <<made, node, orphan>>
      /\ Emit(m, "MODIFIED", dead) \/ UNCHANGED stream
  BY Zenon DEF ContainerExits
<1>5. dead.deleting \in BOOLEAN
  BY <1>1, <1>3, Zenon DEF PodsOf
<1> HIDE DEF dead
<1>6. IsSeq(pods[m].exits) /\ Len(pods[m].exits) \in Nat
  BY <1>1, Zenon DEF PodsOf, IsSeq
<1>7. IsSeq(dead.exits) /\ Len(dead.exits) = Len(pods[m].exits) + 1
  <2> HIDE DEF IsSeq
  <2> QED
    BY <1>3, <1>6, AppendIsSeq
<1>8. Len(dead.exits) >= Len(pods[m].exits)
  BY <1>6, <1>7
<1> QED
  BY <1>2, <1>3, <1>4, <1>5, <1>7, <1>8, ChangeMoves, Zenon

LEMMA RestartMoves ==
    ASSUME PodsInv, NEW m \in Members, ContainerRestarts(m)
    PROVE  Changes(m)
<1> DEFINE again == [pods[m] EXCEPT !.up = TRUE]
<1>1. PodsOf(m)
  BY Zenon DEF PodsInv
<1>3. /\ again.uid = pods[m].uid /\ again.gen = pods[m].gen
      /\ again.up = TRUE /\ again.deleting = pods[m].deleting
      /\ again.exits = pods[m].exits
      /\ DOMAIN again = {"uid", "gen", "exits", "up", "deleting"}
  BY <1>1, Zenon DEF PodsOf
<1>4. /\ pods' = [pods EXCEPT ![m] = again] /\ UNCHANGED <<made, node, orphan>>
      /\ Emit(m, "MODIFIED", again) /\ Exists(m)
  BY Zenon DEF ContainerRestarts
<1>5. again.deleting \in BOOLEAN
  BY <1>1, <1>3, Zenon DEF PodsOf
<1> HIDE DEF again
<1>6. IsSeq(pods[m].exits) /\ Len(pods[m].exits) >= Len(pods[m].exits)
  BY <1>1 DEF PodsOf, IsSeq
<1> QED
  BY <1>3, <1>4, <1>5, <1>6, ChangeMoves, Zenon

LEMMA DeleteMoves ==
    ASSUME PodsInv, NEW m \in Members, DeletePod(m)
    PROVE  Changes(m)
<1> DEFINE gone == [pods[m] EXCEPT !.deleting = TRUE]
<1>1. PodsOf(m)
  BY Zenon DEF PodsInv
<1>3. /\ gone.uid = pods[m].uid /\ gone.gen = pods[m].gen
      /\ gone.up = pods[m].up /\ gone.deleting = TRUE
      /\ gone.exits = pods[m].exits
      /\ DOMAIN gone = {"uid", "gen", "exits", "up", "deleting"}
  BY <1>1, Zenon DEF PodsOf
<1>4. /\ pods' = [pods EXCEPT ![m] = gone] /\ UNCHANGED <<made, node, orphan>>
      /\ UNCHANGED stream /\ Exists(m)
  BY Zenon DEF DeletePod
<1>5. gone.up \in BOOLEAN
  BY <1>1, <1>3, Zenon DEF PodsOf
<1> HIDE DEF gone
<1>6. IsSeq(pods[m].exits) /\ Len(pods[m].exits) >= Len(pods[m].exits)
  BY <1>1 DEF PodsOf, IsSeq
<1> QED
  BY <1>3, <1>4, <1>5, <1>6, ChangeMoves, Zenon

\* The Pod object goes, and what it leaves behind is on a lost node.
LEMMA RemoveMoves ==
    ASSUME PodsInv, NEW m \in Members, Exists(m),
           Emit(m, "DELETED", pods[m]), pods' = [pods EXCEPT ![m] = NoPod],
           \/ orphan'[m] = orphan[m]
           \/ /\ orphan'[m].uid = pods[m].uid /\ node[m] # "ready"
              /\ orphan'[m].ctr = Len(pods[m].exits) + 1,
           UNCHANGED <<made, node>>
    PROVE  Changes(m)
<1>1. PodsOf(m) /\ DOMAIN stream = Members
  BY Zenon DEF PodsInv
<1>2. /\ pods'[m] = NoPod /\ pods[m].uid = made[m] /\ made[m] \in Nat \ {0}
      /\ orphan[m].uid \in 0..made[m] /\ orphan[m].ctr \in Nat
      /\ (orphan[m].uid # 0 => node[m] # "ready" /\ orphan[m].uid # pods[m].uid)
      /\ Len(pods[m].exits) \in Nat
  BY <1>1, Zenon DEF PodsInv, PodsOf, IsSeq
<1>3. ~ Exists(m)' /\ NoPod' = NoPod /\ NoPod.uid = 0 /\ NoPod.exits = << >>
  BY <1>2, Zenon DEF Exists, NoPod
<1>4. DOMAIN NoPod = {"uid", "gen", "exits", "up", "deleting"}
      /\ NoPod.up \in BOOLEAN /\ NoPod.deleting \in BOOLEAN
  BY Zenon DEF NoPod
<1>5. ObjectsOf(m)'
  <2>1. orphan'[m].uid \in 0..made'[m] /\ orphan'[m].ctr \in Nat
        /\ (orphan'[m].uid # 0 => node'[m] # "ready" /\ orphan'[m].uid # NoPod.uid)
    BY <1>2, <1>3
  <2> QED
    BY <1>2, <1>3, <1>4, <2>1, EmptyIsSeq DEF ObjectsOf
<1>6. Shifts(m)
  BY <1>2, <1>3, EmptyIsSeq DEF Shifts
<1> DEFINE e == Event("DELETED", pods[m])
<1>7. stream'[m] = Append(stream[m], e)
  BY <1>1, Zenon DEF Emit
<1>8. e.uid = pods[m].uid /\ e.exits = pods[m].exits
  BY Zenon DEF Event
<1> HIDE DEF e
<1>9. /\ e.uid \in 1..made'[m] /\ Len(e.exits) \in Nat /\ e.uid # pods'[m].uid
      /\ e.uid = orphan'[m].uid => Len(e.exits) < orphan'[m].ctr
  BY <1>2, <1>3, <1>8
<1>10. StreamOf(m)'
  BY <1>1, <1>6, <1>7, <1>9, EmitMoves
<1> QED
  BY <1>3, <1>5, <1>6, <1>7, <1>8, <1>10, PodsSplit, Zenon DEF Changes, Grows, Tells

LEMMA CreateMoves ==
    ASSUME PodsInv, NEW m \in Members, CreatePod(m)
    PROVE  Changes(m)
<1> DEFINE p == NewPod(made[m] + 1, tmpl)
<1>1. PodsOf(m) /\ DOMAIN stream = Members /\ DOMAIN pods = Members /\ DOMAIN made = Members
  BY Zenon DEF PodsInv
<1>2. /\ p.uid = made[m] + 1 /\ p.gen = tmpl /\ p.up \in BOOLEAN /\ p.deleting \in BOOLEAN
      /\ p.exits = << >> /\ DOMAIN p = {"uid", "gen", "exits", "up", "deleting"}
  BY Zenon DEF NewPod
<1>3. /\ pods' = [pods EXCEPT ![m] = p] /\ Emit(m, "ADDED", p)
      /\ made' = [made EXCEPT ![m] = @ + 1] /\ UNCHANGED <<node, orphan>>
      /\ pods[m] = NoPod
  BY Zenon DEF CreatePod, Exists
<1> HIDE DEF p
<1>4. pods'[m] = p /\ made'[m] = made[m] + 1 /\ made[m] \in Nat \ {0}
      /\ orphan[m].uid \in 0..made[m] /\ orphan[m].ctr \in Nat
      /\ (orphan[m].uid # 0 => node[m] # "ready")
  BY <1>1, <1>3, Zenon DEF PodsOf
<1>5. Exists(m)' /\ pods[m].uid = 0
  BY <1>2, <1>3, <1>4 DEF Exists, NoPod
<1>6. ObjectsOf(m)'
  <2>1. orphan'[m].uid \in 0..made'[m] /\ orphan'[m].ctr \in Nat
        /\ (orphan'[m].uid # 0 => node'[m] # "ready" /\ orphan'[m].uid # p.uid)
    BY <1>2, <1>3, <1>4
  <2>2. made'[m] \in Nat \ {0}
    BY <1>4
  <2> QED
    BY <1>2, <1>4, <1>5, <2>1, <2>2, EmptyIsSeq, Zenon DEF ObjectsOf
<1>7. Shifts(m)
  BY <1>2, <1>3, <1>4, <1>5, EmptyIsSeq DEF Shifts
<1> DEFINE e == Event("ADDED", p)
<1>8. stream'[m] = Append(stream[m], e)
  BY <1>1, <1>3, Zenon DEF Emit
<1>9. e.type # "DELETED" /\ e.uid = p.uid /\ e.exits = << >>
  BY <1>2, Zenon DEF Event
<1> HIDE DEF e
<1>10. /\ e.uid \in 1..made'[m] /\ Len(e.exits) \in Nat /\ e.uid # orphan'[m].uid
       /\ Len(e.exits) <= Len(pods'[m].exits)
  BY <1>2, <1>3, <1>4, <1>9, EmptyIsSeq
<1>11. StreamOf(m)'
  BY <1>1, <1>7, <1>8, <1>9, <1>10, EmitMoves, Zenon
<1> QED
  BY <1>2, <1>4, <1>6, <1>7, <1>8, <1>9, <1>11, PodsSplit, Zenon DEF Changes, Grows, Tells

LEMMA NodeMoves ==
    ASSUME PodsInv, NEW m \in Members, NodeLost(m) \/ NodeBack(m)
    PROVE  Changes(m)
<1>1. PodsOf(m) /\ DOMAIN node = Members /\ DOMAIN orphan = Members
  BY Zenon DEF PodsInv
<1>2. /\ UNCHANGED <<pods, made, stream>>
      /\ \/ node'[m] = "lost" /\ orphan'[m] = orphan[m]
         \/ orphan'[m].uid = 0 /\ orphan'[m].ctr = 0
  BY <1>1 DEF NodeLost, NodeBack, NoOrphan
<1>3. Exists(m)' = Exists(m)
  BY <1>2, Zenon DEF Exists, NoPod
<1>4. ObjectsOf(m)'
  BY <1>1, <1>2, <1>3, PodsSplit DEF ObjectsOf
<1>5. made[m] \in Nat /\ Len(pods[m].exits) \in Nat
  BY <1>1, Zenon DEF PodsOf, IsSeq
<1>6. Shifts(m)
  BY <1>2, <1>5 DEF Shifts
<1>7. StreamOf(m)'
  BY <1>1, <1>2, <1>6, StreamStands, Zenon
<1> QED
  BY <1>2, <1>3, <1>4, <1>6, <1>7, PodsSplit, Zenon DEF Changes, Grows, Tells

\* Steps on the objects of one member.
PodStep(m) ==
    \/ /\ \/ \E code, rep : ContainerExits(m, code, rep)
          \/ ContainerRestarts(m) \/ DeletePod(m) \/ RemovePod(m) \/ CreatePod(m)
          \/ NodeLost(m) \/ NodeBack(m)
       /\ UNCHANGED gap
    \/ ForceDelete(m) /\ gap' = IF Waiting(m) THEN gap \cup {m} ELSE gap

podVars == <<pods, made, node, orphan, stream, gap>>

LEMMA PodStepMoves ==
    ASSUME PodsInv, NEW m \in Members, PodStep(m)
    PROVE  Changes(m)
<1>1. PodsOf(m) /\ DOMAIN orphan = Members
  BY Zenon DEF PodsInv
<1>2. CASE \E code, rep : ContainerExits(m, code, rep)
  BY <1>2, ExitMoves
<1>3. CASE RemovePod(m)
  BY <1>3, RemoveMoves, Zenon DEF RemovePod
<1>4. CASE ForceDelete(m)
  <2>1. \/ orphan'[m] = orphan[m]
        \/ pods[m].up /\ orphan'[m] = [uid |-> pods[m].uid, ctr |-> Container(pods[m])]
    BY <1>1, <1>4, Zenon DEF ForceDelete
  <2>2. node[m] # "ready" /\ Exists(m) /\ Emit(m, "DELETED", pods[m])
        /\ pods' = [pods EXCEPT ![m] = NoPod] /\ UNCHANGED <<made, node>>
    BY <1>4, Zenon DEF ForceDelete
  <2>3. \/ orphan'[m] = orphan[m]
        \/ /\ orphan'[m].uid = pods[m].uid /\ node[m] # "ready"
           /\ orphan'[m].ctr = Len(pods[m].exits) + 1
    <3>1. pods[m].up => Container(pods[m]) = Len(pods[m].exits) + 1
      BY Zenon DEF Container
    <3> HIDE DEF Container
    <3>2. CASE pods[m].up /\ orphan'[m] = [uid |-> pods[m].uid, ctr |-> Container(pods[m])]
      <4>0. orphan'[m] = [uid |-> pods[m].uid, ctr |-> Container(pods[m])]
        BY <3>2, Zenon
      <4>1. orphan'[m].uid = pods[m].uid /\ orphan'[m].ctr = Container(pods[m])
        BY <4>0
      <4> QED
        BY <2>2, <3>1, <3>2, <4>1, Zenon
    <3> QED
      BY <2>1, <3>2, Zenon
  <2> QED
    BY <2>2, <2>3, RemoveMoves, Zenon
<1> QED
  BY <1>2, <1>3, <1>4, RestartMoves, DeleteMoves, CreateMoves, NodeMoves, Zenon DEF PodStep

\* The step of one member leaves the others alone.
LEMMA PodStepFrame ==
    ASSUME PodsInv, NEW m \in Members, PodStep(m)
    PROVE  /\ \A k \in Members \ {m} :
                /\ pods'[k] = pods[k] /\ made'[k] = made[k] /\ node'[k] = node[k]
                /\ orphan'[k] = orphan[k] /\ stream'[k] = stream[k]
           /\ DOMAIN pods' = Members /\ DOMAIN made' = Members /\ DOMAIN node' = Members
           /\ DOMAIN orphan' = Members /\ DOMAIN stream' = Members
<1> USE DEF PodsInv, Emit
<1>1. CASE \E code, rep : ContainerExits(m, code, rep)
  BY <1>1, Zenon DEF ContainerExits
<1>2. CASE ContainerRestarts(m)
  BY <1>2, Zenon DEF ContainerRestarts
<1>3. CASE DeletePod(m)
  BY <1>3, Zenon DEF DeletePod
<1>4. CASE RemovePod(m)
  BY <1>4, Zenon DEF RemovePod
<1>5. CASE CreatePod(m)
  BY <1>5, Zenon DEF CreatePod
<1>6. CASE NodeLost(m) \/ NodeBack(m)
  BY <1>6, Zenon DEF NodeLost, NodeBack
<1>7. CASE ForceDelete(m)
  BY <1>7, Zenon DEF ForceDelete
<1> QED
  BY <1>1, <1>2, <1>3, <1>4, <1>5, <1>6, <1>7, Zenon DEF PodStep

LEMMA PodStepMarks ==
    ASSUME PodsInv, NEW m \in Members, PodStep(m), NEW k \in Members
    PROVE  Marks(k)
<1>1. CASE ForceDelete(m) /\ gap' = IF Waiting(m) THEN gap \cup {m} ELSE gap
  <2>1. gap \subseteq gap' /\ (Waiting(m) => m \in gap')
    BY <1>1, Zenon
  <2>2. k # m => orphan'[k] = orphan[k]
    BY PodStepFrame, Zenon
  <2> QED
    BY <2>1, <2>2, Zenon DEF Marks
<1>2. CASE UNCHANGED gap /\ UNCHANGED orphan
  BY <1>2, Zenon DEF Marks
<1>3. CASE UNCHANGED gap /\ NodeBack(m)
  <2>1. orphan' = [orphan EXCEPT ![m] = NoOrphan] /\ NoOrphan.uid = 0
    BY <1>3, Zenon DEF NodeBack, NoOrphan
  <2>2. k = m \/ orphan'[k] = orphan[k]
    BY PodStepFrame, Zenon
  <2> QED
    BY <1>3, <2>1, <2>2, Zenon DEF Marks, PodsInv
<1> QED
  BY <1>1, <1>2, <1>3, Zenon DEF PodStep, ContainerExits, ContainerRestarts, DeletePod,
     RemovePod, CreatePod, NodeLost

LEMMA PodStepKeeps ==
    ASSUME PodsInv, NEW m \in Members, PodStep(m)
    PROVE  PodsInv' /\ \A k \in Members : Moves(k)
<1>1. Changes(m)
  BY PodStepMoves
<1>2. ASSUME NEW k \in Members \ {m} PROVE Changes(k)
  <2>1. PodsOf(k)
    BY Zenon DEF PodsInv
  <2> QED
    BY <2>1, PodStepFrame, StillMoves, Zenon
<1>3. \A k \in Members : Moves(k)
  BY <1>1, <1>2, PodStepMarks, Zenon DEF Moves
<1>4. \A k \in Members : PodsOf(k)'
  BY <1>3, Zenon DEF Moves, Changes
<1> QED
  BY <1>3, <1>4, PodStepFrame, Zenon DEF PodsInv

LEMMA PodsStill ==
    ASSUME PodsInv, UNCHANGED podVars
    PROVE  PodsInv' /\ \A k \in Members : Moves(k)
<1>1. ASSUME NEW k \in Members PROVE Moves(k)
  <2>1. PodsOf(k)
    BY Zenon DEF PodsInv
  <2>2. Marks(k)
    BY Zenon DEF Marks, podVars
  <2> QED
    BY <2>1, <2>2, StillMoves, Zenon DEF podVars, Moves
<1>2. \A k \in Members : PodsOf(k)'
  BY <1>1, Zenon DEF Moves, Changes
<1> QED
  BY <1>1, <1>2, Zenon DEF PodsInv, podVars

\* Every step is a step on the Pods of one member or leaves them all alone.
LEMMA NextPods ==
    ASSUME [Next]_vars
    PROVE  UNCHANGED podVars \/ \E m \in Members : PodStep(m)
<1> USE DEF podVars, PodStep, NoFault, Fault
<1>1. CASE UNCHANGED vars
  BY <1>1, Zenon DEF vars, clusterVars
<1>2. CASE InjectFault
  BY <1>2, RestartAssumption, Zenon DEF InjectFault, clusterVars
<1>3. CASE InjectLost
  BY <1>3, RestartAssumption, Zenon DEF InjectLost
<1>4. ASSUME NEW m \in Members, Kubernetes(m)
      PROVE  UNCHANGED podVars \/ \E k \in Members : PodStep(k)
  BY <1>4, Zenon DEF Kubernetes
<1>5. ASSUME NEW m \in Members, Misfortune(m)
      PROVE  UNCHANGED podVars \/ \E k \in Members : PodStep(k)
  BY <1>5, Zenon DEF Misfortune, HistoryExpires
<1>6. CASE Invoke \/ CaptureMember \/ StartWatch \/ WriteCaptured
  BY <1>6, Zenon DEF Invoke, CaptureMember, StartWatch, WriteCaptured, clusterVars
<1>7. CASE SkipFault \/ AwaitWatchdog \/ CheckNode \/ ObserveFault \/ JudgeFault \/ BeginStop
  BY <1>7, Zenon DEF SkipFault, AwaitWatchdog, CheckNode, ObserveFault, JudgeFault, BeginStop, clusterVars
<1>8. CASE StopMember \/ StopLost \/ StartMember
  BY <1>8, Zenon DEF StopMember, StopLost, StartMember, ScaleDown, ScaleUp
<1>9. CASE ObserveMember \/ JudgeMember \/ CheckpointProof \/ Terminated
  BY <1>9, Zenon DEF ObserveMember, JudgeMember, CheckpointProof, Terminated, clusterVars
<1>10. CASE PatchGeneration \/ GenerationPatched \/ Started \/ FreshPods \/ RecheckPods
  BY <1>10, Zenon DEF PatchGeneration, GenerationPatched, Started, FreshPods, RecheckPods,
               clusterVars
<1>11. CASE PublishPermit \/ PublishFails
  BY <1>11, Zenon DEF PublishPermit, PublishFails, SetPermit, clusterVars
<1>12. CASE AcceptanceEvidence \/ AcceptTopology \/ AcceptLost \/ PersistWorld
            \/ Accepted \/ Return
  BY <1>12, Zenon DEF AcceptanceEvidence, AcceptTopology, AcceptLost, PersistWorld,
               Accepted, Return, clusterVars
<1>13. CASE HelmQuiet \/ HelmRaises \/ TimeOut \/ Crash
  BY <1>13, Zenon DEF HelmQuiet, HelmRaises, TimeOut, Crash, clusterVars
<1>14. CASE HelmCommand \/ HelmFails \/ OtherBegins \/ OtherEnds
  BY <1>14, Zenon DEF HelmCommand, HelmFails, OtherBegins, OtherEnds, Applies, ApplyManifest, clusterVars
<1> QED
  BY <1>1, <1>2, <1>3, <1>4, <1>5, <1>6, <1>7, <1>8, <1>9, <1>10, <1>11, <1>12,
     <1>13, <1>14 DEF Next, Controller

LEMMA NextMoves ==
    ASSUME PodsInv, [Next]_vars
    PROVE  PodsInv' /\ \A m \in Members : Moves(m)
BY NextPods, PodStepKeeps, PodsStill, Zenon

LEMMA InitPods == Init => PodsInv
<1> SUFFICES ASSUME Init PROVE PodsInv
  OBVIOUS
<1>1. ASSUME NEW m \in Members PROVE PodsOf(m)
  <2>1. /\ pods[m] = NewPod(1, OldGen) /\ made[m] = 1
        /\ orphan[m].uid = 0 /\ orphan[m].ctr = 0 /\ stream[m] = << >>
    BY Zenon DEF Init, ClusterInit, NoOrphan
  <2>2. /\ NewPod(1, OldGen).exits = << >> /\ NewPod(1, OldGen).uid = 1 /\ NewPod(1, OldGen).up \in BOOLEAN
        /\ NewPod(1, OldGen).deleting \in BOOLEAN
        /\ DOMAIN NewPod(1, OldGen) = {"uid", "gen", "exits", "up", "deleting"}
    BY Zenon DEF NewPod
  <2>3. Exists(m)
    BY <2>1, <2>2 DEF Exists, NoPod
  <2>4. IsSeq(stream[m]) /\ Len(stream[m]) = 0
    BY <2>1, EmptyIsSeq, Zenon
  <2> QED
    BY <2>1, <2>2, <2>3, <2>4, EmptyIsSeq DEF PodsOf
<1> QED
  BY <1>1, Zenon DEF Init, ClusterInit, PodsInv

(***************************************************************************)
(* The run state and the invocation                                        *)
(***************************************************************************)
AllMove == \A m \in Members : Moves(m)

\* The captured world, the proofs and the journal stand.
Kept == /\ DOMAIN st' = DOMAIN st
        /\ st'.cap = st.cap /\ st'.proofs = st.proofs /\ st'.journal = st.journal

\* What is true of a captured process stays true.
LEMMA CapStays ==
    ASSUME PodsInv, AllMove, NEW m \in Members, st'.cap = st.cap
    PROVE  /\ Ended(m, st.cap[m]) => Ended(m, st.cap[m])'
           /\ Gone(m, st.cap[m]) => Gone(m, st.cap[m])'
<1>1. PodsOf(m) /\ Moves(m)
  BY Zenon DEF PodsInv, AllMove
<1> DEFINE c == st.cap[m]
<1>2. /\ Ended(m, c) => Ended(m, c)'
      /\ Gone(m, c) => Gone(m, c)'
  <2>1. c' = c
    OBVIOUS
  <2>2. Shifts(m) /\ Marks(m)
    BY <1>1, Zenon DEF Moves, Changes
  <2>3. m \notin gap' => m \notin gap
    BY <2>2, Zenon DEF Marks
  <2> HIDE DEF c
  <2>4. Ended(m, c) =>
          /\ c.uid \in 1..made'[m] /\ c.ctr \in Nat
          /\ pods'[m].uid = c.uid => Len(pods'[m].exits) >= c.ctr
          /\ orphan'[m].uid = c.uid => orphan'[m].ctr > c.ctr
          /\ pods[m].uid # c.uid => pods'[m].uid # c.uid
          /\ pods[m].uid # c.uid /\ orphan[m].uid # c.uid => orphan'[m].uid # c.uid
    BY <1>1, <2>2, EndedStays, Zenon
  <2>5. Ended(m, c) => Ended(m, c)'
    BY <2>1, <2>4, Zenon DEF Ended
  <2> QED
    BY <2>1, <2>3, <2>4, <2>5, Zenon DEF Gone
<1> QED
  BY <1>2

LEMMA KeptDurable ==
    ASSUME PodsInv, AllMove, Durable, Kept,
           \/ st'.ckpt = st.ckpt
           \/ st'.ckpt \in Ckpts \ {"CREATED"} /\ HasAllProofs
    PROVE  Durable'
<1>1. /\ DOMAIN st' = {"ckpt", "cap", "journal", "raw", "proofs", "events",
                       "permit", "evidence"}
      /\ DOMAIN st'.proofs = Members /\ DOMAIN st'.cap = Members
      /\ \A m \in Members : st'.cap[m].rv \in Nat /\ st'.cap[m].ctr \in Nat
      /\ IsSeq(st'.journal) /\ st'.ckpt \in Ckpts
  BY Zenon DEF Durable, Kept
<1>2. st'.ckpt = "CREATED" => st'.proofs = NoProofs' /\ Len(st'.journal) = 0
  BY Zenon DEF Durable, Kept, NoProofs, NoProof
<1>3. st'.ckpt \in Patched \cup {"TERMINATED"} => HasAllProofs'
  BY Zenon DEF Durable, Kept, HasAllProofs, NoProof, Patched, WithPermit, Accepting
<1>4. Proved'
  <2>1. ASSUME NEW m \in Members, st'.proofs[m] # NoProof
        PROVE  Gone(m, st.cap[m])'
    <3>1. Gone(m, st.cap[m])
      BY <2>1, Zenon DEF Durable, Proved, Kept
    <3> QED
      BY <3>1, CapStays, Zenon DEF Kept
  <2>2. ASSUME NEW i \in 1..Len(st'.journal), NEW m \in Members,
               st'.journal[i].verdict = "PASS", st'.journal[i].member = m
        PROVE  Shown(st.journal[i].stage, m, st.cap[m])'
    <3>1. Shown(st'.journal[i].stage, m, st.cap[m])
      BY <2>2, Zenon DEF Durable, Proved, Kept
    <3> QED
      BY <3>1, CapStays, Zenon DEF Kept, Shown
  <2> QED
    BY <2>1, <2>2, Zenon DEF Proved, NoProof
<1> QED
  BY <1>1, <1>2, <1>3, <1>4, Zenon DEF Durable

\* One more journal entry.
Appended(e) ==
    /\ DOMAIN st' = DOMAIN st
    /\ st'.cap = st.cap /\ st'.proofs = st.proofs /\ st'.ckpt = st.ckpt
    /\ st'.journal = Append(st.journal, e)

LEMMA JournalDurable ==
    ASSUME PodsInv, AllMove, Durable, NEW e, Appended(e), st.ckpt = "CAPTURED",
           \A m \in Members :
             e.verdict = "PASS" /\ e.member = m => Shown(e.stage, m, st.cap[m])
    PROVE  Durable'
<1>1. /\ IsSeq(st'.journal) /\ Len(st'.journal) = Len(st.journal) + 1
      /\ \A i \in 1..Len(st.journal) : st'.journal[i] = st.journal[i]
      /\ st'.journal[Len(st.journal) + 1] = e
  BY AppendIsSeq DEF Appended, Durable
<1>2. Proved'
  <2>1. ASSUME NEW m \in Members, st'.proofs[m] # NoProof
        PROVE  Gone(m, st.cap[m])'
    <3>1. Gone(m, st.cap[m])
      BY <2>1, Zenon DEF Durable, Proved, Appended
    <3> QED
      BY <3>1, CapStays, Zenon DEF Appended
  <2>2. ASSUME NEW i \in 1..Len(st'.journal), NEW m \in Members,
               st'.journal[i].verdict = "PASS", st'.journal[i].member = m
        PROVE  Shown(st.journal[i].stage, m, st.cap[m])'
    <3>1. i \in 1..Len(st.journal) \/ i = Len(st.journal) + 1
      BY <1>1, <2>2 DEF Durable, IsSeq
    <3>2. Shown(st'.journal[i].stage, m, st.cap[m])
      BY <1>1, <2>2, <3>1 DEF Durable, Proved
    <3> QED
      BY <3>2, CapStays, Zenon DEF Appended, Shown
  <2> QED
    BY <2>1, <2>2, Zenon DEF Proved, NoProof
<1>3. st'.ckpt = "CAPTURED" /\ st'.ckpt \notin Patched \cup {"TERMINATED"}
  BY Zenon DEF Appended, Patched, WithPermit, Accepting
<1> QED
  BY <1>1, <1>2, <1>3, Zenon DEF Durable, Appended

\* What the journal is read for is true as well.
LEMMA MergedTrue ==
    ASSUME Durable, NEW m \in Members, Merged(m) # NoProof
    PROVE  Gone(m, st.cap[m])
<1>1. CASE st.proofs[m] # NoProof
  BY <1>1, Zenon DEF Durable, Proved
<1>2. CASE st.proofs[m] = NoProof
  <2>1. Passed("whole_world_termination", m) # {}
    BY <1>2, Zenon DEF Merged, JournalProof
  <2>2. PICK i \in 1..Len(st.journal) :
               /\ st.journal[i].stage = "whole_world_termination"
               /\ st.journal[i].member = m /\ st.journal[i].verdict = "PASS"
    BY <2>1, Zenon DEF Passed
  <2> QED
    BY <2>2, Zenon DEF Durable, Proved, Shown
<1> QED
  BY <1>1, <1>2, Zenon

LEMMA ResumedDurable ==
    ASSUME PodsInv, AllMove, Durable, st' = Resumed, st.ckpt # "CREATED"
    PROVE  Durable'
<1>1. /\ DOMAIN st' = DOMAIN st
      /\ st'.cap = st.cap /\ st'.journal = st.journal /\ st'.ckpt = st.ckpt
      /\ st'.proofs = [m \in Members |-> Merged(m)]
  BY Zenon DEF Durable, Resumed
<1>2. ASSUME NEW m \in Members, st'.proofs[m] # NoProof
      PROVE  Gone(m, st.cap[m])'
  <2>1. Gone(m, st.cap[m])
    BY <1>1, <1>2, MergedTrue, Zenon
  <2> QED
    BY <1>1, <2>1, CapStays, Zenon
<1>3. ASSUME NEW i \in 1..Len(st'.journal), NEW m \in Members,
             st'.journal[i].verdict = "PASS", st'.journal[i].member = m
      PROVE  Shown(st.journal[i].stage, m, st.cap[m])'
  <2>1. Shown(st'.journal[i].stage, m, st.cap[m])
    BY <1>1, <1>3 DEF Durable, Proved
  <2> QED
    BY <1>1, <2>1, CapStays, Zenon DEF Shown
<1>4. Proved'
  BY <1>2, <1>3, Zenon DEF Proved, NoProof
<1>5. HasAllProofs => HasAllProofs'
  BY <1>1, Zenon DEF HasAllProofs, Merged, NoProof
<1> QED
  BY <1>1, <1>4, <1>5, Zenon DEF Durable

\* The member a loop visits next is one member.
LEMMA FirstUnique ==
    ASSUME todo \subseteq Members, NEW m \in todo, NEW k \in todo, First(m), First(k)
    PROVE  m = k
BY RestartAssumption DEF First

\* An invocation that ends leaves nothing to show.
LEMMA StopControl ==
    ASSUME Stop, Durable'
    PROVE  RunInv'
<1>1. Shape'
  BY Zenon DEF Stop, Shape, NoCap, Closed, Program, CkptsOf, Durable, Observing
<1>2. Watched' /\ InHand'
  BY Zenon DEF Stop, Watched, InHand, Observing, NoProof
<1> QED
  BY <1>1, <1>2 DEF RunInv

LEMMA StopRun ==
    ASSUME PodsInv, AllMove, RunInv, Stop, UNCHANGED st
    PROVE  RunInv'
<1>1. Durable'
  BY KeptDurable DEF RunInv, Kept
<1> QED
  BY <1>1, StopControl

\* What an observer that has checked the node may read next.
LEMMA PassingStays ==
    ASSUME PodsInv, AllMove, NEW m \in todo, m \in Members, First(m), pc = "take",
           ix[m] \in Nat, UNCHANGED <<ix, st>>, Passing(m)
    PROVE  Passing(m)'
<1>1. PodsOf(m) /\ Moves(m)
  BY Zenon DEF PodsInv, AllMove
<1> DEFINE u == st.cap[m].uid
           n == ix[m] + 1
           k == Len(stream[m])
<1>2. SUFFICES ASSUME orphan'[m].uid # 0, orphan'[m].uid = u, m \notin gap',
                      n \in 1..Len(stream'[m]),
                      stream'[m][n].type = "DELETED", stream'[m][n].uid = u
               PROVE  FALSE
  BY Zenon DEF Passing
<1>3. m \notin gap /\ k \in Nat /\ IsSeq(stream[m])
  BY <1>1, <1>2, Zenon DEF Moves, Marks, PodsOf, IsSeq
<1>4. orphan'[m] = orphan[m]
  <2>1. CASE Waiting(m) => m \in gap'
    <3>1. ~ Waiting(m)
      BY <1>2, <2>1
    <3>2. ix[m] # k
      BY <3>1, Zenon DEF Waiting, Observed
    <3>3. n \in 1..k /\ stream'[m][n] = stream[m][n]
      <4>1. CASE stream'[m] = stream[m]
        BY <1>2, <4>1, Zenon
      <4>2. ASSUME NEW e, stream'[m] = Append(stream[m], e)
            PROVE  n \in 1..k /\ stream'[m][n] = stream[m][n]
        <5>1. /\ Len(stream'[m]) = k + 1
              /\ \A i \in 1..k : stream'[m][i] = stream[m][i]
          BY <1>3, <4>2, AppendIsSeq
        <5>2. n \in 1..k
          BY <1>2, <1>3, <3>2, <5>1
        <5> QED
          BY <5>1, <5>2, Zenon
      <4> QED
        BY <1>1, <4>1, <4>2, Zenon DEF Moves, Changes, Tells
    <3>4. EventOf(m, stream[m][n]) /\ stream[m][n].type = "DELETED" /\ stream[m][n].uid = u
      BY <1>1, <1>2, <3>3, Zenon DEF PodsOf
    <3>5. u # pods[m].uid
      BY <3>4, Zenon DEF EventOf
    <3> QED
      BY <1>1, <1>2, <3>5, Zenon DEF Moves, Changes, Shifts
  <2> QED
    BY <1>1, <1>2, <2>1, Zenon DEF Moves, Marks
<1>5. orphan[m].uid # 0 /\ orphan[m].uid = u /\ u # pods[m].uid
  BY <1>1, <1>2, <1>4, Zenon DEF PodsOf
<1>6. CASE stream'[m] = stream[m]
  BY <1>2, <1>3, <1>5, <1>6, Zenon DEF Passing
<1>7. ASSUME NEW e, stream'[m] = Append(stream[m], e),
             e.type = "DELETED" => e.uid = pods[m].uid
      PROVE  FALSE
  <2>1. /\ Len(stream'[m]) = k + 1 /\ stream'[m][k + 1] = e
        /\ \A i \in 1..k : stream'[m][i] = stream[m][i]
    BY <1>3, <1>7, AppendIsSeq
  <2>2. n # k + 1
    BY <1>2, <1>5, <1>7, <2>1, Zenon
  <2>3. n \in 1..k
    BY <1>2, <1>3, <2>1, <2>2
  <2> QED
    BY <1>2, <1>3, <1>5, <2>1, <2>3, Zenon DEF Passing
<1> QED
  BY <1>1, <1>6, <1>7, Zenon DEF Moves, Changes, Tells

LEMMA CtlStill ==
    ASSUME PodsInv, AllMove, RunInv, UNCHANGED <<st, ctlVars>>
    PROVE  RunInv'
<1>1. Durable'
  BY KeptDurable, Zenon DEF RunInv, Kept
<1>2. Shape' /\ Watched'
  BY Zenon DEF RunInv, Shape, Watched, ctlVars, Without, NoProof
<1>3. InHand'
  <2>1. ASSUME NEW m \in Members
        PROVE  /\ Ended(m, st.cap[m]) => Ended(m, st.cap[m])'
               /\ Gone(m, st.cap[m]) => Gone(m, st.cap[m])'
               /\ First(m)' = First(m)
    BY CapStays, Zenon DEF First, ctlVars
  <2>2. ASSUME pc = "take", NEW m \in todo, First(m), Passing(m) PROVE Passing(m)'
    <3>1. m \in Members /\ st.proofs[m] = NoProof
      BY <2>2, Zenon DEF RunInv, Shape, Watched, Without
    <3>2. ix[m] \in Nat
      BY <2>2, <3>1, Zenon DEF RunInv, Watched, Observing
    <3> QED
      BY <2>2, <3>1, <3>2, PassingStays, Zenon DEF ctlVars
  <2>3. todo \subseteq Members /\ Victim \in Members /\ NoProof' = NoProof
    BY RestartAssumption, Zenon DEF RunInv, Shape, NoProof
  <2>4. InHand /\ UNCHANGED <<pc, todo, frozen>>
    BY Zenon DEF RunInv, ctlVars
  <2>5. /\ pc' \in {"judge", "checkpoint"} => \A m \in todo' : First(m)' => Gone(m, st.cap[m])'
        /\ pc' \in {"observe", "take"} /\ frozen' # NoProof =>
             \A m \in todo' : First(m)' => Ended(m, st.cap[m])'
        /\ pc' \in {"faultobs", "faulttake", "faultsem"} /\ frozen' # NoProof =>
             Ended(Victim, st.cap[Victim])'
    BY <2>1, <2>3, <2>4, Zenon DEF InHand
  <2>6. pc' = "take" => \A m \in todo' : First(m)' => Passing(m)'
    BY <2>1, <2>2, <2>3, <2>4, Zenon DEF InHand
  <2> QED
    BY <2>3, <2>4, <2>5, <2>6, Zenon DEF InHand
<1> QED
  BY <1>1, <1>2, <1>3 DEF RunInv

\* The points at which an invocation holds an observation, or nothing yet.
Holding == {"off", "capture", "watch", "faulttake", "faultsem", "take", "judge",
            "checkpoint"}

\* A step that proves nothing and goes on.
LEMMA MoveOn ==
    ASSUME PodsInv, AllMove, RunInv, Kept, st.ckpt # "CREATED", pc # "off",
           UNCHANGED cap, pc' \in Program \ Holding,
           pc' \in {"fault", "faultobs", "observe"} => frozen' = NoProof,
           ix' = ix \/ (ix' = Closed /\ pc' \notin Observing),
           todo' \subseteq Members,
           st'.ckpt \in CkptsOf(pc'),
           st'.ckpt = st.ckpt \/ (st'.ckpt \in Ckpts \ {"CREATED"} /\ HasAllProofs),
           pc' \in Observing => pc \in Observing \/ (pc = "watch" /\ todo = {}),
           pc' = "observe" => todo' = Without(st.proofs)
    PROVE  RunInv'
<1>1. Durable'
  BY KeptDurable, Zenon DEF RunInv
<1>2. Shape'
  BY Zenon DEF RunInv, Shape, Kept, Closed
<1>3. Watched'
  <2>1. pc' = "observe" => todo' = Without(st.proofs)'
    BY Zenon DEF Kept, Without, NoProof
  <2>2. ASSUME pc' \in Observing, NEW m \in Members
        PROVE  st'.proofs[m] # NoProof \/ ix'[m] \in Nat
    BY <2>2, Zenon DEF RunInv, Watched, Kept, Observing
  <2> QED
    BY <2>1, <2>2, Zenon DEF Watched, NoProof, Holding
<1>4. InHand'
  BY Zenon DEF InHand, Holding, NoProof
<1> QED
  BY <1>1, <1>2, <1>3, <1>4, Zenon DEF RunInv

\* Resuming goes where the checkpoint says.
LEMMA InvokeRun ==
    ASSUME PodsInv, AllMove, RunInv, Invoke
    PROVE  RunInv'
<1>1. Durable'
  <2>1. CASE st' = st
    BY <2>1, KeptDurable DEF RunInv, Kept
  <2>2. CASE st' = Resumed /\ st.ckpt # "CREATED"
    BY <2>2, ResumedDurable DEF RunInv
  <2> QED
    BY <2>1, <2>2, Zenon DEF Invoke
<1>2. /\ st'.ckpt = st.ckpt /\ st'.cap = st.cap
      /\ st.ckpt = "CAPTURED" => st' = Resumed
  BY Zenon DEF Invoke, Resumed, RunInv, Durable
<1>3. pc' = Resume /\ cap' = st.cap /\ UNCHANGED <<ix, frozen>> /\ pc = "off"
  BY Zenon DEF Invoke
<1>4. st.ckpt \in Ckpts
  BY Zenon DEF RunInv, Durable
<1>5. /\ pc' \in {"capture", "watch", "patch", "start", "fresh", "recheck",
                  "evidence", "accept", "done"}
      /\ st.ckpt \in CkptsOf(pc')
      /\ pc' = "watch" => st.ckpt = "CAPTURED"
  BY <1>3, <1>4, Zenon DEF Resume, ResumeAt, Ckpts, CkptsOf, Observing
<1>6. todo' \subseteq Members
  BY Zenon DEF Invoke, Without
<1>7. Shape'
  BY <1>2, <1>3, <1>5, <1>6, Zenon DEF Shape, RunInv, Durable, Program
<1>8. Watched'
  <2>1. ASSUME pc' = "watch", NEW m \in Members
        PROVE  st'.proofs[m] # NoProof \/ m \in todo'
    <3>1. st.ckpt = "CAPTURED" /\ st' = Resumed
      BY <1>2, <1>5, <2>1, Zenon
    <3>2. todo' = Without(Resumed.proofs)
      BY <3>1 DEF Invoke
    <3> QED
      BY <3>1, <3>2, Zenon DEF Without
  <2> QED
    BY <1>5, <2>1, Zenon DEF Watched, NoProof, Observing
<1>9. InHand'
  BY <1>3, <1>5, Zenon DEF InHand, RunInv, NoProof
<1> QED
  BY <1>1, <1>7, <1>8, <1>9 DEF RunInv

LEMMA CaptureRun ==
    ASSUME PodsInv, AllMove, RunInv, CaptureMember
    PROVE  RunInv'
<1>1. CASE Stop
  BY <1>1, StopRun, Zenon DEF CaptureMember
<1>2. ASSUME NEW m \in todo, cap' = [cap EXCEPT ![m] = Process(m)],
             todo' = (IF todo = {m} THEN Members ELSE todo \ {m}),
             pc' = (IF todo = {m} THEN "watch" ELSE "capture"),
             UNCHANGED <<ix, frozen>>
      PROVE  RunInv'
  <2>1. UNCHANGED st /\ pc = "capture"
    BY Zenon DEF CaptureMember
  <2>2. Durable'
    BY <2>1, KeptDurable, Zenon DEF RunInv, Kept
  <2>3. m \in Members /\ st.ckpt = "CREATED"
    BY <2>1 DEF RunInv, Shape, CkptsOf, Observing
  <2>4. Process(m).rv \in Nat /\ Process(m).ctr \in Nat
    <3>1. Len(stream[m]) \in Nat /\ Len(pods[m].exits) \in Nat
      BY <2>3, Zenon DEF PodsInv, PodsOf, IsSeq
    <3>2. Container(pods[m]) \in Nat
      <4>1. \/ Container(pods[m]) = Len(pods[m].exits) + 1
            \/ Container(pods[m]) = Len(pods[m].exits) + 0
        BY Zenon DEF Container
      <4> HIDE DEF Container
      <4> QED
        BY <3>1, <4>1
    <3> HIDE DEF Container
    <3> QED
      BY <3>1, <3>2, Zenon DEF Process
  <2>5. Shape'
    <3>1. DOMAIN cap' = Members /\ \A k \in Members : cap'[k].rv \in Nat /\ cap'[k].ctr \in Nat
      BY <1>2, <2>3, <2>4, Zenon DEF RunInv, Shape
    <3>2. pc' \in {"watch", "capture"} /\ todo' \subseteq Members
      BY <1>2, Zenon DEF RunInv, Shape
    <3>3. st'.ckpt \in CkptsOf(pc')
      BY <2>1, <2>3, <3>2, Zenon DEF CkptsOf, Observing
    <3> QED
      BY <1>2, <2>1, <2>3, <3>1, <3>2, <3>3, Zenon DEF RunInv, Shape, Program
  <2>6. Watched' /\ InHand'
    BY <1>2, <2>1, Zenon DEF Watched, InHand, Observing, RunInv, NoProof
  <2> QED
    BY <2>2, <2>5, <2>6 DEF RunInv
<1> QED
  BY <1>1, <1>2, Zenon DEF CaptureMember

LEMMA WatchRun ==
    ASSUME PodsInv, AllMove, RunInv, StartWatch
    PROVE  RunInv'
<1>1. CASE Stop
  BY <1>1, StopRun, Zenon DEF StartWatch
<1>2. ASSUME NEW m \in todo, ix' = [ix EXCEPT ![m] = WatchCursor(m)],
             todo' = todo \ {m}, UNCHANGED <<pc, cap, frozen>>
      PROVE  RunInv'
  <2>1. UNCHANGED st /\ pc = "watch"
    BY Zenon DEF StartWatch
  <2>2. Durable'
    BY <2>1, KeptDurable, Zenon DEF RunInv, Kept
  <2>3. m \in Members /\ WatchCursor(m) \in Nat
    BY Zenon DEF RunInv, Shape, WatchCursor
  <2>4. Shape'
    BY <1>2, <2>1, Zenon DEF RunInv, Shape
  <2>5. Watched'
    BY <1>2, <2>1, <2>3, Zenon DEF RunInv, Shape, Watched, NoProof
  <2>6. InHand'
    BY <1>2, <2>1, Zenon DEF InHand, RunInv, NoProof
  <2> QED
    BY <2>2, <2>4, <2>5, <2>6 DEF RunInv
<1> QED
  BY <1>1, <1>2, Zenon DEF StartWatch

LEMMA CapturedRun ==
    ASSUME PodsInv, AllMove, RunInv, WriteCaptured
    PROVE  RunInv'
<1>1. /\ pc = "watch" /\ todo = {} /\ pc' = "fault"
      /\ UNCHANGED <<todo, cap, ix, frozen>>
  BY DEF WriteCaptured, Step
<1>2. st.ckpt \in {"CREATED", "CAPTURED"}
  BY <1>1, Zenon DEF RunInv, Shape, CkptsOf
<1>0. frozen' = NoProof
  BY <1>1, Zenon DEF RunInv, InHand
<1>3. CASE st.ckpt = "CAPTURED"
  <2>1. UNCHANGED st
    BY <1>3 DEF WriteCaptured
  <2>2. "CAPTURED" \in CkptsOf("fault") /\ "fault" \in Program \cap Observing
        /\ "fault" \notin Holding
    BY DEF CkptsOf, Program, Observing, Holding
  <2> QED
    BY <1>1, <1>3, <1>0, <2>1, <2>2, MoveOn, Zenon DEF Kept
<1>4. CASE st.ckpt = "CREATED"
  <2>1. st' = [st EXCEPT !.ckpt = "CAPTURED", !.cap = cap, !.proofs = NoProofs]
    BY <1>4 DEF WriteCaptured
  <2>2. /\ DOMAIN st' = DOMAIN st /\ st'.ckpt = "CAPTURED" /\ st'.cap = cap
        /\ st'.proofs = NoProofs /\ st'.journal = st.journal
    BY <2>1, Zenon DEF RunInv, Durable
  <2>3. Len(st.journal) = 0 /\ IsSeq(st.journal)
    BY <1>4, Zenon DEF RunInv, Durable
  <2>4. Proved'
    <3>1. \A m \in Members : st'.proofs[m] = NoProof
      BY <2>2 DEF NoProofs
    <3>2. 1..Len(st'.journal) = {}
      BY <2>2, <2>3
    <3> QED
      BY <3>1, <3>2, Zenon DEF Proved, NoProof
  <2>5. Durable'
    <3>1. DOMAIN NoProofs = Members
      BY DEF NoProofs
    <3>2. st'.ckpt \in Ckpts /\ st'.ckpt \notin Patched \cup {"TERMINATED", "CREATED"}
      BY <2>2 DEF Ckpts, Patched, WithPermit, Accepting
    <3> QED
      BY <2>2, <2>3, <2>4, <3>1, <3>2, Zenon DEF Durable, RunInv, Shape
  <2>6. Shape'
    BY <1>1, <2>2, Zenon DEF RunInv, Shape, Program, Observing, CkptsOf
  <2>7. Watched'
    <3>1. \A m \in Members : st.proofs[m] = NoProof
      BY <1>4, Zenon DEF RunInv, Durable, NoProofs
    <3>2. \A m \in Members : ix'[m] \in Nat
      BY <1>1, <3>1, Zenon DEF RunInv, Watched
    <3> QED
      BY <1>1, <3>2, Zenon DEF Watched
  <2>8. InHand'
    BY <1>0, <1>1 DEF InHand, NoProof
  <2> QED
    BY <2>5, <2>6, <2>7, <2>8 DEF RunInv
<1> QED
  BY <1>2, <1>3, <1>4

\* The observer turns between the node and the queue.
LEMMA TurnRun ==
    ASSUME PodsInv, AllMove, RunInv, UNCHANGED <<st, todo, cap, ix, frozen>>,
           \/ pc \in {"faultobs", "faulttake"} /\ pc' \in {"faultobs", "faulttake"}
           \/ pc \in {"observe", "take"} /\ pc' \in {"observe", "take"},
           pc' = "take" => \A m \in todo : First(m) => Passing(m)'
    PROVE  RunInv'
<1>1. Durable'
  BY KeptDurable, Zenon DEF RunInv, Kept
<1>2. Shape' /\ Watched'
  BY Zenon DEF RunInv, Shape, Watched, Without, NoProof, Program, Observing, CkptsOf
<1>3. InHand'
  <2>1. ASSUME NEW m \in Members
        PROVE  /\ Ended(m, st.cap[m]) => Ended(m, st.cap[m])'
               /\ First(m)' = First(m)
    BY CapStays, Zenon DEF First
  <2>2. todo \subseteq Members /\ Victim \in Members /\ NoProof' = NoProof /\ InHand
    BY RestartAssumption, Zenon DEF RunInv, Shape, NoProof
  <2>3. /\ pc' \in {"observe", "take"} /\ frozen' # NoProof =>
             \A m \in todo' : First(m)' => Ended(m, st.cap[m])'
        /\ pc' \in {"faultobs", "faulttake", "faultsem"} /\ frozen' # NoProof =>
             Ended(Victim, st.cap[Victim])'
    BY <2>1, <2>2, Zenon DEF InHand
  <2>4. pc' = "take" => \A m \in todo' : First(m)' => Passing(m)'
    BY <2>1, <2>2, Zenon
  <2> QED
    BY <2>2, <2>3, <2>4, Zenon DEF InHand
<1> QED
  BY <1>1, <1>2, <1>3 DEF RunInv

LEMMA CheckNodeRun ==
    ASSUME PodsInv, AllMove, RunInv, CheckNode
    PROVE  RunInv'
<1>1. PICK m \in Observed :
             \/ /\ NodeAvailable(m) /\ UNCHANGED st
                /\ Step(IF pc = "observe" THEN "take" ELSE "faulttake")
             \/ Stop /\ UNCHANGED st
  BY Zenon DEF CheckNode, Incomplete
<1>2. CASE Stop /\ UNCHANGED st
  BY <1>2, StopRun
<1>3. CASE /\ NodeAvailable(m) /\ UNCHANGED st
           /\ Step(IF pc = "observe" THEN "take" ELSE "faulttake")
  <2>1. ASSUME pc' = "take", NEW k \in todo, First(k) PROVE Passing(k)'
    <3>1. pc = "observe" /\ m \in todo /\ First(m)
      BY <1>3, <2>1, Zenon DEF Observed, CheckNode, Step
    <3>2. k = m /\ m \in Members
      BY <2>1, <3>1, FirstUnique, Zenon DEF RunInv, Shape
    <3>3. PodsOf(m) /\ node[m] = "ready"
      BY <1>3, <3>2, Zenon DEF PodsInv, NodeAvailable
    <3>4. orphan'[m].uid = 0
      BY <3>3, Zenon DEF PodsOf, CheckNode, clusterVars
    <3> QED
      BY <3>2, <3>4, Zenon DEF Passing
  <2> QED
    BY <1>3, <2>1, TurnRun, Zenon DEF Step, CheckNode
<1> QED
  BY <1>1, <1>2, <1>3, Zenon

\* What a fault stage has passed is true.
LEMMA PriorTrue ==
    ASSUME Durable, NEW m \in Members, Prior(m) # NoProof
    PROVE  Ended(m, st.cap[m])
<1>1. m = Victim /\ JournalProof(FaultStage, Victim) # NoProof
  BY Zenon DEF Prior, Injected
<1>2. Passed(FaultStage, m) # {}
  BY <1>1, Zenon DEF JournalProof
<1>3. PICK i \in 1..Len(st.journal) :
             st.journal[i].member = m /\ st.journal[i].verdict = "PASS"
  BY <1>2, Zenon DEF Passed
<1> QED
  BY <1>3, Zenon DEF Durable, Proved, Shown

\* An event from which a termination is taken shows the container ended.
LEMMA SeenIsEnded ==
    ASSUME PodsInv, NEW m \in Members, NEW e, EventOf(m, e), NEW c, c.ctr \in Nat,
           e.uid = c.uid, EventTermination(e, c) # NoProof
    PROVE  Ended(m, c)
<1>1. \/ Len(e.exits) + 1 = c.ctr + 1
      \/ Len(e.exits) + 0 = c.ctr
      \/ Len(e.exits) + 0 = c.ctr + 1
  <2>1. Current(e) = c.ctr + 1 \/ (~ e.up /\ Current(e) = c.ctr)
    BY Zenon DEF EventTermination
  <2>2. (e.up /\ Current(e) = Len(e.exits) + 1) \/ (~ e.up /\ Current(e) = Len(e.exits) + 0)
    BY Zenon DEF Current
  <2> QED
    BY <2>1, <2>2, Zenon
<1>2. Len(e.exits) \in Nat /\ c.uid \in 1..made[m]
  BY Zenon DEF EventOf
<1>3. Len(e.exits) >= c.ctr
  BY <1>1, <1>2
<1>4. /\ Len(pods[m].exits) \in Nat /\ orphan[m].ctr \in Nat
      /\ pods[m].uid = c.uid => Len(e.exits) <= Len(pods[m].exits)
      /\ orphan[m].uid = c.uid => Len(e.exits) < orphan[m].ctr
  BY Zenon DEF EventOf, PodsInv, PodsOf, IsSeq
<1> QED
  BY <1>2, <1>3, <1>4 DEF Ended

\* Reading one event: the observer gives up, waits, goes on, or returns.
Reads(m) ==
    /\ ix' = [ix EXCEPT ![m] = @ + 1] /\ UNCHANGED <<todo, cap>>
    /\ ix[m] < Len(stream[m])
    /\ NextEvent(m).uid = cap[m].uid

LEMMA ConsumeCases ==
    ASSUME PodsInv, Durable, NEW m \in Members, NEW stage, NEW req \in BOOLEAN,
           NEW again, NEW next, Consume(m, stage, req, again, next),
           cap = st.cap, ix[m] \in Nat \/ Ended(m, st.cap[m]),
           frozen # NoProof => Ended(m, st.cap[m])
    PROVE  \/ Stop /\ Kept /\ st'.ckpt = st.ckpt
           \/ pc' = again /\ UNCHANGED <<st, todo, cap, ix, frozen>>
           \/ /\ Reads(m) /\ pc' = again /\ Kept /\ st'.ckpt = st.ckpt
              /\ frozen' # NoProof => Ended(m, st.cap[m])
           \/ /\ Reads(m) /\ pc' = next /\ Ended(m, st.cap[m])
              /\ req => NextEvent(m).type = "DELETED"
              /\ \E p : Appended(Entry(stage, m, p, "OBSERVED"))
<1> DEFINE f == IF frozen = NoProof THEN Prior(m) ELSE frozen
           e == NextEvent(m)
           g == Frozen(e, cap[m], f, Len(st.journal) + 1)
           raw == RawJournaled(m, e)
           ret == Returns(e, cap[m], f, req)
<1>1. /\ DOMAIN raw = DOMAIN st /\ raw.cap = st.cap /\ raw.proofs = st.proofs
      /\ raw.journal = st.journal /\ raw.ckpt = st.ckpt
  BY Zenon DEF RawJournaled, Durable
<1>2. CASE Step(again) /\ UNCHANGED st
  BY <1>2, Zenon DEF Step
<1>3. CASE ix[m] < Len(stream[m]) /\ Rejects(e, cap[m], f)
  <2>1. CASE Incomplete(raw)
    <3> HIDE DEF raw
    <3> QED
      BY <1>1, <2>1, Zenon DEF Kept, Incomplete
  <2> QED
    BY <1>2, <1>3, <2>1, Zenon DEF Consume
<1>4. CASE /\ ix[m] < Len(stream[m]) /\ ~ Rejects(e, cap[m], f)
           /\ ix' = [ix EXCEPT ![m] = @ + 1] /\ UNCHANGED <<todo, cap>>
           /\ frozen' = IF ret THEN Proof(e, g) ELSE g
           /\ pc' = IF ret THEN next ELSE again
           /\ st' = IF ret THEN [raw EXCEPT !.journal = Append(@,
                                   Entry(stage, m, Proof(e, g), "OBSERVED"))]
                    ELSE raw
  <2>1. e.uid = cap[m].uid
    BY <1>4, Zenon DEF Rejects
  <2>2. Reads(m)
    BY <1>4, <2>1, Zenon DEF Reads
  <2>3. ret /\ req => e.type = "DELETED"
    BY Zenon DEF Returns
  <2>4. f # NoProof => Ended(m, st.cap[m])
    BY PriorTrue, Zenon
  <2>5. ix[m] \in Nat => EventOf(m, e) /\ cap[m].ctr \in Nat
    <3>1. ix[m] \in Nat => ix[m] + 1 \in 1..Len(stream[m])
      BY <1>4 DEF PodsInv, PodsOf, IsSeq
    <3> QED
      BY <3>1, Zenon DEF PodsInv, PodsOf, NextEvent, Durable
  <2>6. EventTermination(e, cap[m]) # NoProof => Ended(m, st.cap[m])
    <3> HIDE DEF e
    <3> QED
      BY <2>1, <2>5, SeenIsEnded, Zenon
  <2>7. ASSUME NEW n, Frozen(e, cap[m], f, n) # NoProof PROVE Ended(m, st.cap[m])
    <3> HIDE DEF e, f
    <3> QED
      BY <2>4, <2>6, <2>7, Zenon DEF Frozen
  <2>8. ret => Ended(m, st.cap[m])
    <3>1. ret => Frozen(e, cap[m], f, 1) # NoProof \/ e.type = "DELETED"
      BY Zenon DEF Returns
    <3>2. e.type = "DELETED" => f # NoProof
      BY <1>4, Zenon DEF Rejects
    <3> QED
      BY <2>4, <2>7, <3>1, <3>2, Zenon
  <2>9. g # NoProof => Ended(m, st.cap[m])
    BY <2>7, Zenon
  <2> HIDE DEF raw, ret, e, g, f
  <2>10. CASE ~ ret
    BY <1>1, <1>4, <2>2, <2>9, <2>10, Zenon DEF Kept
  <2>11. CASE ret
    <3> DEFINE q == Entry(stage, m, Proof(e, g), "OBSERVED")
    <3>1. st' = [raw EXCEPT !.journal = Append(@, q)] /\ pc' = next
      BY <1>4, <2>11, Zenon
    <3> HIDE DEF q
    <3>2. Appended(q)
      BY <1>1, <3>1, Zenon DEF Appended, Durable
    <3>3. \E p : Appended(Entry(stage, m, p, "OBSERVED"))
      BY <3>2 DEF q
    <3> QED
      BY <2>2, <2>3, <2>8, <2>11, <3>1, <3>3, Zenon DEF e
  <2> QED
    BY <2>10, <2>11, Zenon
<1> QED
  BY <1>2, <1>3, <1>4, Zenon DEF Consume

\* A watch that stands goes forward.
LEMMA ReadsWatched ==
    ASSUME Watched, Shape, NEW m \in Members, Reads(m), st'.proofs = st.proofs,
           pc \in Observing, pc' \in Observing,
           pc' \in {"observe", "take", "judge", "checkpoint"} => pc = "take"
    PROVE  Watched'
<1>1. \A k \in Members : ix[k] \in Nat => ix'[k] \in Nat
  BY DEF Reads, Shape
<1>2. ASSUME NEW k \in Members PROVE st'.proofs[k] # NoProof \/ ix'[k] \in Nat
  BY <1>1, Zenon DEF Watched, Observing
<1>3. pc' \in {"observe", "take", "judge", "checkpoint"} => todo' = Without(st.proofs)'
  BY Zenon DEF Watched, Reads, Without, NoProof
<1> QED
  BY <1>2, <1>3, Zenon DEF Watched, NoProof

LEMMA ReadsShape ==
    ASSUME Shape, NEW m \in Members, Reads(m), st'.cap = st.cap, st'.ckpt = st.ckpt,
           pc \in Observing, pc' \in Observing
    PROVE  Shape'
<1>1. CkptsOf(pc) = {"CAPTURED"} /\ CkptsOf(pc') = {"CAPTURED"}
  BY DEF CkptsOf, Observing
<1>2. pc # "off" /\ pc' \in Program
  BY Zenon DEF Observing, Program
<1> QED
  BY <1>1, <1>2, Zenon DEF Shape, Reads

LEMMA ObserveFaultRun ==
    ASSUME PodsInv, AllMove, RunInv, ObserveFault
    PROVE  RunInv'
<1>1. /\ pc = "faulttake" /\ Victim \in Members
      /\ Consume(Victim, FaultStage, FALSE, "faultobs", "faultsem")
  BY RestartAssumption, Zenon DEF ObserveFault
<1>2. st.ckpt = "CAPTURED" /\ cap = st.cap
  BY <1>1 DEF RunInv, Shape, CkptsOf, Observing
<1>3. CASE Stop /\ Kept /\ st'.ckpt = st.ckpt
  <2>1. Durable'
    BY <1>3, KeptDurable DEF RunInv
  <2> QED
    BY <1>3, <2>1, StopControl
<1>4. CASE pc' = "faultobs" /\ UNCHANGED <<st, todo, cap, ix, frozen>>
  BY <1>1, <1>4, TurnRun, Zenon
<1>5. ASSUME Reads(Victim), pc' \in {"faultobs", "faultsem"}, st'.ckpt = st.ckpt,
             st'.cap = st.cap, st'.proofs = st.proofs, Durable',
             frozen' # NoProof => Ended(Victim, st.cap[Victim])
      PROVE  RunInv'
  <2>1. pc \in Observing /\ pc' \in Observing
    BY <1>1, <1>5, Zenon DEF Observing
  <2>2. Shape'
    BY <1>1, <1>5, <2>1, ReadsShape, Zenon DEF RunInv
  <2>3. Watched'
    BY <1>1, <1>5, <2>1, ReadsWatched, Zenon DEF RunInv
  <2>4. frozen' # NoProof => Ended(Victim, st.cap[Victim])'
    BY <1>1, <1>5, CapStays, Zenon
  <2>5. InHand'
    BY <1>5, <2>4, Zenon DEF InHand, NoProof
  <2> QED
    BY <1>5, <2>2, <2>3, <2>5, Zenon DEF RunInv
<1>6. CASE /\ Reads(Victim) /\ pc' = "faultobs" /\ Kept /\ st'.ckpt = st.ckpt
           /\ frozen' # NoProof => Ended(Victim, st.cap[Victim])
  <2>1. Durable'
    BY <1>6, KeptDurable DEF RunInv
  <2> QED
    BY <1>5, <1>6, <2>1, Zenon DEF Kept
<1>7. CASE /\ Reads(Victim) /\ pc' = "faultsem" /\ Ended(Victim, st.cap[Victim])
           /\ \E p : Appended(Entry(FaultStage, Victim, p, "OBSERVED"))
  <2>1. PICK p : Appended(Entry(FaultStage, Victim, p, "OBSERVED"))
    BY <1>7
  <2>2. Entry(FaultStage, Victim, p, "OBSERVED").verdict # "PASS"
    BY Zenon DEF Entry
  <2>3. Durable'
    <3> HIDE DEF Entry
    <3> QED
      BY <1>2, <2>1, <2>2, JournalDurable, Zenon DEF RunInv
  <2> QED
    BY <1>5, <1>7, <2>1, <2>3, Zenon DEF Appended
<1>8. ix[Victim] \in Nat \/ Ended(Victim, st.cap[Victim])
  BY <1>1, Zenon DEF RunInv, Watched, Observing, Durable, Proved, Gone
<1>9. frozen # NoProof => Ended(Victim, st.cap[Victim])
  BY <1>1, Zenon DEF RunInv, InHand
<1> QED
  BY <1>1, <1>2, <1>3, <1>4, <1>6, <1>7, <1>8, <1>9, ConsumeCases, Zenon DEF RunInv

\* The DELETED event of the captured Pod, read after its node was found ready.
LEMMA DeletedIsGone ==
    ASSUME PodsInv, NEW m \in Members, ix[m] \in Nat, Reads(m), cap = st.cap,
           NextEvent(m).type = "DELETED", Ended(m, st.cap[m]), Passing(m)
    PROVE  Gone(m, st.cap[m])
<1>1. PodsOf(m)
  BY Zenon DEF PodsInv
<1>2. ix[m] + 1 \in 1..Len(stream[m])
  BY <1>1 DEF Reads, PodsOf, IsSeq
<1>3. EventOf(m, NextEvent(m)) /\ NextEvent(m).uid = st.cap[m].uid
  BY <1>1, <1>2, Zenon DEF PodsOf, NextEvent, Reads
<1>4. st.cap[m].uid # pods[m].uid
  BY <1>3, Zenon DEF EventOf
<1>5. ASSUME m \notin gap, orphan[m].uid = st.cap[m].uid PROVE FALSE
  <2>1. orphan[m].uid # 0
    BY <1>1, <1>5 DEF Ended, PodsOf
  <2> QED
    BY <1>2, <1>3, <1>5, <2>1, Zenon DEF Passing, NextEvent
<1> QED
  BY <1>4, <1>5, Zenon DEF Gone

LEMMA ObserveMemberRun ==
    ASSUME PodsInv, AllMove, RunInv, ObserveMember
    PROVE  RunInv'
<1>1. pc = "take"
  BY DEF ObserveMember
<1>2. PICK m \in todo : /\ First(m)
                        /\ Consume(m, "whole_world_termination", TRUE, "observe", "judge")
  BY <1>1, Zenon DEF ObserveMember, Observed
<1>3. m \in Members /\ st.ckpt = "CAPTURED" /\ cap = st.cap
  BY <1>1 DEF RunInv, Shape, CkptsOf, Observing
<1>4. ix[m] \in Nat /\ Passing(m) /\ (frozen # NoProof => Ended(m, st.cap[m]))
  <2>1. st.proofs[m] = NoProof
    BY <1>1, <1>3, Zenon DEF RunInv, Watched, Without
  <2>2. ix[m] \in Nat
    BY <1>1, <1>3, <2>1, Zenon DEF RunInv, Watched, Observing
  <2> QED
    BY <1>1, <1>2, <2>2, Zenon DEF RunInv, InHand
<1>5. CASE Stop /\ Kept /\ st'.ckpt = st.ckpt
  <2>1. Durable'
    BY <1>5, KeptDurable DEF RunInv
  <2> QED
    BY <1>5, <2>1, StopControl
<1>6. CASE pc' = "observe" /\ UNCHANGED <<st, todo, cap, ix, frozen>>
  BY <1>1, <1>6, TurnRun, Zenon
<1>7. ASSUME Reads(m), pc' \in {"observe", "judge"}, st'.ckpt = st.ckpt,
             st'.cap = st.cap, st'.proofs = st.proofs
      PROVE  /\ Shape' /\ Watched'
             /\ \A k \in todo' : First(k)' => k = m
  <2>1. pc \in Observing /\ pc' \in Observing
    BY <1>1, <1>7 DEF Observing
  <2>2. Shape'
    BY <1>3, <1>7, <2>1, ReadsShape, Zenon DEF RunInv
  <2>3. Watched'
    BY <1>1, <1>3, <1>7, <2>1, ReadsWatched, Zenon DEF RunInv
  <2>4. ASSUME NEW k \in todo', First(k)' PROVE k = m
    <3>1. k \in todo /\ First(k)
      BY <1>7, <2>4, Zenon DEF Reads, First
    <3> QED
      BY <1>2, <3>1, FirstUnique, Zenon DEF RunInv, Shape
  <2> QED
    BY <2>2, <2>3, <2>4, Zenon
<1>8. CASE /\ Reads(m) /\ pc' = "observe" /\ Kept /\ st'.ckpt = st.ckpt
           /\ frozen' # NoProof => Ended(m, st.cap[m])
  <2>1. Durable'
    BY <1>8, KeptDurable, Zenon DEF RunInv
  <2>2. st'.cap = st.cap /\ st'.proofs = st.proofs
    BY <1>8, Zenon DEF Kept
  <2>3. frozen' # NoProof => \A k \in todo' : First(k)' => Ended(k, st.cap[k])'
    BY <1>3, <1>7, <1>8, <2>2, CapStays, Zenon
  <2>4. InHand'
    BY <1>8, <2>3, Zenon DEF InHand, NoProof
  <2> QED
    BY <1>7, <1>8, <2>1, <2>2, <2>4, Zenon DEF RunInv
<1>9. CASE /\ Reads(m) /\ pc' = "judge" /\ Ended(m, st.cap[m])
           /\ NextEvent(m).type = "DELETED"
           /\ \E p : Appended(Entry("whole_world_termination", m, p, "OBSERVED"))
  <2>1. PICK p : Appended(Entry("whole_world_termination", m, p, "OBSERVED"))
    BY <1>9, Zenon
  <2>2. Entry("whole_world_termination", m, p, "OBSERVED").verdict # "PASS"
    BY Zenon DEF Entry
  <2>3. Durable'
    <3> HIDE DEF Entry
    <3> QED
      BY <1>3, <2>1, <2>2, JournalDurable, Zenon DEF RunInv
  <2>4. st'.cap = st.cap /\ st'.proofs = st.proofs /\ st'.ckpt = st.ckpt
    BY <2>1, Zenon DEF Appended
  <2>5. Gone(m, st.cap[m])
    BY <1>3, <1>4, <1>9, DeletedIsGone, Zenon
  <2>6. \A k \in todo' : First(k)' => Gone(k, st.cap[k])'
    BY <1>3, <1>7, <1>9, <2>4, <2>5, CapStays, Zenon
  <2>7. InHand'
    BY <1>9, <2>6, Zenon DEF InHand
  <2> QED
    BY <1>7, <1>9, <2>3, <2>4, <2>7, Zenon DEF RunInv
<1> QED
  BY <1>2, <1>3, <1>4, <1>5, <1>6, <1>8, <1>9, ConsumeCases, Zenon DEF RunInv

\* A verdict is one journal entry.
LEMMA VerdictAppends ==
    ASSUME Durable, NEW stage, NEW m, NEW ok \in BOOLEAN, Verdict(stage, m, ok)
    PROVE  Appended(Entry(stage, m, frozen, IF ok THEN "PASS" ELSE "FAIL"))
<1> DEFINE e == Entry(stage, m, frozen, IF ok THEN "PASS" ELSE "FAIL")
<1>1. st' = [st EXCEPT !.journal = Append(@, e)]
  BY DEF Verdict, Journal
<1> HIDE DEF e
<1>2. Appended(e)
  BY <1>1, Zenon DEF Appended, Durable
<1> QED
  BY <1>2 DEF e

LEMMA JudgeFaultRun ==
    ASSUME PodsInv, AllMove, RunInv, JudgeFault
    PROVE  RunInv'
<1> DEFINE v == IF FaultProven THEN "PASS" ELSE "FAIL"
           e == Entry(FaultStage, Victim, frozen, v)
<1>1. pc = "faultsem" /\ st.ckpt = "CAPTURED"
  BY Zenon DEF JudgeFault, RunInv, Shape, CkptsOf, Observing
<1>2. Appended(e)
  <2>1. Verdict(FaultStage, Victim, FaultProven) /\ FaultProven \in BOOLEAN
    BY Zenon DEF JudgeFault, FaultProven
  <2> QED
    BY <2>1, VerdictAppends, Zenon DEF RunInv
<1>3. /\ e.stage # "whole_world_termination" /\ e.member = Victim
      /\ e.verdict = "PASS" => FaultProven
  BY Zenon DEF Entry, FaultStage
<1> HIDE DEF e, v
<1>7. FaultProven => Ended(Victim, st.cap[Victim])
  <2>1. FaultProven => frozen # NoProof
    <3>1. NoProof.exit = "" /\ FaultExit # ""
      BY Zenon DEF FaultExit, NoProof
    <3> HIDE DEF NoProof, FaultExit
    <3> QED
      BY <3>1, Zenon DEF FaultProven
  <2> QED
    BY <1>1, <2>1, Zenon DEF RunInv, InHand
<1>4. Durable'
  BY <1>1, <1>2, <1>3, <1>7, JournalDurable, Zenon DEF RunInv, Shown
<1>5. CASE Stop
  BY <1>4, <1>5, StopControl
<1>6. CASE pc' = "stop" /\ UNCHANGED <<todo, cap, ix>>
  <2>1. st'.cap = st.cap /\ st'.proofs = st.proofs /\ st'.ckpt = st.ckpt
    BY <1>2, Zenon DEF Appended
  <2>2. Shape'
    BY <1>1, <1>6, <2>1, Zenon DEF RunInv, Shape, Program, Observing, CkptsOf
  <2>3. Watched'
    BY <1>1, <1>6, <2>1, Zenon DEF RunInv, Watched, Observing, NoProof
  <2>4. InHand'
    BY <1>6 DEF InHand
  <2> QED
    BY <1>4, <2>2, <2>3, <2>4 DEF RunInv
<1> QED
  BY <1>5, <1>6, Zenon DEF JudgeFault

LEMMA JudgeMemberRun ==
    ASSUME PodsInv, AllMove, RunInv, JudgeMember
    PROVE  RunInv'
<1> DEFINE proven(m) == CompleteProof(m, frozen) /\ BindsCaptured(m, frozen)
           e(m) == Entry("whole_world_termination", m, frozen,
                         IF proven(m) THEN "PASS" ELSE "FAIL")
<1>1. PICK m \in todo : /\ First(m)
                        /\ Verdict("whole_world_termination", m, proven(m))
                        /\ IF proven(m) THEN Step("checkpoint") ELSE Stop
  BY Zenon DEF JudgeMember
<1>2. pc = "judge" /\ m \in Members
  BY Zenon DEF JudgeMember, RunInv, Shape
<1>3. st.ckpt = "CAPTURED" /\ cap = st.cap
  BY <1>2 DEF RunInv, Shape, CkptsOf, Observing
<1>4. Gone(m, st.cap[m])
  BY <1>1, <1>2, Zenon DEF RunInv, InHand
<1>5. Appended(e(m)) /\ e(m).member = m
  <2>1. proven(m) \in BOOLEAN
    BY DEF BindsCaptured, CompleteProof
  <2> QED
    BY <1>1, <2>1, VerdictAppends, Zenon DEF RunInv, Entry
<1>6. Durable'
  <2> HIDE DEF e
  <2> QED
    BY <1>3, <1>4, <1>5, JournalDurable, Zenon DEF RunInv, Shown, Gone
<1>7. CASE ~ proven(m)
  BY <1>1, <1>6, <1>7, StopControl, Zenon
<1>8. CASE proven(m)
  <2>1. st'.cap = st.cap /\ st'.proofs = st.proofs /\ st'.ckpt = st.ckpt
    BY <1>5, Zenon DEF Appended
  <2>2. pc' = "checkpoint" /\ UNCHANGED <<todo, cap, ix, frozen>>
    BY <1>1, <1>8, Zenon DEF Step
  <2>3. frozen # NoProof
    <3>1. made[m] \in Nat
      BY <1>2, Zenon DEF PodsInv, PodsOf
    <3>2. frozen.uid = cap[m].uid /\ cap[m].uid # 0
      BY <1>3, <1>4, <1>8, <3>1 DEF BindsCaptured, Gone, Ended
    <3>3. NoProof.uid = 0
      BY Zenon DEF NoProof
    <3> QED
      BY <3>2, <3>3
  <2>4. Shape'
    BY <1>2, <2>1, <2>2, Zenon DEF RunInv, Shape, Program, Observing, CkptsOf
  <2>5. Watched'
    BY <1>2, <2>1, <2>2, Zenon DEF RunInv, Watched, Observing, NoProof, Without
  <2>6. ASSUME NEW k \in todo', First(k)' PROVE Gone(k, st.cap[k])'
    <3>1. k \in todo /\ First(k)
      BY <2>2, <2>6, Zenon DEF First
    <3>2. k = m
      BY <1>1, <3>1, FirstUnique, Zenon DEF RunInv, Shape
    <3> QED
      BY <1>2, <1>4, <2>1, <3>2, CapStays, Zenon
  <2>7. InHand'
    BY <2>2, <2>3, <2>6, Zenon DEF InHand, NoProof
  <2> QED
    BY <1>6, <2>4, <2>5, <2>7 DEF RunInv
<1> QED
  BY <1>7, <1>8

LEMMA CheckpointRun ==
    ASSUME PodsInv, AllMove, RunInv, CheckpointProof
    PROVE  RunInv'
<1>1. PICK m \in todo : /\ First(m) /\ st' = [st EXCEPT !.proofs[m] = frozen]
                        /\ Loop("observe", todo \ {m})
  BY Zenon DEF CheckpointProof
<1>2. /\ pc = "checkpoint" /\ m \in Members /\ frozen # NoProof
      /\ todo = Without(st.proofs)
  BY Zenon DEF CheckpointProof, RunInv, Shape, InHand, Watched
<1>3. st.ckpt = "CAPTURED" /\ cap = st.cap
  BY <1>2, Zenon DEF RunInv, Shape, CkptsOf, Observing
<1>4. Gone(m, st.cap[m])
  BY <1>1, <1>2, Zenon DEF RunInv, InHand
<1>5. /\ DOMAIN st' = DOMAIN st /\ st'.cap = st.cap /\ st'.journal = st.journal
      /\ st'.ckpt = st.ckpt /\ st'.proofs = [st.proofs EXCEPT ![m] = frozen]
  BY <1>1, Zenon DEF RunInv, Durable
<1>6. /\ pc' = "observe" /\ todo' = todo \ {m} /\ UNCHANGED <<cap, ix>>
      /\ frozen' = NoProof
  BY <1>1 DEF Loop
<1>7. /\ DOMAIN st.proofs = Members /\ DOMAIN st'.proofs = Members
      /\ st'.proofs[m] = frozen
      /\ \A k \in Members \ {m} : st'.proofs[k] = st.proofs[k]
  BY <1>2, <1>5, Zenon DEF RunInv, Durable
<1>8. Proved'
  <2>1. ASSUME NEW k \in Members, st'.proofs[k] # NoProof
        PROVE  Gone(k, st.cap[k])'
    <3>1. Gone(k, st.cap[k])
      BY <1>4, <1>7, <2>1, Zenon DEF RunInv, Durable, Proved
    <3> QED
      BY <1>5, <3>1, CapStays, Zenon
  <2>2. ASSUME NEW i \in 1..Len(st'.journal), NEW k \in Members,
               st'.journal[i].verdict = "PASS", st'.journal[i].member = k
        PROVE  Shown(st.journal[i].stage, k, st.cap[k])'
    <3>1. Shown(st'.journal[i].stage, k, st.cap[k])
      BY <1>5, <2>2 DEF RunInv, Durable, Proved
    <3> QED
      BY <1>5, <3>1, CapStays, Zenon DEF Shown
  <2> QED
    BY <2>1, <2>2, Zenon DEF Proved, NoProof
<1>9. Durable'
  <2>1. st'.ckpt \notin Patched \cup {"TERMINATED", "CREATED"}
    BY <1>3, <1>5, Zenon DEF Patched, WithPermit, Accepting
  <2> QED
    BY <1>5, <1>7, <1>8, <2>1, Zenon DEF RunInv, Durable
<1>10. Shape'
  BY <1>2, <1>5, <1>6, Zenon DEF RunInv, Shape, Program, Observing, CkptsOf
<1>11. Watched'
  <2>1. todo' = Without(st.proofs)'
    BY <1>2, <1>6, <1>7, Zenon DEF Without, NoProof
  <2>2. ASSUME NEW k \in Members PROVE st'.proofs[k] # NoProof \/ ix'[k] \in Nat
    BY <1>2, <1>6, <1>7, Zenon DEF RunInv, Watched, Observing
  <2> QED
    BY <1>6, <2>1, <2>2, Zenon DEF Watched, NoProof
<1>12. InHand'
  BY <1>6, Zenon DEF InHand, NoProof
<1> QED
  BY <1>9, <1>10, <1>11, <1>12 DEF RunInv

\* The steps before TERMINATED that prove nothing.
LEMMA StoppingRun ==
    ASSUME PodsInv, AllMove, RunInv,
           SkipFault \/ InjectFault \/ AwaitWatchdog \/ BeginStop \/ StopMember
    PROVE  RunInv'
<1>1. CASE Stop /\ UNCHANGED st
  BY <1>1, StopRun
<1>2. ASSUME pc \in {"fault", "stop", "stopping"}, Kept, st'.ckpt = st.ckpt,
             UNCHANGED <<cap, ix>>, todo' \subseteq Members,
             pc' \in {"faultobs", "stop", "stopping", "observe"},
             pc' = "observe" => todo' = Without(st.proofs),
             pc' \in {"faultobs", "observe"} => frozen' = NoProof
      PROVE  RunInv'
  <2>1. st.ckpt = "CAPTURED" /\ pc' \in Observing /\ pc \in Observing
    BY <1>2, Zenon DEF RunInv, Shape, CkptsOf, Observing
  <2>2. st.ckpt \in CkptsOf(pc')
    BY <2>1 DEF CkptsOf, Observing
  <2>3. pc # "off" /\ pc' \in Program \ Holding /\ pc' # "fault"
    BY <1>2, Zenon DEF Program, Observing, Holding
  <2> QED
    BY <1>2, <2>1, <2>2, <2>3, MoveOn, Zenon
<1>3. todo \subseteq Members
  BY Zenon DEF RunInv, Shape
<1>8. pc = "fault" => frozen = NoProof
  BY Zenon DEF RunInv, InHand
<1>4. CASE SkipFault \/ AwaitWatchdog
  BY <1>2, <1>3, <1>4, <1>8, Zenon DEF SkipFault, AwaitWatchdog, Step, Kept
<1>5. CASE InjectFault
  BY <1>1, <1>2, <1>3, <1>5, <1>8, Zenon DEF InjectFault, Step, Kept
<1>6. CASE BeginStop
  <2>1. CASE RecordEvent("scale_down") /\ Loop("stopping", Members)
    <3>1. Kept /\ st'.ckpt = st.ckpt
      BY <2>1, Zenon DEF RecordEvent, Kept, RunInv, Durable
    <3> QED
      BY <1>2, <1>6, <2>1, <3>1, Zenon DEF Loop, BeginStop
  <2>2. CASE UNCHANGED st /\ Loop("stopping", Members)
    BY <1>2, <1>6, <2>2, Zenon DEF Loop, BeginStop, Kept
  <2> QED
    BY <1>1, <1>6, <2>1, <2>2, Zenon DEF BeginStop
<1>7. CASE StopMember
  <2>1. Without(st.proofs) \subseteq Members
    BY DEF Without
  <2> QED
    BY <1>2, <1>3, <1>7, <2>1, Zenon DEF StopMember, Loop, Kept
<1> QED
  BY <1>4, <1>5, <1>6, <1>7

\* The steps after it: one checkpoint each.
LEMMA StartingRun ==
    ASSUME PodsInv, AllMove, RunInv,
           \/ Terminated \/ PatchGeneration \/ GenerationPatched \/ StartMember
           \/ Started \/ FreshPods \/ RecheckPods \/ PublishPermit \/ PublishFails
           \/ AcceptanceEvidence \/ AcceptTopology \/ PersistWorld \/ Accepted
    PROVE  RunInv'
<1>1. CASE Stop /\ UNCHANGED st
  BY <1>1, StopRun, Zenon
<1>2. ASSUME Kept, UNCHANGED cap, todo' \subseteq Members, pc # "off",
             ix' \in {ix, Closed}, HasAllProofs, st.ckpt # "CREATED",
             pc' \in {"patch", "patching", "start", "fresh", "publish",
                      "evidence", "accept", "persist", "persisting", "done"},
             st'.ckpt \in CkptsOf(pc')
      PROVE  RunInv'
  <2>1. pc' \in Program \ Holding /\ pc' \notin Observing /\ pc' # "observe"
        /\ pc' \notin {"fault", "faultobs", "observe"}
    BY <1>2, Zenon DEF Program, Observing, Holding
  <2>2. st'.ckpt \in Ckpts \ {"CREATED"}
    BY <1>2, Zenon DEF Ckpts, CkptsOf, Observing
  <2> QED
    BY <1>2, <2>1, <2>2, MoveOn, Zenon
<1>3. todo \subseteq Members
  BY Zenon DEF RunInv, Shape
<1>4. st.ckpt \in Patched \cup {"TERMINATED"} => HasAllProofs
  BY Zenon DEF RunInv, Durable
<1>5. ASSUME NEW c, st' = [st EXCEPT !.ckpt = c] PROVE Kept /\ st'.ckpt = c
  BY <1>5, Zenon DEF Kept, RunInv, Durable
<1> USE DEF Patched, WithPermit, Accepting, CkptsOf, Observing
<1>6. CASE Terminated
  <2>1. CASE HasAllProofs /\ (mode = "crash" => st.proofs[Victim].exit = "137")
    <3>1. /\ Kept /\ st'.ckpt = "TERMINATED" /\ pc' = "patch" /\ ix' = Closed
          /\ UNCHANGED <<todo, cap>> /\ pc = "observe"
      BY <1>5, <1>6, <2>1, Zenon DEF Terminated
    <3>2. st.ckpt # "CREATED"
      BY <3>1, Zenon DEF RunInv, Shape
    <3> QED
      BY <1>2, <1>3, <2>1, <3>1, <3>2, Zenon
  <2> QED
    BY <1>1, <1>6, <2>1, Zenon DEF Terminated
<1>7. CASE PatchGeneration
  <2>1. pc = "patch" /\ pc' = "patching" /\ UNCHANGED <<st, todo, cap, ix>>
    BY <1>7, Zenon DEF PatchGeneration
  <2>2. st.ckpt = "TERMINATED"
    BY <2>1, Zenon DEF RunInv, Shape
  <2> QED
    BY <1>2, <1>3, <1>4, <2>1, <2>2, Zenon DEF Kept
<1>8. CASE GenerationPatched
  <2>1. /\ pc = "patching" /\ pc' = "start" /\ todo' = Members /\ UNCHANGED <<cap, ix>>
        /\ Kept /\ st'.ckpt = "GENERATION_PATCHED"
    BY <1>5, <1>8, Zenon DEF GenerationPatched
  <2>2. st.ckpt = "TERMINATED"
    BY <2>1, Zenon DEF RunInv, Shape
  <2> QED
    BY <1>2, <1>4, <2>1, <2>2, Zenon
<1>9. CASE StartMember
  <2>1. pc = "start" /\ pc' = "start" /\ UNCHANGED <<st, cap, ix>> /\ todo' \subseteq Members
    BY <1>3, <1>9, Zenon DEF StartMember, Loop
  <2>2. st.ckpt = "GENERATION_PATCHED"
    BY <2>1, Zenon DEF RunInv, Shape
  <2> QED
    BY <1>2, <1>4, <2>1, <2>2, Zenon DEF Kept
<1>10. CASE Started
  <2>1. /\ pc = "start" /\ pc' = "fresh" /\ UNCHANGED <<todo, cap, ix>>
        /\ Kept /\ st'.ckpt = "STARTED"
    BY <1>5, <1>10, Zenon DEF Started, Step
  <2>2. st.ckpt = "GENERATION_PATCHED"
    BY <2>1, Zenon DEF RunInv, Shape
  <2> QED
    BY <1>2, <1>3, <1>4, <2>1, <2>2, Zenon
<1>11. CASE FreshPods
  <2>1. CASE ~ WrongPods
    <3>1. /\ pc = "fresh" /\ pc' = "publish" /\ UNCHANGED <<todo, cap, ix>>
          /\ st' = [st EXCEPT !.ckpt = "PERMIT_READY", !.permit = BuiltPermit]
      BY <1>11, <2>1, Zenon DEF FreshPods, Step
    <3>2. Kept /\ st'.ckpt = "PERMIT_READY"
      BY <3>1, Zenon DEF Kept, RunInv, Durable
    <3>3. st.ckpt = "STARTED"
      BY <3>1, Zenon DEF RunInv, Shape
    <3> QED
      BY <1>2, <1>3, <1>4, <3>1, <3>2, <3>3
  <2> QED
    BY <1>1, <1>11, <2>1, Zenon DEF FreshPods
<1>12. CASE RecheckPods
  <2>1. CASE pc = "recheck" /\ Step("publish") /\ UNCHANGED st
    <3>1. st.ckpt = "PERMIT_READY"
      BY <2>1, Zenon DEF RunInv, Shape
    <3> QED
      BY <1>2, <1>3, <1>4, <2>1, <3>1, Zenon DEF Kept, Step
  <2> QED
    BY <1>1, <1>12, <2>1, Zenon DEF RecheckPods
<1>13. CASE PublishPermit \/ PublishFails
  <2>1. CASE /\ pc = "publish" /\ Step("evidence")
             /\ st' = [st EXCEPT !.ckpt = "PERMIT_PUBLISHED"]
    <3>1. Kept /\ st'.ckpt = "PERMIT_PUBLISHED"
      BY <1>5, <2>1
    <3>2. st.ckpt = "PERMIT_READY"
      BY <2>1, Zenon DEF RunInv, Shape
    <3> QED
      BY <1>2, <1>3, <1>4, <2>1, <3>1, <3>2 DEF Step
  <2> QED
    BY <1>1, <1>13, <2>1, Zenon DEF PublishPermit, PublishFails
<1>14. CASE AcceptanceEvidence
  <2>1. CASE Permitted
    <3>1. /\ pc = "evidence" /\ pc' = "accept" /\ UNCHANGED <<todo, cap, ix>>
          /\ st' = [st EXCEPT !.ckpt = "EVIDENCE_READY", !.evidence = ListedUids]
      BY <1>14, <2>1, Zenon DEF AcceptanceEvidence, Step
    <3>2. Kept /\ st'.ckpt = "EVIDENCE_READY"
      BY <3>1, Zenon DEF Kept, RunInv, Durable
    <3>3. st.ckpt = "PERMIT_PUBLISHED"
      BY <3>1, Zenon DEF RunInv, Shape
    <3> QED
      BY <1>2, <1>3, <1>4, <3>1, <3>2, <3>3
  <2> QED
    BY <1>1, <1>14, <2>1, Zenon DEF AcceptanceEvidence
<1>15. CASE AcceptTopology \/ PersistWorld
  <2>1. CASE /\ pc \in {"accept", "persist"} /\ pc' \in {"persist", "persisting"}
             /\ UNCHANGED <<st, todo, cap, ix>>
    <3>1. st.ckpt = "EVIDENCE_READY"
      BY <2>1, Zenon DEF RunInv, Shape
    <3> QED
      BY <1>2, <1>3, <1>4, <2>1, <3>1, Zenon DEF Kept
  <2> QED
    BY <1>1, <1>15, <2>1, Zenon DEF AcceptTopology, PersistWorld, Step
<1>16. CASE Accepted
  <2>1. /\ pc = "persisting" /\ pc' = "done" /\ UNCHANGED <<todo, cap, ix>>
        /\ Kept /\ st'.ckpt = "ACCEPTED"
    BY <1>5, <1>16, Zenon DEF Accepted
  <2>2. st.ckpt = "EVIDENCE_READY"
    BY <2>1, Zenon DEF RunInv, Shape
  <2> QED
    BY <1>2, <1>3, <1>4, <2>1, <2>2, Zenon
<1> QED
  BY <1>6, <1>7, <1>8, <1>9, <1>10, <1>11, <1>12, <1>13, <1>14, <1>15, <1>16, Zenon

LEMMA NextRun ==
    ASSUME PodsInv, RunInv, [Next]_vars
    PROVE  RunInv'
<1>1. AllMove
  BY NextMoves DEF AllMove
<1>2. CASE \/ UNCHANGED vars \/ HelmQuiet \/ HelmCommand \/ HelmFails \/ OtherBegins
           \/ OtherEnds
           \/ \E m \in Members : Kubernetes(m) \/ Misfortune(m)
  BY <1>1, <1>2, CtlStill, Zenon DEF vars, HelmQuiet, HelmCommand, HelmFails, OtherBegins, OtherEnds,
     Kubernetes, Misfortune
<1>3. CASE \/ InjectLost \/ StopLost \/ AcceptLost \/ TimeOut \/ Crash \/ HelmRaises
           \/ Return
  BY <1>1, <1>3, StopRun, Zenon DEF InjectLost, StopLost, AcceptLost, TimeOut, Crash,
     HelmRaises, Return
<1> QED
  BY <1>1, <1>2, <1>3, InvokeRun, CaptureRun, WatchRun, CapturedRun, CheckNodeRun, ObserveFaultRun,
     JudgeFaultRun, ObserveMemberRun, JudgeMemberRun, CheckpointRun, StoppingRun,
     StartingRun DEF Next, Controller

LEMMA InitRun == Init => RunInv
<1> SUFFICES ASSUME Init PROVE RunInv
  OBVIOUS
<1>1. /\ st = NewRunState /\ pc = "off" /\ todo = {} /\ cap = NoCap /\ ix = Closed
      /\ frozen = NoProof
  BY DEF Init
<1>2. IsSeq(st.journal) /\ Len(st.journal) = 0
  BY <1>1, EmptyIsSeq, Zenon DEF NewRunState
<1>3. Durable
  BY <1>1, <1>2 DEF Durable, Proved, NewRunState, NoProofs, NoCap, Ckpts, Patched,
     WithPermit, Accepting
<1>4. Shape /\ Watched /\ InHand
  BY <1>1, <1>3, Zenon DEF Shape, Watched, InHand, NoCap, Closed, Program, CkptsOf, Observing,
     Durable
<1> QED
  BY <1>3, <1>4 DEF RunInv

\* The place of each checkpoint.
LEMMA Ranks ==
    /\ Rank("CREATED") = 1 /\ Rank("CAPTURED") = 2 /\ Rank("TERMINATED") = 3
    /\ Rank("GENERATION_PATCHED") = 4 /\ Rank("STARTED") = 5
    /\ Rank("PERMIT_READY") = 6 /\ Rank("PERMIT_PUBLISHED") = 7
    /\ Rank("EVIDENCE_READY") = 8 /\ Rank("ACCEPTED") = 9
<1>1. /\ Checkpoints[1] = "CREATED" /\ Checkpoints[2] = "CAPTURED"
      /\ Checkpoints[3] = "TERMINATED" /\ Checkpoints[4] = "GENERATION_PATCHED"
      /\ Checkpoints[5] = "STARTED" /\ Checkpoints[6] = "PERMIT_READY"
      /\ Checkpoints[7] = "PERMIT_PUBLISHED" /\ Checkpoints[8] = "EVIDENCE_READY"
      /\ Checkpoints[9] = "ACCEPTED" /\ Len(Checkpoints) = 9
  BY DEF Checkpoints
<1>2. \A i \in 1..9 : \A j \in 1..9 : Checkpoints[i] = Checkpoints[j] => i = j
  BY <1>1
<1>3. ASSUME NEW i \in 1..9 PROVE Rank(Checkpoints[i]) = i
  <2>1. \E j \in 1..Len(Checkpoints) : Checkpoints[j] = Checkpoints[i]
    BY <1>1, Zenon
  <2>2. /\ Rank(Checkpoints[i]) \in 1..Len(Checkpoints)
        /\ Checkpoints[Rank(Checkpoints[i])] = Checkpoints[i]
    BY <2>1, Zenon DEF Rank
  <2> QED
    BY <1>1, <1>2, <2>2, Zenon
<1> QED
  BY <1>1, <1>3

\* Checkpoints follow the order of the program; what is captured or proved
\* stands.
Forward ==
    /\ Rank(st'.ckpt) >= Rank(st.ckpt)
    /\ st.ckpt # "CREATED" => st'.cap = st.cap
    /\ \A m \in Members : st.proofs[m] # NoProof => st'.proofs[m] = st.proofs[m]

LEMMA KeptForward ==
    ASSUME RunInv, Kept, st'.ckpt = st.ckpt \/ Rank(st'.ckpt) >= Rank(st.ckpt)
    PROVE  Forward
<1>1. Rank(st.ckpt) \in Nat
  BY Ranks DEF RunInv, Durable, Ckpts
<1>2. Rank(st'.ckpt) >= Rank(st.ckpt)
  BY <1>1
<1> QED
  BY <1>2, Zenon DEF Forward, Kept

LEMMA NextForward ==
    ASSUME PodsInv, RunInv, [Next]_vars
    PROVE  Forward
<1>1. CASE st' = st
  BY <1>1, KeptForward DEF Kept
<1>2. ASSUME NEW c, st' = [st EXCEPT !.ckpt = c], Rank(c) >= Rank(st.ckpt) PROVE Forward
  <2>1. Kept /\ st'.ckpt = c
    BY <1>2, Zenon DEF Kept, RunInv, Durable
  <2> QED
    BY <1>2, <2>1, KeptForward
<1> USE DEF CkptsOf, Observing
<1>3. CASE Invoke
  <2>1. CASE st' = Resumed
    <3>1. st'.ckpt = st.ckpt /\ st'.cap = st.cap
          /\ st'.proofs = [m \in Members |-> Merged(m)]
      BY <2>1, Zenon DEF RunInv, Durable, Resumed
    <3>2. Rank(st.ckpt) \in Nat
      BY Ranks DEF RunInv, Durable, Ckpts
    <3> QED
      BY <3>1, <3>2 DEF Forward, Merged
  <2> QED
    BY <1>1, <1>3, <2>1, Zenon DEF Invoke
<1>4. CASE WriteCaptured
  <2>1. CASE st.ckpt = "CREATED"
    <3>1. st'.ckpt = "CAPTURED"
      BY <1>4, <2>1, Zenon DEF WriteCaptured, RunInv, Durable
    <3>2. \A m \in Members : st.proofs[m] = NoProof
      BY <2>1, Zenon DEF RunInv, Durable, NoProofs
    <3> QED
      BY <2>1, <3>1, <3>2, Ranks DEF Forward
  <2> QED
    BY <1>1, <1>4, <2>1 DEF WriteCaptured
<1>5. CASE ObserveFault \/ ObserveMember
  <2>1. PICK r : \/ st' = st
                 \/ st' = [st EXCEPT !.raw = r]
                 \/ \E j : st' = [[st EXCEPT !.raw = r] EXCEPT !.journal = j]
    BY <1>5, Zenon DEF ObserveFault, ObserveMember, Consume, Incomplete, RawJournaled
  <2> DEFINE s == [st EXCEPT !.raw = r]
  <2>2. /\ DOMAIN s = DOMAIN st
        /\ s.ckpt = st.ckpt /\ s.cap = st.cap /\ s.proofs = st.proofs
    BY Zenon DEF RunInv, Durable
  <2>3. st' = st \/ st' = s \/ \E j : st' = [s EXCEPT !.journal = j]
    BY <2>1, Zenon
  <2> HIDE DEF s
  <2>4. st'.ckpt = st.ckpt /\ st'.cap = st.cap /\ st'.proofs = st.proofs
    BY <2>2, <2>3, Zenon DEF RunInv, Durable
  <2>5. Rank(st.ckpt) \in Nat
    BY Ranks DEF RunInv, Durable, Ckpts
  <2> QED
    BY <2>4, <2>5 DEF Forward
<1>8. ASSUME NEW e, st' = [st EXCEPT !.journal = e] PROVE Forward
  <2>1. st'.ckpt = st.ckpt /\ st'.cap = st.cap /\ st'.proofs = st.proofs
    BY <1>8 DEF RunInv, Durable
  <2>2. Rank(st.ckpt) \in Nat
    BY Ranks DEF RunInv, Durable, Ckpts
  <2> QED
    BY <2>1, <2>2 DEF Forward
<1>9. CASE JudgeFault
  BY <1>8, <1>9, Zenon DEF JudgeFault, Verdict, Journal
<1>10. CASE JudgeMember
  BY <1>8, <1>10, Zenon DEF JudgeMember, Verdict, Journal
<1>11. CASE CheckpointProof
  <2>1. PICK m \in todo : st' = [st EXCEPT !.proofs[m] = frozen]
    BY <1>11, Zenon DEF CheckpointProof
  <2>2. m \in Members /\ st.proofs[m] = NoProof
    BY <1>11, Zenon DEF CheckpointProof, RunInv, Shape, Watched, Without
  <2>3. /\ st'.ckpt = st.ckpt /\ st'.cap = st.cap
        /\ st'.proofs = [st.proofs EXCEPT ![m] = frozen]
    BY <2>1, Zenon DEF RunInv, Durable
  <2>4. Rank(st.ckpt) \in Nat
    BY Ranks DEF RunInv, Durable, Ckpts
  <2>5. \A k \in Members \ {m} : st'.proofs[k] = st.proofs[k]
    BY <2>3, Zenon DEF RunInv, Durable
  <2> QED
    BY <2>2, <2>3, <2>4, <2>5 DEF Forward
<1>12. CASE BeginStop
  <2>1. CASE RecordEvent("scale_down")
    <3>1. Kept /\ st'.ckpt = st.ckpt
      BY <2>1, Zenon DEF RecordEvent, Kept, RunInv, Durable
    <3> QED
      BY <3>1, KeptForward
  <2> QED
    BY <1>1, <1>12, <2>1, Zenon DEF BeginStop
<1>13. CASE Terminated
  <2>1. st.ckpt = "CAPTURED"
    BY <1>13, Zenon DEF Terminated, RunInv, Shape
  <2> QED
    BY <1>1, <1>2, <1>13, <2>1, Ranks DEF Terminated
<1>14. CASE GenerationPatched
  <2>1. st.ckpt = "TERMINATED"
    BY <1>14, Zenon DEF GenerationPatched, RunInv, Shape
  <2> QED
    BY <1>2, <1>14, <2>1, Ranks DEF GenerationPatched
<1>15. CASE Started
  <2>1. st.ckpt = "GENERATION_PATCHED"
    BY <1>15 DEF Started, RunInv, Shape
  <2> QED
    BY <1>2, <1>15, <2>1, Ranks DEF Started
<1>16. CASE FreshPods
  <2>1. st.ckpt = "STARTED"
    BY <1>16, Zenon DEF FreshPods, RunInv, Shape
  <2>2. CASE st' = [st EXCEPT !.ckpt = "PERMIT_READY", !.permit = BuiltPermit]
    <3>1. Kept /\ st'.ckpt = "PERMIT_READY"
      BY <2>2 DEF Kept, RunInv, Durable
    <3> QED
      BY <2>1, <3>1, Ranks, KeptForward
  <2> QED
    BY <1>1, <1>16, <2>2 DEF FreshPods
<1>17. CASE PublishPermit \/ PublishFails
  <2>1. st.ckpt = "PERMIT_READY"
    BY <1>17, Zenon DEF PublishPermit, PublishFails, RunInv, Shape
  <2>2. st' = st \/ st' = [st EXCEPT !.ckpt = "PERMIT_PUBLISHED"]
    BY <1>17, Zenon DEF PublishPermit, PublishFails
  <2> QED
    BY <1>1, <1>2, <2>1, <2>2, Ranks
<1>18. CASE AcceptanceEvidence
  <2>1. st.ckpt = "PERMIT_PUBLISHED"
    <3>1. pc = "evidence"
      BY <1>18 DEF AcceptanceEvidence
    <3> QED
      BY <3>1 DEF RunInv, Shape
  <2>2. CASE st' = [st EXCEPT !.ckpt = "EVIDENCE_READY", !.evidence = ListedUids]
    <3>1. Kept /\ st'.ckpt = "EVIDENCE_READY"
      BY <2>2 DEF Kept, RunInv, Durable
    <3> QED
      BY <2>1, <3>1, Ranks, KeptForward
  <2> QED
    BY <1>1, <1>18, <2>2 DEF AcceptanceEvidence
<1>19. CASE Accepted
  <2>1. st.ckpt = "EVIDENCE_READY"
    BY <1>19, Zenon DEF Accepted, RunInv, Shape
  <2> QED
    BY <1>2, <1>19, <2>1, Ranks DEF Accepted
<1>20. CASE \/ CaptureMember \/ StartWatch \/ SkipFault \/ InjectFault \/ AwaitWatchdog
            \/ CheckNode \/ StopMember \/ PatchGeneration \/ StartMember \/ RecheckPods
            \/ AcceptTopology \/ PersistWorld \/ Return
  BY <1>1, <1>20, Zenon DEF CaptureMember, StartWatch, SkipFault, InjectFault, AwaitWatchdog,
     CheckNode, Incomplete, StopMember, PatchGeneration, StartMember, RecheckPods,
     AcceptTopology, PersistWorld, Return
<1>21. CASE \/ HelmQuiet \/ HelmCommand \/ HelmRaises \/ InjectLost \/ StopLost
            \/ AcceptLost \/ HelmFails \/ TimeOut \/ Crash \/ OtherBegins
            \/ OtherEnds \/ UNCHANGED vars \/ \E m \in Members : Kubernetes(m) \/ Misfortune(m)
  BY <1>1, <1>21, Zenon DEF HelmQuiet, HelmCommand, HelmRaises, InjectLost, StopLost,
     AcceptLost, HelmFails, TimeOut, Crash, OtherBegins, OtherEnds, vars, Kubernetes,
     Misfortune
<1> QED
  BY <1>3, <1>4, <1>5, <1>9, <1>10, <1>11, <1>12, <1>13, <1>14, <1>15, <1>16,
     <1>17, <1>18, <1>19, <1>20, <1>21 DEF Next, Controller

(***************************************************************************)
(* The release                                                             *)
(***************************************************************************)
\* The deployed revision is there and is one.
LEMMA DeployedIs ==
    ASSUME History
    PROVE  /\ Deployed \in 1..Len(hist) /\ hist[Deployed].status = "deployed"
           /\ \A i \in 1..Len(hist) : hist[i].status = "deployed" => i = Deployed
           /\ DOMAIN Live = Names
<1>1. PICK k \in 1..Len(hist) :
             \A j \in 1..Len(hist) : (hist[j].status = "deployed") <=> (j = k)
  BY Zenon DEF History
<1>2. Len(hist) \in Nat
  BY Zenon DEF History, IsSeq
<1>3. \E i \in 1..Len(hist) :
        /\ hist[i].status = "deployed"
        /\ \A j \in (i+1)..Len(hist) : hist[j].status # "deployed"
  BY <1>1, <1>2
<1>4. Deployed \in 1..Len(hist) /\ hist[Deployed].status = "deployed"
  BY <1>3, Zenon DEF Deployed
<1> QED
  BY <1>1, <1>4, Zenon DEF History, RevisionOK, Live

\* The same of the next state.
LEMMA DeployedIsNext ==
    ASSUME History', NEW i \in 1..Len(hist'), hist'[i].status = "deployed"
    PROVE  Live' = hist'[i].vals
<1>1. PICK k \in 1..Len(hist') :
             \A j \in 1..Len(hist') : (hist'[j].status = "deployed") <=> (j = k)
  BY Zenon DEF History
<1>2. Len(hist') \in Nat
  BY Zenon DEF History, IsSeq
<1>3. \E l \in 1..Len(hist') :
        /\ hist'[l].status = "deployed"
        /\ \A j \in (l+1)..Len(hist') : hist'[j].status # "deployed"
  BY <1>1, <1>2
<1>4. Deployed' \in 1..Len(hist') /\ hist'[Deployed'].status = "deployed"
  BY <1>3, Zenon DEF Deployed
<1> QED
  BY <1>1, <1>4, Zenon DEF Live

\* The release after a command that was to set `want`: what was there is
\* there, and what is new is the deployed values with `want` over them.
Writes(want) ==
    /\ History'
    /\ Live' \in {Live, Override(Live, want)}
    /\ \A j \in 1..Len(hist') :
         \/ hist'[j].vals = Override(Live, want)
         \/ \E i \in 1..Len(hist) : hist'[j].vals = hist[i].vals
    /\ \A i \in 1..Len(hist) :
         /\ i \in 1..Len(hist')
         /\ hist'[i].rev = hist[i].rev /\ hist'[i].vals = hist[i].vals

\* The last revision.
LEMMA LatestIs ==
    ASSUME History
    PROVE  /\ Len(hist) \in Nat /\ Len(hist) \in 1..Len(hist)
           /\ Latest = hist[Len(hist)] /\ RevisionOK(Len(hist))
           /\ \A i \in 1..Len(hist) : hist[i].rev \in Nat /\ hist[i].rev <= Latest.rev
<1>1. Len(hist) \in Nat /\ Len(hist) \in 1..Len(hist)
  BY DEF History, IsSeq
<1>2. \A i \in 1..Len(hist) : hist[i].rev \in Nat
  BY Zenon DEF History, RevisionOK
<1>3. ASSUME NEW i \in 1..Len(hist) PROVE hist[i].rev <= hist[Len(hist)].rev
  <2>1. CASE i = Len(hist)
    BY <1>1, <1>2, <2>1
  <2>2. CASE i # Len(hist)
    <3>1. i < Len(hist)
      BY <1>1, <2>2
    <3>2. hist[i].rev < hist[Len(hist)].rev
      BY <1>1, <3>1, Zenon DEF History
    <3> QED
      BY <1>1, <1>2, <3>2
  <2> QED
    BY <2>1, <2>2
<1> QED
  BY <1>1, <1>2, <1>3, Zenon DEF Latest, History

LEMMA SameWrites ==
    ASSUME History, NEW want, hist' = hist
    PROVE  Writes(want) /\ Live' = Live
<1>1. History'
  BY DEF History, RevisionOK
<1>2. Live' = Live
  BY DEF Live, Deployed
<1> QED
  BY <1>1, <1>2, Zenon DEF Writes

\* The history, up to the revisions it supersedes.
Base(h) ==
    /\ IsSeq(h) /\ Len(h) = Len(hist)
    /\ \A i \in 1..Len(hist) :
         /\ DOMAIN h[i] = {"rev", "status", "vals", "by"}
         /\ h[i].rev = hist[i].rev /\ h[i].vals = hist[i].vals
         /\ h[i].status \in {hist[i].status, "superseded"}

\* One of it and a new revision is deployed.
OneLive(h, status) ==
    \E k \in 1..Len(hist) + 1 :
      /\ \A j \in 1..Len(hist) : (h[j].status = "deployed") <=> (j = k)
      /\ (status = "deployed") <=> (Len(hist) + 1 = k)

Extended(h, who, status, want) ==
    /\ \A i \in 1..Len(hist) : i \in 1..Len(hist') /\ hist'[i] = h[i]
    /\ Len(hist') \in 1..Len(hist')
    /\ hist'[Len(hist')].vals = Override(Live, want)
    /\ hist'[Len(hist')].status = status /\ hist'[Len(hist')].by = who
    /\ \A j \in 1..Len(hist') :
         \/ hist'[j].vals = Override(Live, want)
         \/ \E i \in 1..Len(hist) : hist'[j].vals = hist[i].vals

\* A revision is appended to the history or to the superseded history.
LEMMA AppendWrites ==
    ASSUME History, Latest.status # "pending-upgrade", NEW want, NEW who, NEW status, NEW h,
           Base(h), OneLive(h, status), hist' = Append(h, NewRevision(who, status, want))
    PROVE  History' /\ Extended(h, who, status, want)
<1> DEFINE e == NewRevision(who, status, want)
           n == Len(hist)
<1>1. n \in Nat
  BY Zenon DEF History, IsSeq
<1>2. /\ IsSeq(hist') /\ Len(hist') = n + 1
      /\ \A i \in 1..n : hist'[i] = h[i]
      /\ hist'[n + 1] = e
  BY AppendIsSeq DEF Base
<1>3. /\ DOMAIN e = {"rev", "status", "vals", "by"} /\ e.rev = Latest.rev + 1
      /\ e.status = status /\ e.vals = Override(Live, want) /\ e.by = who
  BY Zenon DEF NewRevision, Live
<1>4. DOMAIN Override(Live, want) = Names
  BY DeployedIs, Zenon DEF Override
<1>5. /\ Latest.rev \in Nat /\ \A i \in 1..n : hist[i].rev \in Nat /\ hist[i].rev <= Latest.rev
      /\ \A i \in 1..n : DOMAIN hist[i].vals = Names
      /\ \A i \in 1..n : hist[i].status # "pending-upgrade"
  <2>1. \A i \in 1..n : hist[i].status = "pending-upgrade" => i = n
    BY Zenon DEF History, RevisionOK
  <2>2. \A i \in 1..n : DOMAIN hist[i].vals = Names
    BY Zenon DEF History, RevisionOK
  <2> QED
    BY <2>1, <2>2, LatestIs, Zenon
<1>6. PICK k \in 1..n + 1 :
             /\ \A j \in 1..n : (h[j].status = "deployed") <=> (j = k)
             /\ (status = "deployed") <=> (n + 1 = k)
  BY DEF OneLive
<1> HIDE DEF e, n
<1>7. 1..Len(hist') = (1..n) \cup {n + 1} /\ n + 1 \notin 1..n
  BY <1>1, <1>2
<1>8. ASSUME NEW i \in 1..n
      PROVE  /\ DOMAIN hist'[i] = {"rev", "status", "vals", "by"}
             /\ hist'[i].rev = hist[i].rev /\ hist'[i].vals = hist[i].vals
             /\ hist'[i].status # "pending-upgrade"
  <2>1. /\ hist'[i] = h[i] /\ i \in 1..Len(hist) /\ hist[i].status # "pending-upgrade"
    BY <1>2, <1>5, <1>8, Zenon DEF n
  <2>2. h[i].status # "pending-upgrade"
    BY <2>1 DEF Base
  <2> QED
    BY <2>1, <2>2, Zenon DEF Base
<1>9. ASSUME NEW i \in 1..Len(hist') PROVE RevisionOK(i)'
  <2>1. CASE i = n + 1
    <3>1. Latest.rev + 1 \in Nat
      BY <1>5
    <3> QED
      BY <1>2, <1>3, <1>4, <2>1, <3>1, Zenon DEF RevisionOK
  <2>2. CASE i \in 1..n
    BY <1>5, <1>8, <2>2, Zenon DEF RevisionOK
  <2> QED
    BY <1>7, <2>1, <2>2, Zenon
<1>10. ASSUME NEW i \in 1..Len(hist'), NEW j \in 1..Len(hist'), i < j
       PROVE  hist'[i].rev < hist'[j].rev
  <2>1. i \in 1..n
    BY <1>1, <1>2, <1>10
  <2>2. CASE j = n + 1
    <3>1. hist'[i].rev = hist[i].rev /\ hist'[j].rev = Latest.rev + 1
      BY <1>2, <1>3, <1>8, <2>1, <2>2, Zenon
    <3> QED
      BY <1>5, <2>1, <3>1
  <2>3. CASE j \in 1..n
    <3>1. hist[i].rev < hist[j].rev
      BY <1>10, <2>1, <2>3, Zenon DEF History, n
    <3> QED
      BY <1>8, <2>1, <2>3, <3>1, Zenon
  <2> QED
    BY <1>7, <2>2, <2>3, Zenon
<1>11. \E i \in 1..Len(hist') :
         \A j \in 1..Len(hist') : (hist'[j].status = "deployed") <=> (j = i)
  <2>1. k \in 1..Len(hist')
    BY <1>2, <1>6, Zenon
  <2>2. ASSUME NEW j \in 1..Len(hist')
        PROVE  (hist'[j].status = "deployed") <=> (j = k)
    <3>1. CASE j = n + 1
      BY <1>2, <1>3, <1>6, <3>1, Zenon
    <3>2. CASE j \in 1..n
      BY <1>2, <1>6, <3>2, Zenon
    <3> QED
      BY <1>7, <3>1, <3>2, Zenon
  <2> QED
    BY <2>1, <2>2, Zenon
<1>12. Len(hist') > 0 /\ Len(hist') \in 1..Len(hist')
  BY <1>1, <1>2
<1>13. History'
  BY <1>2, <1>9, <1>10, <1>11, <1>12, Zenon DEF History
<1>14. /\ hist'[Len(hist')].vals = Override(Live, want)
       /\ hist'[Len(hist')].status = status /\ hist'[Len(hist')].by = who
  BY <1>2, <1>3, Zenon
<1>15. ASSUME NEW j \in 1..Len(hist')
       PROVE  hist'[j].vals = Override(Live, want)
              \/ \E i \in 1..Len(hist) : hist'[j].vals = hist[i].vals
  BY <1>2, <1>3, <1>7, <1>8, Zenon DEF n
<1> QED
  BY <1>2, <1>7, <1>12, <1>13, <1>14, <1>15, Zenon DEF n, Extended

\* A revision is appended unfinished.
LEMMA UnfinishedWrites ==
    ASSUME History, Latest.status # "pending-upgrade", NEW want, NEW who,
           NEW status \in {"pending-upgrade", "failed"},
           hist' = Append(hist, NewRevision(who, status, want))
    PROVE  /\ Writes(want) /\ Live' = Live
           /\ hist'[Len(hist')].vals = Override(Live, want)
           /\ hist'[Len(hist')].status = status /\ hist'[Len(hist')].by = who
<1>1. PICK k \in 1..Len(hist) :
             \A j \in 1..Len(hist) : (hist[j].status = "deployed") <=> (j = k)
  BY Zenon DEF History
<1>2. Base(hist)
  BY Zenon DEF History, RevisionOK, Base
<1>3. OneLive(hist, status)
  <2>1. k \in 1..Len(hist) + 1 /\ k # Len(hist) + 1
    BY DEF History, IsSeq
  <2> QED
    BY <1>1, <2>1 DEF OneLive
<1>4. History' /\ Extended(hist, who, status, want)
  BY <1>2, <1>3, AppendWrites, Zenon
<1>5. Live' = Live
  <2>1. Deployed \in 1..Len(hist) /\ hist[Deployed].status = "deployed"
    BY DeployedIs, Zenon
  <2>2. Deployed \in 1..Len(hist') /\ hist'[Deployed] = hist[Deployed]
    BY <1>4, <2>1, Zenon DEF Extended
  <2> QED
    BY <1>4, <2>1, <2>2, DeployedIsNext, Zenon DEF Live
<1> QED
  BY <1>4, <1>5, Zenon DEF Writes, Extended

\* What a superseded revision keeps.
LEMMA Superseded ==
    ASSUME History
    PROVE  /\ IsSeq(Supersede) /\ Len(Supersede) = Len(hist)
           /\ \A i \in 1..Len(hist) :
                /\ DOMAIN Supersede[i] = {"rev", "status", "vals", "by"}
                /\ Supersede[i].rev = hist[i].rev /\ Supersede[i].by = hist[i].by
                /\ Supersede[i].vals = hist[i].vals
                /\ Supersede[i].status # "deployed"
                /\ Supersede[i].status \in {hist[i].status, "superseded"}
<1> DEFINE n == Len(hist)
<1>1. n \in Nat
  BY Zenon DEF History, IsSeq
<1>2. IsSeq(Supersede) /\ Len(Supersede) = n
  <2>1. Supersede = [i \in 1..n |-> Supersede[i]]
    BY Zenon DEF Supersede
  <2> HIDE DEF n
  <2> QED
    BY <1>1, <2>1, FunIsSeq
<1>3. ASSUME NEW i \in 1..n
      PROVE  /\ DOMAIN Supersede[i] = {"rev", "status", "vals", "by"}
             /\ Supersede[i].rev = hist[i].rev /\ Supersede[i].by = hist[i].by
             /\ Supersede[i].vals = hist[i].vals
             /\ Supersede[i].status # "deployed"
             /\ Supersede[i].status \in {hist[i].status, "superseded"}
  <2>1. DOMAIN hist[i] = {"rev", "status", "vals", "by"}
    BY <1>3, Zenon DEF History, RevisionOK
  <2> QED
    BY <1>3, <2>1, Zenon DEF Supersede
<1> QED
  BY <1>2, <1>3, Zenon

\* A revision is deployed and supersedes the one before.
LEMMA DeployedWrites ==
    ASSUME History, Latest.status # "pending-upgrade", NEW want, NEW who,
           hist' = Append(Supersede, NewRevision(who, "deployed", want))
    PROVE  /\ Writes(want) /\ Live' = Override(Live, want)
           /\ hist'[Len(hist')].vals = Override(Live, want)
           /\ hist'[Len(hist')].status = "deployed" /\ hist'[Len(hist')].by = who
<1>1. Len(hist) \in Nat
  BY Zenon DEF History, IsSeq
<1>2. OneLive(Supersede, "deployed")
  <2>1. Len(hist) + 1 \in 1..Len(hist) + 1 /\ Len(hist) + 1 \notin 1..Len(hist)
    BY <1>1
  <2> QED
    BY <2>1, Superseded, Zenon DEF OneLive
<1>3. Base(Supersede)
  BY Superseded, Zenon DEF Base
<1>4. History' /\ Extended(Supersede, who, "deployed", want)
  BY <1>2, <1>3, AppendWrites, Zenon
<1>5. Live' = Override(Live, want)
  BY <1>4, DeployedIsNext, Zenon DEF Extended
<1> QED
  BY <1>4, <1>5, Superseded, Zenon DEF Writes, Extended

\* Whatever a command does.
LEMMA UpgradeWrites ==
    ASSUME History, NEW who, NEW result \in Results, NEW want, Upgrade(who, result, want)
    PROVE  /\ Writes(want)
           /\ result = "deployed" => Live' = Override(Live, want)
           /\ result # "deployed" => Live' = Live
           /\ result = "none" => hist' = hist
           /\ result # "none" =>
                /\ hist'[Len(hist')].vals = Override(Live, want)
                /\ hist'[Len(hist')].status = result /\ hist'[Len(hist')].by = who
<1>1. CASE result = "none"
  <2>1. hist' = hist
    BY <1>1 DEF Upgrade
  <2> QED
    BY <1>1, <2>1, SameWrites
<1>2. CASE result = "deployed"
  <2>1. /\ Latest.status # "pending-upgrade"
        /\ hist' = Append(Supersede, NewRevision(who, "deployed", want))
    BY <1>2 DEF Upgrade
  <2> QED
    BY <1>2, <2>1, DeployedWrites, Zenon
<1>3. CASE result \in {"pending-upgrade", "failed"}
  <2>1. /\ Latest.status # "pending-upgrade"
        /\ hist' = Append(hist, NewRevision(who, result, want))
    BY <1>3 DEF Upgrade
  <2> QED
    BY <1>3, <2>1, UnfinishedWrites, Zenon
<1> QED
  BY <1>1, <1>2, <1>3, Zenon DEF Results

\* The pending revision of another operator ends.
Ends(result) ==
    /\ History' /\ Len(hist') = Len(hist)
    /\ \A i \in 1..Len(hist) :
         hist'[i].rev = hist[i].rev /\ hist'[i].vals = hist[i].vals
    /\ Live' = IF result = "deployed" THEN Latest.vals ELSE Live
    /\ hist'[Len(hist')].status = result

LEMMA ForeignEnds ==
    ASSUME History, NEW result \in {"failed", "deployed"}, ForeignEnd(result)
    PROVE  Ends(result)
<1> DEFINE n == Len(hist)
           h == IF result = "deployed" THEN Supersede ELSE hist
           e == [h[n] EXCEPT !.status = result]
<1>1. n \in Nat /\ n \in 1..n /\ Latest = hist[n] /\ hist[n].status = "pending-upgrade"
  BY LatestIs, Zenon DEF ForeignEnd
<1>2. Base(h)
  <2>1. Base(Supersede)
    BY Superseded, Zenon DEF Base
  <2>2. Base(hist)
    BY Zenon DEF History, RevisionOK, Base
  <2> QED
    BY <2>1, <2>2, Zenon
<1>3. hist' = [h EXCEPT ![n] = e]
  BY Zenon DEF ForeignEnd
<1>4. PICK k \in 1..n : \A j \in 1..n : (hist[j].status = "deployed") <=> (j = k)
  BY Zenon DEF History
<1>5. /\ k # n
      /\ result = "deployed" => \A i \in 1..n : h[i].status # "deployed"
      /\ result # "deployed" => h = hist
  BY <1>1, <1>4, Superseded
<1>6. ASSUME NEW i \in 1..n
      PROVE  /\ DOMAIN h[i] = {"rev", "status", "vals", "by"}
             /\ h[i].rev = hist[i].rev /\ h[i].vals = hist[i].vals
             /\ h[i].status \in {hist[i].status, "superseded"}
  BY <1>2, <1>6, Zenon DEF Base
<1>7. /\ DOMAIN e = {"rev", "status", "vals", "by"} /\ e.status = result
      /\ e.rev = hist[n].rev /\ e.vals = hist[n].vals
  BY <1>1, <1>6, Zenon
<1>8. h = [i \in 1..n |-> h[i]]
  BY <1>2, Zenon DEF Base, IsSeq
<1> HIDE DEF h, e, n
<1>9. /\ \A i \in 1..n : i # n => hist'[i] = h[i]
      /\ hist'[n] = e
      /\ hist' = [i \in 1..n |-> hist'[i]]
  BY <1>1, <1>3, <1>8, Zenon
<1>10. IsSeq(hist') /\ Len(hist') = n
  BY <1>1, <1>9, FunIsSeq
<1>11. ASSUME NEW i \in 1..n
       PROVE  /\ DOMAIN hist'[i] = {"rev", "status", "vals", "by"}
              /\ hist'[i].rev = hist[i].rev /\ hist'[i].vals = hist[i].vals
  BY <1>6, <1>7, <1>9, <1>11, Zenon
<1>12. ASSUME NEW i \in 1..n PROVE hist'[i].status # "pending-upgrade"
  <2>1. CASE i = n
    BY <1>7, <1>9, <2>1
  <2>2. CASE i # n
    <3>1. hist[i].status # "pending-upgrade"
      BY <1>12, <2>2, Zenon DEF History, RevisionOK, n
    <3>2. hist'[i].status \in {hist[i].status, "superseded"}
      BY <1>6, <1>9, <2>2, Zenon
    <3> QED
      BY <3>1, <3>2
  <2> QED
    BY <2>1, <2>2
<1>13. \A i \in 1..Len(hist') : RevisionOK(i)'
  <2>1. \A i \in 1..n : DOMAIN hist[i].vals = Names /\ hist[i].rev \in Nat
    BY Zenon DEF History, RevisionOK, n
  <2> QED
    BY <1>10, <1>11, <1>12, <2>1, Zenon DEF RevisionOK
<1>14. \A i, j \in 1..Len(hist') : i < j => hist'[i].rev < hist'[j].rev
  <2>1. \A i, j \in 1..n : i < j => hist[i].rev < hist[j].rev
    BY Zenon DEF History, n
  <2> QED
    BY <1>10, <1>11, <2>1, Zenon
<1>15. \E i \in 1..Len(hist') :
         \A j \in 1..Len(hist') : (hist'[j].status = "deployed") <=> (j = i)
  <2>1. CASE result = "deployed"
    <3>1. \A j \in 1..n : (hist'[j].status = "deployed") <=> (j = n)
      BY <1>1, <1>5, <1>7, <1>9, <2>1, Zenon
    <3> QED
      BY <1>1, <1>10, <3>1, Zenon
  <2>2. CASE result = "failed"
    <3>1. h = hist /\ e.status # "deployed"
      BY <1>5, <1>7, <2>2
    <3>2. \A j \in 1..n : (hist'[j].status = "deployed") <=> (j = k)
      BY <1>4, <1>5, <1>9, <3>1, Zenon
    <3> QED
      BY <1>4, <1>10, <3>2, Zenon
  <2> QED
    BY <2>1, <2>2, Zenon
<1>16. Len(hist') > 0 /\ hist'[Len(hist')].status = result
  BY <1>1, <1>7, <1>9, <1>10
<1>17. History'
  BY <1>10, <1>13, <1>14, <1>15, <1>16, Zenon DEF History
<1>18. Live' = IF result = "deployed" THEN Latest.vals ELSE Live
  <2>1. CASE result = "deployed"
    BY <1>1, <1>7, <1>9, <1>10, <1>17, <2>1, DeployedIsNext, Zenon
  <2>2. CASE result = "failed"
    <3>1. Deployed \in 1..n /\ hist[Deployed].status = "deployed"
      BY DeployedIs, Zenon DEF n
    <3>2. Deployed # n /\ h = hist
      BY <1>1, <1>5, <2>2, <3>1
    <3>3. Deployed \in 1..Len(hist') /\ hist'[Deployed] = hist[Deployed]
      BY <1>9, <1>10, <3>1, <3>2, Zenon
    <3>4. Live' = Live
      BY <1>17, <3>1, <3>3, DeployedIsNext, Zenon DEF Live
    <3> QED
      BY <2>2, <3>4
  <2> QED
    BY <2>1, <2>2, Zenon
<1> QED
  BY <1>10, <1>11, <1>16, <1>17, <1>18, Zenon DEF Ends, n

\* The deletion takes revision d, which is unfinished.
Deletes(d) ==
    /\ History' /\ Live' = Live
    /\ \A j \in 1..Len(hist') : \E i \in 1..Len(hist) : hist'[j] = hist[i]
    /\ \A i \in 1..Len(hist) : i # d => \E j \in 1..Len(hist') : hist'[j] = hist[i]
    /\ Latest' = Latest \/ Latest'.status # "pending-upgrade"

LEMMA DeleteDeletes ==
    ASSUME History, NEW d \in 1..Len(hist), hist[d].status \in {"pending-upgrade", "failed"},
           hist' = Deleted(d)
    PROVE  Deletes(d)
<1> DEFINE n == Len(hist)
           at(j) == IF j < d THEN j ELSE j + 1
           to(i) == IF i < d THEN i ELSE i - 1
<1>1. n \in Nat \ {0} /\ d \in 1..n
  BY DEF History, IsSeq
<1>2. hist' = [j \in 1..n - 1 |-> hist[at(j)]]
  BY Zenon DEF Deleted
<1>3. PICK k \in 1..n : \A j \in 1..n : (hist[j].status = "deployed") <=> (j = k)
  BY Zenon DEF History
<1>4. k # d
  BY <1>3
<1> HIDE DEF n
<1>5. n - 1 \in Nat \ {0}
  BY <1>1, <1>3, <1>4
<1>6. IsSeq(hist') /\ Len(hist') = n - 1
  <2>1. hist' = [j \in 1..n - 1 |-> hist'[j]]
    BY <1>2, Zenon
  <2> QED
    BY <1>5, <2>1, FunIsSeq, Zenon
<1>7. \A j \in 1..n - 1 : at(j) \in 1..n /\ hist'[j] = hist[at(j)]
  BY <1>1, <1>2
<1>8. \A i \in 1..n \ {d} : to(i) \in 1..n - 1 /\ at(to(i)) = i /\ hist'[to(i)] = hist[i]
  BY <1>1, <1>7
<1>9. \A j \in 1..n - 1 : at(j) = k => j = to(k)
  BY <1>1, <1>3
<1>a. /\ \A i, j \in 1..n - 1 : i < j => at(i) < at(j)
      /\ \A j \in 1..n - 1 : at(j) = n => j = n - 1
      /\ at(n - 1) = IF d = n THEN n - 1 ELSE n
      /\ n - 1 \in 1..n - 1 /\ n - 1 # n
  BY <1>1, <1>5
<1> HIDE DEF at, to
<1>10. History'
  <2>1. ASSUME NEW i \in 1..Len(hist') PROVE RevisionOK(i)'
    <3>1. i \in 1..n - 1 /\ at(i) \in 1..n /\ hist'[i] = hist[at(i)]
      BY <1>6, <1>7, Zenon
    <3>2. RevisionOK(at(i))
      BY <3>1, Zenon DEF History, n
    <3>3. hist'[i].status = "pending-upgrade" => at(i) = n
      BY <3>1, <3>2, Zenon DEF RevisionOK, n
    <3>4. hist'[i].status = "pending-upgrade" => i = Len(hist')
      BY <1>6, <1>a, <3>1, <3>3, Zenon
    <3> QED
      BY <3>1, <3>2, <3>4, Zenon DEF RevisionOK
  <2>2. to(k) \in 1..Len(hist')
    BY <1>3, <1>4, <1>6, <1>8, Zenon
  <2>3. ASSUME NEW j \in 1..Len(hist')
        PROVE  (hist'[j].status = "deployed") <=> (j = to(k))
    <3>1. j \in 1..n - 1 /\ at(j) \in 1..n /\ hist'[j] = hist[at(j)]
      BY <1>6, <1>7, Zenon
    <3>2. k \in 1..n \ {d}
      BY <1>3, <1>4
    <3>3. at(to(k)) = k
      BY <1>8, <3>2, Zenon
    <3>4. (at(j) = k) <=> (j = to(k))
      BY <1>9, <3>1, <3>3, Zenon
    <3> QED
      BY <1>3, <3>1, <3>4, Zenon
  <2>4. \E i \in 1..Len(hist') :
          \A j \in 1..Len(hist') : (hist'[j].status = "deployed") <=> (j = i)
    BY <2>2, <2>3, Zenon
  <2>5. Len(hist') > 0
    BY <1>1, <1>5, <1>6
  <2>6. ASSUME NEW i \in 1..Len(hist'), NEW j \in 1..Len(hist'), i < j
        PROVE  hist'[i].rev < hist'[j].rev
    <3>1. i \in 1..n - 1 /\ at(i) \in 1..n /\ hist'[i] = hist[at(i)]
      BY <1>6, <1>7, Zenon
    <3>2. j \in 1..n - 1 /\ at(j) \in 1..n /\ hist'[j] = hist[at(j)]
      BY <1>6, <1>7, Zenon
    <3>3. at(i) < at(j)
      BY <1>a, <2>6, <3>1, <3>2, Zenon
    <3>4. hist[at(i)].rev < hist[at(j)].rev
      BY <3>1, <3>2, <3>3, Zenon DEF History, n
    <3> QED
      BY <3>1, <3>2, <3>4, Zenon
  <2> QED
    BY <1>6, <2>1, <2>4, <2>5, <2>6, Zenon DEF History
<1>11. Live' = Live
  <2>1. Deployed \in 1..n /\ hist[Deployed].status = "deployed"
    BY DeployedIs, Zenon DEF n
  <2>2. Deployed # d
    BY <2>1
  <2>3. to(Deployed) \in 1..Len(hist') /\ hist'[to(Deployed)] = hist[Deployed]
    BY <1>6, <1>8, <2>1, <2>2, Zenon
  <2> QED
    BY <1>10, <2>1, <2>3, DeployedIsNext, Zenon DEF Live
<1>12. \A j \in 1..Len(hist') : \E i \in 1..Len(hist) : hist'[j] = hist[i]
  BY <1>6, <1>7, Zenon DEF n
<1>13. \A i \in 1..Len(hist) : i # d => \E j \in 1..Len(hist') : hist'[j] = hist[i]
  BY <1>6, <1>8, Zenon DEF n
<1>14. Latest' = Latest \/ Latest'.status # "pending-upgrade"
  <2>1. Latest' = hist[at(n - 1)] /\ at(n - 1) \in 1..n
    BY <1>6, <1>7, <1>a, Zenon DEF Latest
  <2>2. CASE d = n
    <3>1. at(n - 1) # n
      BY <1>a, <2>2, Zenon
    <3> QED
      BY <2>1, <3>1, Zenon DEF History, RevisionOK, n
  <2>3. CASE d # n
    BY <1>a, <2>1, <2>3, Zenon DEF Latest, n
  <2> QED
    BY <2>2, <2>3
<1> QED
  BY <1>10, <1>11, <1>12, <1>13, <1>14, Zenon DEF Deletes

\* The invariant without what concerns the upgrades under way.
Core == History /\ Upgrading /\ World /\ Acceptance

\* The checkpoint, the permit and the evidence stand.
SameRun == /\ st'.ckpt = st.ckpt /\ st'.permit = st.permit
           /\ st'.evidence = st.evidence

LEMMA ProofsStay ==
    ASSUME Forward, HasAllProofs
    PROVE  HasAllProofs'
BY Zenon DEF Forward, HasAllProofs, NoProof

\* The world while the release stands.
LEMMA WorldKept ==
    ASSUME History, World, AllMove, Forward, UNCHANGED <<hist, tmpl>>,
           permit' = permit \/ st'.ckpt \in WithPermit,
           st.ckpt \in WithPermit => st'.ckpt \in WithPermit,
           st'.ckpt \in Patched => Live.generation = NewGen,
           \/ st'.ckpt \in WithPermit => st.ckpt \in WithPermit
           \/ \A m \in Members : Exists(m)' => pods'[m].gen = NewGen
    PROVE  World'
<1>1. Live' = Live
  BY SameWrites, Zenon
<1>2. ASSUME NEW i \in 1..Len(hist')
      PROVE  /\ hist'[i].vals.generation = NewGen => HasAllProofs'
             /\ hist'[i].vals.permit.gen = NewGen => st'.ckpt \in WithPermit
  BY <1>2, ProofsStay, Zenon DEF World
<1>3. ASSUME NEW m \in Members, Exists(m)', pods'[m].gen = NewGen
      PROVE  HasAllProofs'
  <2>1. HasAllProofs
    BY <1>3, Zenon DEF AllMove, Moves, Changes, Grows, World
  <2> QED
    BY <2>1, ProofsStay, Zenon
<1>4. ASSUME NEW m \in Members, Exists(m)', st'.ckpt \in WithPermit, st.ckpt \in WithPermit
      PROVE  pods'[m].gen = NewGen
  <2>1. tmpl = NewGen
    BY <1>4, Zenon DEF World, Patched
  <2> QED
    BY <1>4, <2>1, Zenon DEF World, AllMove, Moves, Changes, Grows
<1>5. st'.ckpt \in WithPermit => \A m \in Members : Exists(m)' => pods'[m].gen = NewGen
  BY <1>4, Zenon
<1>6. /\ Live'.generation = NewGen => tmpl' = NewGen
      /\ tmpl' = NewGen => HasAllProofs'
      /\ st'.ckpt \in Patched => Live'.generation = NewGen
      /\ permit'.gen = NewGen => st'.ckpt \in WithPermit
  BY <1>1, ProofsStay, Zenon DEF World
<1> QED
  BY <1>2, <1>3, <1>5, <1>6, Zenon DEF World

\* What a command may set.
WantOK(want) ==
    /\ DOMAIN want \subseteq Names
    /\ "generation" \in DOMAIN want => want.generation = NewGen /\ HasAllProofs
    /\ "permit" \in DOMAIN want => st.ckpt \in WithPermit

\* What it renders.
Applied(want) ==
    \/ UNCHANGED clusterVars /\ Live' = Live
    \/ ApplyManifest(Override(Live, want))

LEMMA WorldWrites ==
    ASSUME History, World, NEW want, WantOK(want), Writes(want), Applied(want),
           UNCHANGED st
    PROVE  World'
<1> DEFINE v == Override(Live, want)
<1>1. DOMAIN Live = Names /\ Deployed \in 1..Len(hist)
  BY DeployedIs, Zenon
<1>2. /\ v.generation \in {Live.generation, NewGen}
      /\ v.generation # Live.generation => HasAllProofs
  BY <1>1, Zenon DEF Override, WantOK, Names
<1>3. v.permit # Live.permit => st.ckpt \in WithPermit
  BY <1>1, Zenon DEF Override, WantOK, Names
<1>4. /\ Live.generation = NewGen => HasAllProofs
      /\ Live.permit.gen = NewGen => st.ckpt \in WithPermit
  BY <1>1, Zenon DEF World, Live
<1>5. /\ v.generation = NewGen => HasAllProofs
      /\ v.permit.gen = NewGen => st.ckpt \in WithPermit
  BY <1>2, <1>3, <1>4, Zenon
<1>6. HasAllProofs' = HasAllProofs
  BY Zenon DEF HasAllProofs, NoProof
<1> HIDE DEF v
<1>7. ASSUME NEW j \in 1..Len(hist')
      PROVE  /\ hist'[j].vals.generation = NewGen => HasAllProofs'
             /\ hist'[j].vals.permit.gen = NewGen => st'.ckpt \in WithPermit
  <2>1. hist'[j].vals = v \/ \E i \in 1..Len(hist) : hist'[j].vals = hist[i].vals
    BY Zenon DEF Writes, v
  <2> QED
    BY <1>5, <1>6, <2>1, Zenon DEF World
<1>8. Live' \in {Live, v}
  BY Zenon DEF Writes, v
<1>9. UNCHANGED pods
  BY Zenon DEF Applied, ApplyManifest, clusterVars
<1>10. \/ UNCHANGED <<tmpl, permit>> /\ Live' = Live
       \/ tmpl' = v.generation /\ permit' = v.permit
  BY Zenon DEF Applied, ApplyManifest, clusterVars, v
<1>11. /\ Live'.generation = NewGen => tmpl' = NewGen
       /\ tmpl' = NewGen => HasAllProofs'
       /\ st'.ckpt \in Patched => Live'.generation = NewGen
       /\ permit'.gen = NewGen => st'.ckpt \in WithPermit
  BY <1>2, <1>5, <1>6, <1>8, <1>10, Zenon DEF World
<1>12. ASSUME NEW m \in Members
       PROVE  /\ Exists(m)' /\ pods'[m].gen = NewGen => HasAllProofs'
              /\ st'.ckpt \in WithPermit /\ Exists(m)' => pods'[m].gen = NewGen
  BY <1>6, <1>9, Zenon DEF World, Exists, NoPod
<1> QED
  BY <1>7, <1>11, <1>12, Zenon DEF World

\* The acceptance while the permit and the evidence stand.
LEMMA AcceptanceKept ==
    ASSUME Acceptance, SameRun, UNCHANGED gateway,
           pc' \in {"persist", "persisting"} => pc \in {"persist", "persisting"},
           st.ckpt = "ACCEPTED" =>
             \A f \in {"generation", "accepted", "replicas", "permit"} : Live'[f] = Live[f]
    PROVE  Acceptance'
<1>1. /\ st'.ckpt \notin WithPermit => st'.permit = NoPermit
      /\ st'.ckpt \in Accepting => st'.evidence = st'.permit.uids
      /\ gateway' # << >> => st'.ckpt \in Accepting /\ gateway' = st'.evidence
      /\ pc' \in {"persist", "persisting"} => gateway' = st'.evidence
  BY Zenon DEF Acceptance, SameRun
<1>2. AcceptedWorld'
  BY Zenon DEF Acceptance, SameRun, AcceptedWorld, Live
<1> QED
  BY <1>1, <1>2, Zenon DEF Acceptance, NoPermit

\* A controller without a call.
LEMMA NoUpgrade ==
    ASSUME DOMAIN call' = Callers, call'[Caller] = NoCall,
           pc' \notin {"patching", "persisting"}
    PROVE  Upgrading'
BY DEF Upgrading, NoCall

LEMMA SameUpgrade ==
    ASSUME Upgrading, History, UNCHANGED helmVars, st'.permit = st.permit,
           pc' = pc \/ {pc, pc'} \cap {"patching", "persisting"} = {}
    PROVE  Upgrading'
<1>1. Live' = Live
  BY SameWrites DEF helmVars
<1> QED
  BY <1>1, Zenon DEF Upgrading, helmVars, PatchWant, PersistWant, Caller

\* Steps that leave the release, the checkpoint and the Gateway alone.
LEMMA ReleaseKept ==
    ASSUME ReleaseInv, AllMove, Forward, UNCHANGED <<hist, tmpl, permit, gateway>>,
           SameRun, Upgrading',
           pc' \in {"persist", "persisting"} => pc \in {"persist", "persisting"}
    PROVE  Core'
<1>1. History' /\ Live' = Live
  BY SameWrites, Zenon DEF Writes, ReleaseInv, Core
<1>2. World'
  BY WorldKept, Zenon DEF ReleaseInv, Core, SameRun, World
<1>3. Acceptance'
  BY <1>1, AcceptanceKept, Zenon DEF ReleaseInv, Core
<1> QED
  BY <1>1, <1>2, <1>3 DEF ReleaseInv, Core

\* The invocation ends.
LEMMA StopRelease ==
    ASSUME ReleaseInv, AllMove, Forward, Stop, UNCHANGED <<tmpl, permit, gateway>>, SameRun
    PROVE  Core'
<1>1. UNCHANGED hist /\ pc' = "off" /\ DOMAIN call' = Callers /\ call'[Caller] = NoCall
  BY RestartAssumption, Zenon DEF Stop, HelmAbandon, ReleaseInv, Core, Upgrading, Caller
<1>2. Upgrading'
  BY <1>1, NoUpgrade
<1> QED
  BY <1>1, <1>2, ReleaseKept, Zenon

\* A step of the controller outside the Helm call and the acceptance.
LEMMA QuietRelease ==
    ASSUME ReleaseInv, AllMove, Forward,
           UNCHANGED <<helmVars, tmpl, permit, gateway>>, SameRun,
           pc \notin {"patching", "persisting"},
           pc' \notin {"patching", "persist", "persisting"}
    PROVE  Core'
<1>1. Upgrading'
  BY SameUpgrade, Zenon DEF ReleaseInv, Core, SameRun
<1> QED
  BY <1>1, ReleaseKept DEF helmVars

\* The durable record of an observation leaves the checkpoint alone.
LEMMA SameRecord ==
    ASSUME Durable,
           \/ UNCHANGED st
           \/ \E j : st' = [st EXCEPT !.journal = j]
           \/ \E r : st' = [st EXCEPT !.raw = r]
           \/ \E r : \E j : st' = [[st EXCEPT !.raw = r] EXCEPT !.journal = j]
           \/ \E p : st' = [st EXCEPT !.proofs = p]
           \/ \E e : st' = [st EXCEPT !.events = e]
    PROVE  SameRun
<1>1. ASSUME NEW r, NEW j, st' = [[st EXCEPT !.raw = r] EXCEPT !.journal = j]
      PROVE  SameRun
  <2> DEFINE s == [st EXCEPT !.raw = r]
  <2>1. s.ckpt = st.ckpt /\ s.permit = st.permit /\ s.evidence = st.evidence
        /\ DOMAIN s = DOMAIN st
    BY Zenon DEF Durable
  <2>2. st' = [s EXCEPT !.journal = j]
    BY <1>1, Zenon
  <2> HIDE DEF s
  <2>3. st'.ckpt = s.ckpt /\ st'.permit = s.permit /\ st'.evidence = s.evidence
    BY <2>1, <2>2, Zenon DEF Durable
  <2> QED
    BY <2>1, <2>3, Zenon DEF SameRun
<1>2. ASSUME NEW j, st' = [st EXCEPT !.journal = j] PROVE SameRun
  BY <1>2, Zenon DEF Durable, SameRun
<1>3. ASSUME NEW j, st' = [st EXCEPT !.raw = j] PROVE SameRun
  BY <1>3, Zenon DEF Durable, SameRun
<1>4. ASSUME NEW j, st' = [st EXCEPT !.proofs = j] PROVE SameRun
  BY <1>4, Zenon DEF Durable, SameRun
<1>5. ASSUME NEW j, st' = [st EXCEPT !.events = j] PROVE SameRun
  BY <1>5, Zenon DEF Durable, SameRun
<1> QED
  BY <1>1, <1>2, <1>3, <1>4, <1>5, Zenon DEF SameRun

LEMMA ConsumeRelease ==
    ASSUME PodsInv, RunInv, ReleaseInv, AllMove, Forward, NEW m, NEW stage,
           NEW req \in BOOLEAN, NEW again \in {"faultobs", "observe"},
           NEW next \in {"faultsem", "judge"}, pc \in {"faulttake", "take"},
           Consume(m, stage, req, again, next), UNCHANGED <<clusterVars, gateway>>
    PROVE  Core'
<1> DEFINE e == NextEvent(m)
           raw == [st EXCEPT !.raw = @ \cup {<<m, e.type>>}]
<1>1. \/ Stop /\ st' = st
      \/ Stop /\ st' = raw
      \/ /\ UNCHANGED helmVars /\ pc' \in {again, next}
         /\ \/ st' = st
            \/ st' = raw
            \/ \E j : st' = [raw EXCEPT !.journal = j]
  BY Zenon DEF Consume, Incomplete, RawJournaled, Step
<1>2. SameRun
  <2>1. CASE st' = st
    BY <2>1, SameRecord DEF RunInv
  <2>2. CASE st' = raw
    <3>1. \E r : st' = [st EXCEPT !.raw = r]
      BY <2>2, Zenon
    <3> QED
      BY <3>1, SameRecord, Zenon DEF RunInv
  <2>3. CASE \E j : st' = [raw EXCEPT !.journal = j]
    <3>1. \E r : \E j : st' = [[st EXCEPT !.raw = r] EXCEPT !.journal = j]
      BY <2>3, Zenon
    <3> QED
      BY <3>1, SameRecord, Zenon DEF RunInv
  <2> QED
    BY <1>1, <2>1, <2>2, <2>3, Zenon
<1>3. UNCHANGED <<tmpl, permit, gateway>>
  BY Zenon DEF clusterVars
<1>4. CASE Stop
  BY <1>2, <1>3, <1>4, StopRelease, Zenon
<1>5. CASE UNCHANGED helmVars /\ pc' \in {again, next}
  BY <1>2, <1>3, <1>5, QuietRelease, Zenon
<1> QED
  BY <1>1, <1>4, <1>5, Zenon

\* Loading the run state, the capture, the watches and the old world's end.
LEMMA ObservingRelease ==
    ASSUME PodsInv, RunInv, ReleaseInv, AllMove, Forward,
           \/ Invoke \/ CaptureMember \/ StartWatch \/ SkipFault \/ InjectFault
           \/ AwaitWatchdog \/ CheckNode \/ ObserveFault \/ JudgeFault \/ BeginStop \/ StopMember
           \/ ObserveMember \/ JudgeMember \/ CheckpointProof
    PROVE  Core'
<1>1. CASE Invoke
  <2>1. SameRun
    <3>1. st' = st \/ \E p : st' = [st EXCEPT !.proofs = p]
      BY <1>1, Zenon DEF Invoke, Resumed
    <3> QED
      BY <3>1, SameRecord, Zenon DEF RunInv
  <2>2. Resume \notin {"patching", "persist", "persisting"}
    BY Zenon DEF Resume, ResumeAt, RunInv, Durable, Ckpts
  <2>3. UNCHANGED <<helmVars, tmpl, permit, gateway>> /\ pc = "off" /\ pc' = Resume
    BY <1>1, Zenon DEF Invoke, clusterVars
  <2> QED
    BY <2>1, <2>2, <2>3, QuietRelease, Zenon
<1>2. CASE CaptureMember \/ StartWatch \/ SkipFault \/ AwaitWatchdog
  <2>1. UNCHANGED <<st, tmpl, permit, gateway>> /\ pc \in {"capture", "watch", "fault"}
    BY <1>2, Zenon DEF CaptureMember, StartWatch, SkipFault, AwaitWatchdog, clusterVars
  <2>2. \/ Stop
        \/ UNCHANGED helmVars /\ pc' \in {"capture", "watch", "stop", "faultobs"}
    BY <1>2, Zenon DEF CaptureMember, StartWatch, SkipFault, AwaitWatchdog, Step
  <2> QED
    BY <2>1, <2>2, StopRelease, QuietRelease, Zenon DEF SameRun
<1>3. CASE InjectFault
  <2>1. UNCHANGED <<st, tmpl, permit, gateway>> /\ pc = "fault"
    BY <1>3, Zenon DEF InjectFault, ContainerExits, clusterVars
  <2>2. Stop \/ (UNCHANGED helmVars /\ pc' = "faultobs")
    BY <1>3, Zenon DEF InjectFault, Step
  <2> QED
    BY <2>1, <2>2, StopRelease, QuietRelease, Zenon DEF SameRun
<1>4. CASE ObserveFault
  BY <1>4, ConsumeRelease, Zenon DEF ObserveFault
<1>5. CASE ObserveMember
  BY <1>5, ConsumeRelease, Zenon DEF ObserveMember
<1>6. CASE JudgeFault \/ JudgeMember
  <2>1. \E j : st' = [st EXCEPT !.journal = j]
    BY <1>6, Zenon DEF JudgeFault, JudgeMember, Verdict, Journal
  <2>2. SameRun
    BY <2>1, SameRecord, Zenon DEF RunInv
  <2>3. UNCHANGED <<tmpl, permit, gateway>> /\ pc \in {"faultsem", "judge"}
    BY <1>6, Zenon DEF JudgeFault, JudgeMember, clusterVars
  <2>4. Stop \/ (UNCHANGED helmVars /\ pc' \in {"stop", "checkpoint"})
    BY <1>6, Zenon DEF JudgeFault, JudgeMember, Step
  <2> QED
    BY <2>2, <2>3, <2>4, StopRelease, QuietRelease, Zenon
<1>7. CASE BeginStop
  <2>1. st' = st \/ \E e : st' = [st EXCEPT !.events = e]
    BY <1>7, Zenon DEF BeginStop, RecordEvent
  <2>2. SameRun
    BY <2>1, SameRecord, Zenon DEF RunInv
  <2>3. UNCHANGED <<tmpl, permit, gateway>> /\ pc = "stop"
    BY <1>7, Zenon DEF BeginStop, clusterVars
  <2>4. Stop \/ (UNCHANGED helmVars /\ pc' = "stopping")
    BY <1>7, Zenon DEF BeginStop, Loop
  <2> QED
    BY <2>2, <2>3, <2>4, StopRelease, QuietRelease, Zenon
<1>8. CASE StopMember
  <2>1. UNCHANGED <<st, tmpl, permit, gateway>> /\ pc = "stopping"
    BY <1>8, Zenon DEF StopMember, ScaleDown
  <2>2. UNCHANGED helmVars /\ pc' \in {"stopping", "observe"}
    BY <1>8, Zenon DEF StopMember, Loop
  <2> QED
    BY <2>1, <2>2, QuietRelease, Zenon DEF SameRun
<1>9. CASE CheckpointProof
  <2>1. \E p : st' = [st EXCEPT !.proofs = p]
    BY <1>9, Zenon DEF CheckpointProof
  <2>2. SameRun
    BY <2>1, SameRecord, Zenon DEF RunInv
  <2>3. UNCHANGED <<tmpl, permit, gateway>> /\ pc = "checkpoint"
    BY <1>9, Zenon DEF CheckpointProof, clusterVars
  <2>4. UNCHANGED helmVars /\ pc' = "observe"
    BY <1>9, Zenon DEF CheckpointProof, Loop
  <2> QED
    BY <2>2, <2>3, <2>4, QuietRelease, Zenon
<1>10. CASE CheckNode
  <2>1. UNCHANGED <<st, tmpl, permit, gateway>> /\ pc \in {"faultobs", "observe"}
    BY <1>10, Zenon DEF CheckNode, Incomplete, clusterVars
  <2>2. Stop \/ (UNCHANGED helmVars /\ pc' \in {"take", "faulttake"})
    BY <1>10, Zenon DEF CheckNode, Incomplete, Step
  <2> QED
    BY <2>1, <2>2, StopRelease, QuietRelease, Zenon DEF SameRun
<1> QED
  BY <1>1, <1>2, <1>3, <1>4, <1>5, <1>6, <1>7, <1>8, <1>9, <1>10, Zenon

\* The other ends of an invocation, and what happens to the cluster.
LEMMA EndingRelease ==
    ASSUME PodsInv, RunInv, ReleaseInv, AllMove, Forward,
           \/ InjectLost \/ StopLost \/ TimeOut \/ Crash \/ HelmRaises \/ Return
           \/ UNCHANGED vars
           \/ \E m \in Members : Kubernetes(m) \/ Misfortune(m)
    PROVE  Core'
<1>1. CASE \/ InjectLost \/ StopLost \/ TimeOut \/ Crash \/ HelmRaises \/ Return
  <2>1. UNCHANGED <<st, tmpl, permit, gateway>> /\ Stop
    BY <1>1, Zenon DEF InjectLost, StopLost, TimeOut, Crash, HelmRaises, Return, ScaleDown,
       ContainerExits, clusterVars
  <2> QED
    BY <2>1, StopRelease, Zenon DEF SameRun
<1>2. CASE UNCHANGED vars \/ \E m \in Members : Kubernetes(m) \/ Misfortune(m)
  <2>1. UNCHANGED <<st, tmpl, permit, gateway, helmVars, pc>>
    <3>1. CASE UNCHANGED vars
      BY <3>1, Zenon DEF vars, ctlVars, clusterVars
    <3>2. CASE \E m \in Members : Kubernetes(m)
      BY <3>2, Zenon DEF Kubernetes, ctlVars, DeletePod, ContainerExits,
         ContainerRestarts, RemovePod, CreatePod, NodeBack
    <3>3. CASE \E m \in Members : Misfortune(m)
      BY <3>3, Zenon DEF Misfortune, ctlVars, DeletePod, ContainerExits, NodeLost,
         ForceDelete, HistoryExpires
    <3> QED
      BY <1>2, <3>1, <3>2, <3>3, Zenon
  <2>2. Upgrading'
    BY <2>1, SameUpgrade, Zenon DEF ReleaseInv, Core
  <2> QED
    BY <2>1, <2>2, ReleaseKept, Zenon DEF SameRun, helmVars
<1> QED
  BY <1>1, <1>2, Zenon

\* A new checkpoint before the evidence, the release standing.
LEMMA EarlyCheckpoint ==
    ASSUME ReleaseInv, AllMove, Forward, UNCHANGED <<hist, tmpl, gateway>>, Upgrading',
           st.ckpt \notin Accepting, st'.ckpt \notin Accepting,
           pc' \notin {"persist", "persisting"},
           st'.ckpt \notin WithPermit => st'.permit = NoPermit,
           permit' = permit \/ st'.ckpt \in WithPermit,
           st.ckpt \in WithPermit => st'.ckpt \in WithPermit,
           st'.ckpt \in Patched => Live.generation = NewGen,
           \/ st'.ckpt \in WithPermit => st.ckpt \in WithPermit
           \/ \A m \in Members : Exists(m)' => pods'[m].gen = NewGen
    PROVE  Core'
<1>1. History'
  BY SameWrites, Zenon DEF Writes, ReleaseInv, Core
<1>2. World'
  BY WorldKept, Zenon DEF ReleaseInv, Core
<1>3. gateway' = << >>
  BY Zenon DEF ReleaseInv, Core, Acceptance
<1>4. Acceptance'
  BY <1>3, Zenon DEF Acceptance, AcceptedWorld, Accepting, NoPermit
<1> QED
  BY <1>1, <1>2, <1>4, Zenon DEF ReleaseInv, Core

\* The run state with another checkpoint.
LEMMA WithCkpt ==
    ASSUME Durable, NEW c, st' = [st EXCEPT !.ckpt = c]
    PROVE  st'.ckpt = c /\ st'.permit = st.permit /\ st'.evidence = st.evidence
BY DEF Durable

LEMMA CheckpointRelease ==
    ASSUME PodsInv, RunInv, ReleaseInv, AllMove, Forward,
           \/ WriteCaptured \/ Terminated \/ GenerationPatched \/ StartMember \/ Started
           \/ FreshPods \/ RecheckPods \/ PublishPermit \/ PublishFails
    PROVE  Core'
<1> USE DEF WithPermit, Accepting, Patched
<1>0. Durable /\ st.ckpt \in CkptsOf(pc)
  BY Zenon DEF RunInv, Shape
<1>a. /\ st.ckpt \notin WithPermit => st.permit = NoPermit
      /\ st.ckpt \in Patched => Live.generation = NewGen
  BY Zenon DEF ReleaseInv, Core, Acceptance, World
<1>b. ASSUME UNCHANGED helmVars, pc \notin {"patching", "persisting"},
             pc' \notin {"patching", "persisting"}
      PROVE  Upgrading'
  <2>1. Live' = Live /\ call'[Caller].pc = "idle"
    BY <1>b, SameWrites, Zenon DEF helmVars, ReleaseInv, Core, Upgrading
  <2> QED
    BY <1>b, <2>1, Zenon DEF ReleaseInv, Core, Upgrading, helmVars, Caller
<1>1. CASE WriteCaptured
  <2>1. /\ UNCHANGED <<helmVars, clusterVars, gateway>> /\ pc = "watch" /\ pc' = "fault"
    BY <1>1, Zenon DEF WriteCaptured, Step
  <2>2. CASE UNCHANGED st
    BY <2>1, <2>2, QuietRelease, Zenon DEF SameRun, clusterVars
  <2>3. CASE /\ st.ckpt = "CREATED"
             /\ st' = [st EXCEPT !.ckpt = "CAPTURED", !.cap = cap, !.proofs = NoProofs]
    <3>1. st'.ckpt = "CAPTURED" /\ st'.permit = st.permit
      BY <1>0, <2>3, Zenon DEF Durable
    <3>2. Upgrading'
      BY <1>b, <2>1
    <3> QED
      BY <1>a, <2>1, <2>3, <3>1, <3>2, EarlyCheckpoint, Zenon DEF helmVars, clusterVars
  <2> QED
    BY <1>1, <2>2, <2>3, Zenon DEF WriteCaptured
<1>2. CASE Terminated
  <2>1. UNCHANGED <<tmpl, permit, gateway>> /\ pc = "observe"
    BY <1>2, Zenon DEF Terminated, clusterVars
  <2>2. CASE Stop /\ UNCHANGED st
    BY <2>1, <2>2, StopRelease, Zenon DEF SameRun
  <2>3. CASE st' = [st EXCEPT !.ckpt = "TERMINATED"] /\ pc' = "patch" /\ UNCHANGED helmVars
    <3>1. st'.ckpt = "TERMINATED" /\ st'.permit = st.permit
      BY <1>0, <2>3, WithCkpt
    <3>2. st.ckpt = "CAPTURED"
      BY <1>0, <2>1 DEF CkptsOf, Observing
    <3>3. Upgrading'
      BY <1>b, <2>1, <2>3
    <3> QED
      BY <1>a, <2>1, <2>3, <3>1, <3>2, <3>3, EarlyCheckpoint DEF helmVars
  <2> QED
    BY <1>2, <2>2, <2>3, Zenon DEF Terminated
<1>3. CASE GenerationPatched
  <2>1. /\ UNCHANGED <<tmpl, permit, gateway, hist>> /\ pc = "patching" /\ pc' = "start"
        /\ call[Caller].pc = "ok" /\ call' = [call EXCEPT ![Caller] = NoCall]
        /\ st' = [st EXCEPT !.ckpt = "GENERATION_PATCHED"]
    BY <1>3, Zenon DEF GenerationPatched, clusterVars, HelmEnd, HelmAbandon
  <2>2. st'.ckpt = "GENERATION_PATCHED" /\ st'.permit = st.permit
    BY <1>0, <2>1, WithCkpt, Zenon
  <2>3. st.ckpt = "TERMINATED"
    BY <1>0, <2>1, Zenon DEF CkptsOf, Observing
  <2>4. Live.generation = NewGen
    BY <2>1 DEF ReleaseInv, Core, Upgrading, PatchWant
  <2>5. DOMAIN call' = Callers /\ call'[Caller] = NoCall
    BY <2>1, RestartAssumption, Zenon DEF ReleaseInv, Core, Upgrading, Caller
  <2>6. Upgrading'
    BY <2>1, <2>5, NoUpgrade, Zenon
  <2> QED
    BY <1>a, <2>1, <2>2, <2>3, <2>4, <2>6, EarlyCheckpoint
<1>4. CASE StartMember
  <2>1. /\ UNCHANGED <<st, helmVars, tmpl, permit, gateway>> /\ pc = "start" /\ pc' = "start"
    BY <1>4, Zenon DEF StartMember, ScaleUp, Loop
  <2> QED
    BY <2>1, QuietRelease, Zenon DEF SameRun
<1>5. CASE Started
  <2>1. /\ UNCHANGED <<helmVars, tmpl, permit, gateway>> /\ pc = "start" /\ pc' = "fresh"
        /\ st' = [st EXCEPT !.ckpt = "STARTED"]
    BY <1>5, Zenon DEF Started, Step, clusterVars
  <2>2. st'.ckpt = "STARTED" /\ st'.permit = st.permit
    BY <1>0, <2>1, WithCkpt, Zenon
  <2>3. st.ckpt = "GENERATION_PATCHED"
    BY <1>0, <2>1 DEF CkptsOf, Observing
  <2>4. Upgrading'
    BY <1>b, <2>1
  <2> QED
    BY <1>a, <2>1, <2>2, <2>3, <2>4, EarlyCheckpoint, Zenon DEF helmVars
<1>6. CASE FreshPods
  <2>1. UNCHANGED <<clusterVars, gateway>> /\ pc = "fresh"
    BY <1>6, Zenon DEF FreshPods
  <2>2. CASE Stop /\ UNCHANGED st
    BY <2>1, <2>2, StopRelease, Zenon DEF SameRun, clusterVars
  <2>3. CASE /\ ~ WrongPods /\ Listed = Members
             /\ st' = [st EXCEPT !.ckpt = "PERMIT_READY", !.permit = BuiltPermit]
             /\ Step("publish")
    <3>1. st'.ckpt = "PERMIT_READY"
      BY <1>0, <2>3, Zenon DEF Durable
    <3>2. st.ckpt = "STARTED"
      BY <1>0, <2>1 DEF CkptsOf, Observing
    <3>3. \A m \in Members : pods'[m].gen = NewGen
      BY <2>1, <2>3, Zenon DEF WrongPods, clusterVars
    <3>4. Upgrading'
      BY <1>b, <2>1, <2>3 DEF Step
    <3> QED
      BY <1>a, <2>1, <2>3, <3>1, <3>2, <3>3, <3>4, EarlyCheckpoint
         DEF Step, helmVars, clusterVars
  <2> QED
    BY <1>6, <2>2, <2>3, Zenon DEF FreshPods
<1>7. CASE RecheckPods
  <2>1. UNCHANGED <<st, tmpl, permit, gateway>> /\ pc = "recheck"
    BY <1>7, Zenon DEF RecheckPods, clusterVars
  <2>2. Stop \/ (UNCHANGED helmVars /\ pc' = "publish")
    BY <1>7, Zenon DEF RecheckPods, Step
  <2> QED
    BY <2>1, <2>2, StopRelease, QuietRelease, Zenon DEF SameRun
<1>8. CASE PublishPermit \/ PublishFails
  <2>1. UNCHANGED <<tmpl, gateway>> /\ pc = "publish"
    BY <1>8, Zenon DEF PublishPermit, PublishFails, SetPermit, clusterVars
  <2>2. st.ckpt = "PERMIT_READY"
    BY <1>0, <2>1 DEF CkptsOf, Observing
  <2>3. CASE st' = [st EXCEPT !.ckpt = "PERMIT_PUBLISHED"] /\ Step("evidence")
    <3>1. st'.ckpt = "PERMIT_PUBLISHED" /\ st'.permit = st.permit
      BY <1>0, <2>3, WithCkpt
    <3>2. Upgrading'
      BY <1>b, <2>1, <2>3 DEF Step
    <3> QED
      BY <1>a, <2>1, <2>2, <2>3, <3>1, <3>2, EarlyCheckpoint DEF Step, helmVars
  <2>4. CASE Stop /\ UNCHANGED <<st, permit>>
    BY <2>1, <2>4, StopRelease, Zenon DEF SameRun
  <2>5. CASE Stop /\ UNCHANGED st /\ permit' # st.permit
    <3>1. UNCHANGED permit
      BY <1>8, <2>1, <2>5, Zenon DEF PublishPermit, PublishFails, SetPermit, clusterVars, Stop, Step
    <3> QED
      BY <2>4, <2>5, <3>1
  <2> QED
    BY <1>8, <2>3, <2>4, <2>5, Zenon DEF PublishPermit, PublishFails
<1> QED
  BY <1>1, <1>2, <1>3, <1>4, <1>5, <1>6, <1>7, <1>8

\* The evidence, the Gateway's answer and the end of the run.
LEMMA AcceptRelease ==
    ASSUME PodsInv, RunInv, ReleaseInv, AllMove, Forward,
           AcceptanceEvidence \/ AcceptTopology \/ AcceptLost \/ Accepted
    PROVE  Core'
<1> USE DEF WithPermit, Accepting, Patched
<1>0. Durable /\ st.ckpt \in CkptsOf(pc) /\ History
  BY Zenon DEF RunInv, Shape, ReleaseInv, Core
<1>a. hist' = hist /\ UNCHANGED clusterVars => History' /\ Live' = Live
  BY <1>0, SameWrites, Zenon DEF Writes
<1>1. CASE AcceptanceEvidence
  <2>1. UNCHANGED <<clusterVars, gateway>> /\ pc = "evidence"
    BY <1>1 DEF AcceptanceEvidence
  <2>2. st.ckpt = "PERMIT_PUBLISHED"
    BY <1>0, <2>1 DEF CkptsOf, Observing
  <2>3. CASE Stop /\ UNCHANGED st
    BY <2>1, <2>3, StopRelease, Zenon DEF SameRun, clusterVars
  <2>4. CASE /\ Permitted /\ Step("accept")
             /\ st' = [st EXCEPT !.ckpt = "EVIDENCE_READY", !.evidence = ListedUids]
    <3>1. /\ st'.ckpt = "EVIDENCE_READY" /\ st'.permit = st.permit
          /\ st'.evidence = st.permit.uids
      BY <1>0, <2>4, Zenon DEF Durable, Permitted
    <3>2. Upgrading'
      BY <2>1, <2>4, <3>1, SameUpgrade, Zenon DEF ReleaseInv, Core, Step
    <3>3. hist' = hist /\ pc' = "accept"
      BY <2>4 DEF Step, helmVars
    <3>4. World'
      <4>1. Live.generation = NewGen
        BY <2>2, Zenon DEF ReleaseInv, Core, World
      <4> QED
        BY <1>0, <2>1, <2>2, <3>1, <3>3, <4>1, WorldKept DEF ReleaseInv, Core, clusterVars
    <3>5. gateway' = << >>
      BY <2>1, <2>2 DEF ReleaseInv, Core, Acceptance
    <3>6. Acceptance'
      BY <3>1, <3>3, <3>5, Zenon DEF Acceptance, AcceptedWorld
    <3> QED
      BY <1>a, <2>1, <3>2, <3>3, <3>4, <3>6 DEF ReleaseInv, Core
  <2> QED
    BY <1>1, <2>3, <2>4, Zenon DEF AcceptanceEvidence
<1>2. CASE AcceptTopology \/ AcceptLost
  <2>1. UNCHANGED <<st, clusterVars>> /\ pc = "accept" /\ gateway' \in {gateway, st.evidence}
    BY <1>2, Zenon DEF AcceptTopology, AcceptLost
  <2>2. st.ckpt = "EVIDENCE_READY"
    BY <1>0, <2>1 DEF CkptsOf, Observing
  <2>3. st.evidence = st.permit.uids
    BY <2>2 DEF ReleaseInv, Core, Acceptance
  <2>4. \/ Stop
        \/ gateway' = st.evidence /\ Step("persist")
    BY <1>2, Zenon DEF AcceptTopology, AcceptLost
  <2>5. hist' = hist /\ pc' \in {"off", "persist"}
    BY <2>4, Zenon DEF Stop, Step, HelmAbandon, helmVars
  <2>6. Upgrading'
    <3>1. CASE Stop
      <4>1. DOMAIN call' = Callers /\ call'[Caller] = NoCall /\ pc' = "off"
        BY <3>1, RestartAssumption, Zenon DEF Stop, HelmAbandon, ReleaseInv, Core, Upgrading, Caller
      <4> QED
        BY <4>1, NoUpgrade
    <3>2. CASE Step("persist")
      BY <2>1, <3>2, SameUpgrade, Zenon DEF ReleaseInv, Core, Step
    <3> QED
      BY <2>4, <3>1, <3>2
  <2>7. World'
    BY <1>0, <2>1, <2>5, WorldKept, Zenon DEF ReleaseInv, Core, clusterVars, World
  <2>8. Acceptance'
    <3>1. gateway' # << >> => gateway' = st.evidence
      BY <2>1, <2>2, Zenon DEF ReleaseInv, Core, Acceptance
    <3>2. pc' = "persist" => gateway' = st.evidence
      BY <2>4 DEF Stop
    <3>3. AcceptedWorld'
      BY <2>1, <2>2, <2>3, <3>1, Zenon DEF AcceptedWorld
    <3> QED
      BY <2>1, <2>2, <2>3, <2>5, <3>1, <3>2, <3>3, Zenon DEF Acceptance
  <2> QED
    BY <1>a, <2>1, <2>5, <2>6, <2>7, <2>8, Zenon DEF ReleaseInv, Core
<1>3. CASE Accepted
  <2>1. /\ UNCHANGED <<clusterVars, gateway, hist>> /\ pc = "persisting" /\ pc' = "done"
        /\ call[Caller].pc = "ok" /\ call' = [call EXCEPT ![Caller] = NoCall]
        /\ st' = [st EXCEPT !.ckpt = "ACCEPTED"]
    BY <1>3, Zenon DEF Accepted, HelmEnd, HelmAbandon
  <2>2. st'.ckpt = "ACCEPTED" /\ st'.permit = st.permit /\ st'.evidence = st.evidence
    BY <1>0, <2>1, WithCkpt, Zenon
  <2>3. st.ckpt = "EVIDENCE_READY"
    BY <1>0, <2>1 DEF CkptsOf, Observing
  <2>4. /\ Live.generation = NewGen /\ Live.accepted = NewGen /\ Live.replicas = 1
        /\ Live.permit = st.permit
    <3>1. call[Caller].want = PersistWant
      BY <2>1, Zenon DEF ReleaseInv, Core, Upgrading
    <3>2. \A f \in DOMAIN PersistWant : Live[f] = PersistWant[f]
      BY <2>1, <3>1, Zenon DEF ReleaseInv, Core, Upgrading
    <3> QED
      BY <3>2, Zenon DEF PersistWant
  <2>5. DOMAIN call' = Callers /\ call'[Caller] = NoCall
    BY <2>1, RestartAssumption, Zenon DEF ReleaseInv, Core, Upgrading, Caller
  <2>6. Upgrading'
    BY <2>1, <2>5, NoUpgrade
  <2>7. World'
    BY <1>0, <2>1, <2>2, <2>3, <2>4, WorldKept, Zenon DEF ReleaseInv, Core, clusterVars
  <2>8. gateway = st.evidence /\ st.evidence = st.permit.uids
    BY <2>1, <2>3, Zenon DEF ReleaseInv, Core, Acceptance
  <2>9. AcceptedWorld'
    <3>1. hist'[Deployed'].vals = Live
      BY <1>a, <2>1, Zenon DEF Live
    <3> QED
      BY <2>1, <2>2, <2>4, <2>8, <3>1, Zenon DEF AcceptedWorld
  <2>10. Acceptance'
    BY <2>1, <2>2, <2>8, <2>9, Zenon DEF Acceptance
  <2> QED
    BY <1>a, <2>1, <2>6, <2>7, <2>10, Zenon DEF ReleaseInv, Core
<1> QED
  BY <1>1, <1>2, <1>3

(***************************************************************************)
(* The Helm call                                                           *)
(***************************************************************************)
\* What the controller asks for while a call is open.
LEMMA CallWant ==
    ASSUME RunInv, ReleaseInv, call[Caller].pc # "idle"
    PROVE  /\ pc \in {"patching", "persisting"} /\ st.ckpt # "ACCEPTED"
           /\ WantOK(call[Caller].want)
           /\ DOMAIN call[Caller].want \subseteq Names \ {"other"}
<1>1. pc \in {"patching", "persisting"}
  BY Zenon DEF ReleaseInv, Core, Upgrading
<1>2. st.ckpt \in CkptsOf(pc) /\ (st.ckpt \in Patched \cup {"TERMINATED"} => HasAllProofs)
  BY Zenon DEF RunInv, Shape, Durable
<1>3. CASE pc = "patching"
  <2>1. st.ckpt = "TERMINATED"
    BY <1>2, <1>3 DEF CkptsOf, Observing
  <2>2. call[Caller].want = PatchWant
    BY <1>3, Zenon DEF ReleaseInv, Core, Upgrading
  <2> QED
    BY <1>2, <1>3, <2>1, <2>2 DEF WantOK, PatchWant, Names
<1>4. CASE pc = "persisting"
  <2>1. st.ckpt = "EVIDENCE_READY"
    BY <1>2, <1>4 DEF CkptsOf, Observing
  <2>2. call[Caller].want = PersistWant
    BY <1>4, Zenon DEF ReleaseInv, Core, Upgrading
  <2> QED
    BY <1>2, <1>4, <2>1, <2>2 DEF WantOK, PersistWant, Names, WithPermit, Accepting,
       Patched
<1> QED
  BY <1>1, <1>3, <1>4, Zenon

\* What the history answers.
LEMMA InspectIs ==
    /\ Inspect(Caller) \in {"deployed", "unchanged", "invalid", "pending-upgrade", "failed"}
    /\ Inspect(Caller) \in {"deployed", "pending-upgrade", "failed"} =>
         /\ Latest.status = Inspect(Caller) /\ Latest.vals = Expected(Caller)
         /\ Latest.rev = call[Caller].rev + 1
<1> DEFINE r == Inspect(Caller)
           exact == Latest.rev = call[Caller].rev + 1 /\ Latest.vals = Expected(Caller)
<1>1. \/ r \in {"unchanged", "invalid"}
      \/ r = "deployed" /\ Latest.status = "deployed" /\ exact
      \/ r = Latest.status /\ Latest.status \in {"pending-upgrade", "failed"} /\ exact
  BY Zenon DEF Inspect, InspectWith
<1> HIDE DEF r, exact
<1>2. /\ r \in {"deployed", "unchanged", "invalid", "pending-upgrade", "failed"}
      /\ r \in {"deployed", "pending-upgrade", "failed"} => r = Latest.status /\ exact
  BY <1>1
<1> QED
  BY <1>2 DEF r, exact

\* A history that answers the call has the values asked for deployed.
LEMMA InspectDeployed ==
    ASSUME History, DOMAIN call[Caller].vals = Names, Inspect(Caller) = "deployed"
    PROVE  \A f \in DOMAIN call[Caller].want : f \in Names => Live[f] = call[Caller].want[f]
<1>1. Latest.status = "deployed" /\ Latest.vals = Expected(Caller)
  BY InspectIs, Zenon
<1>2. Len(hist) \in 1..Len(hist)
  BY DEF History, IsSeq
<1>3. Live = Expected(Caller)
  BY <1>1, <1>2, DeployedIs, Zenon DEF Latest, Live
<1> QED
  BY <1>3, Zenon DEF Expected, Override

\* The call after a step of its own.
LEMMA CallStep ==
    ASSUME RunInv, ReleaseInv, call[Caller].pc # "idle", UNCHANGED <<pc, st>>,
           NEW p, Goto(Caller, p),
           p = "ok" => Inspect(Caller) = "deployed" /\ Live' = Live,
           call[Caller].pc \in {"run", "lost", "success", "retry", "failed",
                                "pending-upgrade"} \/ p = "raise"
    PROVE  Upgrading'
<1> DEFINE k == call[Caller]
<1>1. /\ DOMAIN call = Callers /\ Caller \in Callers
      /\ DOMAIN k = {"pc", "want", "rev", "vals"}
      /\ pc = "patching" => k.want = PatchWant
      /\ pc = "persisting" => k.want = PersistWant
  BY RestartAssumption, Zenon DEF ReleaseInv, Core, Upgrading, Caller
<1>2. call' = [call EXCEPT ![Caller] = [k EXCEPT !.pc = p]]
  BY Zenon DEF Goto
<1>3. DOMAIN call' = Callers /\ call'[Caller] = [k EXCEPT !.pc = p]
  BY <1>1, <1>2, Zenon
<1>4. /\ DOMAIN call'[Caller] = {"pc", "want", "rev", "vals"}
      /\ call'[Caller].pc = p /\ call'[Caller].want = k.want
      /\ call'[Caller].vals = k.vals
  BY <1>1, <1>3, Zenon
<1>5. p \in {"run", "lost", "success", "retry", "failed", "pending-upgrade"}
        => DOMAIN k.vals = Names
  BY Zenon DEF ReleaseInv, Core, Upgrading
<1>6. ASSUME p = "ok" PROVE \A f \in DOMAIN k.want : Live'[f] = k.want[f]
  <2>1. DOMAIN k.vals = Names
    BY <1>6, Zenon DEF ReleaseInv, Core, Upgrading
  <2>2. \A f \in DOMAIN k.want : f \in Names => Live[f] = k.want[f]
    BY <1>6, <2>1, InspectDeployed, Zenon DEF ReleaseInv, Core
  <2>3. DOMAIN k.want \subseteq Names
    BY CallWant, Zenon
  <2> QED
    BY <1>6, <2>2, <2>3, Zenon
<1>7. pc \in {"patching", "persisting"}
  BY CallWant, Zenon
<1>8. PatchWant' = PatchWant /\ PersistWant' = PersistWant /\ Caller' = Caller
  BY Zenon DEF PatchWant, PersistWant, Caller
<1> HIDE DEF k
<1> QED
  BY <1>1, <1>3, <1>4, <1>5, <1>6, <1>7, <1>8 DEF Upgrading, Caller

\* The release after a step that kept the evidence and the deployed values.
LEMMA CallRelease ==
    ASSUME RunInv, ReleaseInv, AllMove, Forward, call[Caller].pc # "idle", Upgrading',
           UNCHANGED <<clusterVars, st, ctlVars, gateway>>, UNCHANGED hist \/ \E d : Deletes(d)
    PROVE  Core'
<1>1. History' /\ Live' = Live
  BY SameWrites, Zenon DEF Writes, ReleaseInv, Core, Deletes
<1>2. World'
  <2>1. CASE UNCHANGED hist
    BY <2>1, WorldKept, Zenon DEF ReleaseInv, Core, clusterVars, World
  <2>2. CASE \E d : Deletes(d)
    <3>1. ASSUME NEW j \in 1..Len(hist')
          PROVE  /\ hist'[j].vals.generation = NewGen => HasAllProofs
                 /\ hist'[j].vals.permit.gen = NewGen => st.ckpt \in WithPermit
      BY <2>2 DEF Deletes, ReleaseInv, Core, World
    <3>2. HasAllProofs' = HasAllProofs
      BY Zenon DEF HasAllProofs, NoProof
    <3> QED
      BY <1>1, <3>1, <3>2, Zenon DEF ReleaseInv, Core, World, clusterVars, Exists, NoPod
  <2> QED
    BY <2>1, <2>2
<1>3. Acceptance'
  BY <1>1, AcceptanceKept, Zenon DEF ReleaseInv, Core, SameRun, ctlVars
<1> QED
  BY <1>1, <1>2, <1>3 DEF ReleaseInv, Core

LEMMA BeginRelease ==
    ASSUME PodsInv, RunInv, ReleaseInv, AllMove, Forward, PatchGeneration \/ PersistWorld
    PROVE  Core'
<1> DEFINE want == IF pc = "patch" THEN PatchWant ELSE PersistWant
<1>1. /\ UNCHANGED <<clusterVars, st, gateway>>
      /\ \/ pc = "patch" /\ pc' = "patching"
         \/ pc = "persist" /\ pc' = "persisting"
      /\ HelmBegin(Caller, want)
  BY Zenon DEF PatchGeneration, PersistWorld, PatchWant, PersistWant
<1>2. DOMAIN call = Callers /\ Caller \in Callers
  BY RestartAssumption, Zenon DEF ReleaseInv, Core, Upgrading, Caller
<1> HIDE DEF want
<1>3. /\ UNCHANGED hist
      /\ call' = [call EXCEPT ![Caller] = [NoCall EXCEPT !.pc = "snapshot", !.want = want]]
  BY <1>1 DEF HelmBegin
<1>4. DOMAIN call' = Callers
      /\ call'[Caller] = [NoCall EXCEPT !.pc = "snapshot", !.want = want]
  BY <1>2, <1>3
<1>5. /\ DOMAIN call'[Caller] = {"pc", "want", "rev", "vals"}
      /\ call'[Caller].pc = "snapshot" /\ call'[Caller].want = want
  BY <1>4 DEF NoCall
<1>6. PatchWant' = PatchWant /\ PersistWant' = PersistWant
  BY <1>1, Zenon DEF PatchWant, PersistWant
<1>7. (pc' = "patching" => want = PatchWant) /\ (pc' = "persisting" => want = PersistWant)
  BY <1>1 DEF want
<1>8. Upgrading'
  BY <1>1, <1>4, <1>5, <1>6, <1>7 DEF Upgrading, Caller
<1> QED
  BY <1>1, <1>3, <1>8, ReleaseKept, Zenon DEF SameRun, clusterVars

LEMMA QuietHelmRelease ==
    ASSUME PodsInv, RunInv, ReleaseInv, AllMove, Forward, HelmQuiet
    PROVE  Core'
<1>0. /\ UNCHANGED <<clusterVars, st, ctlVars, gateway, pc>>
      /\ History
  BY Zenon DEF HelmQuiet, ctlVars, ReleaseInv, Core
<1>1. CASE HelmSnapshot(Caller)
  <2>1. call[Caller].pc = "snapshot" /\ UNCHANGED hist
    BY <1>1, Zenon DEF HelmSnapshot
  <2>2. CASE Goto(Caller, "raise")
    BY <1>0, <2>1, <2>2, CallStep, CallRelease, Zenon
  <2>3. CASE call' = [call EXCEPT ![Caller].pc = "run", ![Caller].rev = Latest.rev,
                                  ![Caller].vals = Latest.vals]
    <3> DEFINE k == call[Caller]
               k2 == [[[k EXCEPT !.pc = "run"] EXCEPT !.rev = Latest.rev]
                        EXCEPT !.vals = Latest.vals]
    <3>1. /\ DOMAIN call = Callers /\ Caller \in Callers
          /\ DOMAIN k = {"pc", "want", "rev", "vals"}
          /\ pc = "patching" => k.want = PatchWant
          /\ pc = "persisting" => k.want = PersistWant
      BY RestartAssumption, Zenon DEF ReleaseInv, Core, Upgrading, Caller
    <3>2. DOMAIN call' = Callers /\ call'[Caller] = k2
      BY <2>3, <3>1, Zenon
    <3>3. /\ DOMAIN k2 = {"pc", "want", "rev", "vals"}
          /\ k2.pc = "run" /\ k2.want = k.want /\ k2.vals = Latest.vals
      BY <3>1
    <3>4. DOMAIN Latest.vals = Names
      BY <1>0, LatestIs, Zenon DEF RevisionOK
    <3>5. pc \in {"patching", "persisting"}
      BY <2>1, CallWant, Zenon
    <3>6. PatchWant' = PatchWant /\ PersistWant' = PersistWant
      BY <1>0, Zenon DEF PatchWant, PersistWant
    <3> HIDE DEF k, k2
    <3>7. Upgrading'
      BY <1>0, <3>1, <3>2, <3>3, <3>4, <3>5, <3>6 DEF Upgrading, Caller
    <3> QED
      BY <1>0, <2>1, <3>7, CallRelease, Zenon
  <2> QED
    BY <1>1, <2>2, <2>3, Zenon DEF HelmSnapshot
<1>2. CASE HelmConfirm(Caller) \/ HelmReconcile(Caller)
  <2>1. call[Caller].pc \in {"success", "lost"} /\ UNCHANGED hist
    BY <1>2 DEF HelmConfirm, HelmReconcile
  <2>2. PICK p : Goto(Caller, p) /\ (p = "ok" => Inspect(Caller) = "deployed")
    <3>1. CASE HelmConfirm(Caller)
      BY <3>1 DEF HelmConfirm
    <3>2. CASE HelmReconcile(Caller)
      <4> DEFINE p == CASE Inspect(Caller) = "deployed"  -> "ok"
                        [] Inspect(Caller) = "unchanged" -> "retry"
                        [] Inspect(Caller) = "invalid"   -> "raise"
                        [] OTHER -> Inspect(Caller)
      <4>1. Inspect(Caller) # "ok"
        BY InspectIs
      <4>2. p = "ok" => Inspect(Caller) = "deployed"
        BY <4>1
      <4> QED
        BY <3>2, <4>2 DEF HelmReconcile
    <3> QED
      BY <1>2, <3>1, <3>2
  <2>3. Live' = Live
    BY <1>0, <2>1, SameWrites
  <2>4. Upgrading'
    BY <1>0, <2>1, <2>2, <2>3, CallStep, Zenon
  <2> QED
    BY <1>0, <2>1, <2>4, CallRelease, Zenon
<1>3. CASE HelmDelete(Caller)
  <2>1. call[Caller].pc \in {"pending-upgrade", "failed"}
    BY <1>3 DEF HelmDelete
  <2>2. Goto(Caller, "retry") \/ Goto(Caller, "raise")
    BY <1>3 DEF HelmDelete
  <2>3. Upgrading'
    BY <1>0, <2>1, <2>2, CallStep
  <2>4. CASE UNCHANGED hist
    BY <1>0, <2>1, <2>3, <2>4, CallRelease
  <2>5. CASE \E i \in Recoverable(Caller) : hist' = Deleted(i)
    <3>1. PICK i \in 1..Len(hist) :
                 hist[i].status \in {"pending-upgrade", "failed"} /\ hist' = Deleted(i)
      BY <2>1, <2>5, Zenon DEF Recoverable
    <3>2. Deletes(i)
      BY <1>0, <3>1, DeleteDeletes, Zenon
    <3> QED
      BY <1>0, <2>1, <2>3, <3>2, CallRelease
  <2> QED
    BY <1>3, <2>4, <2>5, Zenon DEF HelmDelete
<1>4. CASE HelmRefused(Caller)
  <2>1. call[Caller].pc \in {"run", "retry"} /\ UNCHANGED hist
    BY <1>4 DEF HelmRefused
  <2>2. Goto(Caller, "lost") \/ Goto(Caller, "success")
    BY <1>4, Zenon DEF HelmRefused
  <2>3. Upgrading'
    BY <1>0, <2>1, <2>2, CallStep
  <2> QED
    BY <1>0, <2>1, <2>3, CallRelease, Zenon
<1> QED
  BY <1>1, <1>2, <1>3, <1>4, Zenon DEF HelmQuiet

\* A command of the controller or of another operator.
LEMMA CommandRelease ==
    ASSUME ReleaseInv, NEW want, WantOK(want), Writes(want), Applied(want), Upgrading',
           UNCHANGED <<st, pc, gateway>>,
           st.ckpt = "ACCEPTED" => DOMAIN want = {"other"}
    PROVE  Core'
<1>1. World'
  BY WorldWrites DEF ReleaseInv, Core
<1>2. DOMAIN Live = Names
  BY DeployedIs, Zenon DEF ReleaseInv, Core
<1>3. ASSUME st.ckpt = "ACCEPTED", NEW f \in {"generation", "accepted", "replicas", "permit"}
      PROVE  Live'[f] = Live[f]
  BY <1>2, <1>3, Zenon DEF Writes, Override, Names
<1>4. Acceptance'
  BY <1>3, AcceptanceKept, Zenon DEF ReleaseInv, Core, SameRun
<1> QED
  BY <1>1, <1>4, Zenon DEF ReleaseInv, Core, Writes

LEMMA HelmCommandRelease ==
    ASSUME PodsInv, RunInv, ReleaseInv, HelmCommand \/ HelmFails
    PROVE  Core'
<1>0. UNCHANGED <<st, pc, gateway>> /\ History
  BY Zenon DEF HelmCommand, HelmFails, ctlVars, ReleaseInv, Core
<1>1. PICK result \in Results :
        /\ \/ \E error \in BOOLEAN : HelmRun(Caller, result, error)
           \/ HelmRetry(Caller, result)
        /\ Applies(result)
  BY Zenon DEF HelmCommand, HelmFails, Results
<1>2. /\ call[Caller].pc \in {"run", "retry"}
      /\ Upgrade(Caller, result, call[Caller].want)
      /\ \E p \in {"lost", "success"} : Goto(Caller, p)
  BY <1>1, Zenon DEF HelmRun, HelmRetry
<1> DEFINE want == call[Caller].want
<1>3. Upgrading'
  BY <1>0, <1>2, CallStep, Zenon
<1>4. WantOK(want) /\ st.ckpt # "ACCEPTED"
  BY <1>2, CallWant, Zenon
<1>5. /\ Writes(want)
      /\ result # "deployed" => Live' = Live
      /\ result # "none" => hist'[Len(hist')].vals = Override(Live, want)
  BY <1>0, <1>2, UpgradeWrites
<1>6. Applied(want)
  BY <1>1, <1>5, Zenon DEF Applies, Applied, ApplyManifest
<1> HIDE DEF want
<1> QED
  BY <1>0, <1>3, <1>4, <1>5, <1>6, CommandRelease, Zenon

\* Another operator begins an upgrade: nothing but the history changes.
LEMMA OtherBeginsRelease ==
    ASSUME PodsInv, RunInv, ReleaseInv, OtherBegins
    PROVE  Core'
<1>0. /\ UNCHANGED <<st, pc, gateway, call, clusterVars>> /\ History /\ Upgrading
  BY Zenon DEF OtherBegins, ForeignBegin, ctlVars, ReleaseInv
<1>1. PICK want :
        /\ Upgrade("foreign", "pending-upgrade", want)
        /\ want = [other |-> 1] \/ (call[Caller].pc # "idle" /\ want = call[Caller].want)
  BY Zenon DEF OtherBegins, ForeignBegin
<1>2. WantOK(want) /\ (st.ckpt = "ACCEPTED" => DOMAIN want = {"other"})
  <2>1. CASE want = [other |-> 1]
    BY <2>1 DEF WantOK, Names
  <2>2. CASE call[Caller].pc # "idle" /\ want = call[Caller].want
    BY <2>2, CallWant, Zenon
  <2> QED
    BY <1>1, <2>1, <2>2
<1>3. Writes(want) /\ Live' = Live
  BY <1>0, <1>1, UpgradeWrites DEF Results
<1>4. PatchWant' = PatchWant /\ PersistWant' = PersistWant /\ Caller' = Caller
  BY <1>0, Zenon DEF PatchWant, PersistWant, Caller
<1>5. Upgrading'
  BY <1>0, <1>3, <1>4, Zenon DEF Upgrading, Caller
<1>6. Applied(want)
  BY <1>0, <1>3, Zenon DEF Applied
<1> QED
  BY <1>0, <1>2, <1>3, <1>5, <1>6, CommandRelease, Zenon

\* It ends: its values are deployed or not, and rendered or not.
LEMMA OtherEndsRelease ==
    ASSUME PodsInv, RunInv, ReleaseInv, OtherEnds
    PROVE  Core'
<1> DEFINE v == Latest.vals
<1>0. /\ UNCHANGED <<st, pc, gateway, call>>
      /\ History /\ Upgrading /\ World /\ Acceptance /\ Awaited
  BY Zenon DEF OtherEnds, ForeignEnd, ctlVars, ReleaseInv
<1>1. PICK result \in {"failed", "deployed"} : ForeignEnd(result) /\ Applies(result)
  BY Zenon DEF OtherEnds
<1>2. Ends(result) /\ Coming = v
  BY <1>0, <1>1, ForeignEnds, Zenon DEF ForeignEnd, Coming
<1>3. Len(hist) \in 1..Len(hist) /\ hist'[Len(hist')].vals = v
  BY <1>0, <1>2, LatestIs, Zenon DEF Ends
<1>4. /\ UNCHANGED pods
      /\ \/ UNCHANGED <<tmpl, permit>> /\ Live' = Live
         \/ tmpl' = v.generation /\ permit' = v.permit /\ Live' \in {Live, v}
  <2>1. /\ Live' \in {Live, v} /\ (result # "deployed" => Live' = Live)
    BY <1>2, Zenon DEF Ends
  <2>2. CASE UNCHANGED clusterVars /\ result # "deployed"
    BY <2>1, <2>2, Zenon DEF clusterVars
  <2>3. CASE ApplyManifest(v)
    BY <2>1, <2>3, Zenon DEF ApplyManifest
  <2> QED
    BY <1>1, <1>3, <2>2, <2>3, Zenon DEF Applies
<1>5. /\ v.generation = NewGen => HasAllProofs
      /\ v.permit.gen = NewGen => st.ckpt \in WithPermit
      /\ Live.generation = NewGen => v.generation = NewGen
  <2>1. Latest = hist[Len(hist)]
    BY DEF Latest
  <2> QED
    BY <1>0, <1>2, <1>3, <2>1, Zenon DEF World, Awaited
<1>6. HasAllProofs' = HasAllProofs
  BY <1>0, Zenon DEF HasAllProofs, NoProof
<1>7. ASSUME NEW j \in 1..Len(hist')
      PROVE  /\ hist'[j].vals.generation = NewGen => HasAllProofs'
             /\ hist'[j].vals.permit.gen = NewGen => st'.ckpt \in WithPermit
  <2>1. j \in 1..Len(hist) /\ hist'[j].vals = hist[j].vals
    BY <1>2, <1>7, Zenon DEF Ends
  <2> QED
    BY <1>0, <1>6, <2>1, Zenon DEF World
<1> HIDE DEF v
<1>8. /\ Live'.generation = NewGen => tmpl' = NewGen
      /\ tmpl' = NewGen => HasAllProofs'
      /\ st'.ckpt \in Patched => Live'.generation = NewGen
      /\ permit'.gen = NewGen => st'.ckpt \in WithPermit
  BY <1>0, <1>4, <1>5, <1>6, Zenon DEF World
<1>9. ASSUME NEW m \in Members
      PROVE  /\ Exists(m)' /\ pods'[m].gen = NewGen => HasAllProofs'
             /\ st'.ckpt \in WithPermit /\ Exists(m)' => pods'[m].gen = NewGen
  BY <1>0, <1>4, <1>6, Zenon DEF World, Exists, NoPod
<1>10. World'
  BY <1>7, <1>8, <1>9, Zenon DEF World
<1>11. Live' \in {Live, v}
  BY <1>4, Zenon
<1>12. Acceptance'
  <2>1. ASSUME st.ckpt = "ACCEPTED", NEW f \in {"generation", "accepted", "replicas", "permit"}
        PROVE  Live'[f] = Live[f]
    <3>1. f \in Names \ {"other"}
      BY DEF Names
    <3>2. v[f] = Live[f]
      BY <1>0, <1>2, <2>1, <3>1, Zenon DEF Awaited
    <3> QED
      BY <1>11, <3>2, Zenon
  <2> QED
    BY <1>0, <2>1, AcceptanceKept, Zenon DEF SameRun
<1>13. PatchWant' = PatchWant /\ PersistWant' = PersistWant /\ Caller' = Caller
  BY <1>0, Zenon DEF PatchWant, PersistWant, Caller
<1>14. ASSUME call[Caller].pc = "ok", NEW f \in DOMAIN call[Caller].want
       PROVE  Live'[f] = call[Caller].want[f]
  <2>1. Live[f] = call[Caller].want[f]
    BY <1>0, <1>14, Zenon DEF Upgrading
  <2>2. v[f] = call[Caller].want[f]
    BY <1>0, <1>2, <1>14, Zenon DEF Awaited
  <2> QED
    BY <1>11, <2>1, <2>2, Zenon
<1>15. Upgrading'
  BY <1>0, <1>13, <1>14, Zenon DEF Upgrading, Caller
<1> QED
  BY <1>2, <1>10, <1>12, <1>15, Zenon DEF Core, Ends

(***************************************************************************)
(* The upgrades under way                                                  *)
(***************************************************************************)
\* The controller's call begins, ends or stays, and the history with it.
CallStands ==
    /\ UNCHANGED hist
    /\ \/ call' = call
       \/ call'[Caller] = NoCall
       \/ \E want : HelmBegin(Caller, want)

LEMMA NextCall ==
    ASSUME ReleaseInv, [Next]_vars
    PROVE  CallStands \/ HelmQuiet \/ HelmCommand \/ HelmFails \/ OtherBegins \/ OtherEnds
<1>0. DOMAIN call = Callers /\ Caller \in Callers
  BY RestartAssumption, Zenon DEF ReleaseInv, Upgrading, Caller
<1>1. HelmAbandon(Caller) => CallStands
  BY <1>0, Zenon DEF HelmAbandon, CallStands
<1>2. Stop => CallStands
  BY <1>1, Zenon DEF Stop
<1>3. UNCHANGED helmVars => CallStands
  BY Zenon DEF helmVars, CallStands
<1>4. CASE \/ Invoke \/ CaptureMember \/ StartWatch \/ WriteCaptured \/ SkipFault
           \/ InjectFault \/ AwaitWatchdog \/ CheckNode \/ JudgeFault \/ BeginStop
           \/ StopMember \/ JudgeMember \/ CheckpointProof \/ Terminated
  BY <1>2, <1>3, <1>4, Zenon DEF Invoke, CaptureMember, StartWatch, WriteCaptured, SkipFault,
     InjectFault, AwaitWatchdog, CheckNode, JudgeFault, BeginStop, StopMember, JudgeMember,
     CheckpointProof, Terminated, Step, Loop, Incomplete
<1>5. CASE ObserveFault \/ ObserveMember
  BY <1>2, <1>3, <1>5, Zenon DEF ObserveFault, ObserveMember, Consume, Incomplete, Step
<1>6. CASE \/ StartMember \/ Started \/ FreshPods \/ RecheckPods \/ PublishPermit
           \/ AcceptanceEvidence \/ AcceptTopology \/ Return
  BY <1>2, <1>3, <1>6, Zenon DEF StartMember, Started, FreshPods, RecheckPods, PublishPermit,
     AcceptanceEvidence, AcceptTopology, Return, Step, Loop
<1>7. CASE PatchGeneration \/ PersistWorld
  BY <1>7, Zenon DEF PatchGeneration, PersistWorld, HelmBegin, CallStands
<1>8. CASE GenerationPatched \/ Accepted
  BY <1>1, <1>8, Zenon DEF GenerationPatched, Accepted, HelmEnd
<1>9. CASE \/ HelmRaises \/ InjectLost \/ StopLost \/ PublishFails \/ AcceptLost
           \/ TimeOut \/ Crash \/ UNCHANGED vars
           \/ \E m \in Members : Kubernetes(m) \/ Misfortune(m)
  BY <1>2, <1>3, <1>9, Zenon DEF HelmRaises, InjectLost, StopLost, PublishFails, AcceptLost,
     TimeOut, Crash, vars, Kubernetes, Misfortune, Step
<1> QED
  BY <1>4, <1>5, <1>6, <1>7, <1>8, <1>9 DEF Next, Controller

\* What is set once a call is done: the last checkpoint follows its end.
LEMMA NextAccepted ==
    ASSUME RunInv, ReleaseInv, [Next]_vars, st'.ckpt = "ACCEPTED", st.ckpt # "ACCEPTED"
    PROVE  Accepted
<1>0. Durable
  BY DEF RunInv
<1>1. ~ UNCHANGED st /\ ~ SameRun
  BY Zenon DEF SameRun
<1>2. ASSUME NEW c, st' = [st EXCEPT !.ckpt = c] PROVE c = "ACCEPTED"
  BY <1>0, <1>2, WithCkpt
<1>3. CASE Invoke \/ JudgeFault \/ JudgeMember \/ CheckpointProof \/ BeginStop
  <2>1. \/ st' = st
        \/ \E j : st' = [st EXCEPT !.journal = j]
        \/ \E p : st' = [st EXCEPT !.proofs = p]
        \/ \E e : st' = [st EXCEPT !.events = e]
    BY <1>3, Zenon DEF Invoke, Resumed, JudgeFault, JudgeMember, Verdict, Journal,
       CheckpointProof, BeginStop, RecordEvent
  <2> QED
    BY <1>0, <1>1, <2>1, SameRecord, Zenon
<1>4. CASE ObserveFault \/ ObserveMember
  <2>1. \/ st' = st
        \/ \E r : st' = [st EXCEPT !.raw = r]
        \/ \E r : \E j : st' = [[st EXCEPT !.raw = r] EXCEPT !.journal = j]
    BY <1>4, Zenon DEF ObserveFault, ObserveMember, Consume, Incomplete, RawJournaled
  <2> QED
    BY <1>0, <1>1, <2>1, SameRecord, Zenon
<1>5. CASE WriteCaptured
  <2>1. st' = [st EXCEPT !.ckpt = "CAPTURED", !.cap = cap, !.proofs = NoProofs]
    BY <1>1, <1>5, Zenon DEF WriteCaptured
  <2>2. st'.ckpt = "CAPTURED"
    BY <1>0, <2>1, Zenon DEF Durable
  <2> QED
    BY <2>2
<1>6. CASE \/ Terminated \/ GenerationPatched \/ Started \/ PublishPermit \/ PublishFails
  <2>1. \E c \in {"TERMINATED", "GENERATION_PATCHED", "STARTED", "PERMIT_PUBLISHED"} :
          st' = [st EXCEPT !.ckpt = c]
    BY <1>1, <1>6, Zenon DEF Terminated, GenerationPatched, Started, PublishPermit, PublishFails
  <2> QED
    BY <1>2, <2>1
<1>7. CASE FreshPods
  <2>1. st' = [st EXCEPT !.ckpt = "PERMIT_READY", !.permit = BuiltPermit]
    BY <1>1, <1>7, Zenon DEF FreshPods
  <2>2. st'.ckpt = "PERMIT_READY"
    BY <1>0, <2>1, Zenon DEF Durable
  <2> QED
    BY <2>2
<1>8. CASE AcceptanceEvidence
  <2>1. st' = [st EXCEPT !.ckpt = "EVIDENCE_READY", !.evidence = ListedUids]
    BY <1>1, <1>8, Zenon DEF AcceptanceEvidence
  <2>2. st'.ckpt = "EVIDENCE_READY"
    BY <1>0, <2>1, Zenon DEF Durable
  <2> QED
    BY <2>2
<1>9. CASE \/ CaptureMember \/ StartWatch \/ SkipFault \/ InjectFault \/ AwaitWatchdog
           \/ CheckNode \/ StopMember \/ PatchGeneration \/ StartMember \/ RecheckPods
           \/ AcceptTopology \/ PersistWorld \/ Return
  BY <1>1, <1>9, Zenon DEF CaptureMember, StartWatch, SkipFault, InjectFault, AwaitWatchdog,
     CheckNode, Incomplete, StopMember, PatchGeneration, StartMember, RecheckPods,
     AcceptTopology, PersistWorld, Return
<1>10. CASE \/ HelmQuiet \/ HelmCommand \/ HelmRaises \/ InjectLost \/ StopLost
            \/ AcceptLost \/ HelmFails \/ TimeOut \/ Crash \/ OtherBegins \/ OtherEnds
            \/ UNCHANGED vars \/ \E m \in Members : Kubernetes(m) \/ Misfortune(m)
  BY <1>1, <1>10, Zenon DEF HelmQuiet, HelmCommand, HelmRaises, InjectLost, StopLost,
     AcceptLost, HelmFails, TimeOut, Crash, OtherBegins, OtherEnds, vars, Kubernetes,
     Misfortune
<1> QED
  BY <1>3, <1>4, <1>5, <1>6, <1>7, <1>8, <1>9, <1>10 DEF Next, Controller

\* With no other upgrade under way there is nothing to wait for.
LEMMA Settled ==
    ASSUME Upgrading', Coming' = Live'
    PROVE  Awaited'
BY Zenon DEF Awaited, Upgrading, Caller

LEMMA StillComing ==
    ASSUME ReleaseInv, Live' = Live, Coming' = Coming,
           call'[Caller].pc = "ok" => call'[Caller] = call[Caller],
           st'.ckpt = "ACCEPTED" => st.ckpt = "ACCEPTED"
    PROVE  Awaited'
<1>1. Live'.generation = NewGen => Coming'.generation = NewGen
  BY Zenon DEF ReleaseInv, Awaited
<1>2. ASSUME call'[Caller].pc = "ok", NEW f \in DOMAIN call'[Caller].want
      PROVE  Coming'[f] = call'[Caller].want[f]
  BY <1>2, Zenon DEF ReleaseInv, Awaited
<1>3. st'.ckpt = "ACCEPTED" => \A f \in Names \ {"other"} : Coming'[f] = Live'[f]
  BY Zenon DEF ReleaseInv, Awaited
<1> QED
  BY <1>1, <1>2, <1>3, Zenon DEF Awaited, Caller, Names

\* The call after a step of its own.
LEMMA GotoIs ==
    ASSUME ReleaseInv, NEW p, Goto(Caller, p)
    PROVE  /\ call'[Caller].pc = p /\ call'[Caller].want = call[Caller].want
           /\ call'[Caller].rev = call[Caller].rev
           /\ call'[Caller].vals = call[Caller].vals
<1> DEFINE k == call[Caller]
<1>1. /\ DOMAIN call = Callers /\ Caller \in Callers
      /\ DOMAIN k = {"pc", "want", "rev", "vals"}
  BY RestartAssumption, Zenon DEF ReleaseInv, Upgrading, Caller
<1>2. call'[Caller] = [k EXCEPT !.pc = p]
  BY <1>1, Zenon DEF Goto
<1> HIDE DEF k
<1> QED
  BY <1>1, <1>2, Zenon DEF k

\* What the controller's own inspection and deletion do to the call.
LEMMA QuietCall ==
    ASSUME ReleaseInv, HelmQuiet
    PROVE  \/ /\ hist' = hist /\ call'[Caller].pc = "run"
              /\ call'[Caller].rev = Latest.rev
           \/ /\ hist' = hist /\ \E p : Goto(Caller, p) /\ p # "ok"
              /\ call'[Caller].pc \in {"pending-upgrade", "failed"} =>
                   Latest.rev = call[Caller].rev + 1 /\ Latest.vals = Expected(Caller)
           \/ /\ hist' = hist /\ Goto(Caller, "ok") /\ Latest.status = "deployed"
           \/ /\ Goto(Caller, "retry") /\ call[Caller].pc \in {"pending-upgrade", "failed"}
              /\ \E d \in Recoverable(Caller) : hist' = Deleted(d)
<1>0. /\ DOMAIN call = Callers /\ Caller \in Callers
      /\ DOMAIN call[Caller] = {"pc", "want", "rev", "vals"}
  BY RestartAssumption, Zenon DEF ReleaseInv, Upgrading, Caller
<1>1. ASSUME NEW p, hist' = hist, Goto(Caller, p), p \in {"raise", "retry", "lost", "success"}
      PROVE  /\ p # "ok"
             /\ call'[Caller].pc \notin {"pending-upgrade", "failed"}
  <2>1. call'[Caller].pc = p
    BY <1>1, GotoIs, Zenon
  <2> QED
    BY <1>1, <2>1
<1>2. CASE HelmSnapshot(Caller)
  <2>1. CASE call' = [call EXCEPT ![Caller].pc = "run", ![Caller].rev = Latest.rev,
                                  ![Caller].vals = Latest.vals]
    <3> DEFINE k == call[Caller]
               k2 == [[[k EXCEPT !.pc = "run"] EXCEPT !.rev = Latest.rev]
                        EXCEPT !.vals = Latest.vals]
    <3>1. call'[Caller] = k2
      BY <1>0, <2>1, Zenon
    <3>2. k2.pc = "run" /\ k2.rev = Latest.rev
      BY <1>0
    <3> HIDE DEF k2
    <3> QED
      BY <1>2, <3>1, <3>2, Zenon DEF HelmSnapshot
  <2> QED
    BY <1>1, <1>2, <2>1, Zenon DEF HelmSnapshot
<1>3. CASE HelmRefused(Caller)
  BY <1>1, <1>3, Zenon DEF HelmRefused
<1>4. CASE HelmConfirm(Caller)
  <2>1. CASE Inspect(Caller) = "deployed"
    BY <1>4, <2>1, InspectIs, Zenon DEF HelmConfirm
  <2>2. CASE Inspect(Caller) # "deployed"
    BY <1>1, <1>4, <2>2, Zenon DEF HelmConfirm
  <2> QED
    BY <2>1, <2>2
<1>5. CASE HelmReconcile(Caller)
  <2> DEFINE p == CASE Inspect(Caller) = "deployed"  -> "ok"
                    [] Inspect(Caller) = "unchanged" -> "retry"
                    [] Inspect(Caller) = "invalid"   -> "raise"
                    [] OTHER -> Inspect(Caller)
  <2>1. hist' = hist /\ Goto(Caller, p)
    BY <1>5, Zenon DEF HelmReconcile
  <2>2. CASE Inspect(Caller) = "deployed"
    <3>1. p = "ok"
      BY <2>2
    <3>2. Latest.status = "deployed"
      BY <2>2, InspectIs, Zenon
    <3> QED
      BY <2>1, <3>1, <3>2, Zenon
  <2>3. CASE Inspect(Caller) \in {"unchanged", "invalid"}
    <3>1. p \in {"retry", "raise"}
      BY <2>3
    <3> HIDE DEF p
    <3> QED
      BY <1>1, <2>1, <3>1, Zenon
  <2>4. CASE Inspect(Caller) \in {"pending-upgrade", "failed"}
    <3>1. p \in {"pending-upgrade", "failed"}
      BY <2>4
    <3>2. p # "ok"
      BY <3>1
    <3>3. Latest.rev = call[Caller].rev + 1 /\ Latest.vals = Expected(Caller)
      BY <2>4, InspectIs, Zenon
    <3> HIDE DEF p
    <3> QED
      BY <2>1, <3>2, <3>3, Zenon
  <2> QED
    BY <2>2, <2>3, <2>4, InspectIs
<1>6. CASE HelmDelete(Caller)
  BY <1>1, <1>6, Zenon DEF HelmDelete
<1> QED
  BY <1>2, <1>3, <1>4, <1>5, <1>6, Zenon DEF HelmQuiet

LEMMA CommandCall ==
    ASSUME ReleaseInv, HelmCommand \/ HelmFails
    PROVE  \E result \in Results :
             /\ Upgrade(Caller, result, call[Caller].want)
             /\ call'[Caller].pc \in {"lost", "success"}
             /\ call'[Caller].rev = call[Caller].rev
<1>1. PICK result \in Results :
        HelmRetry(Caller, result) \/ \E error \in BOOLEAN : HelmRun(Caller, result, error)
  BY Zenon DEF HelmCommand, HelmFails, Results
<1>2. /\ Upgrade(Caller, result, call[Caller].want)
      /\ \E p \in {"lost", "success"} : Goto(Caller, p)
  BY <1>1, Zenon DEF HelmRun, HelmRetry
<1> QED
  BY <1>2, GotoIs, Zenon

LEMMA BeginsCall ==
    ASSUME RunInv, ReleaseInv, OtherBegins
    PROVE  \E want :
             /\ Upgrade("foreign", "pending-upgrade", want) /\ WantOK(want)
             /\ st.ckpt = "ACCEPTED" => DOMAIN want = {"other"}
             /\ call[Caller].pc = "ok" =>
                  want = call[Caller].want
                  \/ DOMAIN want \cap DOMAIN call[Caller].want = {}
<1>1. PICK want :
        /\ Upgrade("foreign", "pending-upgrade", want)
        /\ want = [other |-> 1] \/ (call[Caller].pc # "idle" /\ want = call[Caller].want)
  BY Zenon DEF OtherBegins, ForeignBegin
<1>2. CASE want = [other |-> 1]
  <2>1. DOMAIN want = {"other"} /\ WantOK(want)
    BY <1>2 DEF WantOK, Names
  <2>2. ASSUME call[Caller].pc = "ok" PROVE DOMAIN want \cap DOMAIN call[Caller].want = {}
    <3>1. DOMAIN call[Caller].want \subseteq Names \ {"other"}
      BY <2>2, CallWant
    <3> QED
      BY <2>1, <3>1, Zenon
  <2> QED
    BY <1>1, <2>1, <2>2, Zenon
<1>3. CASE call[Caller].pc # "idle" /\ want = call[Caller].want
  BY <1>1, <1>3, CallWant, Zenon
<1> QED
  BY <1>1, <1>2, <1>3, Zenon

LEMMA NextAwaited ==
    ASSUME RunInv, ReleaseInv, Core', [Next]_vars
    PROVE  Awaited'
<1>0. History /\ Upgrading /\ Awaited /\ Upgrading'
  BY Zenon DEF ReleaseInv, Core
<1>a. hist' = hist => Live' = Live /\ Coming' = Coming /\ Latest' = Latest
  BY <1>0, SameWrites, Zenon DEF Coming, Latest
<1>1. CASE CallStands
  <2>1. Live' = Live /\ Coming' = Coming
    BY <1>1, <1>a, Zenon DEF CallStands
  <2>2. call'[Caller].pc = "ok" => call'[Caller] = call[Caller]
    <3>1. CASE call' = call \/ call'[Caller] = NoCall
      BY <3>1 DEF NoCall
    <3>2. ASSUME NEW want, HelmBegin(Caller, want) PROVE call'[Caller].pc = "snapshot"
      <4>1. DOMAIN call = Callers /\ Caller \in Callers
        BY <1>0, RestartAssumption, Zenon DEF Upgrading, Caller
      <4>2. call'[Caller] = [NoCall EXCEPT !.pc = "snapshot", !.want = want]
        BY <3>2, <4>1, Zenon DEF HelmBegin
      <4> QED
        BY <4>2 DEF NoCall
    <3> QED
      BY <1>1, <3>1, <3>2 DEF CallStands
  <2>3. CASE ~ Accepted
    <3>1. st'.ckpt = "ACCEPTED" => st.ckpt = "ACCEPTED"
      BY <2>3, NextAccepted, Zenon
    <3> QED
      BY <2>1, <2>2, <3>1, StillComing, Zenon
  <2>4. CASE Accepted
    <3>1. pc = "persisting" /\ call[Caller].pc = "ok" /\ call'[Caller] = NoCall
      BY <1>0, <2>4, RestartAssumption, Zenon DEF Accepted, HelmEnd, HelmAbandon, Upgrading,
         Caller
    <3>2. call[Caller].want = PersistWant
      BY <1>0, <3>1, Zenon DEF Upgrading
    <3>3. Names \ {"other"} = DOMAIN PersistWant
      BY DEF Names, PersistWant
    <3>4. \A f \in Names \ {"other"} : Coming[f] = Live[f]
      <4>1. \A f \in DOMAIN call[Caller].want : Live[f] = call[Caller].want[f]
        BY <1>0, <3>1, Zenon DEF Upgrading
      <4>2. \A f \in DOMAIN call[Caller].want : Coming[f] = call[Caller].want[f]
        BY <1>0, <3>1, Zenon DEF Awaited
      <4> QED
        BY <3>2, <3>3, <4>1, <4>2, Zenon
    <3>5. Live'.generation = NewGen => Coming'.generation = NewGen
      BY <1>0, <2>1, Zenon DEF Awaited
    <3>6. call'[Caller].pc # "ok"
      BY <3>1 DEF NoCall
    <3> QED
      BY <2>1, <3>4, <3>5, <3>6, Zenon DEF Awaited, Caller, Names
  <2> QED
    BY <2>3, <2>4
<1>2. CASE HelmQuiet
  <2>0. st' = st
    BY <1>2, Zenon DEF HelmQuiet
  <2>1. CASE hist' = hist /\ call'[Caller].pc # "ok"
    BY <1>a, <2>0, <2>1, StillComing, Zenon
  <2>2. CASE hist' = hist /\ Latest.status = "deployed"
    <3>1. Latest.status # "pending-upgrade"
      BY <2>2
    <3>2. Coming' = Live'
      BY <1>a, <2>2, <3>1, Zenon DEF Coming
    <3> QED
      BY <1>0, <3>2, Settled, Zenon
  <2>3. CASE Goto(Caller, "retry") /\ \E d \in Recoverable(Caller) : hist' = Deleted(d)
                /\ call[Caller].pc \in {"pending-upgrade", "failed"}
    <3>1. PICK d \in 1..Len(hist) :
            hist[d].status \in {"pending-upgrade", "failed"} /\ hist' = Deleted(d)
      BY <2>3, Zenon DEF Recoverable
    <3>2. Deletes(d)
      BY <1>0, <3>1, DeleteDeletes, Zenon
    <3>3. call'[Caller].pc # "ok"
      BY <2>3, GotoIs
    <3>4. CASE Latest' = Latest
      <4>1. Live' = Live /\ Coming' = Coming
        BY <3>2, <3>4, Zenon DEF Deletes, Coming
      <4> QED
        BY <2>0, <3>3, <4>1, StillComing, Zenon
    <3>5. CASE Latest'.status # "pending-upgrade"
      BY <1>0, <3>5, Settled, Zenon DEF Coming
    <3> QED
      BY <3>2, <3>4, <3>5, Zenon DEF Deletes
  <2>4. ASSUME NEW p, Goto(Caller, p), p # "ok" PROVE call'[Caller].pc # "ok"
    BY <2>4, GotoIs, Zenon
  <2>5. "run" # "ok"
    OBVIOUS
  <2> QED
    BY <1>2, <2>1, <2>2, <2>3, <2>4, <2>5, QuietCall, Zenon
<1>3. CASE HelmCommand \/ HelmFails
  <2>0. st' = st
    BY <1>3, Zenon DEF HelmCommand, HelmFails
  <2>1. PICK result \in Results : /\ Upgrade(Caller, result, call[Caller].want)
                                  /\ call'[Caller].pc \in {"lost", "success"}
    BY <1>3, CommandCall, Zenon
  <2>2. CASE result = "none"
    <3>1. hist' = hist
      BY <1>0, <2>1, <2>2, UpgradeWrites, Zenon
    <3>2. call'[Caller].pc # "ok"
      BY <2>1
    <3> QED
      BY <1>a, <2>0, <3>1, <3>2, StillComing, Zenon
  <2>3. CASE result # "none"
    <3>1. Latest'.by = Caller
      BY <1>0, <2>1, <2>3, UpgradeWrites, Zenon DEF Latest
    <3>2. Latest'.by # "foreign"
      BY <3>1 DEF Caller
    <3> QED
      BY <1>0, <3>2, Settled, Zenon DEF Coming
  <2> QED
    BY <2>2, <2>3
<1>4. CASE OtherBegins
  <2>0. UNCHANGED <<st, call>>
    BY <1>4, Zenon DEF OtherBegins, ForeignBegin
  <2>1. PICK want :
          /\ Upgrade("foreign", "pending-upgrade", want) /\ WantOK(want)
          /\ st.ckpt = "ACCEPTED" => DOMAIN want = {"other"}
          /\ call[Caller].pc = "ok" =>
               want = call[Caller].want
               \/ DOMAIN want \cap DOMAIN call[Caller].want = {}
    BY <1>4, BeginsCall, Zenon
  <2>2. /\ Live' = Live
        /\ hist'[Len(hist')].vals = Override(Live, want)
        /\ hist'[Len(hist')].status = "pending-upgrade"
        /\ hist'[Len(hist')].by = "foreign"
    BY <1>0, <2>1, UpgradeWrites DEF Results
  <2>3. Coming' = Override(Live, want)
    BY <2>2, Zenon DEF Coming, Latest
  <2>4. DOMAIN Live = Names
    BY <1>0, DeployedIs
  <2>5. Live'.generation = NewGen => Coming'.generation = NewGen
    BY <2>1, <2>2, <2>3, <2>4, Zenon DEF Override, WantOK, Names
  <2>6. ASSUME call[Caller].pc = "ok", NEW f \in DOMAIN call[Caller].want
        PROVE  Coming'[f] = call[Caller].want[f]
    <3>1. Live[f] = call[Caller].want[f]
      BY <1>0, <2>6, Zenon DEF Upgrading
    <3>2. DOMAIN call[Caller].want \subseteq Names \ {"other"}
      BY <2>6, CallWant
    <3>3. Coming'[f] = IF f \in DOMAIN want THEN want[f] ELSE Live[f]
      BY <2>3, <2>4, <2>6, <3>2, Zenon DEF Override
    <3> QED
      BY <2>1, <2>6, <3>1, <3>3, Zenon
  <2>7. ASSUME st.ckpt = "ACCEPTED", NEW f \in Names \ {"other"}
        PROVE  Coming'[f] = Live'[f]
    BY <2>1, <2>2, <2>3, <2>4, <2>7, Zenon DEF Override
  <2> QED
    BY <2>0, <2>5, <2>6, <2>7, Zenon DEF Awaited, Caller, Names
<1>5. CASE OtherEnds
  <2>1. PICK result \in {"failed", "deployed"} : ForeignEnd(result)
    BY <1>5, Zenon DEF OtherEnds
  <2>2. Latest'.status = result
    BY <1>0, <2>1, ForeignEnds, Zenon DEF Ends, Latest
  <2>3. Latest'.status # "pending-upgrade"
    BY <2>2
  <2> QED
    BY <1>0, <2>3, Settled, Zenon DEF Coming
<1> QED
  BY <1>1, <1>2, <1>3, <1>4, <1>5, NextCall, Zenon

LEMMA NextAsked ==
    ASSUME RunInv, ReleaseInv, [Next]_vars
    PROVE  Asked'
<1>0. /\ History /\ Upgrading /\ Asked
      /\ DOMAIN call = Callers /\ Caller \in Callers
  BY RestartAssumption, Zenon DEF ReleaseInv, Upgrading, Caller
<1>a. ASSUME call'[Caller].rev \in Nat, call'[Caller].pc \notin {"pending-upgrade", "failed"}
      PROVE  Asked'
  BY <1>a, Zenon DEF Asked, Caller
<1>b. ASSUME call' = call,
             \A i \in 1..Len(hist) :
               /\ i \in 1..Len(hist')
               /\ hist'[i].rev = hist[i].rev /\ hist'[i].vals = hist[i].vals
      PROVE  Asked'
  <2>1. Expected(Caller)' = Expected(Caller)
    BY <1>b, Zenon DEF Expected, Caller
  <2> QED
    BY <1>0, <1>b, <2>1, Zenon DEF Asked, Caller
<1>1. CASE CallStands
  <2>1. CASE call' = call
    BY <1>1, <1>b, <2>1, Zenon DEF CallStands
  <2>2. CASE call'[Caller] = NoCall
    BY <1>a, <2>2 DEF NoCall
  <2>3. ASSUME NEW want, HelmBegin(Caller, want) PROVE Asked'
    <3>1. call'[Caller] = [NoCall EXCEPT !.pc = "snapshot", !.want = want]
      BY <1>0, <2>3, Zenon DEF HelmBegin
    <3> QED
      BY <1>a, <3>1 DEF NoCall
  <2> QED
    BY <1>1, <2>1, <2>2, <2>3, Zenon DEF CallStands
<1>2. CASE HelmQuiet
  <2>1. CASE call'[Caller].pc = "run" /\ call'[Caller].rev = Latest.rev
    <3>1. Latest.rev \in Nat
      BY <1>0, LatestIs, Zenon
    <3>2. call'[Caller].pc \notin {"pending-upgrade", "failed"}
      BY <2>1
    <3> QED
      BY <1>a, <2>1, <3>1, <3>2, Zenon
  <2>2. ASSUME NEW p, Goto(Caller, p), p # "ok", hist' = hist,
               call'[Caller].pc \in {"pending-upgrade", "failed"} =>
                   Latest.rev = call[Caller].rev + 1 /\ Latest.vals = Expected(Caller)
        PROVE  Asked'
    <3>1. /\ call'[Caller].rev = call[Caller].rev /\ call'[Caller].want = call[Caller].want
          /\ call'[Caller].vals = call[Caller].vals
      BY <2>2, GotoIs, Zenon
    <3>2. Expected(Caller)' = Expected(Caller)
      BY <3>1, Zenon DEF Expected, Caller
    <3>3. Len(hist') \in 1..Len(hist') /\ Latest = hist'[Len(hist')]
      BY <1>0, <2>2, LatestIs, Zenon
    <3>4. call'[Caller].rev \in Nat
      BY <1>0, <3>1, Zenon DEF Asked
    <3> QED
      BY <2>2, <3>1, <3>2, <3>3, <3>4, Zenon DEF Asked, Caller
  <2>3. ASSUME NEW p \in {"ok", "retry"}, Goto(Caller, p) PROVE Asked'
    <3>1. call'[Caller].rev = call[Caller].rev /\ call'[Caller].pc = p
      BY <2>3, GotoIs, Zenon
    <3>2. call'[Caller].pc \notin {"pending-upgrade", "failed"}
      BY <3>1
    <3> QED
      BY <1>0, <1>a, <3>1, <3>2, Zenon DEF Asked
  <2> QED
    BY <1>2, <2>1, <2>2, <2>3, QuietCall, Zenon
<1>3. CASE HelmCommand \/ HelmFails
  <2>1. call'[Caller].pc \in {"lost", "success"} /\ call'[Caller].rev = call[Caller].rev
    BY <1>3, CommandCall, Zenon
  <2>2. call'[Caller].pc \notin {"pending-upgrade", "failed"}
    BY <2>1
  <2> QED
    BY <1>0, <1>a, <2>1, <2>2, Zenon DEF Asked
<1>4. CASE OtherBegins
  <2>1. call' = call /\ \E want : Upgrade("foreign", "pending-upgrade", want)
    BY <1>4, Zenon DEF OtherBegins, ForeignBegin
  <2>2. \E want : Writes(want)
    BY <1>0, <2>1, UpgradeWrites DEF Results
  <2> QED
    BY <1>b, <2>1, <2>2, Zenon DEF Writes
<1>5. CASE OtherEnds
  <2>1. PICK result \in {"failed", "deployed"} : ForeignEnd(result)
    BY <1>5, Zenon DEF OtherEnds
  <2>2. call' = call /\ Ends(result)
    BY <1>0, <2>1, ForeignEnds, Zenon DEF ForeignEnd
  <2> QED
    BY <1>b, <2>2, Zenon DEF Ends
<1> QED
  BY <1>1, <1>2, <1>3, <1>4, <1>5, NextCall, Zenon

LEMMA NextRelease ==
    ASSUME PodsInv, RunInv, ReleaseInv, [Next]_vars
    PROVE  ReleaseInv'
<1>1. AllMove /\ Forward
  BY NextMoves, NextForward DEF AllMove
<1>2. Core'
  BY <1>1, ObservingRelease, EndingRelease, CheckpointRelease, AcceptRelease, BeginRelease,
     QuietHelmRelease, HelmCommandRelease, OtherBeginsRelease, OtherEndsRelease
     DEF Next, Controller
<1>3. Awaited' /\ Asked'
  BY <1>2, NextAwaited, NextAsked
<1> QED
  BY <1>2, <1>3, Zenon DEF Core, ReleaseInv

LEMMA InitRelease == Init => ReleaseInv
<1> SUFFICES ASSUME Init PROVE ReleaseInv
  OBVIOUS
<1> DEFINE r == [rev |-> 1, status |-> "deployed", vals |-> OldValues, by |-> "install"]
<1>1. /\ hist = <<r>> /\ call = [c \in Callers |-> NoCall]
      /\ st = NewRunState /\ pc = "off" /\ gateway = << >>
      /\ tmpl = OldGen /\ permit = NoPermit
      /\ pods = [m \in Members |-> NewPod(1, OldGen)]
  BY Zenon DEF Init, HelmInit, ClusterInit
<1>2. /\ DOMAIN r = {"rev", "status", "vals", "by"} /\ DOMAIN r.vals = Names
      /\ r.status = "deployed" /\ r.rev = 1 /\ r.vals.generation = OldGen /\ r.vals.permit = NoPermit
  BY Zenon DEF OldValues, Names
<1> HIDE DEF r
<1>3. hist = [i \in 1..1 |-> r] /\ hist[1] = r
  BY <1>1
<1>4. IsSeq(hist) /\ Len(hist) = 1
  <2>1. hist = [i \in 1..1 |-> hist[i]]
    BY <1>3
  <2> QED
    BY <2>1, FunIsSeq, Zenon
<1>5. History
  <2>1. \A i \in 1..Len(hist) : hist[i] = r
    BY <1>3, <1>4
  <2>2. \A j \in 1..Len(hist) : (hist[j].status = "deployed") <=> (j = 1)
    BY <1>2, <1>4, <2>1
  <2>3. \E i \in 1..Len(hist) :
          \A j \in 1..Len(hist) : (hist[j].status = "deployed") <=> (j = i)
    BY <1>4, <2>2
  <2>4. Len(hist) > 0
    BY <1>4
  <2>5. ASSUME NEW i \in 1..Len(hist) PROVE RevisionOK(i)
    <3>1. i = Len(hist) /\ r.rev \in Nat
      BY <1>2, <1>4
    <3> QED
      BY <1>2, <2>1, <3>1, Zenon DEF RevisionOK
  <2>6. \A i, j \in 1..Len(hist) : i < j => hist[i].rev < hist[j].rev
    BY <1>4
  <2> QED
    BY <1>4, <2>3, <2>4, <2>5, <2>6, Zenon DEF History
<1>6. Upgrading
  <2>1. call[Caller] = NoCall
    BY <1>1, RestartAssumption DEF Caller
  <2> QED
    BY <1>1, <2>1 DEF Upgrading, NoCall
<1>7. Live = r.vals
  BY <1>3, <1>4, <1>5, DeployedIs DEF Live
<1>8. st.ckpt = "CREATED" /\ st.permit = NoPermit
  BY <1>1, Zenon DEF NewRunState
<1>9. NoPermit.gen # NewGen
  BY RestartAssumption DEF NoPermit
<1>10. World
  BY <1>1, <1>2, <1>3, <1>4, <1>7, <1>8, <1>9, RestartAssumption
     DEF World, Patched, WithPermit, Accepting, NewPod
<1>11. Acceptance
  BY <1>1, <1>8, Zenon DEF Acceptance, AcceptedWorld, WithPermit, Accepting
<1>12. Awaited
  <2>1. Latest = r /\ r.status # "pending-upgrade"
    BY <1>2, <1>3, <1>4 DEF Latest
  <2>2. Coming = Live
    BY <2>1, Zenon DEF Coming
  <2> QED
    BY <1>6, <2>2, Zenon DEF Awaited, Upgrading
<1>13. Asked
  <2>1. call[Caller] = NoCall
    BY <1>1, RestartAssumption DEF Caller
  <2> QED
    BY <2>1 DEF Asked, NoCall
<1> QED
  BY <1>5, <1>6, <1>10, <1>11, <1>12, <1>13 DEF ReleaseInv

\* The invariant holds of every run.
LEMMA Restarts == Spec => []RestartInv
<1>1. Init => RestartInv
  BY InitPods, InitRun, InitRelease DEF RestartInv
<1>2. RestartInv /\ [Next]_vars => RestartInv'
  <2> SUFFICES ASSUME RestartInv, [Next]_vars PROVE RestartInv'
    OBVIOUS
  <2>1. PodsInv'
    BY NextMoves DEF RestartInv
  <2>2. RunInv'
    BY NextRun DEF RestartInv
  <2>3. ReleaseInv'
    BY NextRelease DEF RestartInv
  <2> QED
    BY <2>1, <2>2, <2>3 DEF RestartInv
<1> QED
  BY <1>1, <1>2, PTL DEF Spec

\* No worker of the new generation is ever created beside a process of the
\* old world: a durable termination proof means that the captured Pod is gone
\* and the captured process has ended (_consume_termination_observation),
\* through every crash, resumption, restarted container, lost node and foreign
\* Helm upgrade.  Nothing else of that Pod runs on either, save where the Pod
\* was force-deleted off its lost node after the observer's node check and
\* before the event it then took (_assert_node_available).
THEOREM WorldsDoNotOverlap == Spec => []NoOverlap
<1>1. RestartInv => NoOverlap
  <2> SUFFICES ASSUME RestartInv PROVE NoOverlap
    OBVIOUS
  <2>1. ASSUME NEW m \in Members, st.proofs[m] # NoProof
        PROVE  /\ pods[m].uid # st.cap[m].uid
               /\ ~ ContainerRuns(m, st.cap[m].uid, st.cap[m].ctr)
               /\ m \notin gap => ~ Running(m, st.cap[m].uid)
    <3>1. Gone(m, st.cap[m])
      BY <2>1, Zenon DEF RestartInv, RunInv, Durable, Proved
    <3>2. /\ pods[m].uid # st.cap[m].uid /\ st.cap[m].ctr \in Nat
          /\ orphan[m].uid = st.cap[m].uid => orphan[m].ctr > st.cap[m].ctr
          /\ m \notin gap => orphan[m].uid # st.cap[m].uid
      BY <3>1, Zenon DEF Gone, Ended
    <3>3. orphan[m] # [uid |-> st.cap[m].uid, ctr |-> st.cap[m].ctr]
      <4> DEFINE r == [uid |-> st.cap[m].uid, ctr |-> st.cap[m].ctr]
      <4>1. r.uid = st.cap[m].uid /\ r.ctr = st.cap[m].ctr
        BY Zenon
      <4> HIDE DEF r
      <4>2. ASSUME orphan[m] = r PROVE FALSE
        <5>1. st.cap[m].ctr > st.cap[m].ctr
          BY <3>2, <4>1, <4>2, Zenon
        <5> QED
          BY <3>2, <5>1
      <4>3. orphan[m] # r
        BY <4>2
      <4> QED
        BY <4>3 DEF r
    <3> QED
      BY <3>2, <3>3, Zenon DEF Running, ContainerRuns
  <2>2. (\E m \in Members : Exists(m) /\ pods[m].gen = NewGen) => HasAllProofs
    BY Zenon DEF RestartInv, ReleaseInv, World
  <2> QED
    BY <2>1, <2>2, Zenon DEF NoOverlap
<1> QED
  BY <1>1, Restarts, PTL

\* While the new world's permit is in the topology ConfigMap no Pod of
\* another generation is left under any member's name
\* (_wait_worker_pod_uids before publish_startup_permit), whoever rendered
\* the release last.
THEOREM PermitsAreExclusive == Spec => []PermitExclusive
<1>1. RestartInv => PermitExclusive
  BY Zenon DEF RestartInv, ReleaseInv, World, PermitExclusive
<1> QED
  BY <1>1, Restarts, PTL

\* What the Gateway accepted is what the durable permit names, and a run
\* that ends ACCEPTED has left that permit, that generation and one replica
\* each in the deployed Helm values (accept_topology, persist_started_world
\* and the reconciliation of a lost Helm answer).
THEOREM AcceptedWorldsStand == Spec => []AcceptedWorld
<1>1. RestartInv => AcceptedWorld
  BY DEF RestartInv, ReleaseInv, Acceptance
<1> QED
  BY <1>1, Restarts, PTL

\* The permit is written once: FreshPods finds a run without one.
LEMMA PermitStands ==
    ASSUME RestartInv, [Next]_vars, st.permit # NoPermit
    PROVE  st'.permit = st.permit
<1>0. Durable /\ st.ckpt \in CkptsOf(pc) /\ st.ckpt \in WithPermit
  BY Zenon DEF RestartInv, RunInv, Shape, ReleaseInv, Acceptance
<1>1. ASSUME SameRun PROVE st'.permit = st.permit
  BY <1>1 DEF SameRun
<1>2. CASE \/ WriteCaptured \/ Terminated \/ GenerationPatched \/ Started \/ PublishPermit
           \/ PublishFails \/ Accepted
  <2>1. st.ckpt # "CREATED"
    BY <1>0 DEF WithPermit, Accepting
  <2>2. st' = st \/ \E c : st' = [st EXCEPT !.ckpt = c]
    BY <1>2, <2>1, Zenon DEF WriteCaptured, Terminated, GenerationPatched, Started,
       PublishPermit, PublishFails, Accepted
  <2> QED
    BY <1>0, <2>2, WithCkpt
<1>3. CASE FreshPods
  <2>1. st.ckpt = "STARTED"
    BY <1>0, <1>3 DEF FreshPods, CkptsOf, Observing
  <2> QED
    BY <1>0, <2>1 DEF WithPermit, Accepting
<1>4. CASE AcceptanceEvidence
  <2>1. \/ st' = st
        \/ st' = [st EXCEPT !.ckpt = "EVIDENCE_READY", !.evidence = ListedUids]
    BY <1>4 DEF AcceptanceEvidence
  <2> QED
    BY <1>0, <2>1, Zenon DEF Durable
<1>5. ASSUME NEW m, NEW stage, NEW req \in BOOLEAN, NEW again, NEW next,
             Consume(m, stage, req, again, next)
      PROVE  st'.permit = st.permit
  <2>1. \/ st' = st
        \/ \E r : st' = [st EXCEPT !.raw = r]
        \/ \E r : \E j : st' = [[st EXCEPT !.raw = r] EXCEPT !.journal = j]
    BY <1>5, Zenon DEF Consume, Incomplete, RawJournaled
  <2> QED
    BY <1>0, <1>1, <2>1, SameRecord, Zenon
<1>6. CASE ObserveFault \/ ObserveMember
  BY <1>5, <1>6, Zenon DEF ObserveFault, ObserveMember
<1>7. CASE Invoke \/ JudgeFault \/ JudgeMember \/ CheckpointProof \/ BeginStop
  <2>1. \/ st' = st
        \/ \E j : st' = [st EXCEPT !.journal = j]
        \/ \E p : st' = [st EXCEPT !.proofs = p]
        \/ \E e : st' = [st EXCEPT !.events = e]
    BY <1>7, Zenon DEF Invoke, Resumed, JudgeFault, JudgeMember, Verdict, Journal,
       CheckpointProof, BeginStop, RecordEvent
  <2> QED
    BY <1>0, <1>1, <2>1, SameRecord, Zenon
<1>8. CASE \/ CaptureMember \/ StartWatch \/ SkipFault \/ InjectFault \/ AwaitWatchdog
           \/ CheckNode \/ StopMember \/ PatchGeneration \/ StartMember \/ RecheckPods
           \/ AcceptTopology \/ PersistWorld \/ Return
  BY <1>8, Zenon DEF CaptureMember, StartWatch, SkipFault, InjectFault, AwaitWatchdog,
     CheckNode, Incomplete, StopMember, PatchGeneration, StartMember, RecheckPods,
     AcceptTopology, PersistWorld, Return
<1>9. CASE \/ HelmQuiet \/ HelmCommand \/ HelmRaises \/ InjectLost \/ StopLost
           \/ AcceptLost \/ HelmFails \/ TimeOut \/ Crash \/ OtherBegins
           \/ OtherEnds \/ UNCHANGED vars \/ \E m \in Members : Kubernetes(m) \/ Misfortune(m)
  BY <1>9, Zenon DEF HelmQuiet, HelmCommand, HelmRaises, InjectLost, StopLost,
     AcceptLost, HelmFails, TimeOut, Crash, OtherBegins, OtherEnds, vars, Kubernetes,
     Misfortune
<1> QED
  BY <1>2, <1>3, <1>4, <1>6, <1>7, <1>8, <1>9 DEF Next, Controller

\* A run only moves forward, whatever ends an invocation and wherever the
\* next one resumes: no checkpoint is taken back and no captured identity,
\* proof or permit is replaced (_load_or_create_run_state,
\* _validated_journal_proofs, _wait_worker_pod_uids).
THEOREM RunsMoveForward == Spec => RunForward
<1>1. RestartInv /\ [Next]_vars =>
        /\ Rank(st'.ckpt) >= Rank(st.ckpt)
        /\ st.ckpt # "CREATED" => st'.cap = st.cap
        /\ \A m \in Members : st.proofs[m] # NoProof => st'.proofs[m] = st.proofs[m]
        /\ st.permit # NoPermit => st'.permit = st.permit
  BY NextForward, PermitStands, Zenon DEF RestartInv, Forward
<1> QED
  BY <1>1, Restarts, PTL DEF Spec, RunForward

\* No step takes a revision out of the history but the deletion of the
\* reconciliation, and that one takes the revision its own call has asked for
\* and no other, whoever wrote it (_delete_exact_helm_revision): revisions are
\* numbered in order, so the number it deletes by is the number of the
\* revision that _inspect_helm_upgrade_result has compared.
THEOREM OnlyAskedRevisionsGo == Spec => AskedRevisionOnly
<1>1. ASSUME RestartInv, [Next]_vars
      PROVE  \A i \in 1..Len(hist) :
               (\A j \in 1..Len(hist') : hist'[j].rev # hist[i].rev) =>
                 /\ hist[i].status \in {"pending-upgrade", "failed"}
                 /\ hist[i].rev = call[Caller].rev + 1
                 /\ hist[i].vals = Expected(Caller)
  <2>0. ReleaseInv /\ History /\ Asked
    BY <1>1 DEF RestartInv, ReleaseInv
  <2> DEFINE Stay == \A i \in 1..Len(hist) : \E j \in 1..Len(hist') :
                       hist'[j].rev = hist[i].rev
  <2>1. hist' = hist => Stay
    OBVIOUS
  <2>2. (\E want : Writes(want)) => Stay
    BY Zenon DEF Writes
  <2> HIDE DEF Stay
  <2>3. CASE CallStands
    BY <2>1, <2>3, Zenon DEF CallStands, Stay
  <2>4. CASE HelmCommand \/ HelmFails
    BY <2>0, <2>2, <2>4, CommandCall, UpgradeWrites, Zenon DEF Stay
  <2>5. CASE OtherBegins
    <3>1. \E want : Upgrade("foreign", "pending-upgrade", want)
      BY <2>5, Zenon DEF OtherBegins, ForeignBegin
    <3>2. \E want : Writes(want)
      BY <2>0, <3>1, UpgradeWrites DEF Results
    <3> QED
      BY <2>2, <3>2, Zenon DEF Stay
  <2>6. CASE OtherEnds
    BY <2>0, <2>6, ForeignEnds, Zenon DEF OtherEnds, Ends
  <2>7. CASE HelmQuiet
    <3>1. CASE hist' = hist
      BY <2>1, <3>1, Zenon DEF Stay
    <3>2. CASE /\ call[Caller].pc \in {"pending-upgrade", "failed"}
               /\ \E d \in Recoverable(Caller) : hist' = Deleted(d)
      <4>1. PICK d \in 1..Len(hist) : /\ hist[d].rev = call[Caller].rev + 1
                                      /\ hist[d].status \in {"pending-upgrade", "failed"}
                                      /\ hist' = Deleted(d)
        BY <3>2, Zenon DEF Recoverable
      <4>2. \A i \in 1..Len(hist) : i # d => \E j \in 1..Len(hist') : hist'[j] = hist[i]
        BY <2>0, <4>1, DeleteDeletes, Zenon DEF Deletes
      <4>3. PICK i \in 1..Len(hist) : /\ hist[i].rev = call[Caller].rev + 1
                                      /\ hist[i].vals = Expected(Caller)
        BY <2>0, <3>2, Zenon DEF Asked
      <4>4. i = d
        <5>1. /\ i < d => hist[i].rev < hist[d].rev
              /\ d < i => hist[d].rev < hist[i].rev
          BY <2>0, Zenon DEF History
        <5>2. hist[i].rev \in Nat /\ hist[d].rev = hist[i].rev
          BY <2>0, <4>1, <4>3, LatestIs, Zenon
        <5>3. ~ (i < d) /\ ~ (d < i)
          BY <5>1, <5>2
        <5> QED
          BY <5>3
      <4> QED
        BY <4>1, <4>2, <4>3, <4>4, Zenon
    <3> QED
      BY <2>0, <2>7, <3>1, <3>2, QuietCall, Zenon
  <2> QED
    BY <1>1, <2>0, <2>3, <2>4, <2>5, <2>6, <2>7, NextCall, Zenon
<1> QED
  BY <1>1, Restarts, PTL DEF Spec, AskedRevisionOnly
=============================================================================
