-------------------------- MODULE WorldInitProofs --------------------------
(***************************************************************************)
(* Who may accept a first world, and that it stays accepted, for every     *)
(* number of operators, members and faults.                                *)
(*                                                                         *)
(* A run reads, waits and patches in steps of its own, so what it checked  *)
(* early must still hold when it patches: ClaimInv is what the run carries *)
(* from check to check, and the preconditions of the patch carry it over   *)
(* to the ConfigMap.  StandsInv adds the Helm release: as long as no run   *)
(* is bound to a deleted ConfigMap, every permit in the release's history  *)
(* is the one of the ConfigMap, values with a permit have been rendered, a *)
(* revision still pending does not drop the deployed permit, and a call of *)
(* Helm that ends well has left its permit deployed.                       *)
(***************************************************************************)
EXTENDS WorldInit, TLAPS

\* The variables of the runs are functions on the runs.
Shape ==
    /\ DOMAIN pc = Runs /\ DOMAIN snap = Runs /\ DOMAIN seen = Runs
    /\ DOMAIN local = Runs
    /\ \A r \in Runs : DOMAIN local[r] = {"phase", "cmuid", "permit"}

\* Between these points a run has a permit of its own in its run state.
Permitted == {"publish", "published", "pods", "evidence", "ready", "latest", "accept"}

\* Between these points the permit names the Pods the run has seen.
PodsChecked == {"evidence", "ready", "latest", "accept"}

Carried(r) ==
    /\ pc[r] \in Permitted => local[r].permit.run = r
    /\ pc[r] \in PodsChecked => seen[r] = local[r].permit.uids
    /\ pc[r] = "accept" => /\ snap[r].run = r /\ snap[r].phase = "INITIALIZING"
                           /\ snap[r].permit = local[r].permit

ClaimInv == Shape /\ \A r \in Runs : Carried(r)

LEMMA InitClaimInv == Init => ClaimInv
BY DEF Init, ClaimInv, Shape, Carried, NewLocal, Permitted, PodsChecked

\* A run that stops carries nothing.
LEMMA StopCarries ==
    ASSUME ClaimInv, NEW r \in Runs, Stop(r), local' = local
    PROVE  ClaimInv'
BY DEF ClaimInv, Shape, Carried, Stop, Permitted, PodsChecked

\* A step of one run changes nothing that another one carries.
LEMMA OneRun ==
    ASSUME ClaimInv, NEW r \in Runs, Shape', Carried(r)',
           \A s \in Runs \ {r} : /\ pc'[s] = pc[s] /\ snap'[s] = snap[s]
                                 /\ seen'[s] = seen[s] /\ local'[s] = local[s]
    PROVE  ClaimInv'
BY DEF ClaimInv, Carried

\* Every step of a run keeps what the runs carry.
LEMMA OperatorKeeps ==
    ASSUME ClaimInv, NEW r \in Runs, Operator(r)
    PROVE  ClaimInv'
<1> USE DEF Go, Step, ReadBack, Permitted, PodsChecked
<1>1. CASE Invoke(r)
  BY <1>1, OneRun DEF Invoke, ClaimInv, Shape, Carried
<1>2. CASE Read(r)
  <2>1. CASE Bound(r) /\ Entry(r) # "off"
    <3>1. Entry(r) \in {"claim", "persist", "start"}
      BY <2>1 DEF Entry, EntryOf
    <3>2. local'[r].permit = local[r].permit /\ Shape'
      BY <1>2, <2>1 DEF Read, ClaimInv, Shape
    <3>3. pc'[r] = Entry(r)
      BY <1>2, <2>1 DEF Read, ClaimInv, Shape
    <3> QED
      BY <1>2, <2>1, <3>1, <3>2, <3>3, OneRun DEF Read, ClaimInv, Shape, Carried
  <2>2. CASE ~(Bound(r) /\ Entry(r) # "off")
    <3>1. pc'[r] = "off" /\ Shape'
      BY <1>2, <2>2 DEF Read, Stop, ClaimInv, Shape
    <3> QED
      BY <1>2, <2>2, <3>1, OneRun DEF Read, Stop, ClaimInv, Shape, Carried
  <2> QED
    BY <2>1, <2>2
<1>3. CASE Claim(r)
  BY <1>3, OneRun DEF Claim, ClaimInv, Shape, Carried
<1>4. CASE ClaimReadBack(r)
  <2>1. CASE Stop(r) /\ UNCHANGED local
    BY <2>1, StopCarries
  <2>2. CASE ReadBack(r, "start") /\ local' = [local EXCEPT ![r].phase = "CLAIMED"]
    BY <2>2, OneRun DEF ClaimInv, Shape, Carried
  <2> QED
    BY <1>4, <2>1, <2>2 DEF ClaimReadBack
<1>5. CASE StartMember(r)
  BY <1>5, OneRun DEF StartMember, ClaimInv, Shape, Carried
<1>6. CASE InitialPods(r)
  BY <1>6, OneRun DEF InitialPods, ClaimInv, Shape, Carried
<1>7. CASE BuildPermit(r)
  BY <1>7, OneRun DEF BuildPermit, ClaimInv, Shape, Carried
<1>8. CASE AdoptPermit(r)
  <2>1. CASE Stop(r) /\ UNCHANGED local
    BY <2>1, StopCarries
  <2>2. CASE /\ SamePermit(r, snap[r].permit) /\ Step(r, "pods")
             /\ local' = [local EXCEPT ![r].phase = "PERMIT_READY",
                                       ![r].permit = snap[r].permit]
    BY <2>2, OneRun DEF SamePermit, ClaimInv, Shape, Carried
  <2> QED
    BY <1>8, <2>1, <2>2 DEF AdoptPermit
<1>9. CASE Publish(r)
  BY <1>9, OneRun DEF Publish, ClaimInv, Shape, Carried
<1>10. CASE PublishReadBack(r)
  <2>1. CASE Stop(r) /\ UNCHANGED local
    BY <2>1, StopCarries
  <2>2. CASE pc[r] = "published" /\ ReadBack(r, "pods") /\ UNCHANGED local
    BY <2>2, OneRun DEF ClaimInv, Shape, Carried
  <2> QED
    BY <1>10, <2>1, <2>2 DEF PublishReadBack
<1>11. CASE CheckPods(r)
  <2>1. CASE Stop(r) /\ UNCHANGED local
    BY <2>1, StopCarries
  <2>2. CASE /\ pc[r] \in {"pods", "ready"} /\ PodsAsPermitted(r) /\ UNCHANGED local
             /\ Step(r, IF pc[r] = "pods" THEN "evidence" ELSE "latest")
    BY <2>2, OneRun DEF PodsAsPermitted, ClaimInv, Shape, Carried
  <2> QED
    BY <1>11, <2>1, <2>2 DEF CheckPods
<1>12. CASE Evidence(r)
  <2>1. CASE Stop(r) /\ UNCHANGED local
    BY <2>1, StopCarries
  <2>2. CASE pc[r] = "evidence" /\ Step(r, "ready") /\ UNCHANGED local
    BY <2>2, OneRun DEF ClaimInv, Shape, Carried
  <2> QED
    BY <1>12, <2>1, <2>2 DEF Evidence
<1>13. CASE ReadLatest(r)
  <2>1. CASE Stop(r) /\ UNCHANGED local
    BY <2>1, StopCarries
  <2>2. CASE pc[r] = "latest" /\ SameClaim(r) /\ ReadBack(r, "accept") /\ UNCHANGED local
    BY <2>2, OneRun DEF SameClaim, Owns, ClaimInv, Shape, Carried
  <2> QED
    BY <1>13, <2>1, <2>2 DEF ReadLatest
<1>14. CASE Accept(r)
  BY <1>14, OneRun DEF Accept, ClaimInv, Shape, Carried
<1>15. CASE AcceptReadBack(r)
  <2>1. CASE Stop(r) /\ UNCHANGED local
    BY <2>1, StopCarries
  <2>2. CASE ReadBack(r, "persist") /\ UNCHANGED local
    BY <2>2, OneRun DEF ClaimInv, Shape, Carried
  <2> QED
    BY <1>15, <2>1, <2>2 DEF AcceptReadBack
<1>16. CASE Persist(r)
  BY <1>16, OneRun DEF Persist, ClaimInv, Shape, Carried
<1>17. CASE Finish(r)
  <2>1. pc'[r] = "off" /\ Shape'
    BY <1>17 DEF Finish, Stop, ClaimInv, Shape
  <2> QED
    BY <1>17, <2>1, OneRun DEF Finish, Stop, ClaimInv, Shape, Carried
<1>18. CASE HelmQuiet(r) \/ HelmCommand(r)
  BY <1>18 DEF HelmQuiet, HelmCommand, runVars, ClaimInv, Shape, Carried
<1>19. CASE HelmRaises(r)
  BY <1>19, StopCarries DEF HelmRaises
<1> QED
  BY <1>1, <1>2, <1>3, <1>4, <1>5, <1>6, <1>7, <1>8, <1>9, <1>10, <1>11, <1>12, <1>13,
     <1>14, <1>15, <1>16, <1>17, <1>18, <1>19 DEF Operator

\* And so does every step of the environment.
LEMMA NextKeeps == ClaimInv /\ [Next]_vars => ClaimInv'
<1> SUFFICES ASSUME ClaimInv, [Next]_vars PROVE ClaimInv'
  OBVIOUS
<1>1. CASE \E r \in Runs : Operator(r)
  BY <1>1, OperatorKeeps
<1>2. CASE \E r \in Runs : HelmFails(r)
  BY <1>2 DEF HelmFails, runVars, ClaimInv, Shape, Carried
<1>3. CASE \E r \in Runs : TimeOut(r) \/ Crash(r)
  BY <1>3, StopCarries DEF TimeOut, Crash
<1>4. ASSUME NEW r \in Runs, PatchLost(r) PROVE ClaimInv'
  BY <1>4, OneRun DEF PatchLost, Step, Go, ClaimInv, Shape, Carried, Permitted, PodsChecked
<1>5. CASE \E m \in Members : Kubernetes(m) \/ PodReplaced(m)
  <2>1. UNCHANGED <<local, runVars>>
    BY <1>5 DEF Kubernetes, PodReplaced
  <2> QED
    BY <2>1 DEF runVars, ClaimInv, Shape, Carried
<1>6. CASE OtherBegins \/ OtherEnds \/ Recreated
  BY <1>6 DEF OtherBegins, OtherEnds, Recreated, runVars, ClaimInv, Shape, Carried
<1>7. CASE UNCHANGED vars
  BY <1>7 DEF vars, runVars, ClaimInv, Shape, Carried
<1> QED
  BY <1>1, <1>2, <1>3, <1>4, <1>5, <1>6, <1>7 DEF Next

\* The action behind AcceptBindsClaim.
BindsClaim ==
    \A r \in Runs :
        (pc[r] = "accept" /\ pc'[r] = "accepted" /\ cm' # cm) =>
          /\ cm.run = r /\ cm.phase = "INITIALIZING"
          /\ cm.permit = local[r].permit /\ cm.permit.run = r
          /\ cm.permit.uids = seen[r]

\* Only a run's own patch takes it from accept to accepted and moves the
\* ConfigMap, and it is applied to what the run has read.
LEMMA PatchBinds == ClaimInv /\ [Next]_vars => BindsClaim
<1> SUFFICES ASSUME ClaimInv, [Next]_vars, NEW r \in Runs,
                    pc[r] = "accept", pc'[r] = "accepted", cm' # cm
             PROVE  /\ cm.run = r /\ cm.phase = "INITIALIZING"
                    /\ cm.permit = local[r].permit /\ cm.permit.run = r
                    /\ cm.permit.uids = seen[r]
  BY DEF BindsClaim
<1>1. Accept(r)
  <2>1. ASSUME NEW s \in Runs, Stop(s) PROVE pc'[r] # "accepted"
    BY <2>1 DEF Stop, ClaimInv, Shape
  <2>2. ASSUME NEW s \in Runs, NEW next, Go(s, next), next # "accepted"
        PROVE  pc'[r] # "accepted"
    BY <2>2 DEF Go, ClaimInv, Shape
  <2>3. PICK s \in Runs : Operator(s) \/ PatchLost(s)
    BY <2>1 DEF Next, vars, runVars, HelmFails, TimeOut, Crash, Kubernetes, PodReplaced,
                OtherBegins, OtherEnds, Recreated
  <2>4. CASE Claim(s) \/ Publish(s) \/ Invoke(s) \/ ClaimReadBack(s) \/ PublishReadBack(s)
    BY <2>1, <2>2, <2>4 DEF Claim, Publish, Invoke, ClaimReadBack, PublishReadBack, Step,
                            ReadBack
  <2>5. CASE CheckPods(s) \/ Evidence(s) \/ ReadLatest(s) \/ AcceptReadBack(s)
    BY <2>1, <2>2, <2>5 DEF CheckPods, Evidence, ReadLatest, AcceptReadBack, Step, ReadBack
  <2>6. CASE BuildPermit(s) \/ AdoptPermit(s)
    BY <2>1, <2>2, <2>6 DEF BuildPermit, AdoptPermit, Step
  <2>7. CASE Read(s) \/ StartMember(s) \/ InitialPods(s) \/ Persist(s) \/ Finish(s)
    BY <2>7 DEF Read, StartMember, InitialPods, Persist, Finish, worldVars
  <2>8. CASE HelmQuiet(s) \/ HelmCommand(s) \/ HelmRaises(s)
    BY <2>1, <2>8 DEF HelmQuiet, HelmCommand, HelmRaises, runVars
  <2>9. CASE Accept(s)
    <3>1. s = r
      BY <2>9 DEF Accept, Step, Go, ClaimInv, Shape
    <3> QED
      BY <2>9, <3>1
  <2>10. ~PatchLost(s)
    BY DEF PatchLost, worldVars
  <2> QED
    BY <2>3, <2>4, <2>5, <2>6, <2>7, <2>8, <2>9, <2>10 DEF Operator
<1> QED
  BY <1>1 DEF Accept, Unmoved, ClaimInv, Carried, Permitted, PodsChecked

\* The patch that accepts an initialization is applied only for the run that
\* holds the claim, under the permit in that run's own state, which names the Pods
\* the run has seen: for any number of operators, crashes and lost patches.
THEOREM OnlyTheClaimantAccepts == Spec => AcceptBindsClaim
<1>1. ClaimInv /\ [Next]_vars => [BindsClaim]_vars
  BY PatchBinds
<1> QED
  BY <1>1, InitClaimInv, NextKeeps, PTL DEF Spec, AcceptBindsClaim, BindsClaim

(***************************************************************************)
(* An accepted world stands                                                *)
(***************************************************************************)
\* A sequence, whatever its elements are.
IsSeq(s) == Len(s) \in Nat /\ s = [i \in 1..Len(s) |-> s[i]]

Names == {"phase", "run", "permit", "replicas", "other"}

\* The values that the next helm upgrade starts from.
Live == hist[Deployed].vals

History ==
    /\ IsSeq(hist) /\ Len(hist) > 0
    /\ \A i \in 1..Len(hist) :
         /\ DOMAIN hist[i] = {"rev", "status", "vals", "by"}
         /\ DOMAIN hist[i].vals = Names
    /\ \E i \in 1..Len(hist) :
         \A j \in 1..Len(hist) : (hist[j].status = "deployed") <=> (j = i)
    /\ \A i \in 1..Len(hist) : hist[i].status = "pending-upgrade" => i = Len(hist)

\* A uid and a resourceVersion name one content of the ConfigMap.
Versions ==
    /\ DOMAIN cm = {"uid", "rv", "phase", "run", "permit"}
    /\ cm.uid \in Nat \ {0} /\ cm.rv \in Nat
    /\ \A r \in Runs :
         /\ snap[r].uid \in 0..cm.uid /\ snap[r].rv \in Nat
         /\ snap[r].uid = cm.uid =>
              snap[r].rv <= cm.rv /\ (snap[r].rv = cm.rv => snap[r] = cm)

\* What a run carries from one step to the next.
Kept(r) ==
    /\ DOMAIN local[r] = {"phase", "cmuid", "permit"}
    /\ DOMAIN call[r] = {"pc", "want", "rev", "vals"}
    /\ local[r].cmuid \in 0..cm.uid
    /\ local[r].cmuid = 0 => pc[r] \in {"off", "read"} /\ local[r].phase = "CREATED"
    /\ pc[r] = "claim" => snap[r].phase = "UNINITIALIZED"
    /\ pc[r] = "publish" => snap[r].permit = NoPermit
    /\ pc[r] = "accepted" => snap[r].permit.run = r
    /\ pc[r] # "persisting" => call[r].pc = "idle"

RunsInv ==
    /\ DOMAIN pc = Runs /\ DOMAIN snap = Runs /\ DOMAIN local = Runs
    /\ DOMAIN call = Callers
    /\ \A r \in Runs : Kept(r)

\* Every permit of the release is that of the ConfigMap, whose run is bound to it.
OnePermit ==
    /\ \A i \in 1..Len(hist) : LET v == hist[i].vals IN
         v.permit # NoPermit =>
            v.permit = cm.permit /\ v.phase = "ACCEPTED" /\ v.run = cm.permit.run
    /\ cm.permit # NoPermit =>
         cm.permit.run \in Runs /\ local[cm.permit.run].cmuid # 0

\* The values with a permit have been rendered.
Rendered == Live.permit # NoPermit => cm.phase = "ACCEPTED" /\ cm.run = cm.permit.run

\* A command under way will not take the permit out of the release.
Pending ==
    \A i \in 1..Len(hist) :
        hist[i].status = "pending-upgrade" /\ Live.permit # NoPermit =>
            hist[i].vals.permit = Live.permit

\* What a run writes to the release, and that what it has written stays.
Stands(r) ==
    /\ pc[r] \in {"persist", "persisting"} =>
         snap[r].permit = cm.permit /\ cm.permit.run = r
    /\ call[r].pc # "idle" =>
         call[r].want = [phase |-> "ACCEPTED", run |-> r, replicas |-> 1,
                         permit |-> cm.permit]
    /\ call[r].pc = "ok" => Live.permit = cm.permit
    /\ local[r].phase = "ACCEPTED" =>
         local[r].permit = cm.permit /\ cm.permit.run = r /\ Live.permit = cm.permit

Standing == OnePermit /\ Rendered /\ Pending /\ \A r \in Runs : Stands(r)

StandsInv == History /\ Versions /\ RunsInv /\ (NoStaleRun => Standing)

(***************************************************************************)
(* Sequences                                                               *)
(***************************************************************************)
\* A sequence takes any new element at its end.
LEMMA AppendIsSeq ==
    ASSUME NEW s, NEW e, IsSeq(s)
    PROVE  /\ IsSeq(Append(s, e)) /\ Len(Append(s, e)) = Len(s) + 1
           /\ \A i \in 1..Len(s) : Append(s, e)[i] = s[i]
           /\ Append(s, e)[Len(s) + 1] = e
<1> DEFINE S == {s[i] : i \in 1..Len(s)} \cup {e}
<1>1. s \in Seq(S)
  <2>1. s \in [1..Len(s) -> S]
    BY Zenon DEF IsSeq
  <2> QED
    BY <2>1 DEF IsSeq
<1>2. e \in S
  OBVIOUS
<1> HIDE DEF S
<1>3. Append(s, e) \in Seq(S)
  BY <1>1, <1>2
<1>4. Len(Append(s, e)) = Len(s) + 1
  BY <1>1, <1>2
<1>5. \A i \in 1..Len(s) : Append(s, e)[i] = s[i]
  BY <1>1, <1>2
<1>6. Append(s, e)[Len(s) + 1] = e
  BY <1>1, <1>2
<1>7. \A t \in Seq(S) : IsSeq(t)
  BY DEF IsSeq
<1>8. IsSeq(Append(s, e))
  BY <1>3, <1>7, Zenon
<1> QED
  BY <1>4, <1>5, <1>6, <1>8, Zenon

\* A function on 1..n is a sequence of length n.
LEMMA FunIsSeq ==
    ASSUME NEW n \in Nat, NEW f, f = [i \in 1..n |-> f[i]]
    PROVE  IsSeq(f) /\ Len(f) = n
<1>1. f \in [1..n -> {f[i] : i \in 1..n}]
  OBVIOUS
<1>2. f \in Seq({f[i] : i \in 1..n})
  BY <1>1
<1>3. DOMAIN f = 1..Len(f) /\ Len(f) \in Nat /\ DOMAIN f = 1..n
  BY <1>1, <1>2
<1>4. Len(f) = n
  BY <1>3
<1> QED
  BY <1>4 DEF IsSeq

(***************************************************************************)
(* The release                                                             *)
(***************************************************************************)
\* The deployed revision is there and is one.
LEMMA DeployedIs ==
    ASSUME History
    PROVE  /\ Deployed \in 1..Len(hist) /\ hist[Deployed].status = "deployed"
           /\ \A i \in 1..Len(hist) : hist[i].status = "deployed" => i = Deployed
           /\ DOMAIN Live = Names
<1>1. PICK k \in 1..Len(hist) :
             \A j \in 1..Len(hist) : (hist[j].status = "deployed") <=> (j = k)
  BY Zenon DEF History
<1>2. Len(hist) \in Nat
  BY Zenon DEF History, IsSeq
<1>3. \E i \in 1..Len(hist) :
        /\ hist[i].status = "deployed"
        /\ \A j \in (i+1)..Len(hist) : hist[j].status # "deployed"
  BY <1>1, <1>2
<1>4. Deployed \in 1..Len(hist) /\ hist[Deployed].status = "deployed"
  BY <1>3, Zenon DEF Deployed
<1> QED
  BY <1>1, <1>4, Zenon DEF History, Live

\* The same of the next state.
LEMMA DeployedIsNext ==
    ASSUME History', NEW i \in 1..Len(hist'), hist'[i].status = "deployed"
    PROVE  Live' = hist'[i].vals
<1>1. PICK k \in 1..Len(hist') :
             \A j \in 1..Len(hist') : (hist'[j].status = "deployed") <=> (j = k)
  BY Zenon DEF History
<1>2. Len(hist') \in Nat
  BY Zenon DEF History, IsSeq
<1>3. \E l \in 1..Len(hist') :
        /\ hist'[l].status = "deployed"
        /\ \A j \in (l+1)..Len(hist') : hist'[j].status # "deployed"
  BY <1>1, <1>2
<1>4. Deployed' \in 1..Len(hist') /\ hist'[Deployed'].status = "deployed"
  BY <1>3, Zenon DEF Deployed
<1> QED
  BY <1>1, <1>4, Zenon DEF Live

\* The release after a command that was to write the values `v`: what is not
\* new was there, and a revision is pending only over the values it started from.
Writes(v) ==
    /\ History'
    /\ Live' \in {Live, v}
    /\ \A j \in 1..Len(hist') :
         \/ hist'[j].vals = v
         \/ \E i \in 1..Len(hist) : hist'[j].vals = hist[i].vals
    /\ \A j \in 1..Len(hist') : hist'[j].status = "pending-upgrade" =>
         /\ Live' = Live
         /\ \/ hist'[j].vals = v
            \/ \E i \in 1..Len(hist) :
                 hist[i].status = "pending-upgrade" /\ hist'[j].vals = hist[i].vals

LEMMA SameWrites ==
    ASSUME History, NEW v, hist' = hist
    PROVE  Writes(v) /\ Live' = Live
<1>1. History'
  BY Zenon DEF History
<1>2. Live' = Live
  BY DEF Live, Deployed
<1> QED
  BY <1>1, <1>2, Zenon DEF Writes

\* When the latest revision is not pending, none is.
LEMMA NonePending ==
    ASSUME History, Latest.status # "pending-upgrade"
    PROVE  \A i \in 1..Len(hist) : hist[i].status # "pending-upgrade"
BY Zenon DEF History, Latest

\* A revision is appended unfinished.
LEMMA UnfinishedWrites ==
    ASSUME History, NEW want, NEW who, NEW status \in {"pending-upgrade", "failed"},
           Latest.status # "pending-upgrade",
           hist' = Append(hist, NewRevision(who, status, want))
    PROVE  /\ Writes(Override(Live, want)) /\ Live' = Live
           /\ hist'[Len(hist')].vals = Override(Live, want)
<1> DEFINE e == NewRevision(who, status, want)
           n == Len(hist)
<1>1. /\ IsSeq(hist') /\ Len(hist') = n + 1 /\ n \in Nat
      /\ \A i \in 1..n : hist'[i] = hist[i]
      /\ hist'[n + 1] = e
  BY AppendIsSeq DEF History, IsSeq
<1>2. /\ DOMAIN e = {"rev", "status", "vals", "by"} /\ e.status = status
      /\ e.vals = Override(Live, want)
  BY Zenon DEF NewRevision, Live
<1>3. DOMAIN Override(Live, want) = Names
  BY DeployedIs, Zenon DEF Override
<1> HIDE DEF e
<1>4. PICK k \in 1..n : \A j \in 1..n : (hist[j].status = "deployed") <=> (j = k)
  BY Zenon DEF History
<1> HIDE DEF n
<1>5. 1..Len(hist') = (1..n) \cup {n + 1} /\ n + 1 \notin 1..n
  BY <1>1
<1>6. History'
  <2>1. ASSUME NEW i \in 1..Len(hist')
        PROVE  /\ DOMAIN hist'[i] = {"rev", "status", "vals", "by"}
               /\ DOMAIN hist'[i].vals = Names
    BY <1>1, <1>2, <1>3, <1>5 DEF History, n
  <2>2. \A j \in 1..Len(hist') : (hist'[j].status = "deployed") <=> (j = k)
    BY <1>1, <1>2, <1>4, <1>5
  <2>3. k \in 1..Len(hist')
    BY <1>4, <1>5, Zenon
  <2>4. \E i \in 1..Len(hist') :
          \A j \in 1..Len(hist') : (hist'[j].status = "deployed") <=> (j = i)
    BY <2>2, <2>3, Zenon
  <2>5. Len(hist') > 0
    BY <1>1
  <2>6. ASSUME NEW i \in 1..Len(hist'), hist'[i].status = "pending-upgrade"
        PROVE  i = Len(hist')
    BY <1>1, <1>5, <2>6, NonePending, Zenon DEF n
  <2> QED
    BY <1>1, <2>1, <2>4, <2>5, <2>6, Zenon DEF History
<1>7. Live' = Live
  <2>1. Deployed \in 1..n /\ hist[Deployed].status = "deployed"
    BY DeployedIs, Zenon DEF n
  <2>2. Deployed \in 1..Len(hist') /\ hist'[Deployed] = hist[Deployed]
    BY <1>1, <1>5, <2>1, Zenon
  <2> QED
    BY <1>6, <2>1, <2>2, DeployedIsNext, Zenon DEF Live
<1>8. hist'[Len(hist')].vals = Override(Live, want)
  BY <1>1, <1>2, Zenon
<1>9. ASSUME NEW j \in 1..Len(hist')
      PROVE  \/ hist'[j].vals = Override(Live, want)
             \/ \E i \in 1..Len(hist) : hist'[j].vals = hist[i].vals
  BY <1>1, <1>2, <1>5, Zenon DEF n
<1>10. ASSUME NEW j \in 1..Len(hist'), hist'[j].status = "pending-upgrade"
       PROVE  hist'[j].vals = Override(Live, want)
  BY <1>6, <1>8, <1>10, Zenon DEF History
<1> QED
  BY <1>6, <1>7, <1>8, <1>9, <1>10, Zenon DEF Writes

\* A revision is deployed and supersedes the one before.
LEMMA DeployedWrites ==
    ASSUME History, NEW want, NEW who, Latest.status # "pending-upgrade",
           hist' = Append(Supersede, NewRevision(who, "deployed", want))
    PROVE  /\ Writes(Override(Live, want)) /\ Live' = Override(Live, want)
           /\ hist'[Len(hist')].vals = Override(Live, want)
<1> DEFINE e == NewRevision(who, "deployed", want)
           n == Len(hist)
<1>1. n \in Nat
  BY Zenon DEF History, IsSeq
<1>2. IsSeq(Supersede) /\ Len(Supersede) = n
  <2>1. Supersede = [i \in 1..n |-> Supersede[i]]
    BY Zenon DEF Supersede
  <2> HIDE DEF n
  <2> QED
    BY <1>1, <2>1, FunIsSeq, Zenon
<1>3. ASSUME NEW i \in 1..n
      PROVE  /\ DOMAIN Supersede[i] = {"rev", "status", "vals", "by"}
             /\ Supersede[i].vals = hist[i].vals
             /\ Supersede[i].status \notin {"deployed", "pending-upgrade"}
  BY <1>3, NonePending DEF Supersede, History
<1> HIDE DEF Supersede
<1>4. /\ IsSeq(hist') /\ Len(hist') = n + 1
      /\ \A i \in 1..n : hist'[i] = Supersede[i]
      /\ hist'[n + 1] = e
  BY <1>2, AppendIsSeq
<1>5. /\ DOMAIN e = {"rev", "status", "vals", "by"}
      /\ e.status = "deployed" /\ e.vals = Override(Live, want)
  BY Zenon DEF NewRevision, Live
<1>6. DOMAIN Override(Live, want) = Names
  BY DeployedIs, Zenon DEF Override
<1> HIDE DEF e
<1> HIDE DEF n
<1>7. 1..Len(hist') = (1..n) \cup {n + 1} /\ n + 1 \notin 1..n
  BY <1>1, <1>4
<1>8. ASSUME NEW j \in 1..Len(hist') PROVE hist'[j].status # "pending-upgrade"
  BY <1>3, <1>4, <1>5, <1>7, <1>8
<1>9. History'
  <2>1. ASSUME NEW i \in 1..Len(hist')
        PROVE  /\ DOMAIN hist'[i] = {"rev", "status", "vals", "by"}
               /\ DOMAIN hist'[i].vals = Names
    <3>1. CASE i = n + 1
      BY <1>4, <1>5, <1>6, <3>1, Zenon
    <3>2. CASE i \in 1..n
      BY <1>3, <1>4, <3>2 DEF History, n
    <3> QED
      BY <1>7, <3>1, <3>2, Zenon
  <2>2. \A j \in 1..Len(hist') : (hist'[j].status = "deployed") <=> (j = n + 1)
    BY <1>3, <1>4, <1>5, <1>7, Zenon
  <2>3. n + 1 \in 1..Len(hist')
    BY <1>7
  <2>4. \E i \in 1..Len(hist') :
          \A j \in 1..Len(hist') : (hist'[j].status = "deployed") <=> (j = i)
    BY <2>2, <2>3, Zenon
  <2>5. Len(hist') > 0
    BY <1>1, <1>4
  <2> QED
    BY <1>4, <1>8, <2>1, <2>4, <2>5, Zenon DEF History
<1>10. hist'[Len(hist')].vals = Override(Live, want) /\ Len(hist') \in 1..Len(hist')
      /\ hist'[Len(hist')].status = "deployed"
  BY <1>4, <1>5, <1>7, Zenon
<1>11. Live' = Override(Live, want)
  BY <1>9, <1>10, DeployedIsNext, Zenon
<1>12. ASSUME NEW j \in 1..Len(hist')
       PROVE  \/ hist'[j].vals = Override(Live, want)
              \/ \E i \in 1..Len(hist) : hist'[j].vals = hist[i].vals
  BY <1>3, <1>4, <1>5, <1>7, Zenon DEF n
<1> QED
  BY <1>9, <1>10, <1>11, <1>12, <1>8, Zenon DEF Writes

\* Whatever a command does.
LEMMA UpgradeWrites ==
    ASSUME History, NEW who, NEW result \in Results, NEW want,
           Upgrade(who, result, want)
    PROVE  /\ Writes(Override(Live, want))
           /\ result = "deployed" => Live' = Override(Live, want)
           /\ result # "deployed" => Live' = Live
           /\ result # "none" => hist'[Len(hist')].vals = Override(Live, want)
<1>1. CASE result = "none"
  <2>1. hist' = hist
    BY <1>1 DEF Upgrade
  <2> QED
    BY <1>1, <2>1, SameWrites
<1>2. CASE result = "deployed"
  <2>1. /\ Latest.status # "pending-upgrade"
        /\ hist' = Append(Supersede, NewRevision(who, "deployed", want))
    BY <1>2 DEF Upgrade
  <2> QED
    BY <1>2, <2>1, DeployedWrites, Zenon
<1>3. CASE result \in {"pending-upgrade", "failed"}
  <2>1. /\ Latest.status # "pending-upgrade"
        /\ hist' = Append(hist, NewRevision(who, result, want))
    BY <1>3, Zenon DEF Upgrade
  <2> QED
    BY <1>3, <2>1, UnfinishedWrites, Zenon
<1> QED
  BY <1>1, <1>2, <1>3, Zenon DEF Results

\* What another operator's command leaves behind when it ends.
LEMMA EndWrites ==
    ASSUME History, NEW result \in {"failed", "deployed"}, ForeignEnd(result)
    PROVE  /\ Writes(Latest.vals)
           /\ Live' = IF result = "deployed" THEN Latest.vals ELSE Live
           /\ hist'[Len(hist')].vals = Latest.vals
<1> DEFINE n == Len(hist)
           h == IF result = "deployed" THEN Supersede ELSE hist
           e == [h[n] EXCEPT !.status = result]
<1>1. n \in Nat /\ n \in 1..n /\ Latest = hist[n] /\ hist[n].status = "pending-upgrade"
  BY DEF ForeignEnd, Latest, History, IsSeq
<1>2. PICK k \in 1..n : \A j \in 1..n : (hist[j].status = "deployed") <=> (j = k)
  BY Zenon DEF History
<1>3. hist' = [h EXCEPT ![n] = e]
  BY Zenon DEF ForeignEnd
<1>4. h = [i \in 1..n |-> h[i]]
  <2>1. hist = [i \in 1..n |-> hist[i]]
    BY Zenon DEF History, IsSeq
  <2>2. Supersede = [i \in 1..n |-> Supersede[i]]
    BY Zenon DEF Supersede
  <2> QED
    BY <2>1, <2>2, Zenon
<1>5. ASSUME NEW i \in 1..n
      PROVE  /\ DOMAIN h[i] = {"rev", "status", "vals", "by"}
             /\ h[i].vals = hist[i].vals
             /\ h[i].status \in {hist[i].status, "superseded"}
             /\ result = "deployed" => h[i].status # "deployed"
  <2>1. /\ DOMAIN hist[i] = {"rev", "status", "vals", "by"}
        /\ DOMAIN Supersede[i] = {"rev", "status", "vals", "by"}
        /\ Supersede[i].vals = hist[i].vals
        /\ Supersede[i].status = IF hist[i].status = "deployed" THEN "superseded"
                                                               ELSE hist[i].status
    BY <1>5, Zenon DEF Supersede, History
  <2> HIDE DEF Supersede
  <2> QED
    BY <2>1
<1>6. /\ DOMAIN e = {"rev", "status", "vals", "by"} /\ e.status = result
      /\ e.vals = hist[n].vals
  BY <1>1, <1>5, Zenon
<1>7. k # n /\ (result = "failed" => h = hist)
  BY <1>1, <1>2
<1> HIDE DEF h, e, n
<1>8. /\ \A i \in 1..n : i # n => hist'[i] = h[i]
      /\ hist'[n] = e
      /\ hist' = [i \in 1..n |-> hist'[i]]
  BY <1>1, <1>3, <1>4, Zenon
<1>9. IsSeq(hist') /\ Len(hist') = n
  BY <1>1, <1>8, FunIsSeq
<1>10. ASSUME NEW i \in 1..n
       PROVE  /\ DOMAIN hist'[i] = {"rev", "status", "vals", "by"}
              /\ hist'[i].vals = hist[i].vals
  BY <1>5, <1>6, <1>8, <1>10, Zenon
<1>11. ASSUME NEW i \in 1..n PROVE hist'[i].status # "pending-upgrade"
  <2>1. CASE i = n
    BY <1>6, <1>8, <2>1
  <2>2. CASE i # n
    <3>1. hist[i].status # "pending-upgrade"
      BY <1>11, <2>2, Zenon DEF History, n
    <3>2. hist'[i].status \in {hist[i].status, "superseded"}
      BY <1>5, <1>8, <2>2, Zenon
    <3> QED
      BY <3>1, <3>2
  <2> QED
    BY <2>1, <2>2
<1>12. \E i \in 1..Len(hist') :
         \A j \in 1..Len(hist') : (hist'[j].status = "deployed") <=> (j = i)
  <2>1. CASE result = "deployed"
    <3>1. \A j \in 1..n : (hist'[j].status = "deployed") <=> (j = n)
      BY <1>1, <1>5, <1>6, <1>8, <2>1, Zenon
    <3> QED
      BY <1>1, <1>9, <3>1, Zenon
  <2>2. CASE result = "failed"
    <3>1. h = hist /\ e.status # "deployed"
      BY <1>6, <1>7, <2>2
    <3>2. \A j \in 1..n : (hist'[j].status = "deployed") <=> (j = k)
      BY <1>2, <1>7, <1>8, <3>1, Zenon
    <3> QED
      BY <1>2, <1>9, <3>2, Zenon
  <2> QED
    BY <2>1, <2>2, Zenon
<1>13. History'
  <2>1. \A i \in 1..n : DOMAIN hist[i].vals = Names
    BY Zenon DEF History, n
  <2>2. Len(hist') > 0
    BY <1>1, <1>9
  <2> QED
    BY <1>9, <1>10, <1>11, <1>12, <2>1, <2>2, Zenon DEF History
<1>14. Live' = IF result = "deployed" THEN Latest.vals ELSE Live
  <2>1. CASE result = "deployed"
    BY <1>1, <1>6, <1>8, <1>9, <1>13, <2>1, DeployedIsNext, Zenon
  <2>2. CASE result = "failed"
    <3>1. Deployed \in 1..n /\ hist[Deployed].status = "deployed"
      BY DeployedIs, Zenon DEF n
    <3>2. Deployed # n /\ h = hist
      BY <1>1, <1>7, <2>2, <3>1
    <3>3. Deployed \in 1..Len(hist') /\ hist'[Deployed] = hist[Deployed]
      BY <1>8, <1>9, <3>1, <3>2, Zenon
    <3>4. Live' = Live
      BY <1>13, <3>1, <3>3, DeployedIsNext, Zenon DEF Live
    <3> QED
      BY <2>2, <3>4
  <2> QED
    BY <2>1, <2>2, Zenon
<1>15. hist'[Len(hist')].vals = Latest.vals
  BY <1>1, <1>9, <1>10, Zenon
<1>16. Live' \in {Live, Latest.vals}
  BY <1>14, Zenon
<1> QED
  BY <1>9, <1>10, <1>11, <1>13, <1>14, <1>15, <1>16, Zenon DEF Writes, n

\* The deletion takes one unfinished revision.
Deletes ==
    /\ History' /\ Live' = Live
    /\ \A j \in 1..Len(hist') : \E i \in 1..Len(hist) : hist'[j] = hist[i]

LEMMA DeleteDeletes ==
    ASSUME History, NEW d \in 1..Len(hist), hist[d].status \in {"pending-upgrade", "failed"},
           hist' = Deleted(d)
    PROVE  Deletes
<1> DEFINE n == Len(hist)
           at(j) == IF j < d THEN j ELSE j + 1
           to(i) == IF i < d THEN i ELSE i - 1
<1>1. n \in Nat \ {0} /\ d \in 1..n
  BY DEF History, IsSeq
<1>2. hist' = [j \in 1..n - 1 |-> hist[at(j)]]
  BY Zenon DEF Deleted
<1>3. PICK k \in 1..n : \A j \in 1..n : (hist[j].status = "deployed") <=> (j = k)
  BY Zenon DEF History
<1>4. k # d
  BY <1>3, Zenon
<1> HIDE DEF n
<1>5. n - 1 \in Nat \ {0}
  BY <1>1, <1>3, <1>4
<1>6. IsSeq(hist') /\ Len(hist') = n - 1
  <2>1. hist' = [j \in 1..n - 1 |-> hist'[j]]
    BY <1>2, Zenon
  <2> QED
    BY <1>5, <2>1, FunIsSeq, Zenon
<1>7. \A j \in 1..n - 1 : at(j) \in 1..n /\ hist'[j] = hist[at(j)]
  BY <1>1, <1>2
<1>8. \A i \in 1..n \ {d} : to(i) \in 1..n - 1 /\ at(to(i)) = i /\ hist'[to(i)] = hist[i]
  BY <1>1, <1>7
<1>9. \A j \in 1..n - 1 : at(j) = k => j = to(k)
  BY <1>1, <1>3
<1> HIDE DEF at, to
<1>10. History'
  <2>1. ASSUME NEW i \in 1..Len(hist')
        PROVE  /\ DOMAIN hist'[i] = {"rev", "status", "vals", "by"}
               /\ DOMAIN hist'[i].vals = Names
    BY <1>6, <1>7 DEF History, n
  <2>2. to(k) \in 1..Len(hist')
    BY <1>3, <1>4, <1>6, <1>8, Zenon
  <2>3. ASSUME NEW j \in 1..Len(hist')
        PROVE  (hist'[j].status = "deployed") <=> (j = to(k))
    <3>1. j \in 1..n - 1 /\ at(j) \in 1..n /\ hist'[j] = hist[at(j)]
      BY <1>6, <1>7, Zenon
    <3>2. k \in 1..n \ {d}
      BY <1>3, <1>4, Zenon
    <3>3. at(to(k)) = k
      BY <1>8, <3>2, Zenon
    <3>4. (at(j) = k) <=> (j = to(k))
      BY <1>9, <3>1, <3>3, Zenon
    <3> QED
      BY <1>3, <3>1, <3>4, Zenon
  <2>4. \E i \in 1..Len(hist') :
          \A j \in 1..Len(hist') : (hist'[j].status = "deployed") <=> (j = i)
    BY <2>2, <2>3, Zenon
  <2>5. Len(hist') > 0
    BY <1>1, <1>5, <1>6
  <2>6. ASSUME NEW j \in 1..Len(hist'), hist'[j].status = "pending-upgrade"
        PROVE  j = Len(hist')
    <3>1. j \in 1..n - 1 /\ at(j) = n
      BY <1>6, <1>7, <2>6, Zenon DEF History, n
    <3> QED
      BY <1>1, <1>6, <3>1 DEF at
  <2> QED
    BY <1>6, <2>1, <2>4, <2>5, <2>6, Zenon DEF History
<1>11. Live' = Live
  <2>1. Deployed \in 1..n /\ hist[Deployed].status = "deployed"
    BY DeployedIs, Zenon DEF n
  <2>2. Deployed # d
    BY <2>1, Zenon
  <2>3. to(Deployed) \in 1..Len(hist') /\ hist'[to(Deployed)] = hist[Deployed]
    BY <1>6, <1>8, <2>1, <2>2, Zenon
  <2> QED
    BY <1>10, <2>1, <2>3, DeployedIsNext, Zenon DEF Live
<1>12. \A j \in 1..Len(hist') : \E i \in 1..Len(hist) : hist'[j] = hist[i]
  BY <1>6, <1>7, Zenon DEF n
<1> QED
  BY <1>10, <1>11, <1>12, Zenon DEF Deletes

LEMMA InitStands == Init => StandsInv
<1> SUFFICES ASSUME Init PROVE StandsInv
  OBVIOUS
<1>1. History /\ Len(hist) = 1 /\ hist[1].vals = Values /\ hist[1].status = "deployed"
  BY DEF Init, HelmInit, History, IsSeq, Names, Values
<1>2. Live = Values
  BY <1>1, DeployedIs DEF Live
<1>3. Versions
  BY DEF Init, Versions, NoMap
<1>4. RunsInv
  BY InitAssumption DEF Init, HelmInit, RunsInv, Kept, NewLocal, NoCall, NoMap
<1>5. OnePermit
  BY <1>1 DEF Init, OnePermit, Values, NoMap
<1>6. Rendered
  BY <1>2, Zenon DEF Rendered, Values
<1>7. Pending
  BY <1>1 DEF Pending
<1>8. \A r \in Runs : Stands(r)
  BY <1>4, InitAssumption, Zenon DEF Init, HelmInit, Stands, NewLocal, NoCall
<1> QED
  BY <1>1, <1>3, <1>4, <1>5, <1>6, <1>7, <1>8, Zenon DEF StandsInv, Standing

\* A run that is bound to a ConfigMap that is gone stays so.
LEMMA StaleStays ==
    ASSUME cm'.uid = cm.uid,
           \A r \in Runs : local'[r].cmuid = local[r].cmuid \/ Bound(r),
           NoStaleRun'
    PROVE  NoStaleRun
BY Zenon DEF NoStaleRun, Bound

\* The run that holds the permit has one.
LEMMA HolderHas == ASSUME NEW p, p.run \in Runs PROVE p # NoPermit
BY InitAssumption DEF NoPermit, NoRun

\* A step of one run that leaves the ConfigMap and the release alone.
LEMMA RunStands ==
    ASSUME StandsInv, NEW r \in Runs, cm' = cm, hist' = hist,
           DOMAIN pc' = Runs, DOMAIN snap' = Runs, DOMAIN local' = Runs,
           DOMAIN call' = Callers,
           \A s \in Runs \ {r} : /\ pc'[s] = pc[s] /\ snap'[s] = snap[s]
                                 /\ local'[s] = local[s] /\ call'[s] = call[s],
           snap'[r] \in {snap[r], cm, NoMap}, Kept(r)',
           \/ local'[r].cmuid = local[r].cmuid
           \/ local'[r].cmuid = cm.uid /\ Bound(r),
           NoStaleRun /\ Standing => Stands(r)'
    PROVE  StandsInv'
<1>1. History'
  BY SameWrites, Zenon DEF StandsInv, Writes
<1>2. Versions'
  BY DEF StandsInv, Versions, NoMap
<1>3. RunsInv'
  BY DEF StandsInv, RunsInv, Kept
<1>4. ASSUME NoStaleRun' PROVE Standing'
  <2>1. NoStaleRun /\ Standing
    BY <1>4, StaleStays, Zenon DEF StandsInv
  <2>2. Live' = Live
    BY SameWrites, Zenon DEF StandsInv
  <2>3. OnePermit'
    BY <2>1 DEF Standing, OnePermit, StandsInv, Versions, NoPermit, NoRun
  <2>4. Rendered'
    BY <2>1, <2>2, Zenon DEF Standing, Rendered, NoPermit, NoRun
  <2>5. ASSUME NEW s \in Runs \ {r} PROVE Stands(s)'
    BY <2>1, <2>2 DEF Standing, Stands
  <2>6. Pending'
    BY <2>1, <2>2, Zenon DEF Standing, Pending, NoPermit, NoRun
  <2> QED
    BY <2>1, <2>3, <2>4, <2>5, <2>6, Zenon DEF Standing
<1> QED
  BY <1>1, <1>2, <1>3, <1>4, Zenon DEF StandsInv

\* A run that stops leaves the world as it is; what it writes to its own state
\* then is the ConfigMap it is bound to, or an acceptance that stands.
LEMMA StopWrites ==
    ASSUME StandsInv, NEW r \in Runs, Stop(r), cm' = cm,
           DOMAIN local' = Runs, DOMAIN local'[r] = {"phase", "cmuid", "permit"},
           \A s \in Runs \ {r} : local'[s] = local[s],
           \/ local'[r].cmuid = local[r].cmuid
           \/ local'[r].cmuid = cm.uid /\ Bound(r),
           local'[r].cmuid = 0 => local'[r].phase = "CREATED",
           NoStaleRun /\ Standing /\ local'[r].phase = "ACCEPTED" =>
             local'[r].permit = cm.permit /\ cm.permit.run = r /\ Live.permit = cm.permit
    PROVE  StandsInv'
<1>1. call' = [call EXCEPT ![r] = NoCall] /\ hist' = hist
  BY Zenon DEF Stop, HelmAbandon
<1>2. /\ DOMAIN call' = Callers /\ call'[r] = NoCall
      /\ \A s \in Runs \ {r} : call'[s] = call[s]
  BY <1>1, InitAssumption, Zenon DEF StandsInv, RunsInv
<1>3. /\ DOMAIN pc' = Runs /\ pc'[r] = "off" /\ DOMAIN snap' = Runs /\ snap'[r] = NoMap
      /\ \A s \in Runs \ {r} : pc'[s] = pc[s] /\ snap'[s] = snap[s]
  BY Zenon DEF Stop, StandsInv, RunsInv
<1>4. Kept(r)'
  <2>1. local'[r].cmuid \in 0..cm.uid
    BY DEF StandsInv, RunsInv, Kept, Versions
  <2> QED
    BY <1>2, <1>3, <2>1 DEF Kept, NoCall
<1>5. ASSUME NoStaleRun, Standing PROVE Stands(r)'
  <2>1. Live' = Live
    BY <1>1, SameWrites, Zenon DEF StandsInv
  <2>2. call'[r].pc = "idle"
    BY <1>2 DEF NoCall
  <2> QED
    BY <1>3, <1>5, <2>1, <2>2, Zenon DEF Stands
<1> QED
  BY <1>1, <1>2, <1>3, <1>4, <1>5, RunStands, Zenon

LEMMA StopStands ==
    ASSUME StandsInv, NEW r \in Runs, Stop(r), cm' = cm, local' = local
    PROVE  StandsInv'
<1>1. /\ DOMAIN local = Runs /\ DOMAIN local[r] = {"phase", "cmuid", "permit"}
      /\ local[r].cmuid = 0 => local[r].phase = "CREATED"
  BY Zenon DEF StandsInv, RunsInv, Kept
<1>2. NoStaleRun /\ Standing /\ local[r].phase = "ACCEPTED" =>
        local[r].permit = cm.permit /\ cm.permit.run = r /\ Live.permit = cm.permit
  BY Zenon DEF Standing, Stands
<1> QED
  BY <1>1, <1>2, StopWrites, Zenon

\* A step of a run that changes neither its call nor what it is bound to.
LEMMA StepStands ==
    ASSUME StandsInv, NEW r \in Runs, NEW next, Go(r, next), cm' = cm,
           snap' \in {snap, [snap EXCEPT ![r] = cm]},
           DOMAIN local' = Runs, DOMAIN local'[r] = {"phase", "cmuid", "permit"},
           \A s \in Runs \ {r} : local'[s] = local[s],
           local'[r].cmuid = local[r].cmuid,
           local' = local \/ local'[r].phase # "ACCEPTED",
           local'[r].cmuid = 0 => next \in {"off", "read"} /\ local' = local,
           next # "claim", pc[r] # "persisting",
           next = "publish" => snap'[r].permit = NoPermit,
           next = "accepted" => snap'[r].permit.run = r,
           next = "persist" /\ NoStaleRun => snap'[r].permit = cm.permit /\ cm.permit.run = r,
           next # "persisting"
    PROVE  StandsInv'
<1>1. /\ DOMAIN pc' = Runs /\ pc'[r] = next /\ DOMAIN snap' = Runs
      /\ \A s \in Runs \ {r} : pc'[s] = pc[s] /\ snap'[s] = snap[s]
      /\ snap'[r] \in {snap[r], cm}
  BY Zenon DEF Go, StandsInv, RunsInv
<1>2. hist' = hist /\ call' = call /\ DOMAIN call' = Callers
  BY Zenon DEF Go, helmVars, StandsInv, RunsInv
<1>3. Kept(r)'
  BY <1>1, <1>2 DEF Kept, StandsInv, RunsInv
<1>4. ASSUME NoStaleRun, Standing PROVE Stands(r)'
  <2>1. Live' = Live
    BY <1>2, SameWrites, Zenon DEF StandsInv
  <2>2. call'[r].pc = "idle"
    BY <1>2 DEF StandsInv, RunsInv, Kept
  <2>3. Stands(r)
    BY <1>4, Zenon DEF Standing
  <2> QED
    BY <1>1, <1>4, <2>1, <2>2, <2>3, Zenon DEF Stands
<1> QED
  BY <1>1, <1>2, <1>3, <1>4, RunStands, Zenon

\* A patch moves the ConfigMap only before the release has a permit.
LEMMA PatchStands ==
    ASSUME StandsInv, NEW r \in Runs, NEW next \in {"claimed", "published", "accepted"},
           Step(r, next), local' = local, pc[r] \notin {"off", "read", "persisting"},
           DOMAIN cm' = DOMAIN cm, cm'.uid = cm.uid, cm'.rv = cm.rv + 1,
           next = "accepted" => snap[r].permit.run = r,
           NoStaleRun /\ Standing =>
             /\ Live.permit = NoPermit
             /\ cm'.permit = cm.permit \/ (cm.permit = NoPermit /\ cm'.permit.run = r)
    PROVE  StandsInv'
<1>1. /\ DOMAIN pc' = Runs /\ pc'[r] = next /\ snap' = snap
      /\ \A s \in Runs \ {r} : pc'[s] = pc[s]
      /\ hist' = hist /\ call' = call
  BY Zenon DEF Step, Go, helmVars, StandsInv, RunsInv
<1>2. History' /\ Live' = Live
  BY <1>1, SameWrites, Zenon DEF StandsInv, Writes
<1>3. Versions'
  BY <1>1 DEF StandsInv, Versions
<1>4. RunsInv'
  BY <1>1 DEF StandsInv, RunsInv, Kept
<1>5. ASSUME NoStaleRun' PROVE Standing'
  <2>1. NoStaleRun /\ Standing
    BY <1>5, StaleStays, Zenon DEF StandsInv
  <2>2. \A s \in Runs : cm.permit.run = s => cm.permit # NoPermit /\ cm'.permit = cm.permit
    BY <2>1, HolderHas, Zenon
  <2>3. OnePermit'
    <3>1. ASSUME NEW i \in 1..Len(hist), hist[i].vals.permit # NoPermit
          PROVE  /\ hist[i].vals.permit = cm'.permit /\ hist[i].vals.phase = "ACCEPTED"
                 /\ hist[i].vals.run = cm'.permit.run
      BY <2>1, <3>1, Zenon DEF Standing, OnePermit
    <3>2. ASSUME cm'.permit # NoPermit
          PROVE  cm'.permit.run \in Runs /\ local[cm'.permit.run].cmuid # 0
      <4>1. local[r].cmuid # 0
        BY Zenon DEF StandsInv, RunsInv, Kept
      <4> QED
        BY <2>1, <3>2, <4>1, Zenon DEF Standing, OnePermit
    <3> QED
      BY <1>1, <3>1, <3>2, Zenon DEF OnePermit, NoPermit, NoRun
  <2>4. Rendered'
    BY <1>2, <2>1, Zenon DEF Rendered, NoPermit, NoRun
  <2>5. ASSUME NEW s \in Runs PROVE Stands(s)'
    <3>0. Stands(s) /\ Live.permit = NoPermit
      BY <2>1 DEF Standing
    <3>1. call[s].pc # "idle" => pc[s] = "persisting"
      BY Zenon DEF StandsInv, RunsInv, Kept
    <3>2. call[s].pc # "ok"
      BY <2>2, <3>0, <3>1 DEF Stands
    <3>3. local[s].phase # "ACCEPTED"
      BY <2>2, <3>0 DEF Stands
    <3>4. pc'[s] \in {"persist", "persisting"} => pc'[s] = pc[s] /\ cm'.permit = cm.permit
      BY <1>1, <2>2, <3>0 DEF Stands
    <3>5. call[s].pc # "idle" => cm'.permit = cm.permit
      BY <2>2, <3>0, <3>1 DEF Stands
    <3> QED
      BY <1>1, <3>0, <3>2, <3>3, <3>4, <3>5 DEF Stands
  <2>6. Pending'
    BY <1>1, <1>2, <2>1, Zenon DEF Pending, NoPermit, NoRun
  <2> QED
    BY <2>3, <2>4, <2>5, <2>6, Zenon DEF Standing
<1> QED
  BY <1>2, <1>3, <1>4, <1>5, Zenon DEF StandsInv

\* A call goes on: it wants what it wanted, and has not come to a good end.
CallsOn ==
    /\ DOMAIN call' = Callers
    /\ \A r \in Runs : /\ DOMAIN call'[r] = {"pc", "want", "rev", "vals"}
                       /\ call'[r].want = call[r].want
                       /\ (call'[r].pc = "idle") = (call[r].pc = "idle")
                       /\ call'[r].pc = "ok" => call[r].pc = "ok"

LEMMA GotoOn ==
    ASSUME StandsInv, NEW r \in Runs, NEW next, next \notin {"idle", "ok"}, Goto(r, next),
           call[r].pc # "idle"
    PROVE  CallsOn
<1>1. DOMAIN call = Callers /\ r \in Callers
      /\ \A s \in Runs : DOMAIN call[s] = {"pc", "want", "rev", "vals"}
  BY InitAssumption, Zenon DEF StandsInv, RunsInv, Kept
<1>2. DOMAIN call' = Callers
  BY <1>1 DEF Goto
<1>3. ASSUME NEW s \in Runs, s # r PROVE call'[s] = call[s]
  BY <1>1, <1>3, InitAssumption DEF Goto
<1>4. DOMAIN call'[r] = DOMAIN call[r] /\ call'[r].pc = next /\ call'[r].want = call[r].want
  BY <1>1 DEF Goto
<1> QED
  BY <1>1, <1>2, <1>3, <1>4, Zenon DEF CallsOn

\* The rendered values are in the ConfigMap.
Rendering(v) ==
    /\ DOMAIN cm' = DOMAIN cm /\ cm'.uid = cm.uid /\ cm'.rv = cm.rv + 1
    /\ cm'.phase = v.phase /\ cm'.run = v.run
    /\ cm'.permit = IF v.permit # NoPermit THEN v.permit ELSE cm.permit

LEMMA ManifestRenders ==
    ASSUME Versions, NEW v, ApplyManifest(v) PROVE Rendering(v)
BY Zenon DEF Versions, ApplyManifest, Rendering

\* Values that say nothing against the ConfigMap's permit.
Agrees(v) ==
    /\ v.permit # NoPermit =>
         v.permit = cm.permit /\ v.phase = "ACCEPTED" /\ v.run = cm.permit.run
    /\ Live.permit # NoPermit => v.permit = Live.permit

LEMMA AgreesKeeps ==
    ASSUME NEW v, Agrees(v), Rendering(v)
    PROVE  cm'.permit = cm.permit
BY Zenon DEF Agrees, Rendering

\* A revision that agrees with the ConfigMap is written and rendered.
LEMMA WriteStands ==
    ASSUME StandsInv, NEW v, Writes(v), CallsOn, local' = local, UNCHANGED runVars,
           \/ Rendering(v)
           \/ cm' = cm /\ Live' = Live,
           NoStaleRun /\ Standing => Agrees(v)
    PROVE  StandsInv'
<1>1. pc' = pc /\ snap' = snap
  BY DEF runVars
<1>2. History' /\ Live' \in {Live, v}
  BY Zenon DEF Writes
<1>3. \A j \in 1..Len(hist') : \/ hist'[j].vals = v
                               \/ \E i \in 1..Len(hist) : hist'[j].vals = hist[i].vals
  BY Zenon DEF Writes
<1>4. Rendering(v) \/ (cm' = cm /\ Live' = Live)
  OBVIOUS
<1>5. NoStaleRun /\ Standing => Agrees(v)
  OBVIOUS
<1>6. Versions'
  BY <1>1, <1>4 DEF StandsInv, Versions, Rendering
<1>7. cm'.uid = cm.uid
  BY <1>4, Zenon DEF Rendering
<1>8. RunsInv'
  BY <1>1, <1>7 DEF StandsInv, RunsInv, Kept, CallsOn
<1>9. ASSUME NoStaleRun' PROVE Standing'
  <2>1. NoStaleRun /\ Standing
    BY <1>7, <1>9, StaleStays, Zenon
      DEF StandsInv
  <2>2. Agrees(v) /\ cm'.permit = cm.permit
    BY <1>4, <1>5, <2>1, AgreesKeeps, Zenon
  <2>3. Live.permit # NoPermit => Live'.permit = Live.permit
    BY <1>2, <2>2, Zenon DEF Agrees
  <2>4. OnePermit'
    <3>1. ASSUME NEW j \in 1..Len(hist'), hist'[j].vals.permit # NoPermit
          PROVE  /\ hist'[j].vals.permit = cm.permit /\ hist'[j].vals.phase = "ACCEPTED"
                 /\ hist'[j].vals.run = cm.permit.run
      BY <1>3, <2>1, <2>2, <3>1, Zenon DEF Standing, OnePermit, Agrees
    <3>2. cm.permit # NoPermit => cm.permit.run \in Runs /\ local[cm.permit.run].cmuid # 0
      BY <2>1, Zenon DEF Standing, OnePermit
    <3> QED
      BY <2>2, <3>1, <3>2, Zenon DEF OnePermit, NoPermit, NoRun
  <2>5. Rendered'
    <3>1. CASE cm' = cm /\ Live' = Live
      BY <2>1, <3>1, Zenon DEF Standing, Rendered, NoPermit, NoRun
    <3>2. CASE Rendering(v)
      <4>1. ASSUME Live'.permit # NoPermit
            PROVE  cm'.phase = "ACCEPTED" /\ cm'.run = cm'.permit.run
        <5>1. v.permit # NoPermit
          BY <1>2, <2>2, <4>1, Zenon DEF Agrees
        <5> QED
          BY <2>2, <3>2, <5>1, Zenon DEF Agrees, Rendering
      <4> QED
        BY <4>1, Zenon DEF Rendered, NoPermit, NoRun
    <3> QED
      BY <1>4, <3>1, <3>2, Zenon
  <2>6. ASSUME NEW s \in Runs PROVE Stands(s)'
    <3>1. Stands(s)
      BY <2>1, Zenon DEF Standing
    <3>2. cm.permit.run = s => cm.permit # NoPermit
      BY HolderHas, Zenon
    <3>3. call[s].pc = "ok" => Live'.permit = cm.permit
      <4>1. call[s].pc # "idle" => pc[s] = "persisting"
        BY Zenon DEF StandsInv, RunsInv, Kept
      <4> QED
        BY <2>3, <3>1, <3>2, <4>1, Zenon DEF Stands
    <3>4. local[s].phase = "ACCEPTED" => Live'.permit = cm.permit
      BY <2>3, <3>1, <3>2, Zenon DEF Stands
    <3>5. /\ call'[s].want = call[s].want
          /\ (call'[s].pc = "idle") = (call[s].pc = "idle")
          /\ call'[s].pc = "ok" => call[s].pc = "ok"
      BY Zenon DEF CallsOn
    <3> QED
      BY <1>1, <2>2, <3>1, <3>3, <3>4, <3>5, Zenon DEF Stands
  <2>7. Pending'
    <3>1. ASSUME NEW j \in 1..Len(hist'), hist'[j].status = "pending-upgrade",
                 Live'.permit # NoPermit
          PROVE  hist'[j].vals.permit = Live'.permit
      <4>1. /\ Live' = Live
            /\ \/ hist'[j].vals = v
               \/ \E i \in 1..Len(hist) :
                    hist[i].status = "pending-upgrade" /\ hist'[j].vals = hist[i].vals
        BY <3>1, Zenon DEF Writes
      <4> QED
        BY <2>1, <2>2, <3>1, <4>1, Zenon DEF Standing, Pending, Agrees
    <3> QED
      BY <3>1, Zenon DEF Pending, NoPermit, NoRun
  <2> QED
    BY <2>4, <2>5, <2>6, <2>7, Zenon DEF Standing
<1> QED
  BY <1>2, <1>6, <1>8, <1>9, Zenon DEF StandsInv

\* What a run wants of the release agrees with the ConfigMap.
LEMMA WantAgrees ==
    ASSUME StandsInv, NoStaleRun, Standing, NEW r \in Runs, call[r].pc # "idle"
    PROVE  Agrees(Override(Live, call[r].want))
<1>1. pc[r] = "persisting"
  BY Zenon DEF StandsInv, RunsInv, Kept
<1>2. cm.permit.run = r
      /\ call[r].want = [phase |-> "ACCEPTED", run |-> r, replicas |-> 1, permit |-> cm.permit]
  BY <1>1, Zenon DEF Standing, Stands
<1>3. DOMAIN Live = Names
  BY DeployedIs, Zenon DEF StandsInv
<1>4. Override(Live, call[r].want).permit = cm.permit
      /\ Override(Live, call[r].want).phase = "ACCEPTED"
      /\ Override(Live, call[r].want).run = r
  BY <1>2, <1>3 DEF Override, Names
<1>5. Live.permit # NoPermit => Live.permit = cm.permit
  BY DeployedIs, Zenon DEF StandsInv, Standing, OnePermit, Live
<1> QED
  BY <1>2, <1>4, <1>5, Zenon DEF Agrees

\* And what another operator changes leaves it alone.
LEMMA OtherAgrees ==
    ASSUME StandsInv, NoStaleRun, Standing
    PROVE  Agrees(Override(Live, [other |-> 1]))
<1>1. DOMAIN Live = Names
  BY DeployedIs DEF StandsInv
<1>2. /\ Override(Live, [other |-> 1]).permit = Live.permit
      /\ Override(Live, [other |-> 1]).phase = Live.phase
      /\ Override(Live, [other |-> 1]).run = Live.run
  BY <1>1, Zenon DEF Override, Names
<1>3. Live.permit # NoPermit =>
        Live.permit = cm.permit /\ Live.phase = "ACCEPTED" /\ Live.run = cm.permit.run
  BY DeployedIs, Zenon DEF StandsInv, Standing, OnePermit, Live
<1> QED
  BY <1>2, <1>3, Zenon DEF Agrees

\* And so does the command that is under way.
LEMMA PendingAgrees ==
    ASSUME StandsInv, Standing, Latest.status = "pending-upgrade"
    PROVE  Agrees(Latest.vals)
<1>1. Len(hist) \in 1..Len(hist)
  BY DEF StandsInv, History, IsSeq
<1> QED
  BY <1>1, Zenon DEF Standing, OnePermit, Pending, Latest, Agrees

\* A call goes on and writes nothing.
LEMMA QuietStands ==
    ASSUME StandsInv, CallsOn, hist' = hist, cm' = cm, local' = local, UNCHANGED runVars
    PROVE  StandsInv'
<1>1. Writes(Override(Live, [other |-> 1])) /\ Live' = Live
  BY SameWrites DEF StandsInv
<1> QED
  BY <1>1, WriteStands, OtherAgrees, Zenon

\* An unfinished revision is deleted.
LEMMA DeleteStands ==
    ASSUME StandsInv, CallsOn, Deletes, cm' = cm, local' = local, UNCHANGED runVars
    PROVE  StandsInv'
<1>1. Writes(Override(Live, [other |-> 1])) /\ Live' = Live
  BY Zenon DEF Deletes, Writes
<1> QED
  BY <1>1, WriteStands, OtherAgrees, Zenon

\* A command that deployed its revision has rendered it; one that did not may
\* have.
LEMMA AppliesRenders ==
    ASSUME Versions, NEW v, NEW result \in Results, Applies(result),
           result # "none" => hist'[Len(hist')].vals = v,
           result # "deployed" => Live' = Live
    PROVE  Rendering(v) \/ (cm' = cm /\ Live' = Live)
<1>1. CASE result = "deployed"
  <2>1. ApplyManifest(v)
    BY <1>1 DEF Applies
  <2> QED
    BY <2>1, ManifestRenders
<1>2. CASE result # "deployed"
  <2>1. cm' = cm \/ (result # "none" /\ ApplyManifest(hist'[Len(hist')].vals))
    BY <1>2, Zenon DEF Applies, worldVars
  <2> QED
    BY <1>2, <2>1, ManifestRenders, Zenon
<1> QED
  BY <1>1, <1>2

\* The steps of a Helm call.
LEMMA HelmStands ==
    ASSUME StandsInv, NEW r \in Runs, HelmQuiet(r) \/ HelmCommand(r) \/ HelmFails(r)
    PROVE  StandsInv'
<1>1. CASE HelmQuiet(r)
  <2>0. UNCHANGED <<cm, local, runVars>>
    BY <1>1, Zenon DEF HelmQuiet, worldVars
  <2>1. CASE HelmSnapshot(r)
    <3>1. /\ DOMAIN call = Callers /\ r \in Callers
          /\ \A s \in Runs : DOMAIN call[s] = {"pc", "want", "rev", "vals"}
      BY InitAssumption, Zenon DEF StandsInv, RunsInv, Kept
    <3>2. CASE Goto(r, "raise")
      <4>1. CallsOn
        BY <2>1, <3>2, GotoOn, Zenon DEF HelmSnapshot
      <4> QED
        BY <2>0, <2>1, <4>1, QuietStands, Zenon DEF HelmSnapshot
    <3>3. CASE call' = [call EXCEPT ![r].pc = "run", ![r].rev = Latest.rev,
                                    ![r].vals = Latest.vals]
      <4>1. /\ DOMAIN call'[r] = {"pc", "want", "rev", "vals"} /\ call'[r].pc = "run"
            /\ call'[r].want = call[r].want
        BY <3>1, <3>3, Zenon
      <4>2. DOMAIN call' = Callers /\ \A s \in Runs \ {r} : call'[s] = call[s]
        BY <3>1, <3>3, InitAssumption, Zenon
      <4>3. call[r].pc = "snapshot"
        BY <2>1, Zenon DEF HelmSnapshot
      <4>4. CallsOn
        BY <3>1, <4>1, <4>2, <4>3, Zenon DEF CallsOn
      <4> QED
        BY <2>0, <2>1, <4>4, QuietStands, Zenon DEF HelmSnapshot
    <3> QED
      BY <2>1, <3>2, <3>3, Zenon DEF HelmSnapshot
  <2>2. CASE HelmConfirm(r) \/ HelmReconcile(r)
    <3>1. call[r].pc \in {"success", "lost"} /\ hist' = hist
      BY <2>2 DEF HelmConfirm, HelmReconcile
    <3>2. CASE Inspect(r) # "deployed"
      <4>1. PICK next : next \notin {"idle", "ok"} /\ Goto(r, next)
        <5>1. CASE HelmConfirm(r)
          BY <3>2, <5>1 DEF HelmConfirm
        <5>2. CASE HelmReconcile(r)
          <6>1. Inspect(r) \in {"unchanged", "invalid", "pending-upgrade", "failed"}
            BY <3>2, Zenon DEF Inspect, InspectWith
          <6> HIDE DEF Inspect
          <6> QED
            BY <5>2, <6>1 DEF HelmReconcile
        <5> QED
          BY <2>2, <5>1, <5>2
      <4>2. CallsOn
        BY <3>1, <4>1, GotoOn, Zenon
      <4> QED
        BY <2>0, <3>1, <4>2, QuietStands
    <3>3. CASE Inspect(r) = "deployed"
      <4>1. Goto(r, "ok")
        BY <2>2, <3>3 DEF HelmConfirm, HelmReconcile
      <4>2. Latest.status = "deployed" /\ Latest.vals = Expected(r)
        BY <3>3, Zenon DEF Inspect, InspectWith
      <4>3. Live = Expected(r)
        <5>1. Len(hist) \in 1..Len(hist)
          BY DEF StandsInv, History, IsSeq
        <5> QED
          BY <4>2, <5>1, DeployedIs, Zenon DEF StandsInv, Latest, Live
      <4>4. /\ DOMAIN call = Callers /\ r \in Callers
            /\ \A s \in Runs : DOMAIN call[s] = {"pc", "want", "rev", "vals"}
            /\ pc[r] = "persisting"
        BY <3>1, InitAssumption, Zenon DEF StandsInv, RunsInv, Kept
      <4>5. /\ DOMAIN call' = Callers /\ \A s \in Runs \ {r} : call'[s] = call[s]
            /\ DOMAIN call'[r] = {"pc", "want", "rev", "vals"} /\ call'[r].pc = "ok"
            /\ call'[r].want = call[r].want
        BY <4>1, <4>4 DEF Goto
      <4>6. /\ pc' = pc /\ snap' = snap /\ local' = local /\ cm' = cm
            /\ DOMAIN pc = Runs /\ DOMAIN snap = Runs /\ DOMAIN local = Runs
        BY <2>0, Zenon DEF runVars, StandsInv, RunsInv
      <4>7. Kept(r)'
        BY <4>4, <4>5, <4>6, Zenon DEF Kept, StandsInv, RunsInv
      <4>8. ASSUME NoStaleRun, Standing PROVE Stands(r)'
        <5>1. Stands(r)
          BY <4>8 DEF Standing
        <5>2. Live' = Live
          BY <3>1, SameWrites DEF StandsInv
        <5>3. Live.permit = cm.permit
          <6>1. call[r].want = [phase |-> "ACCEPTED", run |-> r, replicas |-> 1,
                                permit |-> cm.permit]
            BY <3>1, <5>1, Zenon DEF Stands
          <6>2. DOMAIN Live = Names
            BY DeployedIs, Zenon DEF StandsInv
          <6> QED
            BY <4>3, <6>1, <6>2 DEF Expected, Override, Names
        <5> QED
          BY <3>1, <4>5, <4>6, <5>1, <5>2, <5>3, Zenon DEF Stands
      <4> QED
        BY <3>1, <4>5, <4>6, <4>7, <4>8, RunStands, Zenon
    <3> QED
      BY <3>2, <3>3
  <2>3. CASE HelmDelete(r)
    <3>1. call[r].pc \in {"pending-upgrade", "failed"}
      BY <2>3, Zenon DEF HelmDelete
    <3>2. CASE Goto(r, "raise") /\ hist' = hist
      BY <2>0, <3>1, <3>2, GotoOn, QuietStands, Zenon
    <3>3. ASSUME NEW i \in Recoverable(r), hist' = Deleted(i), Goto(r, "retry")
          PROVE  StandsInv'
      <4>1. i \in 1..Len(hist) /\ hist[i].status \in {"pending-upgrade", "failed"}
        BY <3>1, Zenon DEF Recoverable
      <4>2. Deletes
        BY <3>3, <4>1, DeleteDeletes, Zenon DEF StandsInv
      <4>3. CallsOn
        BY <3>1, <3>3, GotoOn, Zenon
      <4> QED
        BY <2>0, <4>2, <4>3, DeleteStands
    <3> QED
      BY <2>3, <3>2, <3>3, Zenon DEF HelmDelete
  <2>4. CASE HelmRefused(r)
    <3>1. PICK next \in {"lost", "success"} : Goto(r, next)
      BY <2>4, Zenon DEF HelmRefused
    <3>2. call[r].pc \in {"run", "retry"} /\ hist' = hist
      BY <2>4, Zenon DEF HelmRefused
    <3> QED
      BY <2>0, <3>1, <3>2, GotoOn, QuietStands, Zenon
  <2> QED
    BY <1>1, <2>1, <2>2, <2>3, <2>4, Zenon DEF HelmQuiet
<1>2. CASE HelmCommand(r) \/ HelmFails(r)
  <2>1. UNCHANGED <<local, runVars>> /\ call[r].pc \in {"run", "retry"}
    BY <1>2, Zenon DEF HelmCommand, HelmFails, HelmRun, HelmRetry
  <2>2. CallsOn
    <3>1. Goto(r, "lost") \/ Goto(r, "success")
      BY <1>2, Zenon DEF HelmCommand, HelmFails, HelmRun, HelmRetry
    <3> QED
      BY <2>1, <3>1, GotoOn, Zenon
  <2>3. PICK result \in Results :
             /\ Upgrade(r, result, call[r].want)
             /\ Applies(result)
    BY <1>2, Zenon DEF HelmCommand, HelmFails, HelmRun, HelmRetry, Results
  <2>4. /\ Writes(Override(Live, call[r].want))
        /\ result # "deployed" => Live' = Live
        /\ result # "none" => hist'[Len(hist')].vals = Override(Live, call[r].want)
    BY <2>3, UpgradeWrites, Zenon DEF StandsInv
  <2>5. Rendering(Override(Live, call[r].want)) \/ (cm' = cm /\ Live' = Live)
    BY <2>3, <2>4, AppliesRenders, Zenon DEF StandsInv
  <2>6. NoStaleRun /\ Standing => Agrees(Override(Live, call[r].want))
    BY <2>1, WantAgrees, Zenon
  <2> QED
    BY <2>1, <2>2, <2>4, <2>5, <2>6, WriteStands, Zenon
<1> QED
  BY <1>1, <1>2

\* Another operator's upgrade, from its pending revision to its end.
LEMMA OtherStands ==
    ASSUME StandsInv, OtherBegins \/ OtherEnds
    PROVE  StandsInv'
<1>1. UNCHANGED <<local, runVars, call>>
  BY Zenon DEF OtherBegins, OtherEnds, ForeignBegin, ForeignEnd
<1>2. CallsOn
  BY <1>1, Zenon DEF CallsOn, StandsInv, RunsInv, Kept
<1>3. CASE OtherBegins
  <2>1. Upgrade("foreign", "pending-upgrade", [other |-> 1]) /\ cm' = cm
    BY <1>3, Zenon DEF OtherBegins, ForeignBegin, worldVars
  <2>2. Writes(Override(Live, [other |-> 1])) /\ Live' = Live
    BY <2>1, UpgradeWrites DEF StandsInv, Results
  <2> QED
    BY <1>1, <1>2, <2>1, <2>2, WriteStands, OtherAgrees, Zenon
<1>4. CASE OtherEnds
  <2>1. PICK result \in {"failed", "deployed"} : ForeignEnd(result) /\ Applies(result)
    BY <1>4, Zenon DEF OtherEnds
  <2>2. /\ Writes(Latest.vals) /\ hist'[Len(hist')].vals = Latest.vals
        /\ result # "deployed" => Live' = Live
    BY <2>1, EndWrites, Zenon DEF StandsInv
  <2>3. result \in Results
    BY DEF Results
  <2>4. Rendering(Latest.vals) \/ (cm' = cm /\ Live' = Live)
    BY <2>1, <2>2, <2>3, AppliesRenders, Zenon DEF StandsInv
  <2>5. Latest.status = "pending-upgrade"
    BY <2>1, Zenon DEF ForeignEnd
  <2> QED
    BY <1>1, <1>2, <2>2, <2>4, <2>5, WriteStands, PendingAgrees, Zenon
<1> QED
  BY <1>3, <1>4

\* The invocation and its first read of the ConfigMap.
LEMMA ReadStands ==
    ASSUME StandsInv, NEW r \in Runs, Invoke(r) \/ Read(r)
    PROVE  StandsInv'
<1>0. /\ DOMAIN pc = Runs /\ DOMAIN snap = Runs /\ DOMAIN local = Runs
      /\ DOMAIN call = Callers /\ Kept(r)
  BY DEF StandsInv, RunsInv
<1>1. CASE Invoke(r)
  <2>1. Go(r, "read") /\ snap' = snap /\ local' = local /\ cm' = cm /\ pc[r] = "off"
    BY <1>1, Zenon DEF Invoke, Step, worldVars
  <2> QED
    BY <1>0, <2>1, StepStands, Zenon DEF Kept
<1>2. CASE Read(r)
  <2>1. cm' = cm /\ pc[r] = "read"
    BY <1>2, Zenon DEF Read, worldVars
  <2>2. /\ DOMAIN local' = Runs /\ DOMAIN local'[r] = {"phase", "cmuid", "permit"}
        /\ \A s \in Runs \ {r} : local'[s] = local[s]
        /\ local'[r].phase = local[r].phase /\ local'[r].permit = local[r].permit
        /\ \/ local'[r].cmuid = local[r].cmuid /\ local' = local
           \/ local'[r].cmuid = cm.uid /\ Bound(r)
    BY <1>0, <1>2, Zenon DEF Read, Kept
  <2>3. NoStaleRun /\ Standing => Stands(r)
    BY DEF Standing
  <2>4. cm.uid # 0 /\ cm.uid \in Nat
    BY Zenon DEF StandsInv, Versions
  <2>5. CASE Stop(r)
    BY <1>0, <2>1, <2>2, <2>3, <2>4, <2>5, StopWrites, Zenon DEF Stands, Kept
  <2>6. CASE /\ Bound(r) /\ Entry(r) # "off"
             /\ pc' = [pc EXCEPT ![r] = Entry(r)] /\ snap' = [snap EXCEPT ![r] = cm]
             /\ hist' = hist /\ call' = call
    <3>1. /\ DOMAIN pc' = Runs /\ pc'[r] = Entry(r) /\ DOMAIN snap' = Runs
          /\ snap'[r] = cm
          /\ \A s \in Runs \ {r} : pc'[s] = pc[s] /\ snap'[s] = snap[s]
      BY <1>0, <2>6, Zenon
    <3>2. /\ Entry(r) \in {"claim", "persist", "start"}
          /\ Entry(r) = "claim" => cm.phase = "UNINITIALIZED"
          /\ Entry(r) = "persist" => cm.permit.run = r
      BY <2>6, Zenon DEF Entry, EntryOf, OwnAccepted, SamePermit
    <3>3. local'[r].cmuid = cm.uid
      BY <1>0, <1>2, <2>6, Zenon DEF Read, Kept
    <3>4. Kept(r)'
      BY <1>0, <2>1, <2>2, <2>4, <2>6, <3>1, <3>2, <3>3 DEF Kept
    <3>5. ASSUME NoStaleRun, Standing PROVE Stands(r)'
      <4>1. Live' = Live
        BY <2>6, SameWrites DEF StandsInv
      <4>2. call'[r].pc = "idle"
        BY <1>0, <2>1, <2>6, Zenon DEF Kept
      <4> QED
        BY <2>1, <2>2, <2>3, <3>1, <3>2, <3>5, <4>1, <4>2, Zenon DEF Stands
    <3> QED
      BY <1>0, <2>1, <2>2, <2>6, <3>1, <3>4, <3>5, RunStands
  <2> QED
    BY <1>2, <2>5, <2>6, Zenon DEF Read, helmVars
<1> QED
  BY <1>1, <1>2

\* A step that touches nothing of this.
LEMMA SameStands ==
    ASSUME StandsInv, UNCHANGED <<cm, hist, call, pc, snap, local>>
    PROVE  StandsInv'
<1>1. History' /\ Live' = Live
  BY SameWrites, Zenon DEF StandsInv, Writes
<1>2. Versions' /\ RunsInv'
  BY DEF StandsInv, Versions, RunsInv, Kept
<1>3. ASSUME NoStaleRun' PROVE Standing'
  <2>1. Standing
    BY <1>3, Zenon DEF StandsInv, NoStaleRun, Bound
  <2>2. OnePermit' /\ Rendered' /\ Pending'
    BY <1>1, <2>1, Zenon DEF Standing, OnePermit, Rendered, Pending, NoPermit, NoRun
  <2>3. \A r \in Runs : Stands(r)'
    BY <1>1, <2>1, Zenon DEF Standing, Stands
  <2> QED
    BY <2>2, <2>3 DEF Standing
<1> QED
  BY <1>1, <1>2, <1>3 DEF StandsInv

\* The steps that only check, wait or write the run's own state.
LEMMA CheckStands ==
    ASSUME StandsInv, NEW r \in Runs,
           \/ ClaimReadBack(r) \/ StartMember(r) \/ InitialPods(r) \/ BuildPermit(r)
           \/ AdoptPermit(r) \/ PublishReadBack(r) \/ CheckPods(r) \/ Evidence(r)
           \/ ReadLatest(r) \/ AcceptReadBack(r)
    PROVE  StandsInv'
<1>0. /\ DOMAIN pc = Runs /\ DOMAIN snap = Runs /\ DOMAIN local = Runs
      /\ DOMAIN call = Callers /\ Kept(r)
  BY Zenon DEF StandsInv, RunsInv
<1>1. cm' = cm /\ pc[r] \notin {"off", "read", "persist", "persisting"}
  BY Zenon DEF ClaimReadBack, StartMember, InitialPods, BuildPermit, AdoptPermit,
         PublishReadBack, CheckPods, Evidence, ReadLatest, AcceptReadBack, worldVars
<1>2. local[r].cmuid # 0 /\ call[r].pc = "idle"
      /\ DOMAIN local[r] = {"phase", "cmuid", "permit"}
  BY <1>0, <1>1, Zenon DEF Kept
<1>3. CASE Stop(r) /\ local' = local
  BY <1>1, <1>3, StopStands, Zenon
<1>4. CASE StartMember(r)
  BY <1>1, <1>4, SameStands, Zenon DEF StartMember, helmVars
<1>5. CASE InitialPods(r)
  <2>1. /\ pc' = [pc EXCEPT ![r] = "permit"]
        /\ UNCHANGED <<snap, local, hist, call>>
    BY <1>5, Zenon DEF InitialPods, helmVars
  <2>2. DOMAIN pc' = Runs /\ pc'[r] = "permit" /\ \A s \in Runs \ {r} : pc'[s] = pc[s]
    BY <1>0, <2>1, Zenon
  <2>3. Kept(r)'
    BY <1>0, <1>1, <1>2, <2>1, <2>2, Zenon DEF Kept
  <2>4. Live' = Live
    BY <2>1, SameWrites, Zenon DEF StandsInv
  <2>5. ASSUME NoStaleRun, Standing PROVE Stands(r)'
    <3>1. Stands(r)
      BY <2>5 DEF Standing
    <3> QED
      BY <1>1, <2>1, <2>2, <2>4, <3>1, Zenon DEF Stands
  <2> QED
    BY <1>0, <1>1, <2>1, <2>2, <2>3, <2>5, RunStands, Zenon
<1>6. CASE BuildPermit(r)
  <2>1. Go(r, "publish") /\ snap' = snap /\ snap[r].permit = NoPermit
    BY <1>6, Zenon DEF BuildPermit, Step
  <2>2. /\ DOMAIN local' = Runs /\ DOMAIN local'[r] = {"phase", "cmuid", "permit"}
        /\ \A s \in Runs \ {r} : local'[s] = local[s]
        /\ local'[r].cmuid = local[r].cmuid /\ local'[r].phase = "PERMIT_READY"
    BY <1>0, <1>2, <1>6, Zenon DEF BuildPermit
  <2> QED
    BY <1>1, <1>2, <2>1, <2>2, StepStands, Zenon
<1>7. CASE AdoptPermit(r) /\ ~(Stop(r) /\ local' = local)
  <2>1. Go(r, "pods") /\ snap' = snap
        /\ local' = [local EXCEPT ![r].phase = "PERMIT_READY", ![r].permit = snap[r].permit]
    BY <1>7, Zenon DEF AdoptPermit, Step
  <2>2. /\ DOMAIN local' = Runs /\ DOMAIN local'[r] = {"phase", "cmuid", "permit"}
        /\ \A s \in Runs \ {r} : local'[s] = local[s]
        /\ local'[r].cmuid = local[r].cmuid /\ local'[r].phase = "PERMIT_READY"
    BY <1>0, <1>2, <2>1, Zenon
  <2> QED
    BY <1>1, <1>2, <2>1, <2>2, StepStands, Zenon
<1>8. CASE ClaimReadBack(r) /\ ~(Stop(r) /\ local' = local)
  <2>1. Go(r, "start") /\ snap' = [snap EXCEPT ![r] = cm]
        /\ local' = [local EXCEPT ![r].phase = "CLAIMED"]
    BY <1>8, Zenon DEF ClaimReadBack, ReadBack
  <2>2. /\ DOMAIN local' = Runs /\ DOMAIN local'[r] = {"phase", "cmuid", "permit"}
        /\ \A s \in Runs \ {r} : local'[s] = local[s]
        /\ local'[r].cmuid = local[r].cmuid /\ local'[r].phase = "CLAIMED"
    BY <1>0, <1>2, <2>1, Zenon
  <2> QED
    BY <1>1, <1>2, <2>1, <2>2, StepStands, Zenon
<1>9. CASE /\ PublishReadBack(r) \/ ReadLatest(r) \/ AcceptReadBack(r)
           /\ ~(Stop(r) /\ local' = local)
  <2>1. PICK next \in {"pods", "accept", "persist"} :
          /\ Go(r, next) /\ snap' = [snap EXCEPT ![r] = cm] /\ local' = local
          /\ next = "persist" => pc[r] = "accepted" /\ cm.permit = snap[r].permit
    BY <1>9, Zenon DEF PublishReadBack, ReadLatest, AcceptReadBack, ReadBack
  <2>2. next = "persist" => snap'[r].permit = cm.permit /\ cm.permit.run = r
    BY <1>0, <2>1, Zenon DEF Kept
  <2> QED
    BY <1>0, <1>1, <1>2, <2>1, <2>2, StepStands, Zenon
<1>10. CASE (CheckPods(r) \/ Evidence(r)) /\ ~(Stop(r) /\ local' = local)
  <2>1. PICK next \in {"evidence", "latest", "ready"} :
          Go(r, next) /\ snap' = snap /\ local' = local
    BY <1>10, Zenon DEF CheckPods, Evidence, Step
  <2> QED
    BY <1>0, <1>1, <1>2, <2>1, StepStands, Zenon
<1> QED
  BY <1>3, <1>4, <1>5, <1>6, <1>7, <1>8, <1>9, <1>10, Zenon

\* The release has no permit that the ConfigMap does not accept.
LEMMA NotYetLive ==
    ASSUME StandsInv, Standing, cm.phase # "ACCEPTED" \/ cm.permit = NoPermit
    PROVE  Live.permit = NoPermit
BY DeployedIs, Zenon DEF StandsInv, Standing, Rendered, OnePermit, Live

\* The patches, applied or not.
LEMMA PatchesStand ==
    ASSUME ClaimInv, StandsInv, NEW r \in Runs,
           Claim(r) \/ Publish(r) \/ Accept(r) \/ PatchLost(r)
    PROVE  StandsInv'
<1>0. /\ DOMAIN local = Runs /\ Kept(r) /\ Carried(r)
  BY DEF StandsInv, RunsInv, ClaimInv
<1>1. PICK next \in {"claimed", "published", "accepted"} :
        /\ Step(r, next) /\ local' = local
        /\ next = "claimed" => pc[r] = "claim" /\ (cm' = cm \/ Claim(r))
        /\ next = "published" => pc[r] = "publish" /\ (cm' = cm \/ Publish(r))
        /\ next = "accepted" => pc[r] = "accept" /\ (cm' = cm \/ Accept(r))
  BY Zenon DEF Claim, Publish, Accept, PatchLost, worldVars
<1>2. pc[r] \in {"claim", "publish", "accept"}
  BY <1>1, Zenon
<1>3. next = "accepted" => snap[r].permit.run = r /\ snap[r].phase = "INITIALIZING"
  BY <1>0, <1>1, Zenon DEF Carried, Permitted
<1>4. CASE cm' = cm
  <2>1. Go(r, next) /\ snap' = snap
    BY <1>1, Zenon DEF Step
  <2>2. local[r].cmuid # 0 /\ DOMAIN local[r] = {"phase", "cmuid", "permit"}
    BY <1>0, <1>2, Zenon DEF Kept
  <2> QED
    BY <1>0, <1>1, <1>2, <1>3, <1>4, <2>1, <2>2, StepStands, Zenon
<1>5. CASE cm' # cm
  <2>1. DOMAIN cm = {"uid", "rv", "phase", "run", "permit"}
    BY Zenon DEF StandsInv, Versions
  <2>2. Unmoved(r) /\ DOMAIN cm' = DOMAIN cm /\ cm'.uid = cm.uid /\ cm'.rv = cm.rv + 1
    BY <1>1, <1>5, <2>1, Zenon DEF Claim, Publish, Accept, Patch, Claimed
  <2>3. snap[r] = cm
    BY <2>2, Zenon DEF Unmoved, StandsInv, Versions
  <2>4. ASSUME NoStaleRun, Standing
        PROVE  /\ Live.permit = NoPermit
               /\ cm'.permit = cm.permit \/ (cm.permit = NoPermit /\ cm'.permit.run = r)
    <3>1. CASE next = "claimed"
      <4>1. cm'.permit = cm.permit
        BY <1>1, <1>5, <2>1, <3>1, Zenon DEF Claim, Patch, Claimed
      <4>2. cm.phase = "UNINITIALIZED"
        BY <1>0, <1>1, <2>3, <3>1, Zenon DEF Kept
      <4> QED
        BY <2>4, <4>1, <4>2, NotYetLive
    <3>2. CASE next = "published"
      <4>1. cm'.permit = local[r].permit /\ local[r].permit.run = r
        BY <1>0, <1>1, <1>5, <2>1, <2>2, <3>2, Zenon DEF Publish, Patch, Carried, Permitted
      <4>2. cm.permit = NoPermit
        BY <1>0, <1>1, <2>3, <3>2, Zenon DEF Kept
      <4> QED
        BY <2>4, <4>1, <4>2, NotYetLive, Zenon
    <3>3. CASE next = "accepted"
      <4>1. cm'.permit = cm.permit
        BY <1>1, <1>5, <2>1, <3>3, Zenon DEF Accept
      <4> QED
        BY <1>3, <2>3, <2>4, <3>3, <4>1, NotYetLive, Zenon
    <3> QED
      BY <3>1, <3>2, <3>3, Zenon
  <2> QED
    BY <1>1, <1>2, <1>3, <2>2, <2>4, PatchStands, Zenon
<1> QED
  BY <1>4, <1>5

\* The end of a run: its Helm call, and the local ACCEPTED.
LEMMA EndStands ==
    ASSUME StandsInv, NEW r \in Runs, Persist(r) \/ Finish(r)
    PROVE  StandsInv'
<1>0. /\ DOMAIN pc = Runs /\ DOMAIN snap = Runs /\ DOMAIN local = Runs
      /\ DOMAIN call = Callers /\ r \in Callers /\ Kept(r)
  BY InitAssumption DEF StandsInv, RunsInv
<1>1. cm' = cm /\ pc[r] \in {"persist", "persisting"}
  BY Zenon DEF Persist, Finish, worldVars
<1>2. local[r].cmuid # 0 /\ DOMAIN local[r] = {"phase", "cmuid", "permit"}
  BY <1>0, <1>1, Zenon DEF Kept
<1>3. NoStaleRun /\ Standing => Stands(r)
  BY DEF Standing
<1>4. CASE Persist(r)
  <2> DEFINE w == [phase |-> "ACCEPTED", run |-> r, replicas |-> 1,
                   permit |-> snap[r].permit]
             k == [NoCall EXCEPT !.pc = "snapshot", !.want = w]
  <2>1. /\ UNCHANGED <<snap, local, hist>> /\ pc' = [pc EXCEPT ![r] = "persisting"]
        /\ call' = [call EXCEPT ![r] = k]
    BY <1>4, Zenon DEF Persist, HelmBegin
  <2>2. DOMAIN k = {"pc", "want", "rev", "vals"} /\ k.pc = "snapshot" /\ k.want = w
    BY DEF NoCall
  <2> HIDE DEF k
  <2>3. /\ DOMAIN pc' = Runs /\ pc'[r] = "persisting" /\ DOMAIN call' = Callers
        /\ call'[r] = k
        /\ \A s \in Runs \ {r} : pc'[s] = pc[s] /\ call'[s] = call[s]
    BY <1>0, <2>1, InitAssumption, Zenon
  <2>4. Kept(r)'
    BY <1>0, <1>1, <1>2, <2>1, <2>2, <2>3, Zenon DEF Kept
  <2>5. ASSUME NoStaleRun, Standing PROVE Stands(r)'
    <3>1. Live' = Live
      BY <2>1, SameWrites DEF StandsInv
    <3>2. Stands(r)
      BY <1>3, <2>5
    <3>3. snap[r].permit = cm.permit /\ cm.permit.run = r
      BY <1>1, <3>2, Zenon DEF Stands
    <3> QED
      BY <1>1, <2>1, <2>2, <2>3, <3>1, <3>2, <3>3, Zenon DEF Stands
  <2> QED
    BY <1>0, <1>1, <2>1, <2>3, <2>4, <2>5, RunStands, Zenon
<1>5. CASE Finish(r)
  <2>1. /\ local' = [local EXCEPT ![r].phase = "ACCEPTED", ![r].permit = snap[r].permit]
        /\ Stop(r) /\ pc[r] = "persisting" /\ call[r].pc = "ok"
    BY <1>5, Zenon DEF Finish
  <2>2. /\ DOMAIN local' = Runs /\ DOMAIN local'[r] = {"phase", "cmuid", "permit"}
        /\ \A s \in Runs \ {r} : local'[s] = local[s]
        /\ local'[r].cmuid = local[r].cmuid /\ local'[r].permit = snap[r].permit
    BY <1>0, <1>2, <2>1, Zenon
  <2>3. NoStaleRun /\ Standing =>
          snap[r].permit = cm.permit /\ cm.permit.run = r /\ Live.permit = cm.permit
    BY <1>3, <2>1, Zenon DEF Stands
  <2> QED
    BY <1>1, <1>2, <2>1, <2>2, <2>3, StopWrites, Zenon
<1> QED
  BY <1>4, <1>5

\* A new ConfigMap: no run is bound to the old one unless it is stale, so
\* nothing of the release has a permit yet.
LEMMA RecreatedStands ==
    ASSUME StandsInv, Recreated
    PROVE  StandsInv'
<1>1. UNCHANGED <<hist, call, pc, snap, local>>
  BY DEF Recreated, helmVars, runVars
<1>2. /\ DOMAIN cm' = {"uid", "rv", "phase", "run", "permit"} /\ cm'.uid = cm.uid + 1
      /\ cm'.rv = 0 /\ cm'.permit = NoPermit /\ cm.uid \in Nat \ {0}
  BY Zenon DEF Recreated, NoMap, StandsInv, Versions
<1>3. History' /\ Live' = Live
  BY <1>1, SameWrites, Zenon DEF StandsInv, Writes
<1>4. Versions'
  BY <1>1, <1>2 DEF StandsInv, Versions
<1>5. RunsInv'
  BY <1>1, <1>2 DEF StandsInv, RunsInv, Kept
<1>6. ASSUME NoStaleRun' PROVE Standing'
  <2>1. \A r \in Runs : local[r].cmuid = 0
    BY <1>1, <1>2, <1>6 DEF NoStaleRun, Bound, StandsInv, RunsInv, Kept
  <2>2. Standing
    BY <2>1 DEF NoStaleRun, Bound, StandsInv
  <2>3. cm.permit = NoPermit
    BY <2>1, <2>2, Zenon DEF Standing, OnePermit
  <2>4. \A i \in 1..Len(hist) : hist[i].vals.permit = NoPermit
    BY <2>2, <2>3, Zenon DEF Standing, OnePermit
  <2>5. OnePermit'
    BY <1>1, <1>2, <2>4, Zenon DEF OnePermit, NoPermit, NoRun
  <2>6. Rendered'
    BY <1>3, <2>4, DeployedIs, Zenon DEF Rendered, StandsInv, Live, NoPermit, NoRun
  <2>7. ASSUME NEW r \in Runs PROVE Stands(r)'
    <3>1. pc[r] \in {"off", "read"} /\ local[r].phase = "CREATED" /\ call[r].pc = "idle"
      BY <2>1, Zenon DEF StandsInv, RunsInv, Kept
    <3> QED
      BY <1>1, <3>1, Zenon DEF Stands
  <2>8. Pending'
    BY <1>1, <1>3, <2>2, Zenon DEF Standing, Pending, NoPermit, NoRun
  <2> QED
    BY <2>5, <2>6, <2>7, <2>8 DEF Standing
<1> QED
  BY <1>3, <1>4, <1>5, <1>6 DEF StandsInv

LEMMA NextStands == ClaimInv /\ StandsInv /\ [Next]_vars => StandsInv'
<1> SUFFICES ASSUME ClaimInv, StandsInv, [Next]_vars PROVE StandsInv'
  OBVIOUS
<1>1. ASSUME NEW r \in Runs, HelmRaises(r) \/ TimeOut(r) \/ Crash(r) PROVE StandsInv'
  BY <1>1, StopStands, Zenon DEF HelmRaises, TimeOut, Crash, worldVars
<1>2. ASSUME NEW r \in Runs, Operator(r) PROVE StandsInv'
  BY <1>1, <1>2, ReadStands, CheckStands, PatchesStand, EndStands, HelmStands, Zenon DEF Operator
<1>3. CASE \E m \in Members : Kubernetes(m) \/ PodReplaced(m)
  BY <1>3, SameStands, Zenon DEF Kubernetes, PodReplaced, helmVars, runVars
<1>4. CASE UNCHANGED vars
  BY <1>4, SameStands, Zenon DEF vars, helmVars, runVars, worldVars
<1> QED
  BY <1>1, <1>2, <1>3, <1>4, HelmStands, PatchesStand, OtherStands,
     RecreatedStands, Zenon DEF Next

\* A run whose own state says ACCEPTED is the one the ConfigMap has accepted, under
\* the permit it holds, whatever other operators rendered, crashed over or lost
\* since: persist_initialized_world precedes the local ACCEPTED, and no later
\* command of anyone takes the permit out of the release.
THEOREM AcceptedWorldStands == Spec => []AcceptedStands
<1>1. StandsInv => AcceptedStands
  <2> SUFFICES ASSUME StandsInv, NEW r \in Runs, local[r].phase = "ACCEPTED", NoStaleRun
               PROVE  cm.phase = "ACCEPTED" /\ cm.run = r /\ cm.permit = local[r].permit
    BY Zenon DEF AcceptedStands
  <2>1. Rendered /\ local[r].permit = cm.permit /\ cm.permit.run = r
        /\ Live.permit = cm.permit
    BY Zenon DEF StandsInv, Standing, Stands
  <2>2. Live.permit # NoPermit
    BY <2>1, HolderHas
  <2> QED
    BY <2>1, <2>2, Zenon DEF Rendered
<1> QED
  BY <1>1, InitClaimInv, InitStands, NextKeeps, NextStands, PTL DEF Spec
=============================================================================
