------------------------- MODULE AffinityLoadProofs -------------------------
(***************************************************************************)
(* For every number of requests, operations, instances and slots: a slot   *)
(* of a prefix load is reused only when nothing can touch it, blocks       *)
(* outlive the work on them, and prefix loads call the scheduler within    *)
(* the protocol of SlotClients.  The load task, the recovery task and the  *)
(* loop all clean up, so what a pass has proved at its queries must still  *)
(* hold when it releases: PassInv says that no command is sent for an      *)
(* operation that any of them cleans up.  BlocksInv says how far the       *)
(* commands of an operation have got at each await of its load; with       *)
(* PassInv it follows that a cleanup finalizes nothing that work needs.    *)
(***************************************************************************)
EXTENDS AffinitySlots, TLAPS

\* The types of run, remote and rq.
Runs == [Tasks -> [at : Loading \cup {"off", "publish", "begin", "retry", "query", "final", "done"},
                   op : Ops \cup {NoOp},
                   why : {"load", "fallback", "error", "recover", "suffix", "finish", "abort"}]]

Remotes == [Ops -> [Kinds -> {"none", "sent", "run", "done", "free"}]]

Requests == [Reqs -> [state : {"ABSENT", "WAITING", "COLD", "AFFINITY_LOADING", "PREFIX_PREFILLING",
                               "DECODING", "FINISHED", "ABORTED", "GONE"},
                      op : Ops \cup {NoOp}]]

USE DEF Runs, Remotes, Requests

Shape == TypeOK /\ lease \in [Ops -> Leases \cup {NoLease}]

\* The task of an operation works on that operation.
OwnTask == \A o \in Ops : run[o].op = o

\* The load of a request is over when the tracker says so.
Promoted == {"PREFIX_PREFILLING", "DECODING", "FINISHED", "ABORTED"}

\* A request has the lease of its operation, and neither a promoted request nor the
\* loop meets an operation that is still loading.
Apart ==
    /\ \A r \in Reqs : rq[r].op \in Ops => lease[rq[r].op] # NoLease
    /\ \A r \in Reqs : rq[r].state \in Promoted =>
          rq[r].op \in Ops /\ run[rq[r].op].at \notin Loading
    /\ run[Loop].at # "off" => run[Loop].op \in Ops /\ run[run[Loop].op].at \notin Loading

\* No command of the operation runs or can start.
Settled(o) == \A k \in Kinds : remote[o][k] \in {"none", "done", "free"}

\* What the queries of a pass have proved stands until it releases.
Proven == \A x \in Tasks : run[x].at = "final" => Settled(run[x].op)

PassInv == Shape /\ OwnTask /\ Apart /\ Proven /\ NoWriterAfterRelease

-----------------------------------------------------------------------------

LEMMA InitPass == Init => PassInv
<1> SUFFICES ASSUME Init PROVE PassInv
  OBVIOUS
<1> USE DEF Init, SchedInit, Off, Tasks
<1>1. Shape
  BY Zenon DEF Shape, TypeOK
<1>2. \A x \in Tasks : run[x].at = "off"
  OBVIOUS
<1>3. OwnTask /\ Apart /\ Proven /\ NoWriterAfterRelease
  BY <1>2, AffinityAssumption, Zenon DEF OwnTask, Apart, Promoted, Proven, NoWriterAfterRelease
<1> QED
  BY <1>1, <1>3, Zenon DEF PassInv

\* What almost every step has in common: no load begins, the loop takes up no
\* request, no pass becomes conclusive, and for operations that are not loading
\* nothing is sent.
Calm ==
    /\ Shape'
    /\ \A y \in Tasks : /\ run'[y].op = run[y].op
                        /\ run'[y].at \in Loading => run[y].at \in Loading
                        /\ run'[y].at = "final" => run[y].at = "final"
    /\ run'[Loop].at # "off" => run[Loop].at # "off"
    /\ \A r \in Reqs : rq'[r].op \in Ops => rq'[r].op = rq[r].op
    /\ \A r \in Reqs : rq'[r].state \in Promoted =>
          /\ rq'[r].op \in Ops
          /\ rq[r].state \in Promoted \/ run'[rq'[r].op].at \notin Loading
    /\ \A o \in Ops : lease[o] # NoLease => lease'[o] # NoLease
    /\ \A o \in Ops :
          lease'[o] # NoLease /\ lease'[o].state = "RELEASED" =>
             \/ lease[o] # NoLease /\ lease[o].state = "RELEASED"
             \/ run[o].at \notin Loading /\ \A k \in Kinds : remote'[o][k] \in {"none", "free"}
    /\ \A o \in Ops, k \in Kinds : run[o].at \notin Loading =>
          /\ remote[o][k] \in {"none", "done", "free"} => remote'[o][k] \in {"none", "done", "free"}
          /\ remote[o][k] \in {"none", "free"} => remote'[o][k] \in {"none", "free"}

\* The operation of a pass, and of a loop that is busy, is not loading.
LEMMA PassApart ==
    ASSUME PassInv, NEW x \in Tasks, run[x].at \notin Loading \cup {"off"}
    PROVE  run[x].op \in Ops /\ run[run[x].op].at \notin Loading
BY Zenon DEF PassInv, OwnTask, Apart, Tasks

LEMMA CalmKeeps == PassInv /\ Calm => PassInv'
<1> SUFFICES ASSUME PassInv, Calm PROVE PassInv'
  OBVIOUS
<1>0. Shape' /\ Shape
  BY Zenon DEF PassInv, Calm
<1>1. OwnTask'
  BY DEF Calm, PassInv, OwnTask, Tasks
<1>2. Apart'
  <2>1. ASSUME NEW r \in Reqs, rq'[r].op \in Ops PROVE lease'[rq'[r].op] # NoLease
    BY <2>1 DEF Calm, PassInv, Apart
  <2>2. ASSUME NEW r \in Reqs, rq'[r].state \in Promoted
        PROVE  rq'[r].op \in Ops /\ run'[rq'[r].op].at \notin Loading
    BY <2>2, Zenon DEF Calm, PassInv, Apart, Tasks
  <2>3. ASSUME run'[Loop].at # "off"
        PROVE  run'[Loop].op \in Ops /\ run'[run'[Loop].op].at \notin Loading
    BY <2>3 DEF Calm, PassInv, Apart, Tasks
  <2> QED
    BY <2>1, <2>2, <2>3, Zenon DEF Apart
<1>3. Proven'
  <2> SUFFICES ASSUME NEW x \in Tasks, run'[x].at = "final" PROVE Settled(run[x].op)'
    BY Zenon DEF Proven, Calm, Settled
  <2>1. run[x].at = "final" /\ Settled(run[x].op)
    BY Zenon DEF Calm, PassInv, Proven
  <2>2. run[x].op \in Ops /\ run[run[x].op].at \notin Loading
    BY <2>1, PassApart, Zenon DEF Loading
  <2> QED
    BY <2>1, <2>2, Zenon DEF Settled, Calm
<1>4. NoWriterAfterRelease'
  <2> SUFFICES ASSUME NEW o \in Ops, lease'[o] # NoLease, lease'[o].state = "RELEASED"
               PROVE  run'[o].at \notin Loading /\ \A k \in Kinds : remote'[o][k] \in {"none", "free"}
    BY Zenon DEF NoWriterAfterRelease
  <2>1. run[o].at \notin Loading
    BY Zenon DEF Calm, PassInv, NoWriterAfterRelease
  <2>2. run'[o].at \notin Loading
    BY <2>1, Zenon DEF Calm, Tasks
  <2>3. \A k \in Kinds : remote'[o][k] \in {"none", "free"}
    BY <2>1, Zenon DEF Calm, PassInv, NoWriterAfterRelease
  <2> QED
    BY <2>2, <2>3, Zenon
<1> QED
  BY <1>0, <1>1, <1>2, <1>3, <1>4, Zenon DEF PassInv

-----------------------------------------------------------------------------
\* The steps, one by one

Put(o, k, v) == remote' = [remote EXCEPT ![o][k] = v]

\* A worker operation changes; the operations of other ids do not.
LEMMA RemoteSet ==
    ASSUME Shape, NEW o \in Ops, NEW k \in Kinds, NEW v \in {"none", "sent", "run", "done", "free"},
           Put(o, k, v)
    PROVE  /\ remote' \in Remotes
           /\ \A p \in Ops, j \in Kinds :
                 remote'[p][j] = IF p = o /\ j = k THEN v ELSE remote[p][j]
<1> DEFINE Row == [Kinds -> {"none", "sent", "run", "done", "free"}]
<1>1. remote \in [Ops -> Row] /\ remote[o] \in Row
  BY Zenon DEF Shape, TypeOK
<1>2. [remote[o] EXCEPT ![k] = v] \in Row
  BY <1>1, Zenon
<1>3. remote' = [remote EXCEPT ![o] = [remote[o] EXCEPT ![k] = v]]
  BY Zenon DEF Put
<1> HIDE DEF Row
<1>4. remote' \in [Ops -> Row]
  BY <1>1, <1>2, <1>3, Zenon
<1>5. \A p \in Ops : remote'[p] = IF p = o THEN [remote[o] EXCEPT ![k] = v] ELSE remote[p]
  BY <1>1, <1>3, Zenon
<1>6. \A j \in Kinds : [remote[o] EXCEPT ![k] = v][j] = IF j = k THEN v ELSE remote[o][j]
  BY <1>1, Zenon DEF Row
<1> QED
  BY <1>4, <1>5, <1>6, Zenon DEF Row

\* A load that goes on, ends or fails; only its own commands are sent.
LEMMA LoadCalm ==
    ASSUME PassInv, Shape', NEW o \in Ops, UNCHANGED <<lease, rq>>,
           run[o].at \in Loading \cup {"publish"},
           run'[o].at \in Loading \cup {"publish", "begin", "off"},
           run'[o].at \in Loading => run[o].at \in Loading,
           run'[o].op = run[o].op,
           \A y \in Tasks : y # o => run'[y] = run[y],
           \A p \in Ops : p # o => remote'[p] = remote[p],
           remote' = remote \/ run[o].at \in Loading
    PROVE  PassInv'
<1>2. o # Loop /\ o \in Tasks /\ Loop \in Tasks
  BY AffinityAssumption, Zenon DEF Tasks
<1>6. \A y \in Tasks : /\ run'[y].op = run[y].op
                       /\ run'[y].at \in Loading => run[y].at \in Loading
                       /\ run'[y].at = "final" => run[y].at = "final"
  BY Zenon DEF Loading
<1>7. run'[Loop] = run[Loop]
  BY <1>2, Zenon
<1>8. \A p \in Ops, k \in Kinds : run[p].at \notin Loading => remote'[p] = remote[p]
  OBVIOUS
<1>9. \A r \in Reqs : rq[r].state \in Promoted => rq[r].op \in Ops
  BY Zenon DEF PassInv, Apart
<1>11. Calm
  BY <1>6, <1>7, <1>8, <1>9, Zenon DEF Calm
<1> QED
  BY <1>11, CalmKeeps, Zenon

LEMMA SetTask ==
    ASSUME Shape, NEW x \in Tasks,
           NEW to \in Loading \cup {"off", "publish", "begin", "retry", "query", "final", "done"},
           Set(x, to)
    PROVE  /\ run' \in Runs
           /\ run'[x].at = to /\ run'[x].op = run[x].op /\ run'[x].why = run[x].why
           /\ \A y \in Tasks : y # x => run'[y] = run[y]
<1> DEFINE Row == [at : Loading \cup {"off", "publish", "begin", "retry", "query", "final",
                                      "done"},
                   op : Ops \cup {NoOp},
                   why : {"load", "fallback", "error", "recover", "suffix", "finish", "abort"}]
           g == [run[x] EXCEPT !.at = to]
<1>1. run \in [Tasks -> Row] /\ run[x] \in Row
  BY DEF Shape, TypeOK
<1>2. g \in Row /\ g.at = to /\ g.op = run[x].op /\ g.why = run[x].why
  BY <1>1, Zenon
<1>3. run' = [run EXCEPT ![x] = g]
  BY Zenon DEF Set
<1> HIDE DEF g, Row
<1>4. /\ run' \in [Tasks -> Row] /\ run'[x] = g
      /\ \A y \in Tasks : y # x => run'[y] = run[y]
  BY <1>1, <1>2, <1>3
<1> QED
  BY <1>2, <1>4, Zenon DEF Row

LEMMA SendOne ==
    ASSUME Shape, NEW o \in Ops, NEW k \in Kinds, Send(o, k)
    PROVE  /\ remote' \in Remotes
           /\ \A p \in Ops : p # o => remote'[p] = remote[p]
           /\ \A p \in Ops, j \in Kinds :
                 remote'[p][j] = IF p = o /\ j = k THEN "sent" ELSE remote[p][j]
<1>1. remote \in Remotes
  BY Zenon DEF Shape, TypeOK
<1>2. Put(o, k, "sent")
  BY Zenon DEF Send, Put
<1> QED
  BY <1>1, <1>2, RemoteSet

\* The load goes on and sends at most one command.
LEMMA StepKeeps ==
    ASSUME PassInv, NEW o \in Ops, NEW from \in Loading \cup {"publish"},
           NEW to \in Loading \cup {"publish", "off"}, to \in Loading => from \in Loading,
           Step(o, from, to), UNCHANGED <<schedVars, rq, mode, poisoned>>,
           remote' = remote \/ (from \in Loading /\ \E k \in Kinds : Send(o, k))
    PROVE  PassInv'
<1>1. Shape /\ o \in Tasks
  BY Zenon DEF PassInv, Tasks
<1>2. run[o].at = from /\ Set(o, to)
  BY Zenon DEF Step
<1>3. remote' \in Remotes
      /\ \A p \in Ops : p # o => remote'[p] = remote[p]
  BY <1>1, SendOne, Zenon DEF Shape, TypeOK
<1>4. Shape'
  BY <1>1, <1>2, <1>3, SetTask, Zenon DEF Shape, TypeOK, schedVars
<1> QED
  BY <1>1, <1>2, <1>3, <1>4, SetTask, LoadCalm DEF schedVars

LEMMA SetWhy ==
    ASSUME NEW S, NEW A, NEW P, NEW W, NEW h \in [S -> [at : A, op : P, why : W]],
           NEW x \in S, NEW w \in W
    PROVE  LET g == [h EXCEPT ![x].why = w]
           IN  /\ g \in [S -> [at : A, op : P, why : W]]
               /\ g[x].at = h[x].at /\ g[x].op = h[x].op
               /\ \A y \in S : y # x => g[y] = h[y]
OBVIOUS

\* A task moves and changes what it is for.
LEMMA TurnTask ==
    ASSUME Shape, NEW x \in Tasks, NEW why \in {"recover", "fallback", "error"},
           run' = [run EXCEPT ![x].at = "begin", ![x].why = why]
    PROVE  /\ run' \in Runs
           /\ run'[x].at = "begin" /\ run'[x].op = run[x].op
           /\ \A y \in Tasks : y # x => run'[y] = run[y]
<1> DEFINE Rec == [at : Loading \cup {"off", "publish", "begin", "retry", "query", "final", "done"},
                   op : Ops \cup {NoOp},
                   why : {"load", "fallback", "error", "recover", "suffix", "finish", "abort"}]
           h == [run EXCEPT ![x].at = "begin"]
<1>1. run \in [Tasks -> Rec]
  BY Zenon DEF Shape, TypeOK
<1>2. /\ h \in [Tasks -> Rec] /\ h[x].at = "begin" /\ h[x].op = run[x].op
      /\ \A y \in Tasks : y # x => h[y] = run[y]
  BY <1>1
<1>3. run' = [h EXCEPT ![x].why = why]
  OBVIOUS
<1> HIDE DEF h
<1>4. /\ [h EXCEPT ![x].why = why] \in [Tasks -> Rec]
      /\ [h EXCEPT ![x].why = why][x].at = h[x].at /\ [h EXCEPT ![x].why = why][x].op = h[x].op
      /\ \A y \in Tasks : y # x => [h EXCEPT ![x].why = why][y] = h[y]
  BY ONLY <1>2, SetWhy, why \in {"recover", "fallback", "error"}, x \in Tasks
<1> DEFINE g == [h EXCEPT ![x].why = why]
<1>5. run' = g
  BY <1>3, Zenon
<1>6. g \in [Tasks -> Rec] /\ g[x].at = "begin" /\ g[x].op = run[x].op
      /\ \A y \in Tasks : y # x => g[y] = run[y]
  BY <1>2, <1>4, Zenon
<1> HIDE DEF g
<1> QED
  BY ONLY <1>5, <1>6, Zenon

LEMMA LoadKeeps ==
    ASSUME PassInv, NEW o \in Ops,
           \/ Start(o) \/ Resolved(o) \/ Prepared(o) \/ Copy(o) \/ Copied(o) \/ Published(o)
           \/ \E why \in {"fallback", "error"} : LoadFails(o, why)
    PROVE  PassInv'
<1>1. CASE Start(o)
  BY <1>1, StepKeeps, Zenon DEF Start, Loading, Kinds
<1>2. CASE Resolved(o)
  BY <1>2, StepKeeps, Zenon DEF Resolved, Loading, Kinds
<1>3. CASE Prepared(o)
  BY <1>3, StepKeeps, Zenon DEF Prepared, Loading, Kinds
<1>4. CASE Copy(o)
  BY <1>4, StepKeeps, Zenon DEF Copy, Loading, Kinds
<1>5. CASE Copied(o)
  BY <1>5, StepKeeps, Zenon DEF Copied, Loading, Kinds
<1>6. CASE Published(o)
  BY <1>6, StepKeeps, Zenon DEF Published, Loading, Kinds
<1>7. ASSUME NEW why \in {"fallback", "error"}, LoadFails(o, why) PROVE PassInv'
  <2>1. Shape /\ o \in Tasks
    BY Zenon DEF PassInv, Tasks
  <2>2. /\ run' \in Runs
        /\ run'[o].at = "begin" /\ run'[o].op = run[o].op
        /\ \A y \in Tasks : y # o => run'[y] = run[y]
    BY <1>7, <2>1, TurnTask, Zenon DEF LoadFails
  <2>3. Shape'
    BY <1>7, <2>1, <2>2, Zenon DEF LoadFails, Shape, TypeOK, schedVars
  <2> QED
    BY <1>7, <2>2, <2>3, LoadCalm DEF LoadFails, schedVars, Loading
<1> QED
  BY <1>1, <1>2, <1>3, <1>4, <1>5, <1>6, <1>7, Zenon

\* How a pass may leave the tasks and the requests.
Tame ==
    /\ run' \in Runs
    /\ \A y \in Tasks : /\ run'[y].op = run[y].op
                        /\ run'[y].at \in Loading => run'[y] = run[y]
                        /\ run'[y].at = "final" => run[y].at = "final"
    /\ run'[Loop].at # "off" => run[Loop].at # "off"

Meek(o) ==
    /\ rq' \in Requests
    /\ \A r \in Reqs : /\ rq'[r].op \in Ops => rq'[r].op = rq[r].op
                       /\ rq'[r].state \in Promoted =>
                             rq'[r] = rq[r] \/ rq'[r].op = o

LEMMA TameSet ==
    ASSUME Shape, NEW x \in Tasks, run[x].at # "off",
           NEW to \in {"off", "publish", "begin", "retry", "query", "done"}, Set(x, to)
    PROVE  Tame
<1>1. /\ run' \in Runs
      /\ run'[x].at = to /\ run'[x].op = run[x].op
      /\ \A y \in Tasks : y # x => run'[y] = run[y]
  BY SetTask
<1>2. to \notin Loading \cup {"final"} /\ Loop \in Tasks
  BY Zenon DEF Loading, Tasks
<1> QED
  BY <1>1, <1>2, Zenon DEF Tame

LEMMA TameOutcome ==
    ASSUME Shape, OwnTask, NEW x \in Tasks, run[x].at # "off", run[x].op \in Ops,
           Quarantined(x) \/ Expired(x)
    PROVE  Tame
<1> DEFINE o == run[x].op
           Rec == [at : Loading \cup {"off", "publish", "begin", "retry", "query", "final", "done"},
                   op : Ops \cup {NoOp},
                   why : {"load", "fallback", "error", "recover", "suffix", "finish", "abort"}]
           Ret == Retained(o)
<1>1. run \in [Tasks -> Rec] /\ o \in Tasks /\ run[o].op = o /\ Loop \in Tasks /\ o # Loop
  BY AffinityAssumption, Zenon DEF Shape, TypeOK, Tasks, OwnTask
<1>2. /\ Ret \in Rec /\ Ret.op = o
      /\ Ret.at \in Loading => Ret = run[o]
      /\ Ret.at = "final" => run[o].at = "final"
  BY <1>1, Zenon DEF Retained, Loading
<1>3. \/ run' = [run EXCEPT ![x].at = "begin"]
      \/ run' = [run EXCEPT ![x].at = "off", ![o] = Ret]
      \/ run' = [run EXCEPT ![x].at = "off"]
      \/ run' = [run EXCEPT ![x].at = "begin", ![x].why = "recover"]
  BY Zenon DEF Quarantined, Expired
<1> HIDE DEF Ret
<1>4. CASE run' = [run EXCEPT ![x].at = "off", ![o] = Ret]
  <2> DEFINE h == [run EXCEPT ![x].at = "off"]
  <2>1. /\ h \in [Tasks -> Rec] /\ h[x].at = "off" /\ h[x].op = run[x].op
        /\ \A y \in Tasks : y # x => h[y] = run[y]
    BY <1>1
  <2>2. run' = [h EXCEPT ![o] = Ret]
    BY <1>4, Zenon
  <2> HIDE DEF h, o
  <2>3. /\ run' \in [Tasks -> Rec]
        /\ run'[o] = Ret /\ \A y \in Tasks : y # o => run'[y] = h[y]
    BY <1>1, <1>2, <2>1, <2>2, Zenon
  <2> QED
    BY <1>1, <1>2, <2>1, <2>3 DEF Tame, Loading
<1>5. CASE run' = [run EXCEPT ![x].at = "begin", ![x].why = "recover"]
  BY <1>1, <1>5, TurnTask, Zenon DEF Tame, Loading
<1> QED
  BY <1>3, <1>4, <1>5, TameSet, Zenon DEF Set

LEMMA MeekMoves ==
    ASSUME Shape, NEW o \in Ops,
           UNCHANGED rq \/ Move(o, "ABORTED") \/ (\E s \in {"WAITING", "GONE"} : Leave(o, s))
    PROVE  Meek(o)
<1>1. Shape /\ NoOp \notin Ops
  BY AffinityAssumption, Zenon
<1>2. CASE UNCHANGED rq
  BY <1>1, <1>2, Zenon DEF Meek, Shape, TypeOK
<1>3. CASE Move(o, "ABORTED")
  BY <1>1, <1>3 DEF Meek, Shape, TypeOK, Move
<1>4. ASSUME NEW s \in {"WAITING", "GONE"}, Leave(o, s) PROVE Meek(o)
  BY <1>1, <1>4, Zenon DEF Meek, Shape, TypeOK, Leave, Promoted
<1> QED
  BY <1>2, <1>3, <1>4, Zenon

\* A pass that is not conclusive, or that releases when it is.
LEMMA PassCalm ==
    ASSUME PassInv, NEW x \in Tasks, run[x].at \notin Loading \cup {"off"},
           Tame, Meek(run[x].op), UNCHANGED <<mode, poisoned, remote>>,
           lease' \in [Ops -> Leases \cup {NoLease}],
           \A p \in Ops : lease[p] # NoLease => lease'[p] # NoLease,
           \A p \in Ops : lease'[p] # NoLease /\ lease'[p].state = "RELEASED" =>
              \/ lease[p] # NoLease /\ lease[p].state = "RELEASED"
              \/ p = run[x].op /\ \A k \in Kinds : remote[p][k] \in {"none", "free"}
    PROVE  PassInv'
<1>1. run[x].op \in Ops /\ run[run[x].op].at \notin Loading
  BY PassApart, Zenon
<1>2. Shape'
  BY Zenon DEF Tame, Meek, Shape, TypeOK, PassInv
<1>3. \A r \in Reqs : rq'[r].state \in Promoted =>
          /\ rq'[r].op \in Ops
          /\ rq[r].state \in Promoted \/ run'[rq'[r].op].at \notin Loading
  BY <1>1 DEF Meek, PassInv, Apart, Tame, Tasks
<1>4. Calm
  BY <1>1, <1>2, <1>3, Zenon DEF Calm, Tame, Meek
<1> QED
  BY <1>4, CalmKeeps, Zenon

\* A lease changes its state; the other leases do not.
LEMMA SetLease ==
    ASSUME Shape, NEW o \in Ops, lease[o] # NoLease,
           NEW s \in Live \cup {"RELEASED"}, SetState(o, s)
    PROVE  /\ lease' \in [Ops -> Leases \cup {NoLease}]
           /\ lease'[o] \in Leases /\ lease'[o].state = s
           /\ \A p \in Ops : p # o => lease'[p] = lease[p]
<1>1. lease \in [Ops -> Leases \cup {NoLease}] /\ lease[o] \in Leases
  BY Zenon DEF Shape
<1>2. [lease[o] EXCEPT !.state = s] \in Leases /\ [lease[o] EXCEPT !.state = s].state = s
  BY <1>1, Zenon DEF Leases
<1> DEFINE l == [lease[o] EXCEPT !.state = s]
<1>3. lease' = [lease EXCEPT ![o] = l]
  BY Zenon DEF SetState
<1> HIDE DEF l
<1> QED
  BY <1>1, <1>2, <1>3, Zenon DEF l

\* The steps of a pass that leave the leases alone.
LEMMA QuietPass ==
    ASSUME PassInv, NEW x \in Tasks, run[x].at \notin Loading \cup {"off"},
           Tame, Meek(run[x].op), UNCHANGED <<schedVars, mode, poisoned, remote>>
    PROVE  PassInv'
BY PassCalm, Zenon DEF schedVars, PassInv, Shape

\* How the steps of a pass end, for the tasks and for the requests.
LEMMA Outcomes ==
    ASSUME PassInv, NEW x \in Tasks, run[x].at \notin Loading \cup {"off"},
           \/ Quarantined(x) \/ Expired(x) \/ Aborted(x) \/ Kept(x) \/ Removed(x)
           \/ (\E to \in {"retry", "query", "done"} : Set(x, to)) /\ UNCHANGED rq
    PROVE  Tame /\ Meek(run[x].op)
<1>1. Shape /\ OwnTask /\ run[x].op \in Ops /\ run[x].at # "off"
  BY PassApart, Zenon DEF PassInv
<1>2. CASE Quarantined(x) \/ Expired(x)
  BY <1>1, <1>2, TameOutcome, MeekMoves, Zenon DEF Quarantined, Expired
<1>3. CASE Aborted(x)
  BY <1>1, <1>3, TameSet, MeekMoves, Zenon DEF Aborted, Ends
<1>4. CASE Kept(x)
  BY <1>1, <1>4, TameSet, MeekMoves, Zenon DEF Kept, Ends
<1>5. CASE Removed(x)
  BY <1>1, <1>5, TameSet, MeekMoves, Zenon DEF Removed, Ends
<1>6. CASE (\E to \in {"retry", "query", "done"} : Set(x, to)) /\ UNCHANGED rq
  BY <1>1, <1>6, TameSet, MeekMoves, Zenon
<1> QED
  BY <1>2, <1>3, <1>4, <1>5, <1>6, Zenon

\* The queries are conclusive: nothing of the operation runs or can start.
LEMMA QueriedKeeps ==
    ASSUME PassInv, NEW x \in Tasks, Queried(x)
    PROVE  PassInv'
<1>1. Shape /\ run[x].at = "query"
  BY Zenon DEF PassInv, Queried, On
<1>2. run[x].op \in Ops /\ run[run[x].op].at \notin Loading
  BY <1>1, PassApart, Zenon DEF Loading
<1>3. Settled(run[x].op)
  <2> SUFFICES ASSUME NEW k \in Kinds PROVE remote[run[x].op][k] \in {"none", "done", "free"}
    BY Zenon DEF Settled
  <2> QED
    BY Zenon DEF Queried, Attempted, Terminal
<1>4. /\ run' \in Runs
      /\ run'[x].at = "final" /\ run'[x].op = run[x].op
      /\ \A y \in Tasks : y # x => run'[y] = run[y]
  BY <1>1, SetTask, Zenon DEF Queried
<1>5. UNCHANGED <<lease, rq, mode, poisoned, remote>>
  BY Zenon DEF Queried, schedVars
<1>6. Shape'
  BY <1>1, <1>4, <1>5, Zenon DEF Shape, TypeOK
<1>7. OwnTask'
  BY <1>4, Zenon DEF PassInv, OwnTask, Tasks
<1>8. Apart'
  BY <1>1, <1>2, <1>4, <1>5 DEF PassInv, Apart, Tasks, Loading
<1>9. Proven'
  BY <1>3, <1>4, <1>5 DEF PassInv, Proven, Settled
<1>10. NoWriterAfterRelease'
  BY <1>1, <1>4, <1>5, Zenon DEF PassInv, NoWriterAfterRelease, Tasks, Loading
<1> QED
  BY <1>6, <1>7, <1>8, <1>9, <1>10 DEF PassInv

LEMMA PassKeeps ==
    ASSUME PassInv, NEW x \in Tasks,
           \/ Begin(x) \/ BeginReleased(x) \/ QueryUnknown(x) \/ Raises(x)
           \/ GiveUp(x) \/ Release(x) \/ ReleasedMeanwhile(x) \/ Deliver(x)
    PROVE  PassInv'
<1>1. run[x].at \notin Loading \cup {"off"} /\ Shape
  BY Zenon DEF Begin, BeginReleased, QueryUnknown, Raises, GiveUp, Release, ReleasedMeanwhile,
         Deliver, On, Loading, PassInv
<1>2. run[x].op \in Ops
  BY <1>1, PassApart, Zenon
<1>3. CASE BeginReleased(x)
  BY <1>1, <1>3, Outcomes, QuietPass, Zenon DEF BeginReleased
<1>4. CASE QueryUnknown(x)
  BY <1>1, <1>4, Outcomes, QuietPass, Zenon DEF QueryUnknown
<1>5. CASE Raises(x)
  BY <1>1, <1>5, Outcomes, QuietPass, Zenon DEF Raises
<1>6. CASE GiveUp(x)
  BY <1>1, <1>6, Outcomes, QuietPass, Zenon DEF GiveUp
<1>7. CASE ReleasedMeanwhile(x)
  BY <1>1, <1>7, Outcomes, QuietPass, Zenon DEF ReleasedMeanwhile
<1>8. CASE Deliver(x)
  BY <1>1, <1>8, Outcomes, QuietPass, Zenon DEF Deliver
<1>9. CASE Begin(x)
  <2>1. Tame /\ Meek(run[x].op)
    BY <1>1, <1>9, Outcomes, Zenon DEF Begin
  <2>2. /\ lease' \in [Ops -> Leases \cup {NoLease}]
        /\ lease'[run[x].op] \in Leases /\ lease'[run[x].op].state = "QUARANTINED"
        /\ \A p \in Ops : p # run[x].op => lease'[p] = lease[p]
    BY <1>1, <1>2, <1>9, SetLease, Zenon DEF Begin, quarantine_decode_slot, Live
  <2>3. UNCHANGED <<mode, poisoned, remote>> /\ NoLease \notin Leases
    BY <1>9, LeaseAssumption, Zenon DEF Begin
  <2> QED
    BY <1>1, <1>2, <2>1, <2>2, <2>3, PassCalm, Zenon
<1>10. CASE Release(x)
  <2>1. Tame /\ Meek(run[x].op)
    BY <1>1, <1>10, Outcomes, Zenon DEF Release
  <2> DEFINE o == run[x].op
             l == [lease[o] EXCEPT !.state = "RELEASED", !.cleanup = CleanupId(x)]
  <2>2. l \in Leases
    <3>1. CleanupId(x) \in CleanupIds
      BY AffinityAssumption, Zenon DEF CleanupId
    <3>2. lease[o] \in Leases
      BY <1>1, <1>2, <1>10, Zenon DEF Shape, Release, release_quarantined_decode_slot
    <3> QED
      BY <3>1, <3>2, Zenon DEF Leases
  <2>3. lease' = [lease EXCEPT ![o] = l]
    BY <1>10, Zenon DEF Release, release_quarantined_decode_slot
  <2> HIDE DEF l
  <2>4. /\ lease' \in [Ops -> Leases \cup {NoLease}]
        /\ lease'[o] \in Leases
        /\ \A p \in Ops : p # o => lease'[p] = lease[p]
    BY <1>1, <1>2, <2>2, <2>3, Zenon DEF Shape
  <2>5. \A k \in Kinds : remote[o][k] \in {"none", "free"}
    BY <1>2, <1>10, Zenon DEF Release, On, PassInv, Proven, Settled
  <2>6. UNCHANGED <<mode, poisoned, remote>> /\ NoLease \notin Leases
    BY <1>10, LeaseAssumption, Zenon DEF Release
  <2> QED
    BY <1>1, <1>2, <2>1, <2>4, <2>5, <2>6, PassCalm
<1> QED
  BY <1>3, <1>4, <1>5, <1>6, <1>7, <1>8, <1>9, <1>10, Zenon

\* Of an operation that is not loading a worker operation only goes on.
LEMMA WorkKeeps ==
    ASSUME PassInv, NEW o \in Ops, NEW k \in Kinds,
           NEW v \in {"run", "done", "free"},
           remote[o][k] \in {"sent", "run"} \/ (v = "free" /\ remote[o][k] = "done"),
           Put(o, k, v),
           UNCHANGED <<schedVars, rq, mode, run, poisoned>>
    PROVE  PassInv'
<1>1. Shape /\ v \in {"none", "sent", "run", "done", "free"}
  BY Zenon DEF PassInv
<1>2. /\ remote' \in Remotes
      /\ \A p \in Ops, j \in Kinds :
            remote'[p][j] = IF p = o /\ j = k THEN v ELSE remote[p][j]
  BY <1>1, RemoteSet
<1>3. Shape'
  BY <1>1, <1>2, Zenon DEF Shape, TypeOK, schedVars
<1>4. \A p \in Ops, j \in Kinds :
          /\ remote[p][j] \in {"none", "done", "free"} => remote'[p][j] \in {"none", "done", "free"}
          /\ remote[p][j] \in {"none", "free"} => remote'[p][j] \in {"none", "free"}
  BY <1>2
<1>5. \A r \in Reqs : rq[r].state \in Promoted => rq[r].op \in Ops
  BY Zenon DEF PassInv, Apart
<1>6. Calm
  BY <1>3, <1>4, <1>5, Zenon DEF Calm, schedVars
<1> QED
  BY <1>6, CalmKeeps, Zenon

LEMMA WorkerKeeps ==
    ASSUME PassInv, NEW o \in Ops,
           RunResolve(o) \/ RunPrepare(o) \/ RunCopy(o) \/ RunSuffix(o)
    PROVE  PassInv'
<1>1. \A k, from, v : Work(o, k, from, v) =>
          remote[o][k] = from /\ Put(o, k, v) /\ UNCHANGED <<schedVars, rq, mode, run, poisoned>>
  BY Zenon DEF Work, Put
<1>2. CASE RunResolve(o)
  BY <1>1, <1>2, WorkKeeps, Zenon DEF RunResolve, Terminal, Kinds
<1>3. CASE RunPrepare(o)
  BY <1>1, <1>3, WorkKeeps, Zenon DEF RunPrepare, Terminal, Kinds
<1>4. CASE RunCopy(o)
  BY <1>1, <1>4, WorkKeeps, Zenon DEF RunCopy, Kinds
<1>5. CASE RunSuffix(o)
  BY <1>1, <1>5, WorkKeeps, Zenon DEF RunSuffix, Kinds
<1> QED
  BY <1>2, <1>3, <1>4, <1>5

\* A commit, which for a local prefix ends the pin of the source.
LEMMA RunCommitSet ==
    ASSUME Shape, NEW o \in Ops, RunCommit(o)
    PROVE  /\ remote' \in Remotes
           /\ \A p \in Ops, j \in Kinds :
                 remote'[p][j] = IF p = o /\ j = "resolve" /\ mode[o] = "local" THEN "free"
                                 ELSE IF p = o /\ j = "commit" THEN "done"
                                 ELSE remote[p][j]
<1> DEFINE Row == [Kinds -> {"none", "sent", "run", "done", "free"}]
           h == [remote[o] EXCEPT !["commit"] = "done"]
           v == IF mode[o] = "local" THEN "free" ELSE remote[o]["resolve"]
           g == [h EXCEPT !["resolve"] = v]
<1>0. "commit" \in Kinds /\ "resolve" \in Kinds /\ "commit" # "resolve"
  BY DEF Kinds
<1>1. remote \in [Ops -> Row] /\ remote[o] \in Row
  BY Zenon DEF Shape, TypeOK
<1>2. h \in Row /\ \A j \in Kinds : h[j] = IF j = "commit" THEN "done" ELSE remote[o][j]
  BY <1>0, <1>1, Zenon
<1>3. v \in {"none", "sent", "run", "done", "free"}
  BY <1>0, <1>1, Zenon
<1>4. g \in Row /\ \A j \in Kinds : g[j] = IF j = "resolve" THEN v
                                           ELSE IF j = "commit" THEN "done" ELSE remote[o][j]
  <2> HIDE DEF h, v
  <2> QED
    BY <1>0, <1>2, <1>3, Zenon
<1>5. remote' = [remote EXCEPT ![o] = g]
  BY <1>0, <1>1, Zenon DEF RunCommit
<1> HIDE DEF g, h
<1>6. remote' \in [Ops -> Row] /\ \A p \in Ops : remote'[p] = IF p = o THEN g ELSE remote[p]
  BY <1>1, <1>4, <1>5, Zenon
<1> QED
  BY <1>0, <1>1, <1>4, <1>6, Zenon

LEMMA RunCommitKeeps ==
    ASSUME PassInv, NEW o \in Ops, RunCommit(o)
    PROVE  PassInv'
<1>1. Shape /\ remote[o]["commit"] = "sent" /\ UNCHANGED <<schedVars, rq, mode, run, poisoned>>
  BY Zenon DEF PassInv, RunCommit
<1>2. Shape'
  BY <1>1, RunCommitSet, Zenon DEF Shape, TypeOK, schedVars
<1>3. \A p \in Ops, j \in Kinds :
          /\ remote[p][j] \in {"none", "done", "free"} => remote'[p][j] \in {"none", "done", "free"}
          /\ remote[p][j] \in {"none", "free"} => remote'[p][j] \in {"none", "free"}
  BY <1>1, RunCommitSet
<1>4. \A r \in Reqs : rq[r].state \in Promoted => rq[r].op \in Ops
  BY Zenon DEF PassInv, Apart
<1>5. Calm
  BY <1>1, <1>2, <1>3, <1>4, Zenon DEF Calm, schedVars
<1> QED
  BY <1>5, CalmKeeps

LEMMA ProofKeeps ==
    ASSUME PassInv, NEW x \in Tasks, NEW k \in Kinds, Finalize(x, k) \/ Fence(x, k)
    PROVE  PassInv'
<1>1. run[x].at \notin Loading \cup {"off"}
  BY Zenon DEF Finalize, Fence, On, Loading
<1>2. run[x].op \in Ops
  BY <1>1, PassApart, Zenon
<1>3. CASE Finalize(x, k)
  BY <1>2, <1>3, WorkKeeps, Zenon DEF Finalize, Put
<1>4. CASE Fence(x, k)
  BY <1>2, <1>4, WorkKeeps, Zenon DEF Fence, Put
<1> QED
  BY <1>3, <1>4

\* The load is over: its request may be promoted.
LEMMA CommittedKeeps ==
    ASSUME PassInv, NEW o \in Ops, Committed(o)
    PROVE  PassInv'
<1>1. Shape /\ o \in Tasks /\ o # Loop /\ Loop \in Tasks /\ run[o].at = "commit"
  BY AffinityAssumption, Zenon DEF PassInv, Tasks, Committed, Step
<1>2. /\ run' \in Runs
      /\ run'[o].at = "publish" /\ run'[o].op = run[o].op
      /\ \A y \in Tasks : y # o => run'[y] = run[y]
  BY <1>1, SetTask, Zenon DEF Committed, Step
<1>3. /\ remote' \in Remotes
      /\ \A p \in Ops : p # o => remote'[p] = remote[p]
  BY <1>1, SendOne, Zenon DEF Committed, Kinds
<1>4. /\ lease' \in [Ops -> Leases \cup {NoLease}]
      /\ lease[o] # NoLease /\ lease'[o] # NoLease
      /\ lease'[o].state = "RELEASED" => lease[o].state = "RELEASED"
      /\ \A p \in Ops : p # o => lease'[p] = lease[p]
  BY <1>1, SetLease, LeaseAssumption DEF Committed, commit_decode_slot, Live, Shape
<1>5. /\ rq' \in Requests
      /\ \A r \in Reqs : rq'[r].op = rq[r].op /\ (rq[r].op # o => rq'[r] = rq[r])
  BY <1>1 DEF Committed, Move, Shape, TypeOK
<1>6. Shape'
  BY <1>1, <1>2, <1>3, <1>4, <1>5, Zenon DEF Committed, Shape, TypeOK
<1>7. \A r \in Reqs : rq'[r].state \in Promoted =>
          /\ rq'[r].op \in Ops
          /\ rq[r].state \in Promoted \/ run'[rq'[r].op].at \notin Loading
  BY <1>2, <1>5 DEF PassInv, Apart, Loading
<1>8. Calm
  BY <1>1, <1>2, <1>3, <1>4, <1>5, <1>6, <1>7, Zenon DEF Calm, Loading
<1> QED
  BY <1>8, CalmKeeps


\* The tracker and the scheduler move on; no task, lease or command does.
LEMMA TrackerKeeps ==
    ASSUME PassInv,
           \/ \E i \in Instances : Boot(i)
           \/ \E r \in Reqs : Arrive(r) \/ GoCold(r) \/ SuffixDone(r) \/ DecodeDone(r)
           \/ UNCHANGED vars
    PROVE  PassInv'
<1>1. UNCHANGED <<lease, mode, run, poisoned, remote>>
  BY Zenon DEF Boot, Arrive, GoCold, SuffixDone, DecodeDone, register_instance, vars, schedVars,
         affinityVars
<1>2. \/ UNCHANGED rq
      \/ \E r \in Reqs, s \in {"WAITING", "COLD", "DECODING", "FINISHED"} :
            /\ s \in Promoted => rq[r].state \in Promoted
            /\ rq' = [rq EXCEPT ![r].state = s]
  BY Zenon DEF Boot, Arrive, GoCold, SuffixDone, DecodeDone, vars, affinityVars, Promoted
<1>3. Shape
  BY DEF PassInv
<1>4. /\ rq' \in Requests
      /\ \A r \in Reqs : rq'[r].op = rq[r].op /\ (rq'[r].state \in Promoted => rq[r].state \in Promoted)
  <2>1. CASE UNCHANGED rq
    BY <1>3, <2>1, Zenon DEF Shape, TypeOK
  <2>2. ASSUME NEW q \in Reqs, NEW s \in {"WAITING", "COLD", "DECODING", "FINISHED"},
               s \in Promoted => rq[q].state \in Promoted,
               rq' = [rq EXCEPT ![q].state = s]
        PROVE  /\ rq' \in Requests
               /\ rq'[q].op = rq[q].op /\ rq'[q].state = s
               /\ \A r \in Reqs : r # q => rq'[r] = rq[r]
    BY <1>3, <2>2 DEF Shape, TypeOK
  <2> QED
    BY <1>2, <2>1, <2>2
<1>5. Shape'
  BY <1>1, <1>3, <1>4, Zenon DEF Shape, TypeOK
<1>6. Calm
  BY <1>1, <1>4, <1>5, Zenon DEF Calm, PassInv, Apart
<1> QED
  BY <1>6, CalmKeeps

\* The loop takes up a request that was promoted.
LEMMA VisitKeeps ==
    ASSUME PassInv, NEW r \in Reqs, NEW s \in Promoted,
           NEW why \in {"suffix", "finish", "abort"}, Visit(r, s, why)
    PROVE  PassInv'
<1>1. /\ Shape /\ run[Loop].at = "off" /\ rq[r].op \in Ops /\ run[rq[r].op].at \notin Loading
      /\ Loop \in Tasks /\ Loop \notin Ops
  BY AffinityAssumption, Zenon DEF PassInv, Apart, Visit, LoopIdle, Tasks
<1>2. /\ run' \in Runs
      /\ run'[Loop].at = "begin" /\ run'[Loop].op = rq[r].op
      /\ \A y \in Tasks : y # Loop => run'[y] = run[y]
  BY <1>1, Zenon DEF Visit, Shape, TypeOK
<1>3. UNCHANGED <<lease, rq, mode, poisoned, remote>>
  BY Zenon DEF Visit, schedVars
<1>4. Shape'
  BY <1>1, <1>2, <1>3, Zenon DEF Shape, TypeOK
<1>5. OwnTask' /\ Apart'
  BY <1>1, <1>2, <1>3 DEF PassInv, OwnTask, Apart, Tasks
<1>6. Proven'
  BY <1>2, <1>3, Zenon DEF PassInv, Proven, Settled
<1>7. NoWriterAfterRelease'
  BY <1>1, <1>2, <1>3, Zenon DEF PassInv, NoWriterAfterRelease, Tasks
<1> QED
  BY <1>4, <1>5, <1>6, <1>7 DEF PassInv

\* A load begins under an id that no request, lease or pass knows.
LEMMA try_startKeeps ==
    ASSUME PassInv, NEW r \in Reqs, NEW o \in Ops, NEW d \in Decodes,
           NEW m \in {"local", "remote"}, try_start(r, o, d, m)
    PROVE  PassInv'
<1>1. /\ Shape /\ run[Loop].at = "off" /\ lease[o] = NoLease /\ o \in Tasks /\ o # Loop
      /\ Loop \in Tasks /\ \A q \in Reqs : rq[q].op # o
  BY AffinityAssumption
     DEF PassInv, Apart, try_start, LoopIdle, Tasks, reserve_decode_slot
<1>2. /\ run' \in Runs
      /\ run'[o].at = "start" /\ run'[o].op = run[o].op
      /\ \A y \in Tasks : y # o => run'[y] = run[y]
  BY <1>1, SetTask, Zenon DEF try_start, Set, Loading
<1>3. NewLease(d) \in Leases /\ NewLease(d).state = "RESERVED"
  BY Zenon DEF NewLease, Leases, Live
<1>4. lease' = [lease EXCEPT ![o] = NewLease(d)]
  BY Zenon DEF try_start, reserve_decode_slot
<1>5. /\ lease' \in [Ops -> Leases \cup {NoLease}]
      /\ lease'[o] # NoLease /\ lease'[o].state # "RELEASED"
      /\ \A p \in Ops : p # o => lease'[p] = lease[p]
  BY <1>1, <1>3, <1>4, LeaseAssumption, Zenon DEF Shape
<1>6. /\ rq' \in Requests
      /\ rq'[r].op = o /\ rq'[r].state \notin Promoted
      /\ \A q \in Reqs : q # r => rq'[q] = rq[q]
  BY <1>1, Zenon DEF try_start, Shape, TypeOK, Promoted
<1>7. mode' \in [Ops -> {"local", "remote"}] /\ UNCHANGED <<poisoned, remote>>
  BY <1>1, Zenon DEF try_start, Shape, TypeOK
<1>8. Shape'
  BY <1>1, <1>2, <1>5, <1>6, <1>7, Zenon DEF Shape, TypeOK
<1>9. OwnTask'
  BY <1>2, Zenon DEF PassInv, OwnTask, Tasks
<1>10. Apart'
  <2>1. \A q \in Reqs : rq'[q].op \in Ops => lease'[rq'[q].op] # NoLease
    BY <1>5, <1>6, Zenon DEF PassInv, Apart
  <2>2. \A q \in Reqs : rq'[q].state \in Promoted =>
            rq'[q].op \in Ops /\ run'[rq'[q].op].at \notin Loading
    BY <1>1, <1>2, <1>6 DEF PassInv, Apart, Tasks
  <2>3. run'[Loop].at = "off"
    BY <1>1, <1>2, Zenon
  <2> QED
    BY <2>1, <2>2, <2>3, Zenon DEF Apart
<1>11. Proven'
  BY <1>2, <1>7 DEF PassInv, Proven, Settled
<1>12. NoWriterAfterRelease'
  BY <1>1, <1>2, <1>5, <1>7 DEF PassInv, NoWriterAfterRelease, Tasks
<1> QED
  BY <1>8, <1>9, <1>10, <1>11, <1>12 DEF PassInv

LEMMA NextPass == PassInv /\ [Next]_vars => PassInv'
<1> SUFFICES ASSUME PassInv, [Next]_vars PROVE PassInv'
  OBVIOUS
<1>1. ASSUME NEW r \in Reqs, Visits(r) PROVE PassInv'
  <2>1. CASE StuckSuffix(r) \/ StuckDecode(r) \/ FinishCleanup(r)
    BY <2>1, VisitKeeps DEF StuckSuffix, StuckDecode, FinishCleanup, Promoted
  <2> QED
    BY <1>1, <2>1, try_startKeeps, TrackerKeeps, Zenon DEF Visits
<1>2. ASSUME NEW o \in Ops, Load(o) \/ Worker(o) PROVE PassInv'
  BY <1>2, LoadKeeps, CommittedKeeps, WorkerKeeps, RunCommitKeeps, Zenon DEF Load, Worker
<1>3. ASSUME NEW x \in Tasks, Pass(x) \/ \E k \in Kinds : Fence(x, k) PROVE PassInv'
  BY <1>3, PassKeeps, QueriedKeeps, ProofKeeps, Zenon DEF Pass
<1>4. CASE UNCHANGED vars \/ Tick
  BY <1>4, TrackerKeeps DEF Tick
<1> QED
  BY <1>1, <1>2, <1>3, <1>4, TrackerKeeps, Zenon DEF Next

\* Once the lease of a prefix load is RELEASED, no command of it can start at a
\* worker, none runs or holds a resource, and its task sends no further one, for any
\* number of requests, operations, instances and slots and whoever of the load task,
\* the recovery task and the loop cleaned up.
THEOREM SlotReuseIsSafe == Spec => []NoWriterAfterRelease
<1>1. PassInv => NoWriterAfterRelease
  BY DEF PassInv
<1> QED
  BY InitPass, NextPass, <1>1, PTL DEF Spec

-----------------------------------------------------------------------------

HIDE DEF Runs, Remotes, Requests

\* How far the commands of an operation have got when its load awaits.
Unsent(o, K) == \A k \in K : remote[o][k] = "none"

Staged(o) ==
    /\ lease[o] = NoLease => Unsent(o, Kinds) /\ run[o].at \notin Loading
    /\ run[o].at = "start" => Unsent(o, Kinds)
    /\ run[o].at = "resolve" => Unsent(o, {"prepare", "copy", "commit", "suffix"})
    /\ run[o].at \in {"prepare", "lock"} =>
          remote[o].resolve = "done" /\ Unsent(o, {"copy", "commit", "suffix"})
    /\ run[o].at = "lock" => mode[o] = "remote" /\ remote[o].prepare = "done"
    /\ run[o].at = "copy" => Unsent(o, {"commit", "suffix"})
    /\ run[o].at = "commit" => Unsent(o, {"suffix"})

\* The work and the blocks it needs.
Covered(o) ==
    /\ mode[o] = "local" => remote[o].copy = "none"
    /\ remote[o].copy \in {"sent", "run"} =>
          remote[o].resolve = "done" /\ remote[o].prepare = "done"
    /\ remote[o].suffix \in {"sent", "run"} => remote[o].commit = "done"

BlocksInv == \A o \in Ops : Staged(o) /\ Covered(o)

LEMMA InitBlocks == Init => BlocksInv
<1> SUFFICES ASSUME Init PROVE BlocksInv
  OBVIOUS
<1>1. \A o \in Ops : run[o].at = "off"
  BY Zenon DEF Init, Off, Tasks
<1> QED
  BY <1>1 DEF Init, BlocksInv, Staged, Covered, Unsent, Loading, Kinds

\* A step that sends and runs nothing for an operation and does not begin its load.
Still(p) ==
    /\ lease'[p] = NoLease => lease[p] = NoLease
    /\ run'[p].at \in Loading => run'[p].at = run[p].at
    /\ mode'[p] = mode[p]
    /\ \A k \in Kinds : remote'[p][k] = remote[p][k]

LEMMA StillKeeps ==
    ASSUME NEW p \in Ops, Still(p), Staged(p) /\ Covered(p)
    PROVE  (Staged(p) /\ Covered(p))'
BY DEF Still, Staged, Covered, Unsent, Loading, Kinds

\* The steps of a pass other than its finalizes send and run nothing.
LEMMA PassStill ==
    ASSUME PassInv, NEW x \in Tasks,
           \/ Begin(x) \/ BeginReleased(x) \/ Queried(x) \/ QueryUnknown(x) \/ Raises(x)
           \/ GiveUp(x) \/ Release(x) \/ ReleasedMeanwhile(x) \/ Deliver(x),
           NEW p \in Ops
    PROVE  Still(p)
<1>1. run[x].at \notin Loading \cup {"off"} /\ Shape /\ p \in Tasks
  BY Zenon DEF Begin, BeginReleased, Queried, QueryUnknown, Raises, GiveUp, Release,
         ReleasedMeanwhile, Deliver, On, Loading, PassInv, Tasks
<1>2. run[x].op \in Ops
  BY <1>1, PassApart, Zenon
<1>3. UNCHANGED <<mode, remote>>
  BY Zenon DEF Begin, BeginReleased, Queried, QueryUnknown, Raises, GiveUp, Release,
         ReleasedMeanwhile, Deliver
<1>4. lease'[p] = NoLease => lease[p] = NoLease
  <2>1. CASE Begin(x)
    <3>1. lease[run[x].op] # NoLease /\ SetState(run[x].op, "QUARANTINED")
      BY <2>1, Zenon DEF Begin, quarantine_decode_slot
    <3>2. /\ lease'[run[x].op] \in Leases
          /\ \A q \in Ops : q # run[x].op => lease'[q] = lease[q]
      BY <1>1, <1>2, <3>1, SetLease DEF Live
    <3> QED
      BY <3>2, LeaseAssumption, Zenon
  <2>2. CASE Release(x)
    <3> DEFINE o == run[x].op
               l == [lease[o] EXCEPT !.state = "RELEASED", !.cleanup = CleanupId(x)]
    <3>1. l \in Leases
      <4>1. CleanupId(x) \in CleanupIds
        BY AffinityAssumption DEF CleanupId
      <4>2. lease[o] \in Leases
        BY <1>1, <1>2, <2>2 DEF Shape, Release, release_quarantined_decode_slot
      <4> QED
        BY <4>1, <4>2, Zenon DEF Leases
    <3>2. lease' = [lease EXCEPT ![o] = l]
      BY <2>2, Zenon DEF Release, release_quarantined_decode_slot
    <3> HIDE DEF l
    <3> QED
      BY <1>1, <1>2, <3>1, <3>2, LeaseAssumption DEF Shape
  <2> QED
    BY <2>1, <2>2, Zenon DEF BeginReleased, Queried, QueryUnknown, Raises, GiveUp,
                      ReleasedMeanwhile, Deliver, schedVars
<1>5. run'[p].at \in Loading => run'[p].at = run[p].at
  <2>1. CASE Queried(x)
    <3>1. Set(x, "final") /\ "final" \notin Loading
      BY <2>1, Zenon DEF Queried, Loading
    <3>2. run'[x].at = "final" /\ \A y \in Tasks : y # x => run'[y] = run[y]
      BY <1>1, <3>1, SetTask
    <3> QED
      BY <1>1, <3>1, <3>2, Zenon DEF Tasks
  <2>2. CASE \/ Quarantined(x) \/ Expired(x) \/ Aborted(x) \/ Kept(x) \/ Removed(x)
             \/ (\E to \in {"retry", "query", "done"} : Set(x, to)) /\ UNCHANGED rq
    BY <1>1, <2>2, Outcomes, Zenon DEF Tame
  <2> QED
    BY <2>1, <2>2, Zenon DEF Begin, BeginReleased, QueryUnknown, Raises, GiveUp, Release,
                      ReleasedMeanwhile, Deliver
<1> QED
  BY <1>3, <1>4, <1>5, Zenon DEF Still

\* A worker operation of o goes on: nothing is still for o only.
LEMMA PutStill ==
    ASSUME Shape, NEW o \in Ops, NEW k \in Kinds, NEW v \in {"run", "done", "free"},
           Put(o, k, v), UNCHANGED <<schedVars, mode, run>>
    PROVE  /\ \A p \in Ops : p # o => Still(p)
           /\ \A j \in Kinds : remote'[o][j] = IF j = k THEN v ELSE remote[o][j]
<1>1. v \in {"none", "sent", "run", "done", "free"}
  OBVIOUS
<1>2. \A p \in Ops, j \in Kinds : remote'[p][j] = IF p = o /\ j = k THEN v ELSE remote[p][j]
  BY <1>1, RemoteSet
<1> QED
  BY <1>2, Zenon DEF Still, schedVars

\* Sending, running, fencing and finalizing keep the stages and cover the work.
LEMMA PutKeeps ==
    ASSUME PassInv, BlocksInv, NEW o \in Ops, NEW k \in Kinds, NEW v \in {"run", "done", "free"},
           Put(o, k, v), UNCHANGED <<schedVars, mode, run>>,
           \/ remote[o][k] = "sent" /\ k \in {"resolve", "prepare"}
           \/ remote[o][k] \in {"sent", "run"} /\ k \in {"copy", "suffix"}
           \/ remote[o][k] \in {"sent", "run"} /\ v = "done"
           \/ remote[o][k] = "done" /\ v = "free" /\ Settled(o) /\ run[o].at \notin Loading
    PROVE  BlocksInv'
<1>1. Shape /\ Staged(o) /\ Covered(o)
  BY Zenon DEF PassInv, BlocksInv
<1>2. /\ \A p \in Ops : p # o => Still(p)
      /\ \A j \in Kinds : remote'[o][j] = IF j = k THEN v ELSE remote[o][j]
      /\ UNCHANGED <<lease, mode, run>>
  BY <1>1, PutStill DEF schedVars
<1>3. Staged(o)'
  BY <1>1, <1>2, Zenon DEF Staged, Unsent, Kinds, Loading
<1>4. Covered(o)'
  BY <1>1, <1>2, Zenon DEF Covered, Kinds, Settled
<1> QED
  BY <1>2, <1>3, <1>4, StillKeeps, Zenon DEF BlocksInv

LEMMA WorkBlocks ==
    ASSUME PassInv, BlocksInv, NEW o \in Ops,
           RunResolve(o) \/ RunPrepare(o) \/ RunCopy(o) \/ RunSuffix(o)
    PROVE  BlocksInv'
<1>1. \A k, from, v : Work(o, k, from, v) =>
          remote[o][k] = from /\ Put(o, k, v) /\ UNCHANGED <<schedVars, mode, run>>
  BY Zenon DEF Work, Put
<1>2. CASE RunResolve(o)
  BY <1>1, <1>2, PutKeeps, Zenon DEF RunResolve, Terminal, Kinds
<1>3. CASE RunPrepare(o)
  BY <1>1, <1>3, PutKeeps, Zenon DEF RunPrepare, Terminal, Kinds
<1>4. CASE RunCopy(o)
  BY <1>1, <1>4, PutKeeps, Zenon DEF RunCopy, Kinds
<1>5. CASE RunSuffix(o)
  BY <1>1, <1>5, PutKeeps, Zenon DEF RunSuffix, Kinds
<1> QED
  BY <1>2, <1>3, <1>4, <1>5

\* A local commit ends the pin of the source, but then nothing was copied.
LEMMA RunCommitBlocks ==
    ASSUME PassInv, BlocksInv, NEW o \in Ops, RunCommit(o)
    PROVE  BlocksInv'
<1>1. /\ Shape /\ Staged(o) /\ Covered(o) /\ remote[o]["commit"] = "sent"
      /\ UNCHANGED <<lease, mode, run>>
  BY Zenon DEF PassInv, BlocksInv, RunCommit, schedVars
<1>2. \A p \in Ops, j \in Kinds :
          remote'[p][j] = IF p = o /\ j = "resolve" /\ mode[o] = "local" THEN "free"
                          ELSE IF p = o /\ j = "commit" THEN "done"
                          ELSE remote[p][j]
  BY <1>1, RunCommitSet, Zenon
<1>3. \A p \in Ops : p # o => Still(p)
  BY <1>1, <1>2, Zenon DEF Still
<1>4. Staged(o)'
  BY <1>1, <1>2, Zenon DEF Staged, Unsent, Kinds, Loading
<1>5. Covered(o)'
  BY <1>1, <1>2, Zenon DEF Covered, Kinds
<1> QED
  BY <1>3, <1>4, <1>5, StillKeeps DEF BlocksInv

\* An abort stops what runs; a finalize frees what nothing works on.
LEMMA ProofBlocks ==
    ASSUME PassInv, BlocksInv, NEW x \in Tasks, NEW k \in Kinds, Finalize(x, k) \/ Fence(x, k)
    PROVE  BlocksInv'
<1>1. run[x].at \notin Loading \cup {"off"}
  BY Zenon DEF Finalize, Fence, On, Loading
<1>2. run[x].op \in Ops /\ run[run[x].op].at \notin Loading
  BY <1>1, PassApart, Zenon
<1>3. CASE Finalize(x, k)
  <2>1. Settled(run[x].op)
    BY <1>3, Zenon DEF Finalize, On, PassInv, Proven
  <2> QED
    BY <1>2, <1>3, <2>1, PutKeeps, Zenon DEF Finalize, Put
<1>4. CASE Fence(x, k)
  BY <1>2, <1>4, PutKeeps, Zenon DEF Fence, Put
<1> QED
  BY <1>3, <1>4

\* The load goes on: the facts of the next stage follow from those of this one.
LEMMA LoadBlocks ==
    ASSUME PassInv, BlocksInv, NEW o \in Ops, Load(o)
    PROVE  BlocksInv'
<1>1. /\ Shape /\ o \in Tasks /\ Staged(o) /\ Covered(o)
      /\ \A k \in Kinds : remote[o][k] \in {"none", "sent", "run", "done", "free"}
      /\ mode[o] \in {"local", "remote"}
  BY DEF PassInv, BlocksInv, Tasks, Shape, TypeOK
<1>2. \A p \in Ops : p # o => run'[p] = run[p]
  <2>1. CASE \E why \in {"fallback", "error"} : LoadFails(o, why)
    BY <1>1, <2>1, TurnTask, Zenon DEF LoadFails, Tasks
  <2>2. CASE \E to \in Loading \cup {"publish", "off"} : Set(o, to)
    BY <1>1, <2>2, SetTask, Zenon DEF Tasks
  <2> QED
    BY <2>1, <2>2, Zenon DEF Load, Start, Resolved, Prepared, Copy, Copied, Committed, Published,
                      Step, Loading
<1>3. \A p \in Ops : lease'[p] = NoLease => lease[p] = NoLease
  <2>1. CASE Committed(o)
    BY <1>1, <2>1, SetLease, LeaseAssumption DEF Committed, commit_decode_slot, Live
  <2> QED
    BY <2>1, Zenon DEF Load, Start, Resolved, Prepared, Copy, Copied, Published, LoadFails, schedVars
<1>4. mode' = mode
  BY Zenon DEF Load, Start, Resolved, Prepared, Copy, Copied, Committed, Published, LoadFails
<1>5. \A p \in Ops : p # o => \A k \in Kinds : remote'[p][k] = remote[p][k]
  <2>1. CASE UNCHANGED remote
    BY <2>1
  <2>2. CASE \E k \in Kinds : Send(o, k)
    BY <1>1, <2>2, SendOne
  <2> QED
    BY <2>1, <2>2, Zenon DEF Load, Start, Resolved, Prepared, Copy, Copied, Committed, Published,
                      LoadFails, Kinds
<1>6. \A p \in Ops : p # o => Still(p)
  BY <1>2, <1>3, <1>4, <1>5, Zenon DEF Still
<1>7. lease[o] # NoLease => lease'[o] # NoLease
  BY <1>3
<1>8. ASSUME NEW to \in Loading \cup {"publish", "off"}, Set(o, to) PROVE run'[o].at = to
  BY <1>1, <1>8, SetTask, Zenon
<1>9. ASSUME NEW k \in Kinds, Send(o, k)
      PROVE  \A j \in Kinds : remote'[o][j] = IF j = k THEN "sent" ELSE remote[o][j]
  BY <1>1, <1>9, SendOne
<1>10. CASE Start(o)
  <2>1. /\ run[o].at = "start" /\ run'[o].at = "resolve"
        /\ \A j \in Kinds : remote'[o][j] = IF j = "resolve" THEN "sent" ELSE remote[o][j]
    BY <1>8, <1>9, <1>10, Zenon DEF Start, Step, Loading, Kinds
  <2>2. Staged(o)' /\ Covered(o)'
    BY <1>1, <1>4, <1>7, <2>1, Zenon DEF Staged, Covered, Unsent, Kinds, Loading
  <2> QED
    BY <1>6, <2>2, StillKeeps DEF BlocksInv
<1>11. CASE Resolved(o)
  <2>1. /\ run[o].at = "resolve" /\ run'[o].at = "prepare" /\ remote[o]["resolve"] = "done"
        /\ \A j \in Kinds : remote'[o][j] = IF j = "prepare" THEN "sent" ELSE remote[o][j]
    BY <1>8, <1>9, <1>11, Zenon DEF Resolved, Step, Loading, Kinds
  <2>2. Staged(o)' /\ Covered(o)'
    BY <1>1, <1>4, <1>7, <2>1, Zenon DEF Staged, Covered, Unsent, Kinds, Loading
  <2> QED
    BY <1>6, <2>2, StillKeeps DEF BlocksInv
<1>12. CASE Prepared(o)
  <2>1. CASE mode[o] = "remote"
    <3>1. /\ run[o].at = "prepare" /\ run'[o].at = "lock" /\ remote[o]["prepare"] = "done"
          /\ UNCHANGED remote
      BY <1>8, <1>12, <2>1, Zenon DEF Prepared, Step, Loading
    <3>2. Staged(o)' /\ Covered(o)'
      BY <1>1, <1>4, <1>7, <2>1, <3>1, Zenon DEF Staged, Covered, Unsent, Kinds, Loading
    <3> QED
      BY <1>6, <3>2, StillKeeps DEF BlocksInv
  <2>2. CASE mode[o] = "local"
    <3>1. /\ run[o].at = "prepare" /\ run'[o].at = "commit"
          /\ \A j \in Kinds : remote'[o][j] = IF j = "commit" THEN "sent" ELSE remote[o][j]
      BY <1>8, <1>9, <1>12, <2>2, Zenon DEF Prepared, Step, Loading, Kinds
    <3>2. Staged(o)' /\ Covered(o)'
      BY <1>1, <1>4, <1>7, <2>2, <3>1, Zenon DEF Staged, Covered, Unsent, Kinds, Loading
    <3> QED
      BY <1>6, <3>2, StillKeeps DEF BlocksInv
  <2> QED
    BY <1>1, <2>1, <2>2
<1>13. CASE Copy(o)
  <2>1. /\ run[o].at = "lock" /\ run'[o].at = "copy"
        /\ \A j \in Kinds : remote'[o][j] = IF j = "copy" THEN "sent" ELSE remote[o][j]
    BY <1>8, <1>9, <1>13, Zenon DEF Copy, Step, Loading, Kinds
  <2>2. Staged(o)' /\ Covered(o)'
    BY <1>1, <1>4, <1>7, <2>1, Zenon DEF Staged, Covered, Unsent, Kinds, Loading
  <2> QED
    BY <1>6, <2>2, StillKeeps DEF BlocksInv
<1>14. CASE Copied(o)
  <2>1. /\ run[o].at = "copy" /\ run'[o].at = "commit" /\ remote[o]["copy"] = "done"
        /\ \A j \in Kinds : remote'[o][j] = IF j = "commit" THEN "sent" ELSE remote[o][j]
    BY <1>8, <1>9, <1>14, Zenon DEF Copied, Step, Loading, Kinds
  <2>2. Staged(o)' /\ Covered(o)'
    BY <1>1, <1>4, <1>7, <2>1, ZenonT(60) DEF Staged, Covered, Unsent, Kinds, Loading
  <2> QED
    BY <1>6, <2>2, StillKeeps DEF BlocksInv
<1>15. CASE Committed(o)
  <2>1. /\ run[o].at = "commit" /\ run'[o].at = "publish" /\ remote[o]["commit"] = "done"
        /\ \A j \in Kinds : remote'[o][j] = IF j = "suffix" THEN "sent" ELSE remote[o][j]
    BY <1>8, <1>9, <1>15, Zenon DEF Committed, Step, Loading, Kinds
  <2>2. Staged(o)' /\ Covered(o)'
    BY <1>1, <1>4, <1>7, <2>1, Zenon DEF Staged, Covered, Unsent, Kinds, Loading
  <2> QED
    BY <1>6, <2>2, StillKeeps DEF BlocksInv
<1>16. CASE Published(o) \/ \E why \in {"fallback", "error"} : LoadFails(o, why)
  <2>1. run'[o].at \notin Loading
    BY <1>1, <1>8, <1>16, TurnTask, Zenon DEF Published, LoadFails, Step, Loading
  <2>2. UNCHANGED remote
    BY <1>16, Zenon DEF Published, LoadFails
  <2>3. Still(o)
    BY <1>4, <1>7, <2>1, <2>2, Zenon DEF Still
  <2> QED
    BY <1>6, <2>3, StillKeeps DEF BlocksInv
<1> QED
  BY <1>10, <1>11, <1>12, <1>13, <1>14, <1>15, <1>16, Zenon DEF Load

\* The loop and the tracker send and run nothing; a load begins with nothing sent.
LEMMA VisitBlocks ==
    ASSUME PassInv, BlocksInv, NEW r \in Reqs,
           \/ \E o \in Ops, d \in Decodes, m \in {"local", "remote"} : try_start(r, o, d, m)
           \/ StuckSuffix(r) \/ StuckDecode(r) \/ FinishCleanup(r)
    PROVE  BlocksInv'
<1>1. Shape /\ Loop \notin Ops
  BY AffinityAssumption DEF PassInv
<1>2. CASE StuckSuffix(r) \/ StuckDecode(r) \/ FinishCleanup(r)
  <2>1. UNCHANGED <<lease, mode, remote>> /\ \A p \in Ops : run'[p] = run[p]
    BY <1>1, <1>2, Zenon
       DEF StuckSuffix, StuckDecode, FinishCleanup, Visit, schedVars, Shape, TypeOK, Tasks
  <2> QED
    BY <2>1, StillKeeps, Zenon DEF Still, BlocksInv
<1>3. ASSUME NEW o \in Ops, NEW d \in Decodes, NEW m \in {"local", "remote"},
             try_start(r, o, d, m)
      PROVE  BlocksInv'
  <2>1. lease[o] = NoLease /\ Staged(o) /\ remote' = remote /\ o \in Tasks
    BY <1>3, Zenon DEF try_start, reserve_decode_slot, BlocksInv, Tasks
  <2>2. \A p \in Ops : p # o => lease'[p] = lease[p] /\ mode'[p] = mode[p]
    BY <1>1, <1>3, Zenon DEF try_start, reserve_decode_slot, Shape, TypeOK
  <2>3. run'[o].at = "start" /\ \A p \in Ops : p # o => run'[p] = run[p]
    <3>1. Set(o, "start") /\ "start" \in Loading
      BY <1>3, Zenon DEF try_start, Set, Loading
    <3> QED
      BY <1>1, <2>1, <3>1, SetTask, Zenon DEF Tasks
  <2>4. \A p \in Ops : p # o => Still(p)
    BY <2>1, <2>2, <2>3, Zenon DEF Still
  <2>5. \A k \in Kinds : remote'[o][k] = "none"
    BY <2>1, Zenon DEF Staged, Unsent
  <2>6. lease'[o] # NoLease
    <3>1. NewLease(d) \in Leases
      BY Zenon DEF NewLease, Leases, Live
    <3> QED
      BY <1>1, <1>3, <3>1, LeaseAssumption, Zenon DEF try_start, reserve_decode_slot, Shape
  <2>7. Staged(o)' /\ Covered(o)'
    BY <2>3, <2>5, <2>6, Zenon DEF Staged, Covered, Unsent, Kinds, Loading
  <2> QED
    BY <2>4, <2>7, StillKeeps, Zenon DEF BlocksInv
<1> QED
  BY <1>2, <1>3

LEMMA TrackerBlocks ==
    ASSUME BlocksInv,
           \/ \E i \in Instances : Boot(i)
           \/ \E r \in Reqs : Arrive(r) \/ GoCold(r) \/ SuffixDone(r) \/ DecodeDone(r)
           \/ UNCHANGED vars
    PROVE  BlocksInv'
<1>1. UNCHANGED <<lease, mode, run, remote>>
  BY Zenon DEF Boot, Arrive, GoCold, SuffixDone, DecodeDone, register_instance, vars, schedVars,
         affinityVars
<1> QED
  BY <1>1, StillKeeps, Zenon DEF Still, BlocksInv

LEMMA NextBlocks == PassInv /\ BlocksInv /\ [Next]_vars => BlocksInv'
<1> SUFFICES ASSUME PassInv, BlocksInv, [Next]_vars PROVE BlocksInv'
  OBVIOUS
<1>1. ASSUME NEW r \in Reqs, Visits(r) PROVE BlocksInv'
  BY <1>1, VisitBlocks, TrackerBlocks, Zenon DEF Visits
<1>2. ASSUME NEW o \in Ops, Load(o) \/ Worker(o) PROVE BlocksInv'
  BY <1>2, LoadBlocks, WorkBlocks, RunCommitBlocks DEF Worker
<1>3. ASSUME NEW x \in Tasks, Pass(x) \/ \E k \in Kinds : Fence(x, k) PROVE BlocksInv'
  <2>1. CASE \E k \in Kinds : Finalize(x, k) \/ Fence(x, k)
    BY <2>1, ProofBlocks
  <2>2. CASE \/ Begin(x) \/ BeginReleased(x) \/ Queried(x) \/ QueryUnknown(x) \/ Raises(x)
             \/ GiveUp(x) \/ Release(x) \/ ReleasedMeanwhile(x) \/ Deliver(x)
    BY <2>2, PassStill, StillKeeps, Zenon DEF BlocksInv
  <2> QED
    BY <1>3, <2>1, <2>2, Zenon DEF Pass
<1>4. CASE UNCHANGED vars \/ Tick
  BY <1>4, TrackerBlocks DEF Tick
<1> QED
  BY <1>1, <1>2, <1>3, <1>4, TrackerBlocks, Zenon DEF Next

\* While a copy runs its source stays pinned and its target allocated, and while a
\* suffix runs its sequence stays committed, for any number of requests, operations,
\* instances and slots, although every cleanup finalizes these one by one.
THEOREM BlocksOutliveWork == Spec => []BlocksCoverWork
<1>1. BlocksInv => BlocksCoverWork
  BY Zenon DEF BlocksInv, Covered, BlocksCoverWork
<1> QED
  BY InitPass, InitBlocks, NextPass, NextBlocks, <1>1, PTL DEF Spec

-----------------------------------------------------------------------------
\* The calls to the scheduler

\* Leases are on registered instances.
Booted ==
    /\ epoch \in [Instances -> Epochs \cup {NoEpoch}]
    /\ cap \subseteq Instances
    /\ \A i \in cap : epoch[i] # NoEpoch
    /\ \A o \in Ops : lease[o] # NoLease => lease[o].inst \in cap

\* The calls of the scheduler that the model makes.
LEMMA SchedulerCalls ==
    ASSUME PassInv, [Next]_vars
    PROVE  \/ UNCHANGED schedVars
           \/ \E i \in Instances : register_instance(i, WorldEpoch, WorldSlots)
           \/ \E o \in Ops, d \in Decodes :
                 \E open \in SUBSET Instances : reserve_decode_slot(d, o, open)
           \/ \E o \in Ops : commit_decode_slot(o) \/ quarantine_decode_slot(o)
           \/ \E o \in Ops, c \in CleanupIds : release_quarantined_decode_slot(o, c)
<1>1. CASE \E i \in Instances : Boot(i)
  BY <1>1 DEF Boot
<1>2. ASSUME NEW r \in Reqs, Arrive(r) \/ Visits(r)
      PROVE  \/ UNCHANGED schedVars
             \/ \E o \in Ops, d \in Decodes :
                   \E open \in SUBSET Instances : reserve_decode_slot(d, o, open)
  BY <1>2, Zenon DEF Arrive, Visits, try_start, GoCold, SuffixDone, DecodeDone, StuckSuffix,
              StuckDecode, FinishCleanup, Visit
<1>3. ASSUME NEW o \in Ops, Load(o) \/ Worker(o)
      PROVE  UNCHANGED schedVars \/ commit_decode_slot(o)
  BY <1>3, Zenon DEF Load, Start, Resolved, Prepared, Copy, Copied, Committed, Published, LoadFails,
              Worker, RunResolve, RunPrepare, RunCopy, RunCommit, RunSuffix, Work
<1>4. ASSUME NEW x \in Tasks, Pass(x) \/ \E k \in Kinds : Fence(x, k)
      PROVE  \/ UNCHANGED schedVars
             \/ \E o \in Ops : quarantine_decode_slot(o)
             \/ \E o \in Ops, c \in CleanupIds : release_quarantined_decode_slot(o, c)
  <2>1. CASE Begin(x)
    <3>1. run[x].op \in Ops
      BY <2>1, PassApart, Zenon DEF Begin, On, Loading
    <3> QED
      BY <2>1, <3>1, Zenon DEF Begin
  <2>2. CASE Release(x)
    <3>1. run[x].op \in Ops /\ CleanupId(x) \in CleanupIds
      BY <2>2, PassApart, AffinityAssumption, Zenon DEF Release, On, Loading, CleanupId
    <3> QED
      BY <2>2, <3>1, Zenon DEF Release
  <2> QED
    BY <1>4, <2>1, <2>2, Zenon
       DEF Pass, BeginReleased, Queried, QueryUnknown, Raises, GiveUp, ReleasedMeanwhile,
           Deliver, Finalize, Fence
<1>5. CASE UNCHANGED vars \/ Tick
  BY <1>5 DEF vars, Tick
<1> QED
  BY <1>1, <1>2, <1>3, <1>4, <1>5, Zenon DEF Next

LEMMA NextBooted == PassInv /\ Booted /\ [Next]_vars => Booted'
<1> SUFFICES ASSUME PassInv, Booted, [Next]_vars PROVE Booted'
  OBVIOUS
<1>0. lease \in [Ops -> Leases \cup {NoLease}] /\ NoLease \notin Leases
  BY LeaseAssumption DEF PassInv, Shape
<1>1. CASE UNCHANGED schedVars
  BY <1>1, Zenon DEF schedVars, Booted
<1>2. ASSUME NEW i \in Instances, register_instance(i, WorldEpoch, WorldSlots) PROVE Booted'
  BY <1>2, AffinityAssumption, InstanceAssumption DEF Booted, register_instance, Install
<1>3. ASSUME NEW o \in Ops, NEW d \in Decodes, NEW open \in SUBSET Instances,
             reserve_decode_slot(d, o, open)
      PROVE  Booted'
  <2>1. d \in cap /\ NewLease(d).inst = d /\ UNCHANGED <<cap, epoch>>
    BY <1>3, Zenon DEF reserve_decode_slot, DecodeCandidates, NewLease
  <2>2. \A p \in Ops : lease'[p] = IF p = o THEN NewLease(d) ELSE lease[p]
    BY <1>0, <1>3, Zenon DEF reserve_decode_slot
  <2> QED
    BY <2>1, <2>2, Zenon DEF Booted
<1>4. ASSUME NEW o \in Ops, NEW l \in Leases, lease[o] # NoLease, l.inst = lease[o].inst,
             lease' = [lease EXCEPT ![o] = l], UNCHANGED <<cap, epoch>>
      PROVE  Booted'
  BY <1>0, <1>4, Zenon DEF Booted
<1>5. ASSUME NEW o \in Ops, commit_decode_slot(o) \/ quarantine_decode_slot(o)
      PROVE  Booted'
  <2>1. UNCHANGED <<cap, epoch>> /\ lease[o] # NoLease /\ lease[o] \in Leases
    BY <1>0, <1>5, Zenon DEF commit_decode_slot, quarantine_decode_slot, capacity
  <2>2. ASSUME NEW s \in Live, SetState(o, s) PROVE Booted'
    <3> DEFINE l == [lease[o] EXCEPT !.state = s]
    <3>1. l \in Leases /\ l.inst = lease[o].inst
      BY <2>1 DEF Leases
    <3>2. lease' = [lease EXCEPT ![o] = l]
      BY <2>2 DEF SetState
    <3> HIDE DEF l
    <3> QED
      BY <1>4, <2>1, <3>1, <3>2, Zenon
  <2>3. CASE UNCHANGED lease
    BY <2>1, <2>3, Zenon DEF Booted
  <2> QED
    BY <1>5, <2>2, <2>3, Zenon DEF commit_decode_slot, quarantine_decode_slot, Live
<1>6. ASSUME NEW o \in Ops, NEW c \in CleanupIds, release_quarantined_decode_slot(o, c)
      PROVE  Booted'
  <2> DEFINE l == [lease[o] EXCEPT !.state = "RELEASED", !.cleanup = c]
  <2>1. UNCHANGED <<cap, epoch>> /\ lease[o] # NoLease /\ lease[o] \in Leases
    BY <1>0, <1>6 DEF release_quarantined_decode_slot
  <2>2. l \in Leases /\ l.inst = lease[o].inst
    BY <2>1, Zenon DEF Leases
  <2>3. lease' = [lease EXCEPT ![o] = l]
    BY <1>6, Zenon DEF release_quarantined_decode_slot
  <2> HIDE DEF l
  <2> QED
    BY <1>4, <2>1, <2>2, <2>3, Zenon
<1> QED
  BY <1>1, <1>2, <1>3, <1>5, <1>6, SchedulerCalls, Zenon

\* Prefix loads with all their cleanups implement the calling protocol SlotClients
\* of the scheduler: they register an instance before it has a lease, reserve under
\* an id that owns nothing, and release only what they quarantined.
THEOREM LoadsFollowProtocol == Spec => SchedSpec
<1>1. Init => Booted /\ Sched!Init
  BY Zenon DEF Init, SchedInit, Booted, Sched!Init, Sched!SchedInit, Instances, Sched!Instances
<1>2. ASSUME PassInv, Booted, [Next]_vars PROVE [Sched!Next]_(Sched!vars)
  <2>1. CASE UNCHANGED schedVars
    BY <2>1 DEF Sched!vars, Sched!schedVars, schedVars
  <2>2. ASSUME NEW i \in Instances, register_instance(i, WorldEpoch, WorldSlots)
        PROVE  Sched!Register(i, WorldEpoch, WorldSlots)
    <3>1. i \notin cap /\ WorldEpoch \in Epochs
      BY <1>2, <2>2, AffinityAssumption, Zenon DEF register_instance, Booted
    <3>2. Sched!Unleased(i)
      BY <1>2, <3>1, Zenon DEF Sched!Unleased, Sched!LiveOn, Booted
    <3>3. Sched!FreshEpoch(i, WorldEpoch)
      BY <3>1, AffinityAssumption DEF Sched!FreshEpoch
    <3> QED
      BY <2>2, <3>2, <3>3, Zenon
         DEF Sched!Register, Sched!register_instance, register_instance, Sched!Install, Install
  <2>3. ASSUME NEW o \in Ops, NEW d \in Decodes, NEW open \in SUBSET Instances,
               reserve_decode_slot(d, o, open)
        PROVE  Sched!Reserve(o, d, open)
    <3>1. Sched!Unowned(o)
      BY <2>3, Zenon DEF Sched!Unowned, Sched!LiveOn, reserve_decode_slot
    <3> QED
      BY <2>3, <3>1, Zenon
         DEF Sched!Reserve, Sched!reserve_decode_slot, reserve_decode_slot, NewLease,
             Sched!NewLease, DecodeCandidates, Sched!DecodeCandidates
  <2>4. ASSUME NEW o \in Ops, commit_decode_slot(o) PROVE Sched!Commit(o)
    BY <2>4 DEF Sched!Commit, Sched!commit_decode_slot, commit_decode_slot, SetState,
                Sched!SetState, capacity, Sched!capacity
  <2>5. ASSUME NEW o \in Ops, quarantine_decode_slot(o) PROVE Sched!QuarantineSlot(o)
    BY <2>5 DEF Sched!QuarantineSlot, Sched!quarantine_decode_slot, quarantine_decode_slot,
                SetState, Sched!SetState, capacity, Sched!capacity
  <2>6. ASSUME NEW o \in Ops, NEW c \in CleanupIds, release_quarantined_decode_slot(o, c)
        PROVE  Sched!ReleaseQuarantined(o, c)
    BY <2>6, Zenon DEF Sched!ReleaseQuarantined, Sched!release_quarantined_decode_slot,
                release_quarantined_decode_slot, GiveBack, Sched!GiveBack
  <2>7. ASSUME NEW o \in Ops,
               \/ Sched!Commit(o) \/ Sched!QuarantineSlot(o)
               \/ \E c \in CleanupIds : Sched!ReleaseQuarantined(o, c)
        PROVE  Sched!Next
    BY <2>7 DEF Sched!Next, Sched!LeaseStep
  <2>8. ASSUME NEW o \in Ops, NEW d \in Decodes, NEW open \in SUBSET Instances,
               Sched!Reserve(o, d, open)
        PROVE  Sched!Next
    BY <2>8 DEF Sched!Next, Sched!SlotStep, Sched!Instances, Instances
  <2>9. ASSUME NEW i \in Instances, Sched!Register(i, WorldEpoch, WorldSlots)
        PROVE  Sched!Next
    BY <2>9, AffinityAssumption, Zenon DEF Sched!Next, Sched!InstanceStep, Sched!Instances, Instances
  <2> QED
    BY <1>2, <2>1, <2>2, <2>3, <2>4, <2>5, <2>6, <2>7, <2>8, <2>9, SchedulerCalls
<1> QED
  BY InitPass, NextPass, NextBooted, <1>1, <1>2, PTL DEF Spec, SchedSpec, Sched!Spec

=============================================================================
