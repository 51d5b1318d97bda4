----------------------- MODULE ReplacementStoreProofs -----------------------
(***************************************************************************)
(* The replacement store for every number of runs, records, retained seals *)
(* and crashes.  StoreInv is the inductive invariant.  Its core is that a  *)
(* commit in progress is one of three pure steps from the content of the   *)
(* file to the content to be written (Grow, Close, Collect), and that each *)
(* of them keeps a content well formed (Good).  Good adds to the checks of *)
(* _load the window of sequence numbers that makes retention a bound.      *)
(***************************************************************************)
EXTENDS ReplacementStore, FiniteSetTheorems, TLAPS

Good(p) ==
    /\ Loadable(p) /\ Collectable(p)
    /\ \A s \in p.seals : s.seq > p.next - 1 - Retention

Grow(p, q) ==
    \E run \in Runs, old \in Gens, dec \in Decisions, batch \in SUBSET Records :
        /\ p.active \in {NoRun, [run |-> run, old |-> old, dec |-> dec]}
        /\ ~SealedIn(p, run)
        /\ \A r \in batch : RunOf[r] = run /\ DecOf[r] = dec
        /\ Unambiguous(p.records \cup batch)
        /\ Cardinality(p.records \cup batch) <= MaxRecords
        /\ q = [p EXCEPT !.active = [run |-> run, old |-> old, dec |-> dec],
                         !.records = @ \cup batch]

SealOf(p, new) ==
    [seq |-> p.next, run |-> p.active.run, old |-> p.active.old,
     new |-> new, dec |-> p.active.dec, root |-> p.records]

Close(p, q) ==
    /\ p.active # NoRun
    /\ ~SealedIn(p, p.active.run)
    /\ \E new \in Gens :
          q = [p EXCEPT !.seals = Retained(@ \cup {SealOf(p, new)}, p.next),
                        !.next = @ + 1]

Collect(p, q) == SealedActive(p) /\ q = Collected(p)

CommitStep(p, j) ==
    \/ j.kind = "persist" /\ Grow(p, j.to)
    \/ j.kind = "seal" /\ Close(p, j.to)
    \/ j.kind = "gc" /\ Collect(p, j.to)

\* The commit in progress goes from the file to its target, and a commit whose
\* rename happened is the file.
JobOK ==
    job # NoJob =>
        /\ up /\ ~fatal
        /\ job.batch \subseteq job.to.records
        /\ job.kind = "seal" => SealedActive(job.to)
        /\ job.stage = "temp" => CommitStep(file, job)
        /\ job.stage = "sync" => file = job.to

MemOK == up /\ ~fatal /\ (job # NoJob => job.stage = "temp") => mem = file

StoreInv == TypeOK /\ Good(mem) /\ Good(file) /\ Good(durable) /\ JobOK /\ MemOK

-----------------------------------------------------------------------------

\* Sequence numbers of the retention window number at most Retention seals.
LEMMA SealsBounded ==
    ASSUME NEW S \in SUBSET Seals, NEW n \in Nat,
           \A s, t \in S : s.seq = t.seq => s = t,
           \A s \in S : s.seq < n /\ s.seq > n - 1 - Retention
    PROVE  Cardinality(S) <= Retention
<1> DEFINE lo == n - Retention
           f == [s \in S |-> s.seq]
<1>1. Retention \in Nat \ {0}
  BY StoreAssumption
<1>2. \A s \in S : s.seq \in lo..(n - 1)
  BY <1>1 DEF Seals
<1>3. f \in Injection(S, lo..(n - 1))
  BY <1>2 DEF Injection, IsInjective
<1>4. IsFiniteSet(lo..(n - 1)) /\ Cardinality(lo..(n - 1)) = Retention
  BY <1>1, FS_Interval
<1> QED
  BY <1>3, <1>4, FS_Injection

\* The empty store is well formed.
LEMMA GoodEmpty == Good(Empty) /\ Empty \in Payloads
<1>1. Cardinality({}) = 0
  BY FS_EmptySet
<1> QED
  BY <1>1, StoreAssumption
     DEF Good, Empty, Payloads, Loadable, Collectable, Unambiguous

\* A batch of decisions keeps a content well formed.
LEMMA GoodGrow ==
    ASSUME NEW p \in Payloads, NEW q, Good(p), Grow(p, q)
    PROVE  Good(q) /\ q \in Payloads
<1>1. PICK run \in Runs, old \in Gens, dec \in Decisions, batch \in SUBSET Records :
        /\ p.active \in {NoRun, [run |-> run, old |-> old, dec |-> dec]}
        /\ ~SealedIn(p, run)
        /\ \A r \in batch : RunOf[r] = run /\ DecOf[r] = dec
        /\ Unambiguous(p.records \cup batch)
        /\ Cardinality(p.records \cup batch) <= MaxRecords
        /\ q = [p EXCEPT !.active = [run |-> run, old |-> old, dec |-> dec],
                         !.records = @ \cup batch]
  BY ZenonT(40) DEF Grow
<1>2. /\ q.active = [run |-> run, old |-> old, dec |-> dec]
      /\ q.records = p.records \cup batch
      /\ q.seals = p.seals /\ q.next = p.next
      /\ q \in Payloads
  BY <1>1, ZenonT(40) DEF Payloads, Opened
<1>3. q.active # NoRun
  BY <1>2, StoreAssumption DEF Opened
<1>4. \A r \in q.records : RunOf[r] = q.active.run /\ DecOf[r] = q.active.dec
  BY <1>1, <1>2 DEF Good, Loadable
<1>5. Loadable(q)
  BY <1>1, <1>2, <1>3, <1>4 DEF Good, Loadable
<1>6. Collectable(q)
  BY <1>1, <1>2 DEF SealedIn, Collectable
<1> QED
  BY <1>2, <1>5, <1>6, SMTT(40) DEF Good

\* Sealing the active run keeps a content well formed, and closes the run.
LEMMA GoodClose ==
    ASSUME NEW p \in Payloads, NEW q, Good(p), Close(p, q)
    PROVE  Good(q) /\ q \in Payloads /\ SealedActive(q)
<1>1. PICK new \in Gens :
        q = [p EXCEPT !.seals = Retained(@ \cup {SealOf(p, new)}, p.next), !.next = @ + 1]
  BY ZenonT(40) DEF Close
<1>2. /\ p.active # NoRun /\ p.active \in Opened
      /\ ~SealedIn(p, p.active.run)
  BY DEF Close, Payloads
<1>3. SealOf(p, new) \in Seals /\ SealOf(p, new).seq = p.next
  <2>1. /\ p.next \in Nat /\ p.records \in SUBSET Records
        /\ p.active.run \in Runs /\ p.active.old \in Gens /\ p.active.dec \in Decisions
    BY <1>2 DEF Opened, Payloads
  <2> QED
    BY <2>1 DEF SealOf, Seals
<1>4. /\ q.active = p.active /\ q.records = p.records
      /\ q.seals = Retained(p.seals \cup {SealOf(p, new)}, p.next)
      /\ q.next = p.next + 1
      /\ q \in Payloads
  <2>1. PICK S : S = Retained(p.seals \cup {SealOf(p, new)}, p.next)
    OBVIOUS
  <2>2. S \in SUBSET Seals
    BY <1>3, <2>1 DEF Payloads, Retained
  <2>3. q = [p EXCEPT !.seals = S, !.next = p.next + 1]
    BY <1>1, <2>1
  <2>4. /\ q.active = p.active /\ q.records = p.records /\ q.seals = S
        /\ q.next = p.next + 1 /\ q \in Payloads
    <3>1. PICK r : r = [p EXCEPT !.seals = S]
      BY ZenonT(40)
    <3>2. /\ r \in Payloads /\ r.seals = S /\ r.next = p.next
          /\ r.active = p.active /\ r.records = p.records
      BY <2>2, <3>1 DEF Payloads
    <3>3. q = [r EXCEPT !.next = p.next + 1] /\ p.next + 1 \in Nat
      BY <2>3, <3>1 DEF Payloads
    <3> QED
      BY <3>2, <3>3 DEF Payloads
  <2> QED
    BY <2>1, <2>4
<1>5. p.next \in Nat /\ Retention \in Nat \ {0} /\ p.seals \in SUBSET Seals
  BY StoreAssumption DEF Payloads
<1>6. SealOf(p, new) \in q.seals
  BY <1>3, <1>4, <1>5 DEF Retained
<1>7. \A s \in q.seals : s \in p.seals \/ s = SealOf(p, new)
  BY <1>4 DEF Retained
<1>8. \A s \in p.seals : s.seq < p.next /\ s.seq \in Nat /\ s.run # p.active.run
  BY <1>2, <1>5 DEF Good, Loadable, SealedIn, Seals
<1>9. SealOf(p, new).run = p.active.run
  BY DEF SealOf
<1>10. \A s, t \in q.seals : s.run = t.run \/ s.seq = t.seq => s = t
  BY <1>3, <1>5, <1>7, <1>8, <1>9 DEF Good, Loadable
<1>11. \A s \in q.seals : s.seq < q.next /\ s.seq > q.next - 1 - Retention
  BY <1>3, <1>4, <1>5, <1>7, <1>8 DEF Retained
<1>12. Cardinality(q.seals) <= Retention
  BY <1>4, <1>10, <1>11, SealsBounded, ZenonT(40) DEF Payloads
<1>13. Loadable(q)
  BY <1>2, <1>4, <1>10, <1>11, <1>12, ZenonT(40) DEF Good, Loadable
<1>14. Collectable(q)
  BY <1>4, <1>7, <1>8, SMTT(40) DEF Collectable, SealOf
<1>15. SealedActive(q)
  BY <1>2, <1>4, <1>6, <1>9 DEF SealedActive, SealedIn
<1> QED
  BY <1>4, <1>11, <1>13, <1>14, <1>15 DEF Good

\* Dropping the sealed segment keeps a content well formed.
LEMMA GoodCollect ==
    ASSUME NEW p \in Payloads, NEW q, Good(p), Collect(p, q)
    PROVE  Good(q) /\ q \in Payloads
<1>1. /\ q.active = NoRun /\ q.records = {} /\ q.seals = p.seals /\ q.next = p.next
      /\ q \in Payloads
  BY ZenonT(40) DEF Collect, Collected, Payloads
<1>2. Cardinality({}) = 0
  BY FS_EmptySet
<1> QED
  BY <1>1, <1>2, StoreAssumption DEF Good, Loadable, Collectable, Unambiguous

\* Every commit keeps a content well formed.
LEMMA GoodCommit ==
    ASSUME NEW p \in Payloads, NEW j \in Jobs, Good(p), CommitStep(p, j)
    PROVE  Good(j.to) /\ (j.kind = "seal" => SealedActive(j.to))
<1>1. CASE j.kind = "persist" /\ Grow(p, j.to)
  BY <1>1, GoodGrow
<1>2. CASE j.kind = "seal" /\ Close(p, j.to)
  BY <1>2, GoodClose
<1>3. CASE j.kind = "gc" /\ Collect(p, j.to)
  BY <1>3, GoodCollect
<1> QED
  BY <1>1, <1>2, <1>3 DEF CommitStep

LEMMA InitStore == Init => StoreInv
<1> SUFFICES ASSUME Init PROVE StoreInv
  OBVIOUS
<1>1. TypeOK /\ Good(mem) /\ Good(file) /\ Good(durable)
  BY GoodEmpty, ZenonT(40) DEF Init, TypeOK
<1>2. JobOK /\ MemOK
  BY DEF Init, JobOK, MemOK
<1> QED
  BY <1>1, <1>2 DEF StoreInv

\* Starting a commit that is a step from the file establishes JobOK.
LEMMA StartCommitStep ==
    ASSUME StoreInv, up, ~fatal, mem = file, NEW kind \in {"persist", "seal", "gc"},
           NEW to \in Payloads, NEW batch \in SUBSET to.records,
           StartCommit(kind, to, batch),
           CommitStep(file, [kind |-> kind, to |-> to, stage |-> "temp", batch |-> batch]),
           UNCHANGED <<mem, file, durable, fatal, up, acked, loss>>
    PROVE  StoreInv'
<1> DEFINE j == [kind |-> kind, to |-> to, stage |-> "temp", batch |-> batch]
<1>1. job' = j /\ temp' = TRUE
  BY DEF StartCommit
<1>2. batch \in SUBSET Records
  BY DEF Payloads
<1>3. j \in Jobs
  BY <1>2 DEF Jobs
<1>4. j.kind = kind /\ j.to = to /\ j.stage = "temp" /\ j.batch = batch
  OBVIOUS
<1>5. file \in Payloads /\ Good(file)
  BY DEF StoreInv, TypeOK
<1>6. j.kind = "seal" => SealedActive(j.to)
  BY <1>3, <1>5, GoodCommit
<1> HIDE DEF j
<1>7. TypeOK'
  BY <1>1, <1>3 DEF StoreInv, TypeOK
<1>8. JobOK'
  BY <1>1, <1>3, <1>4, <1>6 DEF JobOK, j, CommitStep
<1>9. MemOK'
  BY <1>1, <1>4 DEF MemOK
<1> QED
  BY <1>7, <1>8, <1>9 DEF StoreInv

LEMMA PersistStep ==
    ASSUME StoreInv, NEW batch \in SUBSET Records, NEW run \in Runs, NEW old \in Gens,
           NEW dec \in Decisions, persist_records(batch, run, old, dec)
    PROVE  StoreInv'
<1>1. PICK to : to = [mem EXCEPT !.active = [run |-> run, old |-> old, dec |-> dec],
                                 !.records = @ \cup batch]
  OBVIOUS
<1>2. up /\ ~fatal /\ mem = file /\ mem \in Payloads /\ Good(mem)
  BY DEF persist_records, Ready, StoreInv, MemOK, TypeOK
<1>3. mem.active \in {NoRun, [run |-> run, old |-> old, dec |-> dec]}
  BY SMTT(40) DEF persist_records, Accepts, _validate_requested_run
<1>4. Grow(file, to)
  BY <1>1, <1>2, <1>3, ZenonT(40) DEF persist_records, Accepts, Grow
<1>5. to \in Payloads
  BY <1>2, <1>4, GoodGrow
<1>6. batch \subseteq to.records
  BY <1>1, <1>2 DEF Payloads
<1>7. StartCommit("persist", to, batch) /\ UNCHANGED <<mem, file, durable, fatal, up, acked, loss>>
  BY <1>1 DEF persist_records
<1>8. CommitStep(file, [kind |-> "persist", to |-> to, stage |-> "temp", batch |-> batch])
  BY <1>4 DEF CommitStep
<1> QED
  BY <1>2, <1>5, <1>6, <1>7, <1>8, StartCommitStep

LEMMA SealStep ==
    ASSUME StoreInv, NEW run \in Runs, NEW old \in Gens, NEW new \in Gens,
           NEW dec \in Decisions, seal_run(run, old, new, dec)
    PROVE  StoreInv'
<1>1. PICK to : to = [mem EXCEPT !.seals = Retained(@ \cup {Sealed(new)}, mem.next),
                                 !.next = @ + 1]
  OBVIOUS
<1>2. up /\ ~fatal /\ mem = file /\ mem \in Payloads /\ Good(mem)
  BY DEF seal_run, Ready, StoreInv, MemOK, TypeOK
<1>3. mem.active # NoRun /\ ~SealedIn(mem, mem.active.run)
  BY StoreAssumption DEF seal_run, Opened
<1>4. Sealed(new) = SealOf(mem, new)
  BY SMTT(40) DEF Sealed, SealOf
<1>5. Close(file, to)
  BY <1>1, <1>2, <1>3, <1>4, ZenonT(40) DEF Close
<1>6. to \in Payloads
  BY <1>2, <1>5, GoodClose
<1>7. StartCommit("seal", to, {}) /\ UNCHANGED <<mem, file, durable, fatal, up, acked, loss>>
  BY <1>1 DEF seal_run
<1>8. CommitStep(file, [kind |-> "seal", to |-> to, stage |-> "temp", batch |-> {}])
  BY <1>5 DEF CommitStep
<1> QED
  BY <1>2, <1>6, <1>7, <1>8, StartCommitStep

LEMMA ReplaceStep ==
    ASSUME StoreInv, Replace
    PROVE  StoreInv'
<1>1. job \in Jobs /\ file \in Payloads /\ Good(file) /\ CommitStep(file, job)
  BY DEF Replace, StoreInv, TypeOK, JobOK
<1>2. Good(job.to) /\ job.to \in Payloads
  BY <1>1, GoodCommit DEF Jobs
<1>3. /\ job' \in Jobs /\ job'.to = job.to /\ job'.stage = "sync"
      /\ job'.kind = job.kind /\ job'.batch = job.batch
  BY <1>1 DEF Replace, Jobs
<1>4. TypeOK'
  BY <1>2, <1>3, ZenonT(40) DEF Replace, StoreInv, TypeOK
<1>5. Good(mem)' /\ Good(file)' /\ Good(durable)'
  BY <1>2 DEF Replace, StoreInv, Good, Loadable, Collectable
<1>6. JobOK'
  BY <1>3 DEF Replace, StoreInv, JobOK, SealedActive, SealedIn
<1>7. MemOK'
  BY <1>3, StoreAssumption DEF MemOK
<1> QED
  BY <1>4, <1>5, <1>6, <1>7 DEF StoreInv

\* Beginning the second commit of a seal, or the collection of a restart.
LEMMA CollectTarget ==
    ASSUME NEW p \in Payloads, Good(p), SealedActive(p)
    PROVE  /\ Collected(p) \in Payloads
           /\ CommitStep(p, [kind |-> "gc", to |-> Collected(p), stage |-> "temp",
                             batch |-> {}])
<1>1. Collect(p, Collected(p))
  BY DEF Collect
<1> QED
  BY <1>1, GoodCollect DEF CommitStep

LEMMA SyncStep ==
    ASSUME StoreInv, Sync
    PROVE  StoreInv'
<1>1. /\ job \in Jobs /\ job # NoJob /\ job.to \in Payloads /\ up /\ ~fatal
      /\ file = job.to /\ file \in Payloads /\ Good(file)
      /\ job.kind = "seal" => SealedActive(job.to)
      /\ job.batch \in SUBSET Records
  BY DEF Sync, StoreInv, TypeOK, JobOK, Jobs
<1>2. mem' = file /\ durable' = file /\ UNCHANGED <<file, fatal, up, loss>>
      /\ acked' = acked \cup job.batch
  BY <1>1, SMTT(40) DEF Sync
<1>3. Good(mem)' /\ Good(file)' /\ Good(durable)'
  BY <1>1, <1>2 DEF Good, Loadable, Collectable
<1>4. acked' \subseteq Records
  BY <1>1, <1>2 DEF StoreInv, TypeOK
<1>5. CASE job.kind = "seal"
  <2> DEFINE j == [kind |-> "gc", to |-> Collected(file), stage |-> "temp", batch |-> {}]
  <2>1. job' = j /\ temp' = TRUE
    BY <1>1, <1>5 DEF Sync, StartCommit
  <2>2. Collected(file) \in Payloads /\ CommitStep(file, j)
    BY <1>1, <1>5, CollectTarget
  <2>3. /\ j \in Jobs /\ j.stage = "temp" /\ j.kind = "gc" /\ j.batch = {}
    BY <2>2 DEF Jobs
  <2> HIDE DEF j
  <2>4. CommitStep(file', job')
    BY <1>2, <2>1, <2>2
  <2>5. TypeOK'
    BY <1>1, <1>2, <1>4, <2>1, <2>3 DEF StoreInv, TypeOK
  <2>6. JobOK'
    BY <1>1, <1>2, <2>1, <2>3, <2>4 DEF JobOK, CommitStep
  <2>7. MemOK'
    BY <1>2 DEF MemOK
  <2> QED
    BY <1>3, <2>5, <2>6, <2>7, SMTT(40) DEF StoreInv
<1>6. CASE job.kind # "seal"
  <2>1. job' = NoJob /\ temp' = temp
    BY <1>6 DEF Sync
  <2>2. TypeOK'
    BY <1>1, <1>2, <1>4, <2>1 DEF StoreInv, TypeOK
  <2>3. JobOK' /\ MemOK'
    BY <1>2, <2>1 DEF JobOK, MemOK
  <2> QED
    BY <1>3, <2>2, <2>3 DEF StoreInv
<1> QED
  BY <1>5, <1>6

LEMMA RestartStep ==
    ASSUME StoreInv, Restart
    PROVE  StoreInv'
<1>1. /\ file \in Payloads /\ Good(file) /\ job = NoJob /\ temp \in BOOLEAN
      /\ Loadable(file) /\ Collectable(file)
  BY DEF Restart, StoreInv, TypeOK, JobOK, Good
<1>2. UNCHANGED <<file, durable, acked, loss>> /\ up' = TRUE
  BY DEF Restart
<1>3. fatal' = temp /\ mem' = IF temp THEN Empty ELSE file
  BY <1>1 DEF Restart
<1>4. mem' \in Payloads /\ Good(mem')
  BY <1>1, <1>3, GoodEmpty, SMTT(40)
<1>5. Good(mem)' /\ Good(file)' /\ Good(durable)'
  BY <1>2, <1>4, SMTT(40) DEF StoreInv, Good, Loadable, Collectable
<1>6. CASE ~temp /\ SealedActive(file)
  <2> DEFINE j == [kind |-> "gc", to |-> Collected(file), stage |-> "temp", batch |-> {}]
  <2>1. job' = j /\ temp' = TRUE
    BY <1>3, <1>6, SMTT(40) DEF Restart, StartCommit
  <2>2. Collected(file) \in Payloads /\ CommitStep(file, j)
    BY <1>1, <1>6, CollectTarget
  <2>3. /\ j \in Jobs /\ j.stage = "temp" /\ j.kind = "gc" /\ j.batch = {}
    BY <2>2 DEF Jobs
  <2> HIDE DEF j
  <2>4. CommitStep(file', job')
    BY <1>2, <2>1, <2>2
  <2>5. TypeOK'
    BY <1>1, <1>2, <1>3, <1>4, <2>1, <2>3 DEF StoreInv, TypeOK
  <2>6. JobOK'
    BY <1>2, <1>3, <1>6, <2>1, <2>3, <2>4 DEF JobOK, CommitStep
  <2>7. MemOK'
    BY <1>2, <1>3, <1>6 DEF MemOK
  <2> QED
    BY <1>5, <2>5, <2>6, <2>7 DEF StoreInv
<1>7. CASE temp \/ ~SealedActive(file)
  <2>1. UNCHANGED <<job, temp>>
    BY <1>3, <1>7 DEF Restart
  <2>2. TypeOK'
    BY <1>1, <1>2, <1>3, <1>4, <2>1 DEF StoreInv, TypeOK
  <2>3. JobOK' /\ MemOK'
    BY <1>1, <1>2, <1>3, <2>1 DEF JobOK, MemOK
  <2> QED
    BY <1>5, <2>2, <2>3 DEF StoreInv
<1> QED
  BY <1>6, <1>7

\* A crash, with or without the loss of an unsynced rename.
LEMMA CrashStep ==
    ASSUME StoreInv, Crash \/ PowerCut
    PROVE  StoreInv'
<1>1. /\ up' = FALSE /\ mem' = Empty /\ fatal' = FALSE /\ job' = NoJob
      /\ file' \in {file, durable} /\ durable' \in {file, durable}
      /\ temp' \in BOOLEAN /\ UNCHANGED acked
  BY ZenonT(40) DEF Crash, PowerCut, StoreInv, TypeOK
<1>7. loss' \in {"none", "pending", "stored"}
  BY ZenonT(40) DEF Crash, PowerCut, StoreInv, TypeOK
<1>2. Good(mem') /\ mem' \in Payloads
  BY <1>1, GoodEmpty
<1>3. Good(file') /\ Good(durable') /\ file' \in Payloads /\ durable' \in Payloads
  BY <1>1, SMTT(40) DEF StoreInv, TypeOK
<1>4. Good(mem)' /\ Good(file)' /\ Good(durable)'
  BY <1>2, <1>3 DEF Good, Loadable, Collectable
<1>5. TypeOK'
  BY <1>1, <1>2, <1>3, <1>7, ZenonT(40) DEF StoreInv, TypeOK
<1>6. JobOK' /\ MemOK'
  BY <1>1 DEF JobOK, MemOK
<1> QED
  BY <1>4, <1>5, <1>6 DEF StoreInv

\* The steps that leave the three contents alone.
LEMMA OtherStep ==
    ASSUME StoreInv,
           CommitFails \/ RemoveTemp \/ (\E batch \in SUBSET Records : lookup(batch))
             \/ UNCHANGED vars
    PROVE  StoreInv'
<1>1. UNCHANGED <<mem, file, durable, up>>
  BY ZenonT(40) DEF CommitFails, RemoveTemp, lookup, vars
<1>2. \/ job' = NoJob /\ fatal' = TRUE
      \/ job' = NoJob /\ job = NoJob /\ UNCHANGED fatal
      \/ UNCHANGED <<job, fatal>>
  BY ZenonT(40) DEF CommitFails, RemoveTemp, lookup, vars
<1>3. TypeOK'
  BY ZenonT(40) DEF CommitFails, RemoveTemp, lookup, vars, StoreInv, TypeOK, Payloads
<1>4. Good(mem)' /\ Good(file)' /\ Good(durable)'
  BY <1>1, ZenonT(40) DEF StoreInv, Good, Loadable, Collectable
<1>5. JobOK' /\ MemOK'
  <2>1. CASE job' = NoJob /\ fatal' = TRUE
    BY <2>1 DEF JobOK, MemOK
  <2>2. CASE job' = job /\ fatal' = fatal
    BY <1>1, <2>2 DEF StoreInv, JobOK, MemOK, SealedActive, SealedIn
  <2> QED
    BY <1>2, <2>1, <2>2, ZenonT(40)
<1> QED
  BY <1>3, <1>4, <1>5 DEF StoreInv

LEMMA NextStore == StoreInv /\ [Next]_vars => StoreInv'
<1> SUFFICES ASSUME StoreInv, [Next]_vars PROVE StoreInv'
  OBVIOUS
<1>1. CASE \E batch \in SUBSET Records, run \in Runs, old \in Gens, dec \in Decisions :
              persist_records(batch, run, old, dec)
  BY <1>1, PersistStep
<1>2. CASE \E r \in Records, old \in Gens : persist_record(r, old)
  <2>1. PICK r \in Records, old \in Gens :
            persist_records({r}, RunOf[r], old, DecOf[r])
    BY <1>2 DEF persist_record
  <2>2. {r} \in SUBSET Records /\ RunOf[r] \in Runs /\ DecOf[r] \in Decisions
    BY StoreAssumption
  <2> QED
    BY <2>1, <2>2, PersistStep
<1>3. CASE \E run \in Runs, old, new \in Gens, dec \in Decisions : seal_run(run, old, new, dec)
  BY <1>3, SealStep
<1> QED
  BY <1>1, <1>2, <1>3, ReplaceStep, SyncStep, RestartStep, CrashStep, OtherStep
     DEF Next, Calls

\* StoreInv holds in every reachable state of the replacement store.
THEOREM StoreInvariant == Spec => []StoreInv
  BY InitStore, NextStore, PTL DEF Spec

\* For every number of runs, records and retained seals, whatever crash, power
\* loss or failed write interrupts _commit_state: the file always passes _load
\* and _finish_sealed_gc_after_restart.
THEOREM FileAlwaysLoads == Spec => []DiskLoads
<1>1. StoreInv => DiskLoads
  BY DEF StoreInv, Good, DiskLoads
<1> QED
  BY <1>1, StoreInvariant, PTL

\* The store answers from memory only while memory and file agree.
THEOREM AlwaysFailsClosed == Spec => []FailClosed
<1>1. StoreInv => FailClosed
  BY DEF StoreInv, MemOK, FailClosed, Ready
<1> QED
  BY <1>1, StoreInvariant, PTL

-----------------------------------------------------------------------------
\* The records a content answers for.
Kept(p) == p.records \cup UNION {s.root : s \in p.seals}

\* A commit forgets only the records of the seals it retires.
LEMMA CommitKeeps ==
    ASSUME NEW p \in Payloads, NEW j \in Jobs, Good(p), CommitStep(p, j)
    PROVE  Kept(p) \subseteq Kept(j.to) \cup UNION {s.root : s \in p.seals \ j.to.seals}
<1>1. CASE j.kind = "persist" /\ Grow(p, j.to)
  <2>1. p.records \subseteq j.to.records /\ j.to.seals = p.seals
    BY <1>1 DEF Grow, Payloads
  <2> QED
    BY <2>1 DEF Kept
<1>2. CASE j.kind = "seal" /\ Close(p, j.to)
  <2>1. j.to.records = p.records
    BY <1>2 DEF Close, Payloads
  <2> QED
    BY <2>1 DEF Kept
<1>3. CASE j.kind = "gc" /\ Collect(p, j.to)
  <2>1. j.to.seals = p.seals
    BY <1>3 DEF Collect, Collected, Payloads
  <2>2. \E s \in p.seals : s.root = p.records
    BY <1>3 DEF Collect, SealedActive, SealedIn, Good, Collectable
  <2> QED
    BY <2>1, <2>2 DEF Kept
<1> QED
  BY <1>1, <1>2, <1>3 DEF CommitStep

\* The records that were acknowledged before the commit in progress are in the
\* content that this commit replaces.
PendingOK ==
    loss # "stored" /\ job # NoJob /\ job.stage = "sync" => acked \subseteq Kept(mem)

KeptInv == AckedKept /\ PendingOK

\* A power loss undoes nothing but unanswered commits, or is recorded as "stored".
LEMMA PowerKeeps ==
    ASSUME StoreInv, KeptInv, PowerCut
    PROVE  KeptInv'
<1>1. job' = NoJob /\ acked' = acked
  BY DEF PowerCut
<1>2. CASE file' = file
  <2>1. loss' = loss
    BY <1>2, ZenonT(40) DEF PowerCut
  <2> QED
    BY <1>1, <1>2, <2>1 DEF KeptInv, AckedKept, PendingOK
<1>3. CASE file' # file /\ Pending /\ loss # "stored"
  <2>1. file' = mem /\ acked \subseteq Kept(mem)
    BY <1>3 DEF PowerCut, Pending, KeptInv, PendingOK
  <2> QED
    BY <1>1, <2>1 DEF KeptInv, AckedKept, PendingOK, Kept
<1>4. CASE file' # file /\ ~(Pending /\ loss # "stored")
  <2>1. loss' = "stored"
    BY <1>4, ZenonT(40) DEF PowerCut
  <2> QED
    BY <1>1, <2>1 DEF KeptInv, AckedKept, PendingOK
<1> QED
  BY <1>2, <1>3, <1>4

\* A record reported as stored is in the file or covered by one of its seals,
\* until retention retires the seal, whatever crash or failed write happens and
\* whatever commit a power loss undoes before its caller has an answer.
THEOREM StoredStaysStored == Spec => []AckedKept
<1>1. Init => KeptInv
  BY SMTT(40) DEF Init, KeptInv, AckedKept, PendingOK
<1>2. StoreInv /\ KeptInv /\ [Next]_vars => KeptInv'
  <2> SUFFICES ASSUME StoreInv, KeptInv, [Next]_vars
               PROVE  KeptInv'
    OBVIOUS
  <2>0. loss # "stored" => acked \subseteq Kept(file)
    BY DEF KeptInv, AckedKept, Kept
  <2>1. CASE Replace
    <3>1. /\ job \in Jobs /\ file \in Payloads /\ Good(file) /\ CommitStep(file, job)
          /\ mem = file
      BY <2>1 DEF Replace, StoreInv, TypeOK, JobOK, MemOK
    <3>2. /\ file' = job.to
          /\ acked' = acked \ UNION {s.root : s \in file.seals \ job.to.seals}
          /\ UNCHANGED <<mem, loss>>
      BY <2>1 DEF Replace
    <3>3. Kept(file) \subseteq
            Kept(job.to) \cup UNION {s.root : s \in file.seals \ job.to.seals}
      BY <3>1, CommitKeeps
    <3>4. AckedKept'
      <4>1. loss # "stored" => acked' \subseteq Kept(job.to)
        BY <2>0, <3>2, <3>3
      <4> QED
        BY <3>2, <4>1 DEF AckedKept, Kept
    <3>5. PendingOK'
      <4>1. loss # "stored" => acked' \subseteq Kept(mem)
        BY <2>0, <3>1, <3>2
      <4> QED
        BY <3>2, <4>1 DEF PendingOK, Kept
    <3> QED
      BY <3>4, <3>5 DEF KeptInv
  <2>2. CASE Sync
    <3>1. /\ file' = file /\ acked' = acked \cup job.batch /\ job.batch \subseteq file.records
          /\ UNCHANGED loss
      BY <2>2 DEF Sync, StoreInv, JobOK
    <3>2. job' = NoJob \/ job'.stage = "temp"
      BY <2>2 DEF Sync, StartCommit
    <3>3. AckedKept'
      BY <2>0, <3>1 DEF AckedKept, Kept
    <3> QED
      BY <3>2, <3>3 DEF KeptInv, PendingOK
  <2>3. CASE \E batch \in SUBSET Records : lookup(batch)
    <3>1. PICK batch \in SUBSET Records : lookup(batch)
      BY <2>3
    <3>2. /\ file' = file /\ acked' = acked \cup batch /\ batch \subseteq file.records
          /\ UNCHANGED <<loss, job>> /\ job = NoJob
      BY <3>1 DEF lookup, Ready, StoreInv, MemOK
    <3>3. AckedKept'
      BY <2>0, <3>2 DEF AckedKept, Kept
    <3> QED
      BY <3>2, <3>3 DEF KeptInv, PendingOK
  <2>4. CASE PowerCut
    BY <2>4, PowerKeeps
  <2>5. CASE /\ UNCHANGED <<file, acked, loss>>
             /\ job' = NoJob \/ job'.stage = "temp" \/ UNCHANGED <<job, mem>>
    <3>1. AckedKept'
      BY <2>0, <2>5 DEF AckedKept, Kept
    <3>2. PendingOK'
      BY <2>5 DEF KeptInv, PendingOK, Kept
    <3> QED
      BY <3>1, <3>2 DEF KeptInv
  <2>6. ASSUME \E batch \in SUBSET Records, run \in Runs, old \in Gens, dec \in Decisions :
                  persist_records(batch, run, old, dec)
        PROVE  UNCHANGED <<file, acked, loss>> /\ job'.stage = "temp"
    BY <2>6 DEF persist_records, StartCommit
  <2>7. ASSUME \E r \in Records, old \in Gens : persist_record(r, old)
        PROVE  UNCHANGED <<file, acked, loss>> /\ job'.stage = "temp"
    BY <2>7 DEF persist_record, persist_records, StartCommit
  <2>8. ASSUME \E run \in Runs, old, new \in Gens, dec \in Decisions : seal_run(run, old, new, dec)
        PROVE  UNCHANGED <<file, acked, loss>> /\ job'.stage = "temp"
    BY <2>8 DEF seal_run, StartCommit
  <2>9. ASSUME CommitFails \/ Crash \/ RemoveTemp \/ UNCHANGED vars
        PROVE  /\ UNCHANGED <<file, acked, loss>>
               /\ job' = NoJob \/ UNCHANGED <<job, mem>>
    BY <2>9, ZenonT(40) DEF CommitFails, Crash, RemoveTemp, vars
  <2>10. ASSUME Restart
         PROVE  /\ UNCHANGED <<file, acked, loss>>
                /\ job' = NoJob \/ job'.stage = "temp"
    <3>1. job = NoJob
      BY <2>10 DEF Restart, StoreInv, JobOK
    <3> QED
      BY <2>10, <3>1 DEF Restart, StartCommit
  <2> QED
    BY <2>1, <2>2, <2>3, <2>4, <2>5, <2>6, <2>7, <2>8, <2>9, <2>10, ZenonT(40)
       DEF Next, Calls
<1>3. KeptInv => AckedKept
  BY DEF KeptInv
<1> QED
  BY <1>1, <1>2, <1>3, StoreInvariant, PTL DEF Spec

\* A commit is a step of the log, or invisible in it.
LEMMA CommitIsLogged ==
    ASSUME StoreInv, Replace
    PROVE  [Log!Next]_(Log!logVars)
<1>1. job \in Jobs /\ file \in Payloads /\ Good(file) /\ CommitStep(file, job)
  BY DEF Replace, StoreInv, TypeOK, JobOK
<1>2. file' = job.to /\ UNCHANGED loss
  BY DEF Replace
<1>3. CASE job.kind = "persist" /\ Grow(file, file')
  <2>1. PICK run \in Runs, old \in Gens, dec \in Decisions, batch \in SUBSET Records :
          /\ file.active \in {NoRun, [run |-> run, old |-> old, dec |-> dec]}
          /\ ~SealedIn(file, run)
          /\ \A r \in batch : RunOf[r] = run /\ DecOf[r] = dec
          /\ Unambiguous(file.records \cup batch)
          /\ Cardinality(file.records \cup batch) <= MaxRecords
          /\ file' = [file EXCEPT !.active = [run |-> run, old |-> old, dec |-> dec],
                                  !.records = @ \cup batch]
    BY <1>3, ZenonT(40) DEF Grow
  <2>2. /\ file'.active = [run |-> run, old |-> old, dec |-> dec]
        /\ file'.records = file.records \cup batch
        /\ file'.seals = file.seals /\ file'.next = file.next
    BY <1>1, <2>1 DEF Payloads
  <2>3. ~SealedActive(file) /\ ~SealedActive(file')
    BY <2>1, <2>2 DEF SealedActive, SealedIn
  <2>4. \A r \in file'.records : RunOf[r] = run /\ DecOf[r] = dec
    BY <1>1, <2>1, <2>2 DEF Good, Loadable
  <2>5. /\ OpenRun = file.active /\ OpenRun' = file'.active
        /\ OpenRecords = file.records /\ OpenRecords' = file'.records
    BY <2>3 DEF OpenRun, OpenRecords, SealedActive, SealedIn
  <2>6. Log!Decide(run, old, dec, batch)
    BY <1>2, <2>1, <2>2, <2>4, <2>5 DEF Log!Decide, SealedIn, Unambiguous
  <2> QED
    BY <2>6, SMTT(40) DEF Log!Next
<1>4. CASE job.kind = "seal" /\ Close(file, file')
  <2>1. PICK new \in Gens :
          file' = [file EXCEPT !.seals = Retained(@ \cup {SealOf(file, new)}, file.next),
                               !.next = @ + 1]
    BY <1>4, ZenonT(40) DEF Close
  <2>2. /\ file'.seals = Retained(file.seals \cup {SealOf(file, new)}, file.next)
        /\ file'.next = file.next + 1
    BY <1>1, <2>1, SMTT(40) DEF Payloads
  <2>3. ~SealedActive(file) /\ SealedActive(file') /\ file.active # NoRun
    BY <1>1, <1>4, GoodClose, ZenonT(40) DEF SealedActive, Close
  <2>4. /\ OpenRun = file.active /\ OpenRun' = NoRun
        /\ OpenRecords = file.records /\ OpenRecords' = {}
    BY <2>3 DEF OpenRun, OpenRecords, SealedActive, SealedIn
  <2>5. SealOf(file, new).seq > file.next - Retention
    BY <1>1, StoreAssumption DEF SealOf, Payloads
  <2>6. file'.seals = {s \in file.seals : s.seq > file.next - Retention}
                      \cup {SealOf(file, new)}
    BY <2>2, <2>5, SMTT(40) DEF Retained
  <2>7. Log!Seal(new)
    BY <1>2, <2>2, <2>3, <2>4, <2>6 DEF Log!Seal, SealOf
  <2> QED
    BY <2>7, SMTT(40) DEF Log!Next
<1>5. CASE job.kind = "gc" /\ Collect(file, file')
  <2>1. /\ SealedActive(file) /\ file'.active = NoRun /\ file'.records = {}
        /\ file'.seals = file.seals /\ file'.next = file.next
    BY <1>1, <1>5 DEF Collect, Collected, Payloads
  <2>2. UNCHANGED <<OpenRun, OpenRecords>>
    BY <2>1 DEF OpenRun, OpenRecords, SealedActive, SealedIn
  <2> QED
    BY <1>2, <2>1, <2>2 DEF Log!logVars
<1> QED
  BY <1>1, <1>2, <1>3, <1>4, <1>5 DEF CommitStep

\* Until a power loss takes a rename back, the store implements the atomic log:
\* the rename of a commit is the step of the log, and the two commits of a seal,
\* a crash between them and the collection by the next process are one Seal.
THEOREM StoreImplementsLog == Spec => LogSpec
<1>1. Init => Log!Init
  BY SMTT(40) DEF Init, Log!Init, OpenRun, OpenRecords, Empty, SealedActive
<1>2. StoreInv /\ [Next]_vars => [Log!Next]_(Log!logVars)
  <2> SUFFICES ASSUME StoreInv, [Next]_vars PROVE [Log!Next]_(Log!logVars)
    OBVIOUS
  <2>1. CASE Replace
    BY <2>1, CommitIsLogged
  <2>2. CASE UNCHANGED <<file, loss>>
    BY <2>2 DEF Log!logVars, OpenRun, OpenRecords, SealedActive, SealedIn
  <2>3. CASE PowerCut
    <3>1. CASE file' = file
      <4>1. loss' = loss
        BY <2>3, <3>1, ZenonT(40) DEF PowerCut
      <4> QED
        BY <2>2, <3>1, <4>1
    <3>2. CASE file' # file
      <4>1. loss' \in {"pending", "stored"}
        BY <2>3, <3>2, ZenonT(40) DEF PowerCut
      <4>2. Log!Lose
        BY <4>1 DEF Log!Lose
      <4> QED
        BY <4>2 DEF Log!Next
    <3> QED
      BY <3>1, <3>2
  <2> QED
    BY <2>1, <2>2, <2>3, ZenonT(40)
       DEF Next, Calls, persist_records, persist_record, lookup, seal_run, Sync,
           CommitFails, Crash, Restart, RemoveTemp, vars
<1> QED
  BY <1>1, <1>2, StoreInvariant, PTL DEF Spec, LogSpec, Log!Spec

=============================================================================
