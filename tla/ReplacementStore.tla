-------------------------- MODULE ReplacementStore --------------------------
(***************************************************************************)
(* The durable store of release decisions of a whole-topology replacement  *)
(* (scheduler/replacement_store.py): one JSON file, rewritten as a whole   *)
(* through a temp file, fsync, rename and a directory fsync.               *)
(*                                                                         *)
(* The gateway calls the store from one thread; a commit is split into its *)
(* file system steps only because the process may crash, the machine may   *)
(* lose power, and the file system may fail between them.  Digests are     *)
(* injective: a digest is the value it is made from, and a record root is  *)
(* the set of records.  The seals of the file are a set; a seal is one of  *)
(* the last Retention ones exactly when its sequence number says so,       *)
(* because numbers are given out without gaps.                             *)
(***************************************************************************)
EXTENDS Integers, FiniteSets

CONSTANTS
    Runs,         \* restart_run_id
    Gens,         \* topology generations
    Decisions,    \* decision_digest
    Records,      \* the release records callers may ask for
    Key, Lease,   \* of a record: its key, and its (operation_id, lease_id)
    RunOf, DecOf, \* of a record: restart_run_id and decision_digest
    MaxRecords,   \* max_records_per_run
    Retention,    \* seal_retention
    MaxSeals,     \* bound of the model on the seals ever made
    NoRun, NoJob

Opened == [run : Runs, old : Gens, dec : Decisions]

Seals == [seq : Nat, run : Runs, old : Gens, new : Gens, dec : Decisions,
          root : SUBSET Records]

Payloads == [active : Opened \cup {NoRun}, records : SUBSET Records,
             seals : SUBSET Seals, next : Nat]

Jobs == [kind : {"persist", "seal", "gc"}, to : Payloads, stage : {"temp", "sync"},
         batch : SUBSET Records]

ASSUME StoreAssumption ==
    /\ RunOf \in [Records -> Runs] /\ DecOf \in [Records -> Decisions]
    /\ IsFiniteSet(Records)
    /\ MaxRecords \in Nat \ {0} /\ Retention \in Nat \ {0} /\ MaxSeals \in Nat
    /\ NoRun \notin Opened /\ NoJob \notin Jobs

VARIABLES
    mem,       \* _active_run, _records, _seals, _next_seal_sequence
    file,      \* the content of the store file
    durable,   \* the content that a power loss cannot take back
    temp,      \* a temp file exists
    fatal,     \* _fatal_error is set
    up,        \* the process runs
    job,       \* the _commit_state in progress
    acked,     \* the records a call reported as stored, until their seal is retired
    loss       \* what power losses took back: "none", "pending" or "stored"

vars == <<mem, file, durable, temp, fatal, up, job, acked, loss>>

-----------------------------------------------------------------------------

Empty == [active |-> NoRun, records |-> {}, seals |-> {}, next |-> 1]

\* The store can be called: it has no fatal error and no call is in progress.
Ready == up /\ ~fatal /\ job = NoJob

\* _seal_for_run
SealedIn(p, run) == \E s \in p.seals : s.run = run

\* _validate_requested_run accepts the request.
_validate_requested_run(run, old, dec) ==
    mem.active # NoRun => mem.active = [run |-> run, old |-> old, dec |-> dec]

\* No key and no lease has two records.
Unambiguous(R) ==
    \A q, r \in R : Key[q] = Key[r] \/ Lease[q] = Lease[r] => q = r

\* _commit_state up to the creation of the temp file.
StartCommit(kind, to, batch) ==
    /\ job' = [kind |-> kind, to |-> to, stage |-> "temp", batch |-> batch]
    /\ temp' = TRUE

Init ==
    /\ mem = Empty /\ file = Empty /\ durable = Empty
    /\ temp = FALSE /\ fatal = FALSE /\ up = TRUE
    /\ job = NoJob
    /\ acked = {} /\ loss = "none"

-----------------------------------------------------------------------------
\* Calls

\* persist_records accepts the batch of the run under this evidence.
Accepts(batch, run, old, dec) ==
    /\ ~SealedIn(mem, run)
    /\ _validate_requested_run(run, old, dec)
    /\ \A r \in batch : RunOf[r] = run /\ DecOf[r] = dec
    /\ Unambiguous(mem.records \cup batch)
    /\ Cardinality(mem.records \cup batch) <= MaxRecords

\* Mutant: the caller is answered before the commit.
persist_recordsEarly(batch, run, old, dec) ==
    /\ Ready
    /\ Accepts(batch, run, old, dec)
    /\ mem.active = NoRun \/ ~(batch \subseteq mem.records)
    /\ StartCommit("persist",
                   [mem EXCEPT !.active = [run |-> run, old |-> old, dec |-> dec],
                               !.records = @ \cup batch], batch)
    /\ acked' = acked \cup batch
    /\ UNCHANGED <<mem, file, durable, fatal, up, loss>>

\* persist_records, when something must be written.  A batch may be empty.
persist_records(batch, run, old, dec) ==
    /\ Ready
    /\ Accepts(batch, run, old, dec)
    /\ mem.active = NoRun \/ ~(batch \subseteq mem.records)
    /\ StartCommit("persist",
                   [mem EXCEPT !.active = [run |-> run, old |-> old, dec |-> dec],
                               !.records = @ \cup batch], batch)
    /\ UNCHANGED <<mem, file, durable, fatal, up, acked, loss>>

\* persist_record writes one record under the same conditions.
persist_record(r, old) == persist_records({r}, RunOf[r], old, DecOf[r])

\* lookup and persist_records of records that are already there return at once.
lookup(batch) ==
    /\ Ready
    /\ batch \subseteq mem.records
    /\ acked' = acked \cup batch
    /\ UNCHANGED <<mem, file, durable, temp, fatal, up, job, loss>>

Sealed(new) ==
    [seq |-> mem.next, run |-> mem.active.run, old |-> mem.active.old,
     new |-> new, dec |-> mem.active.dec, root |-> mem.records]

\* Mutant: one seal too many is kept.
RetainedOneMore(S, next) == {s \in S : s.seq >= next - Retention}

\* The last Retention seals, the new one included.
Retained(S, next) == {s \in S : s.seq > next - Retention}

\* The payload without the active segment.
Collected(p) == [p EXCEPT !.active = NoRun, !.records = {}]

\* seal_run of the active run: the first of its two commits adds the seal.
seal_run(run, old, new, dec) ==
    /\ Ready
    /\ mem.next <= MaxSeals
    /\ ~SealedIn(mem, run)
    /\ mem.active = [run |-> run, old |-> old, dec |-> dec]
    /\ StartCommit("seal",
                   [mem EXCEPT !.seals = Retained(@ \cup {Sealed(new)}, mem.next),
                               !.next = @ + 1], {})
    /\ UNCHANGED <<mem, file, durable, fatal, up, acked, loss>>

-----------------------------------------------------------------------------
\* _commit_state

\* os.replace: the new content is in place.  A seal that retention drops takes
\* the duty to remember its records with it.
Replace ==
    /\ job # NoJob /\ job.stage = "temp"
    /\ file' = job.to
    /\ temp' = FALSE
    /\ job' = [job EXCEPT !.stage = "sync"]
    /\ acked' = acked \ UNION {s.root : s \in file.seals \ job.to.seals}
    /\ UNCHANGED <<mem, durable, fatal, up, loss>>

\* The directory is synced and the memory follows.  A seal goes on with its
\* second commit, which drops the sealed segment; the call then returns.
Sync ==
    /\ job # NoJob /\ job.stage = "sync"
    /\ durable' = file
    /\ mem' = job.to
    /\ acked' = acked \cup job.batch
    /\ \/ /\ job.kind = "seal"
          /\ StartCommit("gc", Collected(job.to), {})
       \/ /\ job.kind # "seal"
          /\ job' = NoJob /\ UNCHANGED temp
    /\ UNCHANGED <<file, fatal, up, loss>>

\* Mutant: a failed write is reported to the caller only.
CommitFailsOpen ==
    /\ job # NoJob
    /\ job' = NoJob
    /\ temp' \in {FALSE, temp}
    /\ UNCHANGED <<mem, file, durable, fatal, up, acked, loss>>

\* A step of the write fails: the error is sticky and nothing is undone.  The
\* temp file stays unless it could not even be created.
CommitFails ==
    /\ job # NoJob
    /\ fatal' = TRUE
    /\ job' = NoJob
    /\ temp' \in {FALSE, temp}
    /\ UNCHANGED <<mem, file, durable, up, acked, loss>>

-----------------------------------------------------------------------------
\* Crash and restart

Crash ==
    /\ up
    /\ up' = FALSE
    /\ mem' = Empty /\ fatal' = FALSE /\ job' = NoJob
    /\ UNCHANGED <<file, durable, temp, acked, loss>>

\* The rename of the commit in progress, whose caller has no answer yet, is the
\* only one that is not synced.
Pending == job # NoJob /\ job.stage = "sync" /\ mem = durable

\* A rename that was not followed by a directory sync may be lost.
PowerCut ==
    /\ up
    /\ up' = FALSE
    /\ mem' = Empty /\ fatal' = FALSE /\ job' = NoJob
    /\ file' \in {file, durable}
    /\ durable' = file'
    /\ temp' \in {FALSE, temp}
    /\ loss' = CASE file' = file -> loss
                 [] file' # file /\ Pending /\ loss # "stored" -> "pending"
                 [] OTHER -> "stored"
    /\ UNCHANGED acked

\* The content passes the validation of _load ...
Loadable(p) ==
    /\ Unambiguous(p.records)
    /\ Cardinality(p.records) <= MaxRecords
    /\ p.active = NoRun => p.records = {}
    /\ p.active # NoRun =>
          \A r \in p.records : RunOf[r] = p.active.run /\ DecOf[r] = p.active.dec
    /\ Cardinality(p.seals) <= Retention
    /\ \A s, t \in p.seals : s.run = t.run \/ s.seq = t.seq => s = t
    /\ \A s \in p.seals : s.seq < p.next

\* ... and of _finish_sealed_gc_after_restart.
Collectable(p) ==
    \A s \in p.seals :
        p.active # NoRun /\ s.run = p.active.run =>
            s.root = p.records /\ s.old = p.active.old /\ s.dec = p.active.dec

SealedActive(p) == p.active # NoRun /\ SealedIn(p, p.active.run)

\* Mutant: the active segment is collected whether or not it is sealed.
RestartCollectsAll ==
    /\ ~up
    /\ up' = TRUE
    /\ mem' = IF temp \/ ~Loadable(file) THEN Empty ELSE file
    /\ fatal' = (temp \/ ~Loadable(file) \/ ~Collectable(file))
    /\ IF ~fatal' /\ file.active # NoRun
       THEN StartCommit("gc", Collected(file), {})
       ELSE UNCHANGED <<job, temp>>
    /\ UNCHANGED <<file, durable, acked, loss>>

\* __init__ of the next process.
Restart ==
    /\ ~up
    /\ up' = TRUE
    /\ mem' = IF temp \/ ~Loadable(file) THEN Empty ELSE file
    /\ fatal' = (temp \/ ~Loadable(file) \/ ~Collectable(file))
    /\ IF ~fatal' /\ SealedActive(file)
       THEN StartCommit("gc", Collected(file), {})
       ELSE UNCHANGED <<job, temp>>
    /\ UNCHANGED <<file, durable, acked, loss>>

\* The operator reviews and removes an orphan temp file.
RemoveTemp ==
    /\ ~up
    /\ temp
    /\ temp' = FALSE
    /\ UNCHANGED <<mem, file, durable, fatal, up, job, acked, loss>>

Calls ==
    \/ \E batch \in SUBSET Records, run \in Runs, old \in Gens, dec \in Decisions :
          persist_records(batch, run, old, dec)
    \/ \E r \in Records, old \in Gens : persist_record(r, old)
    \/ \E batch \in SUBSET Records : lookup(batch)
    \/ \E run \in Runs, old, new \in Gens, dec \in Decisions : seal_run(run, old, new, dec)

Next ==
    \/ Calls
    \/ Replace \/ Sync \/ CommitFails
    \/ Crash \/ PowerCut \/ Restart \/ RemoveTemp

Spec == Init /\ [][Next]_vars

-----------------------------------------------------------------------------

TypeOK ==
    /\ mem \in Payloads /\ file \in Payloads /\ durable \in Payloads
    /\ temp \in BOOLEAN /\ fatal \in BOOLEAN /\ up \in BOOLEAN
    /\ job \in Jobs \cup {NoJob}
    /\ acked \subseteq Records
    /\ loss \in {"none", "pending", "stored"}

\* Whatever commit is interrupted, and by whatever (a crash, a power loss, a
\* failed write), the file that is left passes every validation of _load and of
\* _finish_sealed_gc_after_restart: the store never refuses a file that it wrote.
DiskLoads ==
    \A p \in {file, durable} : Loadable(p) /\ Collectable(p)

\* The store fails closed: whenever it answers calls, its memory is the content
\* of the file.  A commit whose outcome is unknown leaves them apart, but then
\* the error is sticky and the store answers nothing until a restart reads the
\* file again.
FailClosed == Ready => mem = file

\* "Persist immutable replacement decisions before releasing resources": a
\* record that persist_records, persist_record or lookup reported as stored is
\* in the file, or in the record root of a seal of the file, from then on until
\* retention drops that seal, even if a power loss undoes the commit in
\* progress.  The one exception is a rename that a process found at its start:
\* _load does not sync the directory before the store answers from that file.
AckedKept ==
    loss # "stored" =>
        acked \subseteq file.records \cup UNION {s.root : s \in file.seals}

\* What the callers see of a file: a sealed run is closed, whether or not its
\* records have been collected already.
OpenRun == IF SealedActive(file) THEN NoRun ELSE file.active

OpenRecords == IF SealedActive(file) THEN {} ELSE file.records

Log == INSTANCE DecisionLog WITH open <- OpenRun, decided <- OpenRecords,
                                 seals <- file.seals, next <- file.next,
                                 intact <- loss = "none"

\* The two commits of a seal, the restart that finishes an interrupted one and
\* every crash in between implement a log in which a run is decided and sealed
\* atomically, a decision is never changed or withdrawn, and a retained seal
\* never disappears.
LogSpec == Log!Spec

=============================================================================
