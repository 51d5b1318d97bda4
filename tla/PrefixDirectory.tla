-------------------------- MODULE PrefixDirectory --------------------------
(***************************************************************************)
(* The gateway's copy of the prefix directories of the workers: the index  *)
(* (router/prefix_index.py) and the task that keeps it up to date          *)
(* (router/reconciler.py) with full reports and acknowledged events.       *)
(*                                                                         *)
(* Every worker caches locations, numbers each change, and keeps the last  *)
(* LogCap changes that are not acknowledged.  The workers are external and *)
(* change at any time; a worker that restarts has another epoch and an     *)
(* empty directory, and may refuse a consumer it does not know or answer   *)
(* with its own events.  A report or a batch of events is of the moment    *)
(* the worker answers; any call may fail, whether or not the worker served *)
(* it.  The generation, which tells the worker that an old registration is *)
(* void, expiry by age, which only hides locations from the router, and    *)
(* gauges are left out.                                                    *)
(***************************************************************************)
EXTENDS Integers, FiniteSets, Sequences, SequencesExt

CONSTANTS
    Order,         \* the instances as the task goes through them
    Mortal,        \* the instances that may restart
    Keys, Blocks,  \* a location is a block under the key of its prefix
    LogCap,        \* events a worker keeps
    Limit,         \* events of one peek
    MaxEvents,     \* bound of the model on the changes of all workers
    MaxEpoch       \* and on their incarnations

Instances == {Order[k] : k \in DOMAIN Order}

ASSUME DirectoryAssumption ==
    /\ Order # <<>> /\ Len(Order) = Cardinality(Instances)
    /\ {LogCap, Limit, MaxEpoch} \subseteq Nat \ {0}
    /\ MaxEvents \in Nat

VARIABLES
    inc,       \* the incarnation (instance_epoch) of each worker
    past,      \* its directory after every change, per incarnation
    log,       \* its retained events
    acked,     \* the sequence number its consumer acknowledged
    index,     \* _index
    forward,   \* _forward: the keys of an owner
    last,      \* _last_seq
    owners,    \* _owners: epoch and cursor
    expected,  \* _expected_epochs
    pub,       \* the epochs of world_publication, <<>> for None
    rc         \* the reconciler: where, for which instance, reports received

workerVars == <<inc, past, log, acked>>
indexVars == <<index, forward, last>>
reconcilerVars == <<owners, expected, pub, rc>>
vars == <<workerVars, indexVars, reconcilerVars>>

-----------------------------------------------------------------------------

Locations == Keys \X Blocks

Key(l) == l[1]

\* The directory of worker i and the number of its last change.
SeqNo(i) == Len(past[<<i, inc[i]>>]) - 1

Dir(i) == Last(past[<<i, inc[i]>>])

\* Partial functions: an entry is set, entries are popped.
Put(f, k, v) == [x \in DOMAIN f \cup {k} |-> IF x = k THEN v ELSE f[x]]

Pop(f, S) == [x \in DOMAIN f \ S |-> f[x]]

None == <<>>

\* The locations of an owner in the index.
Of(own) == {e.loc : e \in {f \in index : f.own = own}}

Entries(own, locs) == {[own |-> own, loc |-> l] : l \in locs}

\* The task waits for instance i.
Waits(at, i) == [at |-> at, inst |-> i, got |-> None]

\* The instance that the loop of run visits after i.
After(i) == Order[((CHOOSE k \in DOMAIN Order : Order[k] = i) % Len(Order)) + 1]

\* A gateway of the multi-node profile builds the world before it serves, others
\* leave it to the task.
Init ==
    /\ inc = [i \in Instances |-> 1]
    /\ past = [o \in Instances \X (1 .. MaxEpoch) |-> <<{}>>]
    /\ log = [i \in Instances |-> <<>>]
    /\ acked = [i \in Instances |-> 0]
    /\ index = {} /\ forward = None /\ last = None
    /\ owners = None /\ pub = None
    /\ expected \in {None, inc}
    /\ rc = Waits(IF expected = None THEN "idle" ELSE "boot", Order[1])

-----------------------------------------------------------------------------
\* The workers

Changes == {o \in Instances \X (1 .. MaxEpoch) : Len(past[o]) > 1}

Total == LET Plus(n, o) == n + Len(past[o]) - 1
         IN  FoldLeft(Plus, 0, SetToSeq(Changes))

\* A block is cached or evicted.  The oldest retained event makes room.
Change(i, kind, l) ==
    /\ Total < MaxEvents
    /\ (kind = "hash_added") = (l \notin Dir(i))
    /\ LET dir == IF kind = "hash_added" THEN Dir(i) \cup {l} ELSE Dir(i) \ {l}
           all == Append(log[i], [own |-> <<i, inc[i]>>, seq |-> SeqNo(i) + 1,
                                  kind |-> kind, loc |-> l])
       IN  /\ past' = [past EXCEPT ![<<i, inc[i]>>] = Append(@, dir)]
           /\ log' = [log EXCEPT ![i] = IF Len(all) > LogCap THEN Tail(all) ELSE all]
    /\ UNCHANGED <<inc, acked, indexVars, reconcilerVars>>

\* The worker process is replaced.
Restart(i) ==
    /\ i \in Mortal /\ inc[i] < MaxEpoch
    /\ inc' = [inc EXCEPT ![i] = @ + 1]
    /\ log' = [log EXCEPT ![i] = <<>>]
    /\ acked' = [acked EXCEPT ![i] = 0]
    /\ UNCHANGED <<past, indexVars, reconcilerVars>>

\* full_report_and_register: the directory, and events from here on.
Report(i) == [own |-> <<i, inc[i]>>, seq |-> SeqNo(i), locs |-> Dir(i)]

Register(i) ==
    /\ acked' = [acked EXCEPT ![i] = SeqNo(i)]
    /\ log' = [log EXCEPT ![i] = <<>>]
    /\ UNCHANGED <<inc, past>>

\* ack_events: acknowledged events are dropped.
Acknowledge(i, n) ==
    /\ acked' = [acked EXCEPT ![i] = n]
    /\ log' = [log EXCEPT ![i] = SelectSeq(@, LAMBDA e : e.seq > n)]
    /\ UNCHANGED <<inc, past>>

-----------------------------------------------------------------------------
\* The index (PrefixIndex)

\* clear
Clear == index' = {} /\ forward' = None /\ last' = None

\* The keys of an owner, as far as it has any.
KeysOf(fw, own) == IF own \in DOMAIN fw THEN fw[own] ELSE {}

\* Mutant: the last block under a key is not looked for.
ForgetAlways(ix, fw, own, k) == Put(fw, own, KeysOf(fw, own) \ {k})

\* A key of an owner is forgotten with its last location.
Forget(ix, fw, own, k) ==
    IF \E e \in ix : e.own = own /\ Key(e.loc) = k THEN fw
    ELSE Put(fw, own, KeysOf(fw, own) \ {k})

\* _add and _remove_block.
ApplyEvent(st, e) ==
    IF e.kind = "hash_added"
    THEN [ix |-> st.ix \cup Entries(e.own, {e.loc}),
          fw |-> Put(st.fw, e.own, KeysOf(st.fw, e.own) \cup {Key(e.loc)})]
    ELSE LET ix == st.ix \ Entries(e.own, {e.loc})
         IN  [ix |-> ix, fw |-> Forget(ix, st.fw, e.own, Key(e.loc))]

\* remove_owner: its keys lead to its locations.
WithoutOwners(owns) ==
    {e \in index : e.own \notin owns \/ Key(e.loc) \notin KeysOf(forward, e.own)}

\* The owners of an instance that have had a location.
OwnersOf(i) == {o \in DOMAIN forward : o[1] = i}

\* remove_instance
RemoveInstance(i) ==
    /\ index' = WithoutOwners(OwnersOf(i))
    /\ forward' = Pop(forward, OwnersOf(i))
    /\ last' = Pop(last, OwnersOf(i))

\* remove_instance and install_full_report of one instance.
Install(rep) ==
    LET owns == OwnersOf(rep.own[1]) \cup {rep.own}
        keys == {Key(l) : l \in rep.locs}
    IN  /\ index' = WithoutOwners(owns) \cup Entries(rep.own, rep.locs)
        /\ forward' = IF keys = {} THEN Pop(forward, owns)
                      ELSE Put(Pop(forward, owns), rep.own, keys)
        /\ last' = Put(Pop(last, owns), rep.own, rep.seq)

\* install_world_full_reports: the reports replace the whole index at once.
InstallWorld(got) ==
    LET reps == {got[i] : i \in DOMAIN got}
    IN  /\ index' = UNION {Entries(r.own, r.locs) : r \in reps}
        /\ forward' = [o \in {r.own : r \in reps} |-> {Key(l) : l \in got[o[1]].locs}]
        /\ last' = [o \in {r.own : r \in reps} |-> got[o[1]].seq]

-----------------------------------------------------------------------------
\* The reconciler

At(at) == rc.at = at

Goto(at) == rc' = Waits(at, rc.inst)

\* The visit is over.
Done == rc' = Waits("idle", After(rc.inst))

Many == Cardinality(DOMAIN expected) > 1

\* world_ready for the epochs the world was built with.
Ready ==
    /\ pub # None /\ pub = expected
    /\ [i \in DOMAIN owners |-> owners[i].epoch] = expected

\* Mutant: a world that is not published is left to its instances.
VisitEach ==
    /\ At("idle")
    /\ Goto(IF rc.inst \in DOMAIN owners THEN "peek" ELSE "report")
    /\ UNCHANGED <<workerVars, indexVars, owners, expected, pub>>

\* The next instance of the loop of run.  A world that is not published is built
\* as a whole, an unknown instance by itself; the others are asked for events.
Visit ==
    /\ At("idle")
    /\ Goto(CASE Many /\ pub = None -> "world"
              [] rc.inst \notin DOMAIN owners -> "report"
              [] OTHER -> "peek")
    /\ UNCHANGED <<workerVars, indexVars, owners, expected, pub>>

\* Startup of the multi-node profile calls rebuild_world.
Boot ==
    /\ At("boot")
    /\ Goto("world")
    /\ UNCHANGED <<workerVars, indexVars, owners, expected, pub>>

\* The instances report concurrently, in any order.
WorldReport(i) ==
    /\ At("world") /\ i \in DOMAIN expected \ DOMAIN rc.got
    /\ rc' = [rc EXCEPT !.got = Put(@, i, Report(i))]
    /\ Register(i)
    /\ UNCHANGED <<indexVars, owners, expected, pub>>

AllReported == At("world") /\ DOMAIN rc.got = DOMAIN expected

\* The last report of rebuild_world is in, and every one is of the expected epoch:
\* index, owners and publication change without an await between them.
Publish ==
    /\ AllReported
    /\ \A i \in DOMAIN expected : rc.got[i].own = <<i, expected[i]>>
    /\ InstallWorld(rc.got)
    /\ owners' = [i \in DOMAIN rc.got |-> [epoch |-> rc.got[i].own[2], cursor |-> rc.got[i].seq]]
    /\ pub' = expected
    /\ Done
    /\ UNCHANGED <<workerVars, expected>>

\* rebuild of one instance.
Rebuild ==
    /\ At("report")
    /\ LET i == rc.inst
       IN  /\ Install(Report(i))
           /\ owners' = Put(owners, i, [epoch |-> inc[i], cursor |-> SeqNo(i)])
           /\ expected' = Put(expected, i, inc[i])
           /\ Register(i)
    /\ Done
    /\ UNCHANGED pub

\* The events that a worker answers with.
Batch(i) ==
    LET new == SelectSeq(log[i], LAMBDA e : e.seq > owners[i].cursor)
    IN  SubSeq(new, 1, IF Len(new) < Limit THEN Len(new) ELSE Limit)

Owner(i) == <<i, owners[i].epoch>>

\* apply_events passes over the events that the index has.
New(i) == SelectSeq(Batch(i), LAMBDA e : e.seq > last[Owner(i)])

\* It accepts the batch: events of the index's owner, no gap after its cursor.
Contiguous(i) ==
    /\ \A k \in DOMAIN Batch(i) : Batch(i)[k].own = Owner(i)
    /\ \A k \in DOMAIN New(i) : New(i)[k].seq = last[Owner(i)] + k

\* peek_events is answered and the whole batch is applied.
Peek ==
    /\ At("peek")
    /\ LET i   == rc.inst
           evs == New(i)
           st  == FoldLeft(ApplyEvent, [ix |-> index, fw |-> forward], evs)
       IN  /\ Contiguous(i)
           /\ index' = st.ix /\ forward' = st.fw
           /\ last' = [last EXCEPT ![Owner(i)] = @ + Len(evs)]
           /\ Goto("ack")
    /\ UNCHANGED <<workerVars, owners, expected, pub>>

\* FullReportRequired, or ValueError, which an answer that cannot be read raises too.
\* What was applied before goes with the index, and all is reported again.
Gap ==
    /\ At("peek") \/ At("ack")
    /\ IF Many THEN Clear /\ owners' = None
       ELSE RemoveInstance(rc.inst) /\ owners' = Pop(owners, {rc.inst})
    /\ pub' = None
    /\ Goto(IF Many THEN "world" ELSE "report")
    /\ UNCHANGED <<workerVars, expected>>

\* Mutant: all that the worker has is acknowledged.
AckAll ==
    /\ At("ack")
    /\ LET i == rc.inst
       IN  /\ Acknowledge(i, SeqNo(i))
           /\ owners' = [owners EXCEPT ![i].cursor = last[Owner(i)]]
    /\ Done
    /\ UNCHANGED <<indexVars, expected, pub>>

\* ack_events is answered.
Ack ==
    /\ At("ack")
    /\ LET i == rc.inst
       IN  /\ Acknowledge(i, last[Owner(i)])
           /\ owners' = [owners EXCEPT ![i].cursor = last[Owner(i)]]
    /\ Done
    /\ UNCHANGED <<indexVars, expected, pub>>

\* Mutant: the index is cleared and the world stays published.
FailClosedIndexOnly ==
    /\ IF Many THEN Clear ELSE RemoveInstance(rc.inst)
    /\ Done
    /\ UNCHANGED <<owners, expected, pub>>

\* The handler of run: nothing is left of a world of which a part is in doubt.
FailClosed ==
    /\ IF Many THEN Clear /\ owners' = None /\ pub' = None
       ELSE /\ RemoveInstance(rc.inst)
            /\ owners' = Pop(owners, {rc.inst})
            /\ UNCHANGED pub
    /\ Done
    /\ UNCHANGED expected

\* A call fails before the worker served it, or a worker without a registration
\* refuses it.
CallFails ==
    /\ rc.at \in {"world", "report", "peek", "ack"} /\ ~AllReported
    /\ FailClosed
    /\ UNCHANGED workerVars

\* The reports are not those of the expected world.
WrongWorld ==
    /\ AllReported
    /\ \E i \in DOMAIN expected : rc.got[i].own # <<i, expected[i]>>
    /\ FailClosed
    /\ UNCHANGED workerVars

\* The worker served the call, its answer is lost.
AnswerLost ==
    /\ \/ At("report") /\ Register(rc.inst)
       \/ At("ack") /\ Acknowledge(rc.inst, last[Owner(rc.inst)])
    /\ FailClosed

Worker ==
    \E i \in Instances :
        \/ \E kind \in {"hash_added", "evicted"}, l \in Locations : Change(i, kind, l)
        \/ Restart(i)

Next ==
    \/ Worker
    \/ \E i \in Instances : WorldReport(i)
    \/ Visit \/ Boot \/ Publish \/ Rebuild \/ Peek \/ Gap \/ Ack
    \/ CallFails \/ WrongWorld \/ AnswerLost

Spec == Init /\ [][Next]_vars

\* A single call to instance i is answered.
Answered(i) == rc.inst = i /\ (Rebuild \/ Peek \/ Ack)

\* A report of the world comes in after n others.
Reported(n) == Cardinality(DOMAIN rc.got) = n /\ \E i \in Instances : WorldReport(i)

\* The task runs, and no call fails whenever it is made.
Fairness ==
    /\ WF_vars(Visit \/ Boot \/ Publish \/ Gap \/ WrongWorld)
    /\ \A i \in Instances : SF_vars(Answered(i))
    /\ \A n \in 0 .. Len(Order) - 1 : SF_vars(Reported(n))

FairSpec == Spec /\ Fairness

-----------------------------------------------------------------------------
\* Properties

\* The state stays in its types.
TypeOK ==
    /\ inc \in [Instances -> 1 .. MaxEpoch]
    /\ acked \in [Instances -> 0 .. MaxEvents]
    /\ \A e \in index : e.own \in Instances \X (1 .. MaxEpoch) /\ e.loc \in Locations
    /\ DOMAIN owners \subseteq Instances /\ DOMAIN expected \subseteq Instances
    /\ rc.at \in {"idle", "boot", "world", "report", "peek", "ack"}

\* At every await the index shows of each worker incarnation exactly the directory
\* that it had at the sequence number of the index, whatever batches, gaps, lost
\* answers, rebuilds and restarts came before, and it shows nothing else
\* (apply_events, _remove_owner and install_full_report of prefix_index.py).
IndexFaithful ==
    /\ \A e \in index : e.own \in DOMAIN last
    /\ \A o \in DOMAIN last : Of(o) = past[o][last[o] + 1]

\* A world that admits requests (world_ready of reconciler.py) has every instance in
\* the index, under the epoch the world was accepted with: no partial world and no
\* other incarnation is ever published.
ReadyIsWhole == Ready => DOMAIN last = {<<i, expected[i]>> : i \in DOMAIN expected}

\* A worker forgets an event only when the index has applied it ("ACK only after
\* every local mutation succeeded"): the events after the cursor of the index are in
\* the worker's log, unless the log overflowed, which the next peek finds out.  Only
\* while all instances report anew do the workers run ahead.
NoEventLost ==
    \A i \in DOMAIN owners :
        (~At("world") /\ owners[i].epoch = inc[i]) => acked[i] <= last[Owner(i)]

\* While the workers are the ones of the accepted world, a directory that a gap or a
\* failed call has cleared is published again, and when the workers rest it comes to
\* show what they cache (sync_once and run of reconciler.py).
DirectoryCatchesUp ==
    []<>(\/ Ready /\ \A i \in Instances : Of(<<i, inc[i]>>) = Dir(i)
         \/ \E i \in DOMAIN expected : inc[i] # expected[i])

=============================================================================
