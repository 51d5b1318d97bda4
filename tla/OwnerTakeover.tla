--------------------------- MODULE OwnerTakeover ---------------------------
(***************************************************************************)
(* How a gateway becomes the one owner of all workers                      *)
(* (router/network_rpc.py, activate_replacement_owner): it sweeps the      *)
(* operations of the previous owner to a terminal state, has their         *)
(* resources finalized (scheduler/resource_release.py), checks that        *)
(* nothing is left, retires the old owner on every worker and only then    *)
(* activates itself on every worker.                                       *)
(*                                                                         *)
(* Every step is one call to one worker, so a crash of the gateway and     *)
(* everything the workers do fall between any two of them.  The workers    *)
(* are external: a worker has one active owner, activates an owner only    *)
(* when it has none, and refuses to retire one whose operation still runs  *)
(* or holds resources.  All workers carry out one operation together, as a *)
(* prefill and a decode worker do.  An epoch of a worker is the generation *)
(* of its process.                                                         *)
(***************************************************************************)
EXTENDS Integers, Sequences, FiniteSets

CONSTANTS
    Workers,
    Order,        \* the workers as sorted(instances) lists them
    Owners,       \* owner generations of gateway processes
    NoOwner,
    MaxAttempts   \* of one finalize

VARIABLES
    world,   \* the generation of the worker processes
    down,    \* no worker process runs
    owner,   \* active_owner of each worker
    op,      \* its operation for that owner
    tk       \* the takeover in progress

workerVars == <<world, down, owner, op>>

takeoverVars == <<world, down, owner, op, tk>>

OpStates == {"none", "run", "held", "done"}

\* COMPLETED or FENCED.
Terminal == {"held", "done"}

Off == [at |-> "off", todo |-> {}, new |-> NoOwner, fence |-> {}, epochs |-> {},
        old |-> [w \in Workers |-> NoOwner], seen |-> [w \in Workers |-> "none"],
        tries |-> 0]

\* activate_replacement_owner is called, with a client that lets only the owners of
\* the fence be replaced.
TakeOver(new, fence) ==
    [Off EXCEPT !.at = "status", !.todo = Workers, !.new = new, !.fence = fence]

\* It raises.
Raised == [Off EXCEPT !.at = "raised"]

\* The old owner still owns these workers.
OldOf(t) == {w \in Workers : t.old[w] # NoOwner}

\* The phases, each with the workers it goes through; one with none is passed.
Phase(t, at, ws) == [t EXCEPT !.at = at, !.todo = ws]

ToActivate(t) == Phase(t, "activate", Workers)

ToRetire(t) ==
    Phase([t EXCEPT !.seen = Off.seen, !.epochs = {}, !.tries = 0], "retire", OldOf(t))

ToRelist(t) == Phase(t, "relist", OldOf(t))

\* The plan of the operation: the endpoints that hold resources.
ToFinalize(t) ==
    LET held == {w \in Workers : t.seen[w] = "held"}
    IN  IF held = {} THEN ToRelist(t) ELSE Phase(t, "finalize", held)

ToSweep(t) ==
    LET listed == {w \in Workers : t.seen[w] # "none"}
    IN  IF listed = {} THEN ToRelist(t) ELSE Phase(t, "sweep", listed)

ToList(t) == Phase(t, "list", OldOf(t))

\* Two previous owners at once are refused.
ToIdentity(t) ==
    CASE OldOf(t) = {} -> ToActivate(t)
      [] \E v, w \in OldOf(t) : t.old[v] # t.old[w] -> Raised
      [] OTHER -> Phase(t, "identity", OldOf(t))

ToConfirm(t) == Phase(t, "confirm", Workers)

ToDone(t) == Phase(t, "done", {})

\* The call to the next worker of the phase, in the order of sorted(instances).
This == Order[CHOOSE i \in DOMAIN Order :
                 Order[i] \in tk.todo /\ \A j \in 1 .. (i - 1) : Order[j] \notin tk.todo]

At(phase) == tk.at = phase /\ ~down

\* The worker is of the epoch that the takeover has read.
Bound == tk.epochs = {world}

Answered(phase) == At(phase) /\ Bound

\* The next worker of the phase, or the next phase.
Move(t, To(_)) ==
    IF t.todo = {This} THEN To(t) ELSE [t EXCEPT !.todo = @ \ {This}]

-----------------------------------------------------------------------------

\* read_initial_owners and the fenced client of a gateway that boots: the workers
\* agree on the owner that is to be replaced, and no other one may turn up later.
Preflight(new) ==
    LET prior == {owner[w] : w \in Workers} \ {NoOwner, new}
    IN  IF Cardinality(prior) > 1 THEN Raised ELSE TakeOver(new, prior)

\* _BootstrapOwnerClient.owner_status lets the answer of the worker pass.
Fenced(w) == owner[w] \in tk.fence \cup {NoOwner, tk.new}

\* owner_status of every worker.
TkStatus ==
    /\ At("status")
    /\ tk' = IF Fenced(This)
             THEN Move([tk EXCEPT !.old[This] = IF owner[This] = tk.new THEN NoOwner
                                                ELSE owner[This]], ToIdentity)
             ELSE Raised
    /\ UNCHANGED workerVars

\* get_identity of the workers with another owner.
TkIdentity ==
    /\ At("identity")
    /\ tk' = Move([tk EXCEPT !.epochs = @ \cup {world}], ToList)
    /\ UNCHANGED workerVars

\* list_operations of the old owner.
TkList ==
    /\ Answered("list")
    /\ tk' = Move([tk EXCEPT !.seen[This] = op[This]], ToSweep)
    /\ UNCHANGED workerVars

\* Mutant: the answer to the abort is believed, the exact query is left out.
TkSweepUnqueried ==
    /\ Answered("sweep")
    /\ op' \in {op, [op EXCEPT ![This] = IF @ = "run" THEN "held" ELSE @]}
    /\ tk' = Move([tk EXCEPT !.seen[This] = "held"], ToFinalize)
    /\ UNCHANGED <<world, down, owner>>

\* An operation that was listed as running is aborted; whatever the answer, the
\* exact query that follows says that it is terminal.
TkSweep ==
    /\ Answered("sweep")
    /\ op' = [op EXCEPT ![This] = IF @ = "run" THEN "held" ELSE @]
    /\ tk' = Move([tk EXCEPT !.seen[This] = op'[This]], ToFinalize)
    /\ UNCHANGED <<world, down, owner>>

\* release_endpoint_terminal of the plan: the next endpoint acknowledges.  The
\* ack is kept, so a later attempt does not ask this endpoint again.
TkFinalize ==
    /\ Answered("finalize")
    /\ op' = [op EXCEPT ![This] = "done"]
    /\ tk' = Move(tk, ToRelist)
    /\ UNCHANGED <<world, down, owner>>

\* The finalize call fails or its answer is lost; the attempt is repeated from
\* the first endpoint without an ack.
TkFinalizeLost ==
    /\ Answered("finalize")
    /\ op' \in {op, [op EXCEPT ![This] = "done"]}
    /\ tk' = IF tk.tries + 1 = MaxAttempts THEN Raised ELSE [tk EXCEPT !.tries = @ + 1]
    /\ UNCHANGED <<world, down, owner>>

\* The second complete report: the same operations, terminal, nothing held.
TkRelist ==
    /\ Answered("relist")
    /\ tk' = IF /\ (op[This] = "none") = (tk.seen[This] = "none")
                /\ op[This] \in {"none", "done"}
             THEN Move(tk, ToRetire)
             ELSE Raised
    /\ UNCHANGED workerVars

\* A worker process of another epoch answers: the report, the query or the ack is
\* refused.
TkOtherEpoch ==
    /\ At("list") \/ At("sweep") \/ At("finalize") \/ At("relist")
    /\ ~Bound
    /\ tk' = Raised
    /\ UNCHANGED workerVars

\* The worker retires its owner, unless it refuses (409, which is retried).
Retire(w) ==
    IF op[w] \in {"none", "done"}
    THEN /\ owner' = [owner EXCEPT ![w] = NoOwner]
         /\ op' = [op EXCEPT ![w] = "none"]
    ELSE UNCHANGED <<owner, op>>

\* Mutant: a worker is activated as soon as it is retired.
TkRetireOne ==
    /\ At("retire")
    /\ \/ /\ owner[This] \in {NoOwner, tk.new}
          /\ tk' = ToActivate(tk)
          /\ UNCHANGED <<owner, op>>
       \/ /\ owner[This] = tk.old[This]
          /\ Retire(This)
          /\ UNCHANGED tk
       \/ /\ owner[This] \notin {NoOwner, tk.new, tk.old[This]}
          /\ tk' = Raised
          /\ UNCHANGED <<owner, op>>
    /\ UNCHANGED <<world, down>>

\* retire-all: the status is read again after every attempt, so an answer that
\* is lost after the worker acted does no harm.
TkRetire ==
    /\ At("retire")
    /\ \/ /\ owner[This] \in {NoOwner, tk.new}
          /\ tk' = Move(tk, ToActivate)
          /\ UNCHANGED <<owner, op>>
       \/ /\ owner[This] = tk.old[This]
          /\ Retire(This)
          /\ UNCHANGED tk
       \/ /\ owner[This] \notin {NoOwner, tk.new, tk.old[This]}
          /\ tk' = Raised
          /\ UNCHANGED <<owner, op>>
    /\ UNCHANGED <<world, down>>

\* activate-all, with the same reading back.
TkActivate ==
    /\ At("activate")
    /\ \/ /\ owner[This] = tk.new
          /\ tk' = Move(tk, ToConfirm)
          /\ UNCHANGED <<owner, op>>
       \/ /\ owner[This] = NoOwner
          /\ owner' = [owner EXCEPT ![This] = tk.new]
          /\ op' = [op EXCEPT ![This] = "none"]
          /\ UNCHANGED tk
       \/ /\ owner[This] = tk.old[This] /\ owner[This] # NoOwner
          /\ Retire(This)
          /\ UNCHANGED tk
       \/ /\ owner[This] \notin {NoOwner, tk.new, tk.old[This]}
          /\ tk' = Raised
          /\ UNCHANGED <<owner, op>>
    /\ UNCHANGED <<world, down>>

\* Every worker names the new owner.
TkConfirm ==
    /\ At("confirm")
    /\ tk' = IF owner[This] = tk.new THEN Move(tk, ToDone) ELSE Raised
    /\ UNCHANGED workerVars

\* The worker refuses to retire its owner until the deadline.
TkDeadline ==
    /\ At("retire") \/ At("activate")
    /\ owner[This] = tk.old[This] /\ op[This] \in {"run", "held"}
    /\ tk' = Raised
    /\ UNCHANGED workerVars

\* A call of the takeover fails for good, or the exact query of the sweep says
\* that an aborted operation still runs.
TkFails ==
    /\ tk.at \notin {"off", "done", "raised"}
    /\ tk' = Raised
    /\ UNCHANGED workerVars

TakeoverStep ==
    \/ TkStatus \/ TkIdentity \/ TkList \/ TkSweep \/ TkFinalize \/ TkRelist
    \/ TkOtherEpoch \/ TkRetire \/ TkActivate \/ TkConfirm \/ TkDeadline

=============================================================================
