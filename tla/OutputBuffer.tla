---------------------------- MODULE OutputBuffer ----------------------------
(***************************************************************************)
(* The gateway's copy of the decode output (gateway/output.py), the HTTP   *)
(* handlers that send it to clients (chat_completions of gateway/app.py)   *)
(* and the phases of the schedule loop that write, finish and free it,     *)
(* under network control (scheduler/main_loop.py).                         *)
(*                                                                         *)
(* Worker messages carry cumulative output and may be lost, delayed and    *)
(* reordered; the loop and the handlers also query the worker.  The tokens *)
(* of call c are <<c, 1>>, <<c, 2>>, ..., so cumulative output is a call   *)
(* and a length.  A message may carry an output_seq_no that is not the     *)
(* number of its tokens, and a client may choose a request id that was     *)
(* used before.  The states of a request before the commit of its KV       *)
(* transfer are one phase, KV_PENDING.                                     *)
(***************************************************************************)
EXTENDS Integers, Sequences, SequencesExt

CONSTANTS
    Calls,         \* HTTP calls of chat_completions
    Ids,           \* request ids
    Workloads,     \* the request id of each call, and bounds on the length of
                   \* its output and the ways it may end
    ActiveCap,     \* active_operation_cap
    SnapshotCap,   \* terminal_snapshot_cap
    NoOut, NoCall

Ends == {"stop", "garbled", "error"}

ASSUME OutputAssumption ==
    /\ Workloads \subseteq [Calls -> [id : Ids, max : Nat, ends : SUBSET Ends]]
    /\ ActiveCap \in Nat \ {0} /\ SnapshotCap \in Nat \ {0}

VARIABLES
    states,   \* _states: the OutputState of an id
    free,     \* _resource_free_terminal, oldest first
    phase,    \* the request of a call: its SeqState, or why it is not tracked
    worker,   \* the decode worker of a call: tokens made, its fate, its bounds
    client,   \* the handler of a call: its request id, where it is and what it
              \* has sent; the evicted OutputState it still waits on; the call
              \* it queries
    loop      \* the schedule loop: between two steps, in an await, or dead

vars == <<states, free, phase, worker, client, loop>>

-----------------------------------------------------------------------------

Tracked == {"KV_PENDING", "DECODING", "FINISHED", "ABORTED"}

\* The request_id of the body, or the one the gateway generates.
IdOf(c) == client[c].id

\* tracker.get(i)
Entry(i) == {c \in Calls : IdOf(c) = i /\ phase[c] \in Tracked}

Over(o) == o.terminal \/ o.error

Fresh(c) == [of |-> c, n |-> 0, terminal |-> FALSE, error |-> FALSE]

Active == Cardinality({i \in Ids : states[i] # NoOut}) - Len(free)

\* ensure(i) does not raise GatewayOutputCapacity.
Room(i) == states[i] # NoOut \/ Active < ActiveCap

\* The state that ensure returns to call c.
Ensured(c) == IF states[IdOf(c)] = NoOut THEN Fresh(c) ELSE states[IdOf(c)]

\* apply_cumulative with n tokens of call c raises: the prefix changed.
Conflicts(o, c, n) == n >= o.n /\ o.n > 0 /\ o.of # c

\* apply_cumulative raises ValueError: the cursor, which is the output_seq_no
\* of the message, is not the number of its tokens, or the prefix changed.
Rejects(c, n, cursorOk) == ~cursorOk \/ Conflicts(Ensured(c), c, n)

Update(o, c, n, terminal, error) ==
    [of |-> IF n = 0 THEN o.of ELSE c, n |-> n,
     terminal |-> o.terminal \/ terminal, error |-> o.error \/ error]

\* Mutants: output without a new token is ignored; older output is applied.
AppliedNewOnly(o, c, n, terminal, error) ==
    IF n <= o.n THEN o ELSE Update(o, c, n, terminal, error)

AppliedOld(o, c, n, terminal, error) == Update(o, c, n, terminal, error)

\* The state after apply_cumulative, when it does not raise.
Applied(o, c, n, terminal, error) ==
    IF n < o.n THEN o ELSE Update(o, c, n, terminal, error)

\* apply_cumulative for the id of call c; when it raises, the state is as
\* ensure returned it.
Apply(c, n, terminal, error) ==
    /\ Room(IdOf(c))
    /\ states' = [states EXCEPT ![IdOf(c)] =
                    IF Conflicts(Ensured(c), c, n) THEN Ensured(c)
                    ELSE Applied(Ensured(c), c, n, terminal, error)]

ApplyAnswer(c, a) == Apply(c, a.made, a.fate # "run", a.fate = "error")

\* fail
Failed(o) == [o EXCEPT !.terminal = TRUE, !.error = TRUE]

\* mark_resource_free(i), where s are the states and cl the handlers at its
\* call: i moves to the end, and the oldest id over the cap is dropped.  A
\* handler inside wait_next keeps the object it waits on.
MarkFree(i, s, cl) ==
    LET f == Append(Remove(free, i), i)
        expired == IF Len(f) > SnapshotCap THEN {Head(f)} ELSE {}
    IN  /\ free' = IF expired = {} THEN f ELSE Tail(f)
        /\ states' = [j \in Ids |-> IF j \in expired THEN NoOut ELSE s[j]]
        /\ client' = [c \in Calls |->
                        IF IdOf(c) \in expired /\ cl[c].at = "wait" /\ cl[c].held = NoOut
                        THEN [cl[c] EXCEPT !.held = s[IdOf(c)]] ELSE cl[c]]

\* The tokens of output o after the first k.
Tokens(o, k) == [j \in 1..(o.n - k) |-> <<o.of, k + j>>]

\* What a query of the worker of call c may return by now: it was answered at
\* some moment since it was sent.
Answers(c) ==
    {[made |-> worker[c].made, fate |-> worker[c].fate]}
        \cup [made : 0..worker[c].made, fate : {"run"}]

\* output_query_identity
Queryable(c) == phase[c] \in {"DECODING", "FINISHED"}

Tick == [at |-> "tick"]

\* An exception in a phase of the loop, at the request of call c.
Dies(c) == loop' = [at |-> "dead", call |-> c]

Init ==
    /\ states = [i \in Ids |-> NoOut]
    /\ free = <<>>
    /\ phase = [c \in Calls |-> "new"]
    /\ \E w \in Workloads :
          /\ worker = [c \in Calls |-> [made |-> 0, fate |-> "run", max |-> w[c].max,
                                       ends |-> w[c].ends]]
          /\ client = [c \in Calls |-> [id |-> w[c].id, at |-> "off", sent |-> <<>>,
                                       held |-> NoOut, ask |-> NoCall]]
    /\ loop = Tick

-----------------------------------------------------------------------------
\* The HTTP handler

\* A call is tracked, or refused because the buffer is full.
Arrive(c) ==
    /\ phase[c] = "new"
    /\ Entry(IdOf(c)) = {}
    /\ \/ /\ Room(IdOf(c))
          /\ states' = [states EXCEPT ![IdOf(c)] = Ensured(c)]
          /\ phase' = [phase EXCEPT ![c] = "KV_PENDING"]
          /\ client' = [client EXCEPT ![c].at = "send"]
       \/ /\ ~Room(IdOf(c))
          /\ phase' = [phase EXCEPT ![c] = "refused"]
          /\ UNCHANGED <<states, client>>
    /\ UNCHANGED <<free, worker, loop>>

\* The handler enters wait_next, whose ensure may raise.
Wait(c) ==
    /\ client[c].at = "send"
    /\ states' = IF Room(IdOf(c)) THEN [states EXCEPT ![IdOf(c)] = Ensured(c)] ELSE states
    /\ client' = [client EXCEPT ![c].at = IF Room(IdOf(c)) THEN "wait" ELSE "broken"]
    /\ UNCHANGED <<free, phase, worker, loop>>

\* The OutputState a handler waits on.
Awaited(c) == IF client[c].held # NoOut THEN client[c].held ELSE states[IdOf(c)]

HasNext(c) == Awaited(c).n > Len(client[c].sent) \/ Over(Awaited(c))

Ending(o) == IF o.error THEN "error" ELSE IF o.terminal THEN "stop" ELSE "send"

\* wait_next returns and the handler sends what it returned.  The cursor of a
\* handler is the number of tokens it has sent.
Deliver(c) ==
    /\ client[c].at = "wait"
    /\ HasNext(c)
    /\ client' = [client EXCEPT ![c].sent = @ \o Tokens(Awaited(c), Len(@)),
                                ![c].at = Ending(Awaited(c)), ![c].held = NoOut]
    /\ UNCHANGED <<states, free, phase, worker, loop>>

\* wait_next times out (a handler that has something to send is woken first).
TimedOut(c) == client[c].at = "wait" /\ ~HasNext(c)

\* The stream is failed and freed, and the handler sends the snapshot.
FailStream(c) ==
    LET o == Failed(Ensured(c))
    IN  MarkFree(IdOf(c), [states EXCEPT ![IdOf(c)] = o],
                 [client EXCEPT ![c].sent = @ \o Tokens(o, 0), ![c].at = "error"])

\* Mutant: the handler of a removed request waits on.
TimeoutGoneWaits(c) ==
    /\ TimedOut(c)
    /\ Entry(IdOf(c)) = {}
    /\ client' = [client EXCEPT ![c].at = "send"]
    /\ UNCHANGED <<states, free, phase, worker, loop>>

\* A timeout, and the request was removed.  The ensure of fail may raise.
TimeoutGone(c) ==
    /\ TimedOut(c)
    /\ Entry(IdOf(c)) = {}
    /\ IF Room(IdOf(c)) THEN FailStream(c)
       ELSE /\ client' = [client EXCEPT ![c].at = "broken", ![c].held = NoOut]
            /\ UNCHANGED <<states, free>>
    /\ UNCHANGED <<phase, worker, loop>>

\* A timeout, and the handler queries the worker of the request.
TimeoutQuery(c) ==
    /\ TimedOut(c)
    /\ \E e \in Entry(IdOf(c)) :
          /\ Queryable(e)
          /\ client' = [client EXCEPT ![c].at = "query", ![c].ask = e]
    /\ UNCHANGED <<states, free, phase, worker, loop>>

\* repair_output_gap after its await: the answer is applied if the request is
\* still the one that was asked about.  A query may fail; the handler swallows
\* every exception.
Repair(c) ==
    /\ client[c].at = "query"
    /\ client' = [client EXCEPT ![c].at = "send", ![c].ask = NoCall]
    /\ \/ /\ Queryable(client[c].ask)
          /\ \E a \in Answers(client[c].ask) : ApplyAnswer(client[c].ask, a)
       \/ UNCHANGED states
    /\ UNCHANGED <<free, phase, worker, loop>>

\* The client disconnects, and its handler is gone.
Disconnect(c) ==
    /\ client[c].at \in {"send", "wait", "query"}
    /\ client' = [client EXCEPT ![c].at = "left", ![c].sent = <<>>, ![c].held = NoOut, ![c].ask = NoCall]
    /\ UNCHANGED <<states, free, phase, worker, loop>>

-----------------------------------------------------------------------------
\* The decode worker: one more token, or the end of the output.  A garbled end
\* is announced by a decode_done whose output_seq_no does not fit its tokens.

Generate(c) ==
    /\ phase[c] \in Tracked
    /\ worker[c].fate = "run"
    /\ \/ /\ worker[c].made < worker[c].max
          /\ worker' = [worker EXCEPT ![c].made = @ + 1]
       \/ \E f \in worker[c].ends : worker' = [worker EXCEPT ![c].fate = f]
    /\ UNCHANGED <<states, free, phase, client, loop>>

-----------------------------------------------------------------------------
\* The schedule loop

Move(c, p) == phase' = [phase EXCEPT ![c] = p]

\* _on_kv_done, called by the transfer task.
KvDone(c) ==
    /\ phase[c] = "KV_PENDING"
    /\ IF Room(IdOf(c))
       THEN /\ states' = [states EXCEPT ![IdOf(c)] = Ensured(c)]
            /\ Move(c, IF Over(Ensured(c)) THEN "FINISHED" ELSE "DECODING")
       ELSE Move(c, "DECODING") /\ UNCHANGED states
    /\ UNCHANGED <<free, worker, client, loop>>

\* A first_token or decode_progress message, possibly an old one.  What is
\* rejected is dropped; a decode_progress then has the loop query the worker.
Progress(c, n, cursorOk) ==
    /\ loop = Tick
    /\ phase[c] \in Tracked
    /\ IF ~Room(IdOf(c))
       THEN Dies(c) /\ UNCHANGED states
       ELSE IF Rejects(c, n, cursorOk)
       THEN /\ states' = [states EXCEPT ![IdOf(c)] = Ensured(c)]
            /\ \/ UNCHANGED loop
               \/ Queryable(c) /\ loop' = [at |-> "query", call |-> c]
       ELSE Apply(c, n, FALSE, FALSE) /\ UNCHANGED loop
    /\ UNCHANGED <<free, phase, worker, client>>

\* A decode_done message.  If its output is rejected, the stream is to end with
\* an error; that update is empty, and ignored by a stream that has tokens.
DecodeDone(c) ==
    /\ loop = Tick
    /\ phase[c] \in {"KV_PENDING", "DECODING"}
    /\ worker[c].fate \in {"stop", "garbled"}
    /\ IF ~Room(IdOf(c))
       THEN Dies(c) /\ UNCHANGED <<states, phase>>
       ELSE /\ IF Rejects(c, worker[c].made, worker[c].fate = "stop")
               THEN Apply(c, 0, TRUE, TRUE)
               ELSE Apply(c, worker[c].made, TRUE, FALSE)
            /\ IF phase[c] = "DECODING" THEN Move(c, "FINISHED") ELSE UNCHANGED phase
            /\ UNCHANGED loop
    /\ UNCHANGED <<free, worker, client>>

\* A DECODING request whose output is over is FINISHED, another one is queried.
Reconcile(c) ==
    /\ loop = Tick
    /\ phase[c] = "DECODING"
    /\ IF ~Room(IdOf(c))
       THEN Dies(c) /\ UNCHANGED <<states, phase>>
       ELSE /\ states' = [states EXCEPT ![IdOf(c)] = Ensured(c)]
            /\ IF Over(Ensured(c))
               THEN Move(c, "FINISHED") /\ UNCHANGED loop
               ELSE loop' = [at |-> "query", call |-> c] /\ UNCHANGED phase
    /\ UNCHANGED <<free, worker, client>>

\* The query of the loop returns: in _reconcile_authoritative_output, or in
\* repair_output_gap, which leaves the request where it is (the model does not
\* keep which of them it is).  The query may fail.
ReconcileAnswer ==
    /\ loop.at = "query"
    /\ loop' = Tick
    /\ LET c == loop.call
       IN  \/ /\ Queryable(c)
              /\ \E a \in Answers(c) :
                    /\ ApplyAnswer(c, a)
                    /\ \/ /\ Over(states'[IdOf(c)]) /\ ~Conflicts(Ensured(c), c, a.made)
                          /\ Move(c, "FINISHED")
                       \/ UNCHANGED phase
           \/ UNCHANGED <<states, phase>>
    /\ UNCHANGED <<free, worker, client>>

\* The cleanup of a FINISHED request succeeds.  mark_resource_free raises for a
\* stream that is not over.
Finish(c) ==
    /\ loop = Tick
    /\ phase[c] = "FINISHED"
    /\ Move(c, "gone")
    /\ LET o == states[IdOf(c)]
       IN  IF o # NoOut /\ Over(o)
           THEN MarkFree(IdOf(c), states, client) /\ UNCHANGED loop
           ELSE /\ IF o = NoOut THEN UNCHANGED loop ELSE Dies(c)
                /\ UNCHANGED <<states, free, client>>
    /\ UNCHANGED worker

\* A timeout: the loop starts _canonical_cleanup and awaits it.
StartCleanup(c) ==
    /\ loop = Tick
    /\ phase[c] \in {"KV_PENDING", "DECODING"}
    /\ loop' = [at |-> "cleanup", call |-> c]
    /\ UNCHANGED <<states, free, phase, worker, client>>

\* _canonical_cleanup removes the request, or leaves it to a later tick.  It
\* does not touch the output.
EndCleanup ==
    /\ loop.at = "cleanup"
    /\ loop' = Tick
    /\ \/ Move(loop.call, "gone")
       \/ Move(loop.call, IF phase[loop.call] = "FINISHED" THEN "FINISHED" ELSE "ABORTED")
    /\ UNCHANGED <<states, free, worker, client>>

\* The repeated cleanup of an ABORTED request succeeds.
FinishAborted(c) ==
    /\ loop = Tick
    /\ phase[c] = "ABORTED"
    /\ Move(c, "gone")
    /\ IF Room(IdOf(c))
       THEN /\ MarkFree(IdOf(c), [states EXCEPT ![IdOf(c)] = Failed(Ensured(c))], client)
            /\ UNCHANGED loop
       ELSE Dies(c) /\ UNCHANGED <<states, free, client>>
    /\ UNCHANGED worker

HandlerStep(c) ==
    Wait(c) \/ Deliver(c) \/ TimeoutGone(c) \/ TimeoutQuery(c) \/ Repair(c)

LoopStep(c) ==
    \/ KvDone(c)
    \/ \E n \in 0..worker[c].made, cursorOk \in BOOLEAN : Progress(c, n, cursorOk)
    \/ DecodeDone(c)
    \/ Reconcile(c)

EndStep(c) == Finish(c) \/ StartCleanup(c) \/ FinishAborted(c)

AwaitStep == ReconcileAnswer \/ EndCleanup

Next ==
    \/ \E c \in Calls : Arrive(c) \/ HandlerStep(c) \/ Disconnect(c) \/ Generate(c)
    \/ \E c \in Calls : LoopStep(c) \/ EndStep(c)
    \/ AwaitStep

\* Handlers run, the awaits of the loop end, and the loop ticks: every request
\* is finished or times out, and its cleanup does not fail for ever.  Nothing is
\* assumed of the workers.
Fairness ==
    /\ \A c \in Calls : WF_vars(HandlerStep(c))
    /\ WF_vars(AwaitStep)
    /\ \A c \in Calls : SF_vars(EndStep(c))

Spec == Init /\ [][Next]_vars

FairSpec == Spec /\ Fairness

-----------------------------------------------------------------------------

Outputs == {o \in [of : Calls, n : Nat, terminal : BOOLEAN, error : BOOLEAN] :
              o.n <= worker[o.of].made}

TypeOK ==
    /\ \A i \in Ids : states[i] = NoOut \/ states[i] \in Outputs
    /\ free \in Seq(Ids)
    /\ phase \in [Calls -> Tracked \cup {"new", "refused", "gone"}]
    /\ \A c \in Calls :
          /\ worker[c].made \in 0..worker[c].max /\ worker[c].fate \in Ends \cup {"run"}
          /\ client[c].at \in {"off", "send", "wait", "query", "stop", "error", "broken", "left"}
          /\ client[c].sent \in Seq(Calls \X Nat)
          /\ client[c].held = NoOut \/ client[c].held \in Outputs
          /\ client[c].ask \in Calls \cup {NoCall}
    /\ loop \in {Tick} \cup [at : {"query", "cleanup", "dead"}, call : Calls]

\* The client chose an id that no other call has.
OwnId(c) == \A d \in Calls \ {c} : IdOf(d) # IdOf(c)

\* A client whose request id is its own is sent each token of its own output
\* once and in order, and a stream that ends with "stop" was complete: whichever
\* of lost, repeated, old and garbled messages, queries of handler and loop, and
\* evictions came in between.  Only a stream that ends with an error is exempt.
StreamFaithful ==
    \A c \in Calls : OwnId(c) => LET sent == client[c].sent IN
       /\ client[c].at # "error" => sent = Tokens([of |-> c, n |-> Len(sent)], 0)
       /\ client[c].at = "stop" => /\ worker[c].made = Len(sent)
                                   /\ worker[c].fate \in {"stop", "garbled"}

\* The schedule loop dies at a request, by an exception of ensure or of
\* mark_resource_free, for two reasons only: the decode_done of the request had
\* an output_seq_no that does not fit its tokens, or its id was used by another
\* call.  Lost, repeated and old messages, answers that race each other,
\* evictions and a full buffer do not kill it.
LoopSurvives ==
    loop.at = "dead" => \/ worker[loop.call].fate = "garbled"
                        \/ ~OwnId(loop.call)

\* "Canonical cleanup must wake an HTTP waiter even without worker output": a
\* client that stays is answered to the end, whatever messages are lost, as long
\* as the schedule loop runs.
StreamsEnd ==
    \A c \in Calls : client[c].at = "send" ~>
       \/ client[c].at \in {"stop", "error", "broken", "left"}
       \/ loop.at = "dead"

=============================================================================
