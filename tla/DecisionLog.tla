---------------------------- MODULE DecisionLog ----------------------------
(***************************************************************************)
(* What the replacement store promises (scheduler/replacement_store.py):   *)
(* an atomic log of release decisions.  At most one run is open; its       *)
(* decisions only grow; sealing it closes it with a receipt that names all *)
(* of its decisions and stays until Retention later runs are sealed.  The   *)
(* promise ends when the machine loses what it had renamed into place.     *)
(***************************************************************************)
EXTENDS Integers

CONSTANTS Runs, Gens, Decisions, Records, Key, Lease, RunOf, DecOf,
          Retention, NoRun

VARIABLES open, decided, seals, next,
          intact   \* the promise stands

logVars == <<open, decided, seals, next, intact>>

Init == open = NoRun /\ decided = {} /\ seals = {} /\ next = 1 /\ intact = TRUE

\* A run decides on a batch of releases; the first batch opens it.  A lease is
\* decided once, under one run and one decision.
Decide(run, old, dec, batch) ==
    /\ open \in {NoRun, [run |-> run, old |-> old, dec |-> dec]}
    /\ \A s \in seals : s.run # run
    /\ open' = [run |-> run, old |-> old, dec |-> dec]
    /\ decided' = decided \cup batch
    /\ \A r \in decided' : RunOf[r] = run /\ DecOf[r] = dec
    /\ \A q, r \in decided' : Key[q] = Key[r] \/ Lease[q] = Lease[r] => q = r
    /\ UNCHANGED <<seals, next, intact>>

\* The open run is sealed with the receipt of all its decisions.
Seal(new) ==
    /\ open # NoRun
    /\ seals' = {s \in seals : s.seq > next - Retention}
                \cup {[seq |-> next, run |-> open.run, old |-> open.old, new |-> new,
                       dec |-> open.dec, root |-> decided]}
    /\ next' = next + 1
    /\ open' = NoRun
    /\ decided' = {}
    /\ UNCHANGED intact

\* Anything may be lost, for good.
Lose == intact' = FALSE

Next ==
    \/ \E run \in Runs, old \in Gens, dec \in Decisions, batch \in SUBSET Records :
          Decide(run, old, dec, batch)
    \/ \E new \in Gens : Seal(new)
    \/ Lose

Spec == Init /\ [][Next]_logVars

=============================================================================
