-------------------------- MODULE TerminationWatch --------------------------
(***************************************************************************)
(* What pd_worldctl concludes from one event of a Pod watch.  A captured   *)
(* process is [uid, ctr, rv]: its Pod, its container and the watch cursor. *)
(* A termination is frozen by the first MODIFIED event that shows the      *)
(* captured container ended, and becomes a proof with the Pod's DELETED    *)
(* event; every other order of events is an error.                         *)
(***************************************************************************)
EXTENDS Integers, Sequences

NoProof == [uid |-> 0, ctr |-> 0, exit |-> "", source |-> "", seq |-> 0,
            deleted |-> FALSE]

Current(e) == Len(e.exits) + (IF e.up THEN 1 ELSE 0)

(* _event_termination: state.terminated of the captured container, or      *)
(* lastState.terminated under the container started right after it.        *)
EventTermination(e, cap) ==
  LET current == ~ e.up /\ Current(e) = cap.ctr
      last    == Current(e) = cap.ctr + 1
  IN IF current \/ last
     THEN [NoProof EXCEPT !.uid = cap.uid, !.ctr = cap.ctr,
             !.exit = e.exits[cap.ctr],
             !.source = IF current THEN "state" ELSE "lastState"]
     ELSE NoProof

(* _matches_frozen_termination: the same termination, seen where it was    *)
(* frozen or moved on from state.terminated to lastState.terminated.       *)
MatchesFrozen(candidate, frozen) ==
  /\ \/ candidate.source = frozen.source
     \/ frozen.source = "state" /\ candidate.source = "lastState"
  /\ candidate.uid = frozen.uid
  /\ candidate.ctr = frozen.ctr
  /\ candidate.exit = frozen.exit

(* _consume_termination_observation on one event: what is frozen after it, *)
(* and whether the observer raises, returns or goes on.  seq stands for    *)
(* the journal reference of the raw event.                                 *)
Frozen(e, cap, frozen, seq) ==
  LET candidate == EventTermination(e, cap)
  IN IF frozen = NoProof /\ candidate # NoProof /\ e.type = "MODIFIED"
     THEN [candidate EXCEPT !.seq = seq] ELSE frozen

Rejects(e, cap, frozen) ==
  LET candidate == EventTermination(e, cap)
  IN \/ e.uid # cap.uid
     \/ /\ candidate # NoProof /\ frozen # NoProof
        /\ ~ MatchesFrozen(candidate, frozen)
     \/ /\ candidate # NoProof /\ e.type # "MODIFIED"
        /\ ~ (e.type = "DELETED" /\ frozen # NoProof)
     \/ /\ Current(e) # cap.ctr
        /\ Frozen(e, cap, frozen, 1) = NoProof
     \/ e.type = "DELETED" /\ frozen = NoProof

Returns(e, cap, frozen, requireDeleted) ==
  IF requireDeleted THEN e.type = "DELETED"
                    ELSE Frozen(e, cap, frozen, 1) # NoProof

Proof(e, frozen) == [frozen EXCEPT !.deleted = (e.type = "DELETED")]
=============================================================================
