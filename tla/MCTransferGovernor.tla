------------------------- MODULE MCTransferGovernor -------------------------
(* An instance of TransferGovernor: one prefill worker that feeds two decode *)
(* workers.  The invariants are proved for all instances; this one is chosen *)
(* so that every path of the ledger happens and the liveness check finishes. *)
EXTENDS TransferGovernor, Functions, TLC

CONSTANTS p0, d0, d1, t1, t2, t3, r1, r2, e1

\* t1 and t2 are successive transfers of one request, to different decode
\* workers; t3 shares its pair with t1 and exceeds the cap.
MCReq == t1 :> r1 @@ t2 :> r1 @@ t3 :> r2
MCSrc == [t \in {t1, t2, t3} |-> p0]
MCDst == t1 :> d0 @@ t2 :> d1 @@ t3 :> d0
MCSize == t1 :> 2 @@ t2 :> 2 @@ t3 :> 5
MCPriority == t1 :> 1 @@ t2 :> 0 @@ t3 :> 1
MCSizeSum == [S \in SUBSET {t1, t2, t3} |-> SumFunctionOnSet(MCSize, S)]
=============================================================================
