----------------------- MODULE TransferGovernorProofs -----------------------
(***************************************************************************)
(* Proofs about TransferGovernor, for every set of workers, requests and   *)
(* tasks, every task size and every cap.                                   *)
(***************************************************************************)
EXTENDS TransferGovernor, FiniteSetTheorems, FunctionTheorems, SequenceTheorems, TLAPS

\* Every rank 1..|K| is the rank of one member of a finite set K of numbers,
\* and later ranks belong to later positions.
LEMMA NthProperties ==
    ASSUME NEW n \in Nat, NEW K \in SUBSET (1..n)
    PROVE  /\ Cardinality(K) \in Nat
           /\ \A j \in 1..Cardinality(K) : Nth(K, j) \in K
           /\ \A j, k \in 1..Cardinality(K) : Nth(K, j) = Nth(K, k) => j = k
<1> DEFINE Below(i) == {k \in K : k <= i}
           rank == [i \in K |-> Cardinality(Below(i))]
<1>0. \A i \in K : i \in Nat
  OBVIOUS
<1>1. IsFiniteSet(K) /\ Cardinality(K) \in Nat
  <2>1. IsFiniteSet(1..n)
    <3>1. 1 \in Int /\ n \in Int
      OBVIOUS
    <3> QED BY <3>1, FS_Interval
  <2>2. IsFiniteSet(K)
    BY <2>1, FS_Subset, ZenonT(40)
  <2> QED BY <2>2, FS_CardinalityType
<1>2. ASSUME NEW i \in K
      PROVE  /\ IsFiniteSet(Below(i))
             /\ Cardinality(Below(i)) \in 1..Cardinality(K)
  <2>1. /\ IsFiniteSet(Below(i)) /\ Cardinality(Below(i)) <= Cardinality(K)
        /\ Cardinality(Below(i)) \in Nat
    <3>1. Below(i) \in SUBSET K
      OBVIOUS
    <3> QED BY <3>1, <1>1, FS_Subset, FS_CardinalityType
  <2>2. i \in Below(i)
    OBVIOUS
  <2>3. Cardinality(Below(i)) # 0
    BY <2>1, <2>2, FS_EmptySet
  <2> QED BY <2>1, <2>3, <1>1
<1>3. ASSUME NEW i \in K, NEW k \in K, i < k
      PROVE  rank[i] < rank[k]
  <2>1. Below(i) \in SUBSET Below(k) /\ k \in Below(k) /\ k \notin Below(i)
    <3>1. i \in Nat /\ k \in Nat
      BY <1>0
    <3>2. ASSUME NEW x \in K, x <= i PROVE x <= k
      BY <1>0, <1>3, <3>1, <3>2
    <3>3. k <= k /\ ~(k <= i)
      BY <1>3, <3>1
    <3> QED BY <3>2, <3>3, ZenonT(40)
  <2>2. Cardinality(Below(i)) <= Cardinality(Below(k))
        /\ Cardinality(Below(i)) # Cardinality(Below(k))
    BY <2>1, <1>2, FS_Subset
  <2>3. Cardinality(Below(i)) \in Nat /\ Cardinality(Below(k)) \in Nat
    BY <1>2, <1>1
  <2> QED BY <2>2, <2>3
<1>4. rank \in Injection(K, 1..Cardinality(K))
  <2>1. rank \in [K -> 1..Cardinality(K)]
    BY <1>2
  <2>2. ASSUME NEW i \in K, NEW k \in K, rank[i] = rank[k] PROVE i = k
    <3>1. i < k \/ k < i \/ i = k
      BY <1>0
    <3>2. rank[i] \in Int /\ rank[k] \in Int
      BY <2>1, <1>1
    <3> QED BY <3>1, <3>2, <1>3, <2>2
  <2> QED BY <2>1, <2>2, ZenonT(40) DEF Injection, IsInjective
<1>5. rank \in Surjection(K, 1..Cardinality(K))
  <2>1. IsFiniteSet(1..Cardinality(K)) /\ Cardinality(1..Cardinality(K)) = Cardinality(K)
    BY <1>1, FS_Interval
  <2> QED BY <2>1, <1>4, FS_Injection
<1>6. \A j \in 1..Cardinality(K) : \E i \in K : Cardinality(Below(i)) = j
  BY <1>5, ZenonT(40) DEF Surjection
<1>7. \A j \in 1..Cardinality(K) : Nth(K, j) \in K /\ Cardinality(Below(Nth(K, j))) = j
  BY <1>6, ZenonT(40) DEF Nth
<1> QED BY <1>1, <1>7, ZenonT(40)

\* Filtering a queue yields a queue whose positions come from distinct
\* positions of the original one (cancel rebuilds a deque this way).
LEMMA WithoutProperties ==
    ASSUME NEW q \in Seq(Tasks), NEW T
    PROVE  /\ Without(q, T) \in Seq(Tasks)
           /\ \E f \in [DOMAIN Without(q, T) -> DOMAIN q] :
                 /\ \A j \in DOMAIN Without(q, T) : Without(q, T)[j] = q[f[j]]
                 /\ \A j, k \in DOMAIN Without(q, T) : f[j] = f[k] => j = k
<1> DEFINE K == {i \in DOMAIN q : q[i] \notin T}
           f == [j \in 1..Cardinality(K) |-> Nth(K, j)]
<1>1. Len(q) \in Nat /\ DOMAIN q = 1..Len(q) /\ K \in SUBSET (1..Len(q))
      /\ \A i \in DOMAIN q : q[i] \in Tasks
  BY LenProperties
<1> HIDE DEF K
<1>2. /\ Cardinality(K) \in Nat
      /\ \A j \in 1..Cardinality(K) : Nth(K, j) \in K
      /\ \A j, k \in 1..Cardinality(K) : Nth(K, j) = Nth(K, k) => j = k
  BY <1>1, NthProperties, ZenonT(40)
<1>3. Without(q, T) = [j \in 1..Cardinality(K) |-> q[Nth(K, j)]]
  BY DEF Without, Keep, K
<1>4. f \in [1..Cardinality(K) -> DOMAIN q]
  BY <1>1, <1>2, ZenonT(40)
<1>5. Without(q, T) \in Seq(Tasks)
  <2>1. \A j \in 1..Cardinality(K) : q[Nth(K, j)] \in Tasks
    BY <1>1, <1>2, ZenonT(40)
  <2>2. Without(q, T) \in [1..Cardinality(K) -> Tasks]
    BY <1>3, <2>1
  <2> QED BY <2>2, <1>2, SeqDef
<1>6. DOMAIN Without(q, T) = 1..Cardinality(K)
  BY <1>3
<1>7. f \in [DOMAIN Without(q, T) -> DOMAIN q]
  BY <1>4, <1>6, Zenon
<1>8. \A j \in DOMAIN Without(q, T) : Without(q, T)[j] = q[f[j]]
  BY <1>3, <1>6, Zenon
<1>9. \A j, k \in DOMAIN Without(q, T) : f[j] = f[k] => j = k
  BY <1>2, <1>6, Zenon
<1> HIDE DEF f
<1> QED BY <1>5, <1>7, <1>8, <1>9, Zenon

\* Removing a task from a set lowers its total size by the size of the task,
\* and a set of tasks weighs at least as much as each of its members.
LEMMA SumOfRest ==
    ASSUME NEW S \in SUBSET Tasks, NEW t \in S
    PROVE  /\ SizeSum[S] = SizeSum[S \ {t}] + Size[t]
           /\ SizeSum[S] \in Nat /\ SizeSum[S \ {t}] \in Nat /\ Size[t] \in Nat
           /\ SizeSum[S] >= Size[t]
<1>1. S \ {t} \in SUBSET Tasks /\ t \in Tasks \ (S \ {t}) /\ (S \ {t}) \cup {t} = S
  OBVIOUS
<1>2. SizeSum[S] = SizeSum[S \ {t}] + Size[t]
  BY <1>1, SizeSumAssumption, ZenonT(40)
<1>3. SizeSum[S] \in Nat /\ SizeSum[S \ {t}] \in Nat /\ Size[t] \in Nat
  BY <1>1, SizeSumAssumption, TaskAssumption
<1> QED BY <1>2, <1>3

\* What holds in every reachable state: the invariants strengthen each other.
LedgerInv ==
    /\ TypeOK
    /\ OneEntryPerRequest
    /\ BytesConserved
    /\ PairCapRespected

LEMMA TaskTypes ==
    ASSUME NEW t \in Tasks
    PROVE  /\ Req[t] \in Reqs /\ Pair(t) \in Pairs /\ Dst[t] \in Decodes
           /\ Size[t] \in Nat /\ t # NoTask
BY TaskAssumption DEF Pair, Pairs

\* Dispatching a task whose request owns no ledger entry adds it to the ledger.
LEMMA AccountLedger ==
    ASSUME LedgerInv, NEW t \in Tasks, inflight[Req[t]] = NoTask, Account(t)
    PROVE  /\ pairBytes' \in [Pairs -> Nat] /\ dstBytes' \in [Decodes -> Nat]
           /\ inflight' \in [Reqs -> Tasks \cup {NoTask}]
           /\ Inflight' = Inflight \cup {t} /\ t \notin Inflight
           /\ BytesConserved'
<1>0. TypeOK /\ BytesConserved /\ Req[t] \in Reqs /\ Pair(t) \in Pairs
      /\ Dst[t] \in Decodes /\ Size[t] \in Nat /\ t # NoTask
  BY TaskTypes DEF LedgerInv
<1>1. /\ pairBytes' \in [Pairs -> Nat] /\ dstBytes' \in [Decodes -> Nat]
      /\ inflight' \in [Reqs -> Tasks \cup {NoTask}]
  BY <1>0 DEF Account, TypeOK
<1>2. Inflight' = Inflight \cup {t} /\ t \notin Inflight
  BY <1>0, TaskAssumption DEF Account, TypeOK, Inflight
<1>3. ASSUME NEW p \in Pairs
      PROVE  pairBytes'[p] = SizeSum[OnPair(Inflight', p)]
  <2>1. OnPair(Inflight, p) \in SUBSET Tasks /\ t \notin OnPair(Inflight, p)
    BY <1>2 DEF OnPair, Inflight
  <2>2. CASE p = Pair(t)
    <3>1. OnPair(Inflight', p) = OnPair(Inflight, p) \cup {t}
      BY <1>2, <2>2 DEF OnPair
    <3>2. SizeSum[OnPair(Inflight', p)] = SizeSum[OnPair(Inflight, p)] + Size[t]
      BY <2>1, <3>1, SizeSumAssumption
    <3> QED BY <3>2, <2>2, <1>0 DEF Account, TypeOK, BytesConserved
  <2>3. CASE p # Pair(t)
    <3>1. OnPair(Inflight', p) = OnPair(Inflight, p)
      BY <1>2, <2>3 DEF OnPair
    <3> QED BY <3>1, <2>3, <1>0 DEF Account, TypeOK, BytesConserved
  <2> QED BY <2>2, <2>3
<1>4. ASSUME NEW d \in Decodes
      PROVE  dstBytes'[d] = SizeSum[ToDst(Inflight', d)]
  <2>1. ToDst(Inflight, d) \in SUBSET Tasks /\ t \notin ToDst(Inflight, d)
    BY <1>2 DEF ToDst, Inflight
  <2>2. CASE d = Dst[t]
    <3>1. ToDst(Inflight', d) = ToDst(Inflight, d) \cup {t}
      BY <1>2, <2>2 DEF ToDst
    <3>2. SizeSum[ToDst(Inflight', d)] = SizeSum[ToDst(Inflight, d)] + Size[t]
      BY <2>1, <3>1, SizeSumAssumption
    <3> QED BY <3>2, <2>2, <1>0 DEF Account, TypeOK, BytesConserved
  <2>3. CASE d # Dst[t]
    <3>1. ToDst(Inflight', d) = ToDst(Inflight, d)
      BY <1>2, <2>3 DEF ToDst
    <3> QED BY <3>1, <2>3, <1>0 DEF Account, TypeOK, BytesConserved
  <2> QED BY <2>2, <2>3
<1> QED BY <1>1, <1>2, <1>3, <1>4, ZenonT(40) DEF BytesConserved, OnPair, ToDst, Pair, Pairs

\* Releasing the ledger entry of a request removes it from the ledger.
LEMMA ReleaseLedger ==
    ASSUME LedgerInv, NEW t \in Tasks, inflight[Req[t]] = t, Release(t)
    PROVE  /\ pairBytes' \in [Pairs -> Nat] /\ dstBytes' \in [Decodes -> Nat]
           /\ inflight' \in [Reqs -> Tasks \cup {NoTask}]
           /\ Inflight' = Inflight \ {t}
           /\ BytesConserved' /\ PairCapRespected'
<1>0. TypeOK /\ BytesConserved /\ Req[t] \in Reqs /\ Pair(t) \in Pairs
      /\ Dst[t] \in Decodes /\ Size[t] \in Nat /\ t # NoTask /\ t \in Inflight
      /\ PairCapRespected
  BY TaskTypes DEF LedgerInv, Inflight
<1>1. /\ pairBytes' \in [Pairs -> Nat] /\ dstBytes' \in [Decodes -> Nat]
      /\ inflight' \in [Reqs -> Tasks \cup {NoTask}]
  BY <1>0 DEF Release, Minus, TypeOK
<1>2. Inflight' = Inflight \ {t}
  BY <1>0, TaskAssumption DEF Release, TypeOK, Inflight
<1>3. ASSUME NEW p \in Pairs
      PROVE  /\ pairBytes'[p] = SizeSum[OnPair(Inflight', p)]
             /\ pairBytes'[p] <= pairBytes[p]
  <2>1. OnPair(Inflight, p) \in SUBSET Tasks
    BY DEF OnPair, Inflight
  <2>2. CASE p = Pair(t)
    <3>1. OnPair(Inflight', p) = OnPair(Inflight, p) \ {t} /\ t \in OnPair(Inflight, p)
      BY <1>0, <1>2, <2>2 DEF OnPair
    <3>2. /\ SizeSum[OnPair(Inflight, p)] = SizeSum[OnPair(Inflight', p)] + Size[t]
          /\ SizeSum[OnPair(Inflight', p)] \in Nat
      BY <2>1, <3>1, SumOfRest
    <3>3. pairBytes[p] = SizeSum[OnPair(Inflight, p)]
      BY <1>0 DEF BytesConserved
    <3>4. pairBytes'[p] = Minus(pairBytes[p], Size[t])
      BY <1>0, <2>2 DEF Release, TypeOK
    <3> QED BY <3>2, <3>3, <3>4, <1>0 DEF Minus
  <2>3. CASE p # Pair(t)
    <3>1. OnPair(Inflight', p) = OnPair(Inflight, p)
      BY <1>2, <2>3 DEF OnPair
    <3> QED BY <3>1, <2>3, <1>0 DEF Release, TypeOK, BytesConserved
  <2> QED BY <2>2, <2>3
<1>4. ASSUME NEW d \in Decodes
      PROVE  dstBytes'[d] = SizeSum[ToDst(Inflight', d)]
  <2>1. ToDst(Inflight, d) \in SUBSET Tasks
    BY DEF ToDst, Inflight
  <2>2. CASE d = Dst[t]
    <3>1. ToDst(Inflight', d) = ToDst(Inflight, d) \ {t} /\ t \in ToDst(Inflight, d)
      BY <1>0, <1>2, <2>2 DEF ToDst
    <3>2. /\ SizeSum[ToDst(Inflight, d)] = SizeSum[ToDst(Inflight', d)] + Size[t]
          /\ SizeSum[ToDst(Inflight', d)] \in Nat
      BY <2>1, <3>1, SumOfRest
    <3>3. dstBytes[d] = SizeSum[ToDst(Inflight, d)]
      BY <1>0 DEF BytesConserved
    <3>4. dstBytes'[d] = Minus(dstBytes[d], Size[t])
      BY <1>0, <2>2 DEF Release, TypeOK
    <3> QED BY <3>2, <3>3, <3>4, <1>0 DEF Minus
  <2>3. CASE d # Dst[t]
    <3>1. ToDst(Inflight', d) = ToDst(Inflight, d)
      BY <1>2, <2>3 DEF ToDst
    <3> QED BY <3>1, <2>3, <1>0 DEF Release, TypeOK, BytesConserved
  <2> QED BY <2>2, <2>3
<1>5. BytesConserved'
  BY <1>3, <1>4 DEF BytesConserved, OnPair, ToDst, Pair, Pairs
<1>6. ASSUME NEW p \in Pairs
      PROVE  \/ pairBytes'[p] <= Cap
             \/ \E u \in OnPair(Inflight', p) : Size[u] > Cap /\ pairBytes'[p] = Size[u]
  <2>0. pairBytes[p] \in Nat /\ pairBytes'[p] \in Nat /\ Cap \in Nat
    BY <1>0, <1>1, LimitAssumption DEF TypeOK
  <2>1. CASE pairBytes[p] <= Cap
    BY <2>0, <2>1, <1>3, SMTT(40)
  <2>2. ASSUME NEW u \in OnPair(Inflight, p), Size[u] > Cap, pairBytes[p] = Size[u]
        PROVE  \/ pairBytes'[p] <= Cap
               \/ \E v \in OnPair(Inflight', p) : Size[v] > Cap /\ pairBytes'[p] = Size[v]
    <3>1. CASE u = t
      <4>1. p = Pair(t) /\ pairBytes'[p] = Minus(pairBytes[p], Size[t])
        BY <3>1, <2>2, <1>0 DEF OnPair, Release, TypeOK
      <4> QED BY <4>1, <3>1, <2>2, <2>0, <1>0, SMTT(40) DEF Minus
    <3>2. CASE u # t
      <4>1. u \in OnPair(Inflight', p) /\ OnPair(Inflight', p) \in SUBSET Tasks
        BY <1>2, <3>2 DEF OnPair, Inflight
      <4>2. SizeSum[OnPair(Inflight', p)] >= Size[u] /\ Size[u] \in Nat
        BY <4>1, SumOfRest, ZenonT(40)
      <4>3. pairBytes'[p] = Size[u]
        BY <4>2, <1>3, <2>2, <2>0, SMTT(40)
      <4> QED BY <4>1, <4>3, <2>2
    <3> QED BY <3>1, <3>2
  <2> QED BY <1>0, <2>1, <2>2 DEF PairCapRespected
<1>7. PairCapRespected'
  BY <1>6 DEF PairCapRespected, OnPair, Pair, Pairs
<1> QED BY <1>1, <1>2, <1>5, <1>7

\* can_send admits a task only if the pair stays within its cap.
LEMMA AccountCap ==
    ASSUME LedgerInv, NEW t \in Tasks, inflight[Req[t]] = NoTask, can_send(t), Account(t)
    PROVE  PairCapRespected'
<1>0. TypeOK /\ Pair(t) \in Pairs /\ Size[t] \in Nat /\ PairCapRespected
  BY TaskTypes DEF LedgerInv
<1>1. Inflight' = Inflight \cup {t}
  BY AccountLedger
<1>2. ASSUME NEW p \in Pairs
      PROVE  \/ pairBytes'[p] <= Cap
             \/ \E u \in OnPair(Inflight', p) : Size[u] > Cap /\ pairBytes'[p] = Size[u]
  <2>1. CASE p = Pair(t)
    <3>1. pairBytes'[p] = pairBytes[p] + Size[t] /\ pairBytes[p] \in Nat
      BY <1>0, <2>1 DEF Account, TypeOK
    <3>2. t \in OnPair(Inflight', p)
      BY <1>1, <2>1, SMTT(40) DEF OnPair
    <3>3. \/ pairBytes[p] + Size[t] <= Cap
          \/ pairBytes[p] = 0
      BY <2>1, <3>1, <1>0, LimitAssumption, SMTT(40) DEF can_send
    <3> QED BY <3>1, <3>2, <3>3, <1>0, LimitAssumption, SMTT(40)
  <2>2. CASE p # Pair(t)
    <3>1. pairBytes'[p] = pairBytes[p]
      BY <1>0, <2>2 DEF Account, TypeOK
    <3>2. OnPair(Inflight, p) \subseteq OnPair(Inflight', p)
      BY <1>1 DEF OnPair
    <3> QED BY <3>1, <3>2, <1>0 DEF PairCapRespected
  <2> QED BY <2>1, <2>2
<1> QED BY <1>2 DEF PairCapRespected, OnPair, Pair, Pairs

\* The ledger invariants depend on the ledger only.
LEMMA LedgerKept ==
    ASSUME LedgerInv, UNCHANGED ledger
    PROVE  BytesConserved' /\ PairCapRespected'
BY DEF LedgerInv, ledger, BytesConserved, PairCapRespected, Inflight, OnPair, ToDst

\* _dispatch keeps the byte counters exact on each of its three exits.
LEMMA DispatchLedger ==
    ASSUME LedgerInv, NEW t \in Tasks, inflight[Req[t]] = NoTask, can_send(t),
           NEW todo \in SUBSET Decodes, _dispatch(t, todo)
    PROVE  /\ pairBytes' \in [Pairs -> Nat] /\ dstBytes' \in [Decodes -> Nat]
           /\ inflight' \in [Reqs -> Tasks \cup {NoTask}]
           /\ remote' \subseteq Tasks /\ done' \subseteq Tasks /\ flushing' \subseteq Decodes
           /\ \A r \in Reqs \ {Req[t]} : inflight'[r] = inflight[r]
           /\ inflight'[Req[t]] \in {t, NoTask}
           /\ BytesConserved' /\ PairCapRespected'
<1>0. TypeOK /\ Req[t] \in Reqs /\ Dst[t] \in Decodes
  BY TaskTypes DEF LedgerInv
<1>1. CASE /\ Account(t) /\ remote' = remote \cup {t} /\ flushing' = todo /\ UNCHANGED done
  <2>1. BytesConserved' /\ PairCapRespected'
    BY <1>1, AccountLedger, AccountCap
  <2> QED BY <2>1, <1>0, <1>1, AccountLedger, ZenonT(40) DEF Account, TypeOK
<1>2. CASE Bounce(t) /\ UNCHANGED remote /\ done' \in {done, done \cup {t}}
           /\ flushing' \in {{}, todo \cup {Dst[t]}}
  <2>1. UNCHANGED ledger
    BY <1>0, <1>2 DEF Bounce, TypeOK, ledger
  <2>2. BytesConserved' /\ PairCapRespected'
    BY <2>1, LedgerKept
  <2> QED BY <2>1, <2>2, <1>0, <1>2 DEF TypeOK, ledger
<1> QED BY <1>1, <1>2 DEF _dispatch

\* A queue whose positions come from distinct positions of the old queue, with
\* the ledger entries of its tasks untouched, keeps one entry per request.
LEMMA EntriesShrink ==
    ASSUME TypeOK, OneEntryPerRequest,
           deferred' \in [Decodes -> Seq(Tasks)],
           \A d \in Decodes : \E f \in [DOMAIN deferred'[d] -> DOMAIN deferred[d]] :
              /\ \A j \in DOMAIN deferred'[d] : deferred'[d][j] = deferred[d][f[j]]
              /\ \A j, k \in DOMAIN deferred'[d] : f[j] = f[k] => j = k
    PROVE  /\ \A d, e \in Decodes : \A i \in DOMAIN deferred'[d], j \in DOMAIN deferred'[e] :
                 Req[deferred'[d][i]] = Req[deferred'[e][j]] => d = e /\ i = j
           /\ Deferred' \subseteq Deferred
<1>1. ASSUME NEW d \in Decodes, NEW e \in Decodes,
             NEW i \in DOMAIN deferred'[d], NEW j \in DOMAIN deferred'[e],
             Req[deferred'[d][i]] = Req[deferred'[e][j]]
      PROVE  d = e /\ i = j
  <2>1. PICK f \in [DOMAIN deferred'[d] -> DOMAIN deferred[d]] :
              /\ \A k \in DOMAIN deferred'[d] : deferred'[d][k] = deferred[d][f[k]]
              /\ \A k, m \in DOMAIN deferred'[d] : f[k] = f[m] => k = m
    OBVIOUS
  <2>2. PICK g \in [DOMAIN deferred'[e] -> DOMAIN deferred[e]] :
              \A k \in DOMAIN deferred'[e] : deferred'[e][k] = deferred[e][g[k]]
    BY SMTT(40)
  <2>3. f[i] \in DOMAIN deferred[d] /\ g[j] \in DOMAIN deferred[e]
        /\ Req[deferred[d][f[i]]] = Req[deferred[e][g[j]]]
    BY <1>1, <2>1, <2>2
  <2>4. d = e /\ f[i] = g[j]
    BY <2>3 DEF OneEntryPerRequest
  <2>5. deferred[d][f[j]] = deferred[e][g[j]]
    BY <2>1, <2>2, <2>4, SMTT(40)
  <2>6. f[j] \in DOMAIN deferred[d]
    BY <2>1, <2>4
  <2>7. Req[deferred[d][f[j]]] = Req[deferred[e][g[j]]]
    BY <2>5
  <2>8. f[j] = g[j]
    BY <2>3, <2>6, <2>7 DEF OneEntryPerRequest
  <2> QED BY <2>1, <2>4, <2>8
<1>2. Deferred' \subseteq Deferred
  <2>1. ASSUME NEW d \in Decodes, NEW j \in DOMAIN deferred'[d]
        PROVE  deferred'[d][j] \in Deferred
    BY DEF Deferred, Queued
  <2>2. ASSUME NEW t \in Deferred' PROVE t \in Deferred
    <3>1. PICK d \in Decodes : t \in Queued(d)'
      BY <2>2 DEF Deferred
    <3>2. PICK j \in DOMAIN deferred'[d] : t = deferred'[d][j]
      BY <3>1 DEF Queued
    <3> QED BY <2>1, <3>2
  <2> QED BY <2>2
<1> QED BY <1>1, <1>2

\* Popping the head of a queue only moves the other tasks forward.
LEMMA TailProperties ==
    ASSUME NEW q \in Seq(Tasks), q # <<>>
    PROVE  /\ Tail(q) \in Seq(Tasks)
           /\ \E f \in [DOMAIN Tail(q) -> DOMAIN q] :
                 /\ \A j \in DOMAIN Tail(q) : Tail(q)[j] = q[f[j]]
                 /\ \A j, k \in DOMAIN Tail(q) : f[j] = f[k] => j = k
                 /\ \A j \in DOMAIN Tail(q) : f[j] # 1
           /\ Head(q) = q[1] /\ 1 \in DOMAIN q
<1> DEFINE f == [j \in DOMAIN Tail(q) |-> j + 1]
<1>1. /\ Tail(q) \in Seq(Tasks) /\ Len(q) \in Nat /\ Len(q) # 0
      /\ DOMAIN Tail(q) = 1..(Len(q) - 1) /\ DOMAIN q = 1..Len(q)
      /\ \A j \in 1..(Len(q) - 1) : Tail(q)[j] = q[j + 1]
  BY HeadTailProperties, LenProperties, EmptySeq
<1>2. f \in [DOMAIN Tail(q) -> DOMAIN q]
  BY <1>1
<1>3. /\ \A j \in DOMAIN Tail(q) : Tail(q)[j] = q[f[j]]
      /\ \A j, k \in DOMAIN Tail(q) : f[j] = f[k] => j = k
      /\ \A j \in DOMAIN Tail(q) : f[j] # 1
  BY <1>1
<1>4. Head(q) = q[1] /\ 1 \in DOMAIN q
  BY <1>1
<1> QED BY <1>1, <1>2, <1>3, <1>4, ZenonT(40)

\* Every queue has the identity as a map of its positions.
LEMMA SameQueue ==
    ASSUME NEW q \in Seq(Tasks)
    PROVE  \E f \in [DOMAIN q -> DOMAIN q] :
              /\ \A j \in DOMAIN q : q[j] = q[f[j]]
              /\ \A j, k \in DOMAIN q : f[j] = f[k] => j = k
<1> DEFINE f == [j \in DOMAIN q |-> j]
<1>1. f \in [DOMAIN q -> DOMAIN q]
  OBVIOUS
<1> QED BY <1>1, ZenonT(40)

\* The initial state satisfies the invariant.
LEMMA LedgerInit == Init => LedgerInv
<1> SUFFICES ASSUME Init PROVE LedgerInv
  OBVIOUS
<1>1. TypeOK
  BY DEF Init, TypeOK
<1>2. Inflight = {} /\ \A d \in Decodes : DOMAIN deferred[d] = {}
  BY TaskAssumption DEF Init, Inflight
<1>3. OneEntryPerRequest
  BY <1>2 DEF Init, OneEntryPerRequest, Deferred, Queued
<1>4. /\ \A p \in Pairs : OnPair(Inflight, p) = {}
      /\ \A d \in Decodes : ToDst(Inflight, d) = {}
  BY <1>2 DEF OnPair, ToDst
<1>5. BytesConserved
  BY <1>4, SizeSumAssumption, ZenonT(40) DEF Init, BytesConserved
<1>6. PairCapRespected
  BY LimitAssumption DEF Init, PairCapRespected
<1> QED BY <1>1, <1>3, <1>5, <1>6 DEF LedgerInv

LEMMA DeferredTasks == ASSUME TypeOK PROVE Deferred \subseteq Tasks
<1>1. ASSUME NEW d \in Decodes PROVE Queued(d) \subseteq Tasks
  BY DEF TypeOK, Queued
<1> QED BY <1>1 DEF Deferred

\* submit either dispatches the new task or appends it to the queue.
LEMMA SubmitStep == ASSUME LedgerInv, NEW t \in Tasks, submit(t) PROVE LedgerInv'
<1>0. TypeOK /\ OneEntryPerRequest /\ Req[t] \in Reqs /\ Dst[t] \in Decodes /\ t # NoTask
  BY TaskTypes DEF LedgerInv
<1>1. inflight[Req[t]] = NoTask
  BY <1>0, ZenonT(40) DEF submit, Inflight, TypeOK, OneEntryPerRequest
<1>2. CASE can_send(t) /\ _dispatch(t, {}) /\ UNCHANGED deferred
  <2>1. TypeOK' /\ BytesConserved' /\ PairCapRespected'
    BY <1>0, <1>1, <1>2, DispatchLedger DEF TypeOK, submit, signals
  <2>2. /\ \A r \in Reqs \ {Req[t]} : inflight'[r] = inflight[r]
        /\ inflight'[Req[t]] \in {t, NoTask}
    BY <1>1, <1>2, DispatchLedger
  <2>3. Deferred' = Deferred /\ \A u \in Deferred : u \in Tasks /\ Req[u] # Req[t]
    <3>1. Deferred' = Deferred
      BY <1>2, SMTT(40) DEF Deferred, Queued
    <3> QED BY <1>0, <3>1, DeferredTasks DEF submit
  <2>4. OneEntryPerRequest'
    <3>1. \A r \in Reqs : inflight'[r] # NoTask => Req[inflight'[r]] = r
      BY <1>0, <2>2 DEF OneEntryPerRequest
    <3>2. \A u \in Deferred' : inflight'[Req[u]] = NoTask
      BY <1>0, <2>2, <2>3, TaskTypes DEF OneEntryPerRequest
    <3> QED BY <1>0, <1>2, <3>1, <3>2, SMTT(40) DEF OneEntryPerRequest
  <2> QED BY <2>1, <2>4 DEF LedgerInv
<1>3. CASE /\ deferred' = [deferred EXCEPT ![Dst[t]] = Append(@, t)]
           /\ UNCHANGED <<ledger, remote, done, flushing>>
  <2> DEFINE q == deferred[Dst[t]]
  <2>1. TypeOK' /\ BytesConserved' /\ PairCapRespected'
    BY <1>0, <1>3, LedgerKept, SMTT(40) DEF TypeOK, submit, signals, ledger
  <2>2. /\ Len(q) \in Nat /\ DOMAIN q = 1..Len(q)
        /\ DOMAIN deferred'[Dst[t]] = 1..(Len(q) + 1)
        /\ \A i \in DOMAIN q : deferred'[Dst[t]][i] = q[i]
        /\ deferred'[Dst[t]][Len(q) + 1] = t
    BY <1>0, <1>3, AppendProperties, LenProperties, SMTT(40) DEF TypeOK
  <2>3. \A d \in Decodes \ {Dst[t]} : deferred'[d] = deferred[d]
    BY <1>0, <1>3 DEF TypeOK
  <2>4. \A d \in Decodes : \A i \in DOMAIN deferred[d] :
           deferred[d][i] \in Tasks /\ deferred[d][i] \in Deferred /\ Req[deferred[d][i]] # Req[t]
    BY <1>0, SMTT(40) DEF Deferred, Queued, submit, TypeOK
  <2>5. \A d \in Decodes : \A i \in DOMAIN deferred'[d] :
           \/ i \in DOMAIN deferred[d] /\ deferred'[d][i] = deferred[d][i]
           \/ d = Dst[t] /\ i = Len(q) + 1 /\ deferred'[d][i] = t
    BY <2>2, <2>3, SMTT(40)
  <2>6. \A d, e \in Decodes : \A i \in DOMAIN deferred'[d], j \in DOMAIN deferred'[e] :
           Req[deferred'[d][i]] = Req[deferred'[e][j]] => d = e /\ i = j
    BY <1>0, <2>4, <2>5, SMTT(40) DEF OneEntryPerRequest
  <2>7. ASSUME NEW u \in Deferred' PROVE inflight'[Req[u]] = NoTask
    <3>1. PICK d \in Decodes : u \in Queued(d)'
      BY DEF Deferred
    <3>2. PICK j \in DOMAIN deferred'[d] : u = deferred'[d][j]
      BY <3>1 DEF Queued
    <3>3. u = t \/ u \in Deferred
      BY <2>4, <2>5, <3>2
    <3> QED BY <3>3, <1>0, <1>1, <1>3 DEF OneEntryPerRequest, ledger
  <2>8. OneEntryPerRequest'
    BY <1>0, <1>3, <2>6, <2>7, ZenonT(40) DEF OneEntryPerRequest, ledger
  <2> QED BY <2>1, <2>8 DEF LedgerInv
<1> QED BY <1>2, <1>3 DEF submit

\* One iteration of the flush pops the head and dispatches it, or stops.
LEMMA FlushStep == ASSUME LedgerInv, NEW d \in Decodes, _flush_deferred(d) PROVE LedgerInv'
<1>0. TypeOK /\ OneEntryPerRequest
  BY DEF LedgerInv
<1>1. CASE UNCHANGED <<deferred, ledger, remote, done>> /\ flushing' = flushing \ {d}
  <2>1. BytesConserved' /\ PairCapRespected'
    BY <1>1, LedgerKept
  <2>2. TypeOK'
    BY <1>0, <1>1 DEF TypeOK, ledger, signals, _flush_deferred
  <2>3. OneEntryPerRequest'
    BY <1>0, <1>1 DEF OneEntryPerRequest, ledger, Deferred, Queued
  <2> QED BY <2>1, <2>2, <2>3 DEF LedgerInv
<1>2. ASSUME NEW t \in Tasks, deferred[d] # <<>>, t = Head(deferred[d]), can_send(t),
             deferred' = [deferred EXCEPT ![d] = Tail(@)], _dispatch(t, flushing)
      PROVE  LedgerInv'
  <2>0. Req[t] \in Reqs /\ deferred[d] \in Seq(Tasks) /\ flushing \in SUBSET Decodes
    BY <1>0, TaskTypes DEF TypeOK
  <2>1. t = deferred[d][1] /\ 1 \in DOMAIN deferred[d] /\ Tail(deferred[d]) \in Seq(Tasks)
    BY <1>2, <2>0, TailProperties
  <2>2. t \in Deferred /\ inflight[Req[t]] = NoTask
    BY <1>0, <2>1, SMTT(40) DEF Deferred, Queued, OneEntryPerRequest
  <2>3. TypeOK' /\ BytesConserved' /\ PairCapRespected'
    BY <1>0, <1>2, <2>0, <2>1, <2>2, DispatchLedger DEF TypeOK, _flush_deferred, signals
  <2>4. /\ \A r \in Reqs \ {Req[t]} : inflight'[r] = inflight[r]
        /\ inflight'[Req[t]] \in {t, NoTask}
    BY <1>2, <2>0, <2>2, DispatchLedger, ZenonT(40)
  <2>5. ASSUME NEW e \in Decodes
        PROVE  \E f \in [DOMAIN deferred'[e] -> DOMAIN deferred[e]] :
                 /\ \A j \in DOMAIN deferred'[e] : deferred'[e][j] = deferred[e][f[j]]
                 /\ \A j, k \in DOMAIN deferred'[e] : f[j] = f[k] => j = k
                 /\ \A j \in DOMAIN deferred'[e] : ~(e = d /\ f[j] = 1)
    <3>1. CASE e = d
      <4>1. deferred'[e] = Tail(deferred[e])
        BY <1>0, <1>2, <3>1 DEF TypeOK
      <4>2. deferred[e] \in Seq(Tasks) /\ deferred[e] # <<>>
        BY <1>2, <2>0, <3>1
      <4>3. PICK f \in [DOMAIN Tail(deferred[e]) -> DOMAIN deferred[e]] :
                 /\ \A j \in DOMAIN Tail(deferred[e]) : Tail(deferred[e])[j] = deferred[e][f[j]]
                 /\ \A j, k \in DOMAIN Tail(deferred[e]) : f[j] = f[k] => j = k
                 /\ \A j \in DOMAIN Tail(deferred[e]) : f[j] # 1
        BY <4>2, TailProperties
      <4> f \in [DOMAIN deferred'[e] -> DOMAIN deferred[e]]
        BY <4>1
      <4> WITNESS f \in [DOMAIN deferred'[e] -> DOMAIN deferred[e]]
      <4> QED BY <4>1, <4>3
    <3>2. CASE e # d
      <4>1. deferred'[e] = deferred[e] /\ deferred[e] \in Seq(Tasks)
        BY <1>0, <1>2, <3>2 DEF TypeOK
      <4>2. PICK f \in [DOMAIN deferred[e] -> DOMAIN deferred[e]] :
                 /\ \A j \in DOMAIN deferred[e] : deferred[e][j] = deferred[e][f[j]]
                 /\ \A j, k \in DOMAIN deferred[e] : f[j] = f[k] => j = k
        BY <4>1, SameQueue, ZenonT(40)
      <4> f \in [DOMAIN deferred'[e] -> DOMAIN deferred[e]]
        BY <4>1
      <4> WITNESS f \in [DOMAIN deferred'[e] -> DOMAIN deferred[e]]
      <4> QED BY <4>1, <4>2, <3>2, SMTT(40)
    <3> QED BY <3>1, <3>2
  <2>6. deferred' \in [Decodes -> Seq(Tasks)]
    BY <2>3 DEF TypeOK
  <2>7. /\ \A e, h \in Decodes : \A i \in DOMAIN deferred'[e], j \in DOMAIN deferred'[h] :
                 Req[deferred'[e][i]] = Req[deferred'[h][j]] => e = h /\ i = j
        /\ Deferred' \subseteq Deferred
    BY <1>0, <2>5, <2>6, EntriesShrink, ZenonT(40)
  <2>8. ASSUME NEW u \in Deferred' PROVE inflight'[Req[u]] = NoTask
    <3>1. PICK e \in Decodes : u \in Queued(e)'
      BY DEF Deferred
    <3>2. PICK j \in DOMAIN deferred'[e] : u = deferred'[e][j]
      BY <3>1 DEF Queued
    <3>3. PICK f \in [DOMAIN deferred'[e] -> DOMAIN deferred[e]] :
                 /\ \A k \in DOMAIN deferred'[e] : deferred'[e][k] = deferred[e][f[k]]
                 /\ \A k \in DOMAIN deferred'[e] : ~(e = d /\ f[k] = 1)
      BY <2>5, SMTT(40)
    <3>4. Req[u] # Req[t]
      BY <1>0, <2>1, <3>2, <3>3, SMTT(40) DEF OneEntryPerRequest
    <3>5. u \in Deferred /\ u \in Tasks /\ Req[u] \in Reqs
      BY <1>0, <2>7, DeferredTasks, TaskTypes
    <3> QED BY <3>4, <3>5, <2>4, <1>0 DEF OneEntryPerRequest
  <2>9. \A r \in Reqs : inflight'[r] # NoTask => Req[inflight'[r]] = r
    BY <1>0, <2>4 DEF OneEntryPerRequest
  <2>10. OneEntryPerRequest'
    BY <2>7, <2>8, <2>9, SMTT(40) DEF OneEntryPerRequest
  <2> QED BY <2>3, <2>10 DEF LedgerInv
<1> QED BY <1>1, <1>2 DEF _flush_deferred

\* A callback of the task in the ledger releases it; a stale one does nothing.
LEMMA CompleteStep == ASSUME LedgerInv, NEW t \in Tasks, _on_complete(t) PROVE LedgerInv'
<1>0. TypeOK /\ OneEntryPerRequest /\ Req[t] \in Reqs /\ Dst[t] \in Decodes
      /\ Deferred' = Deferred
  BY TaskTypes, SMTT(40) DEF LedgerInv, _on_complete, Deferred, Queued
<1>1. CASE inflight[Req[t]] = t /\ Release(t) /\ done' = done \cup {t} /\ flushing' = {Dst[t]}
  <2>1. TypeOK' /\ BytesConserved' /\ PairCapRespected'
    BY <1>0, <1>1, ReleaseLedger DEF TypeOK, _on_complete, signals
  <2>2. \A r \in Reqs : inflight'[r] \in {inflight[r], NoTask}
    BY <1>0, <1>1 DEF Release, TypeOK
  <2>3. Deferred \subseteq Tasks
    BY <1>0, DeferredTasks
  <2>4. OneEntryPerRequest'
    BY <1>0, <2>2, <2>3, TaskTypes, SMTT(40) DEF OneEntryPerRequest, _on_complete
  <2> QED BY <2>1, <2>4 DEF LedgerInv
<1>2. CASE UNCHANGED <<ledger, done, flushing>>
  <2>1. TypeOK'
    BY <1>0, <1>2 DEF TypeOK, _on_complete, signals, ledger
  <2>2. OneEntryPerRequest'
    BY <1>0, <1>2, SMTT(40) DEF OneEntryPerRequest, _on_complete, ledger
  <2> QED BY <1>2, <2>1, <2>2, LedgerKept DEF LedgerInv
<1> QED BY <1>1, <1>2 DEF _on_complete

\* cancel filters the queues and releases the ledger entry it names.
LEMMA CancelStep == ASSUME LedgerInv, NEW r \in Reqs, NEW T \in SUBSET Tasks, CancelTasks(r, T)
                    PROVE  LedgerInv'
<1>0. TypeOK /\ OneEntryPerRequest
  BY DEF LedgerInv
<1>1. deferred' \in [Decodes -> Seq(Tasks)]
  <2>1. \A d \in Decodes : Without(deferred[d], T) \in Seq(Tasks)
    BY <1>0, WithoutProperties DEF TypeOK
  <2> QED BY <2>1 DEF CancelTasks
<1>2. \A d \in Decodes : \E f \in [DOMAIN deferred'[d] -> DOMAIN deferred[d]] :
              /\ \A j \in DOMAIN deferred'[d] : deferred'[d][j] = deferred[d][f[j]]
              /\ \A j, k \in DOMAIN deferred'[d] : f[j] = f[k] => j = k
  <2>1. SUFFICES ASSUME NEW d \in Decodes
        PROVE \E f \in [DOMAIN deferred'[d] -> DOMAIN deferred[d]] :
              /\ \A j \in DOMAIN deferred'[d] : deferred'[d][j] = deferred[d][f[j]]
              /\ \A j, k \in DOMAIN deferred'[d] : f[j] = f[k] => j = k
    OBVIOUS
  <2>2. deferred'[d] = Without(deferred[d], T) /\ deferred[d] \in Seq(Tasks)
    BY <1>0 DEF CancelTasks, TypeOK
  <2> QED BY <2>2, WithoutProperties, SMTT(40)
<1>3. /\ \A d, e \in Decodes : \A i \in DOMAIN deferred'[d], j \in DOMAIN deferred'[e] :
                 Req[deferred'[d][i]] = Req[deferred'[e][j]] => d = e /\ i = j
      /\ Deferred' \subseteq Deferred /\ Deferred \subseteq Tasks
  BY <1>0, <1>1, <1>2, EntriesShrink, DeferredTasks
<1>4. /\ pairBytes' \in [Pairs -> Nat] /\ dstBytes' \in [Decodes -> Nat]
      /\ inflight' \in [Reqs -> Tasks \cup {NoTask}]
      /\ BytesConserved' /\ PairCapRespected'
      /\ \A s \in Reqs : inflight'[s] \in {inflight[s], NoTask}
  <2>1. CASE inflight[r] \in T /\ Release(inflight[r])
    <3>1. inflight[r] \in Tasks /\ Req[inflight[r]] = r
      BY <1>0, <2>1, TaskAssumption DEF OneEntryPerRequest
    <3>2. \A s \in Reqs : inflight'[s] \in {inflight[s], NoTask}
      BY <1>0, <2>1, <3>1 DEF Release, TypeOK
    <3> QED BY <2>1, <3>1, <3>2, ReleaseLedger
  <2>2. CASE UNCHANGED ledger
    BY <1>0, <2>2, LedgerKept DEF TypeOK, ledger
  <2> QED BY <2>1, <2>2 DEF CancelTasks
<1>5. TypeOK'
  BY <1>0, <1>1, <1>4 DEF TypeOK, CancelTasks, signals
<1>6. OneEntryPerRequest'
  BY <1>0, <1>3, <1>4, TaskTypes DEF OneEntryPerRequest
<1> QED BY <1>4, <1>5, <1>6 DEF LedgerInv

\* Handlers that only move the usage signals or start a flush.
LEMMA SignalStep ==
    ASSUME LedgerInv, TypeOK', UNCHANGED <<ledger, deferred>>
    PROVE  LedgerInv'
<1>1. OneEntryPerRequest'
  BY DEF LedgerInv, OneEntryPerRequest, ledger, Deferred, Queued
<1> QED BY <1>1, LedgerKept DEF LedgerInv

\* Every handler preserves the invariant.
LEMMA LedgerStep == ASSUME LedgerInv, [Next]_vars PROVE LedgerInv'
<1>0. TypeOK
  BY DEF LedgerInv
<1>1. ASSUME NEW t \in Tasks, submit(t) PROVE LedgerInv'
  BY <1>1, SubmitStep
<1>2. ASSUME NEW t \in Tasks, _on_complete(t) PROVE LedgerInv'
  BY <1>2, CompleteStep
<1>3. ASSUME NEW t \in Tasks, cancel_operation(t) PROVE LedgerInv'
  <2>1. Req[t] \in Reqs /\ {t} \in SUBSET Tasks /\ CancelTasks(Req[t], {t})
    BY <1>3, TaskTypes DEF cancel_operation
  <2> QED BY <2>1, CancelStep
<1>4. ASSUME NEW r \in Reqs, finish_request(r) PROVE LedgerInv'
  <2>1. {t \in Tasks : Req[t] = r} \in SUBSET Tasks
        /\ CancelTasks(r, {t \in Tasks : Req[t] = r})
    BY <1>4 DEF finish_request
  <2> QED BY <2>1, CancelStep
<1>5. ASSUME NEW d \in Decodes, _flush_deferred(d) PROVE LedgerInv'
  BY <1>5, FlushStep
<1>6. ASSUME NEW d \in Decodes, Age(d) PROVE LedgerInv'
  <2>1. [kvUsage[d] EXCEPT !.stale = TRUE] \in Samples
    BY <1>0, <1>6, ZenonT(40) DEF Age, TypeOK, Samples
  <2>2. TypeOK'
    BY <1>0, <1>6, <2>1 DEF Age, TypeOK, ledger
  <2> QED BY <1>6, <2>2, SignalStep DEF Age
<1>7. ASSUME NEW d \in Decodes, NEW s \in Samples \cup {NoSample}, update_kv_usage(d, s)
      PROVE  LedgerInv'
  <2>1. TypeOK'
    BY <1>0, <1>7 DEF update_kv_usage, TypeOK, ledger
  <2> QED BY <1>7, <2>1, SignalStep DEF update_kv_usage
<1>8. ASSUME NEW epochs \in [Decodes -> Epochs], set_expected_epochs(epochs) PROVE LedgerInv'
  <2>1. TypeOK'
    BY <1>0, <1>8 DEF set_expected_epochs, TypeOK, ledger
  <2> QED BY <1>8, <2>1, SignalStep DEF set_expected_epochs
<1>9. ASSUME NEW i \in Prefills \cup Decodes, Govern(i) PROVE LedgerInv'
  <2>1. TypeOK'
    BY <1>0, <1>9 DEF Govern, TypeOK, ledger
  <2> QED BY <1>9, <2>1, SignalStep DEF Govern
<1>10. CASE tick
  <2>1. TypeOK'
    BY <1>0, <1>10 DEF tick, TypeOK, ledger, signals
  <2> QED BY <1>10, <2>1, SignalStep DEF tick
<1>11. CASE UNCHANGED vars
  <2>1. TypeOK'
    BY <1>0, <1>11 DEF vars, TypeOK
  <2> QED BY <1>11, <2>1, SignalStep DEF vars, ledger
<1> QED BY <1>1, <1>2, <1>3, <1>4, <1>5, <1>6, <1>7, <1>8, <1>9, <1>10, <1>11 DEF Next

\* The conjunction of the governor's invariants holds in every reachable state,
\* whatever order submit, flush, callbacks, cancels and dispatch failures take.
THEOREM LedgerCorrect == Spec => []LedgerInv
BY LedgerInit, LedgerStep, PTL DEF Spec

\* Type correctness of the governor's state.
THEOREM GovernorTypeOK == Spec => []TypeOK
<1>1. LedgerInv => TypeOK
  BY DEF LedgerInv
<1> QED BY <1>1, LedgerCorrect, PTL

\* The byte counters of _dispatch, _on_complete and cancel never drift from the
\* tasks in _inflight_tasks: no byte is leaked and none is released twice.
THEOREM BytesAlwaysConserved == Spec => []BytesConserved
<1>1. LedgerInv => BytesConserved
  BY DEF LedgerInv
<1> QED BY <1>1, LedgerCorrect, PTL

\* can_send keeps every source-destination pair within its byte cap.
THEOREM PairCapAlwaysRespected == Spec => []PairCapRespected
<1>1. LedgerInv => PairCapRespected
  BY DEF LedgerInv
<1> QED BY <1>1, LedgerCorrect, PTL

\* A request never owns two entries, so no ledger entry is ever overwritten.
THEOREM OneEntryAlways == Spec => []OneEntryPerRequest
<1>1. LedgerInv => OneEntryPerRequest
  BY DEF LedgerInv
<1> QED BY <1>1, LedgerCorrect, PTL

\* is_drained is a sound drain test provided no transfer has size zero: it reads
\* the byte counters only, and by conservation they vanish with the last task.
THEOREM DrainedAlwaysIdle ==
    (\A t \in Tasks : Size[t] > 0) => (Spec => []DrainedMeansIdle)
<1>1. ASSUME \A t \in Tasks : Size[t] > 0, LedgerInv PROVE DrainedMeansIdle
  <2>1. SUFFICES ASSUME is_drained PROVE Inflight = {} /\ Deferred = {}
    BY DEF DrainedMeansIdle
  <2>2. ASSUME NEW t \in Inflight PROVE FALSE
    <3>1. t \in Tasks /\ Dst[t] \in Decodes /\ t \in ToDst(Inflight, Dst[t])
          /\ ToDst(Inflight, Dst[t]) \in SUBSET Tasks
      BY TaskTypes DEF Inflight, ToDst
    <3>2. dstBytes[Dst[t]] = SizeSum[ToDst(Inflight, Dst[t])]
      BY <1>1, <3>1 DEF LedgerInv, BytesConserved
    <3>3. dstBytes[Dst[t]] >= Size[t] /\ Size[t] \in Nat
      BY <3>1, <3>2, SumOfRest, ZenonT(40)
    <3>4. dstBytes[Dst[t]] = 0 /\ Size[t] > 0
      BY <1>1, <2>1, <3>1 DEF is_drained
    <3> QED BY <3>3, <3>4, SMTT(40)
  <2>3. \A d \in Decodes : DOMAIN deferred[d] = {}
    BY <2>1 DEF is_drained
  <2> QED BY <2>2, <2>3 DEF Deferred, Queued
<1>2. CASE \A t \in Tasks : Size[t] > 0
  <2>1. LedgerInv => DrainedMeansIdle
    BY <1>1, <1>2
  <2> QED BY <2>1, LedgerCorrect, PTL
<1> QED BY <1>2

=============================================================================
