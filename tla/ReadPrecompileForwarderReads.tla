--------------------- MODULE ReadPrecompileForwarderReads ----------------------
(***************************************************************************)
(* What the requests of the forwarder read.  The cache stays within its    *)
(* bound and the reads of a request at the newest block agree.  And the    *)
(* forwarder implements SharedReads: Hit is Recall, Join and Lead are      *)
(* Wait, Settle is Answer, NotifyAll and FollowerReturn are Collect, and   *)
(* Publish, Park and SpuriousWake leave everything it sees alone.          *)
(***************************************************************************)
EXTENDS ReadPrecompileForwarderProofs, FiniteSetTheorems

--------------------------------------------------------------------------------
\* What the eviction of the cache guarantees: the cache stays within its bound, and
\* reads at the newest block agree.  The invariant behind the second: a response that a
\* request has read, or that is on its way to the request, is still in the cache while
\* the request is at the newest block and that block's keys fit.

Delivered(c, i, r) ==
  \/ seen[c][i] = r
  \/ pc[c] \in {"publishing", "notifying"} /\ reading[c] = i /\ answer[c] = r
  \/ Awaits(c) /\ reading[c] = i /\ result[flight[c]] = r

CachedIsOld == \A k \in Key : responses[k] # None => k[1].number <= newest_block_number

KeptAtHead ==
  \A c \in Callers, i \in Inputs, r \in Response :
    rpc[c] \in Scopes /\ Delivered(c, i, r) =>
      /\ rpc[c].number <= newest_block_number
      /\ rpc[c].number = newest_block_number /\ FitsFrom(rpc[c].number)
           => responses[<<rpc[c], i>>] = r

HInv == IInv /\ CachedIsOld /\ KeptAtHead

\* The scope of a request has a block number.
LEMMA ScopeNumber == \A s \in Scopes : s.number \in Nat
BY ConstantAssumption, Zenon

\* A step that leaves the cache alone keeps KeptAtHead when all it delivers was
\* already on its way, to this request or to its leader.
LEMMA KeptWhenNothingNew ==
  ASSUME KeptAtHead, UNCHANGED <<newest_block_number, responses>>,
         \A d \in Callers, j \in Inputs, q \in Response :
           rpc'[d] \in Scopes /\ Delivered(d, j, q)' =>
             \E e \in Callers : rpc[e] = rpc'[d] /\ Delivered(e, j, q)
  PROVE  KeptAtHead'
BY DEF KeptAtHead, FitsFrom

\* What a request has read after Return, it had read before, or Return gave it.
LEMMA ReturnAdds ==
  ASSUME IInv, NEW c \in Callers, NEW i \in Inputs, NEW r \in Result, Return(c, i, r),
         NEW d \in Callers, NEW j \in Inputs, NEW q \in Response,
         rpc'[d] \in Scopes, seen'[d][j] = q
  PROVE  /\ rpc'[d] = rpc[d]
         /\ seen[d][j] = q \/ (d = c /\ j = i /\ q = r)
<1>1. CASE r = Failed
  BY <1>1, Distinct, Zenon DEF Return, IInv, TypeOK
<1>2. CASE r # Failed
  BY <1>2, Zenon DEF Return, IInv, TypeOK
<1> QED
  BY <1>1, <1>2, Zenon

\* The steps that leave the cache alone deliver nothing new, save for Hit.
LEMMA OthersKeep ==
  ASSUME HInv, NEW c \in Callers,
         \/ \E s \in Scopes : BeginRpc(c, s)
         \/ EndRpc(c)
         \/ \E i \in Inputs : Join(c, i) \/ Lead(c, i)
         \/ Publish(c) \/ NotifyAll(c) \/ Park(c) \/ FollowerReturn(c) \/ SpuriousWake(c)
  PROVE  KeptAtHead'
<1>1. UNCHANGED <<newest_block_number, responses>>
  BY ZenonT(30) DEF BeginRpc, EndRpc, Join, Lead, Publish, NotifyAll, Park, FollowerReturn, SpuriousWake
<1> SUFFICES ASSUME NEW d \in Callers, NEW j \in Inputs, NEW q \in Response,
                    rpc'[d] \in Scopes, Delivered(d, j, q)'
             PROVE  \E e \in Callers : rpc[e] = rpc'[d] /\ Delivered(e, j, q)
  BY <1>1, KeptWhenNothingNew, Zenon DEF HInv
<1>i. IInv /\ q # None
  BY Distinct, Zenon DEF HInv
<1>2. ASSUME NEW s \in Scopes, BeginRpc(c, s) PROVE rpc[d] = rpc'[d] /\ Delivered(d, j, q)
  <2>1. pc' = pc /\ seen' = seen /\ pc[c] = "idle" /\ seen[c] = [i \in Inputs |-> None]
    BY <1>2, <1>i, ZenonT(30) DEF BeginRpc, IInv, Held
  <2>2. d # c
    BY <1>i, <2>1, ZenonT(30) DEF Delivered, Awaits
  <2> QED
    BY <1>2, <1>i, <2>2, Zenon DEF BeginRpc, IInv, TypeOK, Delivered, Awaits
<1>3. CASE EndRpc(c)
  BY <1>3, <1>i, Distinct, Zenon DEF EndRpc, IInv, TypeOK, Delivered, Awaits
<1>4. ASSUME NEW i \in Inputs, Join(c, i) PROVE rpc[d] = rpc'[d] /\ Delivered(d, j, q)
  <2>1. CASE d = c
    <3>1. result[in_flight[<<rpc[c], i>>]] = None
      BY <1>4, <1>i, EntryHasNoResult, Distinct, Zenon DEF IInv, TypeOK, Join, KeyOf, Key
    <3> QED
      BY <1>4, <1>i, <2>1, <3>1, Zenon DEF IInv, TypeOK, Join, KeyOf, Delivered, Awaits
  <2>2. CASE d # c
    BY <1>4, <1>i, <2>2, ZenonT(30) DEF Join, IInv, TypeOK, Delivered, Awaits
  <2> QED
    BY <2>1, <2>2, Zenon
<1>5. ASSUME NEW i \in Inputs, Lead(c, i) PROVE rpc[d] = rpc'[d] /\ Delivered(d, j, q)
  <2>1. CASE d = c
    BY <1>5, <1>i, <2>1, Zenon DEF IInv, TypeOK, Lead, Delivered, Awaits
  <2>2. CASE d # c
    <3>1. PICK f \in FreeFlights : flight' = [flight EXCEPT ![c] = f]
                                   /\ result' = [result EXCEPT ![f] = None]
      BY <1>5, Zenon DEF Lead
    <3>2. Awaits(d) => flight[d] \in Flights /\ flight[d] # f
      BY <1>i, <3>1, ZenonT(30) DEF FreeFlights, IInv, Held, Resolving, Awaits
    <3> QED
      BY <1>5, <1>i, <2>2, <3>1, <3>2, Zenon DEF Lead, IInv, TypeOK, Delivered, Awaits
  <2> QED
    BY <2>1, <2>2, Zenon
<1>6. CASE Publish(c)
  <2>1. /\ rpc' = rpc /\ seen' = seen /\ reading' = reading /\ flight' = flight /\ answer' = answer
        /\ pc[c] = "publishing" /\ pc' = [pc EXCEPT ![c] = "notifying"]
        /\ result' = [result EXCEPT ![flight[c]] = answer[c]] /\ flight[c] \in Flights
    BY <1>6, <1>i, ZenonT(30) DEF Publish, IInv, Held, Resolving
  <2>2. CASE Awaits(d) /\ flight[d] = flight[c] /\ reading[d] = j /\ result'[flight[d]] = q
    <3>1. rpc[c] = rpc[d] /\ reading[c] = reading[d] /\ answer[c] = q
      BY <1>i, <2>1, <2>2, Zenon DEF IInv, TypeOK, OneLeader, Leads
    <3> QED
      BY <2>1, <2>2, <3>1, Zenon DEF Delivered
  <2>3. CASE ~ (Awaits(d) /\ flight[d] = flight[c] /\ reading[d] = j /\ result'[flight[d]] = q)
    <3>1. Awaits(d) => flight[d] \in Flights
      BY <1>i, ZenonT(30) DEF IInv, Held, Resolving, Awaits
    <3>2. Awaits(d)' = Awaits(d) /\ (pc'[d] \in {"publishing", "notifying"} => pc[d] \in {"publishing", "notifying"})
      BY <1>i, <2>1, SMTT(30) DEF IInv, TypeOK, Awaits
    <3>3. Delivered(d, j, q)
      BY <1>i, <2>1, <2>3, <3>1, <3>2, Zenon DEF IInv, TypeOK, Delivered
    <3> QED
      BY <2>1, <3>3, Zenon
  <2> QED
    BY <2>2, <2>3, Zenon
<1>7. CASE NotifyAll(c)
  <2>1. reading[c] \in Inputs /\ answer[c] \in Result
    BY <1>7, <1>i, ZenonT(30) DEF NotifyAll, IInv, Held, Resolving
  <2>2. CASE seen'[d][j] = q
    BY <1>7, <1>i, <2>1, <2>2, ReturnAdds DEF NotifyAll, Delivered
  <2>3. CASE seen'[d][j] # q
    BY <1>7, <1>i, <2>3, ZenonT(30) DEF NotifyAll, Return, IInv, TypeOK, Delivered, Awaits
  <2> QED
    BY <2>2, <2>3, Zenon
<1>8. CASE FollowerReturn(c)
  <2>0. reading[c] \in Inputs /\ flight[c] \in Flights
    BY <1>8, <1>i, Zenon DEF FollowerReturn, IInv, Held, Resolving
  <2>1. reading[c] \in Inputs /\ result[flight[c]] \in Result
    <3>1. result[flight[c]] # None
      BY <1>8, ZenonT(30) DEF FollowerReturn
    <3> QED
      BY <1>i, <2>0, <3>1, Zenon DEF IInv, TypeOK
  <2>2. CASE seen'[d][j] = q
    <3>1. Return(c, reading[c], result[flight[c]]) /\ Awaits(c)
      BY <1>8, ZenonT(30) DEF FollowerReturn, Awaits
    <3>2. /\ rpc'[d] = rpc[d]
          /\ seen[d][j] = q \/ (d = c /\ j = reading[c] /\ q = result[flight[c]])
      BY <1>i, <2>1, <2>2, <3>1, ReturnAdds, SMTT(30)
    <3> QED
      BY <3>1, <3>2, ZenonT(30) DEF Delivered
  <2>3. CASE seen'[d][j] # q
    BY <1>8, <1>i, <2>3, Zenon DEF FollowerReturn, Return, IInv, TypeOK, Delivered, Awaits
  <2> QED
    BY <2>2, <2>3, Zenon
<1>9. CASE Park(c) \/ SpuriousWake(c)
  <2>1. /\ UNCHANGED <<rpc, seen, reading, answer, flight, result>> /\ Awaits(d)' = Awaits(d)
        /\ pc'[d] \in {"publishing", "notifying"} => pc[d] \in {"publishing", "notifying"}
    BY <1>9, <1>i, SMTT(30) DEF Park, SpuriousWake, IInv, TypeOK, Awaits
  <2> QED
    BY <2>1, ZenonT(30) DEF Delivered
<1> QED
  BY <1>2, <1>3, <1>4, <1>5, <1>6, <1>7, <1>8, <1>9, ZenonT(30)

\* A worker served from the cache reads what the cache keeps for the head.
LEMMA HitKeeps ==
  ASSUME HInv, NEW c \in Callers, NEW i \in Inputs, Hit(c, i)
  PROVE  KeptAtHead'
<1> DEFINE k == <<rpc[c], i>>
<1>1. /\ k \in Key /\ responses[k] \in Result /\ responses[k] # None /\ Return(c, i, responses[k])
      /\ UNCHANGED <<newest_block_number, responses, result, pc>>
  BY Distinct, Zenon DEF HInv, IInv, TypeOK, Hit, KeyOf, Key, Result
<1> SUFFICES ASSUME NEW d \in Callers, NEW j \in Inputs, NEW q \in Response,
                    rpc'[d] \in Scopes, Delivered(d, j, q)'
             PROVE  /\ rpc'[d].number <= newest_block_number
                    /\ rpc'[d].number = newest_block_number /\ FitsFrom(rpc'[d].number)
                         => responses[<<rpc'[d], j>>] = q
  BY <1>1, Zenon DEF KeptAtHead, FitsFrom
<1>2. rpc'[d] = rpc[d]
  BY <1>1, Distinct, Zenon DEF HInv, IInv, TypeOK, Return
<1>3. CASE Delivered(d, j, q)
  BY <1>2, <1>3, ZenonT(30) DEF HInv, KeptAtHead
<1>4. CASE d = c /\ j = i /\ q = responses[k]
  BY <1>1, <1>2, <1>4, ZenonT(30) DEF HInv, CachedIsOld
<1>5. CASE seen'[d][j] = q
  BY <1>1, <1>3, <1>4, <1>5, ReturnAdds, SMTT(30) DEF HInv, Delivered
<1>6. CASE seen'[d][j] # q
  <2>1. d # c
    BY <1>1, <1>6, Zenon DEF Hit, Delivered, Awaits
  <2>2. reading'[d] = reading[d] /\ flight'[d] = flight[d] /\ answer'[d] = answer[d]
    BY <1>1, <2>1, Zenon DEF HInv, IInv, TypeOK, Return
  <2>3. Delivered(d, j, q)
    BY <1>1, <1>6, <2>2, Zenon DEF Delivered, Awaits
  <2> QED
    BY <1>3, <2>3, Zenon
<1> QED
  BY <1>5, <1>6, ZenonT(30)

\* A request that goes on forgets nothing it has read.
LEMMA SeenStays ==
  ASSUME IInv, [Next]_vars, NEW c \in Callers, NEW i \in Inputs,
         rpc[c] # None, rpc'[c] = rpc[c], seen[c][i] # None
  PROVE  seen'[c][i] # None
<1>1. ASSUME NEW d \in Callers, NEW j, NEW r, r # None, Return(d, j, r) PROVE seen'[c][i] # None
  <2>1. CASE r = Failed
    BY <1>1, <2>1, Zenon DEF Return, IInv, TypeOK
  <2>2. CASE r # Failed
    BY <1>1, <2>2, Zenon DEF Return, IInv, TypeOK
  <2> QED
    BY <2>1, <2>2, Zenon
<1>2. CASE UNCHANGED seen
  BY <1>2, Zenon
<1>3. ASSUME NEW d \in Callers, EndRpc(d) PROVE seen'[c][i] # None
  BY <1>3, Zenon DEF EndRpc, IInv, TypeOK
<1>4. ASSUME NEW d \in Callers, NEW j \in Inputs, Hit(d, j) PROVE seen'[c][i] # None
  BY <1>1, <1>4, ZenonT(30) DEF Hit, KeyOf
<1>5. ASSUME NEW d \in Callers, NotifyAll(d) PROVE seen'[c][i] # None
  <2>1. answer[d] # None
    BY <1>5, Distinct, ZenonT(30) DEF NotifyAll, IInv, Held, Result
  <2> QED
    BY <1>1, <1>5, <2>1, Zenon DEF NotifyAll
<1>6. ASSUME NEW d \in Callers, FollowerReturn(d) PROVE seen'[c][i] # None
  BY <1>1, <1>6, Zenon DEF FollowerReturn
<1> QED
  BY <1>2, <1>3, <1>4, <1>5, <1>6, ZenonT(30) DEF Next, Progress, vars, BeginRpc, Join, Lead, Settle,
     Publish, Park, SpuriousWake

--------------------------------------------------------------------------------
\* There are finitely many cache keys, so the size of responses is a number.
LEMMA KeyIsFinite == IsFiniteSet(Key)
BY ConstantAssumption, FS_Product, Zenon DEF Key

\* After an eviction there is room for one more entry.
LEMMA EvictMakesRoom ==
  ASSUME NEW cached, NEW newest
  PROVE  Len_(Evict(cached, newest)) < MaxCacheEntries
<1> DEFINE kept == [k \in Key |-> IF k[1].number >= newest THEN cached[k] ELSE None]
<1>1. CASE Len_(cached) < MaxCacheEntries
  BY <1>1, Zenon DEF Evict
<1>2. CASE ~ Len_(cached) < MaxCacheEntries /\ Len_(kept) < MaxCacheEntries
  BY <1>2, Zenon DEF Evict
<1>3. CASE ~ Len_(cached) < MaxCacheEntries /\ ~ Len_(kept) < MaxCacheEntries
  <2>1. Evict(cached, newest) = [k \in Key |-> None]
    BY <1>3, Zenon DEF Evict
  <2>2. {k \in Key : [j \in Key |-> None][k] # None} = {}
    BY Zenon
  <2>3. Len_([k \in Key |-> None]) = 0
    BY <2>2, FS_EmptySet, Zenon DEF Len_
  <2> QED
    BY <2>1, <2>3, ConstantAssumption
<1> QED
  BY <1>1, <1>2, <1>3, Zenon

\* One insertion adds at most one entry.
LEMMA InsertAddsOne ==
  ASSUME NEW cached \in [Key -> Response \union {None}], NEW k \in Key, NEW r
  PROVE  /\ Len_(cached) \in Nat
         /\ Len_([cached EXCEPT ![k] = r]) \in Nat
         /\ Len_([cached EXCEPT ![k] = r]) <= Len_(cached) + 1
<1> DEFINE S == {j \in Key : cached[j] # None}
           T == {j \in Key : [cached EXCEPT ![k] = r][j] # None}
<1>1. IsFiniteSet(S) /\ IsFiniteSet(T)
  BY KeyIsFinite, FS_Subset, Zenon
<1>2. T \subseteq S \union {k}
  BY Zenon
<1>3. IsFiniteSet(S \union {k}) /\ Cardinality(S \union {k}) \in Nat
      /\ Cardinality(S \union {k}) <= Cardinality(S) + 1 /\ Cardinality(S) \in Nat
  <2> HIDE DEF S
  <2>1. Cardinality(S) \in Nat
    BY <1>1, FS_CardinalityType, Zenon
  <2>2. /\ IsFiniteSet(S \union {k})
        /\ Cardinality(S \union {k}) = IF k \in S THEN Cardinality(S) ELSE Cardinality(S) + 1
    BY <1>1, FS_AddElement, Zenon
  <2> QED
    BY <2>1, <2>2
<1>4. Cardinality(T) <= Cardinality(S \union {k}) /\ Cardinality(T) \in Nat
  BY <1>1, <1>2, <1>3, FS_Subset, FS_CardinalityType, Zenon
<1> QED
  BY <1>3, <1>4 DEF Len_

\* The cache stays within its bound.
THEOREM CacheStaysBounded == Spec => []CacheBounded
<1>1. Init => CacheBounded
  <2> SUFFICES ASSUME Init PROVE CacheBounded
    BY Zenon
  <2>1. {k \in Key : responses[k] # None} = {}
    BY Zenon DEF Init
  <2>2. Len_(responses) = 0
    BY <2>1, FS_EmptySet, Zenon DEF Len_
  <2> QED
    BY <2>2, ConstantAssumption DEF CacheBounded
<1>2. IInv /\ CacheBounded /\ [Next]_vars => CacheBounded'
  <2> SUFFICES ASSUME IInv, CacheBounded, [Next]_vars PROVE CacheBounded'
    BY Zenon
  <2>1. CASE \E c \in Callers, reply \in Replies : Settle(c, reply)
    <3>1. PICK c \in Callers, reply \in Replies : Settle(c, reply)
      BY <2>1, Zenon
    <3>2. CASE UNCHANGED responses
      BY <3>2, Zenon DEF CacheBounded, Len_
    <3>3. ASSUME NEW newest \in Nat, NEW k \in Key, NEW r \in Response,
                 responses' = [Evict(responses, newest) EXCEPT ![k] = r]
          PROVE  CacheBounded'
      <4> DEFINE e == Evict(responses, newest)
      <4>1. e \in [Key -> Response \union {None}]
        BY EvictRemoves, Zenon DEF IInv, TypeOK
      <4>2. Len_(e) < MaxCacheEntries
        BY EvictMakesRoom, Zenon
      <4> HIDE DEF e
      <4>3. Len_(e) \in Nat /\ Len_([e EXCEPT ![k] = r]) \in Nat
            /\ Len_([e EXCEPT ![k] = r]) <= Len_(e) + 1
        BY <4>1, InsertAddsOne, Zenon
      <4>4. Len_([e EXCEPT ![k] = r]) <= MaxCacheEntries
        BY <4>2, <4>3, ConstantAssumption
      <4>5. Len_(responses)' = Len_([e EXCEPT ![k] = r])
        BY <3>3, Zenon DEF e, Len_
      <4> QED
        BY <4>4, <4>5, Zenon DEF CacheBounded
    <3> QED
      BY <3>1, <3>2, <3>3, SettleInserts, Zenon
  <2>2. CASE ~ \E c \in Callers, reply \in Replies : Settle(c, reply)
    BY <2>2, OnlySettleWrites, Zenon DEF CacheBounded, Len_
  <2> QED
    BY <2>1, <2>2, Zenon
<1> QED
  BY <1>1, <1>2, Invariance, PTL DEF Spec

--------------------------------------------------------------------------------
\* An eviction spares the newest block when its keys fit.
LEMMA EvictSparesHead ==
  ASSUME NEW cached \in [Key -> Response \union {None}], NEW newest \in Nat, FitsFrom(newest),
         NEW k \in Key, k[1].number = newest
  PROVE  Evict(cached, newest)[k] = cached[k]
<1> DEFINE kept == [j \in Key |-> IF j[1].number >= newest THEN cached[j] ELSE None]
           head == {j \in Key : j[1].number >= newest}
           held == {j \in Key : kept[j] # None}
<1>1. held \subseteq head /\ IsFiniteSet(head) /\ IsFiniteSet(held)
  BY KeyIsFinite, FS_Subset, ZenonT(30)
<1>2. Cardinality(held) <= Cardinality(head) /\ Cardinality(held) \in Nat /\ Cardinality(head) \in Nat
  <2> HIDE DEF held, head
  <2> QED
    BY <1>1, FS_Subset, FS_CardinalityType, Zenon
<1>3. Cardinality(held) < MaxCacheEntries
  BY <1>2, ConstantAssumption, SMTT(30) DEF FitsFrom
<1>4. Len_(kept) < MaxCacheEntries
  BY <1>3, Zenon DEF Len_
<1>5. kept[k] = cached[k]
  OBVIOUS
<1> QED
  BY <1>4, <1>5, Zenon DEF Evict

\* A leader that settles keeps what was read at the head: either the head moves on, or
\* the eviction spares the keys of the head.
LEMMA SettleKeeps ==
  ASSUME HInv, NEW c \in Callers, NEW reply \in Replies, Settle(c, reply)
  PROVE  KeptAtHead' /\ CachedIsOld'
<1> DEFINE k == <<rpc[c], reading[c]>>
           a == ToResult(reply)
<1>a. /\ pc[c] = "requesting"
      /\ UNCHANGED <<result, rpc, reading, flight, seen>>
      /\ pc' = [pc EXCEPT ![c] = "publishing"] /\ answer' = [answer EXCEPT ![c] = a]
  BY Zenon DEF Settle
<1>b. rpc[c] \in Scopes /\ reading[c] \in Inputs /\ flight[c] \in Flights /\ in_flight[k] = flight[c]
  BY <1>a, ZenonT(30) DEF HInv, IInv, Held, Resolving
<1>c. k \in Key /\ in_flight[k] # None
  BY <1>b, Distinct, Zenon DEF Key
<1>1. /\ pc[c] = "requesting" /\ k \in Key /\ rpc[c] \in Scopes /\ responses[k] = None
      /\ UNCHANGED <<result, rpc, reading, flight, seen>>
      /\ pc' = [pc EXCEPT ![c] = "publishing"] /\ answer' = [answer EXCEPT ![c] = a]
  BY <1>a, <1>b, <1>c, ZenonT(30) DEF HInv, IInv, EntryHasLeader
<1>2. ASSUME NEW d \in Callers, NEW j \in Inputs, NEW q \in Response, Delivered(d, j, q)'
      PROVE  Delivered(d, j, q) \/ (d = c /\ j = reading[c] /\ q = a)
  BY <1>1, <1>2, Zenon DEF HInv, IInv, TypeOK, Delivered, Awaits
<1>3. CASE a = Failed
  <2>1. UNCHANGED <<newest_block_number, responses>>
    BY <1>3, Distinct, SettleInserts, ZenonT(30) DEF HInv
  <2>2. \A d \in Callers, j \in Inputs, q \in Response :
          Delivered(d, j, q)' => rpc[d] = rpc'[d] /\ Delivered(d, j, q)
    BY <1>1, <1>2, <1>3, Distinct, Zenon
  <2>3. KeptAtHead'
    BY <2>1, <2>2, KeptWhenNothingNew, Zenon DEF HInv
  <2> QED
    BY <2>1, <2>3, Zenon DEF HInv, CachedIsOld
<1>4. CASE a # Failed
  <2>1. PICK newest \in Nat :
          /\ a \in Response /\ newest_block_number' = newest
          /\ newest >= newest_block_number /\ newest >= rpc[c].number
          /\ responses' = [Evict(responses, newest) EXCEPT ![k] = a]
    BY <1>4, SettleInserts, Zenon DEF HInv
  <2>2. /\ Evict(responses, newest) \in [Key -> Response \union {None}]
        /\ \A j \in Key : Evict(responses, newest)[j] \in {responses[j], None}
    BY EvictRemoves, ZenonT(30) DEF HInv, IInv, TypeOK
  <2>3. /\ responses'[k] = a
        /\ \A j \in Key : j # k => responses'[j] = Evict(responses, newest)[j]
    BY <1>1, <2>1, <2>2, Zenon
  <2>4. newest_block_number \in Nat /\ \A j \in Key : j[1].number \in Nat
    BY ScopeNumber, Zenon DEF HInv, IInv, TypeOK, Key
  <2>5. CachedIsOld'
    <3> SUFFICES ASSUME NEW j \in Key, responses'[j] # None PROVE j[1].number <= newest
      BY <2>1, Zenon DEF CachedIsOld
    <3>1. CASE j = k
      BY <2>1, <3>1, Zenon
    <3>2. CASE j # k
      <4>1. responses[j] # None
        BY <2>2, <2>3, <3>2, Zenon
      <4>2. j[1].number <= newest_block_number
        BY <4>1, Zenon DEF HInv, CachedIsOld
      <4> QED
        BY <2>1, <2>4, <4>2, SMTT(30)
    <3> QED
      BY <3>1, <3>2, Zenon
  <2>6. KeptAtHead'
    <3> SUFFICES ASSUME NEW d \in Callers, NEW j \in Inputs, NEW q \in Response,
                        rpc[d] \in Scopes, Delivered(d, j, q)'
                 PROVE  /\ rpc[d].number <= newest
                        /\ rpc[d].number = newest /\ FitsFrom(rpc[d].number)
                             => responses'[<<rpc[d], j>>] = q
      BY <1>1, <2>1, ZenonT(30) DEF KeptAtHead, FitsFrom
    <3>1. CASE d = c /\ j = reading[c] /\ q = a
      BY <2>1, <2>3, <3>1, ZenonT(30)
    <3>2. CASE Delivered(d, j, q)
      <4>1. /\ rpc[d].number <= newest_block_number
            /\ rpc[d].number = newest_block_number /\ FitsFrom(rpc[d].number)
                 => responses[<<rpc[d], j>>] = q
        BY <3>2, Zenon DEF HInv, KeptAtHead
      <4>2. <<rpc[d], j>> \in Key /\ rpc[d].number \in Nat
        BY ScopeNumber, Zenon DEF Key
      <4>3. rpc[d].number <= newest
        BY <2>1, <2>4, <4>1, <4>2, SMTT(30)
      <4>4. ASSUME rpc[d].number = newest, FitsFrom(rpc[d].number)
            PROVE  responses'[<<rpc[d], j>>] = q
        <5>1. responses[<<rpc[d], j>>] = q
          BY <2>1, <2>4, <4>1, <4>4, SMTT(30)
        <5>2. <<rpc[d], j>> # k
          BY <1>1, <5>1, Distinct, Zenon
        <5>3. Evict(responses, newest)[<<rpc[d], j>>] = responses[<<rpc[d], j>>]
          BY <4>2, <4>4, EvictSparesHead, Zenon DEF HInv, IInv, TypeOK
        <5> QED
          BY <2>3, <4>2, <5>1, <5>2, <5>3, ZenonT(30)
      <4> QED
        BY <4>3, <4>4, Zenon
    <3> QED
      BY <1>2, <3>1, <3>2, Zenon
  <2> QED
    BY <2>5, <2>6, Zenon
<1> QED
  BY <1>3, <1>4, Zenon

\* Every step of the forwarder keeps the invariant about the head of the chain.
LEMMA HeadInductive == HInv /\ [Next]_vars => HInv'
<1> SUFFICES ASSUME HInv, [Next]_vars PROVE HInv'
  BY Zenon
<1>1. IInv'
  BY Inductive, Zenon DEF HInv
<1>2. CASE \E c \in Callers, reply \in Replies : Settle(c, reply)
  BY <1>1, <1>2, SettleKeeps, Zenon DEF HInv
<1>3. CASE ~ \E c \in Callers, reply \in Replies : Settle(c, reply)
  <2>1. UNCHANGED <<newest_block_number, responses>>
    BY <1>3, OnlySettleWrites, Zenon
  <2>2. CachedIsOld'
    BY <2>1, Zenon DEF HInv, CachedIsOld
  <2>3. CASE UNCHANGED vars
    <3>1. \A d \in Callers, j \in Inputs, q \in Response :
            Delivered(d, j, q)' => rpc[d] = rpc'[d] /\ Delivered(d, j, q)
      BY <2>3 DEF vars, Delivered, Awaits
    <3> QED
      BY <1>1, <2>1, <2>2, <3>1, KeptWhenNothingNew, ZenonT(30) DEF HInv
  <2>4. CASE Next
    <3>1. PICK c \in Callers :
            \/ \E s \in Scopes : BeginRpc(c, s)
            \/ EndRpc(c)
            \/ \E i \in Inputs : Hit(c, i) \/ Join(c, i) \/ Lead(c, i)
            \/ Publish(c) \/ NotifyAll(c) \/ Park(c) \/ FollowerReturn(c) \/ SpuriousWake(c)
      BY <1>3, <2>4, Zenon DEF Next, Progress
    <3>2. KeptAtHead'
      BY <3>1, HitKeeps, OthersKeep, Zenon
    <3> QED
      BY <1>1, <2>2, <3>2, Zenon DEF HInv
  <2> QED
    BY <2>3, <2>4, Zenon
<1> QED
  BY <1>2, <1>3, Zenon

\* The invariant about the head of the chain holds in every reachable state.
LEMMA HeadInvariance == Spec => []HInv
<1>1. Init => HInv
  <2> SUFFICES ASSUME Init PROVE HInv
    BY Zenon
  <2>1. CachedIsOld
    BY Zenon DEF Init, CachedIsOld
  <2>2. KeptAtHead
    BY Distinct, Zenon DEF Init, KeptAtHead
  <2> QED
    BY <2>1, <2>2, InitHolds, Zenon DEF HInv
<1> QED
  BY <1>1, HeadInductive, PTL DEF Spec

\* All reads within one RPC request agree while the request is at the newest
\* block and the keys of that block fit in the cache.
THEOREM HeadReadsAgree == Spec => ReadsAgreeAtHead
<1>1. HInv /\ HInv' /\ [Next]_vars =>
        [\A c \in Callers :
           rpc[c] # None /\ rpc[c].number >= newest_block_number' /\ FitsFrom(rpc[c].number)
             => SameReads(c)]_vars
  <2> SUFFICES ASSUME HInv, HInv', [Next]_vars, NEW c \in Callers, NEW i \in Inputs,
                      rpc[c] # None, rpc[c].number >= newest_block_number', FitsFrom(rpc[c].number),
                      rpc'[c] = rpc[c], seen[c][i] # None
               PROVE  seen'[c][i] = seen[c][i]
    BY Zenon DEF SameReads
  <2>1. seen'[c][i] # None
    BY SeenStays, Zenon DEF HInv
  <2>2. /\ rpc[c] \in Scopes /\ rpc[c].number \in Nat /\ <<rpc[c], i>> \in Key
        /\ newest_block_number \in Nat /\ newest_block_number' \in Nat
        /\ seen[c][i] \in Response /\ seen'[c][i] \in Response
    BY <2>1, ScopeNumber, SMTT(30) DEF HInv, IInv, TypeOK, Key
  <2>3. rpc[c].number <= newest_block_number' /\ rpc[c].number = newest_block_number'
        /\ responses'[<<rpc[c], i>>] = seen'[c][i]
    <3>1. \A r \in Response : seen'[c][i] = r =>
            /\ rpc'[c].number <= newest_block_number'
            /\ rpc'[c].number = newest_block_number' /\ FitsFrom(rpc'[c].number)
                 => responses'[<<rpc'[c], i>>] = r
      BY <2>2, Zenon DEF HInv, KeptAtHead, Delivered, FitsFrom
    <3>2. /\ rpc[c].number <= newest_block_number'
          /\ rpc[c].number = newest_block_number' => responses'[<<rpc[c], i>>] = seen'[c][i]
      BY <2>2, <3>1, Zenon
    <3> QED
      BY <2>2, <3>2, SMTT(30)
  <2>4. rpc[c].number <= newest_block_number
    BY <2>2, ZenonT(30) DEF HInv, KeptAtHead, Delivered
  <2>5. newest_block_number <= newest_block_number'
    <3>1. CASE \E d \in Callers, reply \in Replies : Settle(d, reply)
      <4>1. PICK d \in Callers, reply \in Replies : Settle(d, reply)
        BY <3>1, Zenon
      <4>2. \/ UNCHANGED newest_block_number
            \/ \E newest \in Nat : newest_block_number' = newest /\ newest >= newest_block_number
        BY <4>1, SettleInserts, ZenonT(30) DEF HInv
      <4> QED
        BY <2>2, <4>2, SMTT(30)
    <3>2. CASE ~ \E d \in Callers, reply \in Replies : Settle(d, reply)
      BY <2>2, <3>2, OnlySettleWrites, SMTT(30)
    <3> QED
      BY <3>1, <3>2, Zenon
  <2>6. responses[<<rpc[c], i>>] = seen[c][i]
    BY <2>2, <2>3, <2>4, <2>5, SMTT(30) DEF HInv, KeptAtHead, Delivered
  <2>7. responses'[<<rpc[c], i>>] \in {responses[<<rpc[c], i>>], None}
    BY <2>2, <2>6, CachedIsOnlyEvicted, Zenon DEF HInv
  <2> QED
    BY <2>1, <2>3, <2>6, <2>7, Zenon
<1> QED
  BY <1>1, HeadInvariance, PTL DEF Spec, ReadsAgreeAtHead

--------------------------------------------------------------------------------
\* The refinement: what every waiting worker is bound to, and one lemma per action.

Publishes(e, d) == pc[e] = "publishing" /\ flight[e] = flight[d]

\* Heard, without its CHOOSE.
HeardIs ==
  \A d \in Callers :
    /\ pc[d] \in {"publishing", "notifying"} => Heard(d) = answer[d]
    /\ pc[d] \in {"idle", "requesting"} => Heard(d) = None
    /\ Awaits(d) =>
         /\ \A e \in Callers : Publishes(e, d) => Heard(d) = answer[e]
         /\ (\A e \in Callers : ~ Publishes(e, d)) => Heard(d) = result[flight[d]]

\* An InFlight has one leader, so the CHOOSE of Heard has one candidate.
LEMMA HeardIsAnswer == IInv => HeardIs
<1> SUFFICES ASSUME IInv, NEW d \in Callers
             PROVE  /\ pc[d] \in {"publishing", "notifying"} => Heard(d) = answer[d]
                    /\ pc[d] \in {"idle", "requesting"} => Heard(d) = None
                    /\ Awaits(d) =>
                         /\ \A e \in Callers : Publishes(e, d) => Heard(d) = answer[e]
                         /\ (\A e \in Callers : ~ Publishes(e, d)) => Heard(d) = result[flight[d]]
  BY Zenon DEF HeardIs
<1>1. /\ pc[d] \in {"publishing", "notifying"} => Heard(d) = answer[d]
      /\ pc[d] \in {"idle", "requesting"} => Heard(d) = None
  BY Zenon DEF Heard, Awaits
<1>2. ASSUME Awaits(d), NEW e \in Callers, Publishes(e, d)
      PROVE  Heard(d) = answer[e]
  <2> DEFINE lead == CHOOSE x \in Callers : pc[x] = "publishing" /\ flight[x] = flight[d]
  <2>1. lead \in Callers /\ pc[lead] = "publishing" /\ flight[lead] = flight[d]
    BY <1>2, Zenon DEF Publishes
  <2>2. Heard(d) = answer[lead]
    BY <1>2, <2>1, Zenon DEF Heard, Awaits, Publishes
  <2> HIDE DEF lead
  <2>3. lead = e
    BY <1>2, <2>1, Zenon DEF IInv, OneLeader, Leads, Publishes
  <2> QED
    BY <2>2, <2>3, Zenon
<1>3. ASSUME Awaits(d), \A e \in Callers : ~ Publishes(e, d)
      PROVE  Heard(d) = result[flight[d]]
  BY <1>3, Zenon DEF Heard, Awaits, Publishes
<1> QED
  BY <1>1, <1>2, <1>3, Zenon

\* The same after a step.
LEMMA HeardIsAnswerNext == IInv' => HeardIs'
BY HeardIsAnswer, PTL

\* A worker that stays where it is, on an InFlight nobody publishes to, is bound to
\* the answer it was bound to.
LEMMA HeardKept ==
  ASSUME HeardIs, HeardIs', TypeOK, TypeOK', NEW d \in Callers,
         flight'[d] = flight[d], answer'[d] = answer[d],
         pc'[d] = pc[d] \/ (Awaits(d) /\ Awaits(d)'),
         Awaits(d) => result'[flight[d]] = result[flight[d]],
         Awaits(d) => \A e \in Callers : /\ Publishes(e, d)' = Publishes(e, d)
                                         /\ Publishes(e, d) => answer'[e] = answer[e]
  PROVE  Heard(d)' = Heard(d)
<1>1. CASE pc[d] \in {"publishing", "notifying"}
  BY <1>1 DEF HeardIs, Awaits
<1>2. CASE pc[d] \in {"idle", "requesting"}
  BY <1>2, Zenon DEF HeardIs, Awaits
<1>3. CASE Awaits(d)
  <2>1. Awaits(d)'
    BY <1>3, Zenon DEF Awaits
  <2>2. CASE \E e \in Callers : Publishes(e, d)
    <3>1. PICK e \in Callers : Publishes(e, d)
      BY <2>2, Zenon
    <3>2. Publishes(e, d)' /\ answer'[e] = answer[e]
      BY <1>3, <3>1, Zenon
    <3>3. Heard(d) = answer[e]
      BY <1>3, <3>1, Zenon DEF HeardIs
    <3>4. Heard(d)' = answer'[e]
      BY <2>1, <3>2, Zenon DEF HeardIs
    <3> QED
      BY <3>2, <3>3, <3>4, Zenon
  <2>3. CASE \A e \in Callers : ~ Publishes(e, d)
    <3>1. \A e \in Callers : ~ Publishes(e, d)'
      BY <1>3, <2>3, Zenon
    <3>2. Heard(d) = result[flight[d]]
      BY <1>3, <2>3, Zenon DEF HeardIs
    <3>3. Heard(d)' = result'[flight'[d]]
      BY <2>1, <3>1, Zenon DEF HeardIs
    <3> QED
      BY <1>3, <3>2, <3>3, Zenon
  <2> QED
    BY <2>2, <2>3, Zenon
<1> QED
  BY <1>1, <1>2, <1>3, ZenonT(30) DEF TypeOK, Awaits

\* What the abstract specification sees of the forwarder.
Asked == {k \in Key : in_flight[k] # None}
HeardBy == [c \in Callers |-> Heard(c)]

\* Before any request both know nothing.
LEMMA InitImplements == Init => Reads!Init
<1> SUFFICES ASSUME Init PROVE Reads!Init
  BY Zenon
<1>1. \A c \in Callers : Heard(c) = None
  BY Zenon DEF Init, Heard, Awaits
<1>2. {k \in Key : in_flight[k] # None} = {}
  BY Zenon DEF Init
<1> QED
  BY <1>1, <1>2, Zenon DEF Init, Reads!Init, Key, Reads!Key

\* The start of an RPC request.
LEMMA BeginImplements ==
  ASSUME IInv, IInv', NEW c \in Callers, NEW s \in Scopes, BeginRpc(c, s)
  PROVE  Reads!Begin(c, s)
<1>1. HeardIs /\ HeardIs' /\ TypeOK /\ TypeOK'
  BY HeardIsAnswer, HeardIsAnswerNext, Zenon DEF IInv
<1>2. \A d \in Callers : Heard(d)' = Heard(d)
  BY <1>1, HeardKept, Zenon DEF BeginRpc, Awaits, Publishes
<1> QED
  BY <1>2, Zenon DEF BeginRpc, Reads!Begin

\* The end of an RPC request.
LEMMA EndImplements ==
  ASSUME IInv, IInv', NEW c \in Callers, EndRpc(c)
  PROVE  Reads!End(c)
<1>1. HeardIs /\ HeardIs' /\ TypeOK /\ TypeOK'
  BY HeardIsAnswer, HeardIsAnswerNext, Zenon DEF IInv
<1>2. \A d \in Callers : Heard(d)' = Heard(d)
  BY <1>1, HeardKept, Zenon DEF EndRpc, Awaits, Publishes
<1>3. reading[c] = None
  BY Zenon DEF IInv, Held, EndRpc
<1> QED
  BY <1>2, <1>3, Zenon DEF EndRpc, Reads!End

\* A worker served from the cache recalls the memo.
LEMMA HitImplements ==
  ASSUME IInv, IInv', NEW c \in Callers, NEW i \in Inputs, Hit(c, i)
  PROVE  Reads!Recall(c, i)
<1>1. HeardIs /\ HeardIs' /\ TypeOK /\ TypeOK'
  BY HeardIsAnswer, HeardIsAnswerNext, Zenon DEF IInv
<1>2. flight[c] = None /\ reading[c] = None /\ answer[c] = None
  BY Zenon DEF IInv, Held, Hit
<1>3. responses[<<rpc[c], i>>] # Failed /\ responses[<<rpc[c], i>>] # None /\ rpc[c] # None
  BY <1>1, Distinct, ZenonT(30) DEF TypeOK, Hit, Key, KeyOf
<1>4. /\ UNCHANGED <<responses, in_flight, result, pc, rpc, reading, flight, answer>>
      /\ seen' = [seen EXCEPT ![c][i] = responses[<<rpc[c], i>>]]
  BY <1>1, <1>2, <1>3 DEF TypeOK, Hit, Return, KeyOf
<1>5. \A d \in Callers : Heard(d)' = Heard(d)
  BY <1>1, <1>4, HeardKept, Zenon DEF Awaits, Publishes
<1> QED
  BY <1>2, <1>3, <1>4, <1>5, ZenonT(30) DEF Reads!Recall

\* A worker that joins an InFlight waits; the question is outstanding and unanswered.
LEMMA JoinImplements ==
  ASSUME IInv, IInv', NEW c \in Callers, NEW i \in Inputs, Join(c, i)
  PROVE  Reads!Wait(c, i)
<1> DEFINE k == <<rpc[c], i>>
<1>1. HeardIs /\ HeardIs' /\ TypeOK /\ TypeOK'
  BY HeardIsAnswer, HeardIsAnswerNext, Zenon DEF IInv
<1>2. pc[c] = "idle" /\ flight[c] = None /\ reading[c] = None /\ answer[c] = None
  BY Zenon DEF IInv, Held, Join
<1>3. /\ rpc[c] # None /\ responses[k] = None /\ in_flight[k] # None
      /\ reading' = [reading EXCEPT ![c] = i] /\ pc' = [pc EXCEPT ![c] = "following"]
      /\ flight' = [flight EXCEPT ![c] = in_flight[k]]
      /\ UNCHANGED <<responses, in_flight, result, rpc, answer, seen>>
  BY Zenon DEF Join, KeyOf
<1>4. k \in Key
  BY <1>1, <1>3, Zenon DEF TypeOK, Key
<1>5. Heard(c) = None
  BY <1>1, <1>2, Zenon DEF HeardIs
<1>6. Heard(c)' = None
  <2>1. PICK e \in Callers : pc[e] = "requesting" /\ flight[e] = in_flight[k]
    BY <1>3, <1>4, Zenon DEF IInv, EntryHasLeader
  <2>2. pc'[e] = "requesting" /\ flight'[e] = flight'[c] /\ pc'[c] = "following"
    BY <1>1, <1>2, <1>3, <2>1, ZenonT(30) DEF TypeOK
  <2>3. \A d \in Callers : ~ Publishes(d, c)'
    BY <2>2 DEF IInv, OneLeader, Leads, Publishes
  <2>4. result'[flight'[e]] = None
    BY <2>2, Zenon DEF IInv, Held
  <2> QED
    BY <1>1, <2>2, <2>3, <2>4, Zenon DEF HeardIs, Awaits
<1>7. ASSUME NEW d \in Callers, d # c PROVE Heard(d)' = Heard(d)
  <2>1. pc'[d] = pc[d] /\ flight'[d] = flight[d]
    BY <1>1, <1>3, <1>7, Zenon DEF TypeOK
  <2>2. \A e \in Callers : Publishes(e, d)' = Publishes(e, d)
    BY <1>1, <1>2, <1>3, <2>1, Zenon DEF TypeOK, Publishes
  <2> QED
    BY <1>1, <1>3, <2>1, <2>2, HeardKept, Zenon
<1>8. {j \in Key : in_flight[j] # None}' = {j \in Key : in_flight[j] # None} \union {k}
  BY <1>3, <1>4, Zenon
<1>9. \A d \in Callers : Heard(d)' = Heard(d)
  BY <1>5, <1>6, <1>7, Zenon
<1> QED
  BY <1>2, <1>3, <1>8, <1>9, ZenonT(30) DEF Reads!Wait

\* A worker that becomes a leader waits; the question becomes outstanding.
LEMMA LeadImplements ==
  ASSUME IInv, IInv', NEW c \in Callers, NEW i \in Inputs, Lead(c, i)
  PROVE  Reads!Wait(c, i)
<1> DEFINE k == <<rpc[c], i>>
<1>1. HeardIs /\ HeardIs' /\ TypeOK /\ TypeOK'
  BY HeardIsAnswer, HeardIsAnswerNext, Zenon DEF IInv
<1>2. pc[c] = "idle" /\ flight[c] = None /\ reading[c] = None /\ answer[c] = None
  BY Zenon DEF IInv, Held, Lead
<1>3. PICK f \in FreeFlights :
        /\ in_flight' = [in_flight EXCEPT ![k] = f]
        /\ flight' = [flight EXCEPT ![c] = f]
        /\ result' = [result EXCEPT ![f] = None]
  BY Zenon DEF Lead, KeyOf
<1>4. /\ rpc[c] # None /\ responses[k] = None
      /\ reading' = [reading EXCEPT ![c] = i] /\ pc' = [pc EXCEPT ![c] = "requesting"]
      /\ UNCHANGED <<responses, rpc, answer, seen>>
  BY Zenon DEF Lead, CanLead, KeyOf
<1>5. k \in Key /\ f # None /\ \A d \in Callers : flight[d] # f
  BY <1>1, <1>4, Distinct, Zenon DEF TypeOK, Key, FreeFlights
<1>6. Heard(c) = None
  BY <1>1, <1>2, Zenon DEF HeardIs
<1>7. Heard(c)' = None
  BY <1>1, <1>4, ZenonT(30) DEF HeardIs, TypeOK
<1>8. ASSUME NEW d \in Callers, d # c PROVE Heard(d)' = Heard(d)
  <2>1. pc'[d] = pc[d] /\ flight'[d] = flight[d] /\ flight[d] # f
    BY <1>1, <1>3, <1>4, <1>5, <1>8, ZenonT(30) DEF TypeOK
  <2>2. Awaits(d) => flight[d] \in Flights
    BY Zenon DEF IInv, Held, Resolving, Awaits
  <2>3. Awaits(d) => result'[flight[d]] = result[flight[d]]
    BY <1>1, <1>3, <2>1, <2>2, Zenon DEF TypeOK
  <2>4. \A e \in Callers : Publishes(e, d)' = Publishes(e, d)
    BY <1>1, <1>2, <1>3, <1>4, <2>1, ZenonT(30) DEF TypeOK, Publishes
  <2> QED
    BY <1>1, <1>4, <2>1, <2>3, <2>4, HeardKept, Zenon
<1>9. {j \in Key : in_flight[j] # None}' = {j \in Key : in_flight[j] # None} \union {k}
  <2>1. in_flight'[k] # None /\ \A j \in Key \ {k} : in_flight'[j] = in_flight[j]
    BY <1>1, <1>3, <1>5, Zenon DEF TypeOK
  <2> QED
    BY <1>5, <2>1, Zenon
<1>10. \A d \in Callers : Heard(d)' = Heard(d)
  BY <1>6, <1>7, <1>8, Zenon
<1> QED
  BY <1>2, <1>4, <1>9, <1>10, ZenonT(30) DEF Reads!Wait

\* The leader's write to the InFlight changes nobody's answer.
LEMMA PublishImplements ==
  ASSUME IInv, IInv', NEW c \in Callers, Publish(c)
  PROVE  UNCHANGED Reads!vars
<1>1. HeardIs /\ HeardIs' /\ TypeOK /\ TypeOK'
  BY HeardIsAnswer, HeardIsAnswerNext, Zenon DEF IInv
<1>2. /\ pc[c] = "publishing" /\ flight[c] \in Flights
      /\ result' = [result EXCEPT ![flight[c]] = answer[c]]
      /\ pc' = [pc EXCEPT ![c] = "notifying"]
      /\ UNCHANGED <<responses, in_flight, rpc, reading, flight, answer, seen>>
  BY Zenon DEF Publish, IInv, Held, Resolving
<1>3. pc'[c] = "notifying" /\ result'[flight[c]] = answer[c]
  BY <1>1, <1>2, Zenon DEF TypeOK
<1>4. Heard(c)' = Heard(c)
  BY <1>1, <1>2, <1>3, Zenon DEF HeardIs
<1>5. ASSUME NEW d \in Callers, d # c PROVE Heard(d)' = Heard(d)
  <2>1. pc'[d] = pc[d]
    BY <1>1, <1>2, <1>5, Zenon DEF TypeOK
  <2>2. CASE Awaits(d) /\ flight[d] = flight[c]
    <3>1. Heard(d) = answer[c]
      BY <1>1, <1>2, <2>2, ZenonT(30) DEF HeardIs, Publishes
    <3>2. \A e \in Callers : ~ Publishes(e, d)'
      BY <1>2, <1>3, <2>2 DEF IInv, OneLeader, Leads, Publishes
    <3>3. Awaits(d)'
      BY <2>1, <2>2, Zenon DEF Awaits
    <3>4. Heard(d)' = result'[flight[d]]
      BY <1>1, <1>2, <3>2, <3>3, ZenonT(30) DEF HeardIs
    <3> QED
      BY <1>3, <2>2, <3>1, <3>4, Zenon
  <2>3. CASE ~ (Awaits(d) /\ flight[d] = flight[c])
    <3>1. Awaits(d) => flight[d] \in Flights
      BY Zenon DEF IInv, Held, Resolving, Awaits
    <3>2. Awaits(d) => result'[flight[d]] = result[flight[d]]
      BY <1>1, <1>2, <2>3, <3>1, ZenonT(30) DEF TypeOK
    <3>3. Awaits(d) => \A e \in Callers : Publishes(e, d)' = Publishes(e, d)
      BY <1>1, <1>2, <2>3, Zenon DEF TypeOK, Publishes
    <3> QED
      BY <1>1, <1>2, <2>1, <3>2, <3>3, HeardKept, ZenonT(30)
  <2> QED
    BY <2>2, <2>3, Zenon
<1>6. \A d \in Callers : Heard(d)' = Heard(d)
  BY <1>4, <1>5, Zenon
<1> QED
  BY <1>2, <1>6, Zenon DEF Reads!vars

\* A follower that parks, or wakes for no reason, is bound to the answer it was bound to.
LEMMA ParkImplements ==
  ASSUME IInv, IInv', NEW c \in Callers, Park(c) \/ SpuriousWake(c)
  PROVE  UNCHANGED Reads!vars
<1>1. HeardIs /\ HeardIs' /\ TypeOK /\ TypeOK'
  BY HeardIsAnswer, HeardIsAnswerNext, Zenon DEF IInv
<1>2. /\ UNCHANGED <<responses, in_flight, result, rpc, reading, flight, answer, seen>>
      /\ \A d \in Callers : /\ pc'[d] = pc[d] \/ (Awaits(d) /\ Awaits(d)')
                            /\ (pc'[d] = "publishing") = (pc[d] = "publishing")
  BY <1>1, ZenonT(30) DEF TypeOK, Park, SpuriousWake, Awaits
<1>3. ASSUME NEW d \in Callers, NEW e \in Callers PROVE Publishes(e, d)' = Publishes(e, d)
  <2>1. (pc'[e] = "publishing") = (pc[e] = "publishing")
    BY <1>2, Zenon
  <2> QED
    BY <1>2, <2>1, Zenon DEF Publishes
<1>4. \A d \in Callers : Heard(d)' = Heard(d)
  BY <1>1, <1>2, <1>3, HeardKept, ZenonT(30)
<1> QED
  BY <1>2, <1>4, Zenon DEF Reads!vars

\* A worker that returns what it is bound to return collects it, and the others stay
\* bound to what they were.
LEMMA ReturnImplements ==
  ASSUME IInv, IInv', NEW c \in Callers, NEW r \in Result, Return(c, reading[c], r), Heard(c) = r,
         UNCHANGED <<responses, in_flight, result>>, pc[c] # "publishing", pc'[c] = "idle",
         \A d \in Callers \ {c} : /\ pc'[d] = pc[d] \/ (Awaits(d) /\ Awaits(d)')
                                  /\ (pc'[d] = "publishing") = (pc[d] = "publishing")
  PROVE  Reads!Collect(c)
<1>1. HeardIs /\ HeardIs' /\ TypeOK /\ TypeOK'
  BY HeardIsAnswer, HeardIsAnswerNext, Zenon DEF IInv
<1>2. \A d \in Callers \ {c} : flight'[d] = flight[d] /\ answer'[d] = answer[d]
  BY <1>1, ZenonT(30) DEF Return, TypeOK
<1>3. ASSUME NEW d \in Callers \ {c}, NEW e \in Callers PROVE Publishes(e, d)' = Publishes(e, d)
  <2>1. (pc'[e] = "publishing") = (pc[e] = "publishing")
    BY Zenon
  <2>2. e # c => flight'[e] = flight[e]
    BY <1>2, Zenon
  <2> QED
    BY <1>2, <2>1, <2>2, Zenon DEF Publishes
<1>4. ASSUME NEW d \in Callers \ {c} PROVE Heard(d)' = Heard(d)
  <2>1. \A e \in Callers : Publishes(e, d) => answer'[e] = answer[e]
    BY <1>2, Zenon DEF Publishes
  <2> QED
    BY <1>1, <1>2, <1>3, <2>1, HeardKept, ZenonT(30)
<1>5. Heard(c)' = None
  BY <1>1, Zenon DEF HeardIs
<1>6. HeardBy' = [HeardBy EXCEPT ![c] = None] /\ HeardBy[c] = r
  BY <1>4, <1>5, Zenon DEF HeardBy
<1>7. r # None
  BY Distinct, Zenon DEF Result
<1>8. CASE r = Failed
  BY <1>6, <1>7, <1>8, Zenon DEF Return, HeardBy, Reads!Collect
<1>9. CASE r # Failed
  BY <1>6, <1>7, <1>9, Zenon DEF Return, HeardBy, Reads!Collect
<1> QED
  BY <1>8, <1>9, Zenon

\* A leader returns the answer it has published.
LEMMA NotifyAllImplements ==
  ASSUME IInv, IInv', NEW c \in Callers, NotifyAll(c)
  PROVE  Reads!Collect(c)
<1>1. HeardIs /\ TypeOK
  BY HeardIsAnswer, Zenon DEF IInv
<1>2. pc[c] = "notifying" /\ answer[c] \in Result
  BY Zenon DEF NotifyAll, IInv, Held
<1>3. Heard(c) = answer[c]
  BY <1>1, <1>2, Zenon DEF HeardIs
<1>4. /\ Return(c, reading[c], answer[c]) /\ UNCHANGED <<responses, in_flight, result>>
      /\ pc'[c] = "idle"
      /\ \A d \in Callers \ {c} : /\ pc'[d] = pc[d] \/ (Awaits(d) /\ Awaits(d)')
                                  /\ (pc'[d] = "publishing") = (pc[d] = "publishing")
  BY Zenon DEF NotifyAll, Awaits
<1> QED
  BY <1>2, <1>3, <1>4, ReturnImplements, Zenon

\* A follower returns what its InFlight holds, and no leader of it has yet to publish.
LEMMA FollowerReturnImplements ==
  ASSUME IInv, IInv', NEW c \in Callers, FollowerReturn(c)
  PROVE  Reads!Collect(c)
<1>1. HeardIs /\ TypeOK
  BY HeardIsAnswer, Zenon DEF IInv
<1>2. /\ pc[c] = "following" /\ result[flight[c]] # None
      /\ Return(c, reading[c], result[flight[c]]) /\ UNCHANGED <<responses, in_flight, result>>
      /\ pc' = [pc EXCEPT ![c] = "idle"]
  BY Zenon DEF FollowerReturn
<1>3. flight[c] \in Flights
  BY <1>2, Zenon DEF IInv, Held, Resolving
<1>4. result[flight[c]] \in Result
  BY <1>1, <1>2, <1>3, Zenon DEF TypeOK
<1>5. \A e \in Callers : ~ Publishes(e, c)
  <2> SUFFICES ASSUME NEW e \in Callers, pc[e] = "publishing", flight[e] = flight[c] PROVE FALSE
    BY Zenon DEF Publishes
  <2>1. result[flight[e]] = None
    BY Zenon DEF IInv, Held
  <2> QED
    BY <1>2, <2>1, Zenon
<1>6. Heard(c) = result[flight[c]]
  BY <1>1, <1>2, <1>5, Zenon DEF HeardIs, Awaits
<1>7. pc'[c] = "idle" /\ \A d \in Callers \ {c} : pc'[d] = pc[d]
  BY <1>1, <1>2, Zenon DEF TypeOK
<1> QED
  BY <1>2, <1>4, <1>6, <1>7, ReturnImplements, ZenonT(30)

\* The leader's answer reaches everyone who waits for the key without an answer: the
\* followers of its InFlight, and nobody else.
LEMMA SettleReaches ==
  ASSUME IInv, IInv', NEW c \in Callers, NEW reply \in Replies, Settle(c, reply), NEW d \in Callers
  PROVE  Heard(d)' = IF <<rpc[d], reading[d]>> = <<rpc[c], reading[c]>> /\ Heard(d) = None
                     THEN ToResult(reply) ELSE Heard(d)
<1> DEFINE r == ToResult(reply)
           k == <<rpc[c], reading[c]>>
<1>1. HeardIs /\ HeardIs' /\ TypeOK /\ TypeOK'
  BY HeardIsAnswer, HeardIsAnswerNext, Zenon DEF IInv
<1>2. /\ pc[c] = "requesting" /\ answer' = [answer EXCEPT ![c] = r]
      /\ pc' = [pc EXCEPT ![c] = "publishing"] /\ UNCHANGED <<result, rpc, reading, flight>>
  BY Zenon DEF Settle
<1>3. /\ rpc[c] \in Scopes /\ reading[c] \in Inputs
      /\ in_flight[k] = flight[c] /\ result[flight[c]] = None
  BY <1>2, ZenonT(30) DEF IInv, Held, Resolving
<1>4. pc'[c] = "publishing" /\ answer'[c] = r
  BY <1>1, <1>2, Zenon DEF TypeOK
<1> HIDE DEF r
<1>5. CASE d = c
  <2>1. Heard(c) = None /\ Heard(c)' = r
    BY <1>1, <1>2, <1>4, Zenon DEF HeardIs
  <2> QED
    BY <1>5, <2>1, Zenon DEF r
<1>6. CASE d # c /\ Awaits(d) /\ flight[d] = flight[c]
  <2>1. rpc[d] = rpc[c] /\ reading[d] = reading[c] /\ \A e \in Callers : ~ Publishes(e, d)
    BY <1>2, <1>6 DEF IInv, OneLeader, Leads, Publishes
  <2>2. Heard(d) = None
    BY <1>1, <1>3, <1>6, <2>1, ZenonT(30) DEF HeardIs
  <2>3. Awaits(d)' /\ Publishes(c, d)'
    BY <1>1, <1>2, <1>4, <1>6, ZenonT(30) DEF TypeOK, Awaits, Publishes
  <2>4. Heard(d)' = r
    BY <1>1, <1>4, <2>3, ZenonT(30) DEF HeardIs
  <2> QED
    BY <2>1, <2>2, <2>4, ZenonT(30) DEF r
<1>7. CASE d # c /\ ~ (Awaits(d) /\ flight[d] = flight[c])
  <2>1. pc'[d] = pc[d] /\ answer'[d] = answer[d]
    BY <1>1, <1>2, <1>7, ZenonT(30) DEF TypeOK
  <2>2. Awaits(d) => \A e \in Callers : /\ Publishes(e, d)' = Publishes(e, d)
                                        /\ Publishes(e, d) => answer'[e] = answer[e]
    BY <1>1, <1>2, <1>7, Zenon DEF TypeOK, Publishes
  <2>3. Heard(d)' = Heard(d)
    BY <1>1, <1>2, <2>1, <2>2, HeardKept, ZenonT(30)
  <2>4. ASSUME <<rpc[d], reading[d]>> = k PROVE Heard(d) # None
    <3>1. pc[d] # "idle"
      BY <1>3, <2>4, Distinct, ZenonT(30) DEF IInv, Held
    <3>2. pc[d] # "requesting"
      <4> SUFFICES ASSUME pc[d] = "requesting" PROVE FALSE
        BY Zenon
      <4>1. in_flight[k] = flight[d]
        BY <2>4, Zenon DEF IInv, Held
      <4>2. flight[d] = flight[c]
        BY <1>3, <4>1, Zenon
      <4>3. Leads(c) /\ Leads(d)
        BY <1>2, Zenon DEF Leads
      <4> QED
        BY <1>7, <4>2, <4>3, ZenonT(30) DEF IInv, OneLeader
    <3>3. CASE pc[d] \in {"publishing", "notifying"}
      <4>1. answer[d] # None
        BY <3>3, Distinct, ZenonT(30) DEF IInv, Held, Result
      <4> QED
        BY <1>1, <3>3, <4>1, ZenonT(30) DEF HeardIs
    <3>4. CASE Awaits(d)
      <4>1. ASSUME NEW e \in Callers, Leads(e), flight[e] = flight[d], pc[e] = "requesting" PROVE FALSE
        <5>1. rpc[e] = rpc[d] /\ reading[e] = reading[d]
          BY <3>4, <4>1, ZenonT(30) DEF IInv, OneLeader
        <5>2. in_flight[<<rpc[e], reading[e]>>] = flight[e]
          BY <4>1, ZenonT(30) DEF IInv, Held
        <5> QED
          BY <1>3, <1>7, <2>4, <3>4, <4>1, <5>1, <5>2, ZenonT(30)
      <4>2. ASSUME NEW e \in Callers, Publishes(e, d) PROVE Heard(d) # None
        <5>1. answer[e] # None
          BY <4>2, Distinct, ZenonT(30) DEF IInv, Held, Result, Publishes
        <5> QED
          BY <1>1, <3>4, <4>2, <5>1, ZenonT(30) DEF HeardIs
      <4>3. ASSUME NEW e \in Callers, pc[e] = "notifying", flight[e] = flight[d] PROVE result[flight[d]] # None
        <5>1. result[flight[e]] = answer[e] /\ answer[e] \in Result
          BY <4>3, ZenonT(30) DEF IInv, Held
        <5> QED
          BY <4>3, <5>1, Distinct, ZenonT(30) DEF Result
      <4>4. CASE \A e \in Callers : ~ Publishes(e, d)
        <5>1. result[flight[d]] # None
          BY <3>4, <4>1, <4>3, <4>4, ZenonT(30) DEF IInv, FollowerIsServed, Leads, Publishes
        <5> QED
          BY <1>1, <3>4, <4>4, <5>1, ZenonT(30) DEF HeardIs
      <4> QED
        BY <4>2, <4>4, Zenon
    <3> QED
      BY <1>1, <3>1, <3>2, <3>3, <3>4, ZenonT(30) DEF TypeOK, Awaits
  <2> QED
    BY <2>3, <2>4, Zenon
<1> QED
  BY <1>5, <1>6, <1>7, Zenon

\* The leader's second critical section answers the question about its key.
LEMMA SettleImplements ==
  ASSUME IInv, IInv', NEW c \in Callers, NEW reply \in Replies, Settle(c, reply)
  PROVE  \E k \in Reads!Key, r \in Response \union {Failed} : Reads!Answer(k, r)
<1> DEFINE k == <<rpc[c], reading[c]>>
           r == ToResult(reply)
<1>1. TypeOK /\ TypeOK'
  BY Zenon DEF IInv
<1>2. /\ pc[c] = "requesting" /\ in_flight' = [in_flight EXCEPT ![k] = None]
      /\ UNCHANGED <<rpc, reading, seen>>
  BY Zenon DEF Settle, KeyOf
<1>3. rpc[c] \in Scopes /\ reading[c] \in Inputs /\ in_flight[k] = flight[c] /\ flight[c] \in Flights
  BY <1>2, ZenonT(30) DEF IInv, Held, Resolving
<1>4. k \in Key /\ k \in Reads!Key /\ in_flight[k] # None
  BY <1>3, Distinct, Zenon DEF Key, Reads!Key
<1>5. r \in Response \union {Failed}
  BY ToResultType, Zenon DEF Result
<1>6. Asked' = Asked \ {k} /\ k \in Asked
  BY <1>1, <1>2, <1>4, ZenonT(30) DEF TypeOK, Asked
<1>7. HeardBy' = [d \in Callers |-> IF <<rpc[d], reading[d]>> = k /\ HeardBy[d] = None
                                    THEN r ELSE HeardBy[d]]
  BY SettleReaches, Zenon DEF HeardBy
<1>8. IF r = Failed
      THEN responses' = responses
      ELSE /\ responses' \in [Key -> Response \union {None}]
           /\ responses'[k] = r
           /\ \A j \in Key \ {k} : responses'[j] \in {responses[j], None}
  <2>1. CASE r = Failed
    BY <2>1, SettleInserts, Distinct, ZenonT(30)
  <2>2. CASE r # Failed
    <3>1. PICK newest \in Nat : responses' = [Evict(responses, newest) EXCEPT ![k] = r]
      BY <2>2, SettleInserts, Zenon
    <3>2. /\ Evict(responses, newest) \in [Key -> Response \union {None}]
          /\ \A j \in Key : Evict(responses, newest)[j] \in {responses[j], None}
      BY <1>1, EvictRemoves, Zenon DEF TypeOK
    <3>3. /\ responses'[k] = r
          /\ \A j \in Key \ {k} : responses'[j] \in {responses[j], None}
      BY <1>4, <3>1, <3>2, Zenon
    <3> QED
      BY <1>1, <2>2, <3>3, ZenonT(30) DEF TypeOK
  <2> QED
    BY <2>1, <2>2, Zenon
<1> HIDE DEF k, r
<1>9. Reads!Answer(k, r)
  BY <1>2, <1>6, <1>7, <1>8, ZenonT(30) DEF Reads!Answer, Asked, HeardBy, Key, Reads!Key
<1> QED
  BY <1>4, <1>5, <1>9, Zenon

\* Every step of the forwarder is a step of SharedReads or leaves what it sees alone.
LEMMA StepImplements == IInv /\ IInv' /\ [Next]_vars => [Reads!Next]_(Reads!vars)
<1> SUFFICES ASSUME IInv, IInv', [Next]_vars PROVE Reads!Next \/ UNCHANGED Reads!vars
  BY Zenon
<1>1. CASE UNCHANGED vars
  BY <1>1, Zenon DEF vars, Reads!vars, Heard, Awaits
<1>2. ASSUME NEW c \in Callers, NEW s \in Scopes, BeginRpc(c, s) PROVE Reads!Next
  BY <1>2, BeginImplements, ZenonT(30) DEF Reads!Next
<1>3. ASSUME NEW c \in Callers, EndRpc(c) PROVE Reads!Next
  BY <1>3, EndImplements, ZenonT(30) DEF Reads!Next
<1>4. ASSUME NEW c \in Callers, NEW i \in Inputs, Hit(c, i) PROVE Reads!Next
  BY <1>4, HitImplements, Zenon DEF Reads!Next
<1>5. ASSUME NEW c \in Callers, NEW i \in Inputs, Join(c, i) \/ Lead(c, i) PROVE Reads!Next
  BY <1>5, JoinImplements, LeadImplements, Zenon DEF Reads!Next
<1>6. ASSUME NEW c \in Callers, NEW reply \in Replies, Settle(c, reply) PROVE Reads!Next
  BY <1>6, SettleImplements, Zenon DEF Reads!Next
<1>7. ASSUME NEW c \in Callers, NotifyAll(c) \/ FollowerReturn(c) PROVE Reads!Next
  BY <1>7, NotifyAllImplements, FollowerReturnImplements, ZenonT(30) DEF Reads!Next
<1>8. ASSUME NEW c \in Callers, Publish(c) \/ Park(c) \/ SpuriousWake(c) PROVE UNCHANGED Reads!vars
  BY <1>8, PublishImplements, ParkImplements, ZenonT(30)
<1> QED
  BY <1>1, <1>2, <1>3, <1>4, <1>5, <1>6, <1>7, <1>8, ZenonT(30) DEF Next, Progress

\* For any number of workers, keys and InFlights and any cache size: every worker that
\* waits for a key returns the answer of the one request that was outstanding for the key
\* when it came, and every other read returns the cached response of its own key.
THEOREM ForwarderImplements == Spec => ImplementsSharedReads
<1>1. Init => Reads!Init
  BY InitImplements, Zenon
<1>2. IInv /\ IInv' /\ [Next]_vars => [Reads!Next]_(Reads!vars)
  BY StepImplements, Zenon
<1> QED
  BY <1>1, <1>2, Invariance, PTL DEF Spec, ImplementsSharedReads, Reads!Spec
================================================================================
