--------------------- MODULE ReadPrecompileForwarderProofs ---------------------
(***************************************************************************)
(* Proofs about ReadPrecompileForwarder, for any number of workers, scopes *)
(* and inputs and any cache size: the inductive invariant, the lemmas about *)
(* the operators it is built from, every step keeps it, and what follows.  *)
(***************************************************************************)
EXTENDS ReadPrecompileForwarder, TLAPS

--------------------------------------------------------------------------------
\* The inductive invariant.

Resolving(c) == rpc[c] \in Scopes /\ reading[c] \in Inputs /\ flight[c] \in Flights

\* What a worker holds at each point of resolve.
Held(c) ==
  /\ pc[c] = "idle" => flight[c] = None /\ reading[c] = None /\ answer[c] = None
  /\ pc[c] # "idle" => Resolving(c)
  /\ pc[c] = "requesting" => in_flight[<<rpc[c], reading[c]>>] = flight[c]
  /\ pc[c] \in {"requesting", "publishing"} => result[flight[c]] = None
  /\ pc[c] \in {"publishing", "notifying"} => answer[c] \in Result
  /\ pc[c] = "notifying" => result[flight[c]] = answer[c]
  /\ rpc[c] = None => seen[c] = [i \in Inputs |-> None]

\* An entry of in_flight has its leader, and no response is cached beside it.
EntryHasLeader ==
  \A k \in Key : in_flight[k] # None =>
    /\ responses[k] = None
    /\ \E c \in Callers : /\ pc[c] = "requesting" /\ flight[c] = in_flight[k]
                          /\ <<rpc[c], reading[c]>> = k

\* An InFlight has one leader, and its followers read what the leader reads.
OneLeader ==
  \A c, d \in Callers :
    Leads(c) /\ flight[c] = flight[d] =>
      /\ Leads(d) => c = d
      /\ Awaits(d) => rpc[c] = rpc[d] /\ reading[c] = reading[d]

\* A follower has a leader, or it has its result and is awake.
FollowerIsServed ==
  \A d \in Callers : Awaits(d) =>
    \/ \E c \in Callers : Leads(c) /\ flight[c] = flight[d]
    \/ pc[d] = "following" /\ result[flight[d]] # None

IInv ==
  /\ TypeOK
  /\ \A c \in Callers : Held(c)
  /\ EntryHasLeader
  /\ OneLeader
  /\ FollowerIsServed

--------------------------------------------------------------------------------
\* Lemmas about the operators and the constants.

\* Whatever the RPC client returns, request turns into a response or the error.
LEMMA ToResultType == ASSUME NEW reply PROVE ToResult(reply) \in Result
BY Zenon DEF ToResult, Result, Response

\* Eviction only removes entries.
LEMMA EvictRemoves ==
  ASSUME NEW R, NEW cached \in [Key -> R \union {None}], NEW newest
  PROVE  /\ Evict(cached, newest) \in [Key -> R \union {None}]
         /\ \A k \in Key : Evict(cached, newest)[k] \in {cached[k], None}
BY Zenon DEF Evict

\* The constants that stand for no value or for an error are told apart.
LEMMA Distinct ==
  /\ None \notin Response /\ None \notin Flights /\ None \notin Inputs
  /\ None \notin Scopes /\ None # Failed /\ Failed \notin Response
BY ConstantAssumption, Zenon DEF Result

--------------------------------------------------------------------------------
\* The invariant holds when the forwarder has been created.
LEMMA InitHolds == Init => IInv
BY Distinct DEF Init, IInv, TypeOK, Held, Resolving, EntryHasLeader, OneLeader,
   FollowerIsServed, Leads, Awaits, Key

\* The start of an RPC request keeps the invariant: it has read nothing yet.
LEMMA BeginRpcPreserves ==
  ASSUME IInv, NEW c \in Callers, NEW s \in Scopes, BeginRpc(c, s)
  PROVE  IInv'
<1>1. TypeOK'
  BY Distinct, Zenon DEF IInv, BeginRpc, TypeOK, Result
<1>2. (\A d \in Callers : Held(d))'
  BY Distinct, Zenon DEF IInv, BeginRpc, TypeOK, Held, Resolving
<1>3. EntryHasLeader'
  BY Distinct, Zenon DEF IInv, BeginRpc, TypeOK, Held, Resolving, EntryHasLeader
<1>4. OneLeader'
  BY Distinct DEF IInv, BeginRpc, TypeOK, Held, Resolving, EntryHasLeader, OneLeader, Leads, Awaits
<1>5. FollowerIsServed'
  BY Distinct DEF IInv, BeginRpc, TypeOK, Held, Resolving, OneLeader, FollowerIsServed, Leads, Awaits
<1> QED
  BY <1>1, <1>2, <1>3, <1>4, <1>5, Zenon DEF IInv

\* The end of an RPC request keeps the invariant.
LEMMA EndRpcPreserves ==
  ASSUME IInv, NEW c \in Callers, EndRpc(c)
  PROVE  IInv'
<1>1. TypeOK'
  BY Distinct, Zenon DEF IInv, EndRpc, TypeOK, Result
<1>2. (\A d \in Callers : Held(d))'
  BY Distinct, Zenon DEF IInv, EndRpc, TypeOK, Held, Resolving
<1>3. EntryHasLeader'
  BY Distinct, Zenon DEF IInv, EndRpc, TypeOK, Held, Resolving, EntryHasLeader
<1>4. OneLeader'
  BY Distinct DEF IInv, EndRpc, TypeOK, Held, Resolving, EntryHasLeader, OneLeader, Leads, Awaits
<1>5. FollowerIsServed'
  BY Distinct, ZenonT(30) DEF IInv, EndRpc, TypeOK, Held, Resolving, OneLeader, FollowerIsServed, Leads, Awaits
<1> QED
  BY <1>1, <1>2, <1>3, <1>4, <1>5, Zenon DEF IInv

\* What Return leaves in seen are responses.
LEMMA ReturnType ==
  ASSUME IInv, NEW c \in Callers, NEW i \in Inputs, NEW r \in Result, Return(c, i, r)
  PROVE  seen' \in [Callers -> [Inputs -> Response \union {None}]]
<1>1. CASE r = Failed
  BY <1>1, Zenon DEF Return, IInv, TypeOK
<1>2. CASE r # Failed
  BY <1>2, Zenon DEF Return, Result, IInv, TypeOK
<1> QED
  BY <1>1, <1>2, Zenon

\* A worker served from the cache keeps the invariant.
LEMMA HitPreserves ==
  ASSUME IInv, NEW c \in Callers, NEW i \in Inputs, Hit(c, i)
  PROVE  IInv'
<1>1. TypeOK'
  BY Distinct DEF IInv, Hit, Return, KeyOf, Key, TypeOK, Result
<1>2. (\A d \in Callers : Held(d))'
  BY Distinct DEF IInv, Hit, Return, KeyOf, Key, TypeOK, Held, Resolving
<1>3. EntryHasLeader'
  BY Distinct, ZenonT(30) DEF IInv, Hit, Return, KeyOf, Key, TypeOK, Held, Resolving, EntryHasLeader
<1>4. OneLeader'
  BY Distinct DEF IInv, Hit, Return, KeyOf, Key, TypeOK, Held, Resolving, EntryHasLeader, OneLeader, Leads, Awaits
<1>5. FollowerIsServed'
  <2> SUFFICES ASSUME NEW d \in Callers, Awaits(d)'
               PROVE  \/ \E e \in Callers : Leads(e)' /\ flight'[e] = flight'[d]
                      \/ pc'[d] = "following" /\ result'[flight'[d]] # None
    BY Zenon DEF FollowerIsServed
  <2>1. pc' = pc /\ result' = result /\ \A e \in Callers : e # c => flight'[e] = flight[e]
    BY Zenon DEF IInv, TypeOK, Hit, Return
  <2>2. d # c /\ Awaits(d) /\ ~ Leads(c)
    BY <2>1, Zenon DEF Hit, Awaits, Leads
  <2>3. CASE \E e \in Callers : Leads(e) /\ flight[e] = flight[d]
    BY <2>1, <2>2, <2>3, Zenon DEF Leads
  <2>4. CASE pc[d] = "following" /\ result[flight[d]] # None
    BY <2>1, <2>2, <2>4, Zenon
  <2> QED
    BY <2>2, <2>3, <2>4, Zenon DEF IInv, FollowerIsServed
<1> QED
  BY <1>1, <1>2, <1>3, <1>4, <1>5, Zenon DEF IInv

\* An InFlight that can be joined has no result yet.
LEMMA EntryHasNoResult ==
  ASSUME IInv, NEW k \in Key, in_flight[k] # None
  PROVE  result[in_flight[k]] = None
<1>1. PICK c \in Callers : pc[c] = "requesting" /\ flight[c] = in_flight[k]
  BY Zenon DEF IInv, EntryHasLeader
<1> QED
  BY <1>1, Zenon DEF IInv, Held

\* A worker that becomes a follower keeps the invariant: its leader has not
\* published yet.
LEMMA JoinPreserves ==
  ASSUME IInv, NEW c \in Callers, NEW i \in Inputs, Join(c, i)
  PROVE  IInv'
<1>1. TypeOK'
  BY Distinct DEF IInv, Join, KeyOf, Key, TypeOK, Result
<1>2. (\A d \in Callers : Held(d))'
  BY Distinct DEF IInv, Join, KeyOf, Key, TypeOK, Held, Resolving
<1>3. EntryHasLeader'
  BY Distinct, Zenon DEF IInv, Join, KeyOf, Key, TypeOK, Held, Resolving, EntryHasLeader
<1>4. OneLeader'
  BY Distinct DEF IInv, Join, KeyOf, Key, TypeOK, Held, Resolving, EntryHasLeader, OneLeader, Leads, Awaits
<1>5. FollowerIsServed'
  <2> SUFFICES ASSUME NEW d \in Callers, Awaits(d)'
               PROVE  \/ \E e \in Callers : Leads(e)' /\ flight'[e] = flight'[d]
                      \/ pc'[d] = "following" /\ result'[flight'[d]] # None
    BY Zenon DEF FollowerIsServed
  <2>1. ASSUME NEW e \in Callers, Leads(e) PROVE Leads(e)' /\ flight'[e] = flight[e]
    BY <2>1, Zenon DEF IInv, TypeOK, Join, Leads
  <2>2. CASE d = c
    <3>1. <<rpc[c], i>> \in Key /\ in_flight[<<rpc[c], i>>] # None
      BY Distinct, Zenon DEF IInv, TypeOK, Join, KeyOf, Key
    <3>2. PICK e \in Callers : pc[e] = "requesting" /\ flight[e] = in_flight[<<rpc[c], i>>]
      BY <3>1, Zenon DEF IInv, EntryHasLeader
    <3>3. Leads(e)' /\ flight'[e] = flight[e]
      BY <2>1, <3>2, Zenon DEF Leads
    <3> QED
      BY <2>2, <3>2, <3>3, Zenon DEF IInv, TypeOK, Join, KeyOf
  <2>3. CASE d # c
    <3>1. Awaits(d) /\ flight'[d] = flight[d] /\ pc'[d] = pc[d] /\ result' = result
      BY <2>3, Zenon DEF IInv, TypeOK, Join, Awaits
    <3> QED
      BY <2>1, <3>1, Zenon DEF IInv, FollowerIsServed
  <2> QED
    BY <2>2, <2>3, Zenon
<1> QED
  BY <1>1, <1>2, <1>3, <1>4, <1>5, Zenon DEF IInv

\* A worker that becomes the leader keeps the invariant: nobody leads for its key.
LEMMA LeadPreserves ==
  ASSUME IInv, NEW c \in Callers, NEW i \in Inputs, Lead(c, i)
  PROVE  IInv'
<1>1. TypeOK'
  BY Distinct DEF IInv, Lead, CanLead, FreeFlights, KeyOf, Key, TypeOK, Result
<1> DEFINE k == <<rpc[c], i>>
<1>a. PICK f \in FreeFlights :
        /\ in_flight' = [in_flight EXCEPT ![k] = f]
        /\ flight' = [flight EXCEPT ![c] = f]
        /\ result' = [result EXCEPT ![f] = None]
  BY Zenon DEF Lead, KeyOf
<1>b. /\ k \in Key /\ f \in Flights
      /\ \A d \in Callers : flight[d] # f
      /\ \A j \in Key : in_flight[j] # f
      /\ responses[k] = None /\ in_flight[k] = None
  BY Distinct DEF IInv, TypeOK, Lead, CanLead, FreeFlights, KeyOf, Key
<1>c. /\ pc' = [pc EXCEPT ![c] = "requesting"] /\ reading' = [reading EXCEPT ![c] = i]
      /\ UNCHANGED <<responses, rpc, answer, seen>> /\ pc[c] = "idle"
  BY Zenon DEF Lead
<1>d. \A d \in Callers \ {c} :
        /\ pc'[d] = pc[d] /\ flight'[d] = flight[d] /\ reading'[d] = reading[d]
        /\ flight[d] \in Flights => result'[flight'[d]] = result[flight[d]]
  BY <1>a, <1>b, <1>c, Zenon DEF IInv, TypeOK
<1>2. (\A d \in Callers : Held(d))'
  <2> SUFFICES ASSUME NEW d \in Callers PROVE Held(d)'
    BY Zenon
  <2>1. CASE d = c
    BY <1>a, <1>b, <1>c, <2>1, Distinct, SMTT(30) DEF IInv, TypeOK, Held, Resolving, Key
  <2>2. CASE d # c
    <3>1. pc[d] = "requesting" => <<rpc[d], reading[d]>> \in Key /\ <<rpc[d], reading[d]>> # k
      BY <1>b, <2>2, Distinct DEF IInv, TypeOK, Held, Resolving, Key
    <3> QED
      BY <1>a, <1>b, <1>c, <1>d, <2>2, <3>1 DEF IInv, TypeOK, Held, Resolving
  <2> QED
    BY <2>1, <2>2, Zenon
<1>3. EntryHasLeader'
  <2> SUFFICES ASSUME NEW j \in Key, in_flight'[j] # None
               PROVE  /\ responses'[j] = None
                      /\ \E e \in Callers : /\ pc'[e] = "requesting" /\ flight'[e] = in_flight'[j]
                                            /\ <<rpc'[e], reading'[e]>> = j
    BY Zenon DEF EntryHasLeader
  <2>1. CASE j = k
    <3>1. in_flight'[k] = f /\ flight'[c] = f /\ pc'[c] = "requesting" /\ reading'[c] = i
      BY <1>a, <1>b, <1>c, Zenon DEF IInv, TypeOK
    <3> QED
      BY <1>b, <1>c, <2>1, <3>1, Zenon
  <2>2. CASE j # k
    <3>1. in_flight'[j] = in_flight[j]
      BY <1>a, <2>2, Zenon DEF IInv, TypeOK
    <3>2. PICK e \in Callers : /\ pc[e] = "requesting" /\ flight[e] = in_flight[j]
                               /\ <<rpc[e], reading[e]>> = j
      BY <3>1, Zenon DEF IInv, EntryHasLeader
    <3>3. e # c
      BY <1>c, <3>2, Zenon
    <3> QED
      BY <1>c, <1>d, <3>1, <3>2, <3>3, Zenon DEF IInv, EntryHasLeader
  <2> QED
    BY <2>1, <2>2, Zenon
<1>e. /\ flight'[c] = f /\ Leads(c)' /\ ~ Awaits(c)' /\ ~ Leads(c)
      /\ \A d \in Callers \ {c} : /\ flight'[d] # f
                                  /\ Leads(d)' = Leads(d) /\ Awaits(d)' = Awaits(d)
  BY <1>a, <1>b, <1>c, <1>d, Zenon DEF IInv, TypeOK, Leads, Awaits
<1>4. OneLeader'
  BY <1>c, <1>d, <1>e, SMTT(30) DEF IInv, OneLeader
<1>5. FollowerIsServed'
  <2> SUFFICES ASSUME NEW d \in Callers, Awaits(d)'
               PROVE  \/ \E e \in Callers : Leads(e)' /\ flight'[e] = flight'[d]
                      \/ pc'[d] = "following" /\ result'[flight'[d]] # None
    BY Zenon DEF FollowerIsServed
  <2>1. d # c /\ Awaits(d)
    BY <1>e, Zenon
  <2>2. flight[d] \in Flights
    BY <2>1, Zenon DEF IInv, Held, Resolving, Awaits
  <2>3. CASE \E e \in Callers : Leads(e) /\ flight[e] = flight[d]
    BY <1>d, <1>e, <2>1, <2>3, Zenon
  <2>4. CASE pc[d] = "following" /\ result[flight[d]] # None
    BY <1>d, <2>1, <2>2, <2>4, Zenon
  <2> QED
    BY <2>1, <2>3, <2>4, Zenon DEF IInv, FollowerIsServed
<1> QED
  BY <1>1, <1>2, <1>3, <1>4, <1>5, Zenon DEF IInv

--------------------------------------------------------------------------------
\* What Settle does to the cache: nothing, or one insertion after an eviction.
LEMMA SettleInserts ==
  ASSUME IInv, NEW c \in Callers, NEW reply \in Replies, Settle(c, reply)
  PROVE  LET k == <<rpc[c], reading[c]>>
             r == ToResult(reply)
         IN  /\ k \in Key
             /\ \/ r = Failed /\ UNCHANGED <<newest_block_number, responses>>
                \/ \E newest \in Nat :
                     /\ r \in Response /\ newest_block_number' = newest
                     /\ newest >= newest_block_number /\ newest >= rpc[c].number
                     /\ newest \in {newest_block_number, rpc[c].number}
                     /\ responses' = [Evict(responses, newest) EXCEPT ![k] = r]
<1> DEFINE newest == IF rpc[c].number > newest_block_number THEN rpc[c].number
                     ELSE newest_block_number
<1>1. <<rpc[c], reading[c]>> \in Key /\ rpc[c] \in Scopes
  BY Zenon DEF Settle, IInv, Held, Resolving, Key
<1>2. rpc[c].number \in Nat /\ newest_block_number \in Nat
  BY <1>1, ConstantAssumption, Zenon DEF IInv, TypeOK
<1>3. /\ newest \in Nat /\ newest >= newest_block_number /\ newest >= rpc[c].number
      /\ newest \in {newest_block_number, rpc[c].number}
  BY <1>2
<1>4. CASE ToResult(reply) = Failed
  BY <1>1, <1>4, Zenon DEF Settle, KeyOf
<1>5. CASE ToResult(reply) # Failed
  <2>1. /\ newest_block_number' = newest
        /\ responses' = [Evict(responses, newest) EXCEPT ![<<rpc[c], reading[c]>>] = ToResult(reply)]
    BY <1>5, Zenon DEF Settle, KeyOf
  <2>2. ToResult(reply) \in Response
    BY <1>5, ToResultType, Zenon DEF Result
  <2> HIDE DEF newest
  <2> QED
    BY <1>1, <1>3, <2>1, <2>2, ZenonT(30)
<1> QED
  BY <1>4, <1>5, Zenon

\* The leader's second critical section keeps the invariant: it takes the key out of
\* in_flight and caches what upstream answered.
LEMMA SettlePreserves ==
  ASSUME IInv, NEW c \in Callers, NEW reply \in Replies, Settle(c, reply)
  PROVE  IInv'
<1> DEFINE k == <<rpc[c], reading[c]>>
           r == ToResult(reply)
<1>a. /\ pc[c] = "requesting" /\ k \in Key /\ rpc[c] \in Scopes /\ flight[c] \in Flights
      /\ in_flight[k] = flight[c] /\ result[flight[c]] = None
  BY Zenon DEF Settle, IInv, Held, Resolving, Key
<1>b. /\ in_flight' = [in_flight EXCEPT ![k] = None]
      /\ answer' = [answer EXCEPT ![c] = r]
      /\ pc' = [pc EXCEPT ![c] = "publishing"]
      /\ UNCHANGED <<result, rpc, reading, flight, seen>>
  BY Zenon DEF Settle, KeyOf
<1>c. r \in Result
  BY ToResultType, Zenon
<1>e. /\ newest_block_number' \in Nat
      /\ responses' \in [Key -> Response \union {None}]
      /\ \A j \in Key : j # k => responses'[j] \in {responses[j], None}
      /\ r # Failed => responses'[k] = r
      /\ r = Failed => responses' = responses
  <2>1. CASE r = Failed
    <3>1. UNCHANGED <<newest_block_number, responses>>
      BY <2>1, Distinct, SettleInserts, Zenon
    <3> QED
      BY <2>1, <3>1, Zenon DEF IInv, TypeOK
  <2>2. CASE r # Failed
    <3>1. PICK newest \in Nat :
            /\ r \in Response /\ newest_block_number' = newest
            /\ responses' = [Evict(responses, newest) EXCEPT ![k] = r]
      BY <2>2, SettleInserts, Zenon
    <3>2. /\ Evict(responses, newest) \in [Key -> Response \union {None}]
          /\ \A j \in Key : Evict(responses, newest)[j] \in {responses[j], None}
      BY EvictRemoves, Zenon DEF IInv, TypeOK
    <3> HIDE DEF r, k
    <3> QED
      BY <1>a, <2>2, <3>1, <3>2, Zenon DEF IInv, TypeOK
  <2> QED
    BY <2>1, <2>2, Zenon
<1> HIDE DEF r
<1>f. \A d \in Callers \ {c} : pc'[d] = pc[d] /\ answer'[d] = answer[d]
  BY <1>b, Zenon DEF IInv, TypeOK
<1>g. pc'[c] = "publishing" /\ answer'[c] = r
  BY <1>b, Zenon DEF IInv, TypeOK
<1>1. TypeOK'
  BY <1>b, <1>c, <1>e, Zenon DEF IInv, TypeOK
<1>2. (\A d \in Callers : Held(d))'
  <2> SUFFICES ASSUME NEW d \in Callers PROVE Held(d)'
    BY Zenon
  <2>1. CASE d = c
    BY <1>a, <1>b, <1>c, <1>g, <2>1, Zenon DEF IInv, Held, Resolving
  <2>2. CASE d # c
    <3>1. Held(d) /\ pc'[d] = pc[d] /\ answer'[d] = answer[d]
      BY <1>f, <2>2, Zenon DEF IInv
    <3>2. pc[d] = "requesting" => in_flight'[<<rpc[d], reading[d]>>] = in_flight[<<rpc[d], reading[d]>>]
      <4> SUFFICES ASSUME pc[d] = "requesting"
                   PROVE  <<rpc[d], reading[d]>> \in Key /\ <<rpc[d], reading[d]>> # k
        BY <1>b, Zenon DEF IInv, TypeOK
      <4>1. <<rpc[d], reading[d]>> \in Key
        BY <3>1, Zenon DEF Held, Resolving, Key
      <4>2. flight[d] # flight[c]
        BY <1>a, <2>2, Zenon DEF IInv, OneLeader, Leads
      <4> QED
        BY <1>a, <3>1, <4>1, <4>2, Zenon DEF Held
    <3> QED
      BY <1>b, <3>1, <3>2, Zenon DEF Held, Resolving
  <2> QED
    BY <2>1, <2>2, Zenon
<1>3. EntryHasLeader'
  <2> SUFFICES ASSUME NEW j \in Key, in_flight'[j] # None
               PROVE  /\ responses'[j] = None
                      /\ \E e \in Callers : /\ pc'[e] = "requesting" /\ flight'[e] = in_flight'[j]
                                            /\ <<rpc'[e], reading'[e]>> = j
    BY Zenon DEF EntryHasLeader
  <2>1. j # k /\ in_flight'[j] = in_flight[j]
    BY <1>a, <1>b, Zenon DEF IInv, TypeOK
  <2>2. PICK e \in Callers : /\ pc[e] = "requesting" /\ flight[e] = in_flight[j]
                             /\ <<rpc[e], reading[e]>> = j /\ responses[j] = None
    BY <2>1, Zenon DEF IInv, EntryHasLeader
  <2>3. e # c
    BY <2>1, <2>2, Zenon
  <2> QED
    BY <1>b, <1>e, <1>f, <2>1, <2>2, <2>3, Zenon
<1>4. OneLeader'
  <2>1. \A d \in Callers : Leads(d)' = Leads(d) /\ Awaits(d)' = Awaits(d)
    BY <1>a, <1>f, <1>g, SMTT(30) DEF Leads, Awaits
  <2> QED
    BY <1>b, <2>1, Zenon DEF IInv, OneLeader
<1>5. FollowerIsServed'
  <2>1. \A d \in Callers : Leads(d)' = Leads(d) /\ Awaits(d)' = Awaits(d)
    BY <1>a, <1>f, <1>g DEF Leads, Awaits
  <2>2. \A d \in Callers : pc[d] = "following" => pc'[d] = "following"
    BY <1>a, <1>f, Zenon
  <2> QED
    BY <1>b, <2>1, <2>2, Zenon DEF IInv, FollowerIsServed
<1> QED
  BY <1>1, <1>2, <1>3, <1>4, <1>5, Zenon DEF IInv

\* The leader's write to the InFlight keeps the invariant: the followers of it have
\* the leader's key.
LEMMA PublishPreserves ==
  ASSUME IInv, NEW c \in Callers, Publish(c)
  PROVE  IInv'
<1>1. TypeOK'
  BY Distinct, Zenon DEF IInv, Publish, TypeOK, Result
<1>a. /\ pc[c] = "publishing" /\ flight[c] \in Flights /\ answer[c] \in Result
      /\ result' = [result EXCEPT ![flight[c]] = answer[c]]
      /\ pc' = [pc EXCEPT ![c] = "notifying"]
      /\ UNCHANGED <<in_flight, rpc, reading, flight, answer, seen>>
  BY Zenon DEF Publish, IInv, Held, Resolving
<1>2. (\A d \in Callers : Held(d))'
  <2> SUFFICES ASSUME NEW d \in Callers PROVE Held(d)'
    BY Zenon
  <2>1. CASE d = c
    <3>1. pc'[d] = "notifying" /\ result'[flight[d]] = answer[d]
      BY <1>a, <2>1, Zenon DEF IInv, TypeOK
    <3> QED
      BY <1>a, <2>1, <3>1, Zenon DEF IInv, Held, Resolving
  <2>2. CASE d # c
    <3>1. pc'[d] = pc[d]
      BY <1>a, <2>2, Zenon DEF IInv, TypeOK
    <3>2. Leads(d) => flight[d] \in Flights /\ flight[d] # flight[c]
      BY <1>a, <2>2, Zenon DEF IInv, OneLeader, Leads, Held, Resolving
    <3>3. Leads(d) => result'[flight[d]] = result[flight[d]]
      BY <1>a, <3>2, Zenon DEF IInv, TypeOK
    <3> QED
      BY <1>a, <3>1, <3>3 DEF IInv, Held, Resolving, Leads
  <2> QED
    BY <2>1, <2>2, Zenon
<1>3. EntryHasLeader'
  BY Distinct, Zenon DEF IInv, Publish, TypeOK, Held, Resolving, EntryHasLeader
<1>4. OneLeader'
  BY Distinct, SMTT(30) DEF IInv, Publish, TypeOK, Held, Resolving, EntryHasLeader, OneLeader, Leads, Awaits
<1>5. FollowerIsServed'
  BY Distinct DEF IInv, Publish, TypeOK, Held, Resolving, OneLeader, FollowerIsServed, Leads, Awaits
<1> QED
  BY <1>1, <1>2, <1>3, <1>4, <1>5, Zenon DEF IInv

\* The wakeup of all followers keeps the invariant: none of them still waits.
LEMMA NotifyAllPreserves ==
  ASSUME IInv, NEW c \in Callers, NotifyAll(c)
  PROVE  IInv'
<1>1. TypeOK'
  BY Distinct, ZenonT(30) DEF IInv, NotifyAll, Return, TypeOK, Result
<1>2. (\A d \in Callers : Held(d))'
  BY Distinct, SMTT(30) DEF IInv, NotifyAll, Return, TypeOK, Held, Resolving
<1>3. EntryHasLeader'
  <2> SUFFICES ASSUME NEW j \in Key, in_flight[j] # None
               PROVE  /\ responses[j] = None
                      /\ \E e \in Callers : /\ pc'[e] = "requesting" /\ flight'[e] = in_flight[j]
                                            /\ <<rpc'[e], reading'[e]>> = j
    BY Zenon DEF EntryHasLeader, NotifyAll
  <2>1. PICK e \in Callers : /\ pc[e] = "requesting" /\ flight[e] = in_flight[j]
                             /\ <<rpc[e], reading[e]>> = j /\ responses[j] = None
    BY Zenon DEF IInv, EntryHasLeader
  <2>2. e # c
    BY <2>1, Zenon DEF NotifyAll
  <2>3. pc'[e] = pc[e] /\ flight'[e] = flight[e] /\ rpc'[e] = rpc[e] /\ reading'[e] = reading[e]
    BY <2>1, <2>2, Zenon DEF IInv, TypeOK, NotifyAll, Return
  <2> QED
    BY <2>1, <2>3, Zenon
<1>4. OneLeader'
  <2>1. \A d \in Callers :
          /\ Leads(d)' => d # c /\ Leads(d)
          /\ Awaits(d)' => d # c /\ Awaits(d)
          /\ d # c => rpc'[d] = rpc[d] /\ reading'[d] = reading[d] /\ flight'[d] = flight[d]
    BY Zenon DEF IInv, TypeOK, NotifyAll, Return, Leads, Awaits
  <2> QED
    BY <2>1 DEF IInv, OneLeader
<1>5. FollowerIsServed'
  <2> SUFFICES ASSUME NEW d \in Callers, Awaits(d)'
               PROVE  \/ \E e \in Callers : Leads(e)' /\ flight'[e] = flight'[d]
                      \/ pc'[d] = "following" /\ result'[flight'[d]] # None
    BY Zenon DEF FollowerIsServed
  <2>1. /\ result' = result /\ pc'[c] = "idle"
        /\ result[flight[c]] = answer[c] /\ answer[c] # None
    BY Distinct, ZenonT(30) DEF IInv, TypeOK, NotifyAll, Return, Held, Result
  <2>2. \A e \in Callers : e # c =>
          /\ flight'[e] = flight[e]
          /\ pc'[e] = IF pc[e] = "parked" /\ flight[e] = flight[c] THEN "following" ELSE pc[e]
    BY Zenon DEF IInv, TypeOK, NotifyAll, Return
  <2>3. d # c /\ Awaits(d)
    BY <2>1, <2>2, Zenon DEF Awaits
  <2>4. CASE flight[d] = flight[c]
    <3>1. pc'[d] = "following"
      BY <2>2, <2>3, <2>4, Zenon DEF Awaits
    <3> QED
      BY <2>1, <2>2, <2>3, <2>4, <3>1, Zenon
  <2>5. ASSUME flight[d] # flight[c], NEW e \in Callers, Leads(e), flight[e] = flight[d]
        PROVE  Leads(e)' /\ flight'[e] = flight'[d]
    BY <2>2, <2>3, <2>5, Zenon DEF Leads
  <2>6. CASE pc[d] = "following" /\ result[flight[d]] # None
    BY <2>1, <2>2, <2>3, <2>6, Zenon
  <2> QED
    BY <2>3, <2>4, <2>5, <2>6, Zenon DEF IInv, FollowerIsServed
<1> QED
  BY <1>1, <1>2, <1>3, <1>4, <1>5, Zenon DEF IInv

\* A follower that waits on the condvar keeps the invariant: its leader has yet to
\* notify.
LEMMA ParkPreserves ==
  ASSUME IInv, NEW c \in Callers, Park(c)
  PROVE  IInv'
<1>1. TypeOK'
  BY Distinct, Zenon DEF IInv, Park, TypeOK, Result
<1>2. (\A d \in Callers : Held(d))'
  BY Distinct, SMTT(30) DEF IInv, Park, TypeOK, Held, Resolving
<1>3. EntryHasLeader'
  BY Distinct, SMTT(30) DEF IInv, Park, TypeOK, Held, Resolving, EntryHasLeader
<1>4. OneLeader'
  BY Distinct, SMTT(30) DEF IInv, Park, TypeOK, Held, Resolving, EntryHasLeader, OneLeader, Leads, Awaits
<1>5. FollowerIsServed'
  BY Distinct, SMTT(30) DEF IInv, Park, TypeOK, Held, Resolving, OneLeader, FollowerIsServed, Leads, Awaits
<1> QED
  BY <1>1, <1>2, <1>3, <1>4, <1>5, Zenon DEF IInv

\* A spurious wakeup keeps the invariant.
LEMMA SpuriousWakePreserves ==
  ASSUME IInv, NEW c \in Callers, SpuriousWake(c)
  PROVE  IInv'
<1>1. TypeOK'
  BY Distinct, Zenon DEF IInv, SpuriousWake, TypeOK, Result
<1>2. (\A d \in Callers : Held(d))'
  BY Distinct, SMTT(30) DEF IInv, SpuriousWake, TypeOK, Held, Resolving
<1>3. EntryHasLeader'
  BY Distinct, Zenon DEF IInv, SpuriousWake, TypeOK, Held, Resolving, EntryHasLeader
<1>4. OneLeader'
  BY Distinct DEF IInv, SpuriousWake, TypeOK, Held, Resolving, EntryHasLeader, OneLeader, Leads, Awaits
<1>5. FollowerIsServed'
  <2>1. /\ UNCHANGED <<flight, result>>
        /\ \A d \in Callers : /\ Leads(d)' = Leads(d) /\ Awaits(d)' = Awaits(d)
                              /\ pc[d] = "following" => pc'[d] = "following"
    BY DEF IInv, TypeOK, SpuriousWake, Leads, Awaits
  <2> QED
    BY <2>1, ZenonT(30) DEF IInv, FollowerIsServed
<1> QED
  BY <1>1, <1>2, <1>3, <1>4, <1>5, Zenon DEF IInv

\* A follower that takes the published result keeps the invariant.
LEMMA FollowerReturnPreserves ==
  ASSUME IInv, NEW c \in Callers, FollowerReturn(c)
  PROVE  IInv'
<1>a. reading[c] \in Inputs /\ result[flight[c]] \in Result
  <2>1. pc[c] = "following" /\ result[flight[c]] # None
    BY Zenon DEF FollowerReturn
  <2>2. reading[c] \in Inputs /\ flight[c] \in Flights
    BY <2>1, Zenon DEF IInv, Held, Resolving
  <2> QED
    BY <2>1, <2>2, Zenon DEF IInv, TypeOK
<1>b. seen' \in [Callers -> [Inputs -> Response \union {None}]]
  BY <1>a, ReturnType, Zenon DEF FollowerReturn
<1>1. TypeOK'
  BY <1>b, Zenon DEF IInv, TypeOK, FollowerReturn, Return
<1>2. (\A d \in Callers : Held(d))'
  BY Distinct, SMTT(30) DEF IInv, FollowerReturn, Return, TypeOK, Held, Resolving
<1>3. EntryHasLeader'
  <2> SUFFICES ASSUME NEW j \in Key, in_flight[j] # None
               PROVE  /\ responses[j] = None
                      /\ \E e \in Callers : /\ pc'[e] = "requesting" /\ flight'[e] = in_flight[j]
                                            /\ <<rpc'[e], reading'[e]>> = j
    BY Zenon DEF EntryHasLeader, FollowerReturn
  <2>1. PICK e \in Callers : /\ pc[e] = "requesting" /\ flight[e] = in_flight[j]
                             /\ <<rpc[e], reading[e]>> = j /\ responses[j] = None
    BY Zenon DEF IInv, EntryHasLeader
  <2>2. e # c
    BY <2>1, Zenon DEF FollowerReturn
  <2>3. pc'[e] = pc[e] /\ flight'[e] = flight[e] /\ rpc'[e] = rpc[e] /\ reading'[e] = reading[e]
    BY <2>1, <2>2, Zenon DEF IInv, TypeOK, FollowerReturn, Return
  <2> QED
    BY <2>1, <2>3, Zenon
<1>4. OneLeader'
  <2>1. \A d \in Callers :
          /\ Leads(d)' => d # c /\ Leads(d)
          /\ Awaits(d)' => d # c /\ Awaits(d)
          /\ d # c => rpc'[d] = rpc[d] /\ reading'[d] = reading[d] /\ flight'[d] = flight[d]
    BY Zenon DEF IInv, TypeOK, FollowerReturn, Return, Leads, Awaits
  <2> QED
    BY <2>1 DEF IInv, OneLeader
<1>5. FollowerIsServed'
  <2> SUFFICES ASSUME NEW d \in Callers, Awaits(d)'
               PROVE  \/ \E e \in Callers : Leads(e)' /\ flight'[e] = flight'[d]
                      \/ pc'[d] = "following" /\ result'[flight'[d]] # None
    BY Zenon DEF FollowerIsServed
  <2>1. /\ result' = result /\ pc'[c] = "idle" /\ ~ Leads(c)
        /\ \A e \in Callers : e # c => pc'[e] = pc[e] /\ flight'[e] = flight[e]
    BY Zenon DEF IInv, TypeOK, FollowerReturn, Return, Leads
  <2>2. d # c /\ Awaits(d)
    BY <2>1, Zenon DEF Awaits
  <2>3. CASE \E e \in Callers : Leads(e) /\ flight[e] = flight[d]
    BY <2>1, <2>2, <2>3, ZenonT(30) DEF Leads
  <2>4. CASE pc[d] = "following" /\ result[flight[d]] # None
    BY <2>1, <2>2, <2>4, Zenon
  <2> QED
    BY <2>2, <2>3, <2>4, ZenonT(30) DEF IInv, FollowerIsServed
<1> QED
  BY <1>1, <1>2, <1>3, <1>4, <1>5, Zenon DEF IInv

--------------------------------------------------------------------------------
\* Every step of the forwarder keeps the invariant.
LEMMA Inductive == IInv /\ [Next]_vars => IInv'
<1> SUFFICES ASSUME IInv, [Next]_vars PROVE IInv'
  BY Zenon
<1>1. CASE UNCHANGED vars
  <2> USE <1>1 DEF vars, IInv
  <2>1. TypeOK'
    BY Zenon DEF TypeOK
  <2>5. (\A c \in Callers : Held(c))'
    BY ZenonT(30) DEF Held, Resolving
  <2>2. EntryHasLeader' /\ OneLeader'
    BY Zenon DEF EntryHasLeader, OneLeader, Leads, Awaits
  <2>4. FollowerIsServed'
    BY Zenon DEF FollowerIsServed, Leads, Awaits
  <2> QED
    BY <2>1, <2>2, <2>4, <2>5, Zenon
<1>2. ASSUME NEW c \in Callers, NEW s \in Scopes, BeginRpc(c, s) PROVE IInv'
  BY <1>2, BeginRpcPreserves, Zenon
<1>3. ASSUME NEW c \in Callers, EndRpc(c) PROVE IInv'
  BY <1>3, EndRpcPreserves, Zenon
<1>4. ASSUME NEW c \in Callers, NEW i \in Inputs, Hit(c, i) \/ Join(c, i) \/ Lead(c, i) PROVE IInv'
  BY <1>4, HitPreserves, JoinPreserves, LeadPreserves, Zenon
<1>5. ASSUME NEW c \in Callers, Progress(c) PROVE IInv'
  BY <1>5, SettlePreserves, PublishPreserves, NotifyAllPreserves, ParkPreserves,
     FollowerReturnPreserves, Zenon DEF Progress
<1>6. ASSUME NEW c \in Callers, SpuriousWake(c) PROVE IInv'
  BY <1>6, SpuriousWakePreserves, Zenon
<1> QED
  BY <1>1, <1>2, <1>3, <1>4, <1>5, <1>6, Zenon DEF Next

\* The inductive invariant holds in every reachable state of the forwarder.
THEOREM Invariance == Spec => []IInv
BY InitHolds, Inductive, PTL DEF Spec

\* Type correctness, with no error ever in the cache.
THEOREM TypeCorrect == Spec => []TypeOK
<1>1. IInv => TypeOK
  BY Zenon DEF IInv
<1> QED
  BY <1>1, Invariance, PTL

\* No two workers ever have a request for the same key outstanding.
THEOREM OneRequestPerKey == Spec => []SingleFlight
<1>1. IInv => SingleFlight
  <2> SUFFICES ASSUME IInv PROVE SingleFlight
    BY Zenon
  <2>1. ASSUME NEW c \in Callers, NEW d \in Callers,
               pc[c] = "requesting", pc[d] = "requesting", rpc[c] = rpc[d], reading[c] = reading[d]
        PROVE  c = d
    <3>1. flight[c] = flight[d]
      BY <2>1, ZenonT(30) DEF IInv, Held
    <3> QED
      BY <2>1, <3>1, Zenon DEF IInv, OneLeader, Leads
  <2> QED
    BY <2>1, Zenon DEF IInv, SingleFlight, EntryHasLeader
<1> QED
  BY <1>1, Invariance, PTL

\* No follower ever waits on a condvar that nobody will notify.
THEOREM WakeupsAreNotLost == Spec => []NoLostWakeup
<1>1. IInv => NoLostWakeup
  BY Zenon DEF IInv, FollowerIsServed, Awaits, NoLostWakeup
<1> QED
  BY <1>1, Invariance, PTL

--------------------------------------------------------------------------------
\* Only Settle writes the cache and the newest block number.
LEMMA OnlySettleWrites ==
  ASSUME [Next]_vars, ~ \E c \in Callers, reply \in Replies : Settle(c, reply)
  PROVE  UNCHANGED <<newest_block_number, responses>>
BY ZenonT(30) DEF Next, vars, BeginRpc, EndRpc, Hit, Join, Lead, Progress, Publish, NotifyAll,
   Park, FollowerReturn, SpuriousWake

\* A cached response is only ever evicted, never replaced by another one.
LEMMA CachedIsOnlyEvicted ==
  ASSUME IInv, [Next]_vars, NEW k \in Key, responses[k] # None
  PROVE  responses'[k] \in {responses[k], None}
<1>1. CASE \E c \in Callers, reply \in Replies : Settle(c, reply)
  <2>1. PICK c \in Callers, reply \in Replies : Settle(c, reply)
    BY <1>1, Zenon
  <2>2. k # <<rpc[c], reading[c]>>
    <3>1. pc[c] = "requesting" /\ in_flight[<<rpc[c], reading[c]>>] = flight[c]
      BY <2>1, ZenonT(30) DEF IInv, Settle, Held
    <3>2. flight[c] # None /\ <<rpc[c], reading[c]>> \in Key
      BY <2>1, <3>1, Distinct, Zenon DEF IInv, Held, Resolving, Key
    <3> QED
      BY <3>1, <3>2, Zenon DEF IInv, EntryHasLeader
  <2>3. CASE UNCHANGED responses
    BY <2>3, Zenon
  <2>4. CASE \E newest \in Nat, r \in Response :
               responses' = [Evict(responses, newest) EXCEPT ![<<rpc[c], reading[c]>>] = r]
    BY <2>2, <2>4, EvictRemoves, ZenonT(30) DEF IInv, TypeOK
  <2> QED
    BY <2>1, <2>3, <2>4, SettleInserts, Zenon
<1>2. CASE ~ \E c \in Callers, reply \in Replies : Settle(c, reply)
  BY <1>2, OnlySettleWrites, Zenon
<1> QED
  BY <1>1, <1>2, Zenon

\* A cached response is never overwritten by another one (settling twice for one
\* key would do it).
THEOREM CachedResponsesStay == Spec => CachedResponseStable
<1>1. IInv /\ [Next]_vars =>
        [\A k \in Key : responses[k] # None => responses'[k] \in {responses[k], None}]_vars
  BY CachedIsOnlyEvicted, Zenon
<1> QED
  BY <1>1, Invariance, PTL DEF Spec, CachedResponseStable

================================================================================
