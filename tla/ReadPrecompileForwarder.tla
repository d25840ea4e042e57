------------------------ MODULE ReadPrecompileForwarder ------------------------
(***************************************************************************)
(* The read precompile forwarder of src/src/node/evm/                      *)
(* read_precompile_forwarder.rs.  Blocking RPC workers (Callers) run RPC   *)
(* requests; each request is pinned to one scope, the (block number, head  *)
(* hash) pair its EVM was built for, and reads inputs one after another.   *)
(* A read is answered from the cache, or joins the request another worker  *)
(* has in flight for the same key, or leads a request of its own.          *)
(***************************************************************************)
EXTENDS Integers, FiniteSets

CONSTANTS
  Callers,          \* blocking RPC workers
  Scopes,           \* (block number, head hash) pairs an RPC can be pinned to
  Inputs,           \* (precompile address, input bytes) pairs
  Flights,          \* the InFlight allocations that can be alive at once
  Outputs,          \* byte strings a precompile can return
  Hashes,           \* head hashes
  Rejected,         \* Response::Rejected
  Failed,           \* an Err of request, as published to the followers
  None,             \* Option::None
  MaxCacheEntries   \* MAX_CACHE_ENTRIES

Key == Scopes \X Inputs

\* What one upstream request can come to: output bytes, an error object whose
\* code and message say that the precompile refused the input, an error object
\* that matches only one of the two, a transport error, or no answer in time.
Replies ==
  Outputs \union {"execution error naming PrecompileError",
                  "execution error of another kind",
                  "other error naming PrecompileError",
                  "transport error", "timeout"}

Response == Outputs \union {Rejected}
Result == Response \union {Failed}

ASSUME ConstantAssumption ==
  /\ Scopes \subseteq [number : Nat, hash : Hashes]
  /\ IsFiniteSet(Scopes) /\ IsFiniteSet(Inputs)
  /\ MaxCacheEntries \in Nat \ {0}
  /\ Rejected \notin Outputs /\ Failed \notin Response
  /\ None \notin Result \union Flights \union Inputs \union Scopes
  /\ Outputs \cap (Replies \ Outputs) = {}

VARIABLES
  newest_block_number,  \* Cache::newest_block_number
  responses,            \* Cache::responses, None where the map has no entry
  in_flight,            \* Cache::in_flight, None where the map has no entry
  result,               \* InFlight::result of every allocation
  pc,                   \* where each worker is inside resolve
  rpc,                  \* the scope of the request a worker is serving
  reading,              \* the input a worker is resolving
  flight,               \* the InFlight a worker holds an Arc of
  answer,               \* the leader's local result
  seen                  \* what the current request has read for each input

vars == <<newest_block_number, responses, in_flight, result, pc, rpc, reading,
          flight, answer, seen>>

Init ==
  /\ newest_block_number = 0
  /\ responses = [k \in Key |-> None]
  /\ in_flight = [k \in Key |-> None]
  /\ result = [f \in Flights |-> None]
  /\ pc = [c \in Callers |-> "idle"]
  /\ rpc = [c \in Callers |-> None]
  /\ reading = [c \in Callers |-> None]
  /\ flight = [c \in Callers |-> None]
  /\ answer = [c \in Callers |-> None]
  /\ seen = [c \in Callers |-> [i \in Inputs |-> None]]

--------------------------------------------------------------------------------
KeyOf(s, i) == <<s, i>>

\* Size of the responses map.
Len_(cached) == Cardinality({k \in Key : cached[k] # None})

\* What request makes of the upstream's reply; only a refused input is an
\* answer, every other failure is an error (is_rejected_input).
ToResult(reply) ==
  IF reply \in Outputs THEN reply
  ELSE IF reply = "execution error naming PrecompileError" THEN Rejected
  ELSE Failed

EvictNewestToo(cached, newest) ==
  IF Len_(cached) < MaxCacheEntries THEN cached
  ELSE [k \in Key |-> IF k[1].number > newest THEN cached[k] ELSE None]

\* Make room in a full cache: first drop the blocks the chain has moved past,
\* then, if that frees nothing, everything.
Evict(cached, newest) ==
  LET kept == [k \in Key |-> IF k[1].number >= newest THEN cached[k] ELSE None]
  IN  IF Len_(cached) < MaxCacheEntries THEN cached
      ELSE IF Len_(kept) < MaxCacheEntries THEN kept
      ELSE [k \in Key |-> None]

\* An allocation nobody holds an Arc of.
FreeFlights ==
  Flights \ ({in_flight[k] : k \in Key} \union {flight[c] : c \in Callers})

CanLeadUnlessCached(k) == responses[k] = None

CanLead(k) == responses[k] = None /\ in_flight[k] = None

\* resolve returns r for the input i on worker c.  A Fatal precompile error
\* aborts the whole RPC request.
Return(c, i, r) ==
  /\ reading' = [reading EXCEPT ![c] = None]
  /\ flight' = [flight EXCEPT ![c] = None]
  /\ answer' = [answer EXCEPT ![c] = None]
  /\ rpc' = IF r = Failed THEN [rpc EXCEPT ![c] = None] ELSE rpc
  /\ seen' = [seen EXCEPT ![c] =
                IF r = Failed THEN [j \in Inputs |-> None] ELSE [@ EXCEPT ![i] = r]]

--------------------------------------------------------------------------------
\* An RPC request starts on worker c, pinned to scope s.
BeginRpc(c, s) ==
  /\ pc[c] = "idle" /\ rpc[c] = None
  /\ rpc' = [rpc EXCEPT ![c] = s]
  /\ UNCHANGED <<newest_block_number, responses, in_flight, result, pc, reading,
                 flight, answer, seen>>

\* The request finishes.
EndRpc(c) ==
  /\ pc[c] = "idle" /\ rpc[c] # None
  /\ rpc' = [rpc EXCEPT ![c] = None]
  /\ seen' = [seen EXCEPT ![c] = [i \in Inputs |-> None]]
  /\ UNCHANGED <<newest_block_number, responses, in_flight, result, pc, reading,
                 flight, answer>>

HitAnyHead(c, i) ==
  \E k \in Key :
    /\ pc[c] = "idle" /\ rpc[c] # None
    /\ k[1].number = rpc[c].number /\ k[2] = i /\ responses[k] # None
    /\ Return(c, i, responses[k])
    /\ UNCHANGED <<newest_block_number, responses, in_flight, result, pc>>

\* resolve finds the response in the cache.
Hit(c, i) ==
  LET k == KeyOf(rpc[c], i)
  IN  /\ pc[c] = "idle" /\ rpc[c] # None
      /\ responses[k] # None
      /\ Return(c, i, responses[k])
      /\ UNCHANGED <<newest_block_number, responses, in_flight, result, pc>>

\* resolve finds a request in flight for the key and becomes a follower.
Join(c, i) ==
  LET k == KeyOf(rpc[c], i)
  IN  /\ pc[c] = "idle" /\ rpc[c] # None
      /\ responses[k] = None /\ in_flight[k] # None
      /\ pc' = [pc EXCEPT ![c] = "following"]
      /\ reading' = [reading EXCEPT ![c] = i]
      /\ flight' = [flight EXCEPT ![c] = in_flight[k]]
      /\ UNCHANGED <<newest_block_number, responses, in_flight, result, rpc,
                     answer, seen>>

\* resolve finds neither and becomes the leader of a fresh InFlight.
Lead(c, i) ==
  LET k == KeyOf(rpc[c], i)
  IN  /\ pc[c] = "idle" /\ rpc[c] # None
      /\ CanLead(k)
      /\ \E f \in FreeFlights :
           /\ in_flight' = [in_flight EXCEPT ![k] = f]
           /\ flight' = [flight EXCEPT ![c] = f]
           /\ result' = [result EXCEPT ![f] = None]
      /\ pc' = [pc EXCEPT ![c] = "requesting"]
      /\ reading' = [reading EXCEPT ![c] = i]
      /\ UNCHANGED <<newest_block_number, responses, rpc, answer, seen>>

SettleCachingErrors(c, reply) ==
  LET k == KeyOf(rpc[c], reading[c])
      r == ToResult(reply)
  IN  /\ pc[c] = "requesting"
      /\ in_flight' = [in_flight EXCEPT ![k] = None]
      /\ responses' = [responses EXCEPT ![k] = r]
      /\ answer' = [answer EXCEPT ![c] = r]
      /\ pc' = [pc EXCEPT ![c] = "publishing"]
      /\ UNCHANGED <<newest_block_number, result, rpc, reading, flight, seen>>

\* The leader's request comes back, and the leader settles the cache under its
\* lock: the key leaves in_flight, and a response (never an error) is cached.
Settle(c, reply) ==
  LET k == KeyOf(rpc[c], reading[c])
      r == ToResult(reply)
      newest == IF k[1].number > newest_block_number
                THEN k[1].number ELSE newest_block_number
  IN  /\ pc[c] = "requesting"
      /\ in_flight' = [in_flight EXCEPT ![k] = None]
      /\ IF r = Failed
         THEN UNCHANGED <<newest_block_number, responses>>
         ELSE /\ newest_block_number' = newest
              /\ responses' = [Evict(responses, newest) EXCEPT ![k] = r]
      /\ answer' = [answer EXCEPT ![c] = r]
      /\ pc' = [pc EXCEPT ![c] = "publishing"]
      /\ UNCHANGED <<result, rpc, reading, flight, seen>>

\* *in_flight.result.lock() = Some(result)
Publish(c) ==
  /\ pc[c] = "publishing"
  /\ result' = [result EXCEPT ![flight[c]] = answer[c]]
  /\ pc' = [pc EXCEPT ![c] = "notifying"]
  /\ UNCHANGED <<newest_block_number, responses, in_flight, rpc, reading, flight,
                 answer, seen>>

NotifyOnSuccess(c) ==
  LET woken == {d \in Callers : pc[d] = "parked" /\ flight[d] = flight[c] /\ answer[c] # Failed}
  IN  /\ pc[c] = "notifying"
      /\ pc' = [d \in Callers |-> IF d = c THEN "idle"
                                  ELSE IF d \in woken THEN "following" ELSE pc[d]]
      /\ Return(c, reading[c], answer[c])
      /\ UNCHANGED <<newest_block_number, responses, in_flight, result>>

\* in_flight.ready.notify_all(), and the leader returns.
NotifyAll(c) ==
  LET woken == {d \in Callers : pc[d] = "parked" /\ flight[d] = flight[c]}
  IN  /\ pc[c] = "notifying"
      /\ pc' = [d \in Callers |-> IF d = c THEN "idle"
                                  ELSE IF d \in woken THEN "following" ELSE pc[d]]
      /\ Return(c, reading[c], answer[c])
      /\ UNCHANGED <<newest_block_number, responses, in_flight, result>>

\* A follower finds no result under the InFlight's lock and waits on its condvar.
Park(c) ==
  /\ pc[c] = "following" /\ result[flight[c]] = None
  /\ pc' = [pc EXCEPT ![c] = "parked"]
  /\ UNCHANGED <<newest_block_number, responses, in_flight, result, rpc, reading,
                 flight, answer, seen>>

\* The condvar wakes a follower for no reason; the while loop looks again.
SpuriousWake(c) ==
  /\ pc[c] = "parked"
  /\ pc' = [pc EXCEPT ![c] = "following"]
  /\ UNCHANGED <<newest_block_number, responses, in_flight, result, rpc, reading,
                 flight, answer, seen>>

FollowerReturnsResponses(c) ==
  /\ pc[c] = "following" /\ result[flight[c]] \notin {None, Failed}
  /\ pc' = [pc EXCEPT ![c] = "idle"]
  /\ Return(c, reading[c], result[flight[c]])
  /\ UNCHANGED <<newest_block_number, responses, in_flight, result>>

\* A follower finds the leader's result and returns it.
FollowerReturn(c) ==
  /\ pc[c] = "following" /\ result[flight[c]] # None
  /\ pc' = [pc EXCEPT ![c] = "idle"]
  /\ Return(c, reading[c], result[flight[c]])
  /\ UNCHANGED <<newest_block_number, responses, in_flight, result>>

--------------------------------------------------------------------------------
\* What a worker inside resolve does next.
Progress(c) ==
  \/ \E reply \in Replies : Settle(c, reply)
  \/ Publish(c)
  \/ NotifyAll(c)
  \/ Park(c)
  \/ FollowerReturn(c)

Next ==
  \E c \in Callers :
    \/ \E s \in Scopes : BeginRpc(c, s)
    \/ EndRpc(c)
    \/ \E i \in Inputs : Hit(c, i) \/ Join(c, i) \/ Lead(c, i)
    \/ Progress(c)
    \/ SpuriousWake(c)

Spec == Init /\ [][Next]_vars

\* A worker is an OS thread, which runs; request always returns, because the
\* client times out and recv_timeout bounds the wait for it.
FairSpec == Spec /\ \A c \in Callers : WF_vars(Progress(c))

--------------------------------------------------------------------------------
\* Type correctness: an error is never in the cache, and a worker that is not
\* inside resolve holds nothing.
TypeOK ==
  /\ newest_block_number \in Nat
  /\ responses \in [Key -> Response \union {None}]
  /\ in_flight \in [Key -> Flights \union {None}]
  /\ result \in [Flights -> Result \union {None}]
  /\ pc \in [Callers -> {"idle", "requesting", "publishing", "notifying",
                         "following", "parked"}]
  /\ rpc \in [Callers -> Scopes \union {None}]
  /\ reading \in [Callers -> Inputs \union {None}]
  /\ flight \in [Callers -> Flights \union {None}]
  /\ answer \in [Callers -> Result \union {None}]
  /\ seen \in [Callers -> [Inputs -> Response \union {None}]]

\* The response cache never holds more than MAX_CACHE_ENTRIES entries, whatever
\* mix of old and new blocks fills it.
CacheBounded == Len_(responses) <= MaxCacheEntries

Leads(c) == pc[c] \in {"requesting", "publishing", "notifying"}

Awaits(c) == pc[c] \in {"following", "parked"}

\* Single flight: an entry of in_flight belongs to exactly one worker, the one
\* whose upstream request for that key is outstanding, and every outstanding
\* request has its entry, so no two workers ask upstream for the same key.
SingleFlight ==
  /\ \A c, d \in Callers :
       pc[c] = "requesting" /\ pc[d] = "requesting"
         /\ rpc[c] = rpc[d] /\ reading[c] = reading[d] => c = d
  /\ \A k \in Key : in_flight[k] # None =>
       \E c \in Callers : /\ pc[c] = "requesting" /\ flight[c] = in_flight[k]
                          /\ <<rpc[c], reading[c]>> = k

\* No lost wakeup: a worker parked on an InFlight's condvar always has a leader
\* of that InFlight that has still to notify it.
NoLostWakeup ==
  \A d \in Callers : pc[d] = "parked" =>
    \E c \in Callers : Leads(c) /\ flight[c] = flight[d]

\* A cached response is never overwritten by another one; it can only be evicted.
CachedResponseStable ==
  [][\A k \in Key : responses[k] # None => responses'[k] \in {responses[k], None}]_vars

\* A later read of the same RPC request gives what an earlier one gave.
SameReads(c) ==
  \A i \in Inputs : rpc[c] # None /\ rpc'[c] = rpc[c] /\ seen[c][i] # None
                     => seen'[c][i] = seen[c][i]

\* The keys of the blocks from n on all fit in the cache, with room to spare: an
\* insertion for an older block into a cache they fill would clear them too.
FitsFrom(n) == Cardinality({k \in Key : k[1].number >= n}) < MaxCacheEntries

\* All reads within one RPC request agree while the request is pinned to the
\* newest block and that block's keys fit in the cache, whatever other requests
\* make the cache evict.
ReadsAgreeAtHead ==
  [][\A c \in Callers :
       rpc[c] # None /\ rpc[c].number >= newest_block_number' /\ FitsFrom(rpc[c].number)
         => SameReads(c)]_vars

\* "Caching also makes all reads within one RPC request agree with each other":
\* the statement of the cache field's comment, without ReadsAgreeAtHead's proviso.
ReadsAgree == [][\A c \in Callers : SameReads(c)]_vars

\* Every read returns: leaders finish, and followers are woken and answered,
\* also when the request fails.
EveryReadReturns == \A c \in Callers : pc[c] # "idle" ~> pc[c] = "idle"
--------------------------------------------------------------------------------
\* The answer a worker inside resolve is bound to return: what it got itself, what
\* its InFlight holds, or what the leader of its InFlight is about to publish.
Heard(c) ==
  IF pc[c] \in {"publishing", "notifying"} THEN answer[c]
  ELSE IF ~ Awaits(c) THEN None
  ELSE IF \E d \in Callers : pc[d] = "publishing" /\ flight[d] = flight[c]
       THEN answer[CHOOSE d \in Callers : pc[d] = "publishing" /\ flight[d] = flight[c]]
  ELSE result[flight[c]]

Reads == INSTANCE SharedReads
           WITH memo <- responses,
                asking <- {k \in Key : in_flight[k] # None},
                heard <- [c \in Callers |-> Heard(c)]

\* The forwarder implements SharedReads: whatever the order in which leaders settle,
\* publish and notify and followers park and wake, and although the lock of the cache
\* and the lock of the InFlight are never held together, all workers waiting for a key
\* return the answer of the one request outstanding for it when they came.
ImplementsSharedReads == Reads!Spec
================================================================================
