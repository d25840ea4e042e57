--------------------------- MODULE BlockImportProofs ---------------------------
(***************************************************************************)
(* Proofs about BlockImport, for any blocks, any number of announcements   *)
(* and any scenarios: its types, the order in which the engine hears of    *)
(* payloads and fork choices, and where the head goes while blocks arrive  *)
(* one at a time.                                                          *)
(***************************************************************************)
EXTENDS BlockImport, FiniteSetTheorems, TLAPS

--------------------------------------------------------------------------------
\* The inductive invariant.

AllBlocks == Blocks \union {Genesis}

EngineRequests == [fut : Futures, hash : Nat]

Payload(n) == <<"new_payload", n>>
ForkChoice(n) == <<"update_fork_choice", n>>

\* The engine has not answered the future yet.
Requested(f) == \E i \in 1..Len(requests) : requests[i].fut = f

Types ==
  /\ scenario \in Scenarios
  /\ announced \in Seq(Blocks) /\ Len(announced) <= MaxAnnounced
  /\ from_network \in Seq(1..MaxAnnounced)
  /\ pending_imports \subseteq Futures /\ ready \in Seq(Futures)
  /\ answers \in [Futures -> Statuses \union {"none"}]
  /\ requests \in Seq(EngineRequests) /\ sent \in Seq(EngineRequests)
  /\ pc \in {"parked", "polling", "failed"} /\ woken \in BOOLEAN
  /\ tree \subseteq AllBlocks /\ best \in tree
  /\ to_network \subseteq [fut : Futures, ok : BOOLEAN]
  /\ backfilling \in BOOLEAN /\ network \in {"up", "gone"}

\* A future is at most once in the ready queue or with the engine, an announcement
\* at most once in the channel and not yet there, and nothing is answered early.
Queues ==
  /\ \A i \in 1..Len(ready) : ready[i] \in pending_imports
  /\ \A i, j \in 1..Len(ready) : ready[i] = ready[j] => i = j
  /\ \A i \in 1..Len(requests) :
       requests[i].fut \in pending_imports /\ answers[requests[i].fut] = "none"
  /\ \A i, j \in 1..Len(requests) : requests[i].fut = requests[j].fut => i = j
  /\ \A i \in 1..Len(ready) : ~ Requested(ready[i])
  /\ \A i \in 1..Len(from_network) : from_network[i] <= Len(announced)
  /\ \A i, j \in 1..Len(from_network) : from_network[i] = from_network[j] => i = j
  /\ \A f \in pending_imports :
       f[2] <= Len(announced) /\ \A i \in 1..Len(from_network) : from_network[i] # f[2]
  /\ \A f \in Futures :
       f[2] > Len(announced) \/ (\E i \in 1..Len(from_network) : from_network[i] = f[2]) =>
         answers[f] = "none"

\* poll_next polls a future at most once.
Polls ==
  /\ polled \in Nat /\ polled <= Cardinality(Futures)
  /\ pc = "polling" => polled = 0 \/ polled < Cardinality(pending_imports)

\* An announcement's payload is in front of its fork choice wherever that is.
Order ==
  /\ \A n \in 1..MaxAnnounced, i \in 1..Len(ready) : ready[i] = ForkChoice(n) =>
       \/ answers[Payload(n)] # "none" \/ Requested(Payload(n))
       \/ \E j \in 1..(i - 1) : ready[j] = Payload(n)
  /\ \A n \in 1..MaxAnnounced, i \in 1..Len(requests) : requests[i].fut = ForkChoice(n) =>
       \/ answers[Payload(n)] # "none"
       \/ \E j \in 1..(i - 1) : requests[j].fut = Payload(n)
  /\ \A n \in 1..MaxAnnounced :
       answers[ForkChoice(n)] # "none" => answers[Payload(n)] # "none"

\* What the engine has, or has answered, was sent to it.
Sendings ==
  /\ \A n \in 1..MaxAnnounced : answers[Payload(n)] # "none" \/ Requested(Payload(n)) =>
       \E k \in 1..Len(sent) : sent[k].fut = Payload(n) /\ sent[k].hash = announced[n].hash
  /\ PayloadBeforeForkChoice

Inv == Types /\ Queues /\ Polls /\ Order /\ Sendings

\* The fork choice rule prefers c to the head h.
Beats(c, h) == c.number > h.number \/ (c.number = h.number /\ c.hash < h.hash)

\* While blocks arrive one at a time all that is on its way is the last one's, only
\* that one can beat the head, and its fork choice request is still to come or
\* names the block that is to be the head.
CalmState ==
  LET n == Len(announced)
  IN  /\ ~ backfilling /\ network = "up" /\ pc # "failed"
      /\ \A f \in pending_imports : f[2] = n
      /\ \A i \in 1..Len(from_network) : from_network[i] = n
      /\ \A c \in tree : Beats(c, best) =>
           n > 0 /\ c = announced[n] /\ answers[ForkChoice(n)] = "none"
      /\ n > 0 /\ answers[ForkChoice(n)] = "none" =>
           from_network # <<>> \/ ForkChoice(n) \in pending_imports
      /\ \A i \in 1..Len(requests) : requests[i].fut = ForkChoice(n) =>
           requests[i].hash = canonical_head(announced[n], best)

CalmInv == Calm => CalmState

--------------------------------------------------------------------------------
\* Futures.

\* The bound is a natural number.
LEMMA BoundType ==
  MaxAnnounced \in Nat
BY BlockAssumption, Zenon

\* Both futures of an announcement are futures.
LEMMA FutureTypes ==
  /\ \A n \in 1..MaxAnnounced : Payload(n) \in Futures /\ ForkChoice(n) \in Futures
  /\ \A f \in Futures : /\ f[2] \in 1..MaxAnnounced
                        /\ f = Payload(f[2]) \/ f = ForkChoice(f[2])
                        /\ f[1] = "new_payload" <=> f = Payload(f[2])
                        /\ f[1] = "update_fork_choice" <=> f = ForkChoice(f[2])
  /\ \A m, n : Payload(m) # ForkChoice(n) /\ (Payload(m) = Payload(n) => m = n)
       /\ (ForkChoice(m) = ForkChoice(n) => m = n)
       /\ Payload(m)[2] = m /\ ForkChoice(m)[2] = m
BY DEF Futures, Kinds, Payload, ForkChoice

\* There are finitely many.
LEMMA FuturesFinite ==
  IsFiniteSet(Futures) /\ Cardinality(Futures) \in Nat
<1>1. IsFiniteSet(Kinds)
  <2>1. Kinds = ({} \cup {"new_payload"}) \cup {"update_fork_choice"}
    BY Zenon DEF Kinds
  <2> QED
    BY <2>1, FS_EmptySet, FS_AddElement, Zenon
<1>2. IsFiniteSet(1..MaxAnnounced)
  <2>1. 1 \in Int /\ MaxAnnounced \in Int
    BY BoundType
  <2> QED
    BY <2>1, FS_Interval, Zenon
<1>3. IsFiniteSet(Futures)
  BY <1>1, <1>2, FS_Product, Zenon DEF Futures
<1> QED
  BY <1>3, FS_CardinalityType, Zenon

--------------------------------------------------------------------------------
\* What the actions do to the queues.

Unmoved ==
  UNCHANGED <<announced, from_network, pending_imports, ready, answers, requests>>

Arrive(b) ==
  /\ b \in Blocks /\ Len(announced) < MaxAnnounced
  /\ announced' = Append(announced, b)
  /\ from_network' = Append(from_network, Len(announced'))
  /\ UNCHANGED <<pending_imports, ready, answers, requests>>

Send(hash) ==
  /\ hash \in Nat /\ ready # <<>> /\ answers[Head(ready)] = "none"
  /\ ready' = Tail(ready)
  /\ requests' = Append(requests, [fut |-> Head(ready), hash |-> hash])
  /\ UNCHANGED <<announced, from_network, pending_imports, answers>>

Drop ==
  /\ ready # <<>>
  /\ answers[Head(ready)] = "none" => Head(ready)[1] = "update_fork_choice"
  /\ pending_imports' = pending_imports \ {Head(ready)}
  /\ ready' = Tail(ready)
  /\ UNCHANGED <<announced, from_network, answers, requests>>

Reply(status) ==
  /\ status \in Statuses /\ requests # <<>>
  /\ answers' = [answers EXCEPT ![Head(requests).fut] = status]
  /\ requests' = Tail(requests)
  /\ ready' = Append(ready, Head(requests).fut)
  /\ UNCHANGED <<announced, from_network, pending_imports>>

\* Nothing moves.
LEMMA UnmovedQueues ==
  ASSUME Queues, Order, Unmoved
  PROVE  Queues' /\ Order'
BY DEF Queues, Order, Unmoved, Requested

\* A block arrives.
LEMMA ArriveQueues ==
  ASSUME Types, Queues, Order, NEW b, Arrive(b)
  PROVE  Queues' /\ Order'
<1>1. /\ Len(announced') = Len(announced) + 1
      /\ Len(from_network') = Len(from_network) + 1
      /\ \A i \in 1..Len(from_network) : from_network'[i] = from_network[i]
      /\ from_network'[Len(from_network) + 1] = Len(announced) + 1
      /\ Len(announced) \in Nat /\ Len(from_network) \in Nat
      /\ \A i \in 1..Len(from_network) : from_network[i] \in Nat
  BY BoundType, SMTT(30) DEF Types, Arrive
<1>2. Order'
  BY Zenon DEF Order, Arrive, Requested
<1>3. Queues'
  <2>1. \A i \in 1..Len(from_network') : from_network'[i] <= Len(announced')
    BY <1>1, SMTT(30) DEF Queues
  <2>2. \A i, j \in 1..Len(from_network') : from_network'[i] = from_network'[j] => i = j
    BY <1>1 DEF Queues
  <2>3. \A f \in pending_imports' : f[2] <= Len(announced')
          /\ \A i \in 1..Len(from_network') : from_network'[i] # f[2]
    BY <1>1, FutureTypes, BoundType, SMTT(30) DEF Queues, Types, Arrive
  <2>4. \A f \in Futures :
         f[2] > Len(announced')
         \/ (\E i \in 1..Len(from_network') : from_network'[i] = f[2]) =>
           answers'[f] = "none"
    BY <1>1, FutureTypes, BoundType, SMTT(30) DEF Queues, Types, Arrive
  <2> QED
    BY <2>1, <2>2, <2>3, <2>4 DEF Queues, Arrive, Requested
<1> QED
  BY <1>2, <1>3, Zenon

\* A request goes to the engine.
LEMMA SendQueues ==
  ASSUME Types, Queues, Order, NEW hash, Send(hash)
  PROVE  Queues' /\ Order'
<1> DEFINE h == Head(ready)
<1>1. /\ Len(ready) \in Nat /\ Len(ready) > 0 /\ Len(ready') = Len(ready) - 1
      /\ h = ready[1] /\ h \in Futures /\ ready' \in Seq(Futures)
      /\ \A i \in 1..Len(ready') : ready'[i] = ready[i + 1]
  BY DEF Types, Send
<1>2. /\ Len(requests) \in Nat /\ Len(requests') = Len(requests) + 1
      /\ \A i \in 1..Len(requests) : requests'[i] = requests[i]
      /\ requests'[Len(requests) + 1] = [fut |-> h, hash |-> hash]
  BY DEF Types, Send
<1>3. \A f : Requested(f)' <=> Requested(f) \/ f = h
  BY <1>2 DEF Requested
<1>4. Queues'
  <2>1. \A i \in 1..Len(ready') : ready'[i] \in pending_imports'
    BY <1>1 DEF Queues, Send
  <2>2. ASSUME NEW i \in 1..Len(ready'), NEW j \in 1..Len(ready'), ready'[i] = ready'[j]
        PROVE  i = j
    <3>1. i + 1 \in 1..Len(ready) /\ j + 1 \in 1..Len(ready) /\ ready[i + 1] = ready[j + 1]
      BY <1>1, <2>2
    <3>2. i + 1 = j + 1
      BY <3>1, Zenon DEF Queues
    <3> QED
      BY <3>2
  <2>3. \A i \in 1..Len(requests') :
         requests'[i].fut \in pending_imports' /\ answers'[requests'[i].fut] = "none"
    BY <1>1, <1>2 DEF Queues, Send
  <2>4. \A i, j \in 1..Len(requests') : requests'[i].fut = requests'[j].fut => i = j
    BY <1>1, <1>2 DEF Queues, Requested
  <2>5. ASSUME NEW i \in 1..Len(ready')
        PROVE  ~ Requested(ready[i])'
    <3>1. i + 1 \in 1..Len(ready) /\ ready'[i] = ready[i + 1] /\ ready[i + 1] # h
      BY <1>1, SMTT(30) DEF Queues
    <3>2. ~ Requested(ready[i + 1])
      BY <3>1, Zenon DEF Queues
    <3> QED
      BY <3>1, <3>2, <1>2, SMTT(30) DEF Requested
  <2> QED
    BY <2>1, <2>2, <2>3, <2>4, <2>5 DEF Queues, Send
<1>5. Order'
  <2>1. ASSUME NEW n \in 1..MaxAnnounced, NEW i \in 1..Len(ready'), ready'[i] = ForkChoice(n),
               answers[Payload(n)] = "none", ~ Requested(Payload(n)), h # Payload(n)
        PROVE  \E j \in 1..(i - 1) : ready'[j] = Payload(n)
    <3>1. PICK j \in 1..i : ready[j] = Payload(n)
      BY <2>1, <1>1, SMTT(30) DEF Order
    <3>2. j - 1 \in 1..(i - 1) /\ j - 1 \in 1..Len(ready') /\ (j - 1) + 1 = j
      BY <3>1, <2>1, <1>1
    <3> QED
      BY <3>1, <3>2, <1>1, Zenon
  <2>2. ASSUME NEW n \in 1..MaxAnnounced, NEW i \in 1..Len(requests'),
               requests'[i].fut = ForkChoice(n), answers[Payload(n)] = "none"
        PROVE  \E j \in 1..(i - 1) : requests'[j].fut = Payload(n)
    <3>1. CASE i <= Len(requests)
      BY <3>1, <2>2, <1>2, SMTT(30) DEF Order
    <3>2. CASE i = Len(requests) + 1
      <4>1. h = ForkChoice(n)
        BY <3>2, <2>2, <1>2
      <4>2. Requested(Payload(n))
        BY <4>1, <2>2, <1>1 DEF Order
      <4> QED
        BY <4>2, <3>2, <1>2 DEF Requested
    <3> QED
      BY <3>1, <3>2, <1>2
  <2> QED
    BY <2>1, <2>2, <1>3, Zenon DEF Order, Send
<1> QED
  BY <1>4, <1>5, Zenon

\* A future leaves the FuturesUnordered.
LEMMA DropQueues ==
  ASSUME Types, Queues, Order, Drop
  PROVE  Queues' /\ Order'
<1> DEFINE h == Head(ready)
<1>1. /\ Len(ready) \in Nat /\ Len(ready) > 0 /\ Len(ready') = Len(ready) - 1
      /\ h = ready[1] /\ h \in Futures
      /\ \A i \in 1..Len(ready') : i + 1 \in 1..Len(ready) /\ ready'[i] = ready[i + 1]
  BY DEF Types, Drop
<1>2. ~ Requested(h)
  BY <1>1 DEF Queues
<1>3. Queues'
  <2>1. ASSUME NEW i \in 1..Len(ready')
        PROVE  ready'[i] \in pending_imports' /\ ~ Requested(ready[i])'
    <3>1. ready'[i] = ready[i + 1] /\ ready[i + 1] # h
      BY <1>1 DEF Queues
    <3>2. ~ Requested(ready[i + 1]) /\ ready[i + 1] \in pending_imports
      BY <1>1, Zenon DEF Queues
    <3> QED
      BY <3>1, <3>2, Zenon DEF Drop, Requested
  <2>2. ASSUME NEW i \in 1..Len(ready'), NEW j \in 1..Len(ready'), ready'[i] = ready'[j]
        PROVE  i = j
    <3>1. i + 1 = j + 1
      BY <1>1, <2>2, SMTT(30) DEF Queues
    <3> QED
      BY <3>1
  <2>3. \A i \in 1..Len(requests) : requests[i].fut \in pending_imports'
    BY <1>2, Zenon DEF Queues, Drop, Requested
  <2> QED
    BY <2>1, <2>2, <2>3 DEF Queues, Drop
<1>4. Order'
  <2>1. ASSUME NEW n \in 1..MaxAnnounced, NEW i \in 1..Len(ready'), ready'[i] = ForkChoice(n),
               answers[Payload(n)] = "none", ~ Requested(Payload(n))
        PROVE  \E j \in 1..(i - 1) : ready'[j] = Payload(n)
    <3>1. PICK j \in 1..i : ready[j] = Payload(n)
      BY <2>1, <1>1 DEF Order
    <3>2. h # Payload(n)
      BY <2>1, FutureTypes, Zenon DEF Drop, Payload
    <3>3. j - 1 \in 1..(i - 1) /\ j - 1 \in 1..Len(ready') /\ (j - 1) + 1 = j
      BY <3>1, <3>2, <2>1, <1>1, SMTT(30)
    <3> QED
      BY <3>1, <3>3, <1>1, Zenon
  <2> QED
    BY <2>1, Zenon DEF Order, Drop, Requested
<1> QED
  BY <1>3, <1>4, Zenon

\* The engine answers.
LEMMA ReplyQueues ==
  ASSUME Types, Queues, Order, NEW status, Reply(status)
  PROVE  Queues' /\ Order'
<1> DEFINE h == Head(requests).fut
<1>1. /\ Len(requests) \in Nat /\ Len(requests) > 0 /\ Len(requests') = Len(requests) - 1
      /\ h = requests[1].fut /\ h \in Futures
      /\ \A i \in 1..Len(requests') :
           i + 1 \in 1..Len(requests) /\ requests'[i] = requests[i + 1]
  <2>1. /\ Len(requests) \in Nat /\ Len(requests) > 0 /\ Len(requests') = Len(requests) - 1
        /\ Head(requests) = requests[1] /\ requests[1] \in EngineRequests
        /\ \A i \in 1..Len(requests') :
             i + 1 \in 1..Len(requests) /\ requests'[i] = requests[i + 1]
    BY DEF Types, Reply
  <2> QED
    BY <2>1, Zenon DEF EngineRequests
<1>2. /\ Len(ready) \in Nat /\ Len(ready') = Len(ready) + 1
      /\ \A i \in 1..Len(ready) : ready'[i] = ready[i]
      /\ ready'[Len(ready) + 1] = h
  BY DEF Types, Reply
<1>3. /\ h \in pending_imports /\ answers[h] = "none"
      /\ \A i \in 1..Len(requests') : requests'[i].fut # h
      /\ \A i \in 1..Len(ready) : ready[i] # h
  <2>1. 1 \in 1..Len(requests) /\ Requested(h)
    BY <1>1 DEF Requested
  <2>2. ASSUME NEW i \in 1..Len(requests')
        PROVE  requests'[i].fut # h
    <3>1. i + 1 # 1
      OBVIOUS
    <3> QED
      BY <3>1, <2>1, <1>1, SMTT(30) DEF Queues
  <2> QED
    BY <2>1, <2>2, <1>1 DEF Queues
<1>4. /\ answers' \in [Futures -> Statuses \union {"none"}]
      /\ answers'[h] # "none"
      /\ \A f \in Futures : f # h => answers'[f] = answers[f]
      /\ \A f \in Futures : answers[f] # "none" => answers'[f] # "none"
  BY <1>1, <1>3, Zenon DEF Types, Reply, Statuses
<1>5. Queues'
  <2>1. ASSUME NEW i \in 1..Len(ready')
        PROVE  ready'[i] \in pending_imports' /\ ~ Requested(ready[i])'
    <3>1. CASE i \in 1..Len(ready)
      <4>1. ready'[i] = ready[i] /\ ready[i] \in pending_imports /\ ~ Requested(ready[i])
        BY <3>1, <1>2, Zenon DEF Queues
      <4> QED
        BY <4>1, <1>1, Zenon DEF Requested, Reply
    <3>2. CASE i = Len(ready) + 1
      BY <3>2, <1>2, <1>3, Zenon DEF Requested, Reply
    <3> QED
      BY <3>1, <3>2, <1>2
  <2>2. \A i, j \in 1..Len(ready') : ready'[i] = ready'[j] => i = j
    BY <1>2, <1>3 DEF Queues
  <2>3. ASSUME NEW i \in 1..Len(requests')
        PROVE  requests'[i].fut \in pending_imports' /\ answers'[requests'[i].fut] = "none"
    <3>1. requests[i + 1].fut \in pending_imports /\ answers[requests[i + 1].fut] = "none"
      BY <1>1, Zenon DEF Queues
    <3> QED
      BY <3>1, <1>1, <1>3, <1>4, Zenon DEF Types, Reply
  <2>4. ASSUME NEW i \in 1..Len(requests'), NEW j \in 1..Len(requests'),
               requests'[i].fut = requests'[j].fut
        PROVE  i = j
    <3>1. i + 1 = j + 1
      BY <1>1, <2>4, SMTT(30) DEF Queues
    <3> QED
      BY <3>1
  <2>5. \A f \in Futures :
       f[2] > Len(announced) \/ (\E i \in 1..Len(from_network) : from_network[i] = f[2]) =>
         f # h
    BY <1>3, FutureTypes, BoundType, SMTT(30) DEF Queues, Types
  <2> QED
    BY <2>1, <2>2, <2>3, <2>4, <2>5, <1>4 DEF Queues, Reply
<1>6. Order'
  <2>1. ASSUME NEW n \in 1..MaxAnnounced, h = ForkChoice(n)
        PROVE  answers'[Payload(n)] # "none"
    BY <2>1, <1>1, <1>4, FutureTypes DEF Order
  <2>2. ASSUME NEW n \in 1..MaxAnnounced, Requested(Payload(n)),
               answers'[Payload(n)] = "none"
        PROVE  Requested(Payload(n))'
    <3>1. PICK j \in 1..Len(requests) : requests[j].fut = Payload(n)
      BY <2>2, Zenon DEF Requested
    <3>2. j - 1 \in 1..Len(requests') /\ (j - 1) + 1 = j
      BY <3>1, <2>2, <1>1, <1>4
    <3> QED
      BY <3>1, <3>2, <1>1, Zenon DEF Requested
  <2>3. ASSUME NEW n \in 1..MaxAnnounced, NEW i \in 1..Len(ready'), ready'[i] = ForkChoice(n),
               answers'[Payload(n)] = "none", ~ Requested(Payload(n))'
        PROVE  \E j \in 1..(i - 1) : ready'[j] = Payload(n)
    <3>1. i \in 1..Len(ready) /\ ready[i] = ForkChoice(n)
      BY <2>1, <2>3, <1>2
    <3>2. PICK j \in 1..(i - 1) : ready[j] = Payload(n)
      BY <3>1, <2>2, <2>3, <1>4, FutureTypes, Zenon DEF Order
    <3> QED
      BY <3>1, <3>2, <1>2
  <2>4. ASSUME NEW n \in 1..MaxAnnounced, NEW i \in 1..Len(requests'),
               requests'[i].fut = ForkChoice(n), answers'[Payload(n)] = "none"
        PROVE  \E j \in 1..(i - 1) : requests'[j].fut = Payload(n)
    <3> DEFINE k == i + 1
    <3>0. /\ k \in 1..Len(requests) /\ requests[k].fut = ForkChoice(n) /\ k - 1 = i
          /\ answers[Payload(n)] = "none"
      BY <2>4, <1>1, <1>4, FutureTypes
    <3>1. PICK j \in 1..i : requests[j].fut = Payload(n)
      <4> HIDE DEF k
      <4> QED
        BY <3>0, Zenon DEF Order
    <3>2. j - 1 \in 1..(i - 1) /\ j - 1 \in 1..Len(requests') /\ (j - 1) + 1 = j
      BY <3>1, <2>4, <1>1, <1>4
    <3> QED
      BY <3>1, <3>2, <1>1, Zenon
  <2>5. ASSUME NEW n \in 1..MaxAnnounced, answers'[ForkChoice(n)] # "none"
        PROVE  answers'[Payload(n)] # "none"
    BY <2>1, <2>5, <1>4, FutureTypes, Zenon DEF Order
  <2> QED
    BY <2>3, <2>4, <2>5, Zenon DEF Order
<1> QED
  BY <1>5, <1>6, Zenon

\* The futures a poll begins with, two for each announcement in the channel.
Pushed == [i \in 1..2 * Len(from_network) |->
             on_new_block(from_network[(i + 1) \div 2])[2 - (i % 2)]]

Push ==
  /\ from_network' = <<>>
  /\ pending_imports' = pending_imports \union Range(Pushed)
  /\ ready' = ready \o Pushed
  /\ UNCHANGED <<announced, answers, requests>>

\* The channel holds numbers of announcements.
LEMMA ChannelType ==
  ASSUME Types
  PROVE  Len(from_network) \in Nat
         /\ \A k \in 1..Len(from_network) : from_network[k] \in 1..MaxAnnounced
<1> DEFINE N == 1..MaxAnnounced
<1>1. from_network \in Seq(N)
  BY Zenon DEF Types
<1> HIDE DEF N
<1>2. Len(from_network) \in Nat /\ \A k \in 1..Len(from_network) : from_network[k] \in N
  BY <1>1
<1> QED
  BY <1>2, Zenon DEF N

\* They alternate: the payload of an announcement, then its fork choice.
LEMMA PushedFutures ==
  ASSUME Types
  PROVE  /\ Pushed \in Seq(Futures) /\ Len(Pushed) = 2 * Len(from_network)
         /\ \A i \in 1..Len(Pushed) : \E k \in 1..Len(from_network) :
              \/ i = 2 * k - 1 /\ Pushed[i] = Payload(from_network[k])
              \/ i = 2 * k /\ Pushed[i] = ForkChoice(from_network[k])
         /\ \A k \in 1..Len(from_network) :
              /\ 2 * k - 1 \in 1..Len(Pushed) /\ Pushed[2 * k - 1] = Payload(from_network[k])
              /\ 2 * k \in 1..Len(Pushed) /\ Pushed[2 * k] = ForkChoice(from_network[k])
<1> DEFINE L == Len(from_network)
<1>1. L \in Nat /\ \A k \in 1..L : from_network[k] \in 1..MaxAnnounced
  BY ChannelType, Zenon
<1> HIDE DEF L
<1>2. ASSUME NEW k \in 1..L
      PROVE  /\ 2 * k - 1 \in 1..2 * L /\ 2 * k \in 1..2 * L
             /\ ((2 * k - 1) + 1) \div 2 = k /\ (2 * k - 1) % 2 = 1
             /\ (2 * k + 1) \div 2 = k /\ (2 * k) % 2 = 0
  BY <1>1
<1>3. ASSUME NEW k \in 1..L
      PROVE  /\ Pushed[2 * k - 1] = Payload(from_network[k])
             /\ Pushed[2 * k] = ForkChoice(from_network[k])
  BY <1>2 DEF Pushed, on_new_block, Payload, ForkChoice, L
<1>4. ASSUME NEW i \in 1..2 * L
      PROVE  \E k \in 1..L : i = 2 * k - 1 \/ i = 2 * k
  <2>1. (i + 1) \div 2 \in 1..L
    BY <1>1
  <2>2. i = 2 * ((i + 1) \div 2) - 1 \/ i = 2 * ((i + 1) \div 2)
    BY <1>1
  <2> QED
    BY <2>1, <2>2, Zenon
<1>5. ASSUME NEW i \in 1..2 * L
      PROVE  Pushed[i] \in Futures
  <2>1. PICK k \in 1..L : i = 2 * k - 1 \/ i = 2 * k
    BY <1>4, Zenon
  <2> QED
    <3>1. /\ Pushed[2 * k - 1] = Payload(from_network[k])
          /\ Pushed[2 * k] = ForkChoice(from_network[k])
      BY <1>3, Zenon
    <3>2. Payload(from_network[k]) \in Futures /\ ForkChoice(from_network[k]) \in Futures
      BY <1>1, FutureTypes, Zenon
    <3> QED
      BY <2>1, <3>1, <3>2, Zenon
<1>6. Pushed \in [1..2 * L -> Futures]
  BY <1>5, Zenon DEF Pushed, L
<1>7. 2 * L \in Nat
  BY <1>1
<1>8. Pushed \in Seq(Futures) /\ Len(Pushed) = 2 * L
  BY <1>6, <1>7
<1>9. ASSUME NEW i \in 1..Len(Pushed)
      PROVE  \E k \in 1..L :
              \/ i = 2 * k - 1 /\ Pushed[i] = Payload(from_network[k])
              \/ i = 2 * k /\ Pushed[i] = ForkChoice(from_network[k])
  <2>1. PICK k \in 1..L : i = 2 * k - 1 \/ i = 2 * k
    BY <1>4, <1>8, Zenon
  <2>2. /\ Pushed[2 * k - 1] = Payload(from_network[k])
        /\ Pushed[2 * k] = ForkChoice(from_network[k])
    BY <1>3, Zenon
  <2> QED
    BY <2>1, <2>2, Zenon
<1> QED
  BY <1>2, <1>3, <1>8, <1>9, Zenon DEF L

\* A poll begins.
LEMMA PushQueues ==
  ASSUME Types, Queues, Order, Push
  PROVE  Queues' /\ Order'
<1> DEFINE R == Len(ready)
           L == Len(from_network)
           U == Len(Pushed)
<1>1. /\ R \in Nat /\ L \in Nat /\ U = 2 * L /\ Len(ready') = R + U
      /\ \A i \in 1..R : ready'[i] = ready[i]
      /\ \A i \in 1..U : R + i \in 1..Len(ready') /\ ready'[R + i] = Pushed[i]
      /\ \A i \in 1..Len(ready') : i \in 1..R \/ (i - R \in 1..U /\ R + (i - R) = i)
      /\ \A f : f \in Range(Pushed) <=> \E i \in 1..U : Pushed[i] = f
  <2> HIDE DEF Pushed
  <2>1. Pushed \in Seq(Futures) /\ U = 2 * L /\ ready \in Seq(Futures)
    BY PushedFutures, Zenon DEF Types
  <2>2. Range(Pushed) = {Pushed[i] : i \in 1..U}
    BY <2>1 DEF Range
  <2>3. R \in Nat /\ L \in Nat /\ U \in Nat /\ ready' = ready \o Pushed
    BY <2>1, ChannelType DEF Push
  <2>4. Len(ready') = R + U /\ \A i \in 1..R : ready'[i] = ready[i]
    <3>1. Len(ready') = R + U
      <4>1. \A s, t \in Seq(Futures) : Len(s \o t) = Len(s) + Len(t)
        OBVIOUS
      <4> QED
        BY <4>1, <2>1, <2>3, Zenon
    <3>2. ASSUME NEW i \in 1..R
          PROVE  ready'[i] = ready[i]
      <4>1. i \in 1..(R + U) /\ i <= R
        BY <2>3
      <4> QED
        BY <4>1, <2>1, <2>3
    <3> QED
      BY <3>1, <3>2, Zenon
  <2>5. ASSUME NEW i \in 1..U
        PROVE  R + i \in 1..Len(ready') /\ ready'[R + i] = Pushed[i]
    <3>1. R + i \in 1..(R + U) /\ ~ (R + i <= R) /\ (R + i) - R = i
      BY <2>3
    <3> QED
      BY <3>1, <2>1, <2>3, <2>4
  <2>6. \A i \in 1..Len(ready') : i \in 1..R \/ (i - R \in 1..U /\ R + (i - R) = i)
    BY <2>3, <2>4
  <2> QED
    BY <2>1, <2>2, <2>3, <2>4, <2>5, <2>6, Zenon
<1>2. ASSUME NEW i \in 1..U
      PROVE  \E k \in 1..L :
              \/ i = 2 * k - 1 /\ Pushed[i] = Payload(from_network[k])
              \/ i = 2 * k /\ Pushed[i] = ForkChoice(from_network[k])
  BY PushedFutures, Zenon
<1>3. ASSUME NEW k \in 1..L
      PROVE  /\ 2 * k - 1 \in 1..U /\ Pushed[2 * k - 1] = Payload(from_network[k])
             /\ 2 * k \in 1..U /\ Pushed[2 * k] = ForkChoice(from_network[k])
  BY PushedFutures, Zenon
<1>4. ASSUME NEW i \in 1..U
      PROVE  Pushed[i] \in Futures /\ Pushed[i] \notin pending_imports
             /\ Pushed[i][2] <= Len(announced)
  <2>1. PICK k \in 1..L : Pushed[i] = Payload(from_network[k])
                          \/ Pushed[i] = ForkChoice(from_network[k])
    BY <1>2, Zenon
  <2>2. from_network[k] \in 1..MaxAnnounced
    BY ChannelType, Zenon
  <2> QED
    BY <2>1, <2>2, FutureTypes DEF Queues
<1>5. ASSUME NEW i \in 1..U, NEW j \in 1..U, Pushed[i] = Pushed[j]
      PROVE  i = j
  <2>1. PICK k \in 1..L : \/ i = 2 * k - 1 /\ Pushed[i] = Payload(from_network[k])
                          \/ i = 2 * k /\ Pushed[i] = ForkChoice(from_network[k])
    BY <1>2, Zenon
  <2>2. PICK m \in 1..L : \/ j = 2 * m - 1 /\ Pushed[j] = Payload(from_network[m])
                          \/ j = 2 * m /\ Pushed[j] = ForkChoice(from_network[m])
    BY <1>2, Zenon
  <2>3. from_network[k] = from_network[m] /\ (i = 2 * k <=> j = 2 * m)
    BY <2>1, <2>2, <1>5, FutureTypes
  <2>4. k = m
    BY <2>3, ZenonT(30) DEF Queues
  <2> QED
    BY <2>1, <2>2, <2>3, <2>4, Zenon
<1> HIDE DEF R, L, U
<1>6. Queues'
  <2>1. ASSUME NEW i \in 1..Len(ready')
        PROVE  ready'[i] \in pending_imports' /\ ~ Requested(ready[i])'
    <3>1. CASE i \in 1..R
      BY <3>1, <1>1 DEF Queues, Push, Requested, R
    <3>2. CASE i - R \in 1..U /\ R + (i - R) = i
      <4>1. ready'[i] = Pushed[i - R]
        BY <3>2, <1>1, Zenon
      <4> QED
        BY <3>2, <4>1, <1>1, <1>4 DEF Queues, Push, Requested
    <3> QED
      BY <3>1, <3>2, <1>1, Zenon
  <2>2. ASSUME NEW i \in 1..Len(ready'), NEW j \in 1..Len(ready'), ready'[i] = ready'[j]
        PROVE  i = j
    <3>1. CASE i \in 1..R /\ j \in 1..R
      BY <3>1, <2>2, <1>1 DEF Queues, R
    <3>2. CASE i - R \in 1..U /\ R + (i - R) = i /\ j - R \in 1..U /\ R + (j - R) = j
      <4>1. Pushed[i - R] = Pushed[j - R]
        BY <3>2, <2>2, <1>1, Zenon
      <4>2. i - R = j - R
        BY <4>1, <3>2, <1>5, Zenon
      <4> QED
        BY <4>2, <1>1
    <3>3. ASSUME NEW k \in 1..R, NEW m \in 1..U
          PROVE  ready'[k] # ready'[R + m]
      <4>1. ready'[k] = ready[k] /\ ready[k] \in pending_imports
        BY <1>1, Zenon DEF Queues, R
      <4> QED
        BY <4>1, <1>1, <1>4, Zenon
    <3> QED
      BY <3>1, <3>2, <3>3, <2>2, <1>1
  <2>3. ASSUME NEW f \in pending_imports'
        PROVE  f[2] <= Len(announced)
    BY <1>1, <1>4, SMTT(30) DEF Queues, Push
  <2>4. from_network' = <<>> /\ Len(from_network') = 0
    BY Zenon DEF Push
  <2> QED
    BY <2>1, <2>2, <2>3, <2>4, SMTT(30) DEF Queues, Push, Requested
<1>7. Order'
  <2>1. ASSUME NEW n \in 1..MaxAnnounced, NEW i \in 1..Len(ready'), ready'[i] = ForkChoice(n),
               answers[Payload(n)] = "none", ~ Requested(Payload(n))
        PROVE  \E j \in 1..(i - 1) : ready'[j] = Payload(n)
    <3>1. CASE i \in 1..R
      <4>1. PICK j \in 1..(i - 1) : ready[j] = Payload(n)
        BY <3>1, <2>1, <1>1 DEF Order, R
      <4> QED
        BY <4>1, <3>1, <1>1
    <3>2. CASE i - R \in 1..U /\ R + (i - R) = i
      <4>1. Pushed[i - R] = ForkChoice(n)
        BY <3>2, <2>1, <1>1, Zenon
      <4>2. PICK k \in 1..L : i - R = 2 * k /\ from_network[k] = n
        BY <4>1, <3>2, <1>2, FutureTypes, SMTT(30)
      <4>3. ready'[R + (2 * k - 1)] = Payload(n)
        BY <4>2, <1>1, <1>3, Zenon
      <4>4. R + (2 * k - 1) \in 1..(i - 1)
        BY <4>2, <1>1
      <4> QED
        BY <4>3, <4>4, Zenon
    <3> QED
      BY <3>1, <3>2, <1>1, Zenon
  <2>2. \A f : Requested(f)' <=> Requested(f)
    BY Zenon DEF Push, Requested
  <2>3. answers' = answers /\ requests' = requests
    BY Zenon DEF Push
  <2> QED
    BY <2>1, <2>2, <2>3, Zenon DEF Order
<1> QED
  BY <1>6, <1>7, Zenon

--------------------------------------------------------------------------------
\* Blocks, and the heads of the queues.

\* A block's number and hash are natural numbers, and its hash is its own.
LEMMA BlockFacts ==
  /\ \A b \in AllBlocks : b.number \in Nat /\ b.hash \in Nat
  /\ \A b, c \in AllBlocks :
       (b.hash = c.hash => b = c) /\ (b.hash = c.parent => b.number < c.number)
<1>1. AllBlocks \subseteq [number : Nat, hash : Nat, parent : Int]
  BY BlockAssumption, Zenon DEF AllBlocks
<1>2. \A b \in AllBlocks : b.number \in Nat /\ b.hash \in Nat
  BY <1>1, Zenon
<1>3. \A b, c \in AllBlocks :
        (b.hash = c.hash => b = c) /\ (b.hash = c.parent => b.number < c.number)
  BY BlockAssumption, Zenon DEF AllBlocks
<1> QED
  BY <1>2, <1>3, Zenon

\* A chain ends in its block, and every other block of it is lower.
LEMMA ChainFacts ==
  ASSUME NEW b \in AllBlocks
  PROVE  /\ b \in Chain(b) /\ Chain(b) \subseteq AllBlocks
         /\ \A c \in Chain(b) : c = b \/ c.number < b.number
<1>1. b \in Chain(b) /\ Chain(b) \subseteq AllBlocks
  BY Zenon DEF Chain, AllBlocks
<1> DEFINE S == {p \in AllBlocks : p = b \/ p.number < b.number}
<1>2. S \in SUBSET AllBlocks /\ b \in S
  BY Zenon
<1>3. \A c \in S : \A p \in AllBlocks : p.hash = c.parent => p \in S
  <2> SUFFICES ASSUME NEW c \in S, NEW p \in AllBlocks, p.hash = c.parent
               PROVE  p.number < b.number
    BY Zenon
  <2>1. p.number < c.number
    BY BlockFacts, Zenon
  <2>2. c.number <= b.number /\ c \in AllBlocks
    BY BlockFacts
  <2> QED
    BY <2>1, <2>2, BlockFacts
<1>4. Chain(b) \subseteq S
  <2> HIDE DEF S
  <2> QED
    BY <1>2, <1>3, Zenon DEF Chain, AllBlocks
<1> QED
  BY <1>1, <1>4, Zenon

\* The rule picks the announced block exactly when that beats the head.
LEMMA CanonicalHead ==
  ASSUME NEW b \in AllBlocks, NEW head \in AllBlocks
  PROVE  /\ canonical_head(b, head) = IF Beats(b, head) THEN b.hash ELSE head.hash
         /\ canonical_head(b, head) \in Nat
BY BlockFacts, Zenon DEF canonical_head, Beats

\* The announced blocks are blocks.
LEMMA AnnouncedBlocks ==
  ASSUME Types
  PROVE  /\ Len(announced) \in Nat
         /\ \A n \in 1..Len(announced) : announced[n] \in Blocks /\ announced[n] \in AllBlocks
         /\ Range(announced) \subseteq AllBlocks /\ best \in AllBlocks
BY DEF Types, AllBlocks, Range

\* The future a poll turns to.
LEMMA HeadOfReady ==
  ASSUME Types, Queues, ready # <<>>
  PROVE  /\ 1 \in 1..Len(ready) /\ Head(ready) = ready[1] /\ Head(ready) \in pending_imports
         /\ Head(ready) \in Futures /\ Head(ready)[2] \in 1..Len(announced)
         /\ Head(ready)[2] \in 1..MaxAnnounced /\ Tail(ready) \in Seq(Futures)
<1>1. 1 \in 1..Len(ready) /\ Head(ready) = ready[1] /\ Tail(ready) \in Seq(Futures)
      /\ Head(ready) \in Futures
  BY DEF Types
<1>2. Head(ready) \in pending_imports
  BY <1>1, Zenon DEF Queues
<1>3. Head(ready)[2] <= Len(announced) /\ Head(ready)[2] \in 1..MaxAnnounced
  BY <1>1, <1>2, FutureTypes, Zenon DEF Queues
<1> QED
  BY <1>1, <1>2, <1>3, BoundType, AnnouncedBlocks

\* The request the engine turns to.
LEMMA HeadOfRequests ==
  ASSUME Types, Queues, requests # <<>>
  PROVE  /\ 1 \in 1..Len(requests) /\ Head(requests) = requests[1]
         /\ Head(requests) \in EngineRequests
         /\ Head(requests).fut \in pending_imports /\ Requested(Head(requests).fut)
         /\ answers[Head(requests).fut] = "none"
         /\ Head(requests).fut \in Futures /\ Head(requests).fut[2] \in 1..Len(announced)
         /\ Head(requests).fut[2] \in 1..MaxAnnounced
         /\ Tail(requests) \in Seq(EngineRequests)
<1>1. /\ 1 \in 1..Len(requests) /\ Head(requests) = requests[1]
      /\ Head(requests) \in EngineRequests /\ Tail(requests) \in Seq(EngineRequests)
  BY DEF Types
<1>2. /\ Head(requests).fut \in pending_imports /\ Requested(Head(requests).fut)
      /\ answers[Head(requests).fut] = "none" /\ Head(requests).fut \in Futures
  BY <1>1, Zenon DEF Queues, Requested, Types
<1>3. Head(requests).fut[2] <= Len(announced) /\ Head(requests).fut[2] \in 1..MaxAnnounced
  BY <1>1, <1>2, FutureTypes, Zenon DEF Queues
<1> QED
  BY <1>1, <1>2, <1>3, BoundType, AnnouncedBlocks

\* What is pushed are futures.
LEMMA PushedType ==
  ASSUME Types
  PROVE  ready \o Pushed \in Seq(Futures) /\ Range(Pushed) \subseteq Futures
<1>1. Pushed \in Seq(Futures) /\ ready \in Seq(Futures)
  BY PushedFutures, Zenon DEF Types
<1> QED
  BY <1>1 DEF Range

--------------------------------------------------------------------------------
\* The steps.

\* Every step of the specification is one of its actions or changes nothing.
LEMMA Steps ==
  ASSUME [Next]_vars
  PROVE  /\ scenario' = scenario
         /\ \/ \E b \in Blocks : Announce(b)
            \/ \E b \in Blocks : EndBackfill(b)
            \/ StartPoll \/ SendPayload \/ SendForkChoice \/ ForkChoiceFails \/ Complete
            \/ EndPoll \/ HandleNewPayload \/ HandleForkChoice \/ StopNetwork
            \/ UNCHANGED vars
BY Zenon DEF Next, Poll, Engine, vars

\* Each action moves futures and requests in one of six ways.
LEMMA Moves ==
  ASSUME Types, Queues, [Next]_vars
  PROVE  \/ Unmoved \/ Push \/ Drop
         \/ \E b \in Blocks : Arrive(b)
         \/ \E hash \in Nat : Send(hash)
         \/ \E status \in Statuses : Reply(status)
<1>1. ASSUME NEW b \in Blocks, Announce(b)
      PROVE  Arrive(b)
  BY <1>1, Zenon DEF Announce, Arrive, service
<1>2. ASSUME StartPoll
      PROVE  Push
  BY <1>2, Zenon DEF StartPoll, Push, Pushed
<1>3. ASSUME SendPayload
      PROVE  \E hash \in Nat : Send(hash)
  <2>1. announced[Head(ready)[2]].hash \in Nat
    BY <1>3, HeadOfReady, AnnouncedBlocks, BlockFacts, Zenon DEF SendPayload
  <2> QED
    BY <1>3, <2>1, Zenon DEF SendPayload, Send, Yield
<1>4. ASSUME SendForkChoice
      PROVE  \E hash \in Nat : Send(hash)
  <2>1. canonical_head(announced[Head(ready)[2]], best) \in Nat
    BY <1>4, HeadOfReady, AnnouncedBlocks, CanonicalHead, Zenon DEF SendForkChoice
  <2> QED
    BY <1>4, <2>1, Zenon DEF SendForkChoice, Send, Yield
<1>5. ASSUME ForkChoiceFails
      PROVE  Drop
  BY <1>5, Zenon DEF ForkChoiceFails, Drop
<1>6. ASSUME Complete
      PROVE  Drop
  BY <1>6, Zenon DEF Complete, Drop
<1>7. ASSUME HandleNewPayload
      PROVE  \E status \in Statuses : Reply(status)
  BY <1>7, Zenon DEF HandleNewPayload, Answer, Reply, Statuses
<1>8. ASSUME HandleForkChoice
      PROVE  \E status \in Statuses : Reply(status)
  BY <1>8, Zenon DEF HandleForkChoice, Answer, Reply, Statuses
<1>9. ASSUME EndPoll \/ StopNetwork \/ UNCHANGED vars \/ \E b \in Blocks : EndBackfill(b)
      PROVE  Unmoved
  BY <1>9, Zenon DEF EndPoll, StopNetwork, vars, EndBackfill, Unmoved, service
<1> QED
  BY Steps, <1>1, <1>2, <1>3, <1>4, <1>5, <1>6, <1>7, <1>8, <1>9, ZenonT(30)

\* The queues stay in order.
LEMMA QueuesKept ==
  ASSUME Types, Queues, Order, [Next]_vars
  PROVE  Queues' /\ Order'
BY Moves, UnmovedQueues, ArriveQueues, SendQueues, DropQueues, ReplyQueues, PushQueues,
     Zenon

\* Every variable keeps its type.
LEMMA TypesKept ==
  ASSUME Types, Queues, [Next]_vars
  PROVE  Types'
<1>0. scenario' \in Scenarios
  BY Steps, Zenon DEF Types
<1>1. ASSUME NEW b \in Blocks, Announce(b)
      PROVE  Types'
  <2>0. announced' = Append(announced, b) /\ Len(announced) < MaxAnnounced
    BY <1>1, Zenon DEF Announce
  <2>1. announced' \in Seq(Blocks) /\ Len(announced') = Len(announced) + 1
    BY <2>0 DEF Types
  <2>2. Len(announced') \in 1..MaxAnnounced
    BY <2>0, <2>1, AnnouncedBlocks, BoundType
  <2>3. from_network' \in Seq(1..MaxAnnounced)
    <3> DEFINE N == 1..MaxAnnounced
               m == Len(announced')
    <3>1. m \in N /\ from_network \in Seq(N) /\ from_network' = Append(from_network, m)
      BY <2>2, <1>1, Zenon DEF Types, Announce
    <3> HIDE DEF N, m
    <3>2. Append(from_network, m) \in Seq(N)
      BY <3>1
    <3> QED
      BY <3>1, <3>2, Zenon DEF N
  <2>4. Len(announced') <= MaxAnnounced
    BY <2>2, BoundType
  <2> QED
    BY <1>0, <1>1, <2>1, <2>3, <2>4, Zenon DEF Types, Announce, service, engine
<1>2. ASSUME StartPoll
      PROVE  Types'
  <2>1. from_network' \in Seq(1..MaxAnnounced)
    BY <1>2 DEF StartPoll
  <2>2. ready' \in Seq(Futures) /\ pending_imports' \subseteq Futures
    BY <1>2, PushedType, Zenon DEF StartPoll, Types, Pushed
  <2> QED
    BY <1>0, <1>2, <2>1, <2>2, ZenonT(30) DEF Types, StartPoll, engine
<1>3. ASSUME NEW hash \in Nat, Send(hash)
      PROVE  ready' \in Seq(Futures) /\ Append(requests, [fut |-> Head(ready), hash |-> hash])
               \in Seq(EngineRequests)
             /\ Append(sent, [fut |-> Head(ready), hash |-> hash]) \in Seq(EngineRequests)
  <2>1. [fut |-> Head(ready), hash |-> hash] \in EngineRequests /\ ready' \in Seq(Futures)
    BY <1>3, HeadOfReady, Zenon DEF Send, EngineRequests
  <2> QED
    BY <2>1 DEF Types
<1>4. ASSUME SendPayload
      PROVE  Types'
  <2>1. announced[Head(ready)[2]].hash \in Nat
    BY <1>4, HeadOfReady, AnnouncedBlocks, BlockFacts, Zenon DEF SendPayload
  <2>2. Send(announced[Head(ready)[2]].hash)
    BY <1>4, <2>1, Zenon DEF SendPayload, Send, Yield
  <2>3. pc' \in {"parked", "polling", "failed"} /\ woken' \in BOOLEAN
    BY <1>4, Zenon DEF Types, SendPayload, Yield
  <2>4. ready' \in Seq(Futures) /\ requests' \in Seq(EngineRequests)
        /\ sent' \in Seq(EngineRequests)
    BY <1>3, <1>4, <2>1, <2>2, Zenon DEF SendPayload
  <2> QED
    BY <1>0, <1>4, <2>3, <2>4, ZenonT(30) DEF Types, SendPayload, Yield, engine
<1>5. ASSUME SendForkChoice
      PROVE  Types'
  <2>1. canonical_head(announced[Head(ready)[2]], best) \in Nat
    BY <1>5, HeadOfReady, AnnouncedBlocks, CanonicalHead, Zenon DEF SendForkChoice
  <2>2. Send(canonical_head(announced[Head(ready)[2]], best))
    BY <1>5, <2>1, Zenon DEF SendForkChoice, Send, Yield
  <2>3. pc' \in {"parked", "polling", "failed"} /\ woken' \in BOOLEAN
    BY <1>5, Zenon DEF Types, SendForkChoice, Yield
  <2>4. ready' \in Seq(Futures) /\ requests' \in Seq(EngineRequests)
        /\ sent' \in Seq(EngineRequests)
    BY <1>3, <1>5, <2>1, <2>2, ZenonT(30) DEF SendForkChoice
  <2> QED
    BY <1>0, <1>5, <2>3, <2>4, ZenonT(30) DEF Types, SendForkChoice, Yield, engine
<1>6. ASSUME ForkChoiceFails
      PROVE  Types'
  BY <1>0, <1>6, HeadOfReady, Zenon DEF Types, ForkChoiceFails, engine
<1>7. ASSUME Complete
      PROVE  Types'
  <2>1. to_network' \subseteq [fut : Futures, ok : BOOLEAN]
    <3> DEFINE report == [fut |-> Head(ready), ok |-> outcome_of(answers[Head(ready)]) = "ok"]
    <3>1. report \in [fut : Futures, ok : BOOLEAN]
      BY <1>7, HeadOfReady, Zenon DEF Complete
    <3>2. to_network' = to_network \/ to_network' = to_network \union {report}
      BY <1>7, Zenon DEF Complete
    <3> QED
      BY <3>1, <3>2, ZenonT(30) DEF Types
  <2>2. pc' \in {"parked", "polling", "failed"}
    BY <1>7, Zenon DEF Complete
  <2> QED
    BY <1>0, <1>7, <2>1, <2>2, HeadOfReady, Zenon DEF Types, Complete, engine
<1>8. ASSUME NEW status \in Statuses, Reply(status)
      PROVE  /\ answers' \in [Futures -> Statuses \union {"none"}]
             /\ requests' \in Seq(EngineRequests) /\ ready' \in Seq(Futures)
  <2>1. Head(requests).fut \in Futures /\ requests' \in Seq(EngineRequests)
    BY <1>8, HeadOfRequests, Zenon DEF Reply
  <2> QED
    BY <1>8, <2>1 DEF Types, Reply
<1>9. ASSUME HandleNewPayload
      PROVE  Types'
  <2>1. tree' \subseteq AllBlocks /\ best' \in tree'
    BY <1>9, HeadOfRequests, AnnouncedBlocks, Zenon DEF Types, HandleNewPayload
  <2>2. PICK status \in Statuses : Reply(status)
    BY <1>9, Zenon DEF HandleNewPayload, Answer, Reply, Statuses
  <2>3. /\ answers' \in [Futures -> Statuses \union {"none"}]
        /\ requests' \in Seq(EngineRequests) /\ ready' \in Seq(Futures)
    BY <1>8, <2>2, Zenon
  <2> QED
    BY <1>0, <1>9, <2>1, <2>3, Zenon DEF Types, HandleNewPayload, Answer
<1>10. ASSUME HandleForkChoice
       PROVE  Types'
  <2>1. best' \in tree
    <3>1. CASE Head(requests).hash \in Known
      BY <1>10, <3>1, ZenonT(30) DEF Types, HandleForkChoice, Known
    <3>2. CASE Head(requests).hash \notin Known
      BY <1>10, <3>2, ZenonT(30) DEF Types, HandleForkChoice
    <3> QED
      BY <3>1, <3>2, Zenon
  <2>2. PICK status \in Statuses : Reply(status)
    BY <1>10, Zenon DEF HandleForkChoice, Answer, Reply, Statuses
  <2>3. /\ answers' \in [Futures -> Statuses \union {"none"}]
        /\ requests' \in Seq(EngineRequests) /\ ready' \in Seq(Futures)
    BY <1>8, <2>2, Zenon
  <2> QED
    BY <1>0, <1>10, <2>1, <2>3, ZenonT(30) DEF Types, HandleForkChoice, Answer
<1>11. ASSUME NEW b \in Blocks, EndBackfill(b)
       PROVE  Types'
  <2>1. b \in AllBlocks
    BY Zenon DEF AllBlocks
  <2>2. tree' \subseteq AllBlocks /\ best' \in tree'
    BY <1>11, <2>1, ChainFacts, Zenon DEF Types, EndBackfill
  <2> QED
    BY <1>0, <1>11, <2>2, Zenon DEF Types, EndBackfill, service
<1>12. ASSUME EndPoll \/ StopNetwork \/ UNCHANGED vars
       PROVE  Types'
  BY <1>0, <1>12, Zenon DEF Types, EndPoll, StopNetwork, vars, service, engine
<1> QED
  BY Steps, <1>1, <1>2, <1>4, <1>5, <1>6, <1>7, <1>9, <1>10, <1>11, <1>12, ZenonT(30)

\* No poll_next polls more futures than there are.
LEMMA PollsKept ==
  ASSUME Types, Queues, Polls, [Next]_vars
  PROVE  Polls'
<1> DEFINE C == Cardinality(Futures)
           P == Cardinality(pending_imports)
<1>1. C \in Nat /\ P \in Nat /\ P <= C
  BY FuturesFinite, FS_Subset, FS_CardinalityType, Zenon DEF Types
<1>2. ready # <<>> => P > 0
  <2>1. IsFiniteSet(pending_imports)
    BY FuturesFinite, FS_Subset, Zenon DEF Types
  <2> QED
    BY <1>1, <2>1, FS_EmptySet, HeadOfReady
<1> HIDE DEF C, P
<1>3. ASSUME ready # <<>>, NEW f, Yield(f), pc = "polling"
      PROVE  Polls'
  <2>1. /\ polled' = polled + 1 /\ pending_imports' = pending_imports
        /\ polled' = P => pc' = "parked"
    BY <1>3, Zenon DEF Yield, P
  <2>2. polled \in Nat /\ (polled = 0 \/ polled < P)
    BY <1>3, Zenon DEF Polls, P
  <2>3. polled' \in Nat /\ polled' <= C /\ (polled' < P \/ polled' = P)
    BY <1>1, <1>2, <1>3, <2>1, <2>2, SMTT(30)
  <2> QED
    BY <2>1, <2>3, Zenon DEF Polls, C, P
<1>4. ASSUME polled' = 0
      PROVE  Polls'
  BY <1>1, <1>4 DEF Polls, C
<1>5. ASSUME polled' = polled, pc' = "parked" \/ (pc' = pc /\ pending_imports' = pending_imports)
      PROVE  Polls'
  BY <1>5, Zenon DEF Polls
<1>6. ASSUME SendPayload \/ SendForkChoice
      PROVE  ready # <<>> /\ pc = "polling" /\ Yield(Head(ready))
  BY <1>6, Zenon DEF SendPayload, SendForkChoice
<1>7. ASSUME StartPoll \/ Complete
      PROVE  polled' = 0
  BY <1>7, Zenon DEF StartPoll, Complete
<1>8. ASSUME \/ \E b \in Blocks : Announce(b)
             \/ \E b \in Blocks : EndBackfill(b)
             \/ ForkChoiceFails \/ EndPoll \/ HandleNewPayload \/ HandleForkChoice
             \/ StopNetwork \/ UNCHANGED vars
      PROVE  /\ polled' = polled
             /\ pc' = "parked" \/ (pc' = pc /\ pending_imports' = pending_imports)
  BY <1>8, Zenon DEF Announce, EndBackfill, ForkChoiceFails, EndPoll, HandleNewPayload,
       HandleForkChoice, StopNetwork, Answer, service, vars
<1> QED
  BY Steps, <1>3, <1>4, <1>5, <1>6, <1>7, <1>8, Zenon

\* What the engine knows of, it never forgets.
LEMMA TreeGrows ==
  ASSUME [Next]_vars
  PROVE  tree \subseteq tree' /\ Known \subseteq Known'
<1>1. tree \subseteq tree'
  BY Steps, Zenon DEF Announce, EndBackfill, StartPoll, SendPayload, SendForkChoice,
       ForkChoiceFails, Complete, EndPoll, HandleNewPayload, HandleForkChoice, StopNetwork,
       engine, vars
<1> QED
  BY <1>1, Zenon DEF Known

\* The engine hears of payloads first.
LEMMA SendingsKept ==
  ASSUME Types, Queues, Order, Sendings, [Next]_vars, Types', Queues', Order'
  PROVE  Sendings'
<1>1. ASSUME NEW n \in 1..Len(announced)
      PROVE  announced'[n] = announced[n]
  <2>1. announced' = announced \/ \E b \in Blocks : announced' = Append(announced, b)
    BY Moves, Zenon DEF Arrive, Unmoved, Push, Drop, Send, Reply
  <2>2. announced \in Seq(Blocks)
    BY ZenonT(30) DEF Types
  <2> QED
    BY <2>1, <2>2
<1>2. ASSUME NEW n \in 1..MaxAnnounced, answers[Payload(n)] # "none" \/ Requested(Payload(n))
      PROVE  n \in 1..Len(announced)
  BY <1>2, FutureTypes, AnnouncedBlocks, BoundType, SMTT(30) DEF Queues, Requested
<1>3. ASSUME sent' = sent,
             \A n \in 1..MaxAnnounced : answers'[Payload(n)] # "none" \/ Requested(Payload(n))'
               => answers[Payload(n)] # "none" \/ Requested(Payload(n))
      PROVE  Sendings'
  <2>1. PayloadBeforeForkChoice'
    BY <1>3, TreeGrows, ZenonT(30) DEF Sendings, PayloadBeforeForkChoice
  <2> QED
    BY <1>1, <1>2, <1>3, <2>1, ZenonT(30) DEF Sendings
<1>4. ASSUME Unmoved \/ Push \/ Drop \/ (\E b \in Blocks : Arrive(b))
      PROVE  \A n \in 1..MaxAnnounced : answers'[Payload(n)] # "none" \/ Requested(Payload(n))'
               => answers[Payload(n)] # "none" \/ Requested(Payload(n))
  BY <1>4, Zenon DEF Unmoved, Push, Drop, Arrive, Requested
<1>5. ASSUME NEW status \in Statuses, Reply(status)
      PROVE  \A n \in 1..MaxAnnounced : answers'[Payload(n)] # "none" \/ Requested(Payload(n))'
               => answers[Payload(n)] # "none" \/ Requested(Payload(n))
  <2> DEFINE h == Head(requests).fut
  <2>1. h \in Futures /\ Requested(h)
    BY <1>5, HeadOfRequests, Zenon DEF Reply
  <2>2. \A f \in Futures : f # h => answers'[f] = answers[f]
    BY <1>5, <2>1, ZenonT(30) DEF Reply, Types
  <2>3. ASSUME NEW i \in 1..Len(requests')
        PROVE  i + 1 \in 1..Len(requests) /\ requests'[i] = requests[i + 1]
    BY <1>5 DEF Reply, Types
  <2>4. \A f : Requested(f)' => Requested(f)
    BY <2>3, ZenonT(30) DEF Requested
  <2> QED
    BY <2>1, <2>2, <2>4, FutureTypes, ZenonT(30)
<1>6. ASSUME NEW hash \in Nat, Send(hash),
             sent' = Append(sent, [fut |-> Head(ready), hash |-> hash]),
             Head(ready)[1] = "new_payload" => hash = announced[Head(ready)[2]].hash,
             Head(ready)[1] = "update_fork_choice" =>
               \/ hash \in Known
               \/ \E k \in 1..Len(sent) : sent[k].fut[1] = "new_payload" /\ sent[k].hash = hash
      PROVE  Sendings'
  <2> DEFINE f == Head(ready)
             S == Len(sent)
  <2>1. /\ S \in Nat /\ Len(sent') = S + 1
        /\ \A k \in 1..S : sent'[k] = sent[k]
        /\ sent'[S + 1].fut = f /\ sent'[S + 1].hash = hash
    BY <1>6, SMTT(30) DEF Types
  <2>2. f \in Futures /\ f[2] \in 1..Len(announced) /\ announced' = announced
        /\ answers' = answers
    BY <1>6, HeadOfReady, Zenon DEF Send
  <2>3. \A g : Requested(g)' => Requested(g) \/ g = f
    BY <1>6, SMTT(30) DEF Requested, Send, Types
  <2>4. ASSUME NEW n \in 1..MaxAnnounced,
               answers'[Payload(n)] # "none" \/ Requested(Payload(n))'
        PROVE  \E k \in 1..Len(sent') :
                 sent'[k].fut = Payload(n) /\ sent'[k].hash = announced'[n].hash
    <3>1. CASE Payload(n) = f
      <4>1. f[1] = "new_payload" /\ f[2] = n
        BY <3>1 DEF Payload
      <4> QED
        BY <1>6, <2>1, <2>2, <3>1, <4>1
    <3>2. CASE answers[Payload(n)] # "none" \/ Requested(Payload(n))
      <4>1. PICK k \in 1..S : sent[k].fut = Payload(n) /\ sent[k].hash = announced[n].hash
        BY <3>2, ZenonT(30) DEF Sendings
      <4> QED
        BY <4>1, <2>1, <2>2
    <3> QED
      BY <2>2, <2>3, <2>4, <3>1, <3>2, Zenon
  <2>5. PayloadBeforeForkChoice'
    <3> SUFFICES ASSUME NEW i \in 1..Len(sent'), sent'[i].fut[1] = "update_fork_choice",
                        sent'[i].hash \notin Known'
                 PROVE  \E j \in 1..(i - 1) : sent'[j].fut[1] = "new_payload"
                                             /\ sent'[j].hash = sent'[i].hash
      BY Zenon DEF PayloadBeforeForkChoice
    <3>1. CASE i \in 1..S
      <4>1. PICK j \in 1..(i - 1) : sent[j].fut[1] = "new_payload" /\ sent[j].hash = sent[i].hash
        BY <3>1, <2>1, TreeGrows, Zenon DEF Sendings, PayloadBeforeForkChoice
      <4> QED
        BY <4>1, <3>1, <2>1
    <3>2. CASE i = S + 1
      <4>1. PICK k \in 1..S : sent[k].fut[1] = "new_payload" /\ sent[k].hash = hash
        BY <1>6, <3>2, <2>1, TreeGrows, Zenon
      <4> QED
        BY <4>1, <3>2, <2>1
    <3> QED
      BY <3>1, <3>2, <2>1
  <2> QED
    BY <2>4, <2>5, ZenonT(30) DEF Sendings
<1>7. ASSUME SendPayload
      PROVE  Sendings'
  <2> DEFINE hash == announced[Head(ready)[2]].hash
  <2>1. hash \in Nat
    BY <1>7, HeadOfReady, AnnouncedBlocks, BlockFacts, Zenon DEF SendPayload
  <2>2. Send(hash) /\ sent' = Append(sent, [fut |-> Head(ready), hash |-> hash])
        /\ Head(ready)[1] = "new_payload"
    BY <1>7, <2>1, Zenon DEF SendPayload, Send, Yield
  <2>3. Head(ready)[1] # "update_fork_choice"
    BY <2>2, Zenon
  <2> QED
    BY <1>6, <2>1, <2>2, <2>3, Zenon
<1>8. ASSUME SendForkChoice
      PROVE  Sendings'
  <2> DEFINE n == Head(ready)[2]
             b == announced[n]
             hash == canonical_head(b, best)
  <2>1. b \in AllBlocks /\ best \in AllBlocks /\ n \in 1..MaxAnnounced
    BY <1>8, HeadOfReady, AnnouncedBlocks, Zenon DEF SendForkChoice
  <2>2. hash \in Nat /\ (hash = b.hash \/ hash = best.hash)
    BY <2>1, CanonicalHead, Zenon
  <2>3. Send(hash) /\ sent' = Append(sent, [fut |-> Head(ready), hash |-> hash])
        /\ Head(ready)[1] = "update_fork_choice"
    BY <1>8, <2>2, Zenon DEF SendForkChoice, Send, Yield
  <2>4. Head(ready)[1] # "new_payload"
    BY <2>3, Zenon
  <2>5. best.hash \in Known
    BY Zenon DEF Types, Known
  <2>6. \E k \in 1..Len(sent) : sent[k].fut[1] = "new_payload" /\ sent[k].hash = b.hash
    <3>1. ready[1] = ForkChoice(n) /\ 1 \in 1..Len(ready)
      BY <1>8, <2>3, HeadOfReady, FutureTypes, Zenon DEF SendForkChoice
    <3>2. answers[Payload(n)] # "none" \/ Requested(Payload(n))
      <4>1. ~ \E j \in 1..(1 - 1) : ready[j] = Payload(n)
        OBVIOUS
      <4> QED
        BY <3>1, <4>1, <2>1, Zenon DEF Order
    <3>3. PICK k \in 1..Len(sent) : sent[k].fut = Payload(n) /\ sent[k].hash = b.hash
      BY <3>2, <2>1, Zenon DEF Sendings
    <3> QED
      BY <3>3 DEF Payload
  <2> QED
    BY <1>6, <2>2, <2>3, <2>4, <2>5, <2>6, Zenon
<1>9. ASSUME ~ SendPayload, ~ SendForkChoice
      PROVE  sent' = sent
             /\ (\/ Unmoved \/ Push \/ Drop \/ (\E b \in Blocks : Arrive(b))
                 \/ \E status \in Statuses : Reply(status))
  <2>1. sent' = sent /\ (Len(requests') <= Len(requests))
    <3>1. sent' = sent /\ (requests' = requests \/ (requests # <<>> /\ requests' = Tail(requests)))
      BY <1>9, Steps, ZenonT(30) DEF Announce, EndBackfill, StartPoll, ForkChoiceFails, Complete,
           EndPoll, HandleNewPayload, HandleForkChoice, StopNetwork, Answer, vars
    <3> QED
      BY <3>1 DEF Types
  <2>2. ~ \E hash \in Nat : Send(hash)
    <3> SUFFICES ASSUME NEW hash \in Nat,
                        requests' = Append(requests, [fut |-> Head(ready), hash |-> hash])
                 PROVE  FALSE
      BY Zenon DEF Send
    <3> QED
      BY <2>1 DEF Types
  <2> QED
    BY <2>1, <2>2, Moves, Zenon
<1> QED
  BY <1>3, <1>4, <1>5, <1>7, <1>8, <1>9, Zenon

--------------------------------------------------------------------------------
\* Blocks that arrive one at a time.

\* Where the head is when it hears of the last block's fork choice: the block that
\* was the head, or the last one if that beats it.
LEMMA CalmForkChoice ==
  ASSUME Types, Queues, Order, CalmState, HandleForkChoice
  PROVE  /\ Len(announced) \in 1..MaxAnnounced
         /\ Head(requests).fut = ForkChoice(Len(announced))
         /\ best' = best \/ (best' = announced[Len(announced)] /\ Beats(best', best))
         /\ \A c \in tree : ~ Beats(c, best')
<1> DEFINE n == Len(announced)
           b == announced[n]
           r == Head(requests)
<1>1. requests # <<>> /\ r.fut[1] = "update_fork_choice" /\ tree' = tree
  BY Zenon DEF HandleForkChoice
<1>2. r.fut \in Futures /\ r.fut[2] = n /\ n \in 1..MaxAnnounced /\ n \in 1..Len(announced)
      /\ 1 \in 1..Len(requests) /\ r = requests[1]
  BY <1>1, HeadOfRequests, Zenon DEF CalmState
<1>3. r.fut = ForkChoice(n)
  <2>1. r.fut = ForkChoice(r.fut[2])
    BY <1>1, <1>2, FutureTypes, Zenon
  <2> QED
    BY <2>1, <1>2, Zenon
<1>4. r.hash = canonical_head(b, best)
  BY <1>2, <1>3, Zenon DEF CalmState
<1>5. b \in AllBlocks /\ best \in AllBlocks /\ best \in tree /\ tree \subseteq AllBlocks
  BY <1>2, AnnouncedBlocks, Zenon DEF Types
<1>6. \A c \in tree : Beats(c, best) => c = b
  BY Zenon DEF CalmState
<1>7. ~ backfilling
  BY Zenon DEF CalmState
<1>8. best \in Chain(best) /\ \A c \in Chain(best) : c \in AllBlocks /\ ~ Beats(c, best)
  <2>1. best \in Chain(best) /\ Chain(best) \subseteq AllBlocks
        /\ \A c \in Chain(best) : c = best \/ c.number < best.number
    BY <1>5, ChainFacts, Zenon
  <2> QED
    BY <2>1, <1>5, BlockFacts DEF Beats
<1> HIDE DEF b, n, r
<1>9. CASE Beats(b, best) /\ b \in tree
  <2>1. r.hash = b.hash
    BY <1>4, <1>5, <1>9, CanonicalHead, Zenon
  <2>2. r.hash \in Known /\ ~ \E c \in Chain(best) : c.hash = r.hash
    <3>1. r.hash \in Known
      BY <1>9, <2>1, Zenon DEF Known
    <3>2. ASSUME NEW c \in Chain(best), c.hash = r.hash
          PROVE  FALSE
      <4>1. c.hash = b.hash /\ c \in AllBlocks /\ ~ Beats(c, best)
        BY <1>8, <2>1, <3>2, Zenon
      <4>2. c = b
        BY <4>1, <1>5, BlockFacts, Zenon
      <4> QED
        BY <4>1, <4>2, <1>9, Zenon
    <3> QED
      BY <3>1, <3>2, Zenon
  <2>3. best' = CHOOSE c \in tree : c.hash = r.hash
    BY <1>7, <2>2, Zenon DEF HandleForkChoice, r
  <2>4. best' \in tree /\ best'.hash = r.hash
    BY <2>1, <2>3, <1>9, Zenon
  <2>5. best' = b
    <3>1. best'.hash = b.hash /\ best' \in AllBlocks
      BY <2>1, <2>4, <1>5, Zenon
    <3> QED
      BY <3>1, <1>5, BlockFacts, Zenon
  <2>6. ASSUME NEW c \in tree, Beats(c, b)
        PROVE  FALSE
    <3>1. c \in AllBlocks
      BY <1>5, Zenon
    <3>2. Beats(c, best)
      BY <2>6, <3>1, <1>5, <1>9, BlockFacts DEF Beats
    <3>3. c = b
      BY <3>2, <1>6, Zenon
    <3> QED
      BY <3>3, <2>6, <1>5, BlockFacts, SMTT(30) DEF Beats
  <2> QED
    BY <1>2, <1>3, <1>9, <2>5, <2>6, ZenonT(30) DEF n, b, r
<1>10. CASE ~ Beats(b, best)
  <2>1. r.hash = best.hash
    BY <1>4, <1>5, <1>10, CanonicalHead, ZenonT(30)
  <2>2. best' = best
    BY <2>1, <1>8, Zenon DEF HandleForkChoice, r
  <2> QED
    BY <1>2, <1>3, <1>6, <1>10, <2>2, ZenonT(30) DEF n, b, r
<1>11. CASE Beats(b, best) /\ b \notin tree
  <2>1. r.hash = b.hash
    BY <1>4, <1>5, <1>11, CanonicalHead, Zenon
  <2>2. r.hash \notin Known
    <3> SUFFICES ASSUME NEW c \in tree, c.hash = r.hash
                 PROVE  FALSE
      BY Zenon DEF Known
    <3>1. c.hash = b.hash /\ c \in AllBlocks
      BY <2>1, <1>5, Zenon
    <3>2. c = b
      BY <3>1, <1>5, BlockFacts, ZenonT(30)
    <3> QED
      BY <3>2, <1>11, Zenon
  <2>3. best' = best
    BY <2>2, Zenon DEF HandleForkChoice, r
  <2> QED
    BY <1>2, <1>3, <1>6, <1>11, <2>3, ZenonT(30) DEF n, b, r
<1> QED
  BY <1>9, <1>10, <1>11, Zenon

\* No step of a calm scenario breaks its invariant.
LEMMA CalmKept ==
  ASSUME Types, Queues, Order, CalmInv, [Next]_vars, Types', Queues'
  PROVE  CalmInv'
<1> SUFFICES ASSUME Calm, CalmState
             PROVE  CalmState'
  BY Steps, Zenon DEF CalmInv, Calm
<1> DEFINE n == Len(announced)
<1>0. ~ scenario.failures /\ ~ backfilling /\ network = "up" /\ pc # "failed" /\ n \in Nat
  BY AnnouncedBlocks, ZenonT(30) DEF Calm, CalmState
<1>1. ASSUME NEW b \in Blocks, Announce(b)
      PROVE  CalmState'
  <2>1. Quiet /\ announced' = Append(announced, b)
        /\ from_network' = Append(from_network, Len(announced'))
        /\ UNCHANGED <<pending_imports, answers, requests, tree, best, backfilling, network, pc>>
    BY <1>1, Zenon DEF Announce, Calm, service, engine
  <2>2. from_network' = <<Len(announced')>> /\ Len(announced') = n + 1
    BY <2>1 DEF Quiet, Types
  <2>3. \A c \in tree : ~ Beats(c, best)
    BY <2>1, Zenon DEF CalmState, Quiet
  <2>4. pending_imports' = {} /\ requests' = <<>>
    BY <2>1, ZenonT(30) DEF Quiet
  <2> QED
    BY <1>0, <2>1, <2>2, <2>3, <2>4 DEF CalmState
<1>2. ASSUME StartPoll
      PROVE  CalmState'
  <2>1. from_network' = <<>> /\ pending_imports' = pending_imports \union Range(Pushed)
        /\ pc' = "polling"
        /\ UNCHANGED <<announced, answers, requests, tree, best, backfilling, network>>
    BY <1>2, Zenon DEF StartPoll, Pushed, engine
  <2>2. ASSUME NEW f \in Range(Pushed)
        PROVE  f[2] = n
    <3>1. PICK k \in 1..Len(from_network) :
            f = Payload(from_network[k]) \/ f = ForkChoice(from_network[k])
      <4>1. Pushed \in Seq(Futures)
        BY PushedFutures, Zenon
      <4>2. PICK i \in 1..Len(Pushed) : f = Pushed[i]
        BY <4>1 DEF Range
      <4> QED
        BY <4>2, PushedFutures, Zenon
    <3>2. from_network[k] = n
      BY Zenon DEF CalmState
    <3> QED
      BY <3>1, <3>2 DEF Payload, ForkChoice
  <2>3. from_network # <<>> => ForkChoice(n) \in Range(Pushed)
    <3> SUFFICES ASSUME from_network # <<>>
                 PROVE  ForkChoice(n) \in Range(Pushed)
      BY Zenon
    <3>1. 1 \in 1..Len(from_network)
      BY DEF Types
    <3>2. from_network[1] = n
      BY <3>1, Zenon DEF CalmState
    <3>3. 2 * 1 \in 1..Len(Pushed) /\ Pushed[2 * 1] = ForkChoice(n) /\ Pushed \in Seq(Futures)
      BY <3>1, <3>2, PushedFutures, Zenon
    <3> QED
      BY <3>3 DEF Range
  <2>4. Len(from_network') = 0 /\ pc' # "failed"
    BY <2>1, Zenon
  <2> QED
    BY <1>0, <2>1, <2>2, <2>3, <2>4 DEF CalmState
<1>3. ASSUME pc' # "failed", requests' = requests, tree' = tree, best' = best,
             answers' = answers, announced' = announced, from_network' = from_network,
             backfilling' = backfilling, network' = network,
             pending_imports' \subseteq pending_imports,
             \A f \in pending_imports \ pending_imports' : answers[f] # "none"
      PROVE  CalmState'
  BY <1>3, Zenon DEF CalmState
<1>4. ASSUME EndPoll \/ Complete \/ UNCHANGED vars
      PROVE  CalmState'
  <2>1. /\ pc' # "failed" /\ requests' = requests /\ tree' = tree /\ best' = best
        /\ answers' = answers /\ announced' = announced /\ from_network' = from_network
        /\ backfilling' = backfilling /\ network' = network
        /\ pending_imports' \subseteq pending_imports
        /\ \A f \in pending_imports \ pending_imports' : answers[f] # "none"
    BY <1>0, <1>4, Zenon DEF EndPoll, Complete, vars, engine
  <2> QED
    BY <1>3, <2>1, ZenonT(30)
<1>5. ASSUME ForkChoiceFails \/ StopNetwork \/ \E b \in Blocks : EndBackfill(b)
      PROVE  FALSE
  BY <1>0, <1>5, Zenon DEF ForkChoiceFails, StopNetwork, EndBackfill
<1>6. ASSUME SendPayload \/ SendForkChoice
      PROVE  CalmState'
  <2> DEFINE f == Head(ready)
  <2>1. PICK hash :
          /\ ready # <<>> /\ pc' # "failed"
          /\ UNCHANGED <<announced, from_network, pending_imports, answers, tree, best,
                         backfilling, network>>
          /\ requests' = Append(requests, [fut |-> f, hash |-> hash])
          /\ f[1] = "update_fork_choice" => hash = canonical_head(announced[f[2]], best)
    <3>1. "new_payload" # "update_fork_choice" /\ "parked" # "failed"
      BY Zenon
    <3>2. CASE SendPayload
      BY <1>0, <3>1, <3>2, Zenon DEF SendPayload, Yield, engine
    <3>3. CASE SendForkChoice
      BY <1>0, <3>1, <3>3, ZenonT(30) DEF SendForkChoice, Yield, engine
    <3> QED
      BY <1>6, <3>2, <3>3, Zenon
  <2>2. /\ Len(requests) \in Nat /\ Len(requests') = Len(requests) + 1
        /\ \A i \in 1..Len(requests) : requests'[i] = requests[i]
        /\ requests'[Len(requests) + 1] = [fut |-> f, hash |-> hash]
    <3>1. requests \in Seq(EngineRequests)
          /\ requests' = Append(requests, [fut |-> f, hash |-> hash])
      BY <2>1, Zenon DEF Types
    <3> HIDE DEF f
    <3> QED
      BY <3>1
  <2>3. f \in Futures /\ f[2] = n
    BY <2>1, HeadOfReady, ZenonT(30) DEF CalmState
  <2>4. ASSUME NEW i \in 1..Len(requests'), requests'[i].fut = ForkChoice(n)
        PROVE  requests'[i].hash = canonical_head(announced[n], best)
    <3>1. CASE i \in 1..Len(requests)
      BY <2>2, <2>4, <3>1, Zenon DEF CalmState
    <3>2. CASE i = Len(requests) + 1
      <4>1. f[1] = "update_fork_choice" /\ requests'[i].hash = hash
        BY <2>2, <2>4, <3>2, SMTT(30) DEF ForkChoice
      <4> QED
        BY <4>1, <2>1, <2>3, ZenonT(30)
    <3>3. i \in 1..Len(requests) \/ i = Len(requests) + 1
      BY <2>2
    <3> QED
      BY <3>1, <3>2, <3>3, ZenonT(30)
  <2> QED
    BY <1>0, <2>1, <2>4, ZenonT(30) DEF CalmState
<1>7. ASSUME NEW status \in Statuses, Reply(status), UNCHANGED <<backfilling, network, pc>>
      PROVE  LET h == Head(requests).fut
             IN  /\ h \in Futures /\ h[2] = n /\ n \in 1..MaxAnnounced
                 /\ answers[h] = "none" /\ answers'[h] # "none"
                 /\ \A f \in Futures : f # h => answers'[f] = answers[f]
                 /\ \A i \in 1..Len(requests') :
                      i + 1 \in 1..Len(requests) /\ requests'[i] = requests[i + 1]
                 /\ requests # <<>>
  <2> DEFINE h == Head(requests).fut
  <2>1. h \in Futures /\ h[2] = n /\ n \in 1..MaxAnnounced /\ answers[h] = "none"
        /\ requests # <<>>
    BY <1>7, HeadOfRequests, Zenon DEF Reply, CalmState
  <2>2. answers'[h] # "none" /\ \A f \in Futures : f # h => answers'[f] = answers[f]
    BY <1>7, <2>1, ZenonT(30) DEF Reply, Types, Statuses
  <2>3. \A i \in 1..Len(requests') :
          i + 1 \in 1..Len(requests) /\ requests'[i] = requests[i + 1]
    BY <1>7 DEF Reply, Types
  <2> QED
    BY <2>1, <2>2, <2>3, Zenon
<1>8. ASSUME HandleForkChoice
      PROVE  CalmState'
  <2>1. PICK status \in Statuses : Reply(status) /\ UNCHANGED <<backfilling, network, pc>>
    BY <1>8, Zenon DEF HandleForkChoice, Answer, Reply, Statuses
  <2>2. /\ Head(requests).fut = ForkChoice(n) /\ \A c \in tree : ~ Beats(c, best')
        /\ tree' = tree
    BY <1>8, CalmForkChoice, Zenon DEF HandleForkChoice
  <2>3. answers'[ForkChoice(n)] # "none" /\ UNCHANGED <<announced, from_network, pending_imports>>
    BY <1>7, <2>1, <2>2, ZenonT(30) DEF Reply
  <2>4. ASSUME NEW i \in 1..Len(requests')
        PROVE  requests'[i].fut # ForkChoice(n)
    BY <2>3, Zenon DEF Queues
  <2> QED
    BY <1>0, <2>1, <2>2, <2>3, <2>4, Zenon DEF CalmState
<1>9. ASSUME HandleNewPayload
      PROVE  CalmState'
  <2> DEFINE h == Head(requests).fut
  <2>1. PICK status \in Statuses : Reply(status) /\ UNCHANGED <<backfilling, network, pc>>
    BY <1>9, Zenon DEF HandleNewPayload, Answer, Reply, Statuses
  <2>2. /\ h \in Futures /\ h[2] = n /\ n \in 1..MaxAnnounced
        /\ answers[h] = "none" /\ answers'[h] # "none" /\ requests # <<>>
        /\ \A f \in Futures : f # h => answers'[f] = answers[f]
        /\ \A i \in 1..Len(requests') :
             i + 1 \in 1..Len(requests) /\ requests'[i] = requests[i + 1]
    BY <1>7, <2>1, Zenon
  <2>3. h[1] = "new_payload" /\ best' = best
        /\ (tree' = tree \/ tree' = tree \union {announced[h[2]]})
        /\ UNCHANGED <<announced, from_network, pending_imports>>
    BY <1>9, Zenon DEF HandleNewPayload, Answer
  <2>4. h = Payload(n)
    BY <2>2, <2>3, FutureTypes, ZenonT(30)
  <2>5. answers[ForkChoice(n)] = "none" /\ answers'[ForkChoice(n)] = "none" /\ n > 0
    <3>1. answers[ForkChoice(n)] = "none"
      BY <2>2, <2>4, Zenon DEF Order
    <3>2. ForkChoice(n) \in Futures /\ ForkChoice(n) # h
      BY <2>2, <2>4, FutureTypes, Zenon
    <3> QED
      BY <2>2, <3>1, <3>2, BoundType
  <2>6. ASSUME NEW c \in tree', Beats(c, best)
        PROVE  c = announced[n]
    <3>1. c \in tree \/ c = announced[n]
      BY <2>2, <2>3
    <3> QED
      BY <3>1, <2>6, ZenonT(30) DEF CalmState
  <2>7. ASSUME NEW i \in 1..Len(requests'), requests'[i].fut = ForkChoice(n)
        PROVE  requests'[i].hash = canonical_head(announced[n], best)
    BY <2>2, <2>7, Zenon DEF CalmState
  <2> QED
    BY <1>0, <2>1, <2>3, <2>5, <2>6, <2>7, ZenonT(30) DEF CalmState
<1> QED
  BY Steps, <1>1, <1>2, <1>4, <1>5, <1>6, <1>8, <1>9, ZenonT(30)

--------------------------------------------------------------------------------
\* The theorems.

\* The invariant holds whatever happens.
LEMMA AlwaysInv ==
  Spec => [](Inv /\ CalmInv)
<1>1. Init => Inv /\ CalmInv
  <2> SUFFICES ASSUME Init
               PROVE  Inv /\ CalmInv
    BY Zenon
  <2>1. Types
    <3>1. backfilling \in BOOLEAN
      <4>1. scenario \in [arrivals : {"in order", "any order", "one at a time"},
                         bad : SUBSET Blocks, backfilling : BOOLEAN, failures : BOOLEAN]
        BY BlockAssumption, Zenon DEF Init
      <4> QED
        BY <4>1, Zenon DEF Init
    <3>2. /\ announced \in Seq(Blocks) /\ Len(announced) <= MaxAnnounced
          /\ from_network \in Seq(1..MaxAnnounced) /\ ready \in Seq(Futures)
          /\ requests \in Seq(EngineRequests) /\ sent \in Seq(EngineRequests)
      BY BoundType DEF Init
    <3> QED
      BY <3>1, <3>2, Zenon DEF Init, Types, AllBlocks
  <2>2. Queues
    BY FutureTypes DEF Init, Queues, Requested
  <2>3. Polls
    BY FuturesFinite DEF Init, Polls
  <2>4. Order
    BY FutureTypes, SMTT(30) DEF Init, Order
  <2>5. Sendings
    BY FutureTypes DEF Init, Sendings, PayloadBeforeForkChoice, Requested
  <2>6. CalmInv
    <3>1. Genesis \in AllBlocks
      BY Zenon DEF AllBlocks
    <3>2. ~ Beats(Genesis, Genesis)
      BY <3>1, BlockFacts DEF Beats
    <3>3. /\ tree = {Genesis} /\ best = Genesis /\ pending_imports = {}
          /\ backfilling = scenario.backfilling /\ network = "up" /\ pc # "failed"
          /\ Len(announced) = 0 /\ Len(from_network) = 0 /\ Len(requests) = 0
      BY Zenon DEF Init
    <3>4. Calm => ~ backfilling
      BY <3>3, Zenon DEF Calm
    <3> QED
      BY <3>2, <3>3, <3>4 DEF CalmInv, CalmState
  <2> QED
    BY <2>1, <2>2, <2>3, <2>4, <2>5, <2>6, Zenon DEF Inv
<1>2. Inv /\ CalmInv /\ [Next]_vars => (Inv /\ CalmInv)'
  BY TypesKept, QueuesKept, PollsKept, SendingsKept, CalmKept, Zenon DEF Inv
<1> QED
  BY <1>1, <1>2, PTL DEF Spec

\* Type correctness: whatever is announced, polled and answered in whatever order,
\* the ready queue and the engine hold only futures of the FuturesUnordered.
THEOREM TypesAreKept ==
  Spec => []TypeOK
<1>1. Inv => TypeOK
  <2> SUFFICES ASSUME Types, Queues, Polls
               PROVE  TypeOK
    BY Zenon DEF Inv
  <2>1. Range(from_network) \subseteq 1..Len(announced)
    <3>1. ASSUME NEW k \in 1..Len(from_network)
          PROVE  from_network[k] \in 1..Len(announced)
      BY ChannelType, AnnouncedBlocks, BoundType DEF Queues
    <3>2. Range(from_network) = {from_network[k] : k \in 1..Len(from_network)}
      <4> DEFINE N == 1..MaxAnnounced
      <4>1. from_network \in Seq(N)
        BY Zenon DEF Types
      <4> HIDE DEF N
      <4> QED
        BY <4>1 DEF Range
    <3> QED
      BY <3>1, <3>2, Zenon
  <2>2. Range(ready) \subseteq pending_imports
    <3>1. ready \in Seq(Futures)
      BY Zenon DEF Types
    <3> QED
      BY <3>1 DEF Range, Queues
  <2>3. polled \in 0..Cardinality(Futures)
    BY FuturesFinite DEF Polls
  <2>4. \A i \in 1..Len(requests) : requests[i].fut \in pending_imports
    BY Zenon DEF Queues
  <2> QED
    BY <2>1, <2>2, <2>3, <2>4, Zenon DEF Types, TypeOK, AllBlocks
<1> QED
  BY <1>1, AlwaysInv, PTL

\* on_new_block pushes new_payload before update_fork_choice, and no interleaving of
\* polls, answers, failures and backfill sync lets a fork choice name a block that the
\* engine has neither heard of nor has.
THEOREM PayloadsComeFirst ==
  Spec => []PayloadBeforeForkChoice
<1>1. Inv => PayloadBeforeForkChoice
  BY Zenon DEF Inv, Sendings
<1> QED
  BY <1>1, AlwaysInv, PTL

\* The rule of canonical_head, applied by update_fork_choice to one block after the
\* other, leaves the head where no block the engine has beats it, on any tree of
\* blocks.
THEOREM HeadsAreCanonical ==
  Spec => []HeadIsCanonical
<1>1. Inv /\ CalmInv => HeadIsCanonical
  <2> SUFFICES ASSUME Types, CalmState, Quiet, NEW b \in tree
               PROVE  \/ b.number < best.number
                      \/ b.number = best.number /\ b.hash >= best.hash
    BY Zenon DEF Inv, CalmInv, HeadIsCanonical
  <2>1. ~ Beats(b, best)
    BY Zenon DEF CalmState, Quiet
  <2>2. b \in AllBlocks /\ best \in AllBlocks
    BY Zenon DEF Types
  <2> QED
    BY <2>1, <2>2, BlockFacts DEF Beats
<1> QED
  BY <1>1, AlwaysInv, PTL

\* While blocks arrive one at a time no step lowers the head.
THEOREM HeadsNeverDrop ==
  Spec => HeadNeverDrops
<1>1. Inv /\ CalmInv /\ [Next]_vars => [Calm => best'.number >= best.number]_vars
  <2> SUFFICES ASSUME Types, Queues, Order, CalmState, Calm, [Next]_vars
               PROVE  best'.number >= best.number
    BY Zenon DEF Inv, CalmInv
  <2>1. best \in AllBlocks
    BY AnnouncedBlocks, Zenon
  <2>2. CASE best' = best
    BY <2>1, <2>2, BlockFacts
  <2>3. CASE HandleForkChoice
    <3>1. best' = best \/ (best' \in AllBlocks /\ Beats(best', best))
      BY <2>3, CalmForkChoice, AnnouncedBlocks
    <3> QED
      BY <3>1, <2>1, <2>2, BlockFacts DEF Beats
  <2>4. best' = best \/ HandleForkChoice
    <3>1. ~ backfilling
      BY Zenon DEF CalmState
    <3> QED
      BY <3>1, Steps, Zenon DEF Announce, EndBackfill, StartPoll, SendPayload,
           SendForkChoice,
           ForkChoiceFails, Complete, EndPoll, HandleNewPayload, StopNetwork, engine, vars
  <2> QED
    BY <2>2, <2>3, <2>4, Zenon
<1> QED
  BY <1>1, AlwaysInv, PTL DEF Spec, HeadNeverDrops
================================================================================
