------------------------------ MODULE BlockImport ------------------------------
(***************************************************************************)
(* The block import service (src/src/node/network/block_import/service.rs) *)
(* and the fork choice rule (src/src/consensus.rs): one tokio task that    *)
(* turns every announced block into a new_payload and a forkchoice_updated *)
(* request, driven by a FuturesUnordered, racing with the engine that      *)
(* answers them and moves the head the rule reads.                         *)
(***************************************************************************)
EXTENDS Integers, Sequences, FiniteSets, Functions

CONSTANTS
  Blocks,           \* blocks the peer can announce: [number, hash, parent]
  Genesis,          \* the block the node starts from
  MaxAnnounced,     \* bound on the number of announcements
  Scenarios         \* what happens around the service:
                    \*  arrivals: blocks come "in order", once each in "any order", or
                    \*    "one at a time" (any order, repeats included, each after
                    \*    the one before is dealt with)
                    \*  bad: blocks whose execution fails
                    \*  backfilling: the engine starts in backfill sync
                    \*  failures: reading the head from the database may fail, and
                    \*    the network end of the channel may be dropped

\* A hash identifies its block, and a block comes after its parent: the engine's
\* validation compares their numbers.
ASSUME BlockAssumption ==
  /\ Blocks \union {Genesis} \subseteq [number : Nat, hash : Nat, parent : Int]
  /\ Genesis \notin Blocks
  /\ \A b, c \in Blocks \union {Genesis} :
       /\ b.hash = c.hash => b = c
       /\ b.hash = c.parent => b.number < c.number
  /\ MaxAnnounced \in Nat
  /\ Scenarios \subseteq [arrivals : {"in order", "any order", "one at a time"},
                          bad : SUBSET Blocks, backfilling : BOOLEAN, failures : BOOLEAN]

Kinds == {"new_payload", "update_fork_choice"}
Statuses == {"Valid", "Invalid", "Syncing"}

\* The future of the given kind for the n-th announcement.
Futures == Kinds \X (1..MaxAnnounced)

VARIABLES
  scenario,         \* the scenario, fixed from the start
  announced,        \* every block announced so far, in order
  from_network,     \* announcements the service has not received yet
  pending_imports,  \* the futures in the FuturesUnordered
  ready,            \* its ready-to-run queue
  answers,          \* the engine's answer to a future, "none" before it
  polled,           \* futures this poll_next has polled without completing one
  pc,               \* "parked", "polling" or "failed"
  woken,            \* the task's waker has fired since its last poll
  requests,         \* the engine's queue: [fut, hash]
  tree,             \* blocks the engine has executed or synced
  best,             \* the canonical head, as the provider reports it
  backfilling,      \* the engine is in backfill sync
  to_network,       \* outcomes reported: [fut, ok]
  network,          \* "up" or "gone"
  sent              \* history: every request ever sent to the engine, in order

service == <<pending_imports, ready, polled, pc, to_network>>
engine == <<tree, best, backfilling>>
vars == <<scenario, announced, from_network, pending_imports, ready, answers, polled, pc,
          woken, requests, tree, best, backfilling, to_network, network, sent>>

Init ==
  /\ scenario \in Scenarios
  /\ announced = <<>> /\ from_network = <<>>
  /\ pending_imports = {} /\ ready = <<>>
  /\ answers = [f \in Futures |-> "none"]
  /\ polled = 0 /\ pc = "parked" /\ woken = TRUE
  /\ requests = <<>> /\ sent = <<>>
  /\ tree = {Genesis} /\ best = Genesis
  /\ backfilling = scenario.backfilling
  /\ to_network = {} /\ network = "up"

--------------------------------------------------------------------------------
canonical_head_lower_hash(b, head) ==
  IF b.number > head.number \/ b.hash < head.hash THEN b.hash ELSE head.hash

canonical_head_higher_hash(b, head) ==
  IF b.number > head.number \/ (b.number = head.number /\ b.hash > head.hash)
  THEN b.hash ELSE head.hash

\* The fork choice rule: the highest block, the lower hash at equal height.
canonical_head(b, head) ==
  IF b.number > head.number THEN b.hash
  ELSE IF b.number = head.number
       THEN IF b.hash < head.hash THEN b.hash ELSE head.hash
       ELSE head.hash

\* The futures on_new_block pushes for announcement n, in the order it does.
on_new_block_swapped(n) == <<<<"update_fork_choice", n>>, <<"new_payload", n>>>>

on_new_block(n) == <<<<"new_payload", n>>, <<"update_fork_choice", n>>>>

\* What a future completes with once the engine has answered: an outcome for
\* the network, or None for every status but Valid and Invalid.
outcome_of(status) ==
  IF status = "Valid" THEN "ok" ELSE IF status = "Invalid" THEN "err" ELSE "None"

--------------------------------------------------------------------------------
\* Nothing is on its way between the network, the service and the engine.
Quiet ==
  /\ from_network = <<>> /\ pending_imports = {} /\ requests = <<>>
  /\ pc = "parked"

AnnounceUnnoticed(b) ==
  /\ Len(announced) < MaxAnnounced /\ Quiet
  /\ announced' = Append(announced, b)
  /\ from_network' = Append(from_network, Len(announced'))
  /\ UNCHANGED <<service, answers, woken, requests, engine, network, sent>>

\* HlBlockImport::on_new_block: the network hands a full block to the service.
Announce(b) ==
  /\ Len(announced) < MaxAnnounced
  /\ scenario.arrivals = "in order" =>
       b.parent = IF announced = <<>> THEN Genesis.hash ELSE announced[Len(announced)].hash
  /\ scenario.arrivals = "any order" => b \notin Range(announced)
  /\ scenario.arrivals = "one at a time" => Quiet
  /\ announced' = Append(announced, b)
  /\ from_network' = Append(from_network, Len(announced'))
  /\ woken' = TRUE
  /\ UNCHANGED <<service, answers, requests, engine, network, sent>>

\* A poll begins: the channel is drained and every block's futures are pushed.
StartPoll ==
  LET pushed == [i \in 1..2 * Len(from_network) |->
                   on_new_block(from_network[(i + 1) \div 2])[2 - (i % 2)]]
  IN  /\ pc = "parked" /\ woken
      /\ woken' = FALSE
      /\ from_network' = <<>>
      /\ pending_imports' = pending_imports \union Range(pushed)
      /\ ready' = ready \o pushed
      /\ polled' = 0 /\ pc' = "polling"
      /\ UNCHANGED <<announced, answers, requests, engine, to_network, network, sent>>

\* The future at the head of the queue waits for the engine now.  When every
\* future was polled in this poll_next, it yields and wakes its own task.
Yield(f) ==
  /\ ready' = Tail(ready)
  /\ polled' = polled + 1
  /\ IF polled' = Cardinality(pending_imports)
     THEN pc' = "parked" /\ woken' = TRUE
     ELSE UNCHANGED <<pc, woken>>
  /\ UNCHANGED <<pending_imports, to_network>>

\* First poll of new_payload: the payload goes to the engine.
SendPayload ==
  LET f == Head(ready)
      request == [fut |-> f, hash |-> announced[f[2]].hash]
  IN  /\ pc = "polling" /\ ready # <<>>
      /\ f[1] = "new_payload" /\ answers[f] = "none"
      /\ requests' = Append(requests, request)
      /\ sent' = Append(sent, request)
      /\ Yield(f)
      /\ UNCHANGED <<announced, from_network, answers, engine, network>>

\* First poll of update_fork_choice: the head is read now and goes to the engine.
SendForkChoice ==
  LET f == Head(ready)
      request == [fut |-> f, hash |-> canonical_head(announced[f[2]], best)]
  IN  /\ pc = "polling" /\ ready # <<>>
      /\ f[1] = "update_fork_choice" /\ answers[f] = "none"
      /\ requests' = Append(requests, request)
      /\ sent' = Append(sent, request)
      /\ Yield(f)
      /\ UNCHANGED <<announced, from_network, answers, engine, network>>

\* Reading the head fails: the future completes with None, which ends the poll.
ForkChoiceFails ==
  /\ scenario.failures
  /\ pc = "polling" /\ ready # <<>>
  /\ Head(ready)[1] = "update_fork_choice" /\ answers[Head(ready)] = "none"
  /\ pending_imports' = pending_imports \ {Head(ready)}
  /\ ready' = Tail(ready)
  /\ pc' = "parked"
  /\ UNCHANGED <<announced, from_network, answers, polled, woken, requests, engine,
                 to_network, network, sent>>

CompleteLeavesQueued ==
  LET f == Head(ready)
  IN  /\ pc = "polling" /\ ready # <<>> /\ answers[f] # "none"
      /\ pending_imports' = pending_imports \ {f}
      /\ pc' = "parked"
      /\ UNCHANGED <<announced, from_network, ready, polled, to_network, answers, woken,
                     requests, engine, network, sent>>

\* The future at the head of the queue has its answer.  An outcome is reported
\* and poll_next is called again; None ends the loop, and so the poll.
Complete ==
  LET f == Head(ready)
      outcome == outcome_of(answers[f])
  IN  /\ pc = "polling" /\ ready # <<>> /\ answers[f] # "none"
      /\ pending_imports' = pending_imports \ {f}
      /\ ready' = Tail(ready)
      /\ polled' = 0
      /\ to_network' = IF outcome = "None" \/ network = "gone" THEN to_network
                       ELSE to_network \union {[fut |-> f, ok |-> outcome = "ok"]}
      /\ pc' = IF outcome = "None" THEN "parked"
               ELSE IF network = "gone" THEN "failed" ELSE "polling"
      /\ UNCHANGED <<announced, from_network, answers, woken, requests, engine,
                     network, sent>>

\* The ready queue is empty: poll_next is Pending, and so is the service.
EndPoll ==
  /\ pc = "polling" /\ ready = <<>>
  /\ pc' = "parked"
  /\ UNCHANGED <<announced, from_network, pending_imports, ready, answers, polled,
                 woken, requests, engine, to_network, network, sent>>

--------------------------------------------------------------------------------
\* The engine (external), as its answers reach the service.

Known == {b.hash : b \in tree}

\* The blocks from b down to the genesis block: the least set with b and the parent
\* of every block in it.
Chain(b) ==
  LET all == Blocks \union {Genesis}
      Closed(S) == \A c \in S : \A p \in all : p.hash = c.parent => p \in S
  IN  {p \in all : \A S \in SUBSET all : b \in S /\ Closed(S) => p \in S}

\* How the engine answers a request, and what it does with it.
Answer(request, status) ==
  /\ answers' = [answers EXCEPT ![request.fut] = status]
  /\ requests' = Tail(requests)
  /\ ready' = Append(ready, request.fut)
  /\ woken' = TRUE
  /\ UNCHANGED <<announced, from_network, pending_imports, polled, pc, backfilling,
                 to_network, network, sent>>

HandleNewPayload ==
  LET request == Head(requests)
      b == announced[request.fut[2]]
      status == IF backfilling THEN "Syncing"
                ELSE IF b \in scenario.bad THEN "Invalid"
                ELSE IF b.parent \in Known THEN "Valid" ELSE "Syncing"
  IN  /\ requests # <<>> /\ request.fut[1] = "new_payload"
      /\ tree' = IF status = "Valid" THEN tree \union {b} ELSE tree
      /\ Answer(request, status)
      /\ UNCHANGED best

HandleForkChoice ==
  LET request == Head(requests)
      status == IF backfilling THEN "Syncing"
                ELSE IF request.hash \in Known THEN "Valid"
                ELSE IF \E b \in scenario.bad : b.hash = request.hash THEN "Invalid"
                ELSE "Syncing"
  IN  /\ requests # <<>> /\ request.fut[1] = "update_fork_choice"
      /\ best' = IF status = "Valid" /\ ~ \E b \in Chain(best) : b.hash = request.hash
                 THEN CHOOSE b \in tree : b.hash = request.hash ELSE best
      /\ Answer(request, status)
      /\ UNCHANGED tree

\* Backfill sync ends with the chain of some announced block in the database.
EndBackfill(b) ==
  /\ backfilling /\ b \in Range(announced) /\ Chain(b) \cap scenario.bad = {}
  /\ backfilling' = FALSE
  /\ tree' = tree \union Chain(b)
  /\ best' = b
  /\ UNCHANGED <<announced, from_network, service, answers, woken, requests, network,
                 sent>>

StopNetwork ==
  /\ scenario.failures /\ network = "up"
  /\ network' = "gone"
  /\ UNCHANGED <<announced, from_network, service, answers, woken, requests, engine,
                 sent>>

--------------------------------------------------------------------------------
Poll == SendPayload \/ SendForkChoice \/ ForkChoiceFails \/ Complete \/ EndPoll

Engine == HandleNewPayload \/ HandleForkChoice

Next ==
  /\ \/ \E b \in Blocks : Announce(b) \/ EndBackfill(b)
     \/ StartPoll \/ Poll
     \/ Engine
     \/ StopNetwork
  /\ UNCHANGED scenario

Spec == Init /\ [][Next]_vars

\* The runtime polls a woken task, and the engine answers its requests.
FairSpec ==
  /\ Spec
  /\ WF_vars(StartPoll /\ UNCHANGED scenario)
  /\ WF_vars(Poll /\ UNCHANGED scenario)
  /\ WF_vars(Engine /\ UNCHANGED scenario)

--------------------------------------------------------------------------------
\* Type correctness; every future that waits for the engine or for a poll is one
\* the FuturesUnordered holds.
TypeOK ==
  /\ scenario \in Scenarios
  /\ announced \in Seq(Blocks) /\ Range(from_network) \subseteq 1..Len(announced)
  /\ pending_imports \subseteq Futures /\ Range(ready) \subseteq pending_imports
  /\ answers \in [Futures -> Statuses \union {"none"}]
  /\ polled \in 0..Cardinality(Futures)
  /\ pc \in {"parked", "polling", "failed"} /\ woken \in BOOLEAN
  /\ \A i \in 1..Len(requests) : requests[i].fut \in pending_imports
  /\ tree \subseteq Blocks \union {Genesis} /\ best \in tree
  /\ to_network \subseteq [fut : Futures, ok : BOOLEAN]
  /\ backfilling \in BOOLEAN /\ network \in {"up", "gone"}

\* The engine hears of a block's payload before any fork choice update names
\* that block, however polls, answers and announcements interleave, unless it
\* already had the block from backfill sync.
PayloadBeforeForkChoice ==
  \A i \in 1..Len(sent) :
    sent[i].fut[1] = "update_fork_choice" =>
      \/ sent[i].hash \in Known
      \/ \E j \in 1..(i - 1) :
           sent[j].fut[1] = "new_payload" /\ sent[j].hash = sent[i].hash

\* Blocks arrive one at a time at an engine in sync, and the head can be read.
Calm ==
  scenario.arrivals = "one at a time" /\ ~ scenario.backfilling /\ ~ scenario.failures

\* While blocks arrive one at a time, forks included, the head never moves to a
\* lower block.
HeadNeverDrops == [][Calm => best'.number >= best.number]_vars

\* "Follow the highest block number; for same height blocks, pick the one with
\* lower hash": once all blocks, announced one at a time, are processed, no block
\* the engine knows beats the head.
HeadIsCanonical ==
  Calm /\ Quiet => \A b \in tree :
             \/ b.number < best.number
             \/ b.number = best.number /\ b.hash >= best.hash

\* While blocks arrive one at a time, an announced block that executes and whose
\* parent the engine has becomes the head, or the head does not stay below it.
EveryBlockBecomesHead ==
  \A b \in Blocks :
    Calm /\ b \notin scenario.bad /\ b.parent \in Known
    /\ announced # <<>> /\ announced[Len(announced)] = b
      ~> best.number >= b.number

\* Every block received from the network is submitted to the engine.
EveryBlockIsSubmitted ==
  \A n \in 1..MaxAnnounced :
    Len(announced) >= n ~> \E i \in 1..Len(sent) : sent[i].fut = <<"new_payload", n>>
================================================================================
