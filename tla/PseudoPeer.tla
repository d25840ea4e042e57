------------------------------- MODULE PseudoPeer ------------------------------
(***************************************************************************)
(* The pseudo peer (src/src/pseudo_peer): a BlockStore over one block      *)
(* source, shared by two tasks that run at the same time.  The poller      *)
(* reads block after block and announces them through a bounded channel;   *)
(* the event loop serves the node's header and body requests one by one.   *)
(*                                                                         *)
(* The source serves one chain, so a block is its number and Hash(n) its   *)
(* hash; its tip grows, and a read of it can fail.                         *)
(***************************************************************************)
EXTENDS Integers, FiniteSets, LruBiMap

CONSTANTS
  MaxHeight,        \* bound on the height of the chain
  GapBlocks,        \* testnet_gap_blocks: heights the source does not have
  BlockLimit,       \* BLOCK_CACHE_LIMIT
  HashLimit,        \* HASH_INDEX_LIMIT
  ChannelSize,      \* capacity of the poller's channel
  Cutoffs,          \* what debug_cutoff_height may be, -1 for None
  Requests,         \* the requests the node may make
  None,             \* Option::None
  SourceMayFail     \* whether the source may fail to serve a block it has, or to
                    \* find its latest one

Heights == 0..MaxHeight
Hash(n) == [hash |-> n]

HeaderRequests ==
  [kind : {"headers"}, by : {"number", "hash"}, start : Nat, limit : Nat,
   direction : {"Rising", "Falling"}]

BodyRequests == [kind : {"bodies"}, hashes : Seq([hash : Nat])]

ASSUME LimitAssumption ==
  /\ MaxHeight \in Nat /\ GapBlocks \subseteq Heights
  /\ {BlockLimit, HashLimit, ChannelSize} \subseteq Nat \ {0}
  /\ HashLimit > 1
  /\ Cutoffs \subseteq Int /\ SourceMayFail \in BOOLEAN
  /\ Requests \subseteq HeaderRequests \union BodyRequests

VARIABLES
  tip,          \* the latest block of the source
  imported,     \* the node's database has the blocks up to here
  blocks,       \* BlockStore::blocks, as its keys in LRU order
  hash_index,   \* BlockStore::hash_index
  cutoff,       \* debug_cutoff_height
  poller,       \* where the poller's task is
  next_block_number,
  block_rx,     \* the channel from the poller to the network
  announced,    \* history: the last two heights announced
  first,        \* the event loop has not seen a peer session yet
  handler,      \* where the event loop is with a request
  request,      \* the request it is serving
  heights,      \* the heights the request comes to
  cached,       \* those of them it holds the block of
  uncached,     \* uncached_heights: those it has to ask the source for
  reply         \* the last reply: [to, sent], sent being None for no reply at all

store == <<blocks, hash_index>>
polling == <<cutoff, poller, next_block_number, block_rx, announced>>
serving == <<handler, request, heights, cached, uncached, reply>>
vars == <<tip, imported, blocks, hash_index, cutoff, poller, next_block_number,
          block_rx, announced, first, handler, request, heights, cached, uncached, reply>>

Init ==
  /\ tip \in Heights /\ imported \in 0..tip
  /\ blocks = <<>> /\ hash_index = NewBiMap
  /\ cutoff \in Cutoffs
  /\ poller = "suspended" /\ next_block_number = 0
  /\ block_rx = <<>> /\ announced = <<>>
  /\ first = TRUE
  /\ handler = "idle" /\ request = None /\ heights = <<>> /\ cached = {}
  /\ uncached = <<>> /\ reply = None

--------------------------------------------------------------------------------
\* The block store.

\* index_block_inner: the block's hash, and its parent's.
index_block(index, n) ==
  LET own == insert(index, HashLimit, Hash(n), n)
  IN  IF n > 0 THEN insert(own, HashLimit, Hash(n - 1), n - 1) ELSE own

index_blocks(index, ns) ==
  LET indexed[i \in 0..Len(ns)] ==
        IF i = 0 THEN index ELSE index_block(indexed[i - 1], ns[i])
  IN  indexed[Len(ns)]

Served == 0..tip \ GapBlocks

InDatabase(hash) == hash.hash <= imported

resolves(hash) == hash \in DOMAIN hash_index.left_to_right \/ InDatabase(hash)

\* The index first, then the database.
hash_to_number(hash) ==
  IF hash \in DOMAIN hash_index.left_to_right
  THEN hash_index.left_to_right[hash] ELSE hash.hash

\* get_by_numbers, under the lock of blocks: the cached blocks are touched, the
\* gap blocks are put into the cache, and both are taken; the others are missing.
scan(hs) ==
  LET step(acc, h) ==
        IF Contains(acc.lru, h)
        THEN [acc EXCEPT !.lru = Touch(@, h), !.taken = @ \union {h}]
        ELSE IF h \in GapBlocks
        THEN [acc EXCEPT !.lru = LruInsert(@, BlockLimit, h), !.taken = @ \union {h}]
        ELSE [acc EXCEPT !.missing = Append(@, h)]
      scanned[i \in 0..Len(hs)] ==
        IF i = 0 THEN [lru |-> blocks, taken |-> {}, missing |-> <<>>]
        ELSE step(scanned[i - 1], hs[i])
  IN  scanned[Len(hs)]

\* The blocks that were missing are put into the cache one after the other.
fetched ==
  LET inserted[i \in 0..Len(uncached)] ==
        IF i = 0 THEN blocks ELSE LruInsert(inserted[i - 1], BlockLimit, uncached[i])
  IN  inserted[Len(uncached)]

--------------------------------------------------------------------------------
\* The world.

GrowTip ==
  /\ tip < MaxHeight
  /\ tip' = tip + 1
  /\ UNCHANGED <<imported, store, polling, first, serving>>

\* The node imports the next block.
Import ==
  /\ imported < tip
  /\ imported' = imported + 1
  /\ UNCHANGED <<tip, store, polling, first, serving>>

\* The event loop sees the first peer session and starts the poller.
StartSignal ==
  /\ first /\ handler = "idle"
  /\ first' = FALSE
  /\ poller' = "starting"
  /\ UNCHANGED <<tip, imported, store, cutoff, next_block_number, block_rx, announced,
                 serving>>

--------------------------------------------------------------------------------
\* BlockPoller::task.

\* find_latest_block_number; None ends the task.
FindLatest ==
  /\ poller = "starting"
  /\ \/ poller' = "reading" /\ next_block_number' = tip
     \/ SourceMayFail /\ poller' = "ended" /\ UNCHANGED next_block_number
  /\ UNCHANGED <<tip, imported, store, cutoff, block_rx, announced, first, serving>>

cut_off(n) == IF cutoff >= 0 /\ n > cutoff THEN cutoff ELSE n

\* The loop's head, and get_by_number when the store has the block itself.
ReadStored ==
  LET n == cut_off(next_block_number)
  IN  /\ poller = "reading"
      /\ next_block_number' = n
      /\ \/ /\ Contains(blocks, n)
            /\ blocks' = Touch(blocks, n)
            /\ UNCHANGED hash_index
         \/ /\ ~ Contains(blocks, n) /\ n \in GapBlocks
            /\ blocks' = LruInsert(blocks, BlockLimit, n)
            /\ hash_index' = index_block(hash_index, n)
      /\ poller' = "sending"
      /\ UNCHANGED <<tip, imported, cutoff, block_rx, announced, first, serving>>

\* ... and when it has to ask the source.
ReadSource ==
  LET n == cut_off(next_block_number)
  IN  /\ poller = "reading"
      /\ ~ Contains(blocks, n) /\ n \notin GapBlocks
      /\ next_block_number' = n
      /\ poller' = "fetching"
      /\ UNCHANGED <<tip, imported, store, cutoff, block_rx, announced, first, serving>>

Fetched ==
  /\ poller = "fetching" /\ next_block_number \in Served
  /\ blocks' = LruInsert(blocks, BlockLimit, next_block_number)
  /\ poller' = "indexing"
  /\ UNCHANGED <<tip, imported, hash_index, cutoff, next_block_number, block_rx,
                 announced, first, serving>>

IndexFetched ==
  /\ poller = "indexing"
  /\ hash_index' = index_block(hash_index, next_block_number)
  /\ poller' = "sending"
  /\ UNCHANGED <<tip, imported, blocks, cutoff, next_block_number, block_rx, announced,
                 first, serving>>

FetchFailsForGood ==
  /\ poller = "fetching"
  /\ next_block_number \notin Served \/ SourceMayFail
  /\ poller' = "ended"
  /\ UNCHANGED <<tip, imported, store, cutoff, next_block_number, block_rx, announced,
                 first, serving>>

\* The source has no such block, or fails: the poller sleeps and tries again.
FetchFails ==
  /\ poller = "fetching"
  /\ next_block_number \notin Served \/ SourceMayFail
  /\ poller' = "reading"
  /\ UNCHANGED <<tip, imported, store, cutoff, next_block_number, block_rx, announced,
                 first, serving>>

SendSkippingFull ==
  /\ poller = "sending"
  /\ block_rx' = IF Len(block_rx) < ChannelSize
                 THEN Append(block_rx, next_block_number) ELSE block_rx
  /\ next_block_number' = next_block_number + 1
  /\ poller' = "reading"
  /\ UNCHANGED <<tip, imported, store, cutoff, announced, first, serving>>

\* block_tx.send, which waits while the channel is full.
Send ==
  /\ poller = "sending" /\ Len(block_rx) < ChannelSize
  /\ block_rx' = Append(block_rx, next_block_number)
  /\ next_block_number' = next_block_number + 1
  /\ poller' = "reading"
  /\ UNCHANGED <<tip, imported, store, cutoff, announced, first, serving>>

LastAnnounced == IF announced = <<>> THEN -1 ELSE announced[2]

AnnounceUnindexed ==
  /\ block_rx # <<>>
  /\ block_rx' = Tail(block_rx)
  /\ announced' = <<LastAnnounced, Head(block_rx)>>
  /\ UNCHANGED <<tip, imported, store, cutoff, poller, next_block_number, first, serving>>

\* BlockImport::poll: the network takes a block, indexes it and announces it.
Announce ==
  /\ block_rx # <<>>
  /\ block_rx' = Tail(block_rx)
  /\ hash_index' = index_block(hash_index, Head(block_rx))
  /\ announced' = <<LastAnnounced, Head(block_rx)>>
  /\ UNCHANGED <<tip, imported, blocks, cutoff, poller, next_block_number, first,
                 serving>>

--------------------------------------------------------------------------------
\* PseudoPeer::process_eth_request, called by the event loop.

\* number..number + limit, or (number + 1 - limit..number + 1).rev(), whose lower
\* end wraps around below zero, which leaves nothing.
header_heights_from_next(number, limit, direction) ==
  IF direction = "Rising" THEN [i \in 1..limit |-> number + i]
  ELSE IF limit > number + 1 THEN <<>> ELSE [i \in 1..limit |-> number + 1 - i]

header_heights(number, limit, direction) ==
  IF direction = "Rising" THEN [i \in 1..limit |-> number + i - 1]
  ELSE IF limit > number + 1 THEN <<>> ELSE [i \in 1..limit |-> number + 1 - i]

\* Body hashes that do not resolve are left out.
body_heights(hashes) ==
  LET known[i \in 0..Len(hashes)] ==
        IF i = 0 THEN <<>>
        ELSE IF resolves(hashes[i]) THEN Append(known[i - 1], hash_to_number(hashes[i]))
        ELSE known[i - 1]
  IN  known[Len(hashes)]

\* get_by_numbers up to its first await.
Collect(r, hs) ==
  LET scanned == scan(hs)
  IN  /\ request' = r /\ heights' = hs
      /\ blocks' = scanned.lru /\ cached' = scanned.taken /\ uncached' = scanned.missing
      /\ handler' = IF uncached' = <<>> THEN "indexing" ELSE "fetching"
      /\ reply' = None
      /\ UNCHANGED <<tip, imported, hash_index, polling, first>>

GetBlockHeaders(r) ==
  /\ handler = "idle" /\ r.kind = "headers"
  /\ \/ r.by = "number" /\ Collect(r, header_heights(r.start, r.limit, r.direction))
     \/ /\ r.by = "hash" /\ resolves(Hash(r.start))
        /\ Collect(r, header_heights(hash_to_number(Hash(r.start)), r.limit, r.direction))

\* An unknown hash gets an empty reply.
GetHeadersOfUnknown(r) ==
  /\ handler = "idle" /\ r.kind = "headers" /\ r.by = "hash"
  /\ ~ resolves(Hash(r.start))
  /\ reply' = [to |-> r, sent |-> <<>>]
  /\ UNCHANGED <<tip, imported, store, polling, first, handler, request, heights, cached,
                 uncached>>

GetBlockBodies(r) ==
  /\ handler = "idle" /\ r.kind = "bodies"
  /\ Collect(r, body_heights(r.hashes))

\* source.collect_blocks succeeds, and its blocks are cached.
Collected ==
  /\ handler = "fetching" /\ Range(uncached) \subseteq Served
  /\ blocks' = fetched
  /\ cached' = cached \union Range(uncached) /\ uncached' = <<>>
  /\ handler' = "indexing"
  /\ UNCHANGED <<tip, imported, hash_index, polling, first, request, heights, reply>>

\* source.collect_blocks fails: the error is logged and no reply is sent.
CollectFails ==
  /\ handler = "fetching"
  /\ SourceMayFail \/ ~ Range(uncached) \subseteq Served
  /\ handler' = "idle"
  /\ reply' = [to |-> request, sent |-> None]
  /\ request' = None /\ heights' = <<>> /\ cached' = {} /\ uncached' = <<>>
  /\ UNCHANGED <<tip, imported, store, polling, first>>

\* All blocks are indexed, in the order of a HashMap, and the reply takes each
\* height's block out of cached: a height asked for twice fails the request.
Reply ==
  /\ handler = "indexing"
  /\ \E order \in Injection(1..Cardinality(cached), cached) : hash_index' = index_blocks(hash_index, order)
  /\ reply' = [to |-> request, sent |-> IF IsInjective(heights) THEN heights ELSE None]
  /\ handler' = "idle"
  /\ request' = None /\ heights' = <<>> /\ cached' = {} /\ uncached' = <<>>
  /\ UNCHANGED <<tip, imported, blocks, polling, first>>

--------------------------------------------------------------------------------
Poll == FindLatest \/ ReadStored \/ ReadSource \/ Fetched \/ IndexFetched \/ FetchFails \/ Send

Serve == Collected \/ CollectFails \/ Reply

Next ==
  \/ GrowTip \/ Import \/ StartSignal
  \/ Poll \/ Announce
  \/ \E r \in Requests : GetBlockHeaders(r) \/ GetHeadersOfUnknown(r) \/ GetBlockBodies(r)
  \/ Serve

Spec == Init /\ [][Next]_vars

\* The fairness conditions name only the control state a step changes.
PollerMoves ==
  /\ poller \notin {"suspended", "ended"}
  /\ poller = "sending" => Len(block_rx) < ChannelSize
  /\ poller' \in {"reading", "fetching", "indexing", "sending", "ended"} \ {poller}

SourceServes ==
  poller = "fetching" /\ next_block_number \in Served /\ poller' = "indexing"

NetworkTakes == block_rx # <<>> /\ block_rx' = Tail(block_rx)

\* Tasks of the runtime run when they can, the network polls its block import,
\* and a source asked again and again for a block it has serves it.
FairSpec ==
  /\ Spec
  /\ WF_poller(PollerMoves) /\ SF_poller(SourceServes)
  /\ WF_block_rx(NetworkTakes)

--------------------------------------------------------------------------------
\* The hash index resolves a hash to the height of its own block and to no other,
\* its two directions agree, and neither it nor the cache of blocks ever outgrows
\* its limit, whichever task indexes and whatever is evicted.
IndexIsSound ==
  /\ WellFormed(hash_index, HashLimit)
  /\ IsInjective(blocks) /\ Len(blocks) <= BlockLimit
  /\ \A hash \in DOMAIN hash_index.left_to_right :
       hash_index.left_to_right[hash] = hash.hash

\* Blocks are announced one after another without a gap; with a cutoff height no
\* block above it is, and the block at the cutoff is announced over and over.
AnnouncedInOrder ==
  announced # <<>> =>
    /\ \/ announced[1] = -1
       \/ announced[2] = announced[1] + 1
       \/ announced[2] = cutoff /\ announced[1] = cutoff
    /\ cutoff >= 0 => announced[2] <= cutoff

\* A block that is announced can be asked for by its hash at once, also when the
\* request handler had cached it but not yet indexed it.
AnnouncedResolves ==
  [][announced' # announced => resolves(Hash(LastAnnounced))']_vars

\* A reply holds what was asked for: the run of headers from the start block in
\* the direction asked for, or bodies in the order of their hashes.
RepliesAnswerRequests ==
  reply # None /\ reply.sent \notin {None, <<>>} =>
    LET r == reply.to IN
    IF r.kind = "headers"
    THEN /\ Len(reply.sent) = r.limit /\ reply.sent[1] = r.start
         /\ \A i \in 2..r.limit :
              reply.sent[i] = reply.sent[i - 1] + (IF r.direction = "Rising" THEN 1 ELSE -1)
    ELSE /\ IsInjective(reply.sent)
         /\ \A i \in DOMAIN reply.sent : \E k \in DOMAIN r.hashes : r.hashes[k].hash = reply.sent[i]
         /\ \A i, j \in DOMAIN reply.sent, k, l \in DOMAIN r.hashes :
              reply.sent[i] = r.hashes[k].hash /\ reply.sent[j] = r.hashes[l].hash /\ k < l => i < j

\* The poller, once it knows the latest block, announces every block the source
\* gets to, up to the cutoff height, through all failures of the source.
EveryBlockIsAnnounced ==
  \A n \in Heights :
    poller = "reading" /\ tip >= n /\ (cutoff >= 0 => n <= cutoff)
      ~> LastAnnounced >= n
================================================================================
