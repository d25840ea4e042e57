# TLA+ models of nanoreth

nanoreth is an archive node for HyperEVM built on reth. It takes no part in
consensus: it reads finished blocks from a source (a bucket, a directory, another
nanoreth, or a local hl-node), feeds them to reth through a peer it runs itself,
executes them, and answers RPC requests. This directory holds TLA+ models of the
parts of it that keep state or run concurrently, the TLC configurations that check
them on small instances, and TLAPS proofs about eight of them: the read
precompile forwarder, the import service with the fork choice rule, the pseudo peer with
its block store, the start of the node with its database migration, the search for the
latest block of a file source, the ingest loop and cache of the hl-node source, the
conversion of blocks with the spot metadata, and the RPC calls with the gas estimate and
the transaction forwarder.

Paths in this file are relative to `src/src/`.

## 1. The system and its parts

```
 S3 / directory / RPC ----+                     (sources/*)
 hl-node files --> ingest loop + fallback       (sources/hl_node/*)
                          |
                     block store: block cache, hash index   (pseudo_peer/block_store.rs)
                      /        \
        poller (announces)   request handler (headers, bodies)   (pseudo_peer/service.rs)
                      \        /
                 reth's network and pipeline
                          |
   import service: new payload, fork choice  (node/network/block_import/service.rs)
                          |
   consensus checks, executor, storage       (node/consensus, node/evm, node/storage)
                          |
   RPC: compliant views, calls, estimates, traces, simulations, sync server
        read precompile forwarder            (addons/*, node/rpc/*, node/evm/*)
```

| Part | Code | Module | State |
|---|---|---|---|
| Read precompile forwarder | `node/evm/read_precompile_forwarder.rs` | `ReadPrecompileForwarder`, `SharedReads` | modelled, proved |
| Import service, fork choice rule | `node/network/block_import/*`, `consensus.rs` | `BlockImport` | modelled, proved |
| Pseudo peer, block store | `pseudo_peer/{service,block_store,utils,mod}.rs` | `PseudoPeer`, `LruBiMap` | modelled, proved |
| Node startup | `node/network/mod.rs`, `pseudo_peer/{config,mod}.rs`, `main.rs` | `NodeStartup`, `NodeLifecycle` | modelled, proved |
| File and bucket sources | `pseudo_peer/sources/{local,s3,utils}.rs` | `FileSource` | modelled, proved |
| Database migration | `node/migrate.rs`, `node/cli.rs` | `Migration`, `NodeLifecycle` | modelled, proved |
| hl-node block source | `pseudo_peer/sources/hl_node/*` | `HlNodeSource`, `LruBiMap` | partly, proved |
| Spot metadata | `node/spot_meta/*`, `node/types/reth_compat.rs` | `SpotMetadata` | modelled, proved |
| System transactions, block conversion | `node/types/*`, `node/primitives/transaction.rs` | `SystemTxs` | modelled, proved |
| Compliant views of blocks, receipts, logs | `addons/hl_node_compliance/*` | `RpcServer` | partly |
| Calls, estimates, simulations, traces | `node/rpc/*` | `RpcCalls`, `GasEstimate` | partly, proved |
| Transaction and call forwarders | `addons/{tx_forwarder,call_forwarder}.rs` | `TxForwarder`, `RpcCalls` | modelled, proved |
| Block storage | `node/storage/mod.rs` | `BlockStorage` | modelled |
| Consensus checks, payload validator | `node/consensus/*`, `node/rpc/engine_api/validator.rs` | `BlockStorage` | modelled |
| Block executor | `node/evm/{executor,config,receipt_builder}.rs` | `BlockStorage`, `RpcCalls` | partly |
| Sync server, RPC block source | `addons/sync_server.rs`, `pseudo_peer/sources/rpc.rs` | `BlockSync` | modelled |
| Subscriptions, EVM, codecs, engine types, chain specification, pool, command line | see section 7 | | not modelled |

`PROJECT.json` lists every part with its files, maps each definition to the lines it
models, and lists the hazards with the properties that cover them.

## 2. The modules and how they correspond to the code

The names of definitions are those of the code where TLA+ allows it. An action is a
stretch of code between two points where another thread or task can run: a lock that
is taken or released, an await, a lookup in the provider. Operators with a lower-case
name are pure functions of the code.

**ReadPrecompileForwarder.** `responses`, `in_flight` and `newest_block_number` are the
three fields of `Cache`, behind one mutex. A worker thread runs `resolve`: `Lookup`
under the mutex finds a hit, joins an `InFlight` as follower, or inserts one and leads;
the leader sends its request, caches the answer and removes the entry (`Settle`),
publishes the result under the `InFlight`'s own mutex and notifies; a follower
parks on the condition variable and may wake spuriously. A request fails, times out or
is rejected by upstream at any time. `seen` is what an RPC request has read.

**SharedReads** is what the forwarder promises, without `InFlight`s, leaders or condition
variables: a memo of responses, the set of keys that are being asked for, and workers
that recall or wait; one answer goes to everyone who waits for the key at that moment.
The refinement mapping takes `responses` to the memo, the keys of `in_flight` to the
questions, and the answer a worker is bound to (its own, its leader's that is not yet
published, or the one in its `InFlight`) to what it has heard.

**BlockImport.** One task polls the `FuturesUnordered` of imports; the engine answers
in another. `ready` is the queue of woken futures. `Poll` follows the loop of
`ImportService::poll` including the pattern that ends it early, and `canonical_head`
is the rule of `consensus.rs`, evaluated when the fork choice future is first polled.
A scenario chooses the order of arrivals, bad blocks, a provider that fails, and an
engine in backfill sync. The engine and the network are external.

**PseudoPeer, LruBiMap.** The poller and the request handler interleave at every await
and share the block cache and the hash index. `LruBiMap` is the bidirectional map with
its evictions. `header_heights` and `Collected` are the ranges and batches of the two
kinds of request; `uncached` are the heights of a request that are still to be fetched,
which another task may put into the cache meanwhile; `hash_to_number` falls back to the database, to which blocks are
imported at any time.

**NodeStartup, FileSource, Migration, NodeLifecycle.** `NodeStartup` is the handshake of
two critical tasks over a oneshot channel, and the start of the poller. `FileSource` is
`find_latest_block_number` of a directory tree and of a bucket: three listings, one
after the other, while somebody writes. It assumes that the writer makes a directory
before the files in it, as a file system demands. Names in a bucket come in the order
of their characters, one page per listing, and any request to a bucket may fail.
`Migration` is the header migration, file by file and row by row. `NodeLifecycle` composes
the others: a process that may end between any two steps migrates and starts, looks for
the latest block, and after an end starts over from what is on disk.

**HlNodeSource.** hl-node appends lines, some garbled, to one file per hour. The backfill
records what there is; the ingest loop then starts with the latest file, scans, sleeps
and moves on to the next hour. Requests look at the cache, then reload from a file, then
wait for the threshold before they use the fallback. `find_latest_block_number` is the
first request a node makes; the last block of a file is a set of outcomes, because
`read_last_block_from_file` tries one line per chunk and may give up when the lines at
the end do not parse. A request that reloads a file also refreshes the ranges of all its
blocks. `load_blocks` inserts all blocks of a scan at once; an assumption of
`MCHlNodeSource` compares it with inserting them one by one. `unseen` is history: blocks
written after the backfill to a file that the loop will not read.

**SystemTxs, SpotMetadata.** The encoding of a sender in a synthetic signature, and the
conversions `to_reth_block` and `from_db`. Threads convert blocks and, on a contract
they do not know, take the fetch lock and ask the API, then replace the cache and
persist it, while contracts get listed and the node restarts.

**RpcServer, RpcCalls, GasEstimate, TxForwarder.** A request is a record that goes through
the lookups of its handler one by one while blocks are imported, and the last block is
replaced, in between. Ids are numbers, hashes and the tags latest and pending; a block
found by its hash may not be the canonical one of its number any more. `RpcServer` has
every handler of `hl_node_compliance/rpc.rs`; `RpcCalls` decides which state, recorded
calls, address range and forwarder an execution gets, or that upstream gets the call
(`--forward-call`); `GasEstimate` is the search of `estimate_gas_with`, with a
transaction given by the gas it needs at each limit. `TxForwarder` sends a transaction
upstream and polls for its receipt until the deadline, while upstream takes, refuses,
includes or drops it, or does not answer.

**BlockStorage, BlockSync.** The pipeline (external) stores headers and bodies, executes
them and unwinds bad blocks; the engine (external) saves blocks and removes them in a
reorganisation. What they call is modelled from the source: `write_block_bodies`,
`remove_block_bodies_above` and `read_block_bodies` with the extras table of appended
rows, the executor with its cumulative gas, the receipts root that leaves out receipts
without gas, the rule for the excess blob gas (Cancun is active from the first block), and
the payload validator. A block need not be right: the header may commit to something else
than its block does. `SoundHeaders` and `HonestHeaders` say by definition which blocks are
right, and `VerdictsAreRight` compares the checks with them. `BlockSync` adds another node that fetches from
this one in batches, block and receipts in two lookups.

The `MC*` modules hold the instances: blocks, requests, scenarios.

## 3. Runs

Passing runs and what they show. Every property has a mutant, a plausible bug in a
mapped definition under which TLC finds the property violated.

| Run | Properties | States |
|---|---|---|
| `Forwarder` | one upstream request per key (`SingleFlight`); a waiting follower will be woken (`NoLostWakeup`); every read is answered as `SharedReads` promises (`ImplementsSharedReads`, a refinement); reads of one request agree at the newest block (`ReadsAgreeAtHead`); every read returns (`EveryReadReturns`); no error is cached (`TypeOK`) | 90,060 |
| `ImportForks` | a payload reaches the engine before its fork choice (`PayloadBeforeForkChoice`); with blocks one at a time the head is the canonical one, never drops, and every block becomes head unless a better one does (`HeadIsCanonical`, `HeadNeverDrops`, `EveryBlockBecomesHead`); `TypeOK` | 179,694 |
| `PeerStore` | the two directions of the hash index agree and both caches keep their limits (`IndexIsSound`); blocks are announced in order without gaps up to the cutoff (`AnnouncedInOrder`); an announced block can be asked for by its hash at once (`AnnouncedResolves`); replies hold what was asked for (`RepliesAnswerRequests`); every block is announced (`EveryBlockIsAnnounced`) | 88,589 |
| `Lifecycle` | three listings at three moments find no block older than the latest one at the start, and find nothing only in the cases named (`SearchIsRight`); headers are lost only by an end between removal and rename (`OnlyTornMovesLoseHeaders`); a migration that completes leaves no old header (`RunsOnMigratedHeaders`); no block is imported before the pipeline has its target (`TargetBeforeBlocks`); the node comes up when its source answers (`NodeComesUp`) | 243,859 |
| `Source` | backfill and loop together leave no block behind, one window excepted (`IngestSkipsNothing`), and every line becomes known unless an hour without blocks comes before it (`EveryLineIsIngested`); a known block whose file fits in the cache is served from there (`KnownBlockIsServedLocally`); the fallback serves what hl-node lacks (`FallbackServes`) | 178,692 |
| `SpotConversion` | the API is asked only for what is unknown (`FetchIsNeeded`); a block converts to the same senders whenever and by whomever it is converted (`ConversionsAgree`); the recovered sender is the one the source names, the receipt's or HYPE's, and for a spot token an address in their range; a served block converts to itself, and the count of system transactions is right (`ConversionIsFaithful`); conversions end (`EveryConversionEnds`) | 54,292 |
| `Rpc` | compliant blocks, receipts and logs hide the same transactions and number the others alike, by hash also when the block is replaced meanwhile (`CompliantViewsAgree`); the system endpoints return exactly the hidden ones (`SystemViewsAgree`); recorded and forwarded reads belong to the state a call runs on, and at the head they are answered (`ReadsMatchState`); history reads the same at any time (`HistoryIsReproducible`); estimates suffice and are tight (`EstimateIsRight`); the answer to a sent transaction is true of what upstream has (`SendAnswersAreTrue`); calls and sends end (`EveryCallEnds`) | 435,208 |
| `Sync` | stored bodies are read back with their own extras after any writes and unwinds (`StoredBodiesAreTheBlocks`); a block of the network is never declared bad, and one that has receipts follows its parent and has the gas, receipts and logs its header commits to, from storage and in memory (`VerdictsAreRight`; the transactions root is not among them); fetched blocks convert to the stored ones (`FetchedBlocksAreTheBlocks`); every stored header is executed or removed, unless a body never matches its root (`PipelineCompletes`) | 27,500 |

Violated properties, each quoted from the repository; `PROJECT.json` has the quotation:

| Run | What TLC shows |
|---|---|
| `ForwarderReadsAgree` | An eviction between two reads of one request lets them differ; the comment promises that caching makes all reads of a request agree. |
| `ImportBackfill` | A future that completes with `None` ends the poll with others still ready and nobody to wake the task: announced blocks may never be submitted while the engine is syncing. |
| `StartupSourceFails` | A node that starts while the newest directory of its source has no file yet, or an incomplete one, finds or reads no latest block. Nothing is then sent on the oneshot channel, its sender stays alive, and the import service never starts. |
| `RpcLatestReceipts` | `eth_getBlockReceipts` at latest filters one block with the count of another when a block arrives between its two lookups. |

Behaviour met while modelling that no run of its own is spent on. In each case the
property that would fail names the exception, so that it is checked everywhere else:

- The description of `hl_node_compliance/rpc.rs` (lines 7-8) says that a log is returned
  as it is and that the client adjusts the transaction index. `adjust_log` adjusts it, and
  the log index, in the server. The `Rpc` run shows that the adjusted indices are those of
  the compliant receipts (`LogsAgreeWithReceipts`); the description is out of date, and
  `PROJECT.json` lists it as a finding.
- `eth_call` at latest that is overtaken by a block counts as historical and gets no
  forwarder (`HeadReadsAreAnswered`); pending calls, simulations and traces at a tag
  resolve it twice in the same way.
- A compliant block is filtered with the count of the canonical block of its number. When
  the block was replaced after it was loaded, the count may be another's, and `drain`
  panics when it is too large (`BlocksHideSystemTxs`).
- The error of one receipt poll ends `eth_sendRawTransactionSync` with an error like that
  of a refused transaction, although upstream has the transaction (`SendAnswersAreTrue`
  keeps the two apart only in the model).
- Two methods of `EthForwarderApi` are declared with names that already begin with `eth_`
  in a trait of namespace `eth`; the model starts where the handler is called.
- hl-node may still write to the file of the last hour when that of the new hour exists,
  empty. A node that starts then begins with the new file, and the blocks that go to the
  old one after the backfill are left to the fallback (`unseen` in `IngestSkipsNothing`).
- When hl-node writes nothing for a whole hour the ingest loop stays with the old file
  for ever: the loop only looks at the next hour. `EveryLineIsIngested` says nothing of
  the blocks after such an hour; the run has them, and without the exception TLC shows
  the loop stuck.
- The poller ends for good when its own search finds nothing (`NodeComesUp`).
- Two blocks of one height that arrive together are both compared with their parent, and
  the later one wins; the head may also drop to a lower block (`HeadIsCanonical` and
  `HeadNeverDrops` are about blocks that arrive one at a time).
- A process that ends between the removal of an old header file and the rename of the new
  one loses the headers (`OnlyTornMovesLoseHeaders`).
- A falling header request that reaches below genesis wraps to an empty range and gets an
  empty reply, which `RepliesAnswerRequests` allows.
- A reorganisation between the sync server's two lookups pairs a block with the
  receipts of another.
- A block without transactions reaches storage from the pipeline without a body and
  loses its highest precompile address.
- The payload validator compares the hash of a payload with a hash of the same payload.
- The engine never compares the transactions of a block with the root in its header:
  the checks of `validate_block_pre_execution` are commented out. The body stage of the
  pipeline does, and a header whose body never matches holds it up. `VerdictsAreRight`
  therefore says nothing of the transactions root, and `PipelineCompletes` excepts such a
  header; `Sync` has one.
- A block without recorded calls is stored with none and fetched with an empty list of
  them, which is the same to an execution (`SameExtras`).

## 4. Bounds

- `Forwarder`: two workers, two `InFlight`s, two sibling heads of one height and the
  pending block above, a cache of two entries for three keys. Two workers are the least
  that make a leader and a follower; the cache is too small for one request at each
  head, so both kinds of eviction happen. The theorems cover every other size.
- `ImportForks`: two blocks of one height and a child of the worse one, each announced
  once, one of them bad. It is the smallest fork on which the rule by hash and the rule
  by height disagree. The theorems cover any other tree.
- `PeerStore`: three blocks, a cache of two, an index of three, a channel of one, a gap at
  height two, and five requests that rise, fall below genesis, go by hash, and repeat.
- `Lifecycle`: two rows, two segments of two files, two chunks, and two ends of the
  process, so that a repeated migration or start may end again. Four blocks fill the
  first directory; up to three more are written during startup, the first of them to new
  directories of both levels and the third to a new one of the second. Names have one or
  two digits, so that the order of a bucket is not that of numbers. The theorems cover
  every other size.
- `Source`: three hours of two ticks in which nobody asks for blocks, so that an hour without
  any may lie between two with some, or two hours and a requester; three blocks of which the first is there at the start
  and is below the first height that is wanted, a cache of two, so that a file of three
  lines does not fit. `FallbackHas` is the block hl-node may never write. The theorems
  cover every other size.
- `SpotConversion`: two threads, two contracts of which one is overridden, three blocks
  with every kind of system transaction, two restarts. Addresses are 0..63 so that the
  spot prefix and the escape for address 1 are both reached. The theorems cover every
  other size.
- `Rpc`: three heights drawn from three blocks with none, one and two system
  transactions; eight transactions to estimate that differ in what makes them succeed; a
  deadline of three polls; one of the two forwarders, which between them cover a node
  with none and with both. One request is in progress at
  a time, because requests share only the chain and the forwarder's cache. The last
  block is replaced only while no call is in progress: a call that has its state keeps
  it, which reth guarantees.
- `Sync`: two forks of three heights, one reorganisation, batches of two for three
  heights. Besides the blocks of the network there are three that are not right: one with
  a wrong receipts root, one with a wrong transactions root and the right receipts, and
  one with a wrong excess blob gas.

`Max*` constants bound only the environment (announcements, crashes, restarts, hours,
heights); no action of the code is guarded by one.

Deadlock is checked in `Forwarder`, `PeerStore`, `Rpc` and `Sync`. In the others the
environment is finite and the system may rest.

## 5. Fairness

Weak fairness stands for a runtime that polls a woken task and a thread that runs:
`Progress` of a worker (requests time out), `StartPoll` and `Poll` of the import task,
the steps of the poller, the ingest loop, a request handler, the pipeline, a process that
migrates and starts. The engine answers. A request to upstream ends, because the HTTP
client gives up on it, and time passes (`SendStep` of `TxForwarder`, `Tick` of
`HlNodeSource`). Strong fairness is used twice: a source that is asked again and again
for a block it has serves it in the end (`PseudoPeer`), and whoever needs a block asks
until it comes (`HlNodeSource`: the poller retries). A token in use is listed in the end,
without which `erc20_contract_to_spot_token` loops by design. Nothing makes the network
announce, hl-node or the writer of files write, upstream include a transaction or answer
rather than fail, or the process stay up: `NodeComesUp` allows it to end again.

## 6. Proofs

The proofs hold for every value of the constants that satisfies the named assumptions.

| Theorem | Module | Statement |
|---|---|---|
| `TypeCorrect` | `ReadPrecompileForwarderProofs` | `Spec => []TypeOK`: no error is ever cached |
| `OneRequestPerKey` | same | `Spec => []SingleFlight` |
| `WakeupsAreNotLost` | same | `Spec => []NoLostWakeup` |
| `CachedResponsesStay` | same | `Spec => CachedResponseStable`: a cached response is evicted or stays |
| `CacheStaysBounded` | `ReadPrecompileForwarderReads` | `Spec => []CacheBounded` |
| `HeadReadsAgree` | same | `Spec => ReadsAgreeAtHead` |
| `ForwarderImplements` | same | `Spec => ImplementsSharedReads` |
| `TargetAlwaysFirst` | `NodeLifecycleProofs` | `LifecycleSpec => []TargetBeforeBlocks` |
| `HeadersSurvive` | same | `LifecycleSpec => []OnlyTornMovesLoseHeaders` |
| `NodeRunsOnMigratedHeaders` | same | `LifecycleSpec => []RunsOnMigratedHeaders` |
| `SearchIsAlwaysRight` | same | `LifecycleSpec => []SearchIsRight` |
| `TypesAreKept` | `BlockImportProofs` | `Spec => []TypeOK`: the queues hold only pending futures |
| `PayloadsComeFirst` | same | `Spec => []PayloadBeforeForkChoice` |
| `HeadsAreCanonical` | same | `Spec => []HeadIsCanonical` |
| `HeadsNeverDrop` | same | `Spec => HeadNeverDrops` |
| `IndexStaysSound` | `PseudoPeerProofs` | `Spec => []IndexIsSound` |
| `AnnouncementsAreInOrder` | same | `Spec => []AnnouncedInOrder` |
| `RepliesAreRight` | same | `Spec => []RepliesAnswerRequests` |
| `AnnouncedBlocksResolve` | same | `Spec => AnnouncedResolves` |
| `IngestLeavesNothing` | `HlNodeSourceProofs` | `Spec => []IngestSkipsNothing` |
| `KnownBlocksAreServed` | same | `Spec => KnownBlockIsServedLocally` |
| `FetchesAreNeeded` | `SpotMetadataProofs` | `Spec => []FetchIsNeeded` |
| `AllConversionsAgree` | same | `Spec => []ConversionsAgree` |
| `ConversionsAreFaithful` | same | `Spec => []ConversionIsFaithful` |
| `SendersAreTold` | `RpcCallsProofs` | `Spec => []SendAnswersAreTrue` |
| `ReadsMatch` | same | `Spec => []ReadsMatchState` |
| `HistoryReplays` | same | `Spec => []HistoryIsReproducible` |
| `EstimatesAreRight` | same | `Spec => []EstimateIsRight` |

**The forwarder.** `ConstantAssumption`: heads and inputs are finite sets (to count the
cache), the cache limit is positive, and the marker values differ from real ones. None
of the invariants is inductive alone. `IInv` (`ReadPrecompileForwarderProofs`) adds what
the code relies on without saying it: what a worker holds at each point of `resolve`
(`Held`); an entry of `in_flight` has a leader that is still requesting, and no response
is cached beside it (`EntryHasLeader`), which is why a leader never overwrites a
response; an `InFlight` has one leader and its followers read the leader's key
(`OneLeader`); a follower has a leader, or has its result and is awake
(`FollowerIsServed`), also between the leader's two critical sections. The proof has one
step per action and, under it, one per conjunct the action can disturb.

`HeadReadsAgree` needs more, `HInv`: a response that was
delivered to a request at the newest block is still cached. It rests on
`EvictSparesHead`: when the keys of the newest block fit, an eviction removes only older
ones. The proviso is the one the run `ForwarderReadsAgree` shows to be necessary.

The refinement has one lemma per action (`ReadPrecompileForwarderReads`). The mapping
names the leader of an `InFlight` with a `CHOOSE`; `HeardIsAnswer` removes it by
`OneLeader`. The heart is `SettleReaches`: the answer that a leader gets is bound to
exactly those who wait for the key without an answer, the followers of its `InFlight`,
because nobody joins an entry that was removed and nobody who joined can be bound to
another.

**The node's life.** `LifecycleAssumption`: there are rows, segments and chunks, and the
configuration file is one of the files. `LifecycleInv` holds through any number of ends
of the process. It says that the import task passes the oneshot channel with a target or
without a source (`TargetInv`); that the old rows are the first ones and are all exported
before they are written back (`RowsInv`), which is why the first and the last row tell
whether any is old; that a file not yet moved is old with a new one ready, and that the
only file missing is the one between removal and rename (`MoveInv`); that, unless a move
was torn, every other segment is wholly old or wholly new and those already passed are
new (`SegmentsInv`); and that a launched node has passed them all (`LaunchInv`).

**The search.** `FileAssumption`: a directory divides into whole subdirectories, and the
names in a directory fit in one page of a listing, as 1000 subdirectories of 1000 blocks
and pages of 1000 do. `SearchInv` says that while the search is inside a directory,
there is a block in it or being written to it that is no older than the latest one at
the start. The three listings are three lemmas on the operators (`FirstListing`,
`SecondListing`, `ThirdListing`), independent of the steps. A page would hide the newest
name if there were more names than fit; that the layout keeps them apart is the
assumption.

**The import service.** `BlockAssumption`: a hash identifies its block, and a block is
higher than its parent, which the engine's validation checks. There may be any number of
blocks, in any tree. `Inv` says that no future is twice in the ready queue or with the
engine, nor in both (`Queues`); that one `poll_next` polls a future at most once (`Polls`);
that `new_payload` of a block stands before its `update_fork_choice` wherever the two are
(`Order`), on which `PayloadsComeFirst` rests also when a poll ends early and the next
one goes on; and that a payload that is with the engine or answered was sent to it
(`Sendings`). The steps of `FuturesUnordered` are six moves of its queues (`ArriveQueues`,
`PushQueues`, `SendQueues`, ...), proved once each. `CalmInv` is about blocks one at a
time: all that is on its way is the last block's, and only that block can beat the head,
until its fork choice is answered. `CanonicalHead` says that the rule picks the higher
block and the lower hash at equal height, and `ChainFacts` that no ancestor of the head
beats it, so an engine that skips a fork choice on its own chain skips nothing.

**The pseudo peer.** `LimitAssumption`: the limits are positive and the index holds more than
one hash; requests are headers by number or hash and bodies by hash. Any chain, gaps,
cutoff, channel size and requests. `Inv` has three parts. `StoreInv`: the cache and the
index are within their limits, and the two directions of the index and its LRU order have
the same keys. It needs what an insert does to a full map, whose evicted key may be the
one that is inserted on the other side (the lemmas on `LruBiMap`). `PollRun`: what was
announced last, what is in the channel and what the poller sends next are one run of
blocks; `PollCutoff` says where it stops. Only the last of these is about the announced
block itself, but none is inductive without the others. `ServeInv`: from its first lookup
to its reply, the heights a request handler works with are those of its request.
`AnnouncedResolves` follows from the index: an insert puts the newest hash last.

**The hl-node source.** `SourceAssumption`: the lines written before the start are heights
in their order, garbled lines apart. `Inv` has three parts besides `IngestSkipsNothing`.
`FilesInv` is what hl-node guarantees: heights rise within a file, a height is in one file
only, and no file after the one being written has blocks. `LoopInv`: the cursor is within
the file; a file the loop has moved to is one hl-node has reached; and while it is between
its last scan of a file and the next file, no block of the old one is left. That is where
the proof needs the second scan (`FinallyScan`): without it a line written between the
scan and the look at the next file would be lost. `CacheInv`: the ranges name the file
that has the block. A late write goes to a file the loop has not left, because hl-node
does not come back to a file, or to one older than the first (`unseen`). `LastBlock` shows
why the backfill may leave out a file by its last block. `KnownBlocksAreServed` rests on
`LoadFacts`: the keys that a load evicts are the oldest ones, and the blocks of the file
come last. What `Sifted` returns is an induction along the sequence (`SiftedFacts`).

**Block conversion.** `SpotAssumption`: a contract has one index and at most one override;
an index added to the prefix is an address other than HYPE's, as 64 bits below the prefix
0x20 are; a system transaction's receipt has no gas, and the receipt of any other has
some. The blocks, their length and the number of threads and restarts are arbitrary.
`Settled` is the point of the proof: every copy of the map, in the cache, in a thread's
hands or on disk, maps a contract to its final index or not at all. The senders a thread
has found are then the first ones of a sequence that depends on the block alone
(`Found`, `Senders`), wherever it waited and whatever was listed meanwhile; and a thread
past the fetch lock holds it, so nobody changes the cache under a fetch (`Locked`).
What `Converted` contains is worked out part by part (`ConvertedFacts`); `AddressSurvives`
and `IndexSurvives` show that an address written into a signature is read back, the escape
for address 1 included. `RetainKeeps` is an induction on the block's length, done with a
least counterexample.

**RPC calls.** `CallAssumption`: requests have an id that is a number or a tag, and
`EstimateRequest` says what an execution is taken to do: it pays its intrinsic gas first,
uses some gas and no more than it needs. `CallsInv` follows a request through its lookups:
what it has resolved so far named a block of the chain as it was then, and is still there
(`CallResolved`), the head it looked at is no older than its state (`CallPrecompiles`),
and an answer is that of its own block, or of none because the block was not yet there
(`CallAnswered`); likewise for simulations and traces. The chain only grows during a call.
For the estimate, `Bracketed` keeps a limit that suffices above one that does not, through
the optimistic try and every turn of the search, and the search ends within the ratio.
`SendInv` says that a transaction whose receipt is polled for was taken by upstream.

**Only model-checked**: all liveness properties, because fairness and `ENABLED` are out of
the prover's reach; and the invariants of the compliant views of the RPC server, block
storage and block sync, which rest on folds and recursive definitions over blocks whose
results would have to be shown by induction over data.

## 7. Not modelled

- Subscriptions (`addons/{subscribe_fixup,utils}.rs`): reth's stream of canonical states
  mapped to headers. Logs of subscriptions are part of `RpcServer`.
- `RequestRateLimiter::wait` of the read precompile forwarder: it only delays a request, and
  `Forwarder` lets a request take any time.
- The EVM (`evm/*`, `node/evm/{mod,factory,assembler}.rs`): revm with a patched
  instruction. An execution is abstract: the gas it uses and what it reads.
- Mainnet state patches and the CoreWriter deployment: fixed data at fixed blocks.
- Encodings (`node/primitives/{rlp,serde_bincode_compat}.rs`, msgpack, lz4), the chain
  specification, the engine types, the empty pool, the command line: data and types.
- Of the compliance server's restart only that its layer appears at some time: the ten
  attempts to bind and the panic after them are left out.
- Of the hl-node source, I/O errors in the middle of a file and the deletion of old
  files by hl-node.
- Gas caps of `eth_call` and `simulate_v1`'s own limits; calls while the last block is
  replaced.
- Panics on what the model does not contain: a directory that cannot be listed
  (`local.rs`), a line that is not UTF-8 (`file_ops.rs`), an unknown chain id while the
  fetch lock is held (`reth_compat.rs`), a recorded or forwarded `UnexpectedError`
  (`executor.rs`), an empty answer to a request for one block (`sources/rpc.rs`).
- Branches that no state of the models reaches: a log whose receipts, or a block whose
  header, can no longer be read (`adjust_log`, `adjust_block`), transactions whose sender
  cannot be recovered (`validator.rs`), a row of headers that does not decode
  (`migrate.rs`), the requests hash of Prague, which is never active, and the estimate's
  answer to a limit that is itself too high for the block (`is_gas_too_high`).
- Checks of a lone header (`validate_header`), which are reth's.
- Interleavings inside a few steps that are taken as one: the two provider reads of
  `canonical_head`, caching and indexing a block that is at hand (`ReadStored`), the files
  of a backfill, and a scan with the load of its result. What another task does between
  their halves is not checked.
- Assumptions about data: segments start with headers of one format (`Migration`); the
  overrides of spot tokens stay the same across restarts (`SpotMetadata`); an execution
  that succeeds with some gas succeeds with more (`GasEstimate`), which reads recorded
  with their gas limit need not obey; the provider has no receipts for a stored block
  that is not yet executed (`BlockSync`).
- The path from the source to the head as one model. `PseudoPeer` shows that every block
  is announced in order and `BlockImport` that announced blocks become heads; between
  them are reth's network and pipeline, which are external and would have to be invented.

## 8. Running

In this directory, with the community modules in the library path:

    tlc -workers 2 -config Forwarder.cfg MCReadPrecompileForwarder
    tlapm ReadPrecompileForwarderProofs.tla

`PROJECT.json` names the module and configuration of every run.
