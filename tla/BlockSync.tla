------------------------------- MODULE BlockSync --------------------------------
(***************************************************************************)
(* One node fetches blocks from another: the sync server of a node whose   *)
(* storage is BlockStorage (addons/sync_server.rs), and the RPC block      *)
(* source that asks it (pseudo_peer/sources/rpc.rs).  The server reads     *)
(* while the pipeline or the engine writes.  Its reader is set before the  *)
(* methods are merged into the server, so it is never missing.             *)
(***************************************************************************)
EXTENDS BlockStorage

CONSTANTS
  Requests,      \* the sequences of heights collect_blocks is called with
  BATCH_SIZE,    \* heights per request, in the source
  MAX_BATCH      \* heights per request, in the server

VARIABLES
  fetch,         \* the running collect_blocks, [heights, batches], or None
  disturbed      \* whether stored blocks were removed since it began

vars == <<storageVars, fetch, disturbed>>

ASSUME BatchAssumption == BATCH_SIZE \in Nat \ {0} /\ MAX_BATCH \in Nat \ {0}

--------------------------------------------------------------------------------
(* The server.                                                             *)

\* Where from_db splits a sequence: not at all when the count is too large.
split_at(count, seq) == IF count <= Len(seq) THEN count ELSE 0

\* BlockAndReceipts::from_db, on whole blocks: the first system_tx_count of the
\* transactions and of the receipts are paired as the system transactions.
from_db(h, body, rs) ==
  LET n == split_at(h.system_tx_count, body.inner)
      m == split_at(h.system_tx_count, rs)
      paired == IF n < m THEN n ELSE m
  IN  [eth             |-> h.eth,
       system          |-> SubSeq(body.inner, 1, paired),
       system_receipts |-> SubSeq(rs, 1, paired),
       transactions    |-> SubSeq(body.inner, n + 1, Len(body.inner)),
       receipts        |-> SubSeq(rs, m + 1, Len(rs)),
       extras          |-> [body.extras EXCEPT !.read_precompile_calls = Recorded(body.extras)]]

sync_get_blocks_one_less(heights) == SubSeq(heights, 1, MAX_BATCH - 1)

\* sync_get_blocks looks at no more than MAX_BATCH of the heights.
sync_get_blocks(heights) ==
  IF Len(heights) > MAX_BATCH THEN SubSeq(heights, 1, MAX_BATCH) ELSE heights

Batch(heights) == [heights |-> sync_get_blocks(heights), block |-> None, blocks |-> <<>>,
                   failed |-> FALSE]

Reading(batch) == ~ batch.failed /\ Len(batch.blocks) < Len(batch.heights)
NextHeight(batch) == batch.heights[Len(batch.blocks) + 1]

\* block_by_number: a block without a body is not found.
LookUpBlock(batch) ==
  LET n == NextHeight(batch)
  IN  IF n <= Len(headers) /\ n <= Len(bodies)
      THEN [batch EXCEPT !.block = [header |-> headers[n], body |-> read_block_body(n)]]
      ELSE [batch EXCEPT !.failed = TRUE]

\* receipts_by_block, a lookup of its own.
LookUpReceipts(batch) ==
  LET n == NextHeight(batch)
  IN  IF n <= Len(receipts)
      THEN [batch EXCEPT !.block = None,
                         !.blocks = Append(@, from_db(batch.block.header, batch.block.body, receipts[n]))]
      ELSE [batch EXCEPT !.failed = TRUE]

read_block_and_receipts(batch) ==
  IF batch.block = None THEN LookUpBlock(batch) ELSE LookUpReceipts(batch)

--------------------------------------------------------------------------------
(* The source.                                                             *)

\* heights.chunks(BATCH_SIZE)
chunks(heights) ==
  LET count == (Len(heights) + BATCH_SIZE - 1) \div BATCH_SIZE
      end(i) == IF i = count THEN Len(heights) ELSE i * BATCH_SIZE
  IN  [i \in 1 .. count |-> SubSeq(heights, (i - 1) * BATCH_SIZE + 1, end(i))]

collect_blocks(heights) ==
  /\ fetch = None
  /\ fetch' = [heights |-> heights, batches |-> [i \in DOMAIN chunks(heights) |->
                                                   Batch(chunks(heights)[i])]]
  /\ disturbed' = FALSE
  /\ UNCHANGED storageVars

\* The server makes the next lookup for one of the batches, in any order.
Serve(i) ==
  /\ fetch # None /\ i \in DOMAIN fetch.batches /\ Reading(fetch.batches[i])
  /\ fetch' = [fetch EXCEPT !.batches[i] = read_block_and_receipts(@)]
  /\ UNCHANGED <<storageVars, disturbed>>

Ended(f) == f # None /\ \A i \in DOMAIN f.batches : ~ Reading(f.batches[i])
Succeeded(f) == Ended(f) /\ \A i \in DOMAIN f.batches : ~ f.batches[i].failed

\* The results of the batches in order; one that failed fails the whole.
AllBlocks(f) ==
  LET joined[i \in 0 .. Len(f.batches)] ==
        IF i = 0 THEN <<>> ELSE joined[i - 1] \o f.batches[i].blocks
  IN  joined[Len(f.batches)]

Return ==
  /\ Ended(fetch)
  /\ fetch' = None /\ disturbed' = FALSE
  /\ UNCHANGED storageVars

\* SealedBlock::to_reth_block on the fetching node.
to_reth_block(fetched) ==
  [header |-> from_ethereum_header(fetched.eth, fetched.system_receipts \o fetched.receipts,
                                   Len(fetched.system)),
   system |-> fetched.system, transactions |-> fetched.transactions, extras |-> fetched.extras]

--------------------------------------------------------------------------------
Init == StorageInit /\ fetch = None /\ disturbed = FALSE

Next ==
  \/ Writes /\ UNCHANGED <<fetch, disturbed>>
  \/ Removes /\ disturbed' = (fetch # None) /\ UNCHANGED fetch
  \/ \E heights \in Requests : collect_blocks(heights)
  \/ fetch # None /\ \E i \in DOMAIN fetch.batches : Serve(i)
  \/ Return

FairSpec == Init /\ [][Next]_vars /\ StorageFairness

--------------------------------------------------------------------------------
\* No recorded calls and an empty list of them are the same to an execution.
SameExtras(e, f) ==
  /\ Recorded(e) = Recorded(f)
  /\ e.highest_precompile_address = f.highest_precompile_address

\* A fetch that succeeds has one block per height, in the order of the heights,
\* over all its batches; unless stored blocks were removed meanwhile, the fetching
\* node makes of them the blocks of the serving node, header extras and receipts
\* included (collect_blocks, sync_get_blocks, read_block_and_receipts, from_db).
FetchedBlocksAreTheBlocks ==
  Succeeded(fetch) =>
    LET fetched == AllBlocks(fetch)
    IN  /\ Len(fetched) = Len(fetch.heights)
        /\ \A i \in DOMAIN fetched :
             LET n == fetch.heights[i]
                 block == to_reth_block(fetched[i])
             IN  /\ fetched[i].eth.number = n
                 /\ ~ disturbed => /\ block.header = headers[n]
                                   /\ BodyOf(block).inner = read_block_body(n).inner
                                   /\ SameExtras(block.extras, read_block_body(n).extras)
                                   /\ fetched[i].system_receipts \o fetched[i].receipts = receipts[n]
================================================================================
