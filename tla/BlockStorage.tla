------------------------------ MODULE BlockStorage ------------------------------
(***************************************************************************)
(* The blocks a node keeps: HlStorage, which stores beside the Ethereum    *)
(* body of a block the extras HyperEVM gives it (node/storage/mod.rs), the *)
(* checks of HlConsensus (node/consensus), and the execution of a block    *)
(* (node/evm/executor.rs).  They are driven by reth's pipeline, stage by   *)
(* stage, and by its engine, a block at a time; both are external.         *)
(*                                                                         *)
(* A block is [header, system, transactions, extras]: system transactions, *)
(* the block's own, and the recorded reads and the highest precompile.  A  *)
(* transaction is [system, gas_limit, gas, log, reads]; reads is the       *)
(* recorded call it needs, or None.  Roots and blooms are what they commit *)
(* to: sequences of transactions and receipts, and sets of logs.  A block  *)
(* need not be right: its header may commit to something else.             *)
(***************************************************************************)
EXTENDS Integers, Sequences, Functions

CONSTANTS
  None,
  Blocks,        \* the blocks the source has, of every fork
  Genesis,       \* the header of block 0
  TargetBlobGas, \* the blob gas a block may use before the excess grows
  BodyBatch,     \* how many bodies one write of the body stage may hold
  MaxReorgs      \* how often the engine replaces stored blocks

VARIABLES
  headers,       \* the headers of the canonical chain, from number 1
  bodies,        \* the Ethereum bodies, from number 1 (external tables)
  calls,         \* the table BlockReadPrecompileCalls, by number
  receipts,      \* the receipts of the executed blocks, from number 1
  unwind_to,     \* the target of a running unwind, or None
  bad,           \* the headers the engine knows to be invalid
  reorgs         \* counts reorganisations, for the bound

storageVars == <<headers, bodies, calls, receipts, unwind_to, bad, reorgs>>

Numbers == {b.header.number : b \in Blocks}
DefaultExtras == [read_precompile_calls |-> None, highest_precompile_address |-> None]

--------------------------------------------------------------------------------
(* Headers and bodies: node/primitives.                                    *)

LogsOf(rs) == {r.log : r \in Range(rs)} \ {None}

\* HlHeader::from_ethereum_header: the extras are not part of the hash.
from_ethereum_header(eth, rs, count) ==
  [eth |-> eth, number |-> eth.number,
   logs_bloom_with_system_txs |-> LogsOf(rs),
   system_tx_count |-> count]

hash_slow(h) == h.eth.id

is_empty(h) == h.system_tx_count = 0 /\ h.eth.transactions_root = <<>>

calculate_tx_root(inner) == SelectSeq(inner, LAMBDA tx : ~ tx.system)

BodyOf(b) == [inner |-> b.system \o b.transactions, extras |-> b.extras]

--------------------------------------------------------------------------------
(* HlBlockExecutor.                                                        *)

\* HlEvmConfig: what a block is executed with, from storage and as the payload of the
\* engine.  A block on its own is never executed with a forwarder.
evm_env(h) == [number |-> h.number, gas_limit |-> h.eth.gas_limit]
context_for_block(body) == [extras |-> body.extras, read_precompile_forwarder |-> None]
context_for_payload(b) == [extras |-> b.extras, read_precompile_forwarder |-> None]

\* extras.read_precompile_calls.unwrap_or_default()
Recorded(extras) ==
  IF extras.read_precompile_calls = None THEN {} ELSE extras.read_precompile_calls

\* The recorded calls answer a read; one that is not recorded burns the gas.
run_precompile(tx, ctx) ==
  IF tx.reads \in {None} \union Recorded(ctx.extras)
  THEN [gas |-> tx.gas, log |-> tx.log]
  ELSE [gas |-> tx.gas_limit, log |-> None]

\* A transaction whose limit exceeds the gas left fails the block.
execute_transaction(gas_used, tx, env) == tx.gas_limit <= env.gas_limit - gas_used

\* The gas of a system transaction is not counted.
commit_transaction(gas_used, tx, output) == gas_used + (IF tx.system THEN 0 ELSE output.gas)

Execute(txs, env, ctx) ==
  LET output(i) == run_precompile(txs[i], ctx)
      gas_used[i \in 0 .. Len(txs)] ==
        IF i = 0 THEN 0 ELSE commit_transaction(gas_used[i - 1], txs[i], output(i))
  IN  [failed   |-> \E i \in DOMAIN txs : ~ execute_transaction(gas_used[i - 1], txs[i], env),
       receipts |-> [i \in DOMAIN txs |->
                       [cumulative_gas_used |-> gas_used[i], log |-> output(i).log]]]

--------------------------------------------------------------------------------
(* HlConsensus.                                                            *)

\* Cancun is active from the first block, so the excess blob gas of a header must
\* follow from its parent's; a header without it is refused.
next_block_excess_blob_gas(parent) ==
  LET gas == parent.eth.excess_blob_gas + parent.eth.blob_gas_used
  IN  IF gas < TargetBlobGas THEN 0 ELSE gas - TargetBlobGas

validate_against_parent_4844(h, parent) ==
  h.eth.excess_blob_gas = next_block_excess_blob_gas(parent)

\* A block may have its parent's timestamp, as big and small blocks do.
validate_header_against_parent(h, parent) ==
  /\ h.eth.parent = hash_slow(parent)
  /\ h.number = parent.number + 1
  /\ h.eth.timestamp >= parent.eth.timestamp
  /\ validate_against_parent_4844(h, parent)

validate_body_against_header(body, h) ==
  calculate_tx_root(body.inner) = h.eth.transactions_root

verify_receipts(h, rs) ==
  /\ rs = h.eth.receipts_root
  /\ LogsOf(rs) = h.eth.logs_bloom

TotalGas(rs) == IF rs = <<>> THEN 0 ELSE rs[Len(rs)].cumulative_gas_used

validate_all_receipts(h, rs) == TotalGas(rs) = h.eth.gas_used /\ verify_receipts(h, rs)

\* The receipts without gas, those of the system transactions, are left out.
WithGas(rs) == SelectSeq(rs, LAMBDA r : r.cumulative_gas_used # 0)

\* Byzantium is active at every block, and Prague, with its requests hash, at none.
validate_block_post_execution(h, rs) ==
  TotalGas(rs) = h.eth.gas_used /\ verify_receipts(h, WithGas(rs))

\* Nothing of a block is compared with its header before it is executed: the checks
\* of the ommers hash, the transactions root and the blob gas are commented out.
validate_block_pre_execution(h, body) == TRUE

Valid(h, body, run) ==
  /\ validate_block_pre_execution(h, body)
  /\ ~ run.failed /\ validate_block_post_execution(h, run.receipts)

--------------------------------------------------------------------------------
(* HlStorage.                                                              *)

\* A cursor's append refuses a key that is not above every other.
append_fits(number) == \A n \in Numbers : calls[n] # None => n < number

write_precompile_calls(inputs) ==
  /\ append_fits(inputs[1].number)
  /\ calls' = [n \in Numbers |->
                 IF \E i \in DOMAIN inputs : inputs[i].number = n
                 THEN (CHOOSE input \in Range(inputs) : input.number = n).extras
                 ELSE calls[n]]

\* A body that is None leaves an empty body and default extras.
write_block_bodies(inputs) ==
  /\ bodies' = bodies \o [i \in DOMAIN inputs |->
                            IF inputs[i].body = None THEN <<>> ELSE inputs[i].body.inner]
  /\ write_precompile_calls(
       [i \in DOMAIN inputs |->
          [number |-> inputs[i].number,
           extras |-> IF inputs[i].body = None THEN DefaultExtras ELSE inputs[i].body.extras]])

remove_eth_bodies_only(block) ==
  /\ bodies' = SubSeq(bodies, 1, block)
  /\ UNCHANGED calls

remove_one_too_many(block) ==
  /\ bodies' = SubSeq(bodies, 1, block)
  /\ calls' = [n \in Numbers |-> IF n >= block THEN None ELSE calls[n]]

\* The number names the last block that stays, in both tables.
remove_block_bodies_above(block) ==
  /\ bodies' = SubSeq(bodies, 1, block)
  /\ calls' = [n \in Numbers |-> IF n > block THEN None ELSE calls[n]]

\* The extras are looked up by exact number and default when there are none.
read_precompile_calls(number) == IF calls[number] = None THEN DefaultExtras ELSE calls[number]

read_block_body(number) ==
  [inner |-> bodies[number], extras |-> read_precompile_calls(number)]

--------------------------------------------------------------------------------
Tip == IF headers = <<>> THEN Genesis ELSE headers[Len(headers)]

InStep == unwind_to = None /\ Len(headers) = Len(bodies) /\ Len(bodies) = Len(receipts)

StorageInit ==
  /\ headers = <<>> /\ bodies = <<>> /\ receipts = <<>>
  /\ calls = [n \in Numbers |-> None]
  /\ unwind_to = None /\ bad = {} /\ reorgs = 0

\* The header stage stores a header that follows the tip.
HeaderStage(b) ==
  /\ unwind_to = None /\ b.header \notin bad
  /\ validate_header_against_parent(b.header, Tip)
  /\ headers' = Append(headers, b.header)
  /\ UNCHANGED <<bodies, calls, receipts, unwind_to, bad, reorgs>>

\* The body stage asks no peer for the body of an empty header.
BlockOf(h) == CHOOSE b \in Blocks : hash_slow(b.header) = hash_slow(h)
Downloaded(h) == IF is_empty(h) THEN None ELSE BodyOf(BlockOf(h))

BodyStage(count) ==
  LET first == Len(bodies) + 1
      next == SubSeq(headers, first, first + count - 1)
  IN  /\ unwind_to = None /\ first + count - 1 <= Len(headers)
      /\ \E inputs \in {[i \in DOMAIN next |->
                           [number |-> next[i].number, body |-> Downloaded(next[i])]]} :
           /\ \A i \in DOMAIN inputs :
                inputs[i].body # None => validate_body_against_header(inputs[i].body, next[i])
           /\ write_block_bodies(inputs)
      /\ UNCHANGED <<headers, receipts, unwind_to, bad, reorgs>>

\* The execution stage executes the next block as it is stored; a block it rejects
\* starts an unwind to its parent.
ExecutionStage ==
  LET n == Len(receipts) + 1
  IN  /\ unwind_to = None /\ n <= Len(bodies)
      /\ \E body \in {read_block_body(n)} :
         \E run \in {Execute(body.inner, evm_env(headers[n]), context_for_block(body))} :
           IF Valid(headers[n], body, run)
           THEN /\ receipts' = Append(receipts, run.receipts)
                /\ UNCHANGED <<unwind_to, bad>>
           ELSE /\ unwind_to' = n - 1 /\ bad' = bad \union {headers[n]}
                /\ UNCHANGED receipts
      /\ UNCHANGED <<headers, bodies, calls, reorgs>>

\* The stages unwind one after the other, in separate transactions.
UnwindBodies ==
  /\ unwind_to # None /\ Len(bodies) > unwind_to
  /\ remove_block_bodies_above(unwind_to)
  /\ UNCHANGED <<headers, receipts, unwind_to, bad, reorgs>>

UnwindHeaders ==
  /\ unwind_to # None /\ Len(bodies) = unwind_to
  /\ headers' = SubSeq(headers, 1, unwind_to) /\ unwind_to' = None
  /\ UNCHANGED <<bodies, calls, receipts, bad, reorgs>>

\* HlPayloadValidator: a payload is the block, and its hash is computed twice.
ensure_well_formed_payload(b) ==
  LET sealed == [block |-> b, hash |-> hash_slow(b.header)] IN sealed.hash = hash_slow(b.header)

\* The engine checks and executes a block whose parent is the tip in memory, and
\* persists it whole; it never compares the body with the transactions root.
SaveBlock(b) ==
  /\ InStep /\ b.header \notin bad
  /\ ensure_well_formed_payload(b)
  /\ b.header.eth.parent = hash_slow(Tip)
  /\ \E run \in {Execute(BodyOf(b).inner, evm_env(b.header), context_for_payload(b))} :
       IF validate_header_against_parent(b.header, Tip) /\ Valid(b.header, BodyOf(b), run)
       THEN /\ headers' = Append(headers, b.header)
            /\ write_block_bodies(<<[number |-> b.header.number, body |-> BodyOf(b)]>>)
            /\ receipts' = Append(receipts, run.receipts)
            /\ UNCHANGED bad
       ELSE bad' = bad \union {b.header} /\ UNCHANGED <<headers, bodies, calls, receipts>>
  /\ UNCHANGED <<unwind_to, reorgs>>

\* The engine removes persisted blocks that a reorganisation replaced.
RemoveBlocksAbove(block) ==
  /\ InStep /\ block < Len(headers) /\ reorgs < MaxReorgs
  /\ headers' = SubSeq(headers, 1, block)
  /\ remove_block_bodies_above(block)
  /\ receipts' = SubSeq(receipts, 1, block)
  /\ reorgs' = reorgs + 1
  /\ UNCHANGED <<unwind_to, bad>>

Removes == UnwindBodies \/ UnwindHeaders \/ \E n \in Numbers \union {0} : RemoveBlocksAbove(n)

Writes ==
  \/ \E b \in Blocks : HeaderStage(b) \/ SaveBlock(b)
  \/ \E count \in 1 .. BodyBatch : BodyStage(count)
  \/ ExecutionStage

\* The pipeline is one task, which runs its stages until they have caught up with
\* the headers.
Pipeline ==
  \/ \E count \in 1 .. BodyBatch : BodyStage(count)
  \/ ExecutionStage
  \/ UnwindBodies \/ UnwindHeaders

StorageFairness == WF_storageVars(Pipeline)

--------------------------------------------------------------------------------
(* What a block does, by definition: its own transactions use gas one      *)
(* after the other, the system transactions none.                          *)

Output(b, tx) == run_precompile(tx, context_for_block(BodyOf(b)))

\* The gas used by the first transactions of a block.
GasUsed(b) ==
  LET gas[i \in 0 .. Len(b.transactions)] ==
        IF i = 0 THEN 0 ELSE gas[i - 1] + Output(b, b.transactions[i]).gas
  IN  gas

OwnReceipts(b) ==
  [i \in 1 .. Len(b.transactions) |->
     [cumulative_gas_used |-> GasUsed(b)[i], log |-> Output(b, b.transactions[i]).log]]

Fits(b) ==
  /\ \A i \in 1 .. Len(b.system) : b.system[i].gas_limit <= b.header.eth.gas_limit
  /\ \A i \in 1 .. Len(b.transactions) :
       GasUsed(b)[i - 1] + b.transactions[i].gas_limit <= b.header.eth.gas_limit

\* The header of a block commits to what the block's own transactions do.
Commits(b) ==
  /\ Fits(b)
  /\ b.header.eth.gas_used = GasUsed(b)[Len(b.transactions)]
  /\ b.header.eth.receipts_root = OwnReceipts(b)
  /\ b.header.eth.logs_bloom = LogsOf(OwnReceipts(b))

\* A header follows the one it names as its parent.
Follows(b) ==
  \E parent \in {Genesis} \union {c.header : c \in Blocks} :
    /\ <<b.header.eth.parent, b.header.number>> = <<parent.eth.id, parent.number + 1>>
    /\ b.header.eth.timestamp >= parent.eth.timestamp
    /\ b.header.eth.excess_blob_gas = next_block_excess_blob_gas(parent)

\* The headers that follow their parent and commit to what their block does, and
\* those of the network's blocks, which also commit to the transactions.
SoundHeaders == {b.header : b \in {c \in Blocks : Follows(c) /\ Commits(c)}}
HonestHeaders ==
  {b.header : b \in {c \in Blocks : c.header \in SoundHeaders
                                    /\ c.header.eth.transactions_root = c.transactions}}

--------------------------------------------------------------------------------
\* Every stored body is read back as the body of the canonical block of its
\* number, with that block's own extras, whatever was written and removed before
\* (write_block_bodies, remove_block_bodies_above, read_block_bodies).  Only a
\* block with an empty header may have lost its extras, because the pipeline
\* stores it without a body.
StoredBodiesAreTheBlocks ==
  \A n \in 1 .. Len(bodies) :
    \E b \in Blocks :
      /\ b.header = headers[n]
      /\ read_block_body(n).inner = b.system \o b.transactions
      /\ read_block_body(n).extras \in {b.extras} \union (IF is_empty(b.header) THEN {DefaultExtras} ELSE {})

\* Every header that is stored is executed, or is removed again: no write of the
\* pipeline is refused for good by what an unwind left in a table
\* (remove_block_bodies_above, write_precompile_calls).  Only a header whose body
\* never matches its transactions root holds the pipeline up, because the body is
\* asked for again and again.
PipelineCompletes ==
  \A n \in Numbers :
    Len(headers) >= n ~> \/ Len(receipts) >= n \/ Len(headers) < n
                         \/ \E h \in Range(SubSeq(headers, 1, n)) :
                              BlockOf(h).transactions # h.eth.transactions_root

\* A block of the network is never declared bad, whether it was executed from storage
\* or in memory and whatever was stored before, and every block that has receipts
\* follows its parent, stays within its gas limit and has the gas, the receipts and
\* the logs its header commits to, although system transactions and recorded reads
\* are in no header (validate_header_against_parent, commit_transaction,
\* validate_block_post_execution).  That its transactions are the ones of its
\* transactions root is not promised: only the body stage compares them.
VerdictsAreRight ==
  /\ bad \intersect HonestHeaders = {}
  /\ Range(SubSeq(headers, 1, Len(receipts))) \subseteq SoundHeaders
================================================================================
