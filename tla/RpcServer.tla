----------------------------- MODULE RpcServer -----------------------------
(***************************************************************************)
(* The hl-node compliant view of blocks, transaction counts, receipts and  *)
(* logs (addons/hl_node_compliance), served while the chain grows.         *)
(*                                                                         *)
(* A block's transactions start with its system transactions.  A compliant *)
(* answer hides them and renumbers what is left; a request chooses the     *)
(* view with the query ?hl= once the servers have been restarted with the  *)
(* compliance layer.  A handler looks the chain up several times and may   *)
(* be suspended between two lookups, so each lookup is a step of its own.  *)
(*                                                                         *)
(* One request is in progress at a time: handlers share nothing that they  *)
(* change.  The chain grows, and its last block may be replaced by another *)
(* one of the same number (ReadPrecompileForwarder's cache and the import  *)
(* service's choice of a head provide for that): a number then names       *)
(* another block, and the hash of the old one no block or, as long as      *)
(* reth's block cache holds it, still that block.                          *)
(***************************************************************************)
EXTENDS Integers, Sequences, FiniteSets, FiniteSetsExt, Functions

CONSTANTS
    Blocks,            \* the blocks that may be imported
    MaxHeight,         \* bound: number of the last block imported
    Ids,               \* the block ids clients ask for: numbers and Latest
    Queries,           \* the values of ?hl= in the request's URI, or None
    DefaultCompliant,  \* --hl-node-compliant
    Latest, None,
    InvalidHeight      \* the error of an unknown block number

VARIABLES
    chain,    \* the canonical blocks, by number
    layered,  \* the servers were restarted with HlComplianceLayer
    request   \* the request in progress or being answered, or None

(***************************************************************************)
(* Blocks and their receipts                                               *)
(***************************************************************************)
(* A block with these system transactions in front of its own ones, and    *)
(* its body's extras: the read precompile calls it recorded and the        *)
(* highest read precompile address.  A transaction is [price, gas, logs].  *)
BlockOf(system, own, calls, highest) ==
    [txs |-> system \o own, system_tx_count |-> Len(system),
     read_precompile_calls |-> calls, highest_precompile_address |-> highest]

is_system_transaction(tx) == tx.price = 0

(* HlBlockExecutor::commit_transaction: the gas used so far, which each    *)
(* receipt records, leaves the system transactions out.                    *)
cumulative_gas(txs) ==
    LET gas[i \in 0..Len(txs)] ==
            IF i = 0 THEN 0
            ELSE gas[i - 1] + (IF is_system_transaction(txs[i]) THEN 0 ELSE txs[i].gas)
    IN  gas

receipts(block) ==
    [i \in 1..Len(block.txs) |->
        [cumulative_gas_used |-> cumulative_gas(block.txs)[i], logs |-> block.txs[i].logs]]

LogsOf(rs, from, to) == MapThenSumSet(LAMBDA i : rs[i].logs, from..to)

(***************************************************************************)
(* Lookups in the provider (reth)                                          *)
(***************************************************************************)
Best == Len(chain)

Resolve(id) == IF id = Latest THEN Best ELSE id

Known(id) == Resolve(id) \in 1..Best

(* The header of the request's block, which is asked for by hash (its      *)
(* number and the block it names) or by number or tag.                     *)
Found ==
    /\ Known(request.id)
    /\ request.hash # None => chain[request.id] = request.hash

(* The block itself comes from the block cache, where a replaced one may   *)
(* still be.                                                               *)
Loadable == Found \/ request.hash # None
Loaded == IF request.hash # None THEN request.hash ELSE chain[Resolve(request.id)]

(***************************************************************************)
(* HlComplianceService::call stores the outcome of parse_hl_query in the   *)
(* request, is_hl_compliant reads it back.                                 *)
(***************************************************************************)
parse_hl_query(query) ==
    IF query = None THEN DefaultCompliant ELSE query \in {"true", "1"}

is_hl_compliant(query) == IF layered THEN parse_hl_query(query) ELSE DefaultCompliant

(***************************************************************************)
(* The answers                                                             *)
(***************************************************************************)
(* A receipt as the client sees it; tx tells which transaction of the      *)
(* block it really belongs to.                                             *)
Receipt(tx, index, gas_used, next_log_index) ==
    [tx |-> tx, index |-> index, gas_used |-> gas_used, next_log_index |-> next_log_index]

(* The receipts of transactions from..to of the block, numbered from 0,    *)
(* gas and logs counted from the first of them.                            *)
ConvertReceipts(block, from, to) ==
    LET rs == receipts(block) IN
    [j \in 1..(IF to < from THEN 0 ELSE to - from + 1) |->
        LET i == from + j - 1 IN
        Receipt(i, j - 1,
                rs[i].cumulative_gas_used
                    - (IF j = 1 THEN 0 ELSE rs[i - 1].cumulative_gas_used),
                LogsOf(rs, from, i - 1))]

EthReceipts(block) == ConvertReceipts(block, 1, Len(block.txs))

adjust_block_receipts(block, count) == ConvertReceipts(block, count + 1, Len(block.txs))

block_receipts_with_system_txs(block, count) ==
    [receipts |-> ConvertReceipts(block, count + 1, Len(block.txs)),
     system_tx_receipts |->
        ConvertReceipts(block, 1, IF count < Len(block.txs) THEN count ELSE Len(block.txs))]

(* The transactions of a compliant block, renumbered.                      *)
adjust_block(block, count) ==
    [j \in 1..(Len(block.txs) - count) |-> [tx |-> j + count, index |-> j - 1]]

EthBlock(block) == [j \in 1..Len(block.txs) |-> [tx |-> j, index |-> j - 1]]

(* The logs of a block, as reth finds them: one per log of a transaction.  *)
EthLogs(block) ==
    LET rs == receipts(block) IN
    UNION {{[tx |-> i, index |-> i - 1, log_index |-> LogsOf(rs, 1, i - 1) + k] :
               k \in 0..(rs[i].logs - 1)} : i \in 1..Len(rs)}

(* Mutant: a log keeps its log index in the whole block.                   *)
adjust_log_transaction_only(log, rs) ==
    LET system == SelectSeq(rs, LAMBDA r : r.cumulative_gas_used = 0) IN
    IF Len(system) > log.index THEN {}
    ELSE {[log EXCEPT !.index = @ - Len(system)]}

(* The adjusted log, if it is not one of a system transaction; the system  *)
(* transactions are the ones with no cumulative gas.                       *)
adjust_log(log, rs) ==
    LET system == SelectSeq(rs, LAMBDA r : r.cumulative_gas_used = 0) IN
    IF Len(system) > log.index THEN {}
    ELSE {[log EXCEPT !.index = @ - Len(system),
                      !.log_index = @ - LogsOf(system, 1, Len(system))]}

(* get_system_txs_by_block_id tells them by their gas price,               *)
(* get_system_txs_receipts_by_block_id stops at the first receipt with     *)
(* cumulative gas.                                                         *)
get_system_txs_by_block_id(block) ==
    {[tx |-> i, index |-> i - 1] :
        i \in {j \in 1..Len(block.txs) : is_system_transaction(block.txs[j])}}

(* Mutant: the loop does not stop at the first receipt with gas.           *)
get_system_txs_receipts_unbroken(block) ==
    ConvertReceipts(block, 1, Len(block.txs))

get_system_txs_receipts_by_block_id(block) ==
    LET rs == receipts(block)
        counted == {i \in 1..Len(rs) : rs[i].cumulative_gas_used # 0}
    IN  ConvertReceipts(block, 1, IF counted = {} THEN Len(rs) ELSE Min(counted) - 1)

(***************************************************************************)
(* The handlers.  step: "lookup" (the stock handler of reth, or the check  *)
(* that the block exists), "count" (system_tx_count_for_block), "load"     *)
(* (load_block_and_receipts), "done".  block is the block a step loaded,   *)
(* count the system transactions found; replaced, a history variable,      *)
(* tells that the chain's last block was replaced meanwhile.               *)
(***************************************************************************)
Panic == "panic"

BlockMethods == {"block", "transaction_count"}
ReceiptMethods == {"block_receipts", "block_receipts_with_system_tx", "transaction_receipt"}
LogMethods == {"logs", "subscribe"}
SystemMethods == {"system_txs_by_hash", "system_txs_by_number",
                  "system_txs_receipts_by_hash", "system_txs_receipts_by_number"}

Methods == BlockMethods \cup ReceiptMethods \cup LogMethods \cup SystemMethods

InProgress == request # None /\ request.step # "done"

(* A transaction is asked for by its hash: its block, and its position     *)
(* there.  A subscription waits for a block to come.  A client that asks   *)
(* by hash has seen the block.                                             *)
ByHash(method) == method \in {"transaction_receipt", "system_txs_by_hash",
                              "system_txs_receipts_by_hash"}
ByNumber(method) == method \in LogMethods \cup {"system_txs_by_number",
                                               "system_txs_receipts_by_number"}

Receive(method, id, index, hash, query) ==
    /\ request = None
    /\ method \in LogMethods => id # Latest
    /\ (method = "transaction_receipt") = (index # None)
    /\ method = "subscribe" => id \in (Best + 1)..MaxHeight
    /\ IF hash = None THEN ~ByHash(method)
       ELSE ~ByNumber(method) /\ id \in 1..Best /\ hash = chain[id]
    /\ request' = [method |-> method, id |-> id, index |-> index, hash |-> hash,
                   compliant |-> is_hl_compliant(query), step |-> "lookup", number |-> None,
                   block |-> None, count |-> None, answer |-> None, replaced |-> FALSE]
    /\ UNCHANGED <<chain, layered>>

Answer(value) == request' = [request EXCEPT !.step = "done", !.answer = value]

(* block_by_hash, block_by_number, block_transaction_count_by_*: reth      *)
(* answers, from its cache even for a hash that was replaced; a compliant  *)
(* request is then filtered.                                               *)
EthAnswer(block) == IF request.method = "block" THEN EthBlock(block) ELSE Len(block.txs)

LookupBlock ==
    /\ request.method \in BlockMethods
    /\ \/ ~Found /\ Answer(None)
       \/ /\ Loadable
          /\ request' = [request EXCEPT !.block = Loaded, !.number = Resolve(request.id),
                !.step = IF request.compliant THEN "count" ELSE "done",
                !.answer = IF request.compliant THEN @ ELSE EthAnswer(Loaded)]

(* The block's count is looked up by its number, and drain panics when it  *)
(* is too large; the transaction count's is looked up by the id of the     *)
(* request once more, and U256 subtraction wraps.                          *)
WORD == 256

FilterBlock ==
    /\ request.method = "block"
    /\ LET count == chain[request.number].system_tx_count IN
       Answer(IF count > Len(request.block.txs) THEN Panic ELSE adjust_block(request.block, count))

system_tx_count_for_block(id) == chain[Resolve(id)].system_tx_count

FilterCount ==
    /\ request.method = "transaction_count"
    /\ Answer(IF ~Found THEN None
              ELSE (Len(request.block.txs) - system_tx_count_for_block(request.id)) % WORD)

(* block_receipts and block_receipts_with_system_tx first check that the   *)
(* block exists; adjust_transaction_receipt loads the transaction.         *)
LookupReceipts ==
    /\ request.method \in ReceiptMethods
    /\ IF ~Found \/ (request.index # None /\ request.index \notin 1..Len(chain[request.id].txs))
       THEN Answer(None)
       ELSE request' = [request EXCEPT !.step =
                IF request.compliant \/ request.method = "block_receipts_with_system_tx"
                THEN "count" ELSE "load"]

CountSystemTxs ==
    /\ request.method \in ReceiptMethods
    /\ IF ~Found THEN Answer(None)
       ELSE request' = [request EXCEPT !.step = "load",
                                       !.count = system_tx_count_for_block(request.id)]

ReceiptAt(rs, i) == IF i \in 1..Len(rs) THEN rs[i] ELSE None

ReceiptsAnswer(block, count) ==
    CASE request.method = "block_receipts_with_system_tx" ->
            block_receipts_with_system_txs(block, count)
      [] request.method = "block_receipts" ->
            IF request.compliant THEN adjust_block_receipts(block, count) ELSE EthReceipts(block)
      [] request.method = "transaction_receipt" ->
            IF request.compliant
            THEN ReceiptAt(adjust_block_receipts(block, count), request.index - count)
            ELSE EthReceipts(block)[request.index]

LoadReceipts ==
    /\ request.method \in ReceiptMethods
    /\ \/ ~Found /\ Answer(None)
       \/ /\ Loadable
          /\ request' = [request EXCEPT !.step = "done", !.block = Loaded,
                                        !.answer = ReceiptsAnswer(Loaded, request.count)]

(* logs, filter_logs, filter_changes and the logs of a subscription: the   *)
(* logs of a block, then each one adjusted with the receipts of the block  *)
(* of that number.                                                         *)
LookupLogs ==
    /\ request.method \in LogMethods
    /\ IF Known(request.id)
       THEN request' = [request EXCEPT !.step = "load", !.block = chain[request.id],
                                       !.answer = EthLogs(chain[request.id])]
       ELSE request.method = "logs" /\ Answer({})

AdjustLogs ==
    /\ request.method \in LogMethods
    /\ Answer(IF request.compliant
              THEN UNION {adjust_log(log, receipts(chain[request.id])) :
                          log \in request.answer}
              ELSE request.answer)

(* The system transaction endpoints: an unknown block is None by hash and  *)
(* an error by number.                                                     *)
SystemAnswer(block) ==
    IF request.method \in {"system_txs_by_hash", "system_txs_by_number"}
    THEN get_system_txs_by_block_id(block)
    ELSE get_system_txs_receipts_by_block_id(block)

LookupSystemTxs ==
    /\ request.method \in SystemMethods
    /\ \/ ~Found /\ Answer(IF request.hash # None THEN None ELSE InvalidHeight)
       \/ /\ Loadable
          /\ request' = [request EXCEPT !.step = "done", !.block = Loaded,
                                        !.answer = SystemAnswer(Loaded)]

Handle ==
    /\ InProgress
    /\ CASE request.step = "lookup" ->
                LookupBlock \/ LookupReceipts \/ LookupLogs \/ LookupSystemTxs
         [] request.step = "count" -> FilterBlock \/ FilterCount \/ CountSystemTxs
         [] request.step = "load" -> LoadReceipts \/ AdjustLogs
    /\ UNCHANGED <<chain, layered>>

(* The answer goes out.                                                    *)
Reply ==
    /\ request # None /\ request.step = "done"
    /\ request' = None
    /\ UNCHANGED <<chain, layered>>

(* A block is imported and executed.                                       *)
NewBlock ==
    /\ Best < MaxHeight
    /\ \E b \in Blocks : chain' = Append(chain, b)
    /\ UNCHANGED <<layered, request>>

(* The last block is replaced by another one of its number.                *)
ReplaceBlock ==
    /\ \E b \in Blocks \ {chain[Best]} : chain' = [chain EXCEPT ![Best] = b]
    /\ request' = IF InProgress THEN [request EXCEPT !.replaced = TRUE] ELSE request
    /\ UNCHANGED layered

(* restart_servers: reth's servers stop and start again with the           *)
(* compliance layer.  Requests received before run to their end.           *)
RestartServers ==
    /\ ~layered
    /\ layered' = TRUE
    /\ UNCHANGED <<chain, request>>

ServerInit ==
    /\ \E b \in Blocks : chain = <<b>>
    /\ layered = FALSE
    /\ request = None

ReceiveAny ==
    \E m \in Methods, id \in Ids, q \in Queries, i \in {None} \cup 1..3, h \in {None} \cup Blocks :
        Receive(m, id, i, h, q)

(***************************************************************************)
(* Properties.  The reference view of a block is defined from its          *)
(* transactions alone: the visible ones, each with its rank among them.    *)
(***************************************************************************)
Visible(block) == {i \in 1..Len(block.txs) : ~is_system_transaction(block.txs[i])}
Hidden(block) == 1..Len(block.txs) \ Visible(block)

Before(S, i) == {j \in S : j < i}

LogCount(block, S) == MapThenSumSet(LAMBDA i : block.txs[i].logs, S)

(* Receipt i of the block when only the transactions S are counted.        *)
ViewOf(block, S, i) ==
    Receipt(i, Cardinality(Before(S, i)),
            IF is_system_transaction(block.txs[i]) THEN 0 ELSE block.txs[i].gas,
            LogCount(block, Before(S, i)))

View(block, S) == {ViewOf(block, S, i) : i \in S}

Answered(methods) ==
    /\ request # None
    /\ request.step = "done"
    /\ request.method \in methods
    /\ request.answer \notin {None, InvalidHeight}

ServedBlock == request.block

(* Both lookups of the request's id are bound to find the same block.      *)
Stable == request.hash # None \/ (request.id # Latest /\ ~request.replaced)

(* eth_getBlockBy* and eth_getBlockTransactionCountBy* in compliant mode:  *)
(* exactly the transactions that are not system transactions are served,   *)
(* numbered from 0 without gaps.  The count by tag is left out: it may mix *)
(* two blocks, like the receipts that ReceiptsOfOneBlock is about.  A      *)
(* block is filtered with the count of the canonical block of its number,  *)
(* so that only a block which was replaced meanwhile may be filtered wrong *)
(* or make drain panic; the count by hash is right even then.              *)
BlocksHideSystemTxs ==
    Answered(BlockMethods) /\ request.compliant =>
        LET visible == Visible(ServedBlock) IN
        IF request.method = "block" /\ request.replaced THEN TRUE
        ELSE IF request.method = "block"
        THEN /\ Range(request.answer) =
                    {[tx |-> i, index |-> Cardinality(Before(visible, i))] : i \in visible}
             /\ \A j \in 1..Len(request.answer) : request.answer[j].index = j - 1
        ELSE Stable => request.answer = Cardinality(visible)

(* eth_getBlockReceipts, eth_getTransactionReceipt and                     *)
(* eth_getBlockReceiptsWithSystemTx agree on every receipt: a visible      *)
(* transaction has the same index, gas and first log index whichever way   *)
(* it is asked for, its gas is its own, a hidden one is never served as    *)
(* a visible one.  By hash this holds although the block is replaced       *)
(* between the lookups; blocks asked for by tag are ReceiptsOfOneBlock's.  *)
ReceiptsHideSystemTxs ==
    Answered(ReceiptMethods) /\ Stable =>
        LET visible == View(ServedBlock, Visible(ServedBlock)) IN
        CASE request.method = "block_receipts" /\ request.compliant ->
                Range(request.answer) = visible
          [] request.method = "transaction_receipt" /\ request.compliant ->
                request.answer \in visible /\ request.answer.tx = request.index
          [] request.method = "block_receipts_with_system_tx" ->
                Range(request.answer.receipts) = visible
          [] OTHER -> Range(EthReceipts(ServedBlock)) =
                          View(ServedBlock, 1..Len(ServedBlock.txs))

(* A compliant log names its transaction and its place by the numbers the  *)
(* compliant receipts of the same block give, although it is adjusted from *)
(* cumulative gas and they from the header's count.  The description of    *)
(* rpc.rs says otherwise, "we can just return the log as is, and the       *)
(* client will adjust the transaction index accordingly": the answer is    *)
(* what adjust_log makes of it, with both indices adjusted by the server.  *)
LogsAgreeWithReceipts ==
    Answered(LogMethods) /\ request.compliant /\ request.block # None /\ ~request.replaced =>
        request.answer =
            UNION {{[tx |-> r.tx, index |-> r.index, log_index |-> r.next_log_index + k] :
                        k \in 0..(ServedBlock.txs[r.tx].logs - 1)} :
                   r \in View(ServedBlock, Visible(ServedBlock))}

(* The compliant endpoints tell one story about a block: they hide the     *)
(* same transactions and number the others alike.                          *)
CompliantViewsAgree ==
    BlocksHideSystemTxs /\ ReceiptsHideSystemTxs /\ LogsAgreeWithReceipts

(* The three ways the code tells a system transaction (the gas price, the  *)
(* count in the header, no cumulative gas) give the same ones, so the      *)
(* endpoints that list them return exactly what the compliant ones hide.   *)
SystemViewsAgree ==
    /\ Answered({"block_receipts_with_system_tx"}) /\ Stable =>
            Range(request.answer.system_tx_receipts) = View(ServedBlock, Hidden(ServedBlock))
    /\ Answered({"system_txs_receipts_by_hash", "system_txs_receipts_by_number"}) =>
            Range(request.answer) = View(ServedBlock, Hidden(ServedBlock))
    /\ Answered({"system_txs_by_hash", "system_txs_by_number"}) =>
            request.answer = {[tx |-> i, index |-> Cardinality(Before(Hidden(ServedBlock), i))] :
                                 i \in Hidden(ServedBlock)}

(* "They occupy the first `system_tx_count` positions, per the count       *)
(* recorded in the header extras" (adjust_block_receipts): the receipts    *)
(* served for the tag latest are filtered with the count of their own      *)
(* block.  The count and the receipts are two lookups of the tag.          *)
ReceiptsOfOneBlock ==
    Answered({"block_receipts"}) /\ request.compliant /\ ~request.replaced =>
        Range(request.answer) = View(ServedBlock, Visible(ServedBlock))
=============================================================================
