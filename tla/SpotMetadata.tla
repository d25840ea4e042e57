------------------------------ MODULE SpotMetadata ------------------------------
(***************************************************************************)
(* The spot metadata that names the senders of token transfers             *)
(* (node/types/reth_compat.rs, node/spot_meta): a map from contract to     *)
(* spot index, cached in memory, fetched from an API on a miss by one      *)
(* thread at a time and kept in the database across restarts.  Threads     *)
(* convert blocks of a source one system transaction after the other.      *)
(* The stored blocks are served to other nodes (addons/sync_server.rs).    *)
(***************************************************************************)
EXTENDS SystemTxs, FiniteSets

CONSTANTS
  Threads,        \* threads that convert blocks
  Tokens,         \* the contracts linked to a spot token
  IndexOf,        \* [Tokens -> Nat], the index the API gives each contract
  Overrides,      \* set of <<contract, index>>, the manual overrides
  Blocks,         \* the blocks of the source
  MaxConversions, \* bound on the conversions of each block
  MaxRestarts     \* bound on the restarts

\* An index has 64 bits: added to the prefix it stays an address, far from HYPE's.
Indices ==
  {index \in Nat : to_s(index) \in Addresses /\ to_s(index) # HYPE_SYSTEM_ADDRESS}

ASSUME SpotAssumption ==
  /\ IndexOf \in [Tokens -> Indices] /\ Overrides \subseteq Tokens \X Indices
  /\ \A o, p \in Overrides : o[1] = p[1] => o = p
  /\ Blocks \subseteq SourceBlocks
  /\ None \notin Threads
  /\ {MaxConversions, MaxRestarts} \subseteq Nat

VARIABLES
  listed,      \* the contracts the API lists
  up,          \* the node is running
  restarts,    \* starts of the node so far
  cache,       \* SPOT_EVM_MAP, a set of <<contract, index>>
  db,          \* the SpotMetadata table: such a set, or None
  lock,        \* the thread that holds SPOT_FETCH_LOCK, or None
  pc,          \* where each thread is
  block,       \* the block each thread converts
  ss,          \* the senders it has found so far
  metadata,    \* what it has fetched
  converted    \* [Blocks -> sequence of the chain blocks it was converted to]

memory == <<cache, lock, pc, block, ss, metadata>>
vars == <<listed, up, restarts, cache, db, lock, pc, block, ss, metadata, converted>>

NoThread == [t \in Threads |-> "idle"]

Init ==
  /\ listed = {} /\ up = FALSE /\ restarts = 0 /\ db = None
  /\ cache = {} /\ lock = None /\ pc = NoThread
  /\ block = [t \in Threads |-> None] /\ ss = [t \in Threads |-> <<>>]
  /\ metadata = [t \in Threads |-> {}]
  /\ converted = [b \in Blocks |-> <<>>]

--------------------------------------------------------------------------------

\* The API's answer with the manual overrides applied last.
erc20_contract_to_spot_token(tokens) ==
  {<<token, IndexOf[token]>> : token \in tokens \ {o[1] : o \in Overrides}}
    \cup Overrides

Known(map, token) == \E entry \in map : entry[1] = token

get(map, token) == (CHOOSE entry \in map : entry[1] = token)[2]

\* A token is linked to a contract on the exchange (external).
ListToken(token) ==
  /\ token \notin listed
  /\ listed' = listed \cup {token}
  /\ UNCHANGED <<up, restarts, memory, db, converted>>

\* load_spot_metadata_cache when the node starts.
Start ==
  /\ ~ up /\ restarts < MaxRestarts
  /\ up' = TRUE /\ restarts' = restarts + 1
  /\ cache' = IF db = None THEN {} ELSE db
  /\ UNCHANGED <<listed, lock, pc, block, ss, metadata, db, converted>>

\* The process ends, wherever its threads are.
Crash ==
  /\ up /\ restarts < MaxRestarts
  /\ up' = FALSE
  /\ cache' = {} /\ lock' = None /\ pc' = NoThread
  /\ block' = [t \in Threads |-> None] /\ ss' = [t \in Threads |-> <<>>]
  /\ metadata' = [t \in Threads |-> {}]
  /\ UNCHANGED <<listed, restarts, db, converted>>

\* init_spot_metadata (init-state): what is stored already is kept.
init_spot_metadata ==
  /\ ~ up /\ db = None
  /\ db' = erc20_contract_to_spot_token(listed)
  /\ UNCHANGED <<listed, up, restarts, memory, converted>>

\* clear_spot_metadata (clear-spot-meta).
clear_spot_metadata ==
  /\ ~ up /\ db # None
  /\ db' = None
  /\ UNCHANGED <<listed, up, restarts, memory, converted>>

--------------------------------------------------------------------------------
kept(t) == retain(block[t].system_txs)

tx(t) == kept(t)[Len(ss[t]) + 1]

\* A thread takes a block to convert.
Begin(t, b) ==
  /\ up /\ pc[t] = "idle"
  /\ Len(converted[b]) + Cardinality({u \in Threads : block[u] = b}) < MaxConversions
  /\ block' = [block EXCEPT ![t] = b]
  /\ ss' = [ss EXCEPT ![t] = <<>>]
  /\ pc' = [pc EXCEPT ![t] = "transaction"]
  /\ UNCHANGED <<listed, up, restarts, cache, db, lock, metadata, converted>>

AppendS(t, s) == ss' = [ss EXCEPT ![t] = Append(@, s)]

TransactionGuessing(t) ==
  /\ pc[t] = "transaction" /\ Len(ss[t]) < Len(kept(t))
  /\ LET s == LocalS(block[t].patched, tx(t)) IN
     AppendS(t, IF s # None THEN s
                ELSE to_s(IF Known(cache, tx(t).to) THEN get(cache, tx(t).to) ELSE 0))
  /\ UNCHANGED <<listed, up, restarts, cache, db, lock, pc, block, metadata, converted>>

\* One turn of the loop of system_tx_to_reth_transaction: the sender is known
\* without spot metadata or is in the cache, or the fetch lock is wanted.
Transaction(t) ==
  /\ pc[t] = "transaction" /\ Len(ss[t]) < Len(kept(t))
  /\ LET s == LocalS(block[t].patched, tx(t)) IN
     \/ s # None /\ AppendS(t, s) /\ UNCHANGED pc
     \/ /\ s = None /\ Known(cache, tx(t).to)
        /\ AppendS(t, to_s(get(cache, tx(t).to))) /\ UNCHANGED pc
     \/ /\ s = None /\ ~ Known(cache, tx(t).to)
        /\ pc' = [pc EXCEPT ![t] = "lock"] /\ UNCHANGED ss
  /\ UNCHANGED <<listed, up, restarts, cache, db, lock, block, metadata, converted>>

Lock(t) ==
  /\ pc[t] = "lock" /\ lock = None
  /\ lock' = t
  /\ pc' = [pc EXCEPT ![t] = "check"]
  /\ UNCHANGED <<listed, up, restarts, cache, db, block, ss, metadata, converted>>

CheckNothing(t) ==
  /\ pc[t] = "check"
  /\ pc' = [pc EXCEPT ![t] = "fetch"]
  /\ UNCHANGED <<listed, up, restarts, lock, cache, db, block, ss, metadata, converted>>

\* Another thread may have filled the cache while this one waited.
Check(t) ==
  /\ pc[t] = "check"
  /\ \/ /\ Known(cache, tx(t).to)
        /\ lock' = None /\ pc' = [pc EXCEPT ![t] = "transaction"]
     \/ /\ ~ Known(cache, tx(t).to)
        /\ pc' = [pc EXCEPT ![t] = "fetch"] /\ UNCHANGED lock
  /\ UNCHANGED <<listed, up, restarts, cache, db, block, ss, metadata, converted>>

\* fetch_spot_meta tries until the API answers.
Fetch(t) ==
  /\ pc[t] = "fetch"
  /\ metadata' = [metadata EXCEPT ![t] = erc20_contract_to_spot_token(listed)]
  /\ pc' = [pc EXCEPT ![t] = "store"]
  /\ UNCHANGED <<listed, up, restarts, cache, db, lock, block, ss, converted>>

\* The cache is replaced as a whole.
Store(t) ==
  /\ pc[t] = "store"
  /\ cache' = metadata[t]
  /\ pc' = [pc EXCEPT ![t] = "persist"]
  /\ UNCHANGED <<listed, up, restarts, db, lock, block, ss, metadata, converted>>

PersistKeepingLock(t) ==
  /\ pc[t] = "persist"
  /\ \/ db' = metadata[t]
     \/ UNCHANGED db
  /\ metadata' = [metadata EXCEPT ![t] = {}]
  /\ pc' = [pc EXCEPT ![t] = "transaction"]
  /\ UNCHANGED <<listed, up, restarts, cache, lock, block, ss, converted>>

\* persist_spot_metadata_to_db, whose failure is only logged, and the end of the
\* guard.
Persist(t) ==
  /\ pc[t] = "persist"
  /\ \/ db' = metadata[t]
     \/ UNCHANGED db
  /\ lock' = None
  /\ metadata' = [metadata EXCEPT ![t] = {}]
  /\ pc' = [pc EXCEPT ![t] = "transaction"]
  /\ UNCHANGED <<listed, up, restarts, cache, block, ss, converted>>

\* to_reth_block has all the senders.
Finish(t) ==
  /\ pc[t] = "transaction" /\ Len(ss[t]) = Len(kept(t))
  /\ converted' = [converted EXCEPT ![block[t]] = Append(@, to_reth_block(block[t], ss[t]))]
  /\ pc' = [pc EXCEPT ![t] = "idle"]
  /\ block' = [block EXCEPT ![t] = None]
  /\ ss' = [ss EXCEPT ![t] = <<>>]
  /\ UNCHANGED <<listed, up, restarts, cache, db, lock, metadata>>

--------------------------------------------------------------------------------
Step(t) ==
  \/ Transaction(t) \/ Lock(t) \/ Check(t) \/ Fetch(t) \/ Store(t) \/ Persist(t)
  \/ Finish(t)

Next ==
  \/ \E token \in Tokens : ListToken(token)
  \/ Start \/ Crash \/ init_spot_metadata \/ clear_spot_metadata
  \/ \E t \in Threads, b \in Blocks : Begin(t, b)
  \/ \E t \in Threads : Step(t)

Spec == Init /\ [][Next]_vars

\* Threads run, tokens in use are listed in the end, and the node is started.
FairSpec ==
  /\ Spec /\ WF_vars(Start)
  /\ \A token \in Tokens : WF_vars(ListToken(token))
  /\ \A t \in Threads : WF_vars(Step(t))

--------------------------------------------------------------------------------
\* Type correctness.
TypeOK ==
  /\ listed \subseteq Tokens /\ up \in BOOLEAN /\ restarts \in 0..MaxRestarts
  /\ \A map \in {cache} \cup {metadata[t] : t \in Threads}
                  \cup (IF db = None THEN {} ELSE {db}) :
       map \subseteq Tokens \X Nat
  /\ lock \in Threads \cup {None}
  /\ pc \in [Threads -> {"idle", "transaction", "lock", "check", "fetch", "store",
                         "persist"}]
  /\ \A t \in Threads : block[t] \in Blocks \cup {None} /\ ss[t] \in Seq(Nat)

\* A thread asks the API only while nobody else does and only for a contract that
\* the cache still lacks, so a herd of misses for one contract makes one request.
FetchIsNeeded ==
  \A t \in Threads : pc[t] = "fetch" =>
    /\ ~ Known(cache, tx(t).to)
    /\ \A u \in Threads \ {t} : pc[u] \notin {"fetch", "store"}

\* However often a block is converted, by whichever thread and on whichever side of
\* a restart, it gets the same transactions: the senders do not depend on what the
\* metadata was when a thread looked.
ConversionsAgree ==
  \A b \in Blocks : \A i, j \in DOMAIN converted[b] : converted[b][i] = converted[b][j]

\* The signer that the chain recovers from a system transaction is the sender the
\* source names, the one in the receipt where the patch applies, or HYPE's address.
SenderIsRecovered ==
  \A b \in Blocks : \A i \in DOMAIN converted[b] :
    LET txs == retain(b.system_txs) IN
    \A j \in DOMAIN txs :
      LET signer == recover_signer(converted[b][i].transactions[j])
          logged == recover_testnet_system_tx_sender(b.patched, txs[j])
      IN IF txs[j].from # None THEN signer = txs[j].from
         ELSE IF logged # None THEN signer = logged
         ELSE IF txs[j].input_empty THEN signer = HYPE_SYSTEM_ADDRESS
         ELSE signer >= SpotPrefix

\* A block that is stored, served by from_db to another node and converted there
\* is the same block, although that node has no spot metadata at all.
ServedBlockIsTheBlock ==
  \A b \in Blocks : \A i \in DOMAIN converted[b] :
    LET c == converted[b][i]
        served == from_db(c)
    IN to_reth_block(served,
         [j \in DOMAIN served.system_txs |-> LocalS(served.patched, served.system_txs[j])])
       = c

\* The first system_tx_count transactions are the system transactions, and the
\* number of receipts without gas, from which migrate.rs restores the count, agrees.
SystemTxsAreCounted ==
  \A b \in Blocks : \A i \in DOMAIN converted[b] :
    LET c == converted[b][i] IN
    /\ Len(c.receipts) = Len(c.transactions)
    /\ \A j \in DOMAIN c.transactions : c.transactions[j].system <=> j <= c.system_tx_count
    /\ to_hl_header(c.receipts) = c.system_tx_count

\* A converted block carries what the source's block says. Of the sender of a spot
\* token's transaction it keeps only that it is in the range of the spot tokens:
\* which token it is follows from the metadata the conversion used.
ConversionIsFaithful ==
  SenderIsRecovered /\ ServedBlockIsTheBlock /\ SystemTxsAreCounted

\* Every conversion ends, unless the node does.
EveryConversionEnds ==
  \A t \in Threads : pc[t] # "idle" ~> pc[t] = "idle"
================================================================================
