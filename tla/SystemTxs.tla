-------------------------------- MODULE SystemTxs -------------------------------
(***************************************************************************)
(* System transactions as values: how the sender of an unsigned system     *)
(* transaction is written into the signature it is given                   *)
(* (node/primitives/transaction.rs, node/types/patch.rs), how a block from *)
(* a source becomes a block of the chain and back again                    *)
(* (node/types/reth_compat.rs, node/types/mod.rs).                         *)
(*                                                                         *)
(* Addresses are numbers below AddressSpace (2^160 in the code).  A system *)
(* transaction is [to, from, input_empty, receipt] with from and receipt   *)
(* possibly None; its receipt keeps only the sender of the first Transfer  *)
(* event of the contract called.  A transaction of the chain is            *)
(* [to, input_empty, system, s], its receipt [gas, transfer].              *)
(***************************************************************************)
EXTENDS Naturals, Sequences, FiniteSets

CONSTANTS
  None,                     \* an absent value
  AddressSpace,             \* one more than the largest address
  HYPE_SYSTEM_ADDRESS,      \* 0x2222...2222
  SpotPrefix,               \* 0x2000...0000, to which a spot index is added
  SENDER_RECOVERY_TOKEN     \* the contract of the testnet patch

ADDRESS_ONE == 1
ADDRESS_ONE_S == AddressSpace + 1

ASSUME AddressAssumption ==
  /\ AddressSpace \in Nat /\ None \notin Nat
  /\ HYPE_SYSTEM_ADDRESS \in 2 .. AddressSpace - 1
  /\ SpotPrefix \in 2 .. AddressSpace - 1

Addresses == 0 .. AddressSpace - 1

\* A receipt without gas is a system transaction's.
Receipts == [gas : Nat, transfer : Addresses \cup {None}]

SystemTxOfSource ==
  [to : Addresses, from : Addresses \cup {None}, input_empty : BOOLEAN,
   receipt : {r \in Receipts : r.gas = 0} \cup {None}]

OwnTx == [to : Addresses, input_empty : BOOLEAN, system : {FALSE}, s : Nat]

\* A block as a source serves it.
SourceBlocks ==
  {b \in [patched : BOOLEAN, system_txs : Seq(SystemTxOfSource), transactions : Seq(OwnTx),
          receipts : Seq({r \in Receipts : r.gas > 0})] :
     Len(b.transactions) = Len(b.receipts)}

--------------------------------------------------------------------------------
\* Decodes a synthetic signature into a sender; the low 20 bytes otherwise.
s_to_address(s) ==
  IF s = 1 THEN HYPE_SYSTEM_ADDRESS
  ELSE IF s = ADDRESS_ONE_S THEN ADDRESS_ONE
  ELSE s % AddressSpace

\* Encodes a sender into a synthetic signature.
address_to_s(addr) ==
  IF addr = HYPE_SYSTEM_ADDRESS THEN 1
  ELSE IF addr = ADDRESS_ONE THEN ADDRESS_ONE_S
  ELSE addr

\* SpotId::to_s
to_s(index) == SpotPrefix + index

\* The sender read from the receipt, in the blocks of the testnet patch; 0x00..01
\* is declined.
recover_testnet_system_tx_sender(patched, tx) ==
  IF patched /\ tx.to = SENDER_RECOVERY_TOKEN /\ tx.receipt.transfer # ADDRESS_ONE
  THEN tx.receipt.transfer ELSE None

\* The branches of system_tx_to_reth_transaction that need no spot metadata; None
\* when it is needed.
LocalS(patched, tx) ==
  LET recovered == recover_testnet_system_tx_sender(patched, tx) IN
  IF tx.from # None THEN address_to_s(tx.from)
  ELSE IF recovered # None THEN address_to_s(recovered)
  ELSE IF tx.input_empty THEN 1
  ELSE None

SystemTransaction(tx, s) ==
  [to |-> tx.to, input_empty |-> tx.input_empty, system |-> TRUE, s |-> s]

--------------------------------------------------------------------------------
\* System transactions without a receipt are dropped.
retain(system_txs) ==
  LET kept[i \in 0..Len(system_txs)] ==
        IF i = 0 THEN <<>>
        ELSE IF system_txs[i].receipt = None THEN kept[i - 1]
        ELSE Append(kept[i - 1], system_txs[i])
  IN  kept[Len(system_txs)]

\* SealedBlock::to_reth_block once the senders ss of the retained system
\* transactions are known: system transactions come before the block's own.
to_reth_block(block, ss) ==
  LET kept == retain(block.system_txs) IN
  [transactions    |-> [i \in DOMAIN kept |-> SystemTransaction(kept[i], ss[i])]
                         \o block.transactions,
   receipts        |-> [i \in DOMAIN kept |-> kept[i].receipt] \o block.receipts,
   system_tx_count |-> Len(kept),
   patched         |-> block.patched]

recover_signer(tx) == s_to_address(tx.s)

\* Where from_db and the RPC split a block: not at all when the count is too large.
split_at(count, seq) == IF count <= Len(seq) THEN count ELSE 0

from_db_without_from(b) ==
  LET n == split_at(b.system_tx_count, b.transactions)
      m == split_at(b.system_tx_count, b.receipts)
  IN [system_txs   |-> [i \in 1 .. (IF n < m THEN n ELSE m) |->
                         [to |-> b.transactions[i].to,
                          input_empty |-> b.transactions[i].input_empty,
                          from |-> None, receipt |-> b.receipts[i]]],
      transactions |-> SubSeq(b.transactions, n + 1, Len(b.transactions)),
      receipts     |-> SubSeq(b.receipts, m + 1, Len(b.receipts)),
      patched      |-> b.patched]

\* BlockAndReceipts::from_db: the first system_tx_count transactions and receipts
\* are split off, and the sender recovered from the signature is made explicit.
from_db(b) ==
  LET n == split_at(b.system_tx_count, b.transactions)
      m == split_at(b.system_tx_count, b.receipts)
  IN [system_txs   |-> [i \in 1 .. (IF n < m THEN n ELSE m) |->
                         [to |-> b.transactions[i].to,
                          input_empty |-> b.transactions[i].input_empty,
                          from |-> recover_signer(b.transactions[i]),
                          receipt |-> b.receipts[i]]],
      transactions |-> SubSeq(b.transactions, n + 1, Len(b.transactions)),
      receipts     |-> SubSeq(b.receipts, m + 1, Len(b.receipts)),
      patched      |-> b.patched]

\* The count that migrate.rs gives the header of a block stored without one.
to_hl_header(receipts) == Cardinality({i \in DOMAIN receipts : receipts[i].gas = 0})
================================================================================
