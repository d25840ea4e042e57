------------------------------ MODULE MCBlockSync -------------------------------
(***************************************************************************)
(* Two forks from height 2.  On one, block 2 reads a precompile and has    *)
(* its parent's timestamp, and block 3 is empty; on the other, block 2 has *)
(* only a system transaction, and there are two blocks 3: one with a wrong *)
(* receipts root, one with a transaction that fits the limit only because  *)
(* system transactions use none of it.  Two more blocks 3 of the first     *)
(* fork have the receipts they should, but one has the transactions root   *)
(* of another list and one an excess of blob gas its parent does not give. *)
(***************************************************************************)
EXTENDS BlockSync

Sum(txs) ==
  LET sum[i \in 0 .. Len(txs)] == IF i = 0 THEN 0 ELSE sum[i - 1] + txs[i].gas IN sum[Len(txs)]

\* The receipts the source has for a block, every read of which is recorded.
Claimed(txs) ==
  [i \in DOMAIN txs |-> [cumulative_gas_used |-> Sum(SubSeq(txs, 1, i)), log |-> txs[i].log]]

ClaimedSystem(txs) == [i \in DOMAIN txs |-> [cumulative_gas_used |-> 0, log |-> txs[i].log]]

SystemTx(log) ==
  [system |-> TRUE, gas_limit |-> 2, gas |-> 2, log |-> log, reads |-> None]
Tx(limit, gas, log, reads) ==
  [system |-> FALSE, gas_limit |-> limit, gas |-> gas, log |-> log, reads |-> reads]

Block(id, parent, number, timestamp, system, txs, claimed, extras) ==
  [header |-> from_ethereum_header(
                [id |-> id, parent |-> parent, number |-> number, timestamp |-> timestamp,
                 gas_limit |-> 4, blob_gas_used |-> 0, excess_blob_gas |-> 0,
                 gas_used |-> Sum(txs), transactions_root |-> txs, receipts_root |-> claimed,
                 logs_bloom |-> {tx.log : tx \in Range(txs)} \ {None}],
                ClaimedSystem(system) \o Claimed(txs), Len(system)),
   system |-> system, transactions |-> txs, extras |-> extras]

Extras(recorded, highest) ==
  [read_precompile_calls |-> recorded, highest_precompile_address |-> highest]

A1 == LET txs == <<Tx(2, 1, "a", None)>>
      IN  Block("a1", "g", 1, 1, <<SystemTx("s")>>, txs, Claimed(txs), Extras({}, "p1"))
A2 == LET txs == <<Tx(3, 1, "b", "r"), Tx(2, 1, None, None)>>
      IN  Block("a2", "a1", 2, 1, <<>>, txs, Claimed(txs), Extras({"r"}, "p1"))
A3 == Block("a3", "a2", 3, 2, <<>>, <<>>, <<>>, Extras({}, "p2"))
B2 == Block("b2", "a1", 2, 2, <<SystemTx("t")>>, <<>>, <<>>, Extras({}, "p2"))
B3 == LET txs == <<Tx(2, 1, "c", None)>>
      IN  Block("b3", "b2", 3, 3, <<>>, txs, <<>>, Extras({}, "p1"))
C3 == LET txs == <<Tx(4, 2, "c", None)>>
      IN  Block("c3", "b2", 3, 3, <<SystemTx(None)>>, txs, Claimed(txs), Extras({}, "p1"))

D3 == LET txs == <<Tx(2, 1, "d", None)>>
      IN  [Block("d3", "a2", 3, 2, <<>>, txs, Claimed(txs), Extras({}, "p1"))
             EXCEPT !.header.eth.transactions_root = <<Tx(3, 1, "d", None)>>]
E3 == [Block("e3", "a2", 3, 2, <<SystemTx("t")>>, <<>>, <<>>, Extras({}, "p1"))
         EXCEPT !.header.eth.excess_blob_gas = 1]

AllBlocksOfSource == {A1, A2, A3, B2, B3, C3, D3, E3}
GenesisHeader ==
  [eth |-> [id |-> "g", number |-> 0, timestamp |-> 0, blob_gas_used |-> 0, excess_blob_gas |-> 0], number |-> 0]
Heights == {<<1, 2, 3>>, <<2>>}
================================================================================
