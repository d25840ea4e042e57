----------------------------- MODULE MCSpotMetadata -----------------------------
(***************************************************************************)
(* Two token contracts, A and B, of which B has a manual override.  The    *)
(* blocks hold the kinds of system transaction the conversion tells apart. *)
(***************************************************************************)
EXTENDS SpotMetadata, TLC

A == 10
B == 11

MCIndexOf == (A :> 0) @@ (B :> 3)

MCOverrides == {<<B, 5>>}

Receipt(transfer) == [gas |-> 0, transfer |-> transfer]

System(to, from, input_empty, receipt) ==
  [to |-> to, from |-> from, input_empty |-> input_empty, receipt |-> receipt]

Own(n) == [i \in 1..n |-> [to |-> 20, input_empty |-> TRUE, system |-> FALSE, s |-> 33 + i]]

OwnReceipts(n) == [i \in 1..n |-> [gas |-> 21 * i, transfer |-> None]]

Block(patched, system_txs, n) ==
  [patched |-> patched, system_txs |-> system_txs, transactions |-> Own(n),
   receipts |-> OwnReceipts(n)]

\* Native transfers with and without an explicit sender, explicit senders with an
\* encoding of their own, token transfers and one without receipt.
MCBlocks ==
  {Block(FALSE, <<System(A, None, FALSE, Receipt(7)), System(B, None, FALSE, Receipt(7))>>, 1),
   Block(FALSE, <<System(9, None, TRUE, Receipt(None)), System(B, None, FALSE, None),
                  System(A, 1, FALSE, Receipt(1))>>, 1),
   Block(TRUE, <<System(A, None, FALSE, Receipt(7)), System(A, None, FALSE, Receipt(1)),
                 System(9, 22, TRUE, Receipt(None))>>, 0)}

Symmetry == Permutations(Threads)
================================================================================
