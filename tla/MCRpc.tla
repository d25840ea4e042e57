-------------------------------- MODULE MCRpc -------------------------------
(***************************************************************************)
(* Instances of the RPC models for TLC.                                    *)
(***************************************************************************)
EXTENDS RpcCalls

Tx(price, gas, logs) == [price |-> price, gas |-> gas, logs |-> logs]

\* No system transactions, one, and two; with and without logs on either side;
\* recorded calls at a warm and at a high address, with and without a range.
Plain == BlockOf(<<>>, <<Tx(1, 2, 1)>>, {}, None)
OneSystem == BlockOf(<<Tx(0, 1, 1)>>, <<Tx(1, 2, 2), Tx(1, 1, 1)>>, {<<8, "a">>}, 9)
TwoSystem == BlockOf(<<Tx(0, 3, 0), Tx(0, 1, 2)>>, <<Tx(1, 1, 0)>>, {<<9, "a">>}, None)

ThreeBlocks == {Plain, OneSystem, TwoSystem}
TwoBlocks == {Plain, OneSystem}

NumbersAndLatest == 0..4 \cup {Latest}
OnlyLatest == {Latest}
AllQueries == {None, "true", "false"}
NoQuery == {None}

\* What a transaction does at each limit, and how it is asked for.
Transaction(used, refund, need, early, basic, halts) ==
    [intrinsic |-> 21, used |-> used, refund |-> refund, need |-> need, early |-> early,
     basic |-> basic, halts |-> halts]

EstimateOf(tx, gas_limit, gas_price) ==
    [tx |-> tx, gas_limit |-> gas_limit, max_gas_limit |-> 600, gas_price |-> gas_price,
     allowance |-> 300]

SomeEstimates ==
    {EstimateOf(Transaction(21, 0, 21, 0, TRUE, FALSE), 0, 0),
     EstimateOf(Transaction(60, 0, 60, 0, FALSE, FALSE), 0, 0),
     EstimateOf(Transaction(60, 20, 80, 0, FALSE, FALSE), 700, 1),
     EstimateOf(Transaction(60, 0, 220, 0, FALSE, FALSE), 0, 1),
     EstimateOf(Transaction(100, 0, 550, 22, FALSE, FALSE), 0, 0),
     EstimateOf(Transaction(100, 0, 101, 0, FALSE, FALSE), 101, 0),
     EstimateOf(Transaction(100, 0, 301, 0, FALSE, FALSE), 0, 1),
     EstimateOf(Transaction(60, 0, 60, 0, FALSE, TRUE), 0, 0)}

Call(kind, id, override, read, estimate) ==
    [kind |-> kind, id |-> id, override |-> override, read |-> read, estimate |-> estimate]

\* A recorded and an unrecorded input at a warm address, and an address that
\* only a block's own range or recorded calls cover.
Reads == {<<8, "a">>, <<8, "b">>, <<9, "a">>}

SomeCalls ==
    {Call("call", id, o, r, None) : id \in NumbersAndLatest \cup {Pending}, o \in {None, 1}, r \in Reads}
    \cup {Call(k, id, None, r, None) : k \in {"simulate", "trace"}, id \in NumbersAndLatest, r \in Reads}
    \cup {Call("estimate", id, None, <<8, "b">>, EstimateOf(Transaction(60, 0, 60, 0, FALSE, FALSE), 0, 0)) :
             id \in {1, 2, Pending}}
    \cup {Call("estimate", Latest, None, <<8, "b">>, e) : e \in SomeEstimates}

NoCalls == {}

\* One of the two forwarders.  Without any, a call is answered as with --forward-call
\* at a block other than latest; with both, as with --forward-call at latest and as
\* with the other at any other block.
OneOrOther == {<<TRUE, FALSE>>, <<FALSE, TRUE>>}
=============================================================================
