---------------------------- MODULE GasEstimate ----------------------------
(***************************************************************************)
(* eth_estimateGas (node/rpc/estimate.rs): one execution at the highest    *)
(* limit, one at an optimistic limit, then a binary search for a limit     *)
(* that suffices.  The executions are steps; an estimate is the record of  *)
(* the function's local variables.                                         *)
(*                                                                         *)
(* A transaction is described by what the EVM does with it at each gas     *)
(* limit: it succeeds from the limit need on, using used (and refunding    *)
(* refund); below that it runs out of gas, or reverts having used only     *)
(* early (a contract that looks at the gas it has left); below intrinsic   *)
(* it is refused.  halts tells that it fails for another reason.           *)
(***************************************************************************)
EXTENDS Integers

CONSTANTS
    MinTransactionGas,  \* MIN_TRANSACTION_GAS
    CallStipendGas,     \* CALL_STIPEND_GAS
    ErrorRatio          \* ESTIMATE_GAS_ERROR_RATIO, in thousandths

ASSUME GasAssumption == {MinTransactionGas, CallStipendGas, ErrorRatio} \subseteq Nat

Minimum(a, b) == IF a < b THEN a ELSE b

(* What eth_estimateGas is asked for.  A transaction that succeeds uses    *)
(* some gas and no more than its limit, its intrinsic gas is paid before   *)
(* anything else, and none has less of it than a plain transfer.           *)
EstimateRequest(req) ==
    /\ {req.gas_limit, req.max_gas_limit, req.gas_price, req.allowance} \subseteq Nat
    /\ {req.tx.intrinsic, req.tx.used, req.tx.refund, req.tx.need, req.tx.early} \subseteq Nat
    /\ req.tx.basic \in BOOLEAN /\ req.tx.halts \in BOOLEAN
    /\ 0 < req.tx.used /\ req.tx.used <= req.tx.need
    /\ MinTransactionGas <= req.tx.intrinsic /\ req.tx.intrinsic <= req.tx.need

(* One execution: transact (the EVM).                                      *)
Execute(tx, limit) ==
    IF limit < tx.intrinsic THEN [status |-> "too_low", gas_used |-> 0]
    ELSE IF tx.halts THEN [status |-> "halt", gas_used |-> limit]
    ELSE IF limit >= tx.need THEN [status |-> "success", gas_used |-> tx.used]
    ELSE IF tx.early # 0 THEN [status |-> "revert", gas_used |-> Minimum(tx.early, limit)]
    ELSE [status |-> "out_of_gas", gas_used |-> limit]

(* The limit the search starts from: the request's or the block's, capped  *)
(* by the block's and, when the request pays for gas, by what its sender   *)
(* can pay.                                                                *)
highest_gas_limit(req) ==
    LET limit == IF req.gas_limit = 0 THEN req.max_gas_limit
                 ELSE Minimum(req.gas_limit, req.max_gas_limit)
    IN  IF req.gas_price > 0 THEN Minimum(limit, req.allowance) ELSE limit

StartEstimate(req) ==
    [step |-> IF req.tx.basic THEN "basic" ELSE "first",
     req |-> req, limit |-> highest_gas_limit(req),
     highest |-> highest_gas_limit(req), lowest |-> 0, mid |-> 0, result |-> 0]

Done(e, result) == [e EXCEPT !.step = "done", !.result = result]

(* A plain transfer needs MIN_TRANSACTION_GAS, if that is enough.          *)
TryBasicTransfer(e) ==
    IF Execute(e.req.tx, MinTransactionGas).status = "success"
    THEN Done(e, MinTransactionGas)
    ELSE [e EXCEPT !.step = "first"]

(* The binary search takes its first middle from the gas used.             *)
StartSearch(e, gas_used) ==
    [e EXCEPT !.step = "search",
              !.mid = Minimum(gas_used * 3, (e.highest + e.lowest) \div 2)]

(* Mutant: the gas used at the highest limit is taken for enough.          *)
TryHighestOnly(e) ==
    LET res == Execute(e.req.tx, e.limit)
    IN  Done(e, IF res.status = "success" THEN res.gas_used ELSE 0)

(* Every failure at the highest limit is an error, 0 here (map_out_of_gas_ *)
(* err only chooses which one).                                            *)
TryHighest(e) ==
    LET res == Execute(e.req.tx, e.limit)
        lowest == IF res.gas_used = 0 THEN 0 ELSE res.gas_used - 1
        optimistic == ((res.gas_used + e.req.tx.refund + CallStipendGas) * 64) \div 63
        found == [e EXCEPT !.highest = e.limit, !.lowest = lowest]
    IN  IF res.status # "success" THEN Done(e, 0)
        ELSE IF optimistic < e.limit THEN [found EXCEPT !.step = "optimistic", !.mid = optimistic]
        ELSE StartSearch(found, res.gas_used)

(* reth's update_estimated_gas_range.                                      *)
update_estimated_gas_range(e, status, limit) ==
    IF status = "halt" THEN Done(e, 0)
    ELSE IF status = "success" THEN [e EXCEPT !.highest = limit]
    ELSE [e EXCEPT !.lowest = limit]

TryOptimistic(e) ==
    LET res == Execute(e.req.tx, e.mid) IN
    IF res.status = "too_low" THEN Done(e, 0)
    ELSE LET next == update_estimated_gas_range(e, res.status, e.mid) IN
         IF next.step = "done" THEN next ELSE StartSearch(next, res.gas_used)

SearchEnds(e) ==
    \/ e.lowest + 1 >= e.highest
    \/ (e.highest - e.lowest) * 1000 < ErrorRatio * e.highest

Search(e) ==
    IF SearchEnds(e) THEN Done(e, e.highest)
    ELSE LET next == update_estimated_gas_range(e, Execute(e.req.tx, e.mid).status, e.mid)
         IN  [next EXCEPT !.mid = (next.highest + next.lowest) \div 2]

(* The next step of estimate_gas_with.                                     *)
EstimateStep(e) ==
    IF e.step = "basic" THEN TryBasicTransfer(e)
    ELSE IF e.step = "first" THEN TryHighest(e)
    ELSE IF e.step = "optimistic" THEN TryOptimistic(e)
    ELSE Search(e)
=============================================================================
