---------------------------- MODULE RpcCallsProofs ----------------------------
(***************************************************************************)
(* Proofs about RpcCalls, for any chain, any requests and any gas figures: *)
(* what a transaction's sender is told, what a call reads, and that an     *)
(* estimate suffices and is tight.                                         *)
(***************************************************************************)
EXTENDS RpcCalls, TLAPS

--------------------------------------------------------------------------------
\* The inductive invariant.

EstimateRecord ==
  [step : {"basic", "first", "optimistic", "search", "done"},
   req : {req.estimate : req \in CallRequests},
   limit : Nat, highest : Nat, lowest : Nat, mid : Nat, result : Nat]

CallRecord ==
  [kind : Kinds, id : Int \cup {Latest, Pending}, override : Int \cup {None},
   read : {req.read : req \in CallRequests},
   estimate : {req.estimate : req \in CallRequests} \cup EstimateRecord,
   step : {"upstream", "resolve", "head", "extras", "state", "estimate", "tracing", "done"},
   at : Nat, state : Int \cup {None}, env : Int \cup {None}, number : Int \cup {None},
   precompiles : {None} \cup [from : Int \cup {None}, calls : BOOLEAN,
                              forwarder : Int \cup {None}],
   answer : {None} \cup Answers]

\* A call that was answered by an execution, or is on its way there.
Executed == call.step = "done" => call.answer # None /\ call.answer.kind # "upstream"

Named(n) == n \in 1..Best /\ (call.id # Latest => n = call.id)

\* What a call or an estimate has found out when it has resolved its id.
CallResolved ==
  LET env == IF call.id = Pending THEN call.state + 1 ELSE call.state IN
  /\ call.state \in 1..Best
  /\ IF call.id \in {Latest, Pending} THEN call.state >= call.at ELSE call.state = call.id
  /\ call.env = IF call.override = None THEN env ELSE call.override
  /\ call.number = rpc_state_block_number(env, call.override)

\* It has seen a head that is no older than its state.
CallPrecompiles ==
  \E best \in call.state..Best :
    best >= call.at /\ call.precompiles = hl_call_precompiles(call.number, best)

\* The block it takes its extras from is still there; or it was not there yet, and
\* then it is above the state.
CallAnswered ==
  LET p == call.precompiles IN
  \/ /\ p.from \in 1..Best
     /\ call.answer = ReadPrecompile(ExtrasOf(p), p.forwarder, call.env, call.read)
  \/ /\ p.from \notin 1..call.state
     /\ call.answer = ReadPrecompile(NoExtras, p.forwarder, call.env, call.read)

CallInv ==
  call.kind \in {"call", "estimate"} =>
    /\ call.step \in {"upstream", "resolve", "head", "extras", "estimate", "done"}
    /\ call.step = "estimate" => call.kind = "estimate"
    /\ call.step # "upstream" /\ forward_call /\ call.id = Latest =>
         call.step = "done" /\ (call.answer = None \/ call.answer.kind = "upstream")
    /\ call.step \in {"head", "extras", "estimate", "done"} /\ Executed => CallResolved
    /\ call.step \in {"extras", "estimate", "done"} /\ Executed => CallPrecompiles
    /\ call.step \in {"estimate", "done"} /\ Executed => CallAnswered

\* Upstream is asked at latest only.
UpstreamInv ==
  call.step = "upstream" \/ (call.answer # None /\ call.answer.kind = "upstream") =>
    call.id = Latest /\ call.kind \in {"call", "estimate"}

SimulationInv ==
  call.kind = "simulate" =>
    /\ call.step \in {"resolve", "head", "extras", "state", "done"}
    /\ call.id # Pending
    /\ call.step \in {"head", "extras", "state", "done"} /\ Executed =>
         Named(call.number) /\ call.env = call.number + 1
    /\ call.step \in {"extras", "state", "done"} /\ Executed =>
         \E best \in call.number..Best :
           call.precompiles = hl_simulation_precompiles(call.number, best)
    /\ call.step \in {"state", "done"} /\ Executed =>
         \E extras \in {NoExtras} \cup {get_hl_extras(n) : n \in 1..Best} :
           call.answer = ReadPrecompile([extras EXCEPT !.read_precompile_calls = {}],
                                        call.precompiles.forwarder, call.env, call.read)
    /\ call.step = "done" /\ Executed => Named(call.state) /\ call.state >= call.number

TraceInv ==
  call.kind = "trace" =>
    /\ call.step \in {"resolve", "tracing", "done"}
    /\ call.id # Pending
    /\ call.step = "resolve" => call.env = None /\ call.state = None
    /\ call.step = "tracing" => \/ call.env = None /\ Named(call.state)
                                \/ call.state = None /\ Named(call.env)
    /\ call.step = "done" /\ Executed =>
         /\ Named(call.env) /\ Named(call.state)
         /\ call.answer = ReadPrecompile(get_hl_extras(call.env), None, call.env, call.read)

\* The search keeps a limit that suffices and one that does not.
Bracketed(e) ==
  /\ e.lowest < e.req.tx.need /\ e.req.tx.need <= e.highest
  /\ Execute(e.req.tx, e.highest).status = "success"

Right(e) ==
  /\ Execute(e.req.tx, e.result).status = "success"
  /\ \/ e.result - e.req.tx.need <= 1
     \/ (e.result - e.req.tx.need) * 1000 < ErrorRatio * e.result

EstimateKept(e) ==
  /\ e \in EstimateRecord /\ EstimateRequest(e.req)
  /\ e.step \in {"optimistic", "search"} => Bracketed(e)
  /\ IF e.step = "done" THEN e.result # 0 => Right(e) ELSE e.result = 0

EstimateInv ==
  call.kind = "estimate" =>
    IF call.step = "estimate" \/ (call.step = "done" /\ Executed)
    THEN EstimateKept(call.estimate) /\ (call.step = "estimate" => call.estimate.step # "done")
    ELSE \E req \in CallRequests :
           call.estimate = req.estimate /\ EstimateRequest(req.estimate)

ChainInv ==
  /\ chain \in Seq(Blocks) /\ Len(chain) > 0
  /\ forwarding \in BOOLEAN /\ forward_call \in BOOLEAN

CallsInv ==
  /\ ChainInv
  /\ call # None => /\ call \in CallRecord /\ call.at <= Best
                    /\ call.step \in {"upstream", "resolve"} => call.answer = None
                    /\ CallInv /\ UpstreamInv /\ SimulationInv /\ TraceInv /\ EstimateInv

SendRecord ==
  [method : {"none"} \cup SendMethods, step : {"idle", "post", "poll", "sleep", "done"},
   upstream : {"unknown", "pooled", "included", "dropped"}, elapsed : Nat,
   answer : {"none", "hash", "refused", "error", "receipt", "poll_error", "timeout",
             "unimplemented"}]

\* While it waits for the receipt upstream has taken the transaction.
SendInv ==
  /\ send \in SendRecord
  /\ send.step \in {"idle", "post"} => send.upstream = "unknown"
  /\ send.step \in {"poll", "sleep"} => send.upstream # "unknown"
  /\ SendAnswersAreTrue

--------------------------------------------------------------------------------
\* Sending a transaction (TxForwarder).

\* The answers of eth_sendRawTransaction(Sync) keep SendInv, whatever upstream does.
LEMMA SendStepKeepsInv ==
  ASSUME SendInv, ReceiveAnySend \/ SendStep \/ UpstreamDecides \/ ReplySend
  PROVE  SendInv'
<1> USE DEF SendInv, SendRecord, SendAnswersAreTrue
<1>1. CASE ReceiveAnySend
  <2>1. PICK m \in SendMethods : ReceiveSend(m)
    BY <1>1, Zenon DEF ReceiveAnySend
  <2>2. CASE m = "sendTransaction"
    BY <2>1, <2>2, Zenon DEF ReceiveSend, SendMethods
  <2>3. CASE m # "sendTransaction"
    BY <2>1, <2>3, Zenon DEF ReceiveSend, SendMethods
  <2> QED
    BY <2>2, <2>3, Zenon
<1>2. CASE send_raw_transaction
  BY <1>2, ZenonT(30) DEF send_raw_transaction, Finish
<1>3. CASE PollReceipt
  BY <1>3, ZenonT(30) DEF PollReceipt, Finish
<1>4. CASE Tick
  <2>1. send.elapsed + 1 \in Nat
    OBVIOUS
  <2> QED
    BY <1>4, <2>1, Zenon DEF Tick
<1>5. CASE Expire
  BY <1>5, Zenon DEF Expire, Finish
<1>6. CASE UpstreamDecides
  BY <1>6, Zenon DEF UpstreamDecides, Sending
<1>7. CASE ReplySend
  BY <1>7, Zenon DEF ReplySend, NoSend
<1> QED
  BY <1>1, <1>2, <1>3, <1>4, <1>5, <1>6, <1>7, Zenon DEF SendStep

\* The answer to a transaction tells what became of it: a hash, a failed poll or a
\* timeout is about a transaction that upstream took, a refusal about one it does
\* not have, a receipt about one in a block, for every TIMEOUT_DURATION and however
\* polls, sleeps and upstream's decisions interleave.
THEOREM SendersAreTold == Spec => []SendAnswersAreTrue
<1>1. Init => SendInv
  BY DEF Init, NoSend, SendInv, SendRecord, SendAnswersAreTrue
<1>2. SendInv /\ [Next]_callVars => SendInv'
  <2> SUFFICES ASSUME SendInv, [Next]_callVars PROVE SendInv'
    BY Zenon
  <2>1. CASE UNCHANGED send
    BY <2>1, Zenon DEF SendInv, SendAnswersAreTrue
  <2>2. CASE SendersStep
    BY <2>2, SendStepKeepsInv, Zenon DEF SendersStep
  <2>3. ServerStep \/ ReceiveAnyCall \/ HandleCall \/ ReplyCall => UNCHANGED send
    BY Zenon DEF ServerStep, ReceiveAnyCall, ReceiveCall, HandleCall, ReplyCall
  <2> QED
    BY <2>1, <2>2, <2>3, Zenon DEF Next, callVars
<1>3. SendInv => SendAnswersAreTrue
  BY Zenon DEF SendInv
<1> QED
  BY <1>1, <1>2, <1>3, PTL DEF Spec

--------------------------------------------------------------------------------
\* Estimating gas (GasEstimate).

\* The EVM runs a transaction to success exactly from its need on.
LEMMA ExecuteSucceeds ==
  ASSUME NEW req, EstimateRequest(req), NEW limit \in Nat
  PROVE  /\ Execute(req.tx, limit).status = "success" <=> ~ req.tx.halts /\ limit >= req.tx.need
         /\ Execute(req.tx, limit).status = "success" =>
              Execute(req.tx, limit).gas_used = req.tx.used
         /\ Execute(req.tx, limit).gas_used \in Nat
<1> DEFINE tx == req.tx
<1>1. /\ tx.intrinsic \in Nat /\ tx.used \in Nat /\ tx.need \in Nat /\ tx.early \in Nat
      /\ tx.halts \in BOOLEAN /\ tx.intrinsic <= tx.need
  BY Zenon DEF EstimateRequest
<1>2. CASE limit < tx.intrinsic
  BY <1>1, <1>2 DEF Execute
<1>3. CASE ~ limit < tx.intrinsic /\ tx.halts
  BY <1>1, <1>3, Zenon DEF Execute
<1>4. CASE ~ limit < tx.intrinsic /\ ~ tx.halts /\ limit >= tx.need
  BY <1>1, <1>4, Zenon DEF Execute
<1>5. CASE ~ limit < tx.intrinsic /\ ~ tx.halts /\ ~ limit >= tx.need
  BY <1>1, <1>5, Zenon DEF Execute, Minimum
<1> QED
  BY <1>1, <1>2, <1>3, <1>4, <1>5, Zenon

\* The search starts from a limit that is a number.
LEMMA StartKept ==
  ASSUME NEW req \in CallRequests, EstimateRequest(req.estimate)
  PROVE  EstimateKept(StartEstimate(req.estimate))
<1>1. highest_gas_limit(req.estimate) \in Nat
  BY Zenon DEF highest_gas_limit, EstimateRequest, Minimum
<1> QED
  BY <1>1, Zenon DEF EstimateKept, EstimateRecord, StartEstimate

\* Where the search starts, the gas used is below the need and the limit is not.
LEMMA SearchStarts ==
  ASSUME NEW e \in EstimateRecord, EstimateRequest(e.req), e.result = 0, Bracketed(e),
         NEW gas_used \in Nat
  PROVE  EstimateKept(StartSearch(e, gas_used))
<1> DEFINE mid == Minimum(gas_used * 3, (e.highest + e.lowest) \div 2)
<1>1. e.highest \in Nat /\ e.lowest \in Nat
  BY Zenon DEF EstimateRecord
<1>2. (e.highest + e.lowest) \div 2 \in Nat /\ gas_used * 3 \in Nat
  BY <1>1
<1>3. mid \in Nat
  BY <1>2, Zenon DEF Minimum
<1> DEFINE f == StartSearch(e, gas_used)
<1>4. f = [e EXCEPT !.step = "search", !.mid = mid]
  BY Zenon DEF StartSearch
<1> HIDE DEF mid, f
<1>5. /\ f \in EstimateRecord /\ f.req = e.req /\ f.highest = e.highest /\ f.lowest = e.lowest
      /\ f.result = 0
  BY <1>3, <1>4, Zenon DEF EstimateRecord
<1> QED
  BY <1>5, Zenon DEF EstimateKept, Bracketed, f

\* The executions at a plain transfer's gas and at the highest limit.
LEMMA FirstTriesKept ==
  ASSUME NEW e, EstimateKept(e), e.step \in {"basic", "first"}
  PROVE  EstimateKept(EstimateStep(e))
<1>1. e \in EstimateRecord /\ EstimateRequest(e.req) /\ e.result = 0
  BY Zenon DEF EstimateKept
<1>2. CASE e.step = "basic"
  <2>1. MinTransactionGas \in Nat /\ MinTransactionGas <= e.req.tx.need /\ e.req.tx.need \in Nat
    BY <1>1, GasAssumption DEF EstimateRequest
  <2>2. CASE Execute(e.req.tx, MinTransactionGas).status = "success"
    <3> DEFINE f == Done(e, MinTransactionGas)
    <3>1. /\ f \in EstimateRecord /\ f.req = e.req /\ f.result = MinTransactionGas
          /\ f.step = "done"
      BY <1>1, <2>1, Zenon DEF Done, EstimateRecord
    <3>2. Right(f)
      BY <2>1, <2>2, <3>1 DEF Right
    <3> QED
      BY <1>1, <1>2, <2>2, <3>1, <3>2, Zenon DEF EstimateKept, EstimateStep, TryBasicTransfer
  <2>3. CASE Execute(e.req.tx, MinTransactionGas).status # "success"
    <3> DEFINE f == [e EXCEPT !.step = "first"]
    <3>1. f \in EstimateRecord /\ f.req = e.req /\ f.result = 0 /\ f.step = "first"
      BY <1>1, Zenon DEF EstimateRecord
    <3> QED
      BY <1>1, <1>2, <2>3, <3>1, Zenon DEF EstimateKept, EstimateStep, TryBasicTransfer
  <2> QED
    BY <2>2, <2>3, Zenon
<1>3. CASE e.step = "first"
  <2> DEFINE res == Execute(e.req.tx, e.limit)
             lowest == IF res.gas_used = 0 THEN 0 ELSE res.gas_used - 1
             optimistic == ((res.gas_used + e.req.tx.refund + CallStipendGas) * 64) \div 63
             found == [e EXCEPT !.highest = e.limit, !.lowest = lowest]
  <2>1. EstimateStep(e) = IF res.status # "success" THEN Done(e, 0)
                          ELSE IF optimistic < e.limit
                          THEN [found EXCEPT !.step = "optimistic", !.mid = optimistic]
                          ELSE StartSearch(found, res.gas_used)
    BY <1>3, Zenon DEF EstimateStep, TryHighest
  <2>2. CASE res.status # "success"
    <3> DEFINE f == Done(e, 0)
    <3>1. f \in EstimateRecord /\ f.req = e.req /\ f.result = 0 /\ f.step = "done"
      BY <1>1, Zenon DEF Done, EstimateRecord
    <3> QED
      BY <1>1, <2>1, <2>2, <3>1, Zenon DEF EstimateKept
  <2>3. CASE res.status = "success"
    <3>1. e.limit \in Nat
      BY <1>1, Zenon DEF EstimateRecord
    <3>2. /\ res.gas_used = e.req.tx.used /\ e.limit >= e.req.tx.need
      BY <1>1, <2>3, <3>1, ExecuteSucceeds, Zenon
    <3>3. /\ e.req.tx.used \in Nat \ {0} /\ e.req.tx.need \in Nat /\ e.req.tx.refund \in Nat
          /\ e.req.tx.used <= e.req.tx.need
      BY <1>1 DEF EstimateRequest
    <3>4. lowest \in Nat /\ lowest < e.req.tx.need
      BY <3>2, <3>3
    <3>5. optimistic \in Nat
      <4>1. (e.req.tx.used + e.req.tx.refund + CallStipendGas) * 64 \in Nat
        BY <3>3, GasAssumption
      <4> QED
        BY <3>2, <4>1
    <3> HIDE DEF lowest, optimistic
    <3>6. /\ found \in EstimateRecord /\ found.req = e.req /\ found.result = 0
          /\ found.highest = e.limit /\ found.lowest = lowest
      BY <1>1, <3>1, <3>4, Zenon DEF EstimateRecord
    <3>7. Bracketed(found)
      BY <2>3, <3>2, <3>4, <3>6, Zenon DEF Bracketed
    <3>8. CASE optimistic < e.limit
      <4> DEFINE f == [found EXCEPT !.step = "optimistic", !.mid = optimistic]
      <4> HIDE DEF found
      <4>1. /\ f \in EstimateRecord /\ f.req = found.req /\ f.result = 0
            /\ f.highest = found.highest /\ f.lowest = found.lowest
        BY <3>5, <3>6, Zenon DEF EstimateRecord
      <4>2. EstimateKept(f)
        <5> HIDE DEF f
        <5> QED BY <1>1, <3>6, <3>7, <4>1, Zenon DEF EstimateKept, Bracketed
      <4> QED
        BY <2>1, <2>3, <3>8, <4>2, Zenon
    <3>9. CASE ~ optimistic < e.limit
      <4> HIDE DEF found
      <4>1. EstimateKept(StartSearch(found, res.gas_used))
        BY <1>1, <3>2, <3>3, <3>6, <3>7, SearchStarts, Zenon
      <4> QED
        BY <2>1, <2>3, <3>9, <4>1, Zenon
    <3> QED
      BY <3>8, <3>9, Zenon
  <2> QED
    BY <2>2, <2>3, Zenon
<1> QED
  BY <1>2, <1>3, Zenon

\* An execution in the middle moves the end of the range that it decides.
LEMMA RangeKept ==
  ASSUME NEW e \in EstimateRecord, EstimateRequest(e.req), e.result = 0, Bracketed(e),
         e.step \in {"optimistic", "search"}, NEW next,
         next = update_estimated_gas_range(e, Execute(e.req.tx, e.mid).status, e.mid)
  PROVE  next \in EstimateRecord /\ next.req = e.req /\ next.result = 0 /\ Bracketed(next)
<1> DEFINE status == Execute(e.req.tx, e.mid).status
<1>1. e.mid \in Nat /\ e.highest \in Nat /\ e.req.tx.need \in Nat
  BY Zenon DEF EstimateRecord, EstimateRequest
<1>2. status = "success" <=> ~ e.req.tx.halts /\ e.mid >= e.req.tx.need
  BY <1>1, ExecuteSucceeds, Zenon
<1>3. ~ e.req.tx.halts
  BY <1>1, ExecuteSucceeds, Zenon DEF Bracketed
<1>4. status # "halt"
  BY <1>3, Zenon DEF Execute
<1>5. CASE status = "success"
  <2>1. next = [e EXCEPT !.highest = e.mid]
    BY <1>5, Zenon DEF update_estimated_gas_range
  <2>2. /\ next \in EstimateRecord /\ next.req = e.req /\ next.result = 0
        /\ next.highest = e.mid /\ next.lowest = e.lowest
    BY <1>1, <2>1, Zenon DEF EstimateRecord
  <2> QED
    BY <1>1, <1>2, <1>5, <2>2, Zenon DEF Bracketed
<1>6. CASE status # "success"
  <2>1. next = [e EXCEPT !.lowest = e.mid]
    BY <1>4, <1>6, Zenon DEF update_estimated_gas_range
  <2>2. /\ next \in EstimateRecord /\ next.req = e.req /\ next.result = 0
        /\ next.highest = e.highest /\ next.lowest = e.mid
    BY <1>1, <2>1, Zenon DEF EstimateRecord
  <2>3. e.mid < e.req.tx.need
    BY <1>1, <1>2, <1>3, <1>6
  <2> QED
    BY <2>2, <2>3, Zenon DEF Bracketed
<1> QED
  BY <1>5, <1>6, Zenon

\* The search ends with its upper end, which the lower end shows to be tight.
LEMMA SearchKept ==
  ASSUME NEW e, EstimateKept(e), e.step = "search"
  PROVE  EstimateKept(EstimateStep(e))
<1>1. e \in EstimateRecord /\ EstimateRequest(e.req) /\ Bracketed(e) /\ e.result = 0
  BY Zenon DEF EstimateKept
<1>2. /\ e.highest \in Nat /\ e.lowest \in Nat /\ e.req.tx.need \in Nat
      /\ e.lowest < e.req.tx.need /\ e.req.tx.need <= e.highest
  BY <1>1, Zenon DEF EstimateRecord, EstimateRequest, Bracketed
<1>3. CASE SearchEnds(e)
  <2> DEFINE f == Done(e, e.highest)
  <2>1. f \in EstimateRecord /\ f.req = e.req /\ f.result = e.highest /\ f.step = "done"
    BY <1>1, <1>2, Zenon DEF Done, EstimateRecord
  <2>2. ASSUME e.lowest + 1 >= e.highest PROVE Right(f)
    BY <1>1, <1>2, <2>1, <2>2 DEF Right, Bracketed
  <2>3. ASSUME (e.highest - e.lowest) * 1000 < ErrorRatio * e.highest PROVE Right(f)
    <3>1. ErrorRatio * e.highest \in Nat
      BY <1>2, GasAssumption
    <3>2. (e.highest - e.req.tx.need) * 1000 <= (e.highest - e.lowest) * 1000
      BY <1>2
    <3>3. (e.highest - e.req.tx.need) * 1000 < ErrorRatio * e.highest
      BY <1>2, <2>3, <3>1, <3>2
    <3> QED
      BY <1>1, <2>1, <3>3 DEF Right, Bracketed
  <2>4. Right(f)
    BY <1>3, <2>2, <2>3 DEF SearchEnds
  <2> QED
    BY <1>1, <1>3, <2>1, <2>4, Zenon DEF EstimateKept, EstimateStep, Search
<1>4. CASE ~ SearchEnds(e)
  <2> DEFINE next == update_estimated_gas_range(e, Execute(e.req.tx, e.mid).status, e.mid)
             mid == (next.highest + next.lowest) \div 2
             f == [next EXCEPT !.mid = mid]
  <2>1. EstimateStep(e) = f
    BY <1>4, Zenon DEF EstimateStep, Search
  <2>2. next \in EstimateRecord /\ next.req = e.req /\ next.result = 0 /\ Bracketed(next)
    BY <1>1, RangeKept, Zenon
  <2> HIDE DEF next
  <2>3. mid \in Nat
    BY <2>2 DEF EstimateRecord
  <2> HIDE DEF mid
  <2>4. /\ f \in EstimateRecord /\ f.req = next.req /\ f.result = 0
        /\ f.highest = next.highest /\ f.lowest = next.lowest
    BY <2>2, <2>3, Zenon DEF EstimateRecord
  <2> HIDE DEF f
  <2>5. EstimateKept(f)
    BY <1>1, <2>2, <2>4, Zenon DEF EstimateKept, Bracketed
  <2> QED
    BY <2>1, <2>5, Zenon
<1> QED
  BY <1>3, <1>4, Zenon

\* The execution at the optimistic limit.
LEMMA OptimisticKept ==
  ASSUME NEW e, EstimateKept(e), e.step = "optimistic"
  PROVE  EstimateKept(EstimateStep(e))
<1> DEFINE res == Execute(e.req.tx, e.mid)
           next == update_estimated_gas_range(e, res.status, e.mid)
<1>1. e \in EstimateRecord /\ EstimateRequest(e.req) /\ Bracketed(e) /\ e.result = 0
  BY Zenon DEF EstimateKept
<1>2. EstimateStep(e) = IF res.status = "too_low" THEN Done(e, 0)
                        ELSE IF next.step = "done" THEN next ELSE StartSearch(next, res.gas_used)
  BY Zenon DEF EstimateStep, TryOptimistic
<1>3. CASE res.status = "too_low"
  <2> DEFINE f == Done(e, 0)
  <2>1. f \in EstimateRecord /\ f.req = e.req /\ f.result = 0 /\ f.step = "done"
    BY <1>1, Zenon DEF Done, EstimateRecord
  <2> QED
    BY <1>1, <1>2, <1>3, <2>1, Zenon DEF EstimateKept
<1>4. CASE res.status # "too_low"
  <2>1. next \in EstimateRecord /\ next.req = e.req /\ next.result = 0 /\ Bracketed(next)
    BY <1>1, RangeKept, Zenon
  <2>2. res.gas_used \in Nat
    BY <1>1, ExecuteSucceeds, Zenon DEF EstimateRecord
  <2> HIDE DEF next, res
  <2>3. EstimateKept(StartSearch(next, res.gas_used))
    BY <1>1, <2>1, <2>2, SearchStarts, Zenon
  <2>4. next.step = "done" => EstimateKept(next)
    BY <1>1, <2>1, Zenon DEF EstimateKept
  <2> QED
    BY <1>2, <1>4, <2>3, <2>4, Zenon
<1> QED
  BY <1>3, <1>4, Zenon

--------------------------------------------------------------------------------
\* What a call reads.

\* What hl_call_precompiles chooses for a call.
LEMMA PrecompilesChosen ==
  ASSUME ChainInv, call \in CallRecord, CallResolved, CallPrecompiles
  PROVE  /\ call.state \in 1..Best /\ call.precompiles.from \in Int
         /\ call.precompiles.forwarder \in Int \cup {None} /\ call.precompiles.calls \in BOOLEAN
BY DEF CallPrecompiles, CallResolved, hl_call_precompiles, CallRecord,
     rpc_state_block_number,
       ChainInv, Best

\* What the answer to a read tells about the extras and the forwarder it came from.
ReadAnswer(answer, extras, forwarder, read) ==
  /\ answer \in Answers /\ answer.kind # "upstream"
  /\ answer.kind = "forwarded" => forwarder # None /\ answer.head = forwarder
  /\ answer.kind = "recorded" => read \in extras.read_precompile_calls
  /\ answer.kind = "out_of_gas" => forwarder = None

\* run_precompile: recorded, forwarded, out of gas or no precompile.
LEMMA ReadOutcome ==
  ASSUME NEW extras, NEW forwarder, forwarder = None \/ forwarder \in Int, NEW number, NEW read
  PROVE  ReadAnswer(ReadPrecompile(extras, forwarder, number, read), extras, forwarder, read)
<1> DEFINE answer == ReadPrecompile(extras, forwarder, number, read)
<1>1. CASE read \in extras.read_precompile_calls
  BY <1>1, Zenon DEF ReadPrecompile, Answers, ReadAnswer
<1>2. CASE /\ read \notin extras.read_precompile_calls
           /\ \/ \E r \in extras.read_precompile_calls : r[1] = read[1]
              \/ Warm(extras, number, read[1])
  <2>1. answer = run_unrecorded_precompile(forwarder)
    BY <1>2, Zenon DEF ReadPrecompile
  <2>2. CASE forwarder = None
    BY <2>1, <2>2 DEF run_unrecorded_precompile, Answers, ReadAnswer
  <2>3. CASE forwarder # None
    BY <2>1, <2>3 DEF run_unrecorded_precompile, Answers, ReadAnswer
  <2> QED
    BY <2>2, <2>3, Zenon
<1>3. CASE /\ read \notin extras.read_precompile_calls
           /\ ~ \/ \E r \in extras.read_precompile_calls : r[1] = read[1]
                \/ Warm(extras, number, read[1])
  BY <1>3, Zenon DEF ReadPrecompile, Answers, ReadAnswer
<1> QED
  BY <1>1, <1>2, <1>3, Zenon

\* A block that is in the chain keeps its extras while the chain grows.
LEMMA ExtrasStay ==
  ASSUME ChainInv, Best' >= Best, ChainInv', \A n \in 1..Best : chain'[n] = chain[n]
  PROVE  /\ 1..Best \subseteq 1..Best'
         /\ \A n \in 1..Best : get_hl_extras(n)' = get_hl_extras(n)
         /\ \A p : p.from \in 1..Best => ExtrasOf(p)' = ExtrasOf(p)
<1>1. Best \in Nat /\ Best' \in Nat
  BY DEF ChainInv, Best
<1>2. 1..Best \subseteq 1..Best'
  BY <1>1
<1>3. \A n \in 1..Best : get_hl_extras(n)' = get_hl_extras(n)
  BY <1>2, Zenon DEF get_hl_extras
<1>4. ASSUME NEW p, p.from \in 1..Best PROVE ExtrasOf(p)' = ExtrasOf(p)
  BY <1>3, <1>4, CallAssumption, Zenon DEF ExtrasOf
<1> QED
  BY <1>2, <1>3, <1>4, Zenon

\* What a call has found out stays true while the chain grows.
LEMMA GrowthKeepsCalls ==
  ASSUME CallsInv, Best' >= Best, ChainInv', \A n \in 1..Best : chain'[n] = chain[n],
         UNCHANGED <<flags, call>>
  PROVE  CallsInv'
<1> SUFFICES ASSUME call # None
             PROVE  /\ call.at <= Best' /\ CallInv' /\ UpstreamInv'
                    /\ SimulationInv' /\ TraceInv' /\ EstimateInv'
  BY Zenon DEF CallsInv
<1>1. ChainInv /\ call \in CallRecord /\ call.at <= Best /\ call' = call
  BY Zenon DEF CallsInv
<1>2. UNCHANGED <<forwarding, forward_call>>
  BY Zenon DEF flags
<1>3. /\ 1..Best \subseteq 1..Best'
      /\ \A n \in 1..Best : get_hl_extras(n)' = get_hl_extras(n)
      /\ \A p : p.from \in 1..Best => ExtrasOf(p)' = ExtrasOf(p)
  BY <1>1, ExtrasStay, Zenon
<1>4. Best \in Nat /\ Best' \in Nat /\ call.at \in Nat /\ call.at <= Best'
  BY <1>1 DEF ChainInv, Best, CallRecord
<1>5. CallInv'
  <2>1. CallResolved => CallResolved'
    BY <1>1, <1>2, <1>3, Zenon DEF CallResolved, rpc_state_block_number
  <2>2. CallResolved /\ CallPrecompiles => CallPrecompiles'
    <3>1. call.state \in 1..Best => call.state..Best \subseteq call.state..Best'
      BY <1>4
    <3> QED
      BY <1>1, <1>2, <3>1, ZenonT(30) DEF CallResolved, CallPrecompiles, hl_call_precompiles
  <2>3. CallAnswered => CallAnswered'
    <3> SUFFICES ASSUME CallAnswered PROVE CallAnswered'
      BY Zenon
    <3> DEFINE p == call.precompiles
    <3>1. CASE /\ p.from \in 1..Best
               /\ call.answer = ReadPrecompile(ExtrasOf(p), p.forwarder, call.env, call.read)
      <4>1. p.from \in 1..Best' /\ ExtrasOf(p)' = ExtrasOf(p)
        BY <1>1, <1>3, <3>1, ZenonT(30)
      <4> QED
        BY <1>1, <3>1, <4>1, ZenonT(30) DEF CallAnswered, ReadPrecompile, run_unrecorded_precompile,
             Warm
    <3>2. CASE /\ p.from \notin 1..call.state
               /\ call.answer = ReadPrecompile(NoExtras, p.forwarder, call.env, call.read)
      BY <1>1, <3>2, Zenon DEF CallAnswered, ReadPrecompile, run_unrecorded_precompile, Warm,
           NoExtras
    <3> QED
      BY <3>1, <3>2, Zenon DEF CallAnswered
  <2> QED
    BY <1>1, <1>2, <2>1, <2>2, <2>3, Zenon DEF CallsInv, CallInv, Executed
<1>6. \A n : Named(n) => Named(n)'
  BY <1>1, <1>3, Zenon DEF Named
<1>7. SimulationInv'
  <2> DEFINE seen(b) == call.precompiles = hl_simulation_precompiles(call.number, b)
             read(extras) ==
               call.answer = ReadPrecompile([extras EXCEPT !.read_precompile_calls = {}],
                                            call.precompiles.forwarder, call.env, call.read)
  <2>1. \A b : seen(b) => seen(b)'
    BY <1>1, <1>2, Zenon DEF hl_simulation_precompiles
  <2>2. Named(call.number) => call.number..Best \subseteq call.number..Best'
    BY <1>4 DEF Named
  <2>3. \A extras \in {NoExtras} \cup {get_hl_extras(n) : n \in 1..Best} :
          extras \in {NoExtras} \cup {get_hl_extras(n)' : n \in 1..Best'}
    BY <1>3, Zenon
  <2>4. \A extras : read(extras) => read(extras)'
    BY <1>1, ZenonT(30) DEF ReadPrecompile, run_unrecorded_precompile, Warm
  <2> HIDE DEF seen, read
  <2>5. (\E b \in call.number..Best : seen(b)) /\ Named(call.number) =>
          (\E b \in call.number..Best : seen(b))'
    BY <1>1, <2>1, <2>2, Zenon
  <2>6. (\E extras \in {NoExtras} \cup {get_hl_extras(n) : n \in 1..Best} : read(extras)) =>
          (\E extras \in {NoExtras} \cup {get_hl_extras(n) : n \in 1..Best} : read(extras))'
    BY <2>3, <2>4, Zenon DEF NoExtras
  <2> QED
    BY <1>1, <1>6, <2>5, <2>6, Zenon DEF CallsInv, SimulationInv, Executed, seen, read
<1>8. TraceInv'
  <2>1. Named(call.env) => get_hl_extras(call.env)' = get_hl_extras(call.env)
    BY <1>1, <1>3, Zenon DEF Named
  <2>2. Named(call.env)
        /\ call.answer = ReadPrecompile(get_hl_extras(call.env), None, call.env, call.read) =>
          (call.answer = ReadPrecompile(get_hl_extras(call.env), None, call.env, call.read))'
    BY <1>1, <2>1 DEF ReadPrecompile, run_unrecorded_precompile, Warm
  <2> QED
    BY <1>1, <1>6, <2>2, Zenon DEF CallsInv, TraceInv, Executed
<1>9. EstimateInv'
  BY <1>1, Zenon DEF CallsInv, EstimateInv, EstimateRecord, EstimateRequest, Bracketed, Right,
       Executed, Execute, Minimum
<1>10. UpstreamInv'
  BY <1>1, Zenon DEF CallsInv, UpstreamInv
<1> QED
  BY <1>4, <1>5, <1>7, <1>8, <1>9, <1>10, Zenon

\* The fields of a call that no step of its handler changes.
SameRequest ==
  /\ call'.kind = call.kind /\ call'.id = call.id /\ call'.override = call.override
  /\ call'.read = call.read /\ call'.at = call.at

\* A new call has found out nothing.
LEMMA ReceiveKeepsCalls ==
  ASSUME CallsInv, NEW req \in CallRequests, ReceiveCall(req)
  PROVE  CallsInv'
<1>1. /\ req.kind \in Kinds /\ req.id \in Int \cup {Latest, Pending}
      /\ req.override \in Int \cup {None}
      /\ req.kind \in {"simulate", "trace"} => req.id # Pending
      /\ (req.kind = "estimate" => EstimateRequest(req.estimate))
  BY CallAssumption, Zenon DEF Kinds
<1>2. ChainInv' /\ Best' = Best /\ Best \in Nat /\ UNCHANGED <<forwarding, forward_call>>
  BY DEF CallsInv, ChainInv, ReceiveCall, flags, Best
<1>3. /\ call' \in CallRecord /\ call'.at = Best /\ call'.answer = None
      /\ call'.env = None /\ call'.state = None
      /\ call'.kind = req.kind /\ call'.id = req.id /\ call'.estimate = req.estimate
      /\ call'.step = IF is_forwarded(req) THEN "upstream" ELSE "resolve"
  BY <1>1, <1>2, Zenon DEF ReceiveCall, CallRecord
<1>4. CallInv'
  BY <1>2, <1>3, Zenon DEF CallInv, is_forwarded
<1>5. SimulationInv' /\ TraceInv'
  BY <1>1, <1>3, Zenon DEF SimulationInv, TraceInv, is_forwarded
<1>6. EstimateInv'
  BY <1>1, <1>3, Zenon DEF EstimateInv, EstimateRequest
<1> QED
  BY <1>2, <1>3, <1>4, <1>5, <1>6 DEF CallsInv, UpstreamInv, is_forwarded

\* A handler that fails, or that upstream answers, has executed nothing.
LEMMA EndWithoutExecution ==
  ASSUME CallsInv, call # None, UNCHANGED <<chain, flags>>,
         call.step \in {"upstream", "resolve"},
         NEW answer \in {None, [kind |-> "upstream"]}, answer = None \/ call.step = "upstream",
         call' = [call EXCEPT !.step = "done", !.answer = answer]
  PROVE  CallsInv'
<1>1. ChainInv' /\ Best' = Best /\ UNCHANGED <<forwarding, forward_call>>
  BY Zenon DEF CallsInv, ChainInv, flags, Best
<1>2. call \in CallRecord
  BY Zenon DEF CallsInv
<1>3. answer \in {None} \cup Answers /\ (answer = None \/ answer.kind = "upstream")
  BY DEF Answers
<1>4. /\ call' \in CallRecord /\ SameRequest /\ call'.step = "done" /\ call'.answer = answer
      /\ call'.estimate = call.estimate
  BY <1>2, <1>3, Zenon DEF CallRecord, SameRequest
<1>5. ~ Executed'
  BY <1>3, <1>4, Zenon DEF Executed
<1>6. CallInv' /\ SimulationInv' /\ TraceInv'
  BY <1>3, <1>4, <1>5, Zenon DEF CallsInv, CallInv, SimulationInv, TraceInv, SameRequest
<1>7. EstimateInv'
  BY <1>4, <1>5, Zenon DEF CallsInv, EstimateInv, EstimateRequest, SameRequest
<1> QED
  BY <1>1, <1>4, <1>6, <1>7, Zenon DEF CallsInv, UpstreamInv, SameRequest

\* Fail leaves the answer None.
LEMMA FailKeepsCalls ==
  ASSUME CallsInv, call # None, UNCHANGED <<chain, flags>>,
         call.step \in {"upstream", "resolve"}, Fail
  PROVE  CallsInv'
<1>1. call \in CallRecord /\ call.answer = None
  BY Zenon DEF CallsInv
<1>2. call' = [call EXCEPT !.step = "done", !.answer = None]
  BY <1>1, Zenon DEF Fail, CallRecord
<1> QED
  BY <1>2, EndWithoutExecution, Zenon

\* CallForwarderExt: upstream answers.
LEMMA UpstreamKeepsCalls ==
  ASSUME CallsInv, call # None, UNCHANGED <<chain, flags>>, CallUpstream
  PROVE  CallsInv'
BY FailKeepsCalls, EndWithoutExecution, Zenon DEF CallUpstream

\* A call or an estimate resolves its id.
LEMMA ResolveCallKeepsCalls ==
  ASSUME CallsInv, call # None, UNCHANGED <<chain, flags>>, ResolveCall
  PROVE  CallsInv'
<1>1. CASE ~ KnownCall(call.id)
  BY <1>1, FailKeepsCalls, Zenon DEF ResolveCall
<1>2. CASE KnownCall(call.id)
  <2> DEFINE env == EnvOf(call.id)
             seen == IF call.override = None THEN env ELSE call.override
             number == rpc_state_block_number(env, call.override)
             state == StateOf(call.id)
  <2>1. /\ ChainInv' /\ Best' = Best /\ Best \in Nat /\ Best > 0
        /\ UNCHANGED <<forwarding, forward_call>>
    BY DEF CallsInv, ChainInv, flags, Best
  <2>2. /\ call \in CallRecord /\ call.at <= Best /\ call.at \in Nat
        /\ call.kind \in {"call", "estimate"} /\ call.step = "resolve"
    BY Zenon DEF CallsInv, CallRecord, ResolveCall
  <2>3. /\ state \in 1..Best /\ env = IF call.id = Pending THEN state + 1 ELSE state
        /\ IF call.id \in {Latest, Pending} THEN state >= call.at ELSE state = call.id
    BY <1>2, <2>1, <2>2, CallAssumption DEF KnownCall, Known, Resolve, StateOf, EnvOf,
         CallRecord
  <2>4. env \in Int /\ number \in Int /\ seen \in Int
    BY <2>2, <2>3 DEF rpc_state_block_number, CallRecord
  <2>5. call' = [call EXCEPT !.step = "head", !.state = state, !.env = seen, !.number = number]
    BY <1>2, Zenon DEF ResolveCall
  <2>6. /\ seen = IF call.override = None THEN env ELSE call.override
        /\ number = IF forwarding \/ call.override = None THEN env ELSE call.override
    BY Zenon DEF rpc_state_block_number
  <2> HIDE DEF env, seen, number, state
  <2>7. /\ call' \in CallRecord /\ SameRequest /\ call'.step = "head" /\ call'.state = state
        /\ call'.env = seen /\ call'.number = number /\ call'.estimate = call.estimate
        /\ call'.answer = call.answer
    <3>1. call \in CallRecord /\ state \in Int /\ seen \in Int /\ number \in Int
      BY <2>1, <2>2, <2>3, <2>4
    <3> QED
      BY ONLY <3>1, <2>5, ZenonT(30) DEF CallRecord, SameRequest
  <2>8. CallResolved'
    BY <2>1, <2>3, <2>6, <2>7, Zenon DEF CallResolved, SameRequest, rpc_state_block_number
  <2>9. CallInv' /\ SimulationInv' /\ TraceInv'
    BY <2>1, <2>2, <2>7, <2>8, Zenon DEF CallsInv, CallInv, SimulationInv, TraceInv,
         SameRequest
  <2>10. EstimateInv'
    BY <2>2, <2>7, Zenon DEF CallsInv, EstimateInv, EstimateRequest, SameRequest
  <2> QED
    BY <2>1, <2>2, <2>7, <2>9, <2>10, Zenon DEF CallsInv, UpstreamInv, SameRequest
<1> QED
  BY <1>1, <1>2, Zenon

\* A simulation loads its base block.
LEMMA ResolveSimulationKeepsCalls ==
  ASSUME CallsInv, call # None, UNCHANGED <<chain, flags>>, ResolveSimulation
  PROVE  CallsInv'
<1>1. CASE ~ KnownCall(call.id)
  BY <1>1, FailKeepsCalls, ZenonT(30) DEF ResolveSimulation
<1>2. CASE KnownCall(call.id)
  <2> DEFINE n == Resolve(call.id)
  <2>1. ChainInv' /\ Best' = Best /\ Best \in Nat /\ Best > 0
    BY DEF CallsInv, ChainInv, flags, Best
  <2>2. /\ call \in CallRecord /\ call.at <= Best /\ call.kind = "simulate" /\ call.id # Pending
        /\ call.step = "resolve"
    BY Zenon DEF CallsInv, SimulationInv, ResolveSimulation
  <2>3. n \in 1..Best /\ (call.id # Latest => n = call.id)
    BY <1>2, <2>1, <2>2, Zenon DEF KnownCall, Known, Resolve, CallRecord
  <2>4. call' = [call EXCEPT !.step = "head", !.env = n + 1, !.number = n]
    BY <1>2, Zenon DEF ResolveSimulation
  <2> HIDE DEF n
  <2>5. /\ call' \in CallRecord /\ SameRequest /\ call'.step = "head"
        /\ call'.env = n + 1 /\ call'.number = n /\ call'.answer = call.answer
    <3>1. n \in Int /\ n + 1 \in Int
      BY <2>1, <2>3
    <3> QED
      BY ONLY <2>2, <2>4, <3>1, ZenonT(30) DEF CallRecord, SameRequest
  <2>6. SimulationInv'
    BY <2>1, <2>2, <2>3, <2>5, Zenon DEF SimulationInv, Named, SameRequest
  <2> QED
    BY <2>1, <2>2, <2>5, <2>6, Zenon DEF CallsInv, UpstreamInv, SameRequest, CallInv, TraceInv,
         EstimateInv
<1> QED
  BY <1>1, <1>2, Zenon

\* chain_info: the head is no older than the state.
LEMMA ReadHeadKeepsCalls ==
  ASSUME CallsInv, call # None, UNCHANGED <<chain, flags>>, ReadHead
  PROVE  CallsInv'
<1>1. /\ ChainInv' /\ Best' = Best /\ Best \in Nat /\ UNCHANGED <<forwarding, forward_call>>
      /\ forwarding \in BOOLEAN
  BY DEF CallsInv, ChainInv, flags, Best
<1>2. call \in CallRecord /\ call.at <= Best /\ call.at \in Nat /\ call.step = "head"
  BY Zenon DEF CallsInv, CallRecord, ReadHead
<1>3. call.kind # "trace" /\ call.kind \in Kinds
  BY <1>2, Zenon DEF CallsInv, TraceInv, CallRecord
<1> DEFINE p == IF call.kind = "simulate" THEN hl_simulation_precompiles(call.number, Best)
                ELSE hl_call_precompiles(call.number, Best)
<1>4. call' = [call EXCEPT !.step = "extras", !.precompiles = p]
  BY Zenon DEF ReadHead
<1>5. call.number \in Int /\ Executed
  BY <1>1, <1>2, <1>3
     DEF CallsInv, CallInv, SimulationInv, CallResolved, Named, Executed, Kinds,
         rpc_state_block_number, CallRecord
<1>6. p \in [from : Int \cup {None}, calls : BOOLEAN, forwarder : Int \cup {None}]
  BY <1>1, <1>5 DEF hl_simulation_precompiles, hl_call_precompiles, Minimum
<1> HIDE DEF p
<1>7. /\ call' \in CallRecord /\ SameRequest /\ call'.step = "extras" /\ call'.precompiles = p
      /\ call'.estimate = call.estimate /\ call'.state = call.state /\ call'.env = call.env
      /\ call'.number = call.number /\ call'.answer = call.answer
  BY ONLY <1>2, <1>4, <1>6, ZenonT(30) DEF CallRecord, SameRequest
<1>8. CASE call.kind = "simulate"
  <2>1. Named(call.number) /\ call.env = call.number + 1 /\ call.id # Pending
    BY <1>2, <1>5, <1>8, Zenon DEF CallsInv, SimulationInv
  <2>2. Named(call.number)' /\ call'.env = call'.number + 1 /\ Best \in call'.number..Best'
    BY <1>1, <1>5, <1>7, <2>1 DEF Named, SameRequest
  <2>3. p = hl_simulation_precompiles(call.number, Best)'
    BY <1>1, <1>7, <1>8, Zenon DEF hl_simulation_precompiles, p
  <2>4. SimulationInv'
    BY <1>1, <1>7, <2>1, <2>2, <2>3, Zenon DEF SimulationInv, SameRequest
  <2> QED
    BY <1>1, <1>2, <1>7, <1>8, <2>4, Zenon DEF CallsInv, UpstreamInv, SameRequest, CallInv,
         TraceInv, EstimateInv
<1>9. CASE call.kind # "simulate"
  <2>1. call.kind \in {"call", "estimate"}
    BY <1>3, <1>9, Zenon DEF Kinds
  <2>2. CallResolved /\ ~ (forward_call /\ call.id = Latest)
    BY <1>2, <1>5, <2>1, Zenon DEF CallsInv, CallInv
  <2>3. CallResolved' /\ ~ (forward_call /\ call.id = Latest)'
    BY <1>1, <1>7, <2>2, Zenon DEF CallResolved, SameRequest, rpc_state_block_number
  <2>4. p = hl_call_precompiles(call.number, Best)'
    BY <1>1, <1>7, <1>9, Zenon DEF hl_call_precompiles, p
  <2>5. CallPrecompiles'
    BY <1>1, <1>2, <1>7, <2>2, <2>4, SMTT(30) DEF CallPrecompiles, CallResolved, SameRequest
  <2>6. CallInv'
    BY <1>7, <2>1, <2>3, <2>5, Zenon DEF CallInv, SameRequest
  <2>7. EstimateInv'
    BY <1>2, <1>7, Zenon DEF CallsInv, EstimateInv, SameRequest, EstimateRequest
  <2> QED
    BY <1>1, <1>2, <1>3, <1>7, <1>9, <2>6, <2>7, Zenon
       DEF CallsInv, UpstreamInv, SameRequest, TraceInv, SimulationInv
<1> QED
  BY <1>8, <1>9, Zenon

\* get_hl_extras: what is read is the block's, or the block was not there.
LEMMA ReadExtrasKeepsCalls ==
  ASSUME CallsInv, call # None, UNCHANGED <<chain, flags>>, ReadExtras
  PROVE  CallsInv'
<1>1. /\ ChainInv' /\ Best' = Best /\ Best \in Nat
      /\ UNCHANGED <<chain, forwarding, forward_call>>
  BY DEF CallsInv, ChainInv, flags, Best
<1>2. call \in CallRecord /\ call.at <= Best /\ call.step = "extras" /\ Executed
  BY Zenon DEF CallsInv, ReadExtras, Executed
<1>3. call.kind \in {"call", "estimate", "simulate"}
  BY <1>2, Zenon DEF CallsInv, TraceInv, CallRecord, Kinds
<1> DEFINE p == call.precompiles
           answer == ReadPrecompile(ExtrasOf(p), p.forwarder, call.env, call.read)
           step == IF call.kind = "simulate" THEN "state"
                   ELSE IF call.kind = "estimate" THEN "estimate" ELSE "done"
           estimate == IF call.kind = "estimate" THEN StartEstimate(call.estimate)
                       ELSE call.estimate
<1>4. call' = [call EXCEPT !.step = step, !.answer = answer, !.estimate = estimate]
  BY <1>2, Zenon DEF ReadExtras, CallRecord
<1>5. p.from \in Int \cup {None} /\ p.forwarder \in Int \cup {None}
  BY <1>1, <1>2, <1>3
     DEF CallsInv, CallInv, SimulationInv, CallPrecompiles, CallResolved, hl_call_precompiles,
         hl_simulation_precompiles, CallRecord, Minimum, Named
<1>6. answer \in Answers /\ answer.kind # "upstream" /\ answer # None
  <2>1. answer \in Answers /\ answer.kind # "upstream"
    <3>1. ReadAnswer(answer, ExtrasOf(p), p.forwarder, call.read)
      BY <1>5, ReadOutcome, Zenon
    <3> QED
      BY <3>1, Zenon DEF ReadAnswer
  <2>2. None \notin Answers
    BY CallAssumption, Zenon
  <2> QED
    BY <2>1, <2>2, Zenon
<1>7. /\ estimate \in {req.estimate : req \in CallRequests} \cup EstimateRecord
      /\ call.kind = "estimate" => EstimateKept(estimate) /\ estimate.step # "done"
  <2>1. CASE call.kind = "estimate"
    <3>1. PICK req \in CallRequests :
            call.estimate = req.estimate /\ EstimateRequest(req.estimate)
      BY <1>2, <2>1, Zenon DEF CallsInv, EstimateInv
    <3>3. estimate = StartEstimate(call.estimate) /\ estimate.step # "done"
      BY <2>1, Zenon DEF StartEstimate
    <3>4. EstimateKept(estimate)
      BY <3>1, <3>3, StartKept, Zenon
    <3> QED
      BY <3>3, <3>4, Zenon DEF EstimateKept
  <2>2. CASE call.kind # "estimate"
    BY <1>2, <2>2, Zenon DEF CallRecord
  <2> QED
    BY <2>1, <2>2, Zenon
<1> HIDE DEF p, answer, step, estimate
<1>8. /\ call' \in CallRecord /\ SameRequest /\ call'.step = step /\ call'.answer = answer
      /\ call'.estimate = estimate /\ call'.state = call.state /\ call'.env = call.env
      /\ call'.number = call.number /\ call'.precompiles = call.precompiles
  <2>1. step \in {"state", "estimate", "done"}
    BY Zenon DEF step
  <2> QED
    BY ONLY <1>2, <1>4, <1>6, <1>7, <2>1, ZenonT(30) DEF CallRecord, SameRequest
<1>9. Executed'
  BY <1>6, <1>8, Zenon DEF Executed
<1>10. CASE call.kind = "simulate"
  <2>1. /\ Named(call.number) /\ call.env = call.number + 1 /\ call.id # Pending
        /\ step = "state"
    BY <1>2, <1>10, Zenon DEF CallsInv, SimulationInv, step
  <2>2. PICK best \in call.number..Best : p = hl_simulation_precompiles(call.number, best)
    BY <1>2, <1>10, ZenonT(30) DEF CallsInv, SimulationInv, p
  <2>3. p = hl_simulation_precompiles(call.number, best)'
    BY <1>1, <1>8, <2>2, Zenon DEF hl_simulation_precompiles
  <2>4. PICK extras \in {NoExtras} \cup {get_hl_extras(n) : n \in 1..Best} :
          ExtrasOf(p) = [extras EXCEPT !.read_precompile_calls = {}]
    <3>1. CASE forwarding
      <4>1. p.from = call.number /\ p.calls = FALSE /\ call.number \in 1..Best
        BY <1>1, <2>1, <2>2, <3>1 DEF hl_simulation_precompiles, Minimum, Named
      <4>2. ExtrasOf(p) = [get_hl_extras(call.number) EXCEPT !.read_precompile_calls = {}]
        BY <1>1, <4>1, CallAssumption, SMTT(30) DEF ExtrasOf
      <4> QED
        BY <4>1, <4>2, Zenon
    <3>2. CASE ~ forwarding
      <4>1. p.from = None /\ p.calls = FALSE
        BY <2>2, <3>2, Zenon DEF hl_simulation_precompiles
      <4> QED
        BY <4>1, Zenon DEF ExtrasOf
    <3> QED
      BY <3>1, <3>2, Zenon
  <2>5. extras \in ({NoExtras} \cup {get_hl_extras(n) : n \in 1..Best})'
    BY <1>1, Zenon DEF get_hl_extras, Best
  <2>6. call'.answer = ReadPrecompile([extras EXCEPT !.read_precompile_calls = {}],
                                      p.forwarder, call'.env, call'.read)
    BY <1>8, <2>4, Zenon DEF answer, SameRequest
  <2>7. Named(call.number)' /\ call'.env = call'.number + 1
    BY <1>1, <1>8, <2>1, Zenon DEF Named, SameRequest
  <2>8. SimulationInv'
    BY <1>1, <1>8, <1>10, <2>1, <2>2, <2>3, <2>5, <2>6, <2>7, Zenon DEF SimulationInv,
         SameRequest, p
  <2> QED
    BY <1>1, <1>2, <1>6, <1>8, <1>10, <2>1, <2>8, ZenonT(30) DEF CallsInv, UpstreamInv, SameRequest,
         CallInv, TraceInv, EstimateInv
<1>11. CASE call.kind \in {"call", "estimate"}
  <2>1. /\ CallResolved /\ CallPrecompiles /\ ~ (forward_call /\ call.id = Latest)
        /\ step \in {"estimate", "done"}
    BY <1>2, <1>11, Zenon DEF CallsInv, CallInv, step
  <2>2. CallResolved' /\ ~ (forward_call /\ call.id = Latest)'
    BY <1>1, <1>8, <2>1, Zenon DEF CallResolved, SameRequest, rpc_state_block_number
  <2>3. CallPrecompiles'
    BY <1>1, <1>8, <2>1, ZenonT(30) DEF CallPrecompiles, SameRequest, hl_call_precompiles
  <2>4. p.from \in Int /\ call.state \in 1..Best /\ p.calls \in BOOLEAN
    BY <1>2, <2>1, PrecompilesChosen, Zenon DEF CallsInv, p
  <2>5. CallAnswered'
    <3>1. ExtrasOf(p)' = ExtrasOf(p)
      BY <1>1, <1>8, Zenon DEF ExtrasOf, get_hl_extras, Best, p
    <3>2. CASE p.from \in 1..Best
      BY <1>1, <1>8, <3>1, <3>2, Zenon DEF CallAnswered, SameRequest, p, answer
    <3>3. CASE p.from \notin 1..Best
      <4>1. ExtrasOf(p) = NoExtras
        BY <2>4, <3>3, CallAssumption, Zenon DEF ExtrasOf, get_hl_extras, NoExtras
      <4>2. p.from \notin 1..call.state
        BY <1>1, <2>4, <3>3
      <4> QED
        BY <1>8, <4>1, <4>2, Zenon DEF CallAnswered, SameRequest, p, answer
    <3> QED
      BY <3>2, <3>3, Zenon
  <2>6. CallInv'
    BY <1>8, <1>9, <1>11, <2>1, <2>2, <2>3, <2>5, Zenon DEF CallInv, SameRequest, step
  <2>7. EstimateInv'
    BY <1>7, <1>8, <1>9, ZenonT(30) DEF EstimateInv, SameRequest, step
  <2> QED
    BY <1>1, <1>2, <1>6, <1>8, <1>11, <2>1, <2>6, <2>7, Zenon DEF CallsInv, UpstreamInv,
         SameRequest, TraceInv, SimulationInv
<1> QED
  BY <1>3, <1>10, <1>11, Zenon

\* A simulation takes the state of its id.
LEMMA TakeStateKeepsCalls ==
  ASSUME CallsInv, call # None, UNCHANGED <<chain, flags>>, TakeState
  PROVE  CallsInv'
<1>1. /\ ChainInv' /\ Best' = Best /\ Best \in Nat /\ Best > 0
      /\ UNCHANGED <<chain, forwarding, forward_call>>
  BY DEF CallsInv, ChainInv, flags, Best
<1>2. call \in CallRecord /\ call.at <= Best /\ call.step = "state" /\ Executed
  BY Zenon DEF CallsInv, TakeState, Executed
<1>3. call.kind = "simulate"
  BY <1>2, Zenon DEF CallsInv, CallInv, TraceInv, CallRecord, Kinds
<1> DEFINE n == StateOf(call.id)
<1>4. /\ Named(call.number) /\ call.env = call.number + 1 /\ call.id # Pending
  BY <1>2, <1>3, Zenon DEF CallsInv, SimulationInv
<1>5. n \in 1..Best /\ n >= call.number /\ (call.id # Latest => n = call.id)
  BY <1>1, <1>2, <1>4 DEF StateOf, Resolve, Named
<1>6. call' = [call EXCEPT !.step = "done", !.state = n]
  BY Zenon DEF TakeState
<1> HIDE DEF n
<1>7. /\ call' \in CallRecord /\ SameRequest /\ call'.step = "done" /\ call'.state = n
      /\ call'.env = call.env /\ call'.answer = call.answer
      /\ call'.number = call.number /\ call'.precompiles = call.precompiles
  <2>1. n \in Int
    BY <1>1, <1>5
  <2> QED
    BY ONLY <1>2, <1>6, <2>1, ZenonT(30) DEF CallRecord, SameRequest
<1>8. Named(call.number)' /\ Named(call.state)' /\ call'.env = call'.number + 1
  BY <1>1, <1>4, <1>5, <1>7, Zenon DEF Named, SameRequest
<1>9. \E best \in call'.number..Best' :
        call'.precompiles = hl_simulation_precompiles(call.number, best)'
  BY <1>1, <1>2, <1>3, <1>7, Zenon DEF CallsInv, SimulationInv, hl_simulation_precompiles
<1>10. \E extras \in ({NoExtras} \cup {get_hl_extras(n_1) : n_1 \in 1..Best})' :
         call'.answer = ReadPrecompile([extras EXCEPT !.read_precompile_calls = {}],
                                       call'.precompiles.forwarder, call'.env, call'.read)
  <2>1. PICK extras \in {NoExtras} \cup {get_hl_extras(n_1) : n_1 \in 1..Best} :
          call.answer = ReadPrecompile([extras EXCEPT !.read_precompile_calls = {}],
                                       call.precompiles.forwarder, call.env, call.read)
    BY <1>2, <1>3, Zenon DEF CallsInv, SimulationInv
  <2>2. extras \in ({NoExtras} \cup {get_hl_extras(n_1) : n_1 \in 1..Best})'
    BY <1>1, <2>1, Zenon DEF get_hl_extras, Best
  <2> QED
    BY <1>7, <2>1, <2>2, Zenon DEF SameRequest
<1>11. SimulationInv'
  BY <1>1, <1>4, <1>5, <1>7, <1>8, <1>9, <1>10, Zenon DEF SimulationInv, SameRequest
<1> QED
  BY <1>1, <1>2, <1>3, <1>7, <1>11, Zenon DEF CallsInv, UpstreamInv, SameRequest, CallInv,
       TraceInv, EstimateInv

\* One execution of an estimate.
LEMMA EstimateKeepsCalls ==
  ASSUME CallsInv, call # None, UNCHANGED <<chain, flags>>, Estimate
  PROVE  CallsInv'
<1>1. /\ ChainInv' /\ Best' = Best /\ Best \in Nat
      /\ UNCHANGED <<chain, forwarding, forward_call>>
  BY DEF CallsInv, ChainInv, flags, Best
<1>2. call \in CallRecord /\ call.at <= Best /\ call.step = "estimate" /\ Executed
  BY Zenon DEF CallsInv, Estimate, Executed
<1>3. call.kind \in {"call", "estimate"}
  BY <1>2, Zenon DEF CallsInv, SimulationInv, TraceInv, CallRecord, Kinds
<1> DEFINE e == EstimateStep(call.estimate)
           step == IF e.step = "done" THEN "done" ELSE "estimate"
<1>4. call' = [call EXCEPT !.estimate = e, !.step = step]
  BY <1>2, Zenon DEF Estimate, CallRecord
<1>5. call.kind = "estimate" => EstimateKept(call.estimate) /\ call.estimate.step # "done"
  BY <1>2, ZenonT(30) DEF CallsInv, EstimateInv
<1>6. EstimateKept(call.estimate) /\ call.estimate.step # "done" => EstimateKept(e)
  <2>1. SUFFICES ASSUME EstimateKept(call.estimate), call.estimate.step # "done"
                 PROVE  EstimateKept(e)
    BY Zenon
  <2>2. call.estimate.step \in {"basic", "first", "optimistic", "search"}
    BY <2>1, Zenon DEF EstimateKept, EstimateRecord
  <2> QED
    BY <2>1, <2>2, FirstTriesKept, OptimisticKept, SearchKept, Zenon
<1>7. call.kind = "estimate" /\ EstimateKept(e)
  BY <1>2, <1>3, <1>5, <1>6, Zenon DEF CallsInv, CallInv
<1> HIDE DEF e
<1>8. /\ call' \in CallRecord /\ SameRequest /\ call'.step = step /\ call'.answer = call.answer
      /\ call'.estimate = e /\ call'.state = call.state /\ call'.env = call.env
      /\ call'.number = call.number /\ call'.precompiles = call.precompiles
  <2>1. step \in {"estimate", "done"} /\ e \in EstimateRecord
    BY <1>7, Zenon DEF step, EstimateKept
  <2> HIDE DEF step
  <2> QED
    BY ONLY <1>2, <1>4, <2>1, ZenonT(30) DEF CallRecord, SameRequest
<1>9. /\ CallResolved /\ CallPrecompiles /\ CallAnswered /\ ~ (forward_call /\ call.id = Latest)
  BY <1>2, <1>3, Zenon DEF CallsInv, CallInv
<1>10. CallResolved' /\ ~ (forward_call /\ call.id = Latest)'
  BY <1>1, <1>8, <1>9, Zenon DEF CallResolved, SameRequest, rpc_state_block_number
<1>11. CallPrecompiles'
  BY <1>1, <1>8, <1>9, ZenonT(30) DEF CallPrecompiles, SameRequest, hl_call_precompiles
<1>12. CallAnswered'
  <2>1. ExtrasOf(call.precompiles)' = ExtrasOf(call.precompiles)
    BY <1>1, <1>8, Zenon DEF ExtrasOf, get_hl_extras, Best
  <2> QED
    BY <1>1, <1>8, <1>9, <2>1, Zenon DEF CallAnswered, SameRequest
<1>13. CallInv'
  BY <1>7, <1>8, <1>10, <1>11, <1>12, Zenon DEF CallInv, SameRequest, step
<1>14. EstimateInv'
  <2>1. CASE e.step = "done"
    <3>1. Executed'
      <4>1. /\ call.answer.kind # "upstream" /\ call.answer \in Answers
        <5>1. call.precompiles.forwarder \in Int \cup {None}
          BY <1>2, <1>9, PrecompilesChosen, Zenon DEF CallsInv
        <5>2. \E extras : ReadAnswer(call.answer, extras, call.precompiles.forwarder, call.read)
          BY <1>9, <5>1, ReadOutcome, Zenon DEF CallAnswered
        <5> QED
          BY <5>2, Zenon DEF ReadAnswer
      <4> QED
        BY <1>8, <4>1, CallAssumption, Zenon DEF Executed
    <3> QED
      BY <1>7, <1>8, <2>1, <3>1, Zenon DEF EstimateInv, step
  <2>2. CASE e.step # "done"
    BY <1>7, <1>8, <2>2, Zenon DEF EstimateInv, step
  <2> QED
    BY <2>1, <2>2, Zenon
<1> QED
  BY <1>1, <1>2, <1>7, <1>8, <1>13, <1>14, Zenon DEF CallsInv, UpstreamInv, SameRequest,
       TraceInv, SimulationInv

\* A trace resolves its id a first time.
LEMMA ResolveTraceKeepsCalls ==
  ASSUME CallsInv, call # None, UNCHANGED <<chain, flags>>, ResolveTrace
  PROVE  CallsInv'
<1>1. CASE ~ KnownCall(call.id)
  BY <1>1, FailKeepsCalls, Zenon DEF ResolveTrace
<1>2. CASE KnownCall(call.id)
  <2> DEFINE n == Resolve(call.id)
  <2>1. ChainInv' /\ Best' = Best /\ Best \in Nat /\ Best > 0
    BY DEF CallsInv, ChainInv, flags, Best
  <2>2. /\ call \in CallRecord /\ call.at <= Best /\ call.kind = "trace" /\ call.id # Pending
        /\ call.step = "resolve" /\ call.env = None /\ call.state = None
    BY Zenon DEF CallsInv, TraceInv, ResolveTrace
  <2>3. n \in 1..Best /\ (call.id # Latest => n = call.id) /\ n \in Int
    BY <1>2, <2>1, <2>2 DEF KnownCall, Known, Resolve, CallRecord
  <2>4. \/ call' = [call EXCEPT !.step = "tracing", !.env = n]
        \/ call' = [call EXCEPT !.step = "tracing", !.state = n]
    BY <1>2, Zenon DEF ResolveTrace
  <2> HIDE DEF n
  <2>5. /\ call' \in CallRecord /\ SameRequest /\ call'.step = "tracing"
        /\ call'.answer = call.answer
        /\ \/ call'.env = n /\ call'.state = None
           \/ call'.env = None /\ call'.state = n
    <3>1. CASE call' = [call EXCEPT !.step = "tracing", !.env = n]
      BY ONLY <2>2, <2>3, <3>1, Zenon DEF CallRecord, SameRequest
    <3>2. CASE call' = [call EXCEPT !.step = "tracing", !.state = n]
      BY ONLY <2>2, <2>3, <3>2, Zenon DEF CallRecord, SameRequest
    <3> QED
      BY <2>4, <3>1, <3>2, Zenon
  <2>6. TraceInv'
    BY <2>1, <2>2, <2>3, <2>5, Zenon DEF TraceInv, Named, SameRequest
  <2> QED
    BY <2>1, <2>2, <2>5, <2>6, Zenon DEF CallsInv, UpstreamInv, SameRequest, CallInv,
         SimulationInv, EstimateInv
<1> QED
  BY <1>1, <1>2, Zenon

\* It resolves its id again and executes the block.
LEMMA TraceKeepsCalls ==
  ASSUME CallsInv, call # None, UNCHANGED <<chain, flags>>, Trace
  PROVE  CallsInv'
<1>1. /\ ChainInv' /\ Best' = Best /\ Best \in Nat /\ Best > 0 /\ UNCHANGED chain
  BY DEF CallsInv, ChainInv, flags, Best
<1>2. call \in CallRecord /\ call.at <= Best /\ call.step = "tracing"
  BY Zenon DEF CallsInv, Trace
<1>3. call.kind = "trace" /\ call.id # Pending
  BY <1>2, Zenon DEF CallsInv, CallInv, SimulationInv, TraceInv, CallRecord, Kinds
<1>4. \/ call.env = None /\ Named(call.state)
      \/ call.state = None /\ Named(call.env)
  BY <1>2, <1>3, Zenon DEF CallsInv, TraceInv
<1> DEFINE n == Resolve(call.id)
           env == IF call.env = None THEN n ELSE call.env
           state == IF call.state = None THEN n ELSE call.state
           answer == ReadPrecompile(get_hl_extras(env), None, env, call.read)
<1>5. Named(n)
  BY <1>1, <1>3, <1>4 DEF Resolve, Named
<1>6. Named(env) /\ Named(state)
  BY <1>4, <1>5, CallAssumption, Zenon DEF Named
<1>7. env \in Int /\ state \in Int
  BY <1>1, <1>6 DEF Named
<1>8. call' = [call EXCEPT !.step = "done", !.env = env, !.state = state, !.number = env,
                           !.answer = answer]
  BY Zenon DEF Trace
<1>9. answer \in Answers /\ answer.kind # "upstream"
  <2>1. ReadAnswer(answer, get_hl_extras(env), None, call.read)
    BY ReadOutcome, Zenon
  <2> QED
    BY <2>1, Zenon DEF ReadAnswer
<1> HIDE DEF env, state, answer
<1>10. /\ call' \in CallRecord /\ SameRequest /\ call'.step = "done" /\ call'.env = env
       /\ call'.state = state /\ call'.answer = answer
  BY ONLY <1>2, <1>7, <1>8, <1>9, ZenonT(30) DEF CallRecord, SameRequest
<1>11. call'.answer = ReadPrecompile(get_hl_extras(call.env)', None, call'.env, call'.read)
  BY <1>1, <1>10, Zenon DEF answer, SameRequest, get_hl_extras, Best
<1>12. Named(call.env)' /\ Named(call.state)'
  BY <1>1, <1>6, <1>10, Zenon DEF Named, SameRequest
<1>13. TraceInv'
  BY <1>3, <1>10, <1>11, <1>12, Zenon DEF TraceInv, SameRequest
<1> QED
  BY <1>1, <1>2, <1>3, <1>9, <1>10, <1>13, Zenon
     DEF CallsInv, UpstreamInv, SameRequest, CallInv, SimulationInv, EstimateInv

--------------------------------------------------------------------------------
\* The invariant and what it implies.

\* Blocks arrive, or the chain stays as it is, while a call is in progress.
LEMMA NextKeepsCalls ==
  ASSUME CallsInv, [Next]_callVars
  PROVE  CallsInv'
<1>1. ChainInv
  BY Zenon DEF CallsInv
<1>2. ASSUME UNCHANGED <<chain, flags, call>> PROVE CallsInv'
  BY <1>1, <1>2, GrowthKeepsCalls DEF ChainInv, Best, flags
<1>3. CASE ServerStep
  <2>1. CASE NewBlock
    <3>1. PICK b \in Blocks : chain' = Append(chain, b)
      BY <2>1, Zenon DEF NewBlock
    <3>2. UNCHANGED <<flags, call>>
      BY <1>3, Zenon DEF ServerStep
    <3>3. ChainInv' /\ Best' >= Best /\ \A n \in 1..Best : chain'[n] = chain[n]
      BY <1>1, <3>1, <3>2 DEF ChainInv, Best, flags
    <3> QED
      BY <3>2, <3>3, GrowthKeepsCalls, Zenon
  <2>2. CASE call = None /\ ReplaceBlock
    <3>1. ChainInv' /\ call' = None
      BY <1>1, <1>3, <2>2 DEF ReplaceBlock, ChainInv, ServerStep, flags, Best
    <3> QED
      BY <3>1, Zenon DEF CallsInv
  <2>3. CASE ReceiveAny \/ Handle \/ Reply \/ RestartServers
    <3>1. UNCHANGED <<chain, flags, call>>
      BY <1>3, <2>3, ZenonT(30)
         DEF ServerStep, ReceiveAny, Receive, Handle, Reply, RestartServers
    <3> QED
      BY <1>2, <3>1, Zenon
  <2> QED
    BY <1>3, <2>1, <2>2, <2>3, Zenon DEF ServerStep
<1>4. CASE ReceiveAnyCall
  BY <1>4, ReceiveKeepsCalls, Zenon DEF ReceiveAnyCall
<1>5. CASE HandleCall
  <2>1. call # None /\ UNCHANGED <<chain, flags>>
    BY <1>5, Zenon DEF HandleCall, Calling
  <2> QED
    BY <1>5, <2>1, UpstreamKeepsCalls, ResolveCallKeepsCalls, ResolveSimulationKeepsCalls,
       ReadHeadKeepsCalls, ReadExtrasKeepsCalls, TakeStateKeepsCalls, EstimateKeepsCalls,
       ResolveTraceKeepsCalls, TraceKeepsCalls, Zenon
       DEF HandleCall
<1>6. CASE ReplyCall
  <2>1. ChainInv' /\ call' = None
    BY <1>1, <1>6, Zenon DEF ReplyCall, ChainInv, flags
  <2> QED
    BY <2>1, Zenon DEF CallsInv
<1>7. CASE SendersStep \/ UNCHANGED callVars
  <2>1. UNCHANGED <<chain, flags, call>>
    BY <1>7, Zenon DEF SendersStep, callVars, flags
  <2> QED
    BY <1>2, <2>1, Zenon
<1> QED
  BY <1>3, <1>4, <1>5, <1>6, <1>7, Zenon DEF Next

\* It holds from the start.
LEMMA CallsAlwaysInv == Spec => []CallsInv
<1>1. Init => CallsInv
  <2>1. SUFFICES ASSUME Init PROVE ChainInv
    BY Zenon DEF Init, CallsInv
  <2>2. forwarding \in BOOLEAN /\ forward_call \in BOOLEAN
    BY <2>1, CallAssumption, Zenon DEF Init
  <2>3. chain \in Seq(Blocks) /\ Len(chain) > 0
    BY <2>1 DEF Init, ServerInit
  <2> QED
    BY <2>2, <2>3, Zenon DEF ChainInv
<1>2. CallsInv /\ [Next]_callVars => CallsInv'
  BY NextKeepsCalls, Zenon
<1> QED
  BY <1>1, <1>2, PTL DEF Spec

\* A finished call or estimate that was executed: what it chose and what it read.
LEMMA FinishedCall ==
  ASSUME CallsInv, CallDone({"call", "estimate"}), call.answer.kind # "upstream"
  PROVE  /\ call \in CallRecord /\ CallResolved /\ CallAnswered
         /\ ~ (forward_call /\ call.id = Latest)
         /\ call.number \in Int /\ call.at \in Nat
         /\ \E best \in call.state..Best :
              /\ best >= call.at /\ best \in Int
              /\ call.precompiles.from = IF forwarding /\ call.number > best THEN best
                                         ELSE call.number
              /\ call.precompiles.calls = (call.number <= best \/ ~ forwarding)
              /\ call.precompiles.forwarder = IF forwarding /\ call.number >= best THEN best
                                              ELSE None
<1>1. /\ call # None /\ call.step = "done" /\ call.kind \in {"call", "estimate"}
      /\ call.answer # None
  BY Zenon DEF CallDone
<1>2. /\ ChainInv /\ call \in CallRecord /\ CallInv /\ Executed
  BY <1>1, Zenon DEF CallsInv, Executed
<1>3. /\ CallResolved /\ CallPrecompiles /\ CallAnswered /\ ~ (forward_call /\ call.id = Latest)
  BY <1>1, <1>2, Zenon DEF CallInv
<1>4. call.state \in Int /\ call.number \in Int /\ Best \in Nat /\ call.at \in Nat
  BY <1>2, <1>3 DEF CallResolved, rpc_state_block_number, CallRecord, ChainInv, Best
<1>5. PICK best \in call.state..Best :
        best >= call.at /\ call.precompiles = hl_call_precompiles(call.number, best)
  BY <1>3, Zenon DEF CallPrecompiles
<1>6. /\ best \in Int
      /\ call.precompiles.from = IF forwarding /\ call.number > best THEN best ELSE call.number
      /\ call.precompiles.calls = (call.number <= best \/ ~ forwarding)
      /\ call.precompiles.forwarder = IF forwarding /\ call.number >= best THEN best ELSE None
  BY <1>4, <1>5 DEF hl_call_precompiles
<1> QED
  BY <1>2, <1>3, <1>4, <1>5, <1>6, Zenon

\* The reads of a call: forwarded under the head it runs on, recorded by the block it
\* runs on.
LEMMA CallReadsMatch ==
  ASSUME CallsInv, CallDone({"call", "estimate"}), call.answer.kind # "upstream"
  PROVE  ReadsMatchState
<1>1. /\ call \in CallRecord /\ CallResolved /\ CallAnswered
      /\ ~ (forward_call /\ call.id = Latest)
      /\ call.number \in Int /\ call.at \in Nat
  BY FinishedCall, Zenon
<1>2. PICK best \in call.state..Best :
              /\ best >= call.at /\ best \in Int
              /\ call.precompiles.from = IF forwarding /\ call.number > best THEN best
                                         ELSE call.number
              /\ call.precompiles.calls = (call.number <= best \/ ~ forwarding)
              /\ call.precompiles.forwarder = IF forwarding /\ call.number >= best THEN best
                                              ELSE None
  BY FinishedCall, Zenon
<1>3. /\ call.state \in 1..Best /\ Best \in Nat /\ call.kind \in {"call", "estimate"}
      /\ call.number = LET env == IF call.id = Pending THEN call.state + 1 ELSE call.state
                       IN  IF forwarding \/ call.override = None THEN env ELSE call.override
  BY <1>1 DEF CallsInv, ChainInv, Best, CallResolved, CallDone, rpc_state_block_number
<1> DEFINE p == call.precompiles
<1>4. p.forwarder \in Int \cup {None} /\ p.from \in Int /\ p.calls \in BOOLEAN
  BY <1>1, <1>2, <1>3, Zenon DEF CallsInv, ChainInv
<1>5. PICK extras :
        /\ call.answer = ReadPrecompile(extras, p.forwarder, call.env, call.read)
        /\ \/ p.from \in 1..Best /\ extras = ExtrasOf(p)
           \/ p.from \notin 1..call.state /\ extras = NoExtras
  BY <1>1, Zenon DEF CallAnswered
<1>6. /\ call.answer.kind = "forwarded" => p.forwarder # None /\ call.answer.head = p.forwarder
      /\ call.answer.kind = "recorded" => call.read \in extras.read_precompile_calls
      /\ call.answer.kind = "out_of_gas" => p.forwarder = None
  <2>1. ReadAnswer(call.answer, extras, p.forwarder, call.read)
    BY <1>4, <1>5, ReadOutcome, ZenonT(30)
  <2> QED
    BY <2>1, Zenon DEF ReadAnswer
<1>7. ForwardedReadsMatchState
  BY <1>2, <1>3, <1>6 DEF ForwardedReadsMatchState
<1>8. RecordedReadsMatchState
  <2>1. SUFFICES ASSUME call.read \in extras.read_precompile_calls, call.id # Pending,
                        forwarding \/ call.override = None
                 PROVE  call.read \in chain[call.state].read_precompile_calls
    BY <1>3, <1>6, <1>4, Zenon DEF RecordedReadsMatchState, CallsInv, ChainInv
  <2>2. extras = ExtrasOf(p) /\ p.from \in 1..Best
    BY <1>5, <2>1 DEF NoExtras
  <2>3. p.calls
    BY <1>4, <2>1, <2>2, Zenon DEF ExtrasOf, NoExtras, get_hl_extras
  <2>4. p.from = call.state
    BY <1>2, <1>3, <2>1, <2>3, SMTT(30)
  <2> QED
    BY <1>4, <2>1, <2>2, <2>3, <2>4, CallAssumption, Zenon DEF ExtrasOf, get_hl_extras
<1>9. PendingReadsUseHeadRange
  <2>1. SUFFICES ASSUME call.id = Pending, call.override = None, p.forwarder = call.state,
                        Warm(get_hl_extras(call.state), call.env, call.read[1])
                 PROVE  call.answer.kind = "forwarded"
    BY Zenon DEF PendingReadsUseHeadRange
  <2>2. p.from = call.state /\ ~ p.calls /\ p.forwarder # None
    <3>1. p.forwarder \in Int /\ p.forwarder # None
      BY <1>3, <2>1, CallAssumption
    <3>2. forwarding /\ call.number >= best /\ p.forwarder = best
      BY <1>2, <3>1, Zenon
    <3>3. call.number = best + 1 /\ call.state = best
      BY <1>3, <2>1, <3>2, Zenon
    <3>4. p.from = best
      BY <1>2, <3>2, <3>3
    <3>5. ~ p.calls
      <4>1. ~ (call.number <= best \/ ~ forwarding)
        BY <3>2, <3>3
      <4> QED
        BY <1>2, <4>1, Zenon
    <3> QED
      BY <3>1, <3>3, <3>4, <3>5, ZenonT(30)
  <2>3. extras = [get_hl_extras(call.state) EXCEPT !.read_precompile_calls = {}]
    BY <1>3, <1>5, <2>2, CallAssumption DEF ExtrasOf
  <2>4. Warm(extras, call.env, call.read[1]) /\ call.read \notin extras.read_precompile_calls
    BY <2>1, <2>3, ZenonT(30) DEF Warm, get_hl_extras, NoExtras
  <2> QED
    BY <1>5, <2>2, <2>4 DEF ReadPrecompile, run_unrecorded_precompile
<1>10. HeadReadsAreAnswered
  BY <1>1, <1>2, <1>3, <1>6, CallAssumption DEF HeadReadsAreAnswered
<1> QED
  BY <1>7, <1>8, <1>9, <1>10, Zenon DEF ReadsMatchState

\* The reads of a simulation and of a trace.
LEMMA OtherReadsMatch ==
  ASSUME CallsInv, CallDone({"simulate", "trace"})
  PROVE  ReadsMatchState
<1>1. /\ call # None /\ call.step = "done" /\ call.answer # None /\ call \in CallRecord
      /\ call.kind \in {"simulate", "trace"} /\ Best \in Nat /\ forwarding \in BOOLEAN
  BY DEF CallDone, CallsInv, ChainInv, Best
<1>2. Executed
  BY <1>1, ZenonT(30) DEF CallsInv, UpstreamInv, Executed
<1>3. CASE call.kind = "simulate"
  <2>1. /\ Named(call.number) /\ Named(call.state) /\ call.state >= call.number
    BY <1>1, <1>2, <1>3, Zenon DEF CallsInv, SimulationInv
  <2>2. PICK best \in call.number..Best :
          call.precompiles = hl_simulation_precompiles(call.number, best)
    BY <1>1, <1>2, <1>3, Zenon DEF CallsInv, SimulationInv
  <2>3. /\ best \in Int
        /\ call.precompiles.forwarder = IF forwarding /\ call.number >= best THEN best ELSE None
    BY <1>1, <2>1, <2>2 DEF hl_simulation_precompiles, Named
  <2> DEFINE forwarder == call.precompiles.forwarder
  <2>4. forwarder \in Int \cup {None}
    BY <2>3, Zenon
  <2>5. PICK extras \in {NoExtras} \cup {get_hl_extras(n) : n \in 1..Best} :
          call.answer = ReadPrecompile([extras EXCEPT !.read_precompile_calls = {}], forwarder,
                                       call.env, call.read)
    BY <1>1, <1>2, <1>3, Zenon DEF CallsInv, SimulationInv
  <2> DEFINE calls == [extras EXCEPT !.read_precompile_calls = {}]
  <2>6. calls.read_precompile_calls = {}
    BY <2>5 DEF NoExtras, get_hl_extras
  <2> HIDE DEF calls
  <2>7. /\ call.answer.kind = "forwarded" => forwarder # None /\ call.answer.head = forwarder
        /\ call.answer.kind # "recorded"
    <3>1. ReadAnswer(call.answer, calls, forwarder, call.read)
      BY <2>4, <2>5, ReadOutcome, ZenonT(30) DEF calls
    <3> QED
      BY <2>6, <3>1, Zenon DEF ReadAnswer
  <2>8. ForwardedReadsMatchState
    BY <1>1, <1>3, <2>1, <2>2, <2>3, <2>4, <2>7 DEF ForwardedReadsMatchState, Named
  <2> QED
    BY <1>3, <2>7, <2>8, Zenon
       DEF ReadsMatchState, RecordedReadsMatchState, PendingReadsUseHeadRange,
           HeadReadsAreAnswered, CallDone
<1>4. CASE call.kind = "trace"
  <2>1. /\ Named(call.env) /\ Named(call.state)
        /\ call.answer = ReadPrecompile(get_hl_extras(call.env), None, call.env, call.read)
    BY <1>1, <1>2, <1>4, Zenon DEF CallsInv, TraceInv
  <2>2. ReadAnswer(call.answer, get_hl_extras(call.env), None, call.read)
    BY <2>1, ReadOutcome, ZenonT(30)
  <2>3. RecordedReadsMatchState
    BY <1>4, <2>1, <2>2, Zenon DEF RecordedReadsMatchState, Named, get_hl_extras, ReadAnswer
  <2> QED
    BY <1>4, <2>2, <2>3, Zenon
       DEF ReadsMatchState, ForwardedReadsMatchState, PendingReadsUseHeadRange,
           HeadReadsAreAnswered, CallDone, ReadAnswer
<1> QED
  BY <1>1, <1>3, <1>4, Zenon

\* What a call, an estimate, a simulation or a trace reads belongs to the block it runs
\* on, however blocks arrive between the lookups of its handler (ReadsMatchState).
THEOREM ReadsMatch == Spec => []ReadsMatchState
<1>1. CallsInv => ReadsMatchState
  <2>1. SUFFICES ASSUME CallsInv PROVE ReadsMatchState
    BY Zenon
  <2>2. CASE CallDone({"call", "estimate"}) /\ call.answer.kind # "upstream"
    BY <2>1, <2>2, CallReadsMatch, Zenon
  <2>3. CASE CallDone({"simulate", "trace"})
    BY <2>1, <2>3, OtherReadsMatch, Zenon
  <2>4. CASE ~ CallDone(Kinds)
    BY <2>4, ZenonT(30) DEF ReadsMatchState, ForwardedReadsMatchState,
         RecordedReadsMatchState,
                PendingReadsUseHeadRange, HeadReadsAreAnswered, CallDone, Kinds
  <2>5. CASE CallDone(Kinds) /\ call.answer.kind = "upstream"
    <3>1. call.id = Latest
      BY <2>1, <2>5, Zenon DEF CallsInv, UpstreamInv, CallDone
    <3> QED
      BY <2>5, <3>1, CallAssumption, Zenon
         DEF ReadsMatchState, ForwardedReadsMatchState, RecordedReadsMatchState,
             PendingReadsUseHeadRange, HeadReadsAreAnswered, CallDone
  <2> QED
    BY <2>2, <2>3, <2>4, <2>5, Zenon DEF CallDone, Kinds
<1> QED
  BY <1>1, CallsAlwaysInv, PTL

\* "Historical blocks are unaffected: they replay from their recorded calls": the read
\* of a call below the head depends on its block alone, not on the flags nor on when it
\* runs (HistoryIsReproducible).
THEOREM HistoryReplays == Spec => []HistoryIsReproducible
<1>1. ASSUME CallsInv, CallDone({"call", "estimate"}), call.id \in 1..(call.at - 1),
             forwarding \/ call.override = None
      PROVE  call.answer = ReadPrecompile(get_hl_extras(call.id), None, call.env, call.read)
  <2>1. /\ call # None /\ call.answer # None /\ call \in CallRecord /\ call.at \in Nat
        /\ forwarding \in BOOLEAN
    BY <1>1, Zenon DEF CallDone, CallsInv, CallRecord, ChainInv
  <2>2. call.id \in Int /\ call.id \notin {Latest, Pending}
    BY <1>1, <2>1, CallAssumption
  <2>3. call.answer.kind # "upstream"
    BY <1>1, <2>1, <2>2, Zenon DEF CallsInv, UpstreamInv
  <2>4. CallResolved /\ CallAnswered /\ call.number \in Int
    BY <1>1, <2>3, FinishedCall, Zenon
  <2>5. call.state = call.id /\ call.number = call.id
    BY <1>1, <2>2, <2>4, Zenon DEF CallResolved, rpc_state_block_number
  <2>6. PICK best \in call.state..Best :
              /\ best >= call.at /\ best \in Int
              /\ call.precompiles.from = IF forwarding /\ call.number > best THEN best
                                         ELSE call.number
              /\ call.precompiles.calls = (call.number <= best \/ ~ forwarding)
              /\ call.precompiles.forwarder = IF forwarding /\ call.number >= best THEN best
                                              ELSE None
    BY <1>1, <2>3, FinishedCall, ZenonT(30)
  <2>7. call.number < best
    BY <1>1, <2>1, <2>5, <2>6, SMTT(30)
  <2>8. call.precompiles.from = call.id /\ call.precompiles.forwarder = None
    BY <2>4, <2>5, <2>6, <2>7
  <2>9. call.precompiles.calls
    <3>1. call.number <= best \/ ~ forwarding
      BY <2>4, <2>6, <2>7
    <3> QED
      BY <2>6, <3>1, ZenonT(30)
  <2>10. ExtrasOf(call.precompiles) = get_hl_extras(call.id)
    BY <2>2, <2>8, <2>9, CallAssumption, ZenonT(30) DEF ExtrasOf
  <2>11. call.precompiles.from \in 1..call.state
    BY <1>1, <2>1, <2>5, <2>8, SMTT(30)
  <2> QED
    BY <2>4, <2>8, <2>10, <2>11, Zenon DEF CallAnswered
<1>2. ASSUME CallsInv, CallDone({"trace"}), call.id # Latest
      PROVE  call.answer = ReadPrecompile(get_hl_extras(call.id), None, call.id, call.read)
  <2>1. call # None /\ call.step = "done" /\ call.kind = "trace" /\ call.answer # None
    BY <1>2, Zenon DEF CallDone
  <2>2. Executed
    BY <1>2, <2>1, Zenon DEF CallsInv, UpstreamInv, Executed
  <2> QED
    BY <1>2, <2>1, <2>2, Zenon DEF CallsInv, TraceInv, Named
<1>3. CallsInv => HistoryIsReproducible
  BY <1>1, <1>2, Zenon DEF HistoryIsReproducible
<1> QED
  BY <1>3, CallsAlwaysInv, PTL

\* eth_estimateGas answers with a limit at which the transaction succeeds and which is
\* within the error ratio of the least one, for any gas figures (EstimateIsRight).
THEOREM EstimatesAreRight == Spec => []EstimateIsRight
<1>1. ASSUME CallsInv, Estimated
      PROVE  Right(call.estimate)
  <2>1. /\ call # None /\ call.step = "done" /\ call.kind = "estimate" /\ call.answer # None
        /\ call.answer.kind # "upstream" /\ call.estimate.result # 0
    BY <1>1, Zenon DEF Estimated, CallDone
  <2>2. EstimateKept(call.estimate)
    BY <1>1, <2>1, Zenon DEF CallsInv, EstimateInv, Executed
  <2> QED
    BY <2>1, <2>2, Zenon DEF EstimateKept
<1>2. CallsInv => EstimateIsRight
  BY <1>1 DEF EstimateIsRight, EstimateSuffices, EstimateIsTight, Right
<1> QED
  BY <1>2, CallsAlwaysInv, PTL

================================================================================
