------------------------------ MODULE RpcCalls ------------------------------
(***************************************************************************)
(* Calls, estimates, simulations and traces (node/rpc) while the chain     *)
(* grows: which recorded read precompile calls, which precompile addresses *)
(* and which forwarder an execution gets, and which state it runs on.      *)
(*                                                                         *)
(* The id of the request is resolved more than once: for the environment   *)
(* and the state, for the chain head (chain_info) and for the body of the  *)
(* block (get_hl_extras).  Each is a step, and blocks arrive in between.   *)
(* One call is in progress at a time: calls share nothing but the          *)
(* forwarder's cache, which ReadPrecompileForwarder models.                *)
(***************************************************************************)
EXTENDS RpcServer, GasEstimate, TxForwarder

CONSTANTS
    CallRequests,    \* [kind, id, override, read, estimate]: what is asked for, the
                     \* block number override or None, the <<address, input>> the
                     \* execution reads, and what eth_estimateGas is asked for or None
    LowestAddress,   \* 0x800
    DefaultHighest,  \* 0x80D
    WarmBlock,       \* WARM_PRECOMPILES_BLOCK_NUMBER
    Configurations,  \* the values of <<forwarding, forward_call>> the node runs with
    Pending

(* How a read, or a call as a whole, is answered.                          *)
Answers ==
    [kind : {"upstream", "recorded", "out_of_gas", "plain_account"}]
        \cup [kind : {"forwarded"}, head : Int]

(* Ids are numbers or tags; simulations and traces at the pending block,   *)
(* which reth builds, are left out.                                        *)
ASSUME CallAssumption ==
    /\ {Latest, Pending, None} \cap Int = {} /\ Latest # Pending /\ None \notin Answers
    /\ Configurations \subseteq BOOLEAN \X BOOLEAN
    /\ \A req \in CallRequests :
         /\ req.kind \in {"call", "estimate", "simulate", "trace"}
         /\ req.id \in Int \cup {Latest, Pending} /\ req.override \in Int \cup {None}
         /\ req.kind \in {"simulate", "trace"} => req.id # Pending
         /\ req.kind = "estimate" => EstimateRequest(req.estimate)

VARIABLES
    forwarding,    \* --forward-read-precompiles
    forward_call,  \* --forward-call
    call           \* the call in progress or being answered, or None

flags == <<forwarding, forward_call>>
callVars == <<chain, layered, request, forwarding, forward_call, call, send>>

NoExtras == [read_precompile_calls |-> {}, highest_precompile_address |-> None]

(* get_hl_extras: the default for a block that is not there.               *)
get_hl_extras(n) ==
    IF n \in 1..Best
    THEN [read_precompile_calls |-> chain[n].read_precompile_calls,
          highest_precompile_address |-> chain[n].highest_precompile_address]
    ELSE NoExtras

(***************************************************************************)
(* What the EVM does when it reads a precompile: run_precompile,           *)
(* run_unrecorded_precompile, apply_precompiles_with_forwarder and         *)
(* fill_all_precompiles.  forwarder is the head it is scoped to, or None.  *)
(***************************************************************************)
run_unrecorded_precompile(forwarder) ==
    IF forwarder = None THEN [kind |-> "out_of_gas"]
    ELSE [kind |-> "forwarded", head |-> forwarder]

Warm(extras, number, address) ==
    /\ number >= WarmBlock
    /\ address >= LowestAddress
    /\ address <= IF extras.highest_precompile_address = None THEN DefaultHighest
                  ELSE extras.highest_precompile_address

ReadPrecompile(extras, forwarder, number, read) ==
    IF read \in extras.read_precompile_calls THEN [kind |-> "recorded"]
    ELSE IF \/ \E r \in extras.read_precompile_calls : r[1] = read[1]
            \/ Warm(extras, number, read[1])
    THEN run_unrecorded_precompile(forwarder)
    ELSE [kind |-> "plain_account"]

(***************************************************************************)
(* Which extras and forwarder a call gets                                  *)
(***************************************************************************)
(* Mutant: the forwarder is attached whatever the block.                   *)
hl_call_precompiles_always(number, best) ==
    [from |-> Minimum(number, best), calls |-> number <= best,
     forwarder |-> IF forwarding THEN best ELSE None]

(* Mutant: with a forwarder, no recorded calls are taken.                  *)
hl_call_precompiles_unrecorded(number, best) ==
    [from |-> IF forwarding /\ number > best THEN best ELSE number,
     calls |-> ~forwarding,
     forwarder |-> IF forwarding /\ number >= best THEN best ELSE None]

(* hl_call_precompiles: the block the extras are taken from, whether its   *)
(* recorded calls are, and the head the forwarder is scoped to.            *)
hl_call_precompiles(number, best) ==
    [from |-> IF forwarding /\ number > best THEN best ELSE number,
     calls |-> number <= best \/ ~forwarding,
     forwarder |-> IF forwarding /\ number >= best THEN best ELSE None]

hl_simulation_precompiles(parent, best) ==
    [from |-> IF forwarding THEN Minimum(parent, best) ELSE None, calls |-> FALSE,
     forwarder |-> IF forwarding /\ parent >= best THEN best ELSE None]

(* The extras of a choice made above, read from the chain now.             *)
ExtrasOf(p) ==
    LET extras == IF p.from = None THEN NoExtras ELSE get_hl_extras(p.from) IN
    IF p.calls THEN extras ELSE [extras EXCEPT !.read_precompile_calls = {}]

(***************************************************************************)
(* The handlers.  state is the block whose state the execution starts      *)
(* from, env the number the EVM sees, number the one the precompile data   *)
(* is taken for.                                                           *)
(***************************************************************************)
Kinds == {"call", "estimate", "simulate", "trace"}

Calling == call # None /\ call.step # "done"

Idle == request = None /\ call = None /\ send.step = "idle"

(* CallForwarderExt stands before eth_call and eth_estimateGas when        *)
(* --forward-call is given: at latest it asks upstream, for any other      *)
(* block it goes on as without it.                                         *)
is_forwarded(req) ==
    forward_call /\ req.kind \in {"call", "estimate"} /\ req.id = Latest

ReceiveCall(req) ==
    /\ Idle
    /\ call' = [kind |-> req.kind, id |-> req.id, override |-> req.override, read |-> req.read,
                estimate |-> req.estimate,
                step |-> IF is_forwarded(req) THEN "upstream" ELSE "resolve",
                at |-> Best, state |-> None,
                env |-> None, number |-> None, precompiles |-> None, answer |-> None]
    /\ UNCHANGED <<chain, layered, request, flags, send>>

KnownCall(id) == id = Pending \/ Known(id)
EnvOf(id) == IF id = Pending THEN Best + 1 ELSE Resolve(id)
StateOf(id) == IF id = Pending THEN Best ELSE Resolve(id)

Fail == call' = [call EXCEPT !.step = "done"]

(* Upstream answers the call, or it fails.                                 *)
CallUpstream ==
    /\ call.step = "upstream"
    /\ \/ call' = [call EXCEPT !.step = "done", !.answer = [kind |-> "upstream"]]
       \/ Fail

(* prepare_call_env remembers the number before the block overrides, when  *)
(* there is a forwarder.                                                   *)
rpc_state_block_number(env, override) ==
    IF forwarding \/ override = None THEN env ELSE override

ResolveCall ==
    /\ call.step = "resolve" /\ call.kind \in {"call", "estimate"}
    /\ IF ~KnownCall(call.id) THEN Fail
       ELSE LET env == EnvOf(call.id) IN
            call' = [call EXCEPT
                !.step = "head", !.state = StateOf(call.id),
                !.env = IF call.override = None THEN env ELSE call.override,
                !.number = rpc_state_block_number(env, call.override)]

(* simulate_v1 loads the base block, then takes the state at the id.       *)
ResolveSimulation ==
    /\ call.step = "resolve" /\ call.kind = "simulate"
    /\ IF ~KnownCall(call.id) THEN Fail
       ELSE LET n == Resolve(call.id) IN
            call' = [call EXCEPT !.step = "head", !.env = n + 1, !.number = n]

(* transact, transact_with_inspector, estimate_gas_with, simulate_v1:      *)
(* chain_info first, the body of the block after it.                       *)
ReadHead ==
    /\ call.step = "head"
    /\ call' = [call EXCEPT !.step = "extras", !.precompiles =
                   IF call.kind = "simulate" THEN hl_simulation_precompiles(call.number, Best)
                   ELSE hl_call_precompiles(call.number, Best)]

ReadExtras ==
    /\ call.step = "extras"
    /\ LET p == call.precompiles IN
       call' = [call EXCEPT
           !.step = IF call.kind = "simulate" THEN "state"
                    ELSE IF call.kind = "estimate" THEN "estimate" ELSE "done",
           !.answer = ReadPrecompile(ExtrasOf(p), p.forwarder, call.env, call.read),
           !.estimate = IF call.kind = "estimate" THEN StartEstimate(@) ELSE @]

TakeState ==
    /\ call.step = "state"
    /\ call' = [call EXCEPT !.step = "done", !.state = StateOf(call.id)]

Estimate ==
    /\ call.step = "estimate"
    /\ LET e == EstimateStep(call.estimate) IN
       call' = [call EXCEPT !.estimate = e, !.step = IF e.step = "done" THEN "done" ELSE @]

(* trace_block_until_with_inspector resolves the id for the environment    *)
(* and for the block, in either order; replay_transactions_until, which    *)
(* takes the block of a transaction, does so for a fixed block.  state is  *)
(* the block traced: its transactions run on its parent's state.           *)
ResolveTrace ==
    /\ call.step = "resolve" /\ call.kind = "trace"
    /\ IF ~KnownCall(call.id) THEN Fail
       ELSE LET n == Resolve(call.id) IN
            \/ call' = [call EXCEPT !.step = "tracing", !.env = n]
            \/ call' = [call EXCEPT !.step = "tracing", !.state = n]

Trace ==
    /\ call.step = "tracing"
    /\ LET n == Resolve(call.id)
           env == IF call.env = None THEN n ELSE call.env
           state == IF call.state = None THEN n ELSE call.state
       IN  call' = [call EXCEPT
              !.step = "done", !.env = env, !.state = state, !.number = env,
              !.answer = ReadPrecompile(get_hl_extras(env), None, env, call.read)]

HandleCall ==
    /\ Calling
    /\ CallUpstream \/ ResolveCall \/ ResolveSimulation \/ ReadHead \/ ReadExtras \/ TakeState
           \/ Estimate \/ ResolveTrace \/ Trace
    /\ UNCHANGED <<chain, layered, request, flags, send>>

ReplyCall ==
    /\ call # None /\ call.step = "done"
    /\ call' = None
    /\ UNCHANGED <<chain, layered, request, flags, send>>

ReceiveAnyCall == \E req \in CallRequests : ReceiveCall(req)

ReceiveAnySend == Idle /\ \E m \in SendMethods : ReceiveSend(m)

Init ==
    /\ ServerInit
    /\ \E c \in Configurations : forwarding = c[1] /\ forward_call = c[2]
    /\ call = None
    /\ send = NoSend

ServerStep ==
    /\ \/ Idle /\ ReceiveAny
       \/ Handle \/ Reply \/ NewBlock \/ RestartServers
       \/ call = None /\ ReplaceBlock
    /\ UNCHANGED <<flags, call, send>>

SendersStep ==
    /\ ReceiveAnySend \/ SendStep \/ UpstreamDecides \/ ReplySend
    /\ UNCHANGED <<chain, layered, request, flags, call>>

Next == ServerStep \/ ReceiveAnyCall \/ HandleCall \/ ReplyCall \/ SendersStep

Spec == Init /\ [][Next]_callVars

(* A handler that was started runs: the runtime polls it, requests to      *)
(* upstream end (the HTTP client gives up on them), and time passes.       *)
FairSpec ==
    /\ Spec
    /\ WF_callVars(HandleCall)
    /\ WF_callVars(Handle /\ UNCHANGED <<flags, call, send>>)
    /\ WF_callVars(SendStep /\ UNCHANGED <<chain, layered, request, flags, call>>)

(***************************************************************************)
(* Properties                                                              *)
(***************************************************************************)
CallDone(kinds) ==
    call # None /\ call.step = "done" /\ call.kind \in kinds /\ call.answer # None

(* "forwarding a historical call would answer it with today's values"      *)
(* (hl_call_precompiles): a read is only forwarded under the head whose    *)
(* state the call runs on, although head and state are looked up at        *)
(* different times and the call may override its block number.  A pending  *)
(* call and a simulation at latest may be overtaken by the head.           *)
ForwardedReadsMatchState ==
    CallDone(Kinds) /\ call.answer.kind = "forwarded" =>
        \/ call.answer.head = call.state
        \/ call.id = Pending /\ call.answer.head > call.state
        \/ call.kind = "simulate" /\ call.id = Latest /\ call.answer.head < call.state

(* A recorded result is only replayed on the state of the block that       *)
(* recorded it, and never in a simulated block, which has no body.  The    *)
(* exceptions are a block override without a forwarder, which takes the    *)
(* calls of the overridden number, and ids that name a new block when they *)
(* are resolved again.                                                     *)
RecordedReadsMatchState ==
    CallDone(Kinds) /\ call.answer.kind = "recorded" =>
        /\ call.kind # "simulate"
        /\ \/ call.read \in chain[call.state].read_precompile_calls
           \/ call.override # None /\ ~forwarding
           \/ call.id = Pending
           \/ call.id = Latest /\ call.kind = "trace"

(* "Historical blocks are unaffected: they replay from their recorded      *)
(* calls" (--forward-read-precompiles): below the head a call or an        *)
(* estimate reads what it would read at any later time and on a node that  *)
(* forwards nothing, and a trace reads what the block's execution read.    *)
HistoryIsReproducible ==
    /\ CallDone({"call", "estimate"}) /\ call.id \in 1..(call.at - 1)
            /\ (forwarding \/ call.override = None) =>
        call.answer = ReadPrecompile(get_hl_extras(call.id), None, call.env, call.read)
    /\ CallDone({"trace"}) /\ call.id # Latest =>
        call.answer = ReadPrecompile(get_hl_extras(call.id), None, call.id, call.read)

(* "Without this the range falls back to 0x800..=0x80d and everything      *)
(* above it is left uninstalled" (hl_call_precompiles): a pending call is  *)
(* answered by the forwarder on every address the head installs.           *)
PendingReadsUseHeadRange ==
    CallDone({"call", "estimate"}) /\ call.id = Pending
            /\ call.override = None /\ call.precompiles.forwarder = call.state
            /\ Warm(get_hl_extras(call.state), call.env, call.read[1]) =>
        call.answer.kind = "forwarded"

(* "a call against the head that reads HyperCore state nanoreth has never  *)
(* seen fails with out-of-gas" (--forward-read-precompiles, which is to    *)
(* prevent it): with a forwarder a call or an estimate at latest only runs *)
(* out of gas when a block has overtaken it, and with --forward-call never.*)
HeadReadsAreAnswered ==
    CallDone({"call", "estimate"}) /\ call.id = Latest /\ call.override = None
            /\ call.answer.kind = "out_of_gas" =>
        /\ ~forward_call
        /\ forwarding => Best > call.state

(* What a call reads belongs to the block it runs on, whichever way it is  *)
(* answered, and at the head it is answered.                               *)
ReadsMatchState ==
    /\ ForwardedReadsMatchState /\ RecordedReadsMatchState
    /\ PendingReadsUseHeadRange /\ HeadReadsAreAnswered

Estimated ==
    CallDone({"estimate"}) /\ call.answer.kind # "upstream" /\ call.estimate.result # 0

(* An estimate is a limit at which the transaction succeeds, whatever it   *)
(* does below it.                                                          *)
EstimateSuffices ==
    Estimated => Execute(call.estimate.req.tx, call.estimate.result).status = "success"

(* A limit that is smaller by more than the error ratio, and by more than  *)
(* one unit of gas, does not suffice.                                      *)
EstimateIsTight ==
    Estimated =>
        LET result == call.estimate.result
            need == call.estimate.req.tx.need
        IN  result - need <= 1 \/ (result - need) * 1000 < ErrorRatio * result

(* eth_estimateGas: the answer suffices, and is no larger than it must be. *)
EstimateIsRight == EstimateSuffices /\ EstimateIsTight

(* Every call and every transaction is answered: the binary search of an   *)
(* estimate ends, on a transaction that fails early at low limits too, and *)
(* eth_sendRawTransactionSync ends although upstream never includes the    *)
(* transaction or does not answer a poll.                                  *)
EveryCallEnds == (Calling ~> ~Calling) /\ (Sending ~> ~Sending)
=============================================================================
