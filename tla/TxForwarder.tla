----------------------------- MODULE TxForwarder -----------------------------
(***************************************************************************)
(* The transaction forwarder (addons/tx_forwarder.rs): the node has no     *)
(* pool, so a transaction is sent to the upstream node.  The answer of     *)
(* eth_sendRawTransactionSync is the receipt, which the handler asks       *)
(* upstream for every INTERVAL until TIMEOUT_DURATION has passed.          *)
(*                                                                         *)
(* One transaction is under way at a time: handlers share nothing.  Time   *)
(* is counted in intervals.  Upstream is external: a request may be        *)
(* refused, its answer may be lost after it took effect, and a receipt may *)
(* be missing although the transaction is included, because the answer was *)
(* given before or by another machine.                                     *)
(***************************************************************************)
EXTENDS Integers

CONSTANT TimeoutDuration  \* TIMEOUT_DURATION, in intervals

ASSUME TimeoutAssumption == TimeoutDuration \in Nat \ {0}

VARIABLE
    send  \* the request: its method, its step, what upstream knows of the
          \* transaction, the intervals since the first poll, and the answer

SendMethods == {"sendRawTransaction", "sendTransaction", "sendRawTransactionSync"}

NoSend == [method |-> "none", step |-> "idle", upstream |-> "unknown", elapsed |-> 0,
           answer |-> "none"]

Sending == send.step \notin {"idle", "done"}

Finish(status, answer) ==
    send' = [send EXCEPT !.step = "done", !.upstream = status, !.answer = answer]

(* send_transaction is answered at once: the node holds no keys.           *)
ReceiveSend(method) ==
    /\ send.step = "idle"
    /\ send' = [send EXCEPT !.method = method,
                            !.step = IF method = "sendTransaction" THEN "done" ELSE "post",
                            !.answer = IF method = "sendTransaction" THEN "unimplemented" ELSE @]

(* Mutant: the sync handler polls for the hash although sending failed.    *)
PollWhateverPosted ==
    /\ send.step = "post"
    /\ \E status \in {"unknown", "pooled"} :
           IF send.method = "sendRawTransactionSync"
           THEN send' = [send EXCEPT !.step = "poll", !.upstream = status]
           ELSE Finish(status, IF status = "pooled" THEN "hash" ELSE "refused")

(* send_raw_transaction: upstream takes the transaction, refuses it, or    *)
(* cannot be reached; the ? of the sync handler passes an error on.        *)
send_raw_transaction ==
    /\ send.step = "post"
    /\ \/ IF send.method = "sendRawTransactionSync"
          THEN send' = [send EXCEPT !.step = "poll", !.upstream = "pooled"]
          ELSE Finish("pooled", "hash")
       \/ Finish("unknown", "refused")
       \/ \E status \in {"unknown", "pooled"} : Finish(status, "error")

(* The loop of send_raw_transaction_sync: one poll.                        *)
PollReceipt ==
    /\ send.step = "poll"
    /\ \/ send.upstream = "included" /\ Finish(send.upstream, "receipt")
       \/ send' = [send EXCEPT !.step = "sleep"]
       \/ Finish(send.upstream, "poll_error")

(* Mutant: the deadline is one of each poll and not of the loop.           *)
TickPerPoll ==
    /\ send.step \in {"poll", "sleep"}
    /\ send.elapsed < TimeoutDuration
    /\ send' = [send EXCEPT !.step = "poll",
                            !.elapsed = IF send.step = "sleep" THEN 0 ELSE @ + 1]

(* The sleep between two polls; a poll may itself take long.               *)
Tick ==
    /\ send.step \in {"poll", "sleep"}
    /\ send.elapsed < TimeoutDuration
    /\ send' = [send EXCEPT !.step = "poll", !.elapsed = @ + 1]

(* tokio::time::timeout drops the loop wherever it waits.                  *)
Expire ==
    /\ send.step \in {"poll", "sleep"}
    /\ send.elapsed = TimeoutDuration
    /\ Finish(send.upstream, "timeout")

SendStep == send_raw_transaction \/ PollReceipt \/ Tick \/ Expire

(* Upstream includes the transaction in a block, or drops it.              *)
UpstreamDecides ==
    /\ Sending /\ send.upstream = "pooled"
    /\ \E status \in {"included", "dropped"} : send' = [send EXCEPT !.upstream = status]

ReplySend == send.step = "done" /\ send' = NoSend

(***************************************************************************)
(* Properties                                                              *)
(***************************************************************************)
(* The answer of eth_sendRawTransaction and eth_sendRawTransactionSync     *)
(* tells what became of the transaction: a hash or a confirmation timeout  *)
(* is about a transaction that upstream did take, a refusal about one that *)
(* it does not have, a receipt about one that is in a block; and a timeout *)
(* is only reported after the whole of TIMEOUT_DURATION.                   *)
SendAnswersAreTrue ==
    send.step = "done" =>
        CASE send.answer = "receipt" -> send.upstream = "included"
          [] send.answer \in {"hash", "poll_error"} -> send.upstream # "unknown"
          [] send.answer = "timeout" ->
                send.upstream # "unknown" /\ send.elapsed = TimeoutDuration
          [] send.answer = "refused" -> send.upstream = "unknown"
          [] OTHER -> send.answer \in {"unimplemented", "error"}
=============================================================================
