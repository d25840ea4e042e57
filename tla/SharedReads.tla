------------------------------ MODULE SharedReads ------------------------------
(***************************************************************************)
(* What the read precompile forwarder promises, without InFlights, leaders *)
(* or condvars.  A read of a key the memo knows returns at once.  Any      *)
(* other read waits, and all workers that wait for a key get the answer of *)
(* the one question that was outstanding for it when they began to wait,   *)
(* whatever is asked, answered or forgotten before they collect it.        *)
(***************************************************************************)
EXTENDS Naturals

CONSTANTS Callers, Scopes, Inputs, Response, Failed, None

Key == Scopes \X Inputs

VARIABLES
  memo,     \* the response known for a key, or None
  asking,   \* the keys with a question outstanding
  rpc,      \* the scope of a worker's request, or None
  reading,  \* the input a worker waits for, or None
  heard,    \* the answer a waiting worker has yet to collect, or None
  seen      \* what the current request has read for each input

vars == <<memo, asking, rpc, reading, heard, seen>>

Init ==
  /\ memo = [k \in Key |-> None]
  /\ asking = {}
  /\ rpc = [c \in Callers |-> None]
  /\ reading = [c \in Callers |-> None]
  /\ heard = [c \in Callers |-> None]
  /\ seen = [c \in Callers |-> [i \in Inputs |-> None]]

Begin(c, s) ==
  /\ rpc[c] = None
  /\ rpc' = [rpc EXCEPT ![c] = s]
  /\ UNCHANGED <<memo, asking, reading, heard, seen>>

End(c) ==
  /\ rpc[c] # None /\ reading[c] = None
  /\ rpc' = [rpc EXCEPT ![c] = None]
  /\ seen' = [seen EXCEPT ![c] = [i \in Inputs |-> None]]
  /\ UNCHANGED <<memo, asking, reading, heard>>

\* A read of a known key.
Recall(c, i) ==
  /\ rpc[c] # None /\ reading[c] = None /\ memo[<<rpc[c], i>>] # None
  /\ seen' = [seen EXCEPT ![c][i] = memo[<<rpc[c], i>>]]
  /\ UNCHANGED <<memo, asking, rpc, reading, heard>>

\* A read of an unknown key: the question is asked unless it is outstanding.
Wait(c, i) ==
  /\ rpc[c] # None /\ reading[c] = None /\ memo[<<rpc[c], i>>] = None
  /\ reading' = [reading EXCEPT ![c] = i]
  /\ asking' = asking \union {<<rpc[c], i>>}
  /\ UNCHANGED <<memo, rpc, heard, seen>>

\* The question about k is answered: everyone who waits for it gets r, a response
\* is remembered, and others may be forgotten.
Answer(k, r) ==
  /\ k \in asking
  /\ asking' = asking \ {k}
  /\ heard' = [c \in Callers |-> IF <<rpc[c], reading[c]>> = k /\ heard[c] = None
                                 THEN r ELSE heard[c]]
  /\ IF r = Failed
     THEN memo' = memo
     ELSE /\ memo' \in [Key -> Response \union {None}]
          /\ memo'[k] = r
          /\ \A j \in Key \ {k} : memo'[j] \in {memo[j], None}
  /\ UNCHANGED <<rpc, reading, seen>>

\* A waiting worker collects its response, or its request dies of the failure.
Collect(c) ==
  /\ heard[c] # None
  /\ reading' = [reading EXCEPT ![c] = None]
  /\ heard' = [heard EXCEPT ![c] = None]
  /\ IF heard[c] = Failed
     THEN /\ rpc' = [rpc EXCEPT ![c] = None]
          /\ seen' = [seen EXCEPT ![c] = [i \in Inputs |-> None]]
     ELSE /\ rpc' = rpc
          /\ seen' = [seen EXCEPT ![c][reading[c]] = heard[c]]
  /\ UNCHANGED <<memo, asking>>

Next ==
  \/ \E c \in Callers : \/ \E s \in Scopes : Begin(c, s)
                        \/ End(c)
                        \/ \E i \in Inputs : Recall(c, i) \/ Wait(c, i)
                        \/ Collect(c)
  \/ \E k \in Key, r \in Response \union {Failed} : Answer(k, r)

Spec == Init /\ [][Next]_vars
================================================================================
