------------------------------- MODULE NodeStartup -----------------------------
(***************************************************************************)
(* How the node comes up (src/src/node/network/mod.rs): the critical task  *)
(* "block import" waits for the engine and for a target hash, sends the    *)
(* initial forkchoice update and then becomes the import service; the      *)
(* critical task "pseudo peer" reads the latest block, sends its hash and  *)
(* then serves the network for ever.  The two meet in a oneshot channel.   *)
(* The block poller looks for the latest block once more when the node has *)
(* connected, and announces blocks from there on.                          *)
(***************************************************************************)
EXTENDS FileSource

CONSTANT MaxQueued    \* bound on the announcements queued for the service

ASSUME StartupAssumption == MaxQueued \in Nat

VARIABLES
  has_source,   \* a block source is configured
  built,        \* build_network has returned
  engine,       \* the engine handle: "unsent", "sent"
  peer,         \* where the pseudo peer task is
  poller,       \* where the block poller is
  trigger,      \* the oneshot channel: "open", "sent", "dropped"
  import,       \* where the block import task is
  target,       \* the engine was given a pipeline target
  queued,       \* announced blocks waiting in from_network
  taken         \* the import service has taken a block

tasks == <<has_source, built, engine, peer, poller, trigger, import, target, queued, taken>>
vars == <<tasks, files, search>>

Init ==
  /\ FilesInit
  /\ has_source \in BOOLEAN
  /\ built = FALSE /\ engine = "unsent"
  /\ peer = "not spawned" /\ poller = "suspended" /\ trigger = "open"
  /\ import = "await engine"
  /\ target = FALSE /\ queued = 0 /\ taken = FALSE

--------------------------------------------------------------------------------
BuildKeepingTrigger ==
  /\ ~ built /\ built' = TRUE
  /\ peer' = IF has_source THEN "creating store" ELSE peer
  /\ UNCHANGED <<has_source, engine, poller, trigger, import, target, queued, taken,
                 files, search>>

\* build_network: with a block source the pseudo peer task takes the sender,
\* without one the sender is dropped on return.
Build ==
  /\ ~ built /\ built' = TRUE
  /\ IF has_source THEN peer' = "creating store" /\ UNCHANGED trigger
                  ELSE trigger' = "dropped" /\ UNCHANGED peer
  /\ UNCHANGED <<has_source, engine, poller, import, target, queued, taken,
                 files, search>>

\* The launcher hands the engine to the block import task (external).
LaunchEngine ==
  /\ built /\ engine = "unsent"
  /\ engine' = "sent"
  /\ UNCHANGED <<has_source, built, peer, poller, trigger, import, target, queued, taken,
                 files, search>>

\* create_block_store, and the search for the latest block begins.
CreateStore ==
  /\ peer = "creating store"
  /\ peer' = "finding latest"
  /\ find_latest_block_number
  /\ UNCHANGED <<has_source, built, engine, poller, trigger, import, target, queued, taken,
                 files>>

SearchStep == Search /\ UNCHANGED tasks

\* Nothing was found: nothing is sent, and the sender stays alive in the task.
FindLatestFails ==
  /\ peer = "finding latest" /\ search.step = "found" /\ search.result = None
  /\ peer' = "serving" /\ search' = NoSearch
  /\ UNCHANGED <<has_source, built, engine, poller, trigger, import, target, queued, taken,
                 files>>

FindLatest ==
  /\ peer = "finding latest" /\ search.step = "found" /\ search.result # None
  /\ peer' = "reading latest"
  /\ UNCHANGED <<has_source, built, engine, poller, trigger, import, target, queued, taken,
                 files, search>>

ReadLatest ==
  /\ peer = "reading latest" /\ collect_block(search.result)
  /\ peer' = "serving" /\ search' = NoSearch
  /\ trigger' = "sent"
  /\ UNCHANGED <<has_source, built, engine, poller, import, target, queued, taken, files>>

\* get_by_number fails, which is only logged.
ReadLatestFails ==
  /\ peer = "reading latest"
  /\ ~ collect_block(search.result) \/ (bucket /\ RequestMayFail)
  /\ peer' = "serving" /\ search' = NoSearch
  /\ UNCHANGED <<has_source, built, engine, poller, trigger, import, target, queued, taken,
                 files>>

\* start_pseudo_peer sees a peer session and starts the poller, which looks for the
\* latest block.
StartPoller ==
  /\ peer = "serving" /\ poller = "suspended"
  /\ poller' = "finding latest"
  /\ find_latest_block_number
  /\ UNCHANGED <<has_source, built, engine, peer, trigger, import, target, queued, taken,
                 files>>

\* It ends when it finds none.
PollerFinds ==
  /\ poller = "finding latest" /\ search.step = "found"
  /\ poller' = IF search.result = None THEN "ended" ELSE "polling"
  /\ search' = NoSearch
  /\ UNCHANGED <<has_source, built, engine, peer, trigger, import, target, queued, taken,
                 files>>

\* The network hands announced blocks to the import service: the poller's, or
\* without a source those of other peers.
Announce ==
  /\ built /\ (has_source => poller = "polling")
  /\ queued < MaxQueued
  /\ queued' = queued + 1
  /\ UNCHANGED <<has_source, built, engine, peer, poller, trigger, import, target, taken,
                 files, search>>

--------------------------------------------------------------------------------
GetEngine ==
  /\ import = "await engine" /\ engine = "sent"
  /\ import' = "await trigger"
  /\ UNCHANGED <<has_source, built, engine, peer, poller, trigger, target, queued, taken,
                 files, search>>

SkipTrigger ==
  /\ import = "await trigger"
  /\ import' = "running"
  /\ UNCHANGED <<has_source, built, engine, peer, poller, trigger, target, queued, taken,
                 files, search>>

\* fcu_trigger_rx.await gives a hash: the forkchoice update is sent ...
GetTrigger ==
  /\ import = "await trigger" /\ trigger = "sent"
  /\ import' = "await update"
  /\ target' = TRUE
  /\ UNCHANGED <<has_source, built, engine, peer, poller, trigger, queued, taken,
                 files, search>>

\* ... and answered.
Updated ==
  /\ import = "await update"
  /\ import' = "running"
  /\ UNCHANGED <<has_source, built, engine, peer, poller, trigger, target, queued, taken,
                 files, search>>

\* fcu_trigger_rx.await gives an error: there is no target.
NoTrigger ==
  /\ import = "await trigger" /\ trigger = "dropped"
  /\ import' = "running"
  /\ UNCHANGED <<has_source, built, engine, peer, poller, trigger, target, queued, taken,
                 files, search>>

\* ImportService takes a block.
Take ==
  /\ import = "running" /\ queued > 0
  /\ queued' = queued - 1
  /\ taken' = TRUE
  /\ UNCHANGED <<has_source, built, engine, peer, poller, trigger, import, target,
                 files, search>>

--------------------------------------------------------------------------------
Startup ==
  \/ Build \/ LaunchEngine
  \/ CreateStore \/ FindLatest \/ FindLatestFails \/ ReadLatest \/ ReadLatestFails
  \/ StartPoller \/ PollerFinds \/ SearchStep
  \/ GetEngine \/ GetTrigger \/ Updated \/ NoTrigger

Next == Startup \/ Announce \/ Take \/ (WriteFiles /\ UNCHANGED tasks)

Spec == Init /\ [][Next]_vars

\* Every await that can finish does.
FairSpec == Spec /\ WF_vars(Startup)

--------------------------------------------------------------------------------
\* Type correctness.
TypeOK ==
  /\ FilesTypeOK
  /\ {has_source, built, target, taken} \subseteq BOOLEAN
  /\ engine \in {"unsent", "sent"} /\ trigger \in {"open", "sent", "dropped"}
  /\ peer \in {"not spawned", "creating store", "finding latest", "reading latest",
               "serving"}
  /\ poller \in {"suspended", "finding latest", "polling", "ended"}
  /\ import \in {"await engine", "await trigger", "await update", "running"}
  /\ queued \in 0..MaxQueued

\* With a block source, no announced block reaches the engine before the pipeline
\* has its target, so the engine cannot conclude that it is fully synced.
TargetBeforeBlocks == has_source /\ taken => target

\* Startup always ends with the import service running.
ServiceStarts == <>(import = "running")
================================================================================
