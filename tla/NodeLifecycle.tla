------------------------------ MODULE NodeLifecycle -----------------------------
(***************************************************************************)
(* A node from its start to its end, over and over: with                   *)
(* CHECK_DB_MIGRATION the database is migrated first (node/cli.rs), then   *)
(* the node is launched and its tasks start (NodeStartup); the process may *)
(* end at any time and keeps nothing but the disk.                         *)
(***************************************************************************)
EXTENDS NodeStartup

CONSTANTS Rows, Segments, Files, ConfigFile, Chunks, MaxCrashes

ASSUME LifecycleAssumption ==
  /\ {Rows, Segments, Chunks} \subseteq Nat \ {0} /\ MaxCrashes \in Nat
  /\ ConfigFile \in Files

VARIABLES
  check_migration,   \* CHECK_DB_MIGRATION is set
  enabled, mdbx, headers_rmp, static_files, tmp, segment, chunk, moved, step, torn,
  crashes

Disk == INSTANCE Migration

disk == <<enabled, mdbx, headers_rmp, static_files, tmp, segment, chunk, moved, step,
          torn, crashes>>

all == <<check_migration, disk, vars>>

LifecycleInit == check_migration \in BOOLEAN /\ Init /\ Disk!Init

\* Commands::Node migrates only when asked to; a migration that fails ends the
\* process.
MigrateFirst ==
  /\ check_migration /\ Disk!Migrate
  /\ UNCHANGED <<check_migration, vars>>

LaunchDirectly ==
  /\ ~ check_migration /\ step = "down"
  /\ step' = "done"
  /\ UNCHANGED <<check_migration, enabled, mdbx, headers_rmp, static_files, tmp, segment,
                 chunk, moved, torn, crashes, vars>>

\* The launched node comes up.  What is written to its source while it is down is as
\* if written just after.
Run(A) == step = "done" /\ A /\ UNCHANGED <<check_migration, disk>>

\* The process ends, with all that is in memory.
Restart ==
  /\ Disk!Crash
  /\ built' = FALSE /\ engine' = "unsent" /\ peer' = "not spawned" /\ trigger' = "open"
  /\ poller' = "suspended" /\ search' = NoSearch
  /\ import' = "await engine" /\ target' = FALSE /\ queued' = 0 /\ taken' = FALSE
  /\ UNCHANGED <<check_migration, has_source, files>>

LifecycleNext ==
  \/ MigrateFirst \/ LaunchDirectly
  \/ Run(Next)
  \/ Restart

LifecycleSpec == LifecycleInit /\ [][LifecycleNext]_all

\* The process runs; nothing makes it end.
FairLifecycleSpec ==
  LifecycleSpec /\ WF_all(MigrateFirst \/ LaunchDirectly \/ Run(Startup))

--------------------------------------------------------------------------------
\* Type correctness.
LifecycleTypeOK == TypeOK /\ Disk!TypeOK /\ check_migration \in BOOLEAN

\* Every file of headers is in place or complete in the temporary directory, as long
\* as the process never ended between the removal of a segment's first file and the
\* renaming of its last: no other end of the process loses a header.
OnlyTornMovesLoseHeaders ==
  ~ torn => \A s \in 1..Segments : \A f \in Files :
              static_files[s][f] # "missing" \/ tmp[s][f] = "new"

\* A node that was told to check its database only runs on headers of the new format,
\* however many attempts at the migration ended halfway before.
RunsOnMigratedHeaders ==
  check_migration /\ built /\ ~ torn =>
    /\ \A r \in 1..Rows : mdbx[r] = "new"
    /\ static_files = Disk!NoFiles("new")

\* In the end the import service runs and the poller has looked for blocks to announce,
\* unless the migration was refused, or the latest block could not be found or read and
\* its hash was never sent.
NodeComesUp ==
  <>[](\/ import = "running" /\ (has_source => poller \in {"polling", "ended"})
       \/ step = "refused"
       \/ has_source /\ peer = "serving" /\ trigger = "open")
================================================================================
