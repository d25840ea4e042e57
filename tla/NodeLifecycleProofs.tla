--------------------------- MODULE NodeLifecycleProofs --------------------------
(***************************************************************************)
(* Whatever the sizes and however often the process ends: what a migration *)
(* leaves on disk, what the node then runs on, that the import service     *)
(* takes no block before the pipeline has its target, and that the search  *)
(* for the latest block is right for every layout of the files, whatever   *)
(* is written meanwhile.                                                   *)
(***************************************************************************)
EXTENDS NodeLifecycle, FiniteSetTheorems, TLAPS

--------------------------------------------------------------------------------
\* The import task gets past the oneshot channel with a target, or without a source.
TargetInv ==
  /\ has_source /\ import = "running" => target
  /\ import = "await update" => target
  /\ has_source => trigger # "dropped"
  /\ taken => import = "running"

\* The old rows of MDBX are the first ones, the exported file has them all, and none is
\* left when the static files are looked at.
RowsInv ==
  /\ \A r, q \in 1..Rows : q <= r /\ mdbx[r] = "old" => mdbx[q] = "old"
  /\ step = "import" => \A r \in 1..Rows : mdbx[r] = "old" => r \in headers_rmp
  /\ step \in {"static files", "probe", "convert", "remove", "rename", "placeholder"} =>
       \A r \in 1..Rows : mdbx[r] = "new"

\* The segment that is converted is old, the one just moved is new.  In between, a file
\* that is not moved yet is old and there is a new one to take its place, and the only
\* file missing is the one between its removal and its renaming.
MoveInv ==
  /\ step = "convert" => moved = {} /\ \A f \in Files : static_files[segment][f] = "old"
  /\ step \in {"remove", "rename"} => \A f \in Files :
       /\ f \in moved => static_files[segment][f] # "old"
       /\ f \notin moved => static_files[segment][f] = "old" /\ tmp[segment][f] = "new"
       /\ static_files[segment][f] = "missing" => step = "rename" /\ tmp[segment][f] = "new"
  /\ step = "rename" => \A f, g \in Files :
       static_files[segment][f] = "missing" /\ static_files[segment][g] = "missing" => f = g
  /\ step = "placeholder" => \A f \in Files : static_files[segment][f] = "new"

\* Unless a move was torn, every other segment is whole, and those that were looked at
\* are new.
SegmentsInv ==
  /\ \A s \in 1..Segments : (s = segment /\ step \in {"remove", "rename"})
       \/ (\A f \in Files : static_files[s][f] = "old")
       \/ (\A f \in Files : static_files[s][f] = "new")
  /\ step \in {"probe", "convert", "remove", "rename", "placeholder"} =>
       \A s \in 1..Segments : s < segment => \A f \in Files : static_files[s][f] = "new"

\* A node that checks its database is launched on headers of the new format.
LaunchInv ==
  /\ built => step = "done"
  /\ check_migration /\ step = "done" /\ ~ torn =>
       /\ \A r \in 1..Rows : mdbx[r] = "new"
       /\ \A s \in 1..Segments, f \in Files : static_files[s][f] = "new"

DiskInv ==
  /\ Disk!TypeOK
  /\ step \in {"convert", "remove", "rename", "placeholder"} => segment \in 1..Segments
  /\ RowsInv /\ MoveInv
  /\ ~ torn => SegmentsInv

LifecycleInv == TargetInv /\ DiskInv /\ LaunchInv

--------------------------------------------------------------------------------
\* The task that waits for the target.

\* At the start it has not got past the channel.
LEMMA TargetInitially == Init => TargetInv
BY Zenon DEF Init, TargetInv

\* No step of the startup lets it pass without a target when there is a source.
LEMMA TargetKept ==
  ASSUME TargetInv, Next
  PROVE  TargetInv'
<1> USE DEF TargetInv
<1>1. CASE Build
  BY <1>1, Zenon DEF Build
<1>2. CASE CreateStore \/ FindLatest \/ FindLatestFails \/ ReadLatest \/ ReadLatestFails
  <2>1. /\ UNCHANGED <<has_source, import, target, taken>>
        /\ trigger' = trigger \/ trigger' = "sent"
    BY <1>2, Zenon DEF CreateStore, FindLatest, FindLatestFails, ReadLatest, ReadLatestFails
  <2> QED
    BY <2>1, Zenon
<1>3. CASE \/ LaunchEngine \/ StartPoller \/ PollerFinds \/ SearchStep \/ Announce
           \/ WriteFiles /\ UNCHANGED tasks
  <2>1. UNCHANGED <<has_source, import, target, taken, trigger>>
    BY <1>3, Zenon DEF LaunchEngine, StartPoller, PollerFinds, SearchStep, Announce, tasks
  <2> QED
    BY <2>1, Zenon
<1>4. CASE GetEngine
  BY <1>4, Zenon DEF GetEngine
<1>5. CASE GetTrigger
  BY <1>5, Zenon DEF GetTrigger
<1>6. CASE Updated
  BY <1>6, Zenon DEF Updated
<1>7. CASE NoTrigger
  BY <1>7, Zenon DEF NoTrigger
<1>8. CASE Take
  BY <1>8, Zenon DEF Take
<1> QED
  BY <1>1, <1>2, <1>3, <1>4, <1>5, <1>6, <1>7, <1>8, Zenon DEF Next, Startup

--------------------------------------------------------------------------------
\* The database.

\* The sizes are numbers, and there is at least one of each.
LEMMA Sizes ==
  Rows \in Nat /\ Rows > 0 /\ Segments \in Nat /\ Segments > 0 /\ Chunks \in Nat
  /\ ConfigFile \in Files
BY LifecycleAssumption

\* NoFiles is a map of the right type.
LEMMA NoFilesType ==
  ASSUME NEW S, NEW what \in S
  PROVE  Disk!NoFiles(what) \in [1..Segments -> [Files -> S]]
BY Zenon DEF Disk!NoFiles

\* Before the first migration the old rows come first and every segment is whole.
LEMMA DiskInitially == Disk!Init => DiskInv
<1> SUFFICES ASSUME Disk!Init PROVE DiskInv
  BY Zenon
<1>1. PICK old \in 0..Rows, format \in {"old", "new"} :
        /\ mdbx = [r \in 1..Rows |-> IF r <= old THEN "old" ELSE "new"]
        /\ static_files = Disk!NoFiles(format)
  BY Zenon DEF Disk!Init
<1>2. Disk!TypeOK
  <2>1. static_files \in [1..Segments -> [Files -> {"old", "new", "missing"}]]
    BY <1>1, NoFilesType, Zenon
  <2>2. tmp \in [1..Segments -> [Files -> {"missing", "partial", "new", "link"}]]
    BY NoFilesType, Zenon DEF Disk!Init
  <2>3. /\ enabled \in BOOLEAN /\ torn = FALSE /\ headers_rmp = {} /\ segment = 1
        /\ chunk = 0 /\ moved = {} /\ step = "down"
    BY Zenon DEF Disk!Init
  <2> QED
    <3>1. {enabled, torn} \subseteq BOOLEAN
      BY <2>3, Zenon
    <3>2. headers_rmp \subseteq 1..Rows /\ mdbx \in [1..Rows -> {"old", "new"}]
      BY <2>3, <1>1, Zenon
    <3>3. segment \in 1 .. Segments + 1 /\ chunk \in 0..Chunks /\ moved \subseteq Files
      BY <2>3, Sizes
    <3> QED
      BY <3>1, <3>2, <3>3, <2>1, <2>2, <2>3, Zenon DEF Disk!TypeOK
<1>3. RowsInv
  BY <1>1, Sizes DEF Disk!Init, RowsInv
<1>4. MoveInv /\ SegmentsInv
  BY <1>1, Zenon DEF Disk!Init, MoveInv, SegmentsInv, Disk!NoFiles
<1> QED
  BY <1>2, <1>3, <1>4, Zenon DEF DiskInv, Disk!Init

\* The decision to migrate changes nothing on disk.
LEMMA migrate_db_Kept == ASSUME DiskInv, Disk!migrate_db PROVE DiskInv'
<1> USE DEF DiskInv
<1>1. Disk!TypeOK'
  BY Sizes, Zenon DEF Disk!TypeOK, Disk!migrate_db
<1>2. (step \in {"convert", "remove", "rename", "placeholder"} => segment \in 1..Segments)'
  BY Sizes, Zenon DEF Disk!TypeOK, Disk!migrate_db
<1>3. RowsInv'
  BY Sizes, Zenon DEF Disk!TypeOK, Disk!migrate_db, RowsInv
<1>4. MoveInv'
  BY Sizes, Zenon DEF Disk!TypeOK, Disk!migrate_db, MoveInv
<1>5. ~ torn => SegmentsInv'
  BY Sizes, Zenon DEF Disk!TypeOK, Disk!migrate_db, SegmentsInv
<1> QED
  BY <1>1, <1>2, <1>3, <1>4, <1>5, Zenon DEF Disk!migrate_db

\* If neither the first nor the last row is old, none is.
LEMMA migrate_mdbx_Kept == ASSUME DiskInv, Disk!migrate_mdbx PROVE DiskInv'
<1> USE DEF DiskInv
<1>1. Disk!TypeOK'
  BY NoFilesType, ZenonT(30) DEF Disk!TypeOK, Disk!migrate_mdbx
<1>2. (step \in {"convert", "remove", "rename", "placeholder"} => segment \in 1..Segments)'
  BY Sizes, Zenon DEF Disk!TypeOK, Disk!migrate_mdbx
<1>3. RowsInv'
  <2>1. 1 \in 1..Rows /\ \A r \in 1..Rows : 1 <= r
    BY Sizes
  <2>2. ~ Disk!MdbxNeeded => \A r \in 1..Rows : mdbx[r] = "new"
    BY <2>1, Zenon DEF Disk!TypeOK, RowsInv, Disk!MdbxNeeded
  <2> QED
    BY <2>2, Zenon DEF Disk!migrate_mdbx, RowsInv
<1>4. MoveInv'
  BY Sizes, Zenon DEF Disk!TypeOK, Disk!migrate_mdbx, MoveInv, Disk!MdbxNeeded, Disk!NoFiles
<1>5. ~ torn => SegmentsInv'
  BY Sizes, ZenonT(30) DEF Disk!TypeOK, Disk!migrate_mdbx, SegmentsInv, Disk!MdbxNeeded, Disk!NoFiles
<1> QED
  BY <1>1, <1>2, <1>3, <1>4, <1>5, Zenon DEF Disk!migrate_mdbx

\* The exported file has every old row.
LEMMA export_old_headers_Kept == ASSUME DiskInv, Disk!export_old_headers PROVE DiskInv'
<1> USE DEF DiskInv
<1>1. Disk!TypeOK'
  BY Sizes, Zenon DEF Disk!TypeOK, Disk!export_old_headers
<1>2. (step \in {"convert", "remove", "rename", "placeholder"} => segment \in 1..Segments)'
  BY Sizes, Zenon DEF Disk!TypeOK, Disk!export_old_headers
<1>3. RowsInv'
  BY Sizes, Zenon DEF Disk!TypeOK, Disk!export_old_headers, RowsInv
<1>4. MoveInv'
  BY Sizes, Zenon DEF Disk!TypeOK, Disk!export_old_headers, MoveInv
<1>5. ~ torn => SegmentsInv'
  BY Sizes, Zenon DEF Disk!TypeOK, Disk!export_old_headers, SegmentsInv
<1> QED
  BY <1>1, <1>2, <1>3, <1>4, <1>5, Zenon DEF Disk!export_old_headers

\* The transaction leaves no old row.
LEMMA import_new_headers_Kept == ASSUME DiskInv, Disk!import_new_headers PROVE DiskInv'
<1> USE DEF DiskInv
<1>1. Disk!TypeOK'
  BY Sizes, Zenon DEF Disk!TypeOK, Disk!import_new_headers
<1>2. (step \in {"convert", "remove", "rename", "placeholder"} => segment \in 1..Segments)'
  BY Sizes, Zenon DEF Disk!TypeOK, Disk!import_new_headers
<1>3. RowsInv'
  BY Sizes, Zenon DEF Disk!TypeOK, Disk!import_new_headers, RowsInv
<1>4. MoveInv'
  BY Sizes, Zenon DEF Disk!TypeOK, Disk!import_new_headers, MoveInv
<1>5. ~ torn => SegmentsInv'
  BY Sizes, Zenon DEF Disk!TypeOK, Disk!import_new_headers, SegmentsInv
<1> QED
  BY <1>1, <1>2, <1>3, <1>4, <1>5, Zenon DEF Disk!import_new_headers

\* An empty temporary directory, and no segment looked at.
LEMMA migrate_static_files_Kept == ASSUME DiskInv, Disk!migrate_static_files PROVE DiskInv'
<1> USE DEF DiskInv
<1>1. Disk!TypeOK'
  <2>1. tmp' \in [1..Segments -> [Files -> {"missing", "partial", "new", "link"}]]
    BY NoFilesType, Zenon DEF Disk!migrate_static_files
  <2>2. /\ segment' = 1 /\ headers_rmp' = {} /\ step' = "probe"
        /\ UNCHANGED <<enabled, mdbx, static_files, chunk, moved, torn>>
    BY Zenon DEF Disk!migrate_static_files
  <2> QED
    <3>1. segment' \in 1 .. Segments + 1
      BY <2>2, Sizes
    <3> QED
      BY <3>1, <2>1, <2>2, Zenon DEF Disk!TypeOK
<1>2. (step \in {"convert", "remove", "rename", "placeholder"} => segment \in 1..Segments)'
  BY Sizes, Zenon DEF Disk!TypeOK, Disk!migrate_static_files
<1>3. RowsInv'
  BY Sizes, Zenon DEF Disk!TypeOK, Disk!migrate_static_files, RowsInv, Disk!NoFiles
<1>4. MoveInv'
  BY Sizes, Zenon DEF Disk!TypeOK, Disk!migrate_static_files, MoveInv, Disk!NoFiles
<1>5. ~ torn => SegmentsInv'
  <2>1. \A s \in 1..Segments : ~ s < segment'
    <3>1. segment' = 1
      BY Zenon DEF Disk!migrate_static_files
    <3> QED
      BY <3>1, Sizes
  <2> QED
    BY <2>1, Zenon DEF Disk!migrate_static_files, SegmentsInv
<1> QED
  BY <1>1, <1>2, <1>3, <1>4, <1>5, Zenon DEF Disk!migrate_static_files

\* A segment is passed over only if it is new, or missing after a torn move.
LEMMA SkipSegment_Kept == ASSUME DiskInv, Disk!SkipSegment PROVE DiskInv'
<1> USE DEF DiskInv
<1>1. Disk!TypeOK'
  <2>1. tmp' \in [1..Segments -> [Files -> {"missing", "partial", "new", "link"}]]
    BY Sizes, SMTT(20), SMTT(30) DEF Disk!TypeOK, Disk!SkipSegment, Disk!create_placeholder
  <2>2. segment' \in 1 .. Segments + 1
    BY Sizes DEF Disk!TypeOK, Disk!SkipSegment
  <2> QED
    BY <2>1, <2>2, Zenon DEF Disk!TypeOK, Disk!SkipSegment
<1>2. (step \in {"convert", "remove", "rename", "placeholder"} => segment \in 1..Segments)'
  BY Sizes, Zenon DEF Disk!TypeOK, Disk!SkipSegment
<1>3. RowsInv'
  BY Sizes, Zenon DEF Disk!TypeOK, Disk!SkipSegment, RowsInv, Disk!create_placeholder, Disk!using_old_header
<1>4. MoveInv'
  BY Sizes, Zenon DEF Disk!TypeOK, Disk!SkipSegment, MoveInv, Disk!create_placeholder, Disk!using_old_header
<1>5. ~ torn => SegmentsInv'
  BY Sizes DEF Disk!TypeOK, Disk!SkipSegment, SegmentsInv, Disk!create_placeholder, Disk!using_old_header
<1> QED
  BY <1>1, <1>2, <1>3, <1>4, <1>5, Zenon DEF Disk!SkipSegment

\* A segment to convert is old.
LEMMA ConvertSegment_Kept == ASSUME DiskInv, Disk!ConvertSegment PROVE DiskInv'
<1> USE DEF DiskInv
<1>1. Disk!TypeOK'
  BY Sizes DEF Disk!TypeOK, Disk!ConvertSegment, Disk!using_old_header
<1>2. (step \in {"convert", "remove", "rename", "placeholder"} => segment \in 1..Segments)'
  BY Sizes DEF Disk!TypeOK, Disk!ConvertSegment
<1>3. RowsInv'
  BY Sizes, Zenon DEF Disk!TypeOK, Disk!ConvertSegment, RowsInv, Disk!using_old_header
<1>4. MoveInv'
  <2>1. \A f \in Files : static_files[segment][f] = "old"
    BY Sizes, Zenon DEF Disk!ConvertSegment, Disk!Whole, Disk!using_old_header
  <2> QED
    BY <2>1, Zenon DEF Disk!ConvertSegment, MoveInv
<1>5. ~ torn => SegmentsInv'
  BY Zenon DEF Disk!ConvertSegment, SegmentsInv
<1> QED
  BY <1>1, <1>2, <1>3, <1>4, <1>5, Zenon DEF Disk!ConvertSegment

\* Giving up changes nothing on disk.
LEMMA UnreadableSegment_Kept == ASSUME DiskInv, Disk!UnreadableSegment PROVE DiskInv'
<1> USE DEF DiskInv
<1>1. Disk!TypeOK'
  BY Sizes, Zenon DEF Disk!TypeOK, Disk!UnreadableSegment
<1>2. (step \in {"convert", "remove", "rename", "placeholder"} => segment \in 1..Segments)'
  BY Sizes, Zenon DEF Disk!TypeOK, Disk!UnreadableSegment
<1>3. RowsInv'
  BY Sizes, Zenon DEF Disk!TypeOK, Disk!UnreadableSegment, RowsInv
<1>4. MoveInv'
  BY Sizes, Zenon DEF Disk!TypeOK, Disk!UnreadableSegment, MoveInv
<1>5. ~ torn => SegmentsInv'
  BY Sizes, Zenon DEF Disk!TypeOK, Disk!UnreadableSegment, SegmentsInv
<1> QED
  BY <1>1, <1>2, <1>3, <1>4, <1>5, Zenon DEF Disk!UnreadableSegment

\* The files are moved when the last chunk is converted.
LEMMA migrate_single_static_file_Kept == ASSUME DiskInv, Disk!migrate_single_static_file PROVE DiskInv'
<1> USE DEF DiskInv
<1>1. Disk!TypeOK'
  BY Sizes DEF Disk!TypeOK, Disk!migrate_single_static_file
<1>2. (step \in {"convert", "remove", "rename", "placeholder"} => segment \in 1..Segments)'
  BY Sizes, Zenon DEF Disk!TypeOK, Disk!migrate_single_static_file
<1>3. RowsInv'
  BY Sizes, Zenon DEF Disk!TypeOK, Disk!migrate_single_static_file, RowsInv
<1>4. MoveInv'
  BY Sizes, Zenon DEF Disk!TypeOK, Disk!migrate_single_static_file, MoveInv, SegmentsInv
<1>5. ~ torn => SegmentsInv'
  BY Sizes, Zenon DEF Disk!TypeOK, Disk!migrate_single_static_file, SegmentsInv
<1> QED
  BY <1>1, <1>2, <1>3, <1>4, <1>5, Zenon DEF Disk!migrate_single_static_file

\* The segment that was moved counts as looked at.
LEMMA Placeholder_Kept == ASSUME DiskInv, Disk!Placeholder PROVE DiskInv'
<1> USE DEF DiskInv
<1>1. Disk!TypeOK'
  BY Sizes DEF Disk!TypeOK, Disk!Placeholder, Disk!create_placeholder
<1>2. (step \in {"convert", "remove", "rename", "placeholder"} => segment \in 1..Segments)'
  BY Sizes, Zenon DEF Disk!TypeOK, Disk!Placeholder
<1>3. RowsInv'
  BY Sizes, Zenon DEF Disk!TypeOK, Disk!Placeholder, RowsInv, Disk!create_placeholder
<1>4. MoveInv'
  BY Sizes, Zenon DEF Disk!TypeOK, Disk!Placeholder, MoveInv, Disk!create_placeholder
<1>5. ~ torn => SegmentsInv'
  BY Sizes DEF Disk!TypeOK, Disk!Placeholder, SegmentsInv, MoveInv
<1> QED
  BY <1>1, <1>2, <1>3, <1>4, <1>5, Zenon DEF Disk!Placeholder

\* The end of the migration changes nothing on disk.
LEMMA Migrated_Kept == ASSUME DiskInv, Disk!Migrated PROVE DiskInv'
<1> USE DEF DiskInv
<1>1. Disk!TypeOK'
  BY Sizes, Zenon DEF Disk!TypeOK, Disk!Migrated
<1>2. (step \in {"convert", "remove", "rename", "placeholder"} => segment \in 1..Segments)'
  BY Sizes, Zenon DEF Disk!TypeOK, Disk!Migrated
<1>3. RowsInv'
  BY Sizes, Zenon DEF Disk!TypeOK, Disk!Migrated, RowsInv
<1>4. MoveInv'
  BY Sizes, Zenon DEF Disk!TypeOK, Disk!Migrated, MoveInv
<1>5. ~ torn => SegmentsInv'
  BY Sizes, Zenon DEF Disk!TypeOK, Disk!Migrated, SegmentsInv
<1> QED
  BY <1>1, <1>2, <1>3, <1>4, <1>5, Zenon DEF Disk!Migrated

\* The file removed has a complete one to take its place.
LEMMA RemoveOld_Kept ==
  ASSUME DiskInv, NEW g \in Files, Disk!RemoveOld(g)
  PROVE  DiskInv'
<1> USE DEF DiskInv
<1>1. segment \in 1..Segments /\ step = "remove" /\ step' = "rename"
  BY Zenon DEF Disk!RemoveOld
<1>2. \A s \in 1..Segments, f \in Files :
        static_files'[s][f] = IF s = segment /\ f = g THEN "missing" ELSE static_files[s][f]
  BY <1>1, Zenon DEF Disk!RemoveOld, Disk!TypeOK
<1>3. Disk!TypeOK'
  BY Zenon DEF Disk!TypeOK, Disk!RemoveOld
<1>4. RowsInv'
  BY Zenon DEF Disk!RemoveOld, RowsInv
<1>5. MoveInv'
  BY <1>1, <1>2 DEF Disk!RemoveOld, MoveInv
<1>6. ~ torn => SegmentsInv'
  BY <1>1, <1>2 DEF Disk!RemoveOld, SegmentsInv
<1> QED
  BY <1>1, <1>3, <1>4, <1>5, <1>6, Zenon DEF Disk!RemoveOld

\* The file renamed was the only one missing, and when all are moved all are new.
LEMMA RenameNew_Kept ==
  ASSUME DiskInv, NEW g \in Files, Disk!RenameNew(g)
  PROVE  DiskInv'
<1> USE DEF DiskInv
<1>1. segment \in 1..Segments /\ step = "rename" /\ step' \in {"remove", "placeholder"}
      /\ static_files[segment][g] = "missing" /\ tmp[segment][g] = "new" /\ g \in moved
  BY Zenon DEF Disk!RenameNew, MoveInv
<1>2. \A s \in 1..Segments, f \in Files :
        static_files'[s][f] = IF s = segment /\ f = g THEN "new" ELSE static_files[s][f]
  BY <1>1, Zenon DEF Disk!RenameNew, Disk!TypeOK
<1>3. \A f \in Files : f # g => tmp'[segment][f] = tmp[segment][f]
  BY <1>1, Zenon DEF Disk!RenameNew, Disk!TypeOK
<1>4. Disk!TypeOK'
  BY <1>1, Zenon DEF Disk!RenameNew, Disk!TypeOK
<1>5. RowsInv'
  BY Zenon DEF Disk!RenameNew, RowsInv
<1>6. MoveInv'
  BY <1>1, <1>2, <1>3 DEF Disk!RenameNew, MoveInv, Disk!TypeOK
<1>7. ~ torn => SegmentsInv'
  BY <1>1, <1>2, <1>6 DEF Disk!RenameNew, SegmentsInv, MoveInv
<1> QED
  BY <1>1, <1>4, <1>5, <1>6, <1>7, Zenon DEF Disk!RenameNew

\* An end of the process while no move is torn leaves whole segments.
LEMMA Crash_Kept ==
  ASSUME DiskInv, Disk!Crash
  PROVE  DiskInv'
<1> USE DEF DiskInv
<1>1. Disk!TypeOK'
  BY Zenon DEF Disk!TypeOK, Disk!Crash
<1>2. RowsInv'
  BY Zenon DEF Disk!Crash, RowsInv
<1>3. ~ torn' => ~ torn /\ step # "rename" /\ (step = "remove" => moved = {})
  BY Zenon DEF Disk!Crash
<1>4. MoveInv'
  BY Zenon DEF Disk!Crash, MoveInv
<1>5. ~ torn' => SegmentsInv'
  BY <1>3, Zenon DEF Disk!Crash, SegmentsInv, MoveInv
<1> QED
  BY <1>1, <1>2, <1>4, <1>5, Zenon DEF Disk!Crash

\* A step that leaves the disk alone keeps it in order.
LEMMA DiskUnchanged ==
  ASSUME DiskInv, UNCHANGED disk
  PROVE  DiskInv'
<1> USE DEF DiskInv, disk
<1>1. Disk!TypeOK'
  BY Zenon DEF Disk!TypeOK
<1>2. RowsInv'
  BY Zenon DEF RowsInv
<1>3. MoveInv'
  BY Zenon DEF MoveInv
<1>4. ~ torn => SegmentsInv'
  BY Zenon DEF SegmentsInv
<1> QED
  BY <1>1, <1>2, <1>3, <1>4, Zenon

\* Every step of the migration keeps the disk in order.
LEMMA Migrate_Kept ==
  ASSUME DiskInv, Disk!Migrate
  PROVE  DiskInv'
BY migrate_db_Kept, migrate_mdbx_Kept, export_old_headers_Kept, import_new_headers_Kept,
   migrate_static_files_Kept, SkipSegment_Kept, ConvertSegment_Kept, UnreadableSegment_Kept,
   migrate_single_static_file_Kept, Placeholder_Kept, Migrated_Kept, RemoveOld_Kept,
   RenameNew_Kept, ZenonT(30) DEF Disk!Migrate

--------------------------------------------------------------------------------
\* All together, with the node that is launched on the migrated database.

\* A migration that ends has looked at every row and every segment.
LEMMA LaunchAfterMigration ==
  ASSUME LifecycleInv, MigrateFirst
  PROVE  LaunchInv'
<1> USE DEF LifecycleInv
<1>1. step # "done" /\ UNCHANGED <<built, check_migration, torn>>
  BY Zenon DEF MigrateFirst, vars, tasks, Disk!Migrate, Disk!migrate_db, Disk!migrate_mdbx,
     Disk!export_old_headers, Disk!import_new_headers, Disk!migrate_static_files,
     Disk!SkipSegment, Disk!ConvertSegment, Disk!UnreadableSegment,
     Disk!migrate_single_static_file, Disk!Placeholder, Disk!Migrated, Disk!RemoveOld,
     Disk!RenameNew
<1>2. CASE Disk!migrate_db /\ step' = "done"
  <2>1. 1 \in 1..Segments /\ static_files[1][ConfigFile] = "missing"
    BY <1>2, Sizes, SMTT(30) DEF Disk!migrate_db
  <2>2. torn
    BY <1>2, <2>1, Sizes, Zenon DEF DiskInv, SegmentsInv, Disk!migrate_db
  <2> QED
    BY <1>1, <2>2, Zenon DEF LaunchInv
<1>3. CASE Disk!Migrated
  <2>1. /\ \A r \in 1..Rows : mdbx'[r] = "new"
        /\ ~ torn => \A s \in 1..Segments, f \in Files : static_files'[s][f] = "new"
    BY <1>3, Sizes DEF Disk!Migrated, DiskInv, RowsInv, SegmentsInv, Disk!TypeOK
  <2> QED
    BY <1>1, <2>1, Zenon DEF LaunchInv
<1>4. CASE step' # "done"
  BY <1>1, <1>4, ZenonT(30) DEF LaunchInv
<1>5. Disk!migrate_db \/ Disk!Migrated \/ step' # "done"
  BY Zenon DEF MigrateFirst, Disk!Migrate, Disk!migrate_mdbx, Disk!export_old_headers,
     Disk!import_new_headers, Disk!migrate_static_files, Disk!SkipSegment,
     Disk!ConvertSegment, Disk!UnreadableSegment, Disk!migrate_single_static_file,
     Disk!Placeholder, Disk!RemoveOld, Disk!RenameNew
<1> QED
  BY <1>2, <1>3, <1>4, <1>5, ZenonT(30)

\* Every step of the node's life keeps LifecycleInv.
LEMMA LifecycleKept ==
  ASSUME LifecycleInv, [LifecycleNext]_all
  PROVE  LifecycleInv'
<1> USE DEF LifecycleInv
<1>1. CASE MigrateFirst
  <2>1. DiskInv'
    BY <1>1, Migrate_Kept, Zenon DEF MigrateFirst
  <2>2. TargetInv'
    BY <1>1, Zenon DEF MigrateFirst, vars, tasks, TargetInv
  <2> QED
    BY <1>1, <2>1, <2>2, LaunchAfterMigration, Zenon
<1>2. CASE LaunchDirectly
  <2>1. DiskInv'
    <3>1. Disk!TypeOK'
      <4>1. /\ UNCHANGED <<enabled, torn, headers_rmp, mdbx, static_files, tmp>>
            /\ UNCHANGED <<segment, chunk, moved>> /\ step' = "done"
        BY <1>2, Zenon DEF LaunchDirectly
      <4> QED
        BY <4>1, Zenon DEF DiskInv, Disk!TypeOK
    <3>2. RowsInv' /\ MoveInv' /\ (~ torn => SegmentsInv')
      BY <1>2, Zenon DEF LaunchDirectly, DiskInv, RowsInv, MoveInv, SegmentsInv
    <3> QED
      BY <1>2, <3>1, <3>2, Zenon DEF LaunchDirectly, DiskInv
  <2>2. TargetInv'
    BY <1>2, Zenon DEF LaunchDirectly, vars, tasks, TargetInv
  <2>3. LaunchInv'
    BY <1>2, Zenon DEF LaunchDirectly, LaunchInv
  <2> QED
    BY <2>1, <2>2, <2>3, Zenon
<1>3. CASE Run(Next)
  <2>1. DiskInv'
    BY <1>3, DiskUnchanged, Zenon DEF Run
  <2>2. TargetInv'
    BY <1>3, TargetKept, Zenon DEF Run
  <2>3. LaunchInv'
    BY <1>3, Zenon DEF Run, disk, LaunchInv
  <2> QED
    BY <2>1, <2>2, <2>3, Zenon
<1>4. CASE Restart
  <2>1. DiskInv'
    BY <1>4, Crash_Kept, Zenon DEF Restart
  <2>2. TargetInv'
    BY <1>4, Zenon DEF Restart, TargetInv
  <2>3. LaunchInv'
    BY <1>4, Zenon DEF Restart, Disk!Crash, LaunchInv
  <2> QED
    BY <2>1, <2>2, <2>3, Zenon
<1>5. CASE UNCHANGED all
  <2>1. DiskInv'
    BY <1>5, DiskUnchanged, Zenon DEF all
  <2>2. TargetInv' /\ LaunchInv'
    BY <1>5, Zenon DEF all, disk, vars, tasks, TargetInv, LaunchInv
  <2> QED
    BY <2>1, <2>2, Zenon
<1> QED
  BY <1>1, <1>2, <1>3, <1>4, <1>5, Zenon DEF LifecycleNext

\* LifecycleInv holds in every state of a node, over all its restarts.
THEOREM LifecycleInvariant == LifecycleSpec => []LifecycleInv
<1>1. LifecycleInit => LifecycleInv
  BY TargetInitially, DiskInitially, Zenon DEF LifecycleInit, LifecycleInv, LaunchInv, Init, Disk!Init
<1>2. LifecycleInv /\ [LifecycleNext]_all => LifecycleInv'
  BY LifecycleKept, Zenon
<1> QED
  BY <1>1, <1>2, PTL DEF LifecycleSpec

\* With a block source the import service takes no block before the pipeline has its
\* target, whatever fails and however often the node is restarted.
THEOREM TargetAlwaysFirst == LifecycleSpec => []TargetBeforeBlocks
<1>1. LifecycleInv => TargetBeforeBlocks
  BY Zenon DEF LifecycleInv, TargetInv, TargetBeforeBlocks
<1> QED
  BY <1>1, LifecycleInvariant, PTL

\* For any number of segments, files, chunks and restarts: no header is lost unless the
\* process ended while the files of a segment were moved.
THEOREM HeadersSurvive == LifecycleSpec => []OnlyTornMovesLoseHeaders
<1>1. LifecycleInv => OnlyTornMovesLoseHeaders
  BY Zenon DEF LifecycleInv, DiskInv, SegmentsInv, MoveInv, OnlyTornMovesLoseHeaders
<1> QED
  BY <1>1, LifecycleInvariant, PTL

\* And a node that was told to check its database runs on migrated headers only.
THEOREM NodeRunsOnMigratedHeaders == LifecycleSpec => []RunsOnMigratedHeaders
<1>1. ASSUME LifecycleInv PROVE RunsOnMigratedHeaders
  <2>1. (\A s \in 1..Segments, f \in Files : static_files[s][f] = "new")
          => static_files = Disk!NoFiles("new")
    <3>1. static_files \in [1..Segments -> [Files -> {"old", "new", "missing"}]]
      BY <1>1, Zenon DEF LifecycleInv, DiskInv, Disk!TypeOK
    <3> QED
      BY <3>1, Zenon DEF Disk!NoFiles
  <2> QED
    BY <1>1, <2>1, Zenon DEF LifecycleInv, LaunchInv, RunsOnMigratedHeaders
<1> QED
  BY <1>1, LifecycleInvariant, PTL

--------------------------------------------------------------------------------
\* Arithmetic of the names of directories.

\* The directory of d blocks that block h is in, by the number in its name.
Name(h, d) == ((h - 1) \div d) * d

\* The layout uses that arithmetic on both levels, and so does rmp_path.
LEMMA PathsAreNames ==
  ASSUME NEW h
  PROVE  /\ PathOf(h)[1] = Name(h, DirBlocks) /\ PathOf(h)[2] = Name(h, SubdirBlocks)
         /\ rmp_path(h) = PathOf(h)
BY Zenon DEF PathOf, Name, rmp_path

\* Division and its remainder.
LEMMA DivMod ==
  ASSUME NEW a \in Nat, NEW d \in Nat, d > 0
  PROVE  /\ a \div d \in Nat /\ (a \div d) * d <= a /\ a < (a \div d) * d + d
         /\ a = (a \div d) * d + (a % d)
<1>1. a \div d \in Nat /\ (a \div d) * d <= a /\ a < (a \div d) * d + d
  OBVIOUS
<1>2. a = d * (a \div d) + (a % d)
  BY SMTT(20)
<1>3. d * (a \div d) = (a \div d) * d
  BY <1>1
<1> QED
  BY <1>1, <1>2, <1>3, Zenon

\* Multiples leave no remainder.
LEMMA Multiples ==
  ASSUME NEW k \in Nat, NEW d \in Nat, d > 0
  PROVE  (k * d) % d = 0
OBVIOUS

\* Multiplication is associative.
LEMMA TimesTimes ==
  ASSUME NEW k \in Nat, NEW d \in Nat, NEW e \in Nat
  PROVE  k * (d * e) = (k * d) * e /\ k * d \in Nat
OBVIOUS

\* The sizes of directories are positive, and the larger is a multiple of the smaller.
LEMMA Layout ==
  /\ SubdirBlocks \in Nat /\ SubdirBlocks > 0 /\ DirBlocks \in Nat /\ DirBlocks > 0
  /\ PageSize \in Nat /\ PageSize > 0 /\ SubdirBlocks <= PageSize
  /\ MaxBlock \in Nat /\ MaxBlock <= DirBlocks * PageSize
  /\ \E fan \in Nat : fan > 0 /\ fan <= PageSize /\ DirBlocks = fan * SubdirBlocks
<1>1. SubdirBlocks \in Nat /\ SubdirBlocks > 0 /\ PageSize \in Nat /\ PageSize > 0
  BY FileAssumption
<1>2. PICK fan \in 1..PageSize : DirBlocks = fan * SubdirBlocks
  BY FileAssumption, Zenon
<1>3. DirBlocks \in Nat /\ DirBlocks > 0
  BY <1>1, <1>2
<1>4. MaxBlock \in Nat /\ MaxBlock <= DirBlocks * PageSize
  BY <1>1, <1>3, FileAssumption
<1>5. fan \in Nat /\ fan > 0 /\ fan <= PageSize
  BY <1>1, <1>2
<1> QED
  BY <1>1, <1>2, <1>3, <1>4, <1>5, FileAssumption, Zenon

\* A block is in the d blocks after the number in its directory's name.
LEMMA NameBounds ==
  ASSUME NEW d \in Nat, d > 0, NEW h \in Nat, h > 0
  PROVE  /\ Name(h, d) \in Nat /\ (h - 1) \div d \in Nat
         /\ Name(h, d) < h /\ h <= Name(h, d) + d
BY DEF Name

\* Multiplication keeps the order, both ways.
LEMMA TimesKeepsOrder ==
  ASSUME NEW p \in Nat, NEW q \in Nat, NEW d \in Nat, d > 0
  PROVE  /\ p <= q => p * d <= q * d
         /\ p * d < q * d => p < q
         /\ (p + 1) * d = p * d + d
OBVIOUS

\* A directory has all blocks between its bounds.
LEMMA NameIsUnique ==
  ASSUME NEW d \in Nat, d > 0, NEW h \in Nat, h > 0,
         NEW q \in Nat, q * d < h, h <= q * d + d
  PROVE  Name(h, d) = q * d /\ (h - 1) \div d = q
<1> DEFINE p == (h - 1) \div d
<1>1. p \in Nat /\ p * d < h /\ h <= p * d + d
  BY NameBounds, Zenon DEF Name
<1> HIDE DEF p
<1>2. p < q + 1
  BY <1>1, TimesKeepsOrder
<1>3. q < p + 1
  BY <1>1, TimesKeepsOrder
<1>4. p = q
  BY <1>1, <1>2, <1>3
<1> QED
  BY <1>4, Zenon DEF p, Name

\* Later blocks are in later directories.
LEMMA NamesKeepOrder ==
  ASSUME NEW d \in Nat, d > 0, NEW g \in Nat, NEW h \in Nat, g > 0, g <= h
  PROVE  Name(g, d) <= Name(h, d)
<1> DEFINE p == (g - 1) \div d
           q == (h - 1) \div d
<1>1. p \in Nat /\ p * d < g
  BY NameBounds, Zenon DEF Name
<1>2. q \in Nat /\ h <= q * d + d
  BY NameBounds DEF Name
<1> HIDE DEF p, q
<1>3. p < q + 1
  BY <1>1, <1>2, TimesKeepsOrder
<1>4. p * d <= q * d
  BY <1>1, <1>2, <1>3, TimesKeepsOrder
<1> QED
  BY <1>4, Zenon DEF p, q, Name

\* Two neighbours in different directories have a full directory between them.
LEMMA NewDirectory ==
  ASSUME NEW d \in Nat, d > 0, NEW w \in Nat, w = 0 \/ Name(w, d) # Name(w + 1, d)
  PROVE  w % d = 0
<1>1. CASE w = 0
  BY <1>1
<1>2. CASE w > 0
  <2> DEFINE q == w \div d
  <2>1. q \in Nat /\ q * d <= w /\ w < q * d + d
    BY DivMod, Zenon
  <2>4. w + 1 - 1 = w
    OBVIOUS
  <2>5. Name(w + 1, d) = q * d
    BY <2>4 DEF Name
  <2> HIDE DEF q
  <2>2. CASE q * d < w
    BY <1>2, <2>1, <2>2, <2>5, NameIsUnique
  <2>3. CASE q * d = w
    BY <2>1, <2>3, Multiples, Zenon
  <2> QED
    BY <2>1, <2>2, <2>3
<1> QED
  BY <1>1, <1>2

\* A multiple of the larger directory size is one of the smaller.
LEMMA FullDirectory ==
  ASSUME NEW w \in Nat, w % DirBlocks = 0
  PROVE  w % SubdirBlocks = 0
<1>1. PICK fan \in Nat : fan > 0 /\ DirBlocks = fan * SubdirBlocks
  BY Layout, Zenon
<1> DEFINE q == w \div DirBlocks
<1>2. q \in Nat /\ w = q * DirBlocks + 0
  <2>1. DirBlocks \in Nat /\ DirBlocks > 0
    BY Layout, Zenon
  <2> QED
    BY <2>1, DivMod, Zenon
<1> HIDE DEF q
<1>3. w = q * DirBlocks
  <2>1. DirBlocks \in Nat
    BY Layout, Zenon
  <2> QED
    BY <1>2, <2>1
<1>4. w = (q * fan) * SubdirBlocks /\ q * fan \in Nat
  BY <1>1, <1>2, <1>3, TimesTimes, Layout
<1> QED
  BY <1>4, Multiples, Layout, Zenon

\* The last of the blocks 1..t that are in the directory of block g.
LEMMA LastInDirectory ==
  ASSUME NEW d \in Nat, d > 0, NEW t \in Nat, NEW g \in 1..t
  PROVE  \E l \in 1..t : /\ Name(l, d) = Name(g, d)
                        /\ \A h \in 1..t : Name(h, d) = Name(g, d) => h <= l
<1> DEFINE q == (g - 1) \div d
           l == IF t <= q * d + d THEN t ELSE q * d + d
<1>1. q \in Nat /\ q * d \in Nat /\ q * d < g /\ g <= q * d + d /\ Name(g, d) = q * d
  BY NameBounds DEF Name
<1> HIDE DEF q
<1>2. l \in 1..t /\ q * d < l /\ l <= q * d + d
  BY <1>1
<1>3. Name(l, d) = q * d
  BY <1>1, <1>2, NameIsUnique
<1>4. ASSUME NEW h \in 1..t, Name(h, d) = q * d PROVE h <= l
  <2>1. h <= q * d + d
    BY <1>4, NameBounds
  <2> QED
    BY <2>1, <1>1
<1> QED
  BY <1>1, <1>2, <1>3, <1>4, Zenon

--------------------------------------------------------------------------------
\* What one listing gives.

\* Names that fit on one page are all on it.
LEMMA PageHoldsAll ==
  ASSUME NEW n \in Nat, n <= PageSize, NEW f \in [1..n -> Int], NEW N \in SUBSET Int,
         \A m \in N : \E k \in 1..n : m = f[k]
  PROVE  listing(N) = N
<1>1. IsFiniteSet(N) /\ Cardinality(N) \in Nat /\ Cardinality(N) <= n
  <2> DEFINE T == {f[k] : k \in 1..n}
  <2>1. IsFiniteSet(1..n) /\ Cardinality(1..n) = n
    BY FS_Interval
  <2>2. f \in Surjection(1..n, T)
    BY Zenon DEF Surjection
  <2>3. IsFiniteSet(T) /\ Cardinality(T) <= n
    <3> HIDE DEF T
    <3> QED BY <2>1, <2>2, FS_Surjection
  <2>4. N \subseteq T
    BY Zenon
  <2> HIDE DEF T
  <2>5. IsFiniteSet(N) /\ Cardinality(N) <= Cardinality(T)
    BY <2>3, <2>4, FS_Subset, Zenon
  <2>6. Cardinality(N) \in Nat /\ Cardinality(T) \in Nat
    BY <2>3, <2>5, FS_CardinalityType, Zenon
  <2> QED
    BY <2>3, <2>5, <2>6
<1>2. ASSUME NEW j \in N PROVE Cardinality({m \in N : NameBefore(m, j)}) < PageSize
  <2> DEFINE B == {m \in N : NameBefore(m, j)}
  <2>1. ~ NameBefore(j, j)
    <3>1. Radix \in Nat
      BY FileAssumption, Zenon
    <3>2. Padded(j) \in Int
      BY <3>1 DEF Padded
    <3> QED
      BY <3>2 DEF NameBefore
  <2>2. B \subseteq N \ {j}
    BY <2>1, Zenon
  <2>3. IsFiniteSet(N \ {j}) /\ Cardinality(N \ {j}) = Cardinality(N) - 1
    BY <1>1, FS_RemoveElement, Zenon
  <2> HIDE DEF B
  <2>4. IsFiniteSet(B) /\ Cardinality(B) <= Cardinality(N \ {j})
    BY <2>2, <2>3, FS_Subset, Zenon
  <2>5. Cardinality(B) \in Nat
    BY <2>4, FS_CardinalityType, Zenon
  <2>6. Cardinality(B) < PageSize
    BY <1>1, <2>3, <2>4, <2>5, Layout
  <2> QED
    BY <2>6, Zenon DEF B
<1> QED
  BY <1>2, Zenon DEF listing

\* The name with the largest number is the largest one.
LEMMA LargestName ==
  ASSUME NEW N \in SUBSET Int, NEW n \in N, \A m \in N : m <= n
  PROVE  name_with_largest_number(N) = n
<1>1. \A k \in N : (\A m \in N : m <= k) => k = n
  OBVIOUS
<1>2. (CHOOSE k \in N : \A m \in N : m <= k) = n
  BY <1>1, Zenon
<1> QED
  BY <1>2, Zenon DEF name_with_largest_number

--------------------------------------------------------------------------------
\* The three listings, while the next block is being written.

\* The last block whose path exists at least to the given level.
Top(level) == IF next_path >= level THEN written + 1 ELSE written

\* The blocks begun are those up to Top.
LEMMA BegunToTop ==
  ASSUME FilesTypeOK, NEW level \in 1..3
  PROVE  /\ Top(level) \in Nat /\ Top(level) <= MaxBlock /\ Begun(level) = 1..Top(level)
         /\ Top(level) = written \/ (~ bucket /\ Top(level) = written + 1)
         /\ written \in Nat
<1>1. written \in Nat /\ written <= MaxBlock /\ next_path \in 0..3 /\ MaxBlock \in Nat
  BY Layout DEF FilesTypeOK
<1>2. (written = MaxBlock \/ bucket) => next_path = 0
  BY Zenon DEF FilesTypeOK
<1>3. CASE next_path >= level
  <2>1. Top(level) = written + 1 /\ next_path # 0
    BY <1>1, <1>3 DEF Top
  <2>2. Begun(level) = 1 .. written \union {written + 1}
    BY <1>3, Zenon DEF Begun
  <2>3. 1 .. written \union {written + 1} = 1 .. written + 1
    BY <1>1
  <2> QED
    BY <1>1, <1>2, <2>1, <2>2, <2>3
<1>4. CASE ~ next_path >= level
  BY <1>1, <1>4, Zenon DEF Top, Begun
<1> QED
  BY <1>3, <1>4, Zenon

\* A directory that was listed has a block as new as the one found, or as the last
\* complete one, also on the next level; or it is new, and empty.
LEMMA LastBegun ==
  ASSUME FilesTypeOK, NEW level \in 1..3, NEW below \in 1..3,
         NEW d \in Nat, d > 0, NEW g \in 1..Top(level)
  PROVE  \/ ~ bucket /\ written % d = 0 /\ \A h \in 1..Top(below) : Name(h, d) # Name(g, d)
         \/ \E l \in 1..Top(below) :
              /\ Name(l, d) = Name(g, d) /\ (l >= g \/ l >= written)
              /\ \A h \in 1..Top(below) : Name(h, d) = Name(g, d) => h <= l
<1> DEFINE t == Top(below)
<1>1. /\ t \in Nat /\ written \in Nat /\ (t = written \/ t = written + 1)
      /\ Top(level) \in Nat /\ (Top(level) = written \/ (~ bucket /\ Top(level) = written + 1))
  BY BegunToTop, Zenon
<1> HIDE DEF t
<1>2. ASSUME NEW k \in 1..t, Name(k, d) = Name(g, d)
      PROVE  \E l \in 1..t : /\ Name(l, d) = Name(g, d)
                            /\ \A h \in 1..t : Name(h, d) = Name(g, d) => h <= l
  <2>1. \E l \in 1..t : /\ Name(l, d) = Name(k, d)
                       /\ \A h \in 1..t : Name(h, d) = Name(k, d) => h <= l
    BY <1>1, LastInDirectory, Zenon
  <2> QED
    BY <1>2, <2>1, Zenon
<1>3. CASE g \in 1..t
  <2>1. PICK l \in 1..t : Name(l, d) = Name(g, d)
                          /\ \A h \in 1..t : Name(h, d) = Name(g, d) => h <= l
    BY <1>2, <1>3, Zenon
  <2>2. l >= g
    BY <1>3, <2>1, Zenon
  <2> QED
    BY <2>1, <2>2, Zenon DEF t
<1>4. CASE g \notin 1..t
  <2>1. g = written + 1 /\ t = written /\ ~ bucket
    BY <1>1, <1>4
  <2>2. CASE \A h \in 1..t : Name(h, d) # Name(g, d)
    <3>1. written = 0 \/ Name(written, d) # Name(written + 1, d)
      BY <1>1, <2>1, <2>2
    <3>2. written % d = 0
      BY <1>1, <3>1, NewDirectory, Zenon
    <3> QED
      BY <2>1, <2>2, <3>2, Zenon DEF t
  <2>3. ASSUME NEW k \in 1..t, Name(k, d) = Name(g, d)
        PROVE  \E l \in 1..t : /\ Name(l, d) = Name(g, d) /\ l >= written
                              /\ \A h \in 1..t : Name(h, d) = Name(g, d) => h <= l
    <3>1. PICK l \in 1..t : Name(l, d) = Name(g, d)
                            /\ \A h \in 1..t : Name(h, d) = Name(g, d) => h <= l
      BY <1>2, <2>3, Zenon
    <3>2. written > 0 /\ g \in Nat /\ g > 0 /\ k \in Nat /\ k > 0 /\ k <= written
      BY <1>1, <2>1
    <3>3. Name(k, d) <= Name(written, d) /\ Name(written, d) <= Name(g, d)
      BY <1>1, <2>1, <3>2, NamesKeepOrder
    <3>4. Name(written, d) \in Nat /\ Name(g, d) \in Nat
      BY <1>1, <3>2, NameBounds, Zenon
    <3>5. Name(written, d) = Name(g, d) /\ written \in 1..t
      BY <1>1, <2>1, <2>3, <3>2, <3>3, <3>4
    <3> QED
      BY <3>1, <3>5, Zenon
  <2> QED
    BY <2>2, <2>3, Zenon DEF t
<1> QED
  BY <1>3, <1>4, Zenon

\* The first listing finds the directory of the last block begun.
LEMMA FirstListing ==
  ASSUME FilesTypeOK
  PROVE  name_with_largest_number(listing({PathOf(h)[1] : h \in Begun(1)})) =
           IF Top(1) = 0 THEN None ELSE Name(Top(1), DirBlocks)
<1> DEFINE N == {Name(h, DirBlocks) : h \in 1..Top(1)}
           D == DirBlocks
<1>1. {PathOf(h)[1] : h \in Begun(1)} = N
  BY BegunToTop, PathsAreNames
<1>2. Top(1) \in Nat /\ Top(1) <= DirBlocks * PageSize
  BY BegunToTop, Layout
<1>3. listing(N) = N
  <2> DEFINE f == [k \in 1..PageSize |-> (k - 1) * DirBlocks]
  <2>1. f \in [1..PageSize -> Int] /\ PageSize \in Nat
    BY Layout
  <2>2. ASSUME NEW h \in 1..Top(1)
        PROVE  Name(h, DirBlocks) \in Nat /\ \E k \in 1..PageSize : Name(h, DirBlocks) = f[k]
    <3> DEFINE q == (h - 1) \div DirBlocks
    <3>1. q \in Nat /\ Name(h, DirBlocks) = q * DirBlocks /\ q * DirBlocks < h
          /\ Name(h, DirBlocks) \in Nat
      BY <1>2, NameBounds, Layout DEF Name
    <3> HIDE DEF q
    <3>2. q * DirBlocks < PageSize * DirBlocks
      BY <1>2, <3>1, Layout
    <3>3. q < PageSize
      BY <3>1, <3>2, TimesKeepsOrder, Layout, Zenon
    <3>4. q + 1 \in 1..PageSize /\ f[q + 1] = q * DirBlocks
      BY <3>1, <3>3, Layout
    <3> QED
      BY <3>1, <3>4, Zenon
  <2> HIDE DEF f
  <2>3. N \in SUBSET Int
    BY <2>2
  <2> QED
    BY <2>1, <2>2, <2>3, PageHoldsAll, SMTT(30)
<1>4. CASE Top(1) = 0
  <2>1. N = {}
    BY <1>2, <1>4
  <2> QED
    BY <1>1, <1>3, <1>4, <2>1, Zenon DEF name_with_largest_number
<1>5. CASE Top(1) # 0
  <2>1. Top(1) \in 1..Top(1) /\ Name(Top(1), DirBlocks) \in N
    BY <1>2, <1>5
  <2>2. ASSUME NEW h \in 1..Top(1)
        PROVE  Name(h, DirBlocks) \in Nat /\ Name(h, DirBlocks) <= Name(Top(1), DirBlocks)
    <3>1. h \in Nat /\ h > 0 /\ h <= Top(1) /\ DirBlocks \in Nat /\ DirBlocks > 0
      BY <1>2, Layout
    <3> QED
      BY <1>2, <3>1, NamesKeepOrder, NameBounds, Zenon
  <2>3. N \in SUBSET Int /\ \A m \in N : m <= Name(Top(1), DirBlocks)
    BY <2>2
  <2>4. name_with_largest_number(N) = Name(Top(1), DirBlocks)
    BY <2>1, <2>3, LargestName, Zenon
  <2> QED
    BY <1>1, <1>3, <1>5, <2>4, Zenon
<1> QED
  BY <1>4, <1>5, Zenon

\* The second listing finds a directory with a block as new as the one it looked at, or
\* as the last complete one; or the directory it looked at is new, and empty.
LEMMA SecondListing ==
  ASSUME FilesTypeOK, NEW g \in Begun(1)
  PROVE  LET n == name_with_largest_number(listing(
                    {PathOf(h)[2] : h \in {k \in Begun(2) : PathOf(k)[1] = PathOf(g)[1]}}))
         IN  \/ n = None /\ ~ bucket /\ written % SubdirBlocks = 0
             \/ n \in Nat /\ \E h \in Begun(2) : PathOf(h)[2] = n /\ (h >= g \/ h >= written)
<1> DEFINE A == {k \in 1..Top(2) : Name(k, DirBlocks) = Name(g, DirBlocks)}
           N == {Name(h, SubdirBlocks) : h \in A}
<1>1. {PathOf(h)[2] : h \in {k \in Begun(2) : PathOf(k)[1] = PathOf(g)[1]}} = N
  <2>1. Begun(2) = 1..Top(2)
    BY BegunToTop
  <2> QED
    BY <2>1, PathsAreNames, Zenon
<1>2. /\ Top(1) \in Nat /\ Top(2) \in Nat /\ g \in 1..Top(1) /\ Begun(2) = 1..Top(2)
      /\ written \in Nat
  BY BegunToTop
<1>3. PICK fan \in Nat : fan > 0 /\ fan <= PageSize /\ DirBlocks = fan * SubdirBlocks
  BY Layout, Zenon
<1>4. SubdirBlocks \in Nat /\ SubdirBlocks > 0 /\ DirBlocks \in Nat /\ DirBlocks > 0
  BY Layout, Zenon
<1>5. ASSUME NEW h \in A PROVE h \in Nat /\ h > 0 /\ Name(h, SubdirBlocks) \in Nat
  <2>1. h \in Nat /\ h > 0
    BY <1>2
  <2> QED
    BY <1>4, <2>1, NameBounds, Zenon
<1>6. listing(N) = N
  <2> DEFINE p == (g - 1) \div DirBlocks
             r == p * fan
             f == [k \in 1..fan |-> (r + (k - 1)) * SubdirBlocks]
  <2>1. p \in Nat /\ Name(g, DirBlocks) = p * DirBlocks
    BY <1>2, <1>4, NameBounds DEF Name
  <2> HIDE DEF p
  <2>2. r \in Nat /\ p * DirBlocks = r * SubdirBlocks
    BY <1>3, <1>4, <2>1, TimesTimes
  <2> HIDE DEF r
  <2>3. f \in [1..fan -> Int]
    BY <1>4, <2>2
  <2>4. ASSUME NEW h \in A PROVE \E k \in 1..fan : Name(h, SubdirBlocks) = f[k]
    <3> DEFINE q == (h - 1) \div SubdirBlocks
    <3>1. q \in Nat /\ Name(h, SubdirBlocks) = q * SubdirBlocks /\ q * SubdirBlocks < h
          /\ h <= q * SubdirBlocks + SubdirBlocks
      BY <1>4, <1>5, NameBounds, Zenon DEF Name
    <3> HIDE DEF q
    <3>2. r * SubdirBlocks < h /\ h <= r * SubdirBlocks + fan * SubdirBlocks
      BY <1>3, <1>4, <1>5, <2>1, <2>2, NameBounds, ZenonT(30)
    <3>3. r * SubdirBlocks + fan * SubdirBlocks = (r + fan) * SubdirBlocks
      BY <1>3, <1>4, <2>2
    <3>4. q < r + fan
      <4>1. q * SubdirBlocks < (r + fan) * SubdirBlocks
        BY <1>3, <1>4, <1>5, <2>2, <3>1, <3>2, <3>3, SMTT(30)
      <4> QED
        BY <1>3, <1>4, <2>2, <3>1, <4>1, TimesKeepsOrder
    <3>5. r < q + 1
      <4>1. r * SubdirBlocks < (q + 1) * SubdirBlocks
        BY <1>4, <1>5, <2>2, <3>1, <3>2, TimesKeepsOrder
      <4> QED
        BY <1>4, <2>2, <3>1, <4>1, TimesKeepsOrder, SMTT(30)
    <3>6. PICK k \in 1..fan : r + (k - 1) = q
      <4>1. q - r + 1 \in 1..fan /\ r + ((q - r + 1) - 1) = q
        BY <1>3, <2>2, <3>1, <3>4, <3>5
      <4> QED
        BY <4>1, Zenon
    <3>7. f[k] = q * SubdirBlocks
      BY <3>6, Zenon
    <3> QED
      BY <3>1, <3>6, <3>7, Zenon
  <2> HIDE DEF f, A
  <2>5. N \in SUBSET Int
    BY <1>5
  <2> QED
    BY <1>3, <2>3, <2>4, <2>5, PageHoldsAll, Zenon
<1>7. \/ A = {} /\ ~ bucket /\ written % DirBlocks = 0
      \/ \E l \in A : (l >= g \/ l >= written) /\ \A h \in A : h <= l
  <2>1. 1 \in 1..3 /\ 2 \in 1..3
    OBVIOUS
  <2> QED
    <3>1. \/ ~ bucket /\ written % DirBlocks = 0
             /\ \A h \in 1..Top(2) : Name(h, DirBlocks) # Name(g, DirBlocks)
          \/ \E l \in 1..Top(2) :
               /\ Name(l, DirBlocks) = Name(g, DirBlocks) /\ (l >= g \/ l >= written)
               /\ \A h \in 1..Top(2) :
                    Name(h, DirBlocks) = Name(g, DirBlocks) => h <= l
      <4>1. DirBlocks \in Nat /\ DirBlocks > 0 /\ g \in 1..Top(1)
        BY <1>2, <1>4, Zenon
      <4> QED
        BY <2>1, <4>1, LastBegun
    <3> QED
      BY <3>1, Zenon
<1>8. CASE A = {} /\ ~ bucket /\ written % DirBlocks = 0
  <2>1. N = {}
    BY <1>8, Zenon
  <2>2. name_with_largest_number(listing(N)) = None
    BY <1>6, <2>1, Zenon DEF name_with_largest_number
  <2> QED
    BY <1>1, <1>2, <1>8, <2>2, FullDirectory, Zenon
<1>9. CASE \E l \in A : (l >= g \/ l >= written) /\ \A h \in A : h <= l
  <2>1. PICK l \in A : (l >= g \/ l >= written) /\ \A h \in A : h <= l
    BY <1>9, Zenon
  <2>2. ASSUME NEW h \in A PROVE Name(h, SubdirBlocks) <= Name(l, SubdirBlocks)
    BY <1>4, <1>5, <2>1, NamesKeepOrder, ZenonT(30)
  <2>3. Name(l, SubdirBlocks) \in N /\ N \in SUBSET Int
        /\ \A m \in N : m <= Name(l, SubdirBlocks)
    BY <1>5, <2>2
  <2>4. name_with_largest_number(listing(N)) = Name(l, SubdirBlocks)
    <3> HIDE DEF N
    <3> QED BY <1>6, <2>3, LargestName, Zenon
  <2>5. l \in Begun(2) /\ PathOf(l)[2] = Name(l, SubdirBlocks) /\ Name(l, SubdirBlocks) \in Nat
    BY <1>2, <1>5, PathsAreNames, Zenon
  <2> QED
    BY <1>1, <2>1, <2>4, <2>5, Zenon
<1> QED
  BY <1>7, <1>8, <1>9, Zenon

\* The third listing finds a block as new as the one it looked for, or as the last
\* complete one; or the directory is new, and empty.
LEMMA ThirdListing ==
  ASSUME FilesTypeOK, NEW g \in Begun(2)
  PROVE  LET n == name_with_largest_number(listing(
                    {h \in Begun(3) : PathOf(h)[2] = PathOf(g)[2]}))
         IN  \/ n = None /\ ~ bucket /\ written % SubdirBlocks = 0
             \/ n \in Begun(3) /\ (n >= g \/ n >= written)
<1> DEFINE A == {h \in 1..Top(3) : Name(h, SubdirBlocks) = Name(g, SubdirBlocks)}
<1>1. {h \in Begun(3) : PathOf(h)[2] = PathOf(g)[2]} = A
  <2>1. Begun(3) = 1..Top(3)
    BY BegunToTop
  <2>2. ASSUME NEW h PROVE PathOf(h)[2] = PathOf(g)[2] <=> Name(h, SubdirBlocks) = Name(g, SubdirBlocks)
    BY PathsAreNames
  <2> QED
    BY <2>1, <2>2, Zenon
<1>2. /\ Top(2) \in Nat /\ Top(3) \in Nat /\ g \in 1..Top(2) /\ Begun(3) = 1..Top(3)
      /\ written \in Nat
  BY BegunToTop
<1>3. SubdirBlocks \in Nat /\ SubdirBlocks > 0 /\ SubdirBlocks <= PageSize
  BY Layout, Zenon
<1>4. A \in SUBSET Int
  OBVIOUS
<1>5. listing(A) = A
  <2> DEFINE f == [k \in 1..SubdirBlocks |-> Name(g, SubdirBlocks) + k]
  <2>1. Name(g, SubdirBlocks) \in Nat
    <3>1. g \in Nat /\ g > 0
      BY <1>2
    <3> QED
      BY <1>3, <3>1, NameBounds, Zenon
  <2>2. f \in [1..SubdirBlocks -> Int]
    BY <2>1
  <2>3. ASSUME NEW h \in A PROVE \E k \in 1..SubdirBlocks : h = f[k]
    <3>1. h \in Nat /\ Name(g, SubdirBlocks) < h /\ h <= Name(g, SubdirBlocks) + SubdirBlocks
      <4>1. h \in Nat /\ h > 0 /\ Name(h, SubdirBlocks) = Name(g, SubdirBlocks)
        BY <1>2
      <4>2. Name(h, SubdirBlocks) < h /\ h <= Name(h, SubdirBlocks) + SubdirBlocks
        BY <1>3, <4>1, NameBounds, Zenon
      <4> QED
        BY <4>1, <4>2, Zenon
    <3>2. h - Name(g, SubdirBlocks) \in 1..SubdirBlocks
      BY <1>3, <2>1, <3>1
    <3>3. f[h - Name(g, SubdirBlocks)] = h
      BY <2>1, <3>1, <3>2
    <3> QED
      BY <3>2, <3>3, Zenon
  <2> HIDE DEF f, A
  <2> QED
    BY <1>3, <1>4, <2>2, <2>3, PageHoldsAll, Zenon
<1>6. \/ A = {} /\ ~ bucket /\ written % SubdirBlocks = 0
      \/ \E l \in A : (l >= g \/ l >= written) /\ \A h \in A : h <= l
  <2>1. 2 \in 1..3 /\ 3 \in 1..3
    OBVIOUS
  <2> QED
    <3>1. \/ ~ bucket /\ written % SubdirBlocks = 0
             /\ \A h \in 1..Top(3) : Name(h, SubdirBlocks) # Name(g, SubdirBlocks)
          \/ \E l \in 1..Top(3) :
               /\ Name(l, SubdirBlocks) = Name(g, SubdirBlocks) /\ (l >= g \/ l >= written)
               /\ \A h \in 1..Top(3) :
                    Name(h, SubdirBlocks) = Name(g, SubdirBlocks) => h <= l
      BY <1>2, <1>3, <2>1, LastBegun, SMTT(30)
    <3> QED
      BY <3>1, Zenon
<1>7. CASE A = {} /\ ~ bucket /\ written % SubdirBlocks = 0
  <2>1. name_with_largest_number(listing(A)) = None
    BY <1>5, <1>7, Zenon DEF name_with_largest_number
  <2> QED
    BY <1>1, <1>7, <2>1, Zenon
<1>8. CASE \E l \in A : (l >= g \/ l >= written) /\ \A h \in A : h <= l
  <2>1. PICK l \in A : (l >= g \/ l >= written) /\ \A h \in A : h <= l
    BY <1>8, Zenon
  <2>2. l \in Begun(3)
    BY <1>2, Zenon
  <2>3. name_with_largest_number(listing(A)) = l
    <3> HIDE DEF A
    <3> QED BY <1>4, <1>5, <2>1, LargestName, Zenon
  <2> QED
    BY <1>1, <2>1, <2>2, <2>3, Zenon
<1> QED
  BY <1>6, <1>7, <1>8, Zenon

--------------------------------------------------------------------------------
\* While it looks into a directory, there is a block in it, or being written to it, that
\* is no older than the latest complete one was at the start.
SearchInv ==
  /\ FilesTypeOK
  /\ search.step = "second" =>
       \E g \in Begun(1) : g >= search.from /\ PathOf(g)[1] = search.dir
  /\ search.step = "third" =>
       \E g \in Begun(2) : g >= search.from /\ PathOf(g)[2] = search.dir
  /\ SearchIsRight

\* It holds at the start, when nothing is searched.
LEMMA SearchInitially == FilesInit => SearchInv
<1> SUFFICES ASSUME FilesInit PROVE SearchInv
  BY Zenon
<1>1. written \in 0..MaxBlock /\ written \in 0..written
  BY FileAssumption, Layout DEF FilesInit
<1>2. next_path \in 0..3 /\ ((written = MaxBlock \/ bucket) => next_path = 0)
  BY DEF FilesInit
<1>3. search = NoSearch
  BY Zenon DEF FilesInit
<1>4. NoSearch.step = "idle" /\ NoSearch \in [step : {"idle", "first", "second", "third", "found"},
        dir : Nat \union {None}, result : Nat \union {None}, from : 0..written]
  BY <1>1 DEF NoSearch
<1>5. bucket \in BOOLEAN
  BY Zenon DEF FilesInit
<1> QED
  BY <1>1, <1>2, <1>3, <1>4, <1>5, ZenonT(30) DEF SearchInv, FilesTypeOK, SearchIsRight

\* More blocks do not hide those begun.
LEMMA BegunGrows ==
  ASSUME FilesTypeOK, WriteFiles, NEW level \in 1..3
  PROVE  Begun(level) \subseteq Begun(level)'
<1>1. written \in Nat /\ next_path \in 0..3
  BY Layout DEF FilesTypeOK
<1>2. CASE Begin
  BY <1>1, <1>2 DEF Begin, Begun
<1>3. CASE Complete
  <2>1. written' = written + 1
    BY <1>3, Zenon DEF Complete
  <2> QED
    BY <1>1, <2>1 DEF Begun
<1> QED
  BY <1>2, <1>3, Zenon DEF WriteFiles

\* A search that is not disturbed stays right while blocks are written.
LEMMA WriteKeepsSearch ==
  ASSUME SearchInv, WriteFiles
  PROVE  SearchInv'
<1> USE DEF SearchInv
<1>1. written \in Nat /\ written <= MaxBlock /\ next_path \in 0..3 /\ MaxBlock \in Nat
  BY Layout DEF FilesTypeOK
<1>2. /\ bucket' = bucket /\ search' = search /\ written' \in Nat
      /\ \/ written' = written /\ next_path < 3
         \/ written' = written + 1 /\ next_path' = 0
  BY <1>1 DEF WriteFiles, Begin, Complete
<1>3. FilesTypeOK'
  <2>1. written' \in 0..MaxBlock /\ next_path' \in 0..3
    BY <1>1 DEF WriteFiles, Begin, Complete
  <2>2. (written' = MaxBlock \/ bucket') => next_path' = 0
    BY <1>1 DEF WriteFiles, Begin, Complete
  <2>3. 0..written \subseteq 0..written'
    BY <1>1, <1>2
  <2> QED
    BY <1>2, <2>1, <2>2, <2>3, ZenonT(30) DEF FilesTypeOK
<1>4. Begun(1) \subseteq Begun(1)' /\ Begun(2) \subseteq Begun(2)'
  BY BegunGrows
<1>5. \A g : PathOf(g)' = PathOf(g)
  BY Zenon DEF PathOf
<1>6. SearchIsRight'
  <2>1. \A n : collect_block(n)' <=> n \in 1..written'
    BY PathsAreNames, Zenon DEF collect_block, rmp_path, PathOf
  <2>2. \A n : collect_block(n) <=> n \in 1..written
    BY PathsAreNames, Zenon DEF collect_block, rmp_path, PathOf
  <2>3. 1..written \subseteq 1..written' /\ search.from..written \subseteq search.from..written'
    BY <1>1, <1>2 DEF FilesTypeOK
  <2>4. next_path = 3 => written + 1 \in 1..written'
    BY <1>1, <1>2
  <2> QED
    BY <1>2, <2>1, <2>2, <2>3, <2>4, ZenonT(30) DEF SearchIsRight
<1> QED
  BY <1>2, <1>3, <1>4, <1>5, <1>6, ZenonT(30)

\* One listing.
LEMMA ListingKeepsSearch ==
  ASSUME SearchInv, Search
  PROVE  SearchInv'
<1> USE DEF SearchInv
<1>1. UNCHANGED <<bucket, written, next_path>>
  BY Zenon DEF Search, files
<1>2. written \in Nat /\ search.from \in 0..written
  BY Layout DEF FilesTypeOK
<1>3. /\ \A g : PathOf(g)' = PathOf(g) /\ (collect_block(g)' <=> g \in 1..written)
      /\ Begun(1)' = Begun(1) /\ Begun(2)' = Begun(2)
  BY <1>1, PathsAreNames, Zenon DEF PathOf, collect_block, rmp_path, Begun
<1>4. search \in [step : {"idle", "first", "second", "third", "found"},
                 dir : Nat \union {None}, result : Nat \union {None}, from : 0..written]
  BY Zenon DEF FilesTypeOK
<1>5. ASSUME search'.step = "found", search' \in [step : {"idle", "first", "second", "third", "found"},
             dir : Nat \union {None}, result : Nat \union {None}, from : 0..written],
             SearchIsRight'
      PROVE  SearchInv'
  BY <1>1, <1>5, Zenon DEF FilesTypeOK
<1>6. None \notin Nat
  BY FileAssumption
<1>7. CASE RequestFails
  <2>1. search' = [search EXCEPT !.step = "found", !.result = None] /\ RequestMayFail /\ bucket
    BY <1>7, Zenon DEF RequestFails
  <2>2. SearchIsRight'
    BY <1>1, <1>4, <2>1, Zenon DEF SearchIsRight
  <2> QED
    BY <1>4, <1>5, <2>1, <2>2, Zenon
<1>8. CASE ListFirst
  <2> DEFINE n == name_with_largest_number(listing({PathOf(h)[1] : h \in Begun(1)}))
  <2>1. n = IF Top(1) = 0 THEN None ELSE Name(Top(1), DirBlocks)
    BY FirstListing, Zenon
  <2>2. search' = IF n = None THEN [search EXCEPT !.step = "found", !.result = n]
                 ELSE [search EXCEPT !.step = "second", !.dir = n]
    BY <1>8, Zenon DEF ListFirst, pick_path_with_highest_number
  <2> HIDE DEF n
  <2>3. Top(1) \in Nat /\ Begun(1) = 1..Top(1) /\ (Top(1) = written \/ Top(1) = written + 1)
    BY BegunToTop
  <2>4. CASE Top(1) = 0
    <3>1. n = None /\ written = 0 /\ search.from = 0
      BY <1>2, <2>1, <2>3, <2>4
    <3>2. search'.step = "found" /\ search'.result = None /\ search'.from = 0
      BY <1>4, <2>2, <3>1, ZenonT(30)
    <3>3. 0 \in 0..0 /\ 0 % SubdirBlocks = 0
      BY Layout
    <3>4. SearchIsRight'
      BY <1>1, <3>1, <3>2, <3>3, Zenon DEF SearchIsRight
    <3> QED
      BY <1>4, <1>5, <2>2, <3>1, <3>2, <3>4, ZenonT(30)
  <2>5. CASE Top(1) # 0
    <3>1. n \in Nat /\ PathOf(Top(1))[1] = n /\ n # None
      <4>1. Top(1) > 0 /\ DirBlocks \in Nat /\ DirBlocks > 0
        BY <2>3, <2>5, Layout, SMTT(30)
      <4> QED
        BY <1>6, <2>1, <2>3, <2>5, <4>1, NameBounds, PathsAreNames, ZenonT(30)
    <3>2. Top(1) \in Begun(1) /\ Top(1) >= search.from
      BY <1>2, <2>3, <2>5
    <3>3. search' = [search EXCEPT !.step = "second", !.dir = n]
      BY <2>2, <3>1, Zenon
    <3>4. FilesTypeOK' /\ search'.step = "second" /\ search'.dir = n /\ search'.from = search.from
      BY <1>1, <1>4, <3>1, <3>3, Zenon DEF FilesTypeOK
    <3>5. SearchIsRight'
      BY <3>4, Zenon DEF SearchIsRight
    <3> QED
      BY <1>3, <3>1, <3>2, <3>4, <3>5, ZenonT(30)
  <2> QED
    BY <2>4, <2>5, Zenon
<1>9. CASE ListSecond
  <2>1. PICK g \in Begun(1) : g >= search.from /\ PathOf(g)[1] = search.dir
    BY <1>9, Zenon DEF ListSecond
  <2> DEFINE n == name_with_largest_number(listing(
                    {PathOf(h)[2] : h \in {k \in Begun(2) : PathOf(k)[1] = PathOf(g)[1]}}))
  <2>2. \/ n = None /\ ~ bucket /\ written % SubdirBlocks = 0
        \/ n \in Nat /\ \E h \in Begun(2) : PathOf(h)[2] = n /\ (h >= g \/ h >= written)
    BY SecondListing, Zenon
  <2>3. search' = IF n = None THEN [search EXCEPT !.step = "found", !.result = n]
                 ELSE [search EXCEPT !.step = "third", !.dir = n]
    BY <1>9, <2>1, Zenon DEF ListSecond, pick_path_with_highest_number
  <2> HIDE DEF n
  <2>4. CASE n = None /\ ~ bucket /\ written % SubdirBlocks = 0
    <3>1. search'.step = "found" /\ search'.result = None /\ search'.from = search.from
      BY <1>4, <2>3, <2>4, Zenon
    <3>2. written \in search.from..written
      BY <1>2
    <3>3. SearchIsRight'
      BY <1>1, <2>4, <3>1, <3>2, Zenon DEF SearchIsRight
    <3> QED
      BY <1>4, <1>5, <2>3, <2>4, <3>1, <3>3, ZenonT(30)
  <2>5. CASE n \in Nat /\ \E h \in Begun(2) : PathOf(h)[2] = n /\ (h >= g \/ h >= written)
    <3>1. PICK h \in Begun(2) : PathOf(h)[2] = n /\ (h >= g \/ h >= written)
      BY <2>5, Zenon
    <3>2. h >= search.from
      <4>1. Begun(1) = 1..Top(1) /\ Begun(2) = 1..Top(2) /\ Top(1) \in Nat /\ Top(2) \in Nat
        BY BegunToTop
      <4> QED
        BY <1>2, <2>1, <3>1, <4>1
    <3>3. search' = [search EXCEPT !.step = "third", !.dir = n]
      BY <1>6, <2>3, <2>5, Zenon
    <3>4. FilesTypeOK' /\ search'.step = "third" /\ search'.dir = n /\ search'.from = search.from
      BY <1>1, <1>4, <2>5, <3>3, ZenonT(30) DEF FilesTypeOK
    <3>5. SearchIsRight'
      BY <3>4, Zenon DEF SearchIsRight
    <3> QED
      BY <1>3, <3>1, <3>2, <3>4, <3>5, ZenonT(30)
  <2> QED
    BY <2>2, <2>4, <2>5, Zenon
<1>10. CASE ListThird
  <2>1. PICK g \in Begun(2) : g >= search.from /\ PathOf(g)[2] = search.dir
    BY <1>10, Zenon DEF ListThird
  <2> DEFINE n == name_with_largest_number(listing(
                    {h \in Begun(3) : PathOf(h)[2] = PathOf(g)[2]}))
  <2>2. \/ n = None /\ ~ bucket /\ written % SubdirBlocks = 0
        \/ n \in Begun(3) /\ (n >= g \/ n >= written)
    BY ThirdListing, Zenon
  <2>3. search' = [search EXCEPT !.step = "found", !.result = n]
    BY <1>10, <2>1, Zenon DEF ListThird, pick_path_with_highest_number
  <2> HIDE DEF n
  <2>4. search'.step = "found" /\ search'.result = n /\ search'.from = search.from
    BY <1>4, <2>3, Zenon
  <2>5. CASE n = None /\ ~ bucket /\ written % SubdirBlocks = 0
    <3>1. written \in search.from..written
      BY <1>2, SMTT(30)
    <3>2. SearchIsRight'
      BY <1>1, <2>4, <2>5, <3>1, Zenon DEF SearchIsRight
    <3> QED
      BY <1>4, <1>5, <2>3, <2>4, <2>5, <3>2, ZenonT(30)
  <2>6. CASE n \in Begun(3) /\ (n >= g \/ n >= written)
    <3>1. /\ Begun(2) = 1..Top(2) /\ Begun(3) = 1..Top(3) /\ Top(2) \in Nat /\ Top(3) \in Nat
          /\ next_path \in 0..3
      BY BegunToTop DEF FilesTypeOK
    <3>2. n \in Nat /\ n # None /\ n >= search.from
      BY <1>2, <1>6, <2>1, <2>6, <3>1, SMTT(30)
    <3>3. n \in 1..written \/ (next_path = 3 /\ n = written + 1)
      BY <1>2, <2>6, <3>1 DEF Top
    <3>4. SearchIsRight'
      BY <1>1, <1>3, <2>4, <3>2, <3>3, ZenonT(30) DEF SearchIsRight
    <3> QED
      BY <1>4, <1>5, <2>3, <2>4, <3>2, <3>4, ZenonT(30)
  <2> QED
    BY <2>2, <2>5, <2>6, Zenon
<1> QED
  BY <1>7, <1>8, <1>9, <1>10, Zenon DEF Search

--------------------------------------------------------------------------------
\* The node: a search that has not begun, or has just begun, is right.
LEMMA NewSearch ==
  ASSUME SearchInv, UNCHANGED files,
         search' = NoSearch \/ search' = [NoSearch EXCEPT !.step = "first", !.from = written]
  PROVE  SearchInv'
<1>1. written \in Nat /\ UNCHANGED <<bucket, written, next_path>>
  BY Layout DEF SearchInv, FilesTypeOK, files
<1>2. /\ search'.step \in {"idle", "first"}
      /\ search' \in [step : {"idle", "first", "second", "third", "found"},
                     dir : Nat \union {None}, result : Nat \union {None}, from : 0..written]
  <2>1. 0 \in 0..written /\ written \in 0..written
    BY <1>1
  <2>2. CASE search' = NoSearch
    BY <2>1, <2>2, Zenon DEF NoSearch
  <2>3. CASE search' = [NoSearch EXCEPT !.step = "first", !.from = written]
    BY <2>1, <2>3, ZenonT(30) DEF NoSearch
  <2> QED
    BY <2>2, <2>3, Zenon
<1> QED
  BY <1>1, <1>2, Zenon DEF SearchInv, FilesTypeOK, SearchIsRight

\* Steps that leave the files and the search alone.
LEMMA SearchUnchanged ==
  ASSUME SearchInv, UNCHANGED <<files, search>>
  PROVE  SearchInv'
BY Zenon DEF SearchInv, FilesTypeOK, SearchIsRight, files, Begun, PathOf, collect_block, rmp_path

\* Every step of the node's life keeps SearchInv.
LEMMA SearchKept ==
  ASSUME SearchInv, [LifecycleNext]_all
  PROVE  SearchInv'
<1>1. CASE Run(Next)
  <2>1. CASE CreateStore \/ StartPoller
    BY <2>1, NewSearch, Zenon DEF CreateStore, StartPoller, find_latest_block_number
  <2>2. CASE FindLatestFails \/ ReadLatest \/ ReadLatestFails \/ PollerFinds
    BY <2>2, NewSearch, Zenon DEF FindLatestFails, ReadLatest, ReadLatestFails, PollerFinds
  <2>3. CASE SearchStep
    BY <2>3, ListingKeepsSearch, Zenon DEF SearchStep
  <2>4. CASE WriteFiles
    BY <2>4, WriteKeepsSearch, Zenon
  <2>5. CASE \/ Build \/ LaunchEngine \/ FindLatest \/ GetEngine \/ GetTrigger \/ Updated
             \/ NoTrigger \/ Announce \/ Take
    BY <2>5, SearchUnchanged, Zenon DEF Build, LaunchEngine, FindLatest, GetEngine, GetTrigger,
       Updated, NoTrigger, Announce, Take
  <2> QED
    BY <1>1, <2>1, <2>2, <2>3, <2>4, <2>5, ZenonT(30) DEF Run, Next, Startup
<1>2. CASE Restart
  BY <1>2, NewSearch, Zenon DEF Restart
<1>3. CASE MigrateFirst \/ LaunchDirectly \/ UNCHANGED all
  BY <1>3, SearchUnchanged, Zenon DEF MigrateFirst, LaunchDirectly, all, vars
<1> QED
  BY <1>1, <1>2, <1>3, Zenon DEF LifecycleNext

\* For every size of directories and pages, however many blocks are written while a
\* search lists its directories and however often the node is restarted: a search finds
\* no block older than the latest at its start, and finds nothing only in an empty
\* source, when a request fails, or next to a new directory.
THEOREM SearchIsAlwaysRight == LifecycleSpec => []SearchIsRight
<1>1. LifecycleInit => SearchInv
  BY SearchInitially, Zenon DEF LifecycleInit, Init
<1>2. SearchInv /\ [LifecycleNext]_all => SearchInv'
  BY SearchKept, Zenon
<1>3. SearchInv => SearchIsRight
  BY Zenon DEF SearchInv
<1> QED
  BY <1>1, <1>2, <1>3, PTL DEF LifecycleSpec
================================================================================
