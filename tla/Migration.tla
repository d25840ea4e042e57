-------------------------------- MODULE Migration -------------------------------
(***************************************************************************)
(* The migration of headers stored in the old format (node/migrate.rs):    *)
(* the rows still in MDBX are exported to a file and written back in one   *)
(* transaction; each static file is converted chunk by chunk into a        *)
(* directory for temporary files and then moved over the old one, file by  *)
(* file.  The process may end between any two steps and starts over.       *)
(***************************************************************************)
EXTENDS Naturals

CONSTANTS
  Rows,          \* number of headers in MDBX
  Segments,      \* number of static file segments with headers
  Files,         \* the files a segment consists of
  ConfigFile,    \* the one by which iter_static_files finds the segment
  Chunks,        \* number of chunks of a segment
  MaxCrashes     \* bound on the crashes

VARIABLES
  enabled,       \* EXPERIMENTAL_MIGRATE_DB is set
  mdbx,          \* the format of each row
  headers_rmp,   \* the rows in the exported file
  static_files,  \* the format of each file of each segment, or "missing"
  tmp,           \* the same for the temporary directory, or "link"
  segment,       \* the segment being looked at
  chunk,         \* the chunks of it that are converted
  moved,         \* the files of it that are moved
  step,          \* where the migration is
  torn,          \* the process ended while it moved a segment
  crashes

vars == <<enabled, mdbx, headers_rmp, static_files, tmp, segment, chunk, moved, step,
          torn, crashes>>

NoFiles(what) == [s \in 1..Segments |-> [f \in Files |-> what]]

\* A database of the old format, perhaps with newer rows after the old ones, of
\* the new format, or one that was never used.
Init ==
  /\ enabled \in BOOLEAN
  /\ \E old \in 0..Rows, format \in {"old", "new"} :
       /\ mdbx = [r \in 1..Rows |-> IF r <= old THEN "old" ELSE "new"]
       /\ format = "new" => old = 0
       /\ static_files = NoFiles(format)
  /\ headers_rmp = {} /\ tmp = NoFiles("missing")
  /\ segment = 1 /\ chunk = 0 /\ moved = {}
  /\ step = "down" /\ torn = FALSE /\ crashes = 0

--------------------------------------------------------------------------------
\* migrate_db: nothing is done when there are no static files.
migrate_db ==
  /\ step = "down"
  /\ step' = IF \A s \in 1..Segments : static_files[s][ConfigFile] = "missing"
             THEN "done" ELSE "probe mdbx"
  /\ UNCHANGED <<enabled, mdbx, headers_rmp, static_files, tmp, segment, chunk, moved,
                 torn, crashes>>

LastIsOld == mdbx[Rows] = "old"

\* The first and the last row tell whether any is old.
MdbxNeeded == mdbx[1] = "old" \/ mdbx[Rows] = "old"

check_if_migration_enabled == enabled

\* migrate_mdbx decides, and wipes the temporary directory if it goes on.
migrate_mdbx ==
  /\ step = "probe mdbx"
  /\ \/ ~ MdbxNeeded /\ step' = "static files" /\ UNCHANGED tmp
     \/ MdbxNeeded /\ ~ check_if_migration_enabled /\ step' = "refused" /\ UNCHANGED tmp
     \/ MdbxNeeded /\ check_if_migration_enabled /\ step' = "export"
        /\ tmp' = NoFiles("missing")
  /\ UNCHANGED <<enabled, mdbx, headers_rmp, static_files, segment, chunk, moved, torn,
                 crashes>>

export_old_headers ==
  /\ step = "export"
  /\ headers_rmp' = {r \in 1..Rows : mdbx[r] = "old"}
  /\ step' = "import"
  /\ UNCHANGED <<enabled, mdbx, static_files, tmp, segment, chunk, moved, torn, crashes>>

\* import_new_headers commits all rows at once.
import_new_headers ==
  /\ step = "import"
  /\ mdbx' = [r \in 1..Rows |-> IF r \in headers_rmp THEN "new" ELSE mdbx[r]]
  /\ step' = "static files"
  /\ UNCHANGED <<enabled, headers_rmp, static_files, tmp, segment, chunk, moved, torn,
                 crashes>>

--------------------------------------------------------------------------------
\* migrate_static_files starts from an empty temporary directory.
migrate_static_files ==
  /\ step = "static files"
  /\ tmp' = NoFiles("missing") /\ headers_rmp' = {}
  /\ segment' = 1 /\ step' = "probe"
  /\ UNCHANGED <<enabled, mdbx, static_files, chunk, moved, torn, crashes>>

create_placeholder(t, s) == [t EXCEPT ![s] = [f \in Files |-> "link"]]

\* The files of a segment belong together, so that old_headers_range can read them.
Whole(s) == \E format \in {"old", "new"} : static_files[s] = [f \in Files |-> format]

using_old_header(s) == static_files[s][ConfigFile] = "old"

\* A segment in the new format gets a placeholder.
SkipSegment ==
  /\ step = "probe" /\ segment <= Segments
  /\ \/ static_files[segment][ConfigFile] = "missing" /\ UNCHANGED tmp
     \/ /\ static_files[segment][ConfigFile] # "missing"
        /\ Whole(segment) /\ ~ using_old_header(segment)
        /\ tmp' = create_placeholder(tmp, segment)
  /\ segment' = segment + 1
  /\ UNCHANGED <<enabled, mdbx, headers_rmp, static_files, chunk, moved, step, torn, crashes>>

\* One in the old format is converted if that is allowed.
ConvertSegment ==
  /\ step = "probe" /\ segment <= Segments
  /\ Whole(segment) /\ using_old_header(segment)
  /\ step' = IF check_if_migration_enabled THEN "convert" ELSE "refused"
  /\ chunk' = 0 /\ moved' = {}
  /\ UNCHANGED <<enabled, mdbx, headers_rmp, static_files, tmp, segment, torn, crashes>>

\* Files that do not belong together cannot be read: the node does not start.
UnreadableSegment ==
  /\ step = "probe" /\ segment <= Segments
  /\ ~ Whole(segment) /\ static_files[segment][ConfigFile] # "missing"
  /\ step' = "refused"
  /\ UNCHANGED <<enabled, mdbx, headers_rmp, static_files, tmp, segment, chunk, moved,
                 torn, crashes>>

MoveEachChunk ==
  /\ step = "convert" /\ chunk < Chunks
  /\ chunk' = chunk + 1
  /\ tmp' = [tmp EXCEPT ![segment] =
               [f \in Files |-> IF chunk' = Chunks THEN "new" ELSE "partial"]]
  /\ step' = "remove"
  /\ UNCHANGED <<enabled, mdbx, headers_rmp, static_files, segment, moved, torn, crashes>>

\* migrate_single_static_file commits one chunk after the other to the new file.
migrate_single_static_file ==
  /\ step = "convert" /\ chunk < Chunks
  /\ chunk' = chunk + 1
  /\ tmp' = [tmp EXCEPT ![segment] =
               [f \in Files |-> IF chunk' = Chunks THEN "new" ELSE "partial"]]
  /\ step' = IF chunk' = Chunks THEN "remove" ELSE "convert"
  /\ UNCHANGED <<enabled, mdbx, headers_rmp, static_files, segment, moved, torn, crashes>>

\* move_static_files_for_segment removes an old file ...
RemoveOld(f) ==
  /\ step = "remove" /\ f \notin moved
  /\ static_files' = [static_files EXCEPT ![segment][f] = "missing"]
  /\ moved' = moved \cup {f} /\ step' = "rename"
  /\ UNCHANGED <<enabled, mdbx, headers_rmp, tmp, segment, chunk, torn, crashes>>

\* ... and renames the new one.
RenameNew(f) ==
  /\ step = "rename" /\ static_files[segment][f] = "missing"
  /\ static_files' = [static_files EXCEPT ![segment][f] = tmp[segment][f]]
  /\ tmp' = [tmp EXCEPT ![segment][f] = "missing"]
  /\ step' = IF moved = Files THEN "placeholder" ELSE "remove"
  /\ UNCHANGED <<enabled, mdbx, headers_rmp, segment, chunk, moved, torn, crashes>>

\* The moved segment leaves a placeholder for the provider of the temporary files.
Placeholder ==
  /\ step = "placeholder"
  /\ tmp' = create_placeholder(tmp, segment)
  /\ segment' = segment + 1 /\ step' = "probe"
  /\ UNCHANGED <<enabled, mdbx, headers_rmp, static_files, chunk, moved, torn, crashes>>

Migrated ==
  /\ step = "probe" /\ segment > Segments
  /\ step' = "done"
  /\ UNCHANGED <<enabled, mdbx, headers_rmp, static_files, tmp, segment, chunk, moved,
                 torn, crashes>>

\* The process ends, or has ended; what is on disk stays, and the operator may change
\* the environment.
Crash ==
  /\ step # "down" /\ crashes < MaxCrashes
  /\ crashes' = crashes + 1
  /\ torn' = (torn \/ step = "rename" \/ (step = "remove" /\ moved # {}))
  /\ step' = "down" /\ enabled' \in BOOLEAN
  /\ UNCHANGED <<mdbx, headers_rmp, static_files, tmp, segment, chunk, moved>>

--------------------------------------------------------------------------------
Migrate ==
  \/ migrate_db \/ migrate_mdbx \/ export_old_headers \/ import_new_headers
  \/ migrate_static_files \/ SkipSegment \/ ConvertSegment \/ UnreadableSegment
  \/ migrate_single_static_file \/ Placeholder \/ Migrated
  \/ \E f \in Files : RemoveOld(f) \/ RenameNew(f)

--------------------------------------------------------------------------------
\* Type correctness.
TypeOK ==
  /\ {enabled, torn} \subseteq BOOLEAN /\ headers_rmp \subseteq 1..Rows
  /\ mdbx \in [1..Rows -> {"old", "new"}]
  /\ static_files \in [1..Segments -> [Files -> {"old", "new", "missing"}]]
  /\ tmp \in [1..Segments -> [Files -> {"missing", "partial", "new", "link"}]]
  /\ segment \in 1 .. Segments + 1 /\ chunk \in 0..Chunks /\ moved \subseteq Files
  /\ step \in {"down", "probe mdbx", "export", "import", "static files", "probe",
               "convert", "remove", "rename", "placeholder", "done", "refused"}
================================================================================
