-------------------------------- MODULE FileSource ------------------------------
(***************************************************************************)
(* The two block sources that keep one file per block                      *)
(* (src/src/pseudo_peer/sources): LocalBlockSource reads a directory tree, *)
(* S3BlockSource a bucket.  Block h is at rmp_path(h), in one of many      *)
(* directories.  find_latest_block_number lists three directories, one     *)
(* after the other, while somebody else writes the next blocks.            *)
(*                                                                         *)
(* A name that is no number is dropped by name_with_largest_number, so     *)
(* names are numbers here.                                                 *)
(***************************************************************************)
EXTENDS Integers, FiniteSets

CONSTANTS
  DirBlocks,       \* blocks below a directory of the first level, 1_000_000
  SubdirBlocks,    \* and of the second level, 1_000
  PageSize,        \* names in one answer of list_objects
  Radix,           \* of the numbers in names, 10
  MaxBlock,        \* bound on the blocks written
  StartBlocks,     \* how many of them there may be at the start
  RequestMayFail,  \* whether a request to the bucket may fail
  None

ASSUME FileAssumption ==
  /\ {SubdirBlocks, PageSize, Radix} \subseteq Nat \ {0}
  /\ \E fan \in 1..PageSize : DirBlocks = fan * SubdirBlocks
  /\ SubdirBlocks <= PageSize
  /\ MaxBlock \in 0 .. DirBlocks * PageSize /\ StartBlocks \subseteq 0..MaxBlock
  /\ RequestMayFail \in BOOLEAN /\ None \notin Int

VARIABLES
  bucket,     \* the source is a bucket; otherwise it is a directory
  written,    \* the blocks up to here are complete
  next_path,  \* how much of the next block's path exists: 1 and 2 for its
              \* directories, 3 for a file that is not complete, 0 for nothing
  search      \* find_latest_block_number: its next listing, the directory it has
              \* come to, its result; and as history, written at its start

files == <<bucket, written, next_path>>

NoSearch == [step |-> "idle", dir |-> None, result |-> None, from |-> 0]

FilesInit ==
  /\ bucket \in BOOLEAN /\ written \in StartBlocks
  /\ next_path \in IF bucket \/ written = MaxBlock THEN {0} ELSE 0..3
  /\ search = NoSearch

--------------------------------------------------------------------------------
\* Whoever writes the files (external): the directories before the file in a
\* directory tree, all at once in a bucket.

Begin ==
  /\ ~ bucket /\ written < MaxBlock /\ next_path < 3
  /\ next_path' = next_path + 1
  /\ UNCHANGED <<bucket, written, search>>

Complete ==
  /\ written < MaxBlock /\ (bucket \/ next_path = 3)
  /\ written' = written + 1 /\ next_path' = 0
  /\ UNCHANGED <<bucket, search>>

WriteFiles == Begin \/ Complete

\* Where block h is: the names of its two directories.
PathOf(h) ==
  <<((h - 1) \div DirBlocks) * DirBlocks, ((h - 1) \div SubdirBlocks) * SubdirBlocks>>

\* The blocks whose path exists at least to the given level.
Begun(level) == 1 .. written \union IF next_path >= level THEN {written + 1} ELSE {}

--------------------------------------------------------------------------------
\* Names in the order of a bucket, which is that of their characters; they have
\* at most two digits.
Padded(n) == IF n < Radix THEN Radix * n ELSE n
NameBefore(m, n) == Padded(m) < Padded(n) \/ (Padded(m) = Padded(n) /\ m < n)

\* list_objects answers with one page of names, read_dir with all of them.
listing(names) ==
  IF bucket THEN {n \in names : Cardinality({m \in names : NameBefore(m, n)}) < PageSize}
  ELSE names

last_name(names) ==
  IF names = {} THEN None ELSE CHOOSE n \in names : \A m \in names : m = n \/ NameBefore(m, n)

name_with_largest_number(names) ==
  IF names = {} THEN None ELSE CHOOSE n \in names : \A m \in names : m <= n

rmp_path(height) ==
  <<((height - 1) \div DirBlocks) * DirBlocks, ((height - 1) \div SubdirBlocks) * SubdirBlocks>>

\* collect_block finds a complete file where it looks for it.
collect_block(height) == height \in 1..written /\ rmp_path(height) = PathOf(height)

find_latest_block_number == search' = [NoSearch EXCEPT !.step = "first", !.from = written]

\* pick_path_with_highest_number: nothing found ends the search with None.
pick_path_with_highest_number(names, step) ==
  LET n == name_with_largest_number(listing(names))
  IN  search' = IF n = None \/ step = "found"
                THEN [search EXCEPT !.step = "found", !.result = n]
                ELSE [search EXCEPT !.step = step, !.dir = n]

ListFirst ==
  /\ search.step = "first"
  /\ pick_path_with_highest_number({PathOf(h)[1] : h \in Begun(1)}, "second")

ListSecond ==
  /\ search.step = "second"
  /\ pick_path_with_highest_number(
       {PathOf(h)[2] : h \in {g \in Begun(2) : PathOf(g)[1] = search.dir}}, "third")

ListThird ==
  /\ search.step = "third"
  /\ pick_path_with_highest_number({h \in Begun(3) : PathOf(h)[2] = search.dir}, "found")

\* request.send().await.ok()? in the bucket's listings.
RequestFails ==
  /\ RequestMayFail /\ bucket /\ search.step \in {"first", "second", "third"}
  /\ search' = [search EXCEPT !.step = "found", !.result = None]

Search == (ListFirst \/ ListSecond \/ ListThird \/ RequestFails) /\ UNCHANGED files

--------------------------------------------------------------------------------
FilesTypeOK ==
  /\ bucket \in BOOLEAN /\ written \in 0..MaxBlock /\ next_path \in 0..3
  /\ (written = MaxBlock \/ bucket) => next_path = 0
  /\ search \in [step : {"idle", "first", "second", "third", "found"},
                 dir : Nat \union {None}, result : Nat \union {None}, from : 0..written]

\* "Finds the latest block number available from this source": although the three
\* listings see three moments, the number found is that of no block older than the
\* latest one at the start, and of one that is there, or being written; and
\* nothing is found only in a source that had no block, when a request failed, or
\* while a new directory of a directory tree had no file yet.
SearchIsRight ==
  search.step = "found" =>
    IF search.result # None
    THEN /\ search.result >= search.from
         /\ collect_block(search.result) \/ (next_path = 3 /\ search.result = written + 1)
    ELSE IF bucket THEN RequestMayFail \/ search.from = 0
         ELSE \E w \in search.from .. written : w % SubdirBlocks = 0
================================================================================
