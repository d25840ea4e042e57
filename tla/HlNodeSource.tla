------------------------------- MODULE HlNodeSource ----------------------------
(***************************************************************************)
(* The hl-node block source (src/src/pseudo_peer/sources/hl_node): it      *)
(* tails the hourly files that an hl-node next to it writes, serves blocks *)
(* from them through an LRU cache and a map from heights to files, and     *)
(* falls back to another source.                                           *)
(*                                                                         *)
(* Time is counted in ticks, TicksPerHour of them to the hour; a file is   *)
(* the sequence of its complete lines, a line being the height of the      *)
(* block it holds or Garbled.                                              *)
(***************************************************************************)
EXTENDS Integers, FiniteSets, LruBiMap

CONSTANTS
  MaxHour,              \* bound on the hours
  TicksPerHour,
  MaxHeight,            \* bound on the heights hl-node gets to
  WrittenBefore,        \* lines in the first file when the node starts
  FirstHeight,          \* next_block_number when the node starts
  FallbackHas,          \* heights the fallback source can serve
  CacheSize,            \* CACHE_SIZE
  Threshold,            \* fallback_threshold, in ticks
  Requesters,           \* tasks that call collect_block
  AskedFor,             \* heights they call it for
  Absent, Garbled, None,
  MayGarble             \* whether hl-node may be interrupted inside a line

Hours == 0..MaxHour
Heights == 1..MaxHeight
Hour(t) == t \div TicksPerHour

ASSUME SourceAssumption ==
  /\ {MaxHour, MaxHeight, FirstHeight, Threshold} \subseteq Nat
  /\ {TicksPerHour, CacheSize} \subseteq Nat \ {0}
  /\ WrittenBefore \in Seq(Heights \union {Garbled}) /\ Len(WrittenBefore) <= MaxHeight
  /\ \A i \in DOMAIN WrittenBefore : WrittenBefore[i] \in {i, Garbled}
  /\ Absent \notin Seq(Heights \union {Garbled})
  /\ FallbackHas \subseteq AskedFor
  /\ AskedFor \subseteq Heights
  /\ MayGarble \in BOOLEAN

VARIABLES
  now,              \* the clock
  files,            \* the hourly files, Absent before they are created
  writing,          \* the hour of the file hl-node writes to
  height,           \* the last block hl-node wrote
  ingest,           \* where the ingest task is
  dt,               \* the hour of its current file
  started_at,       \* the hour of its first file
  cursor,           \* lines of that file it has read; -1 when it is not open
  next_height,
  cache,            \* LocalBlocksCache::cache, as its keys in LRU order
  ranges,           \* LocalBlocksCache::ranges: from heights to hours
  last_local_fetch, \* None, or the height and time of the last fetch
  pc,               \* where each requester is inside collect_block
  asked,            \* the height it asks for
  asked_at,         \* the time it sampled
  unseen            \* history: blocks written after the backfill to files older
                    \* than the first (to any, until it is chosen)

hl_node == <<now, files, writing, height, unseen>>
loop == <<ingest, dt, started_at, cursor, next_height>>
local == <<cache, ranges>>
callers == <<pc, asked, asked_at>>
vars == <<now, files, writing, height, ingest, dt, started_at, cursor, next_height, cache,
          ranges, last_local_fetch, pc, asked, asked_at, unseen>>

Init ==
  /\ now = 0
  /\ files = [h \in Hours |-> IF h = 0 /\ WrittenBefore # <<>> THEN WrittenBefore ELSE Absent]
  /\ writing = 0 /\ height = Len(WrittenBefore)
  /\ ingest = "backfill" /\ dt = 0 /\ started_at = 0 /\ cursor = -1
  /\ next_height = FirstHeight
  /\ cache = <<>> /\ ranges = EmptyFunction
  /\ last_local_fetch = None
  /\ pc = [r \in Requesters |-> "idle"]
  /\ asked = [r \in Requesters |-> None]
  /\ asked_at = [r \in Requesters |-> None]
  /\ unseen = {}

--------------------------------------------------------------------------------
\* hl-node and the clock (external).

Lines(h) == IF files[h] = Absent THEN <<>> ELSE files[h]

\* The elements of s that are not in drop, in their order.
Sifted(s, drop) ==
  LET kept[i \in 0..Len(s)] ==
        IF i = 0 THEN <<>>
        ELSE IF s[i] \in drop THEN kept[i - 1] ELSE Append(kept[i - 1], s[i])
  IN  kept[Len(s)]

\* The blocks in lines, and the lines that hold one, in their order.
Blocks(lines) == Range(lines) \ {Garbled}
Parsed(lines) == Sifted(lines, {Garbled})

\* Time passes, whether or not hl-node has written anything.
Tick ==
  /\ Hour(now + 1) <= MaxHour
  /\ now' = now + 1
  /\ UNCHANGED <<files, writing, height, unseen, loop, local, last_local_fetch, callers>>

\* The file of the current hour is created, possibly while blocks of the hour
\* before are still written.
CreateFile ==
  /\ files[Hour(now)] = Absent
  /\ files' = [files EXCEPT ![Hour(now)] = <<>>]
  /\ UNCHANGED <<now, writing, height, unseen, loop, local, last_local_fetch, callers>>

\* hl-node writes the next block, to the file it is at or to a later one; once it
\* has moved on it does not come back.
WriteLine(h, line) ==
  /\ height < MaxHeight
  /\ h \in writing..Hour(now) /\ files[h] # Absent
  /\ files' = [files EXCEPT ![h] = Append(@, line)]
  /\ writing' = h
  /\ height' = height + 1
  /\ unseen' = unseen \union
       IF ingest = "finding" \/ (ingest # "backfill" /\ h < started_at)
       THEN {line} \ {Garbled} ELSE {}
  /\ UNCHANGED <<now, loop, local, last_local_fetch, callers>>

WriteBlock(h) == WriteLine(h, height + 1)

WriteGarbled(h) == MayGarble /\ WriteLine(h, Garbled)

--------------------------------------------------------------------------------
\* Scanning (scan.rs, cache.rs, file_ops.rs).

\* scan_hour_file: new_blocks ...
new_blocks(lines, start) == Sifted(Parsed(lines), 0..(start - 1))

\* ... and next_expected_height, which a scan that parsed any line moves past the
\* highest block found, or past start.
next_expected_height(lines, start) ==
  LET found == {start} \union {n \in Blocks(lines) : n >= start}
      highest == CHOOSE m \in found : \A n \in found : m >= n
  IN  IF Blocks(lines) = {} THEN start ELSE highest + 1

\* load_scan_result: the blocks are inserted one by one, after which the cache has
\* the CacheSize keys used last ...
load_blocks[lru \in Seq(Heights)] ==
  [bs \in Seq(Heights) |->
     LET used == Sifted(lru, Range(bs)) \o bs
     IN  IF Len(used) <= CacheSize THEN used
         ELSE SubSeq(used, Len(used) - CacheSize + 1, Len(used))]

\* ... and every height that was parsed into the ranges.
load_ranges(rs, lines, h) ==
  [n \in DOMAIN rs \union Blocks(lines) |-> IF n \in Blocks(lines) THEN h ELSE rs[n]]

Existing == {h \in Hours : files[h] # Absent}

\* find_latest_hourly_file
latest_file == CHOOSE h \in Existing : \A g \in Existing : h >= g

\* read_last_block_from_file, as the set of its outcomes.  From the end of the file
\* it tries one line per chunk: when lines that do not parse come last, the file may
\* have too few bytes left to get past them.
last_block(h) ==
  LET valid == {i \in DOMAIN Lines(h) : Lines(h)[i] # Garbled}
      last == CHOOSE i \in valid : \A j \in valid : i >= j
  IN  (IF valid = {} THEN {} ELSE {Lines(h)[last]}) \union
      (IF Len(Lines(h)) \in valid THEN {} ELSE {None})

file_has_blocks(h) == h \in Hours /\ Blocks(Lines(h)) # {}

--------------------------------------------------------------------------------
\* try_backfill_local_blocks: under the cache's lock, the ranges of every file
\* whose last block is not below FirstHeight.
Backfill ==
  LET old(last) == last # None /\ last < FirstHeight
  IN  /\ ingest = "backfill"
      /\ \E wanted \in SUBSET Existing :
           /\ \A h \in wanted : \E last \in last_block(h) : ~ old(last)
           /\ \A h \in Existing \ wanted : \E last \in last_block(h) : old(last)
           /\ ranges' = [n \in UNION {Blocks(Lines(h)) : h \in wanted} |->
                           CHOOSE h \in wanted : n \in Blocks(Lines(h))]
      /\ ingest' = "finding"
      /\ UNCHANGED <<hl_node, dt, started_at, cursor, next_height, cache, last_local_fetch, callers>>

\* start_local_ingest_loop: wait for a file, and start with the latest one.
FindFile ==
  /\ ingest = "finding" /\ Existing # {}
  /\ dt' = latest_file /\ started_at' = dt' /\ cursor' = -1
  /\ ingest' = "scanning"
  /\ unseen' = unseen \ Range(Lines(latest_file))
  /\ UNCHANGED <<now, files, writing, height, next_height, local, last_local_fetch, callers>>

\* Open the file if that is possible, and scan it from the cursor on.
ScanFile ==
  LET rest == SubSeq(Lines(dt), (IF cursor < 0 THEN 0 ELSE cursor) + 1, Len(Lines(dt)))
  IN  /\ cursor' = IF files[dt] = Absent THEN cursor ELSE Len(Lines(dt))
      /\ next_height' = next_expected_height(rest, next_height)
      /\ cache' = load_blocks[cache][new_blocks(rest, next_height)]
      /\ ranges' = load_ranges(ranges, rest, dt)

Scan ==
  /\ ingest = "scanning"
  /\ ScanFile
  /\ ingest' = "switching"
  /\ UNCHANGED <<hl_node, dt, started_at, last_local_fetch, callers>>

CanSwitchAnHourLater == (dt + 2) * TicksPerHour < now /\ file_has_blocks(dt + 2)

\* The next hour has begun and its file has blocks.
CanSwitch == (dt + 1) * TicksPerHour < now /\ file_has_blocks(dt + 1)

Sleep ==
  /\ ingest = "switching" /\ ~ CanSwitch
  /\ ingest' = "scanning"
  /\ UNCHANGED <<hl_node, dt, started_at, cursor, next_height, local, last_local_fetch, callers>>

SkipFinalScan ==
  /\ ingest = "switching" /\ CanSwitch
  /\ ingest' = "moving"
  /\ UNCHANGED <<hl_node, dt, started_at, cursor, next_height, local, last_local_fetch,
                 callers>>

\* Before the switch the current file is scanned once more.
FinallyScan ==
  /\ ingest = "switching" /\ CanSwitch
  /\ ScanFile
  /\ ingest' = "moving"
  /\ UNCHANGED <<hl_node, dt, started_at, last_local_fetch, callers>>

SwitchFile ==
  /\ ingest = "moving"
  /\ dt' = dt + 1 /\ cursor' = -1
  /\ ingest' = "scanning"
  /\ UNCHANGED <<hl_node, started_at, next_height, local, last_local_fetch, callers>>

--------------------------------------------------------------------------------
\* collect_block, up to its first lock: the clock is read.
Ask(r, n) ==
  /\ pc[r] = "idle"
  /\ pc' = [pc EXCEPT ![r] = "looking"]
  /\ asked' = [asked EXCEPT ![r] = n]
  /\ asked_at' = [asked_at EXCEPT ![r] = now]
  /\ UNCHANGED <<hl_node, loop, local, last_local_fetch>>

\* find_latest_block_number, as the set of its outcomes: the last block of the
\* latest file, or else what the fallback finds.
find_latest_block_number ==
  LET found == IF Existing = {} THEN {None} ELSE last_block(latest_file)
      in_fallback == {m \in FallbackHas : \A n \in FallbackHas : m >= n}
  IN  (found \ {None}) \union (IF None \in found THEN in_fallback ELSE {})

\* The node looks for the latest block when it starts, and asks for it first.
AskLatest(r) ==
  /\ last_local_fetch = None
  /\ \E n \in find_latest_block_number : Ask(r, n)

after_reload_only_ranges(n) == cache

\* try_collect_local_block: the cache, or the file the ranges name.  That is scanned
\* from its start, and all of it is loaded into the cache and the ranges.
after_reload(n) ==
  IF n \in DOMAIN ranges THEN load_blocks[cache][Parsed(Lines(ranges[n]))] ELSE cache

LookLocally(r) ==
  LET n == asked[r]
  IN  /\ pc[r] = "looking"
      /\ \E loaded \in {IF Contains(cache, n) THEN cache ELSE after_reload(n)} :
           IF Contains(loaded, n)
           THEN cache' = Touch(loaded, n) /\ pc' = [pc EXCEPT ![r] = "found"]
           ELSE cache' = loaded /\ pc' = [pc EXCEPT ![r] = "missed"]
      /\ ranges' = IF Contains(cache, n) \/ n \notin DOMAIN ranges THEN ranges
                   ELSE load_ranges(ranges, Lines(ranges[n]), ranges[n])
      /\ UNCHANGED <<hl_node, loop, last_local_fetch, asked, asked_at>>

TooSoonForEver(r) == last_local_fetch # None /\ last_local_fetch.height < asked[r]

\* Not found: within the threshold after a fetch of a lower block, an error gives
\* hl-node the chance to catch up; otherwise the fallback is asked.
TooSoon(r) ==
  /\ last_local_fetch # None
  /\ last_local_fetch.height < asked[r]
  /\ asked_at[r] - last_local_fetch.time < Threshold

\* collect_block returns, with the block or with an error.
Leave(r) ==
  /\ pc' = [pc EXCEPT ![r] = "idle"]
  /\ asked' = [asked EXCEPT ![r] = None]
  /\ asked_at' = [asked_at EXCEPT ![r] = None]

Missed(r) ==
  /\ pc[r] = "missed"
  /\ IF TooSoon(r) THEN Leave(r)
     ELSE pc' = [pc EXCEPT ![r] = "falling back"] /\ UNCHANGED <<asked, asked_at>>
  /\ UNCHANGED <<hl_node, loop, local, last_local_fetch>>

FallBack(r) ==
  /\ pc[r] = "falling back"
  /\ IF asked[r] \in FallbackHas
     THEN pc' = [pc EXCEPT ![r] = "found"] /\ UNCHANGED <<asked, asked_at>>
     ELSE Leave(r)
  /\ UNCHANGED <<hl_node, loop, local, last_local_fetch>>

\* update_last_fetch, and collect_block returns the block.
Return(r) ==
  /\ pc[r] = "found"
  /\ last_local_fetch' =
       IF last_local_fetch = None \/ last_local_fetch.height < asked[r]
       THEN [height |-> asked[r], time |-> asked_at[r]] ELSE last_local_fetch
  /\ Leave(r)
  /\ UNCHANGED <<hl_node, loop, local>>

--------------------------------------------------------------------------------
Ingest == Backfill \/ FindFile \/ Scan \/ Sleep \/ FinallyScan \/ SwitchFile

Step(r) == LookLocally(r) \/ Missed(r) \/ FallBack(r) \/ Return(r)

Next ==
  \/ Tick \/ CreateFile
  \/ \E h \in Hours : WriteBlock(h) \/ WriteGarbled(h)
  \/ Ingest
  \/ \E r \in Requesters : Step(r) \/ AskLatest(r) \/ \E n \in AskedFor : Ask(r, n)

Spec == Init /\ [][Next]_vars

--------------------------------------------------------------------------------
\* Type correctness: the cache keeps its limit, and the ranges name files that
\* hold the block.
TypeOK ==
  /\ Hour(now) \in Hours /\ writing \in Hours /\ height \in 0..MaxHeight
  /\ ingest \in {"backfill", "finding", "scanning", "switching", "moving"}
  /\ dt \in Hours /\ cursor \in -1..MaxHeight /\ next_height \in Nat
  /\ Len(cache) <= CacheSize /\ IsInjective(cache) /\ Range(cache) \subseteq Heights
  /\ \A n \in DOMAIN ranges : Contains(Lines(ranges[n]), n)
  /\ \A r \in Requesters : pc[r] \in {"idle", "looking", "missed", "falling back", "found"}

\* Block n of file h is still ahead of the ingest loop.
Ahead(h, n) ==
  \/ ingest = "backfill"
  \/ ingest # "finding" /\ h > dt
  \/ ingest # "finding" /\ h = dt /\ (cursor < 0 \/ ~ Contains(SubSeq(Lines(h), 1, cursor), n))

\* The backfill and the ingest loop together leave no block behind: every block
\* in a local file, late writes included, can be found or is still ahead of the
\* loop.  The exception is a block written after the backfill to a file older
\* than the one the loop starts with, the latest, which may still be empty.
IngestSkipsNothing ==
  \A h \in Hours : \A n \in Blocks(Lines(h)) :
    n >= FirstHeight /\ n \notin DOMAIN ranges =>
      Ahead(h, n) \/ n \in unseen

\* A block known to be in a local file whose blocks fit in the cache is served from
\* there: loading the file never evicts the block asked for.
KnownBlockIsServedLocally ==
  [][\A r \in Requesters :
       pc[r] = "looking" /\ pc'[r] = "missed" /\ asked[r] \in DOMAIN ranges =>
         Len(Lines(ranges[asked[r]])) > CacheSize]_vars

\* "Block source that monitors the local ingest directory": every block that
\* hl-node writes completely becomes known, as long as it wrote in every hour since
\* the loop started.  The loop looks only at the file of the next hour, so an hour
\* without blocks holds it up for ever, and nothing is said of the blocks after it.
EveryLineIsIngested ==
  \A n \in Heights :
    (\E h \in Hours : /\ started_at <= h /\ ingest = "scanning" /\ Contains(Lines(h), n)
                      /\ \A g \in (started_at + 1) .. (h - 1) : file_has_blocks(g))
      ~> n \in DOMAIN ranges

\* No fetch of a lower block within the threshold.
Settled == last_local_fetch # None /\ now - last_local_fetch.time >= Threshold

\* Once the threshold has passed after the last fetch, a block that hl-node does
\* not have is served from the fallback, unless another fetch comes in between.
FallbackServes ==
  \A n \in FallbackHas :
    Settled ~> \/ \E r \in Requesters : pc[r] = "found" /\ asked[r] = n
               \/ ~ Settled
               \/ last_local_fetch.height >= n
================================================================================
