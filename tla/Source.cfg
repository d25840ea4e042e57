\* Three hours, some without blocks or with garbled lines; or two of them, a cache smaller than the chain, and a requester asking for blocks that hl-node or only the fallback has.
SPECIFICATION MCSpec
CONSTANTS
  MaxHour = 2
  TicksPerHour = 2
  MaxHeight = 3
  WrittenBefore <- OneBlock
  FirstHeight = 2
  FallbackHas = {3}
  CacheSize = 2
  Threshold = 1
  Requesters = {r1}
  AskedFor = {1, 3}
  MayGarble = TRUE
  Absent = Absent
  Garbled = Garbled
  None = None
INVARIANT IngestSkipsNothing
PROPERTIES EveryLineIsIngested KnownBlockIsServedLocally FallbackServes
CHECK_DEADLOCK FALSE
