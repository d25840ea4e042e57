\* Two segments of two files, two rows in MDBX, two ends of the process, and three
\* blocks written meanwhile, the first of them in a new directory.
SPECIFICATION FairLifecycleSpec
CONSTANTS
  RequestMayFail = TRUE
  DirBlocks = 4
  SubdirBlocks = 2
  PageSize = 2
  Radix = 4
  MaxBlock = 7
  StartBlocks = {4}
  None = None
  MaxQueued = 1
  Rows = 2
  Segments = 2
  Files = {data, config}
  data = data
  config = config
  ConfigFile = config
  Chunks = 2
  MaxCrashes = 2
INVARIANTS SearchIsRight TargetBeforeBlocks OnlyTornMovesLoseHeaders RunsOnMigratedHeaders
PROPERTY NodeComesUp
CHECK_DEADLOCK FALSE
