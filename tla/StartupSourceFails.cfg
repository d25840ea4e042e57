\* A directory tree that is written to while the node starts.
SPECIFICATION FairSpec
CONSTANTS
  RequestMayFail = FALSE
  DirBlocks = 4
  SubdirBlocks = 2
  PageSize = 2
  Radix = 4
  MaxBlock = 5
  StartBlocks = {4}
  None = None
  MaxQueued = 3
PROPERTY ServiceStarts
CHECK_DEADLOCK FALSE
