\* eth_getBlockReceipts at latest while a block is imported.
SPECIFICATION Spec
CONSTANTS
  Blocks <- TwoBlocks
  MaxHeight = 2
  Ids <- OnlyLatest
  Queries <- NoQuery
  CallRequests <- NoCalls
  DefaultCompliant = TRUE
  MinTransactionGas = 21
  CallStipendGas = 23
  ErrorRatio = 15
  LowestAddress = 7
  DefaultHighest = 8
  WarmBlock = 2
  Configurations <- OneOrOther
  TimeoutDuration = 3
  Latest = Latest
  Pending = Pending
  None = None
  InvalidHeight = InvalidHeight
INVARIANT ReceiptsOfOneBlock
