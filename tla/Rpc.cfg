\* Every block, receipt, log and call method by number, tag and hash while blocks arrive.
SPECIFICATION FairSpec
CONSTANTS
  Blocks <- ThreeBlocks
  MaxHeight = 3
  Ids <- NumbersAndLatest
  Queries <- AllQueries
  CallRequests <- SomeCalls
  DefaultCompliant = TRUE
  MinTransactionGas = 21
  CallStipendGas = 23
  ErrorRatio = 15
  LowestAddress = 7
  DefaultHighest = 8
  WarmBlock = 2
  Configurations <- OneOrOther
  TimeoutDuration = 3
  Latest = Latest
  Pending = Pending
  None = None
  InvalidHeight = InvalidHeight
INVARIANTS CompliantViewsAgree SystemViewsAgree ReadsMatchState HistoryIsReproducible EstimateIsRight SendAnswersAreTrue
PROPERTY EveryCallEnds
