\* A chain announced in order while the engine is in backfill sync.
SPECIFICATION FairSpec
CONSTANTS
  Genesis <- GenesisBlock
  Blocks <- ChainOfThree
  MaxAnnounced = 3
  Scenarios <- Backfill
CHECK_DEADLOCK FALSE
PROPERTY EveryBlockIsSubmitted
