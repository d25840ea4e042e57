\* Blocks of a fork, one of them bad: in any order with every failure, or one at a time.
SPECIFICATION FairSpec
CONSTANTS
  Genesis <- GenesisBlock
  Blocks <- Fork
  MaxAnnounced = 3
  Scenarios <- Forks
INVARIANTS TypeOK PayloadBeforeForkChoice HeadIsCanonical
PROPERTIES HeadNeverDrops EveryBlockBecomesHead
CHECK_DEADLOCK FALSE
