\* Two forks of three blocks, written by the pipeline and by the engine, removed
\* once by a reorganisation, and fetched in batches of two.
SPECIFICATION FairSpec
CONSTANTS
  None = None
  Blocks <- AllBlocksOfSource
  Genesis <- GenesisHeader
  Requests <- Heights
  TargetBlobGas = 2
  BodyBatch = 2
  MaxReorgs = 1
  BATCH_SIZE = 2
  MAX_BATCH = 2
INVARIANT StoredBodiesAreTheBlocks
INVARIANT VerdictsAreRight
INVARIANT FetchedBlocksAreTheBlocks
PROPERTY PipelineCompletes
