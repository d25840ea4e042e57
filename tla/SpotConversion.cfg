\* Two threads, three blocks, two restarts.
SPECIFICATION FairSpec
CONSTANTS
  None = None
  t1 = t1
  t2 = t2
  AddressSpace = 64
  HYPE_SYSTEM_ADDRESS = 22
  SpotPrefix = 32
  SENDER_RECOVERY_TOKEN = 10
  Threads = {t1, t2}
  Tokens = {10, 11}
  IndexOf <- MCIndexOf
  Overrides <- MCOverrides
  Blocks <- MCBlocks
  MaxConversions = 2
  MaxRestarts = 2
INVARIANTS FetchIsNeeded ConversionsAgree ConversionIsFaithful
PROPERTY EveryConversionEnds
CHECK_DEADLOCK FALSE
