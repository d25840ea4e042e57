\* Poller and request handler over small caches and a source that may fail.
SPECIFICATION FairSpec
CONSTANTS
  MaxHeight = 3
  GapBlocks <- GapAtTwo
  BlockLimit = 2
  HashLimit = 3
  ChannelSize = 1
  Cutoffs <- NoneOrTwo
  Requests <- AllKinds
  None = None
  SourceMayFail = TRUE
INVARIANTS IndexIsSound AnnouncedInOrder RepliesAnswerRequests
PROPERTIES AnnouncedResolves EveryBlockIsAnnounced
