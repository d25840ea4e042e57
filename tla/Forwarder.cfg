\* Two workers, two sibling heads and the pending block, a cache one entry too small, and upstream requests that fail.
SPECIFICATION FairSpec
CONSTANTS
  Callers = {c1, c2}
  Flights = {f1, f2}
  Inputs = {i1}
  Scopes <- HeadsAndPending
  MaxCacheEntries = 2
  Outputs = {o1}
  a = a
  b = b
  Hashes = {a, b}
  Rejected = Rejected
  Failed = Failed
  None = None
INVARIANTS TypeOK SingleFlight NoLostWakeup
PROPERTIES ImplementsSharedReads ReadsAgreeAtHead EveryReadReturns
