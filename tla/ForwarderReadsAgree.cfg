\* The same cache, without the proviso of ReadsAgreeAtHead.
SPECIFICATION Spec
CONSTANTS
  Callers = {c1, c2}
  Flights = {f1, f2}
  Inputs = {i1}
  Scopes <- HeadsAndPending
  MaxCacheEntries = 2
  Outputs = {o1}
  a = a
  b = b
  Hashes = {a, b}
  Rejected = Rejected
  Failed = Failed
  None = None
SYMMETRY Symmetry
PROPERTY ReadsAgree
