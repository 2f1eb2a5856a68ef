CONSTANTS
  None = None
  Message = {m}
  Malformed = {}
  Worker = {w1, w2}
  Copy = {c1, c2}
  Hash = {h1}
  MaxAttempts = 2
  DeliveryLimit = 1
  Prefetch = 1
  MaxSends = 2
  MaxLate = 1
SPECIFICATION Spec
SYMMETRY Symmetry
INVARIANTS
  TypeOK
  NothingIsLost
  ExclusiveUnlessOverrun
PROPERTY KeepsPromise
CHECK_DEADLOCK FALSE
