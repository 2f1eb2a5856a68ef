CONSTANTS
  None = None
  Message = {m}
  Malformed = {}
  Worker = {w1, w2}
  Copy = {c1, c2, c3}
  Hash = {h1}
  MaxAttempts = 2
  DeliveryLimit = 4
  Prefetch = 1
  MaxSends = 1
  MaxLate = 0
SPECIFICATION CrashOnlySpec
SYMMETRY Symmetry
INVARIANT DeadRetainsFailures
CHECK_DEADLOCK FALSE
