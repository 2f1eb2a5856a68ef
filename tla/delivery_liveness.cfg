CONSTANTS
  None = None
  Message = {m, bad}
  Malformed = {bad}
  Worker = {w1}
  Copy = {c1, c2}
  Hash = {h1, h2}
  MaxAttempts = 2
  DeliveryLimit = 1
  Prefetch = 2
  MaxSends = 1
  MaxLate = 0
SPECIFICATION FairSpec
PROPERTY EveryMessageEnds
CHECK_DEADLOCK FALSE
