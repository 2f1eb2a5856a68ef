CONSTANTS
  None = None
  Root = {a, b}
  Channel = {}
  Escalating = {}
  InApp = {}
  Digest = {a, b}
  Worker = {w1, w2}
  MaxRetries = 2
  ClaimBatch = 2
  MaxLate = 1
SPECIFICATION Spec
SYMMETRY Symmetry
INVARIANT ExhaustedIsDead
CHECK_DEADLOCK FALSE
