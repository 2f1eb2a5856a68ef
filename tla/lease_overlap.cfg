\* Safety: symmetric replicas and tokens, one crash.
CONSTANTS
  r1 = r1
  r2 = r2
  t1 = t1
  t2 = t2
  t3 = t3
  None = None
  Replica = {r1, r2}
  Token = {t1, t2, t3}
  LeaseTime = 5
  AnswerTime = 1
  StopTime = 1
  MaxCrashes = 1
SPECIFICATION Spec
SYMMETRY Symmetry
INVARIANT AtMostOneReplica
