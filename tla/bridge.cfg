CONSTANTS
  Deadline = {1, 2, 3}
  Exception = {x}
  Evidence = {v}
  Unsendable = {1}
  Buffer = 2
  MaxEnds = 1
  MaxPurges = 1
  None = None
  Root = {a}
  Channel = {c}
  Escalating = {a}
  InApp = {a}
  Digest = {}
  Worker = {w1, w2}
  MaxRetries = 2
  ClaimBatch = 2
  MaxLate = 1
SPECIFICATION RemindersSpec
INVARIANTS
  BridgeTypeOK
  NothingVanishes
PROPERTIES
  EveryDeadlineInReachIsQueued
  EveryNotificationEnds
  EveryOverdueIsAnswered
CHECK_DEADLOCK FALSE
