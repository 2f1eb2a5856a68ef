CONSTANTS
  Idle = Idle
  thing = thing
  Event = {e, f}
  EntityOf <- OneEntity
  Rule = {r}
  Recipient = {p, q}
  MaxRuns = 2
  MaxReturns = 1
  None = None
  Message = {m1, m2}
  Dispatcher = {d1}
  Token = {t1, t2}
  MaxAttempts = 2
  BatchSize = 2
  MaxInserts = 2
  MaxCrashes = 1
  MaxLate = 1
SPECIFICATION EventsSpec
INVARIANTS
  RulesTypeOK
  NotifiedOnce
  MissedOnlyByCooldown
  CooldownUnlessRaced
PROPERTIES
  EveryEventIsHandled
  EveryMessageSettles
CHECK_DEADLOCK FALSE
