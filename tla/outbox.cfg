CONSTANTS
  None = None
  Message = {m1, m2}
  Dispatcher = {d1, d2}
  Token = {t1, t2, t3}
  MaxAttempts = 2
  BatchSize = 2
  MaxInserts = 2
  MaxCrashes = 1
  MaxLate = 1
SYMMETRY Symmetry
SPECIFICATION DurableSpec
INVARIANTS
  DurableTypeOK
  NothingCommittedVanishes
  OffersArePaid
PROPERTIES
  TerminalIsFinal
CHECK_DEADLOCK FALSE
