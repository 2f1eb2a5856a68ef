CONSTANTS
  Record = {asset, proof}
  Evidence = {proof}
  Reviewed = {asset}
  Hold = {h}
  Clerk = {c1, c2}
  MaxTime = 1
  MaxEvents = 4
SPECIFICATION GovSpec
PROPERTY PendingExceptionProtects
CHECK_DEADLOCK FALSE
