CONSTANTS
  Editor = {e1, e2}
  Title = {t1, t2}
  FirstTitle = t1
  MaxVersions = 1
  MaxWorkflows = 1
  MaxSteps = 1
SPECIFICATION PolicySpec
PROPERTY PublishedIsNotEdited
CHECK_DEADLOCK FALSE
