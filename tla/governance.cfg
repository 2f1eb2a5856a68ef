CONSTANTS
  Record = {asset, proof}
  Evidence = {proof}
  Reviewed = {asset}
  Hold = {h}
  Clerk = {c1, c2}
  MaxTime = 1
  MaxEvents = 4
  Editor = {e1, e2}
  Title = {t1, t2}
  FirstTitle = t1
  MaxVersions = 2
  MaxWorkflows = 2
  MaxSteps = 2
  None = None
  Root = {a, b}
  Channel = {}
  Escalating = {}
  InApp = {}
  Digest = {a, b}
  Worker = {w1, w2}
  MaxRetries = 2
  ClaimBatch = 2
  MaxLate = 1
  User = {u, v}
  Founder = u
  Super = {}
  Role = {admin, viewer, own}
  Custom = {own}
  Viewer = viewer
  Admin = admin
  Pair = {{viewer, own}}
  Desks = 2
  Horizon = 2
  Window <- Windows
  MaxChanges = 3
SPECIFICATION GovernanceSpec
INVARIANTS
  TypesOK
  ChainIsGapless
  ApprovedAsRead
  HoldsProtect
  HistoryIsLinear
  ReleasedWasApproved
  StatusesAgree
  SendsAreFew
  KeepsAnAdministrator
  ConflictsAreOnRecord
  AssignedRolesLive
PROPERTIES
  DeletedWhenCleared
  AsIfAtOnce
  OnlyStaleEditsRewrite
  TerminalIsFinal
  RevokedAsReviewed
CHECK_DEADLOCK FALSE
