SPECIFICATION FairSpec
CONSTANTS
  Requests = {r1, r2}
  Clients = {c1, c2}
  NoClient = NoClient
  Capacity = 1
  InitSize = 1
  Modes = {0}
  IdleDur = 10
  DialMayFail = FALSE
  MayClose = TRUE
PROPERTY CloseDestroysAll
CHECK_DEADLOCK FALSE
