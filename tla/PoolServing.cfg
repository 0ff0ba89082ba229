SPECIFICATION FairSpec
CONSTANTS
  Requests = {r1, r2}
  Clients = {c1, c2, c3}
  NoClient = NoClient
  Capacity = 1
  InitSize = 3
  Modes = {0, 1, 2}
  IdleDur = 10
  DialMayFail = TRUE
  MayClose = TRUE
INVARIANT TypeOK
INVARIANT ExclusiveOwnership
INVARIANT ConnsAccounted
INVARIANT SlotsBounded
PROPERTY PoolLeases
PROPERTY SlotsLostOnlyByDial
PROPERTY WaiterServed
PROPERTY CancelHonoured
CHECK_DEADLOCK FALSE
