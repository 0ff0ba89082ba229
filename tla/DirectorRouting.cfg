SPECIFICATION FairSpec
CONSTANTS
  Scenes = {a, b}
  Pools = {p1, p2}
  NoPool = NoPool
  Requests = {r1, r2}
  Malformed = Malformed
  Asked = {a, Malformed}
  Capacity = 1
INVARIANT RightEngine
PROPERTY RefusalJustified
PROPERTY WaiterServedOrReleased
