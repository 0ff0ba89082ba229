SPECIFICATION Spec
CONSTANTS
  Scenes = {s1}
  Capacities = {1, 2}
  Addresses = {a1, a2}
  Pools = {p1, p2, p3}
  NoPool = NoPool
  Discovery = Discovery
  Updates = {u1}
  Releases = {}
  MaxChanges = 4
PROPERTY ChangedEngineReleased
CHECK_DEADLOCK FALSE
