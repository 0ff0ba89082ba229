SPECIFICATION Spec
CONSTANTS
  Scenes = {s1}
  Capacities = {1}
  Addresses = {a1}
  Pools = {p1, p2, p3}
  NoPool = NoPool
  Discovery = Discovery
  Updates = {u1}
  Releases = {x1}
  MaxChanges = 2
SYMMETRY PoolSymmetry
INVARIANT ClosedPoolsLeave
INVARIANT EngineStillExists
CHECK_DEADLOCK FALSE
