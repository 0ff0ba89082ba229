SPECIFICATION FairSpec
CONSTANTS
  Scenes = {s1}
  Capacities = {1, 2}
  Addresses = {a1, a2}
  Pools = {p1, p2, p3}
  NoPool = NoPool
  Discovery = Discovery
  Updates = {}
  Releases = {}
  MaxChanges = 3
PROPERTY EqualPoolsKept
PROPERTY Converges
PROPERTY StatusConverges
PROPERTY TableKept
CHECK_DEADLOCK FALSE
