SPECIFICATION Spec
CONSTANTS
  a = a
  b = b
  c = c
  Pools = {a, b, c}
  NoPool = NoPool
  Capacity <- Unequal
INVARIANT AlwaysPicks
INVARIANT PicksMostIdle
CHECK_DEADLOCK FALSE
