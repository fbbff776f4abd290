SPECIFICATION Spec
CONSTANTS
  p1 = p1
  p2 = p2
  u1 = u1
  u2 = u2
  v1 = v1
  Procs = {p1, p2}
  Binary <- MCBinary
  Slots = {1, 2}
  Updates = {u1, u2}
  Views = {v1}
  Home <- MCHome
  MaxCrashes = 1
INVARIANT PoolIsClean
PROPERTIES SchemaIsOwn ImplementsAtomicStore
CHECK_DEADLOCK FALSE
