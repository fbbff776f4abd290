SPECIFICATION Spec
CONSTANTS
  r1 = r1
  r2 = r2
  Runs <- TwoRuns
  Rogue = {}
  MaxParallel = 2
  MaxHeartbeats = 1
  WaitsIdle = TRUE
SYMMETRY Symmetry
CHECK_DEADLOCK FALSE
INVARIANTS
  SlotCoversWork
  IdleChannelHonest
  IdleBarrier
