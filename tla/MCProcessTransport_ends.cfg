SPECIFICATION FairSpec
CONSTANTS
  r1 = r1
  r2 = r2
  Runs <- TwoRuns
  Rogue <- OneRogue
  MaxParallel = 1
  MaxHeartbeats = 1
  WaitsIdle = FALSE
CHECK_DEADLOCK FALSE
INVARIANTS
  ClaimIsClean
PROPERTIES
  EveryRunReturns
  SlotsComeBack
