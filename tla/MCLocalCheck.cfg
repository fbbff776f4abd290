SPECIFICATION FairCheck
CONSTANTS
  w1 = w1
  Ids = {i1, i2}
  Configs = {k1}
  Workspaces = {w1}
  WorkspaceOf <- OneWorkspace
  Exits <- SomeExits
  Calls = {c1, c2}
  NoId = NoId
  NoConfig = NoConfig
  ReplayWindow = 0
  TerminalRetention = 0
  ReceiptRetention = 0
  MaxTime = 1
  MaxChecks = 2
  MaxStops = 1
CHECK_DEADLOCK FALSE
INVARIANTS
  CommandRunsOnce
  WorkspaceIsExclusive
  VerdictsAreProved
PROPERTIES
  ChecksFinish
