SPECIFICATION FairCollector
CONSTANTS
  o1 = o1
  o2 = o2
  a1 = a1
  m1 = m1
  m2 = m2
  b1 = b1
  NoID = NoID
  Tasks = {1, 2, 3}
  Ops = {o1, o2}
  Attempts = {a1}
  MessageIds = {m1, m2}
  Bodies = {b1}
  Envelopes <- SomeEnvelopes
  ReplayWindow = 0
  FutureSkew = 0
  TerminalRetention = 0
  MaxTime = 1
  OpRows <- SomeRows
  MaxTasks = 2
  MaxRows = 3
INVARIANTS
  BudgetIsKept
  CallsGetSomewhere
PROPERTIES
  SettledTasksGo
  ImplementsRetention
