SPECIFICATION Spec
CONSTANTS
  o1 = o1
  o2 = o2
  a1 = a1
  m1 = m1
  m2 = m2
  b1 = b1
  b2 = b2
  NoID = NoID
  Tasks = {1, 2}
  Ops = {o1, o2}
  Attempts = {a1}
  MessageIds = {m1, m2}
  Bodies = {b1, b2}
  Envelopes <- SomeEnvelopes
  ReplayWindow = 1
  FutureSkew = 1
  TerminalRetention = 2
  MaxTime = 5
INVARIANTS
  AppliedOnce
  ReplayIsRecognised
PROPERTIES
  DedupOutlivesWork
