SPECIFICATION RunnerSpec
CONSTANTS
  t1 = t1
  o1 = o1
  s1 = s1
  l1 = l1
  l2 = l2
  Tasks = {t1}
  Ops = {o1}
  Scopes = {s1}
  Attempts = {"a1", "a2"}
  Leases = {l1, l2}
  Actors = {w1}
  Worker = w1
  EvidenceIds <- Records
  VerificationIds = {v1}
  RegisteredKinds = {}
  MaxInt64 = 6
  Descriptors <- OneMutation
  Calls = {c1, c2}
  Messages = {"m1", "m2"}
  Offers <- RetryOffers
  MaxHeartbeats = 2
  Faults = {}
SYMMETRY Symmetry
CHECK_DEADLOCK FALSE
INVARIANTS
  RetryIsLinked
  OverlapIsJustified
