SPECIFICATION FairRunner
CONSTANTS
  t1 = t1
  o1 = o1
  s1 = s1
  l1 = l1
  l2 = l2
  Tasks = {t1}
  Ops = {o1}
  Scopes = {s1}
  Attempts = {"a1"}
  Leases = {l1}
  Actors = {w1}
  Worker = w1
  EvidenceIds <- Records
  VerificationIds = {v1}
  RegisteredKinds = {}
  MaxInt64 = 7
  Descriptors <- OneMutation
  Calls = {c1}
  Messages = {"m1"}
  Offers <- FirstOffer
  MaxHeartbeats = 2
  Faults = {}
CHECK_DEADLOCK FALSE
PROPERTIES
  EveryCallReturns
  AttemptsSettle
