SPECIFICATION Spec
CONSTANTS
  t1 = t1
  t2 = t2
  o1 = o1
  o2 = o2
  s1 = s1
  s2 = s2
  Tasks = {t1}
  Ops = {o1}
  Scopes = {s1, s2}
  Attempts = {a1, a2}
  Leases = {l1, l2}
  Actors = {w1}
  EvidenceIds = {e1, e2, e3}
  VerificationIds = {v1, v2}
  RegisteredKinds = {"other"}
  MaxInt64 = 9
  Descriptors <- OneMutation
SYMMETRY Symmetry
CHECK_DEADLOCK FALSE
INVARIANTS
  GenerationsDense
  RetryIsJustified
PROPERTIES
  LostAuthorityIsFinal
  RevisionCoversDecision
