SPECIFICATION Spec
CONSTANTS
  s1 = s1
  s2 = s2
  Schedulers = {s1, s2}
  Targets = {1, 2}
  CreatedAt <- MCCreatedAt
  Refused = {}
  MaxBatchSize = 1
  FaultKinds = {}
  MaxFaults = 0
INVARIANTS
  DialledAtMostOnce
