SPECIFICATION FairSpec
CONSTANTS
  s1 = s1
  s2 = s2
  Schedulers = {s1, s2}
  Targets = {1, 2, 3}
  CreatedAt <- MCCreatedAt
  Refused = {1}
  MaxBatchSize = 2
  FaultKinds = {"reject", "kafka", "postgres", "shutdown", "crash"}
  MaxFaults = 1
INVARIANTS
  SchedulerTypeOK
  ForgottenBounded
  DialsBounded
PROPERTIES
  PendingTargetsDialled
