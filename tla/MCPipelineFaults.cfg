SPECIFICATION Spec
CONSTANTS
  c1 = c1
  c2 = c2
  Calls = {c1}
  DispatchParts = {1}
  StatusParts = {1}
  RetryParts = {1}
  NumRetryTopics = 2
  MaxAttempts <- MCMixedAttempts
  Limit = 1
  FaultKinds = {"crash", "shutdown", "kafka", "redis", "scylla", "postgres"}
  MaxFaults = 1
INVARIANTS
  TypeOK
  AttemptBudget
  RetryFollowsFailure
  LossBounded
