SPECIFICATION FairSpec
CONSTANTS
  c1 = c1
  c2 = c2
  Calls = {c1, c2}
  DispatchParts = {1}
  StatusParts = {1, 2}
  RetryParts = {1}
  NumRetryTopics = 1
  MaxAttempts <- MCMixedAttempts
  Limit = 0
  FaultKinds = {}
  MaxFaults = 0
INVARIANTS
  QuiescentStatsAgree
PROPERTIES
  ImplementsLifecycle
