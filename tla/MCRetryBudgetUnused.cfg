SPECIFICATION Spec
CONSTANTS
  c1 = c1
  c2 = c2
  Calls = {c1}
  DispatchParts = {1}
  StatusParts = {1}
  RetryParts = {1}
  NumRetryTopics = 2
  MaxAttempts <- MCThreeAttempts
  Limit = 0
  FaultKinds = {}
  MaxFaults = 0
INVARIANTS
  FailsOnlyWhenExhausted
