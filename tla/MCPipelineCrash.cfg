SPECIFICATION FairSpec
CONSTANTS
  c1 = c1
  c2 = c2
  Calls = {c1}
  DispatchParts = {1}
  StatusParts = {1}
  RetryParts = {1}
  NumRetryTopics = 1
  MaxAttempts <- MCMixedAttempts
  Limit = 1
  FaultKinds = {"crash"}
  MaxFaults = 1
INVARIANTS
  NoCallLost
PROPERTIES
  AcceptedCallsSettle
