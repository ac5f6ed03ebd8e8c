SPECIFICATION Spec
CONSTANTS
  c1 = c1
  c2 = c2
  p1 = p1
  p2 = p2
  Clients = {c1, c2}
  Phones = {p1, p2}
  HourLists <- MCHourLists
  Policies <- MCPolicies
  TicksPerMs = 2
  BaseDelay = 4
  MaxDelay = 20
  MaxFaults = 1
  DurationBits = 8
  JitterParts = 100
  Jitters = {0, 50, 300}
SYMMETRY MCSymmetry
INVARIANTS
  CampaignTypeOK
  SettledStatusHolds
  TargetsRegistered
  HoursBeforeTargets
  PolicyUsable
  RetryDelaysBounded
PROPERTIES
  CompletedLeftByPause
