SPECIFICATION Spec
CONSTANTS
  c1 = c1
  c2 = c2
  p1 = p1
  p2 = p2
  Clients = {c1}
  Phones = {p1, p2}
  HourLists <- MCHourLists
  Policies <- MCPolicies
  TicksPerMs = 2
  BaseDelay = 4
  MaxDelay = 20
  MaxFaults = 0
  DurationBits = 8
  JitterParts = 100
  Jitters = {0, 50}
PROPERTIES
  ValidHoursAreStored
