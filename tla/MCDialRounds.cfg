SPECIFICATION FairSpec
CONSTANTS
  c1 = c1
  c2 = c2
  Campaigns = {c1, c2}
  Zone <- MCZone
  HourLists <- MCHourLists
  DaysPerWeek = 3
  HoursPerDay = 2
  MinutesPerHour = 1
  WorkerCount = 1
  CampaignsPerWorker = 1
  DefaultFetchLimit = 1
  MaxBatchSize = 1
  MaxTargets = 1
  MaxFaults = 1
INVARIANTS
  RoundsTypeOK
  HoursFollowTheWeek
  PausedDialsBounded
  ClosedDialsBounded
PROPERTIES
  FittingCampaignsServed
