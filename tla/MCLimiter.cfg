SPECIFICATION FairSpec
CONSTANTS
  w1 = w1
  w2 = w2
  w3 = w3
  Workers = {w1, w2, w3}
  Limit = 2
  TTL = 6
  MaxHold = 5
INVARIANTS
  LimiterTypeOK
PROPERTIES
  ImplementsSlots
  SlotsComeBack
