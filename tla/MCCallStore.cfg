SPECIFICATION Spec
CONSTANTS
  w1 = w1
  w2 = w2
  w3 = w3
  Writers = {w1, w2, w3}
  Outcomes = {"completed", "failed"}
  Attempts = {1, 2}
  MaxFaults = 1
  MaxOverlaps = 2
SYMMETRY MCSymmetry
\* A call whose creation failed has no outcomes.
CHECK_DEADLOCK FALSE
INVARIANTS
  StoreTypeOK
  IndexAgrees
  DamageBounded
  SoloUpdateLists
PROPERTIES
  ImplementsRegister
