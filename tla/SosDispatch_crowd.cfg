SPECIFICATION Spec
CONSTANTS
  Emergencies = {e1, e2}
  Calls = {c1}
  Limit = 1
  ControlRoomPhone = TRUE
INVARIANTS
  Traced
  CardIsTrue
  ConnectedMeansTold
  VisibleUntilOrdered
PROPERTIES
  KeepsLedger
  Concludes
CHECK_DEADLOCK FALSE
