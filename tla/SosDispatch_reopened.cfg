SPECIFICATION Spec
CONSTANTS
  Emergencies = {e1}
  Calls = {c1}
  Limit = 1
  ControlRoomPhone = TRUE
INVARIANT
  ReopenedReadsOpen
CHECK_DEADLOCK FALSE
