SPECIFICATION Spec
CONSTANTS
  Emergencies = {e1}
  Calls = {c1}
  Limit = 1
  ControlRoomPhone = TRUE
INVARIANT
  FailedWriteStillAnswers
CHECK_DEADLOCK FALSE
