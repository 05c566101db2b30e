SPECIFICATION Spec
CONSTANTS
  MaxTurns = 3
  MAX_RETRIES = 0
  Kinds = {"0", "1", "4"}
INVARIANT
  DispatchSeen
CHECK_DEADLOCK FALSE
