SPECIFICATION Spec
CONSTANTS
  MaxTurns = 2
  MAX_RETRIES = 1
  Kinds = {"1", "4", "voice", "#"}
INVARIANTS
  TypeOK
  AppliedOnce
  ScreenTrue
  DispatchConfirmed
CHECK_DEADLOCK FALSE
