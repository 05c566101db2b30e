SPECIFICATION Spec
CONSTANTS
  Emergencies = {e1}
  Calls = {c1, c2, c3}
  Limit = 1
  ControlRoomPhone = TRUE
INVARIANTS
  TypeOK
  IndInv
  AckedNoteKept
  ResolvedIsTimed
PROPERTIES
  TriggerKeepsOperatorWork
SYMMETRY Symmetry
CHECK_DEADLOCK FALSE
