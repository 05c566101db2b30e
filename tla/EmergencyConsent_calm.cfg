SPECIFICATION Spec
CONSTANTS
  Requests = {r1}
  Workers = {w1}
  Sids = {s1, s2}
  NoSid = NoSid
  Kinds <- EveryKind
  Tools <- EveryTool
  MaxTroubles = 0
INVARIANTS
  TypeOK
  WrittenThrough
PROPERTIES
  YesAnswersPrompt
  KeyConfirms
  EmergencyHasSession
CHECK_DEADLOCK FALSE
