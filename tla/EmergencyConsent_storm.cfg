SPECIFICATION Spec
CONSTANTS
  Requests = {r1, r2}
  Workers = {w1}
  Sids = {s1, s2, s3}
  NoSid = NoSid
  Kinds = {"message", "yes"}
  Tools = {"trigger_sos"}
  MaxTroubles = 1
INVARIANTS
  Grounded
PROPERTIES
  YesAnswersPrompt
CHECK_DEADLOCK FALSE
SYMMETRY Symmetry
VIEW View
