SPECIFICATION Spec
CONSTANTS
  Requests = {r1, r2}
  Workers = {w1, w2}
  Sids = {s1, s2}
  NoSid = NoSid
  Kinds = {"message", "panic"}
  Tools = {}
  MaxTroubles = 0
PROPERTIES
  SessionUnlessDown
CHECK_DEADLOCK FALSE
