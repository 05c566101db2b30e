SPECIFICATION Spec
CONSTANTS
  Requests = {r1}
  Workers = {w1}
  Sids = {s1, s2}
  NoSid = NoSid
  Kinds = {"start", "9", "voice"}
  Tools = {"escalate_to_human"}
  MaxTroubles = 0
INVARIANT
  VoiceKeepsEscalation
CHECK_DEADLOCK FALSE
