------------------------- MODULE MCEmergencyConsent -------------------------
(***************************************************************************)
(* EmergencyConsent for TLC.  Request slots, workers and session ids are   *)
(* interchangeable.                                                        *)
(***************************************************************************)
EXTENDS EmergencyConsent, TLC

Symmetry == Permutations(Requests) \cup Permutations(Workers) \cup Permutations(Sids)

(* What the pilgrim was last told matters only while nothing is disturbed. *)
View == <<storeVars, upVars, requestVars, disturbVars, consentVars,
          IF Calm THEN expectVars ELSE <<>> >>

(* Every tool that changes the session.                                    *)
EveryTool == {"trigger_sos", "escalate_to_human"}

(* Every kind of request; the keys are those the menu tells apart.         *)
EveryKind == (AllKinds \ Keys) \cup {"0", "1", "4", "5", "9", "#"}
=============================================================================
