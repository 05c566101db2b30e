--------------------------- MODULE EmergencyLedger ---------------------------
(***************************************************************************)
(* What the emergency dispatch promises, with no word of how: an emergency *)
(* is entered in the ledger, or at least in the error log that is          *)
(* reconciled by hand, before anybody is told of it and before the pilgrim *)
(* is answered; once entered it stays open until somebody in the control   *)
(* room has ordered it closed.  SosDispatch implements this specification. *)
(***************************************************************************)
CONSTANT Emergencies

VARIABLES
  entry,     \* entry[e]: where the ledger stands on e
  logged,    \* emergencies written to the error log for manual reconciliation
  told,      \* emergencies the control room was told of (push or SMS)
  answered,  \* emergencies whose pilgrim got a card
  ordered    \* emergencies somebody in the control room ordered closed

vars == <<entry, logged, told, answered, ordered>>

TypeOK ==
  /\ entry \in [Emergencies -> {"absent", "open", "closed"}]
  /\ logged \subseteq Emergencies
  /\ told \subseteq Emergencies
  /\ answered \subseteq Emergencies
  /\ ordered \subseteq Emergencies

Init ==
  /\ entry = [e \in Emergencies |-> "absent"]
  /\ logged = {}
  /\ told = {}
  /\ answered = {}
  /\ ordered = {}

Traced(e) == entry[e] # "absent" \/ e \in logged

(* The entry is made while nobody has heard of the emergency yet; a write  *)
(* whose acknowledgement is lost is entered and logged at once.            *)
Enter(e) ==
  /\ entry[e] = "absent"
  /\ e \notin told \cup answered
  /\ entry' = [entry EXCEPT ![e] = "open"]
  /\ logged' \in {logged, logged \cup {e}}
  /\ UNCHANGED <<told, answered, ordered>>

LogForReconciliation(e) ==
  /\ e \notin told \cup answered
  /\ logged' = logged \cup {e}
  /\ UNCHANGED <<entry, told, answered, ordered>>

Tell(e) ==
  /\ Traced(e)
  /\ told' = told \cup {e}
  /\ answered' \in {answered, answered \cup {e}}   \* the SMS leaves as the card does
  /\ UNCHANGED <<entry, logged, ordered>>

Answer(e) ==
  /\ Traced(e)
  /\ answered' = answered \cup {e}
  /\ UNCHANGED <<entry, logged, told, ordered>>

OrderClosed(e) ==
  /\ entry[e] # "absent"
  /\ ordered' = ordered \cup {e}
  /\ UNCHANGED <<entry, logged, told, answered>>

Close(e) ==
  /\ entry[e] = "open"
  /\ e \in ordered
  /\ entry' = [entry EXCEPT ![e] = "closed"]
  /\ UNCHANGED <<logged, told, answered, ordered>>

Reopen(e) ==
  /\ entry[e] = "closed"
  /\ entry' = [entry EXCEPT ![e] = "open"]
  /\ UNCHANGED <<logged, told, answered, ordered>>

Next ==
  \E e \in Emergencies :
    \/ Enter(e)
    \/ LogForReconciliation(e)
    \/ Tell(e)
    \/ Answer(e)
    \/ OrderClosed(e)
    \/ Close(e)
    \/ Reopen(e)

Spec == Init /\ [][Next]_vars
=============================================================================
