----------------------------- MODULE SosDispatch -----------------------------
(***************************************************************************)
(* Emergency dispatch: SosService (services/sos_service.py) with the       *)
(* endpoints that call it (routers/sos.py, routers/admin.py).              *)
(*                                                                         *)
(* A trigger request is a pipeline of awaits, and every await is a place   *)
(* where another worker runs, where the store or Redis may fail, and where *)
(* the worker may die.  Each step below is the code from one await to the  *)
(* next.  A call of set_status is two steps: the SELECT, and the commit of *)
(* the columns that differ from what the SELECT returned (SQLAlchemy       *)
(* writes changed columns only, and PostgreSQL runs READ COMMITTED, so two *)
(* calls in flight overwrite each other column by column).                 *)
(***************************************************************************)
EXTENDS Naturals, FiniteSets

CONSTANTS
  Emergencies,        \* trigger requests; each creates its own uuid4 event
  Calls,              \* set_status calls the control room makes
  Limit,              \* how many events one poll of the dashboard returns
  ControlRoomPhone    \* is settings.control_room_phone configured?

ASSUME LimitAssumption == Limit \in Nat \ {0}
ASSUME EmergenciesAssumption == IsFiniteSet(Emergencies)
ASSUME PhoneAssumption == ControlRoomPhone \in BOOLEAN

VARIABLES
  (* the store, the push channel, the SMS gateway and the error log *)
  row,        \* row[e]: the sos_events row
  told,       \* events Redis accepted on the channel sos:new
  texted,     \* events the control room was texted about
  logged,     \* events logged at error level as not persisted
  clock,      \* rows inserted so far; orders created_at
  (* one trigger request per event *)
  pc,         \* where the request stands
  session,    \* did _resolve_session produce a session id?
  loaded,     \* status in the ORM object after refresh; "NONE": persisted is False
  announced,  \* what _publish returned
  (* the control room *)
  inflight,   \* set_status calls between their SELECT and their commit
  sent,       \* calls already made
  acked,      \* <<call, event>> for every call with a note that was answered 200
  (* history, for the properties *)
  clash,      \* events on which two set_status calls overlapped
  touched,    \* events a set_status call has written
  ordered     \* events somebody asked to set RESOLVED

storeVars   == <<row, told, texted, logged, clock>>
triggerVars == <<pc, session, loaded, announced>>
roomVars    == <<inflight, sent, acked, clash, touched, ordered>>
vars == <<storeVars, triggerVars, roomVars>>

Unresolved == {"PENDING", "ACTIVATED"}
Statuses   == Unresolved \cup {"RESOLVED"}

(* resolved stands for "resolved_at is not null"; a note is named by the   *)
(* call that appended it.                                                  *)
Row == [status : {"ABSENT"} \cup Statuses, resolved : BOOLEAN,
        notes : SUBSET Calls, born : Nat]
NoRow == [status |-> "ABSENT", resolved |-> FALSE, notes |-> {}, born |-> 0]

Call == [id : Calls, on : Emergencies, status : Statuses, note : BOOLEAN,
         seen : Row]

Running  == {"persist", "refresh", "publish", "activate", "alert"}
Finished == {"answered", "failed", "crashed"}

TypeOK ==
  /\ row \in [Emergencies -> Row]
  /\ told \subseteq Emergencies
  /\ texted \subseteq Emergencies
  /\ logged \subseteq Emergencies
  /\ clock \in Nat
  /\ pc \in [Emergencies -> {"idle"} \cup Running \cup Finished]
  /\ session \in [Emergencies -> BOOLEAN]
  /\ loaded \in [Emergencies -> {"NONE"} \cup Statuses]
  /\ announced \in [Emergencies -> BOOLEAN]
  /\ inflight \subseteq Call
  /\ sent \subseteq Calls
  /\ acked \subseteq Calls \X Emergencies
  /\ clash \subseteq Emergencies
  /\ touched \subseteq Emergencies
  /\ ordered \subseteq Emergencies

Init ==
  /\ row = [e \in Emergencies |-> NoRow]
  /\ told = {}
  /\ texted = {}
  /\ logged = {}
  /\ clock = 0
  /\ pc = [e \in Emergencies |-> "idle"]
  /\ session = [e \in Emergencies |-> FALSE]
  /\ loaded = [e \in Emergencies |-> "NONE"]
  /\ announced = [e \in Emergencies |-> FALSE]
  /\ inflight = {}
  /\ sent = {}
  /\ acked = {}
  /\ clash = {}
  /\ touched = {}
  /\ ordered = {}

Recorded(e) == row[e].status # "ABSENT"
Goto(e, step) == pc' = [pc EXCEPT ![e] = step]

-----------------------------------------------------------------------------
(* trigger, step by step *)

(* Mutant of Trigger: announce first, persist later.                       *)
TriggerUnrecorded(e) ==
  /\ pc[e] = "idle"
  /\ Goto(e, "publish")
  /\ \E found \in BOOLEAN : session' = [session EXCEPT ![e] = found]
  /\ UNCHANGED <<storeVars, loaded, announced, roomVars>>

(* The facility look-up and _resolve_session.  Without a session row, or   *)
(* without a database at all, session_id stays None.                       *)
Trigger(e) ==
  /\ pc[e] = "idle"
  /\ Goto(e, "persist")
  /\ \E found \in BOOLEAN : session' = [session EXCEPT ![e] = found]
  /\ UNCHANGED <<storeVars, loaded, announced, roomVars>>

InsertRow(e) ==
  /\ row' = [row EXCEPT ![e] = [status |-> "PENDING", resolved |-> FALSE,
                                notes |-> {}, born |-> clock + 1]]
  /\ clock' = clock + 1

(* _persist_pending: the commit.  sos_events.session_id is NOT NULL, so it *)
(* can only succeed with a session.                                        *)
PersistCommit(e) ==
  /\ pc[e] = "persist"
  /\ session[e]
  /\ InsertRow(e)
  /\ Goto(e, "refresh")
  /\ UNCHANGED <<told, texted, logged, session, loaded, announced, roomVars>>

(* Mutants of PersistFail: the failure is swallowed; the commit is retried *)
(* until it succeeds.                                                      *)
PersistFailSilent(e) ==
  /\ pc[e] = "persist"
  /\ Goto(e, "publish")
  /\ UNCHANGED <<storeVars, session, loaded, announced, roomVars>>
PersistFailRetry(e) ==
  /\ pc[e] = "persist"
  /\ logged' = logged \cup {e}
  /\ UNCHANGED <<row, clock, told, texted, triggerVars, roomVars>>

(* The commit raises.  The row may be in the store all the same, when only *)
(* the acknowledgement was lost.                                           *)
PersistFail(e) ==
  /\ pc[e] = "persist"
  /\ \/ session[e] /\ InsertRow(e)
     \/ UNCHANGED <<row, clock>>
  /\ logged' = logged \cup {e}
  /\ Goto(e, "publish")
  /\ UNCHANGED <<told, texted, session, loaded, announced, roomVars>>

(* The refresh is a statement of its own: an operator may already have     *)
(* changed the row it reads.                                               *)
Refresh(e) ==
  /\ pc[e] = "refresh"
  /\ Recorded(e)
  /\ loaded' = [loaded EXCEPT ![e] = row[e].status]
  /\ Goto(e, "publish")
  /\ UNCHANGED <<storeVars, session, announced, roomVars>>

(* refresh() has expired the object when it raises, and so has the         *)
(* rollback: reading event.id for the log line needs I/O the handler       *)
(* cannot do, so the handler itself raises and the request ends in a 500.  *)
RefreshFail(e) ==
  /\ pc[e] = "refresh"
  /\ Goto(e, "failed")
  /\ UNCHANGED <<storeVars, session, loaded, announced, roomVars>>

Publish(e) ==
  /\ pc[e] = "publish"
  /\ told' = told \cup {e}
  /\ announced' = [announced EXCEPT ![e] = TRUE]
  /\ Goto(e, "activate")
  /\ UNCHANGED <<row, texted, logged, clock, session, loaded, roomVars>>

(* Mutant of PublishFail: the failure is reported as a success.            *)
PublishFailOptimistic(e) ==
  /\ pc[e] = "publish"
  /\ announced' = [announced EXCEPT ![e] = TRUE]
  /\ Goto(e, "activate")
  /\ UNCHANGED <<storeVars, session, loaded, roomVars>>

(* No client, or the PUBLISH raises; Redis may have delivered it first.    *)
PublishFail(e) ==
  /\ pc[e] = "publish"
  /\ told' \in {told, told \cup {e}}
  /\ Goto(e, "activate")
  /\ UNCHANGED <<row, texted, logged, clock, session, loaded, announced, roomVars>>

(* Mutants of Activation: the whole object is written back; only a pushed  *)
(* event is activated; a status the table does not know.                   *)
ActivationWholeRow(e) ==
  IF loaded[e] = "NONE" THEN row
  ELSE [row EXCEPT ![e] = [@ EXCEPT !.status = "ACTIVATED", !.resolved = FALSE,
                                    !.notes = {}]]
ActivationIfPushed(e) ==
  IF loaded[e] = "NONE" \/ ~announced[e] THEN row
  ELSE [row EXCEPT ![e].status = "ACTIVATED"]
ActivationMisspelt(e) ==
  IF loaded[e] = "NONE" THEN row ELSE [row EXCEPT ![e].status = "ACTIVE"]

(* The UPDATE names status alone, and only if ACTIVATED differs from the   *)
(* status the refresh loaded.                                              *)
Activation(e) ==
  IF loaded[e] \in {"NONE", "ACTIVATED"} THEN row
  ELSE [row EXCEPT ![e].status = "ACTIVATED"]

Activate(e) ==
  /\ pc[e] = "activate"
  /\ row' = Activation(e)
  /\ Goto(e, "alert")
  /\ UNCHANGED <<told, texted, logged, clock, session, loaded, announced, roomVars>>

(* The commit raises, applied or not; the rollback expires the object and  *)
(* the log line's event.id raises again, out of trigger.                   *)
ActivateFail(e) ==
  /\ pc[e] = "activate"
  /\ loaded[e] # "NONE"
  /\ row' \in {row, Activation(e)}
  /\ Goto(e, "failed")
  /\ UNCHANGED <<told, texted, logged, clock, session, loaded, announced, roomVars>>

(* _alert_control_room, best effort, and the 201 with the card.            *)
Answer(e) ==
  /\ pc[e] = "alert"
  /\ \/ UNCHANGED texted
     \/ ControlRoomPhone /\ texted' = texted \cup {e}
  /\ Goto(e, "answered")
  /\ UNCHANGED <<row, told, logged, clock, session, loaded, announced, roomVars>>

(* The worker process dies; nothing of the request survives but the store. *)
Crash(e) ==
  /\ pc[e] \in Running
  /\ Goto(e, "crashed")
  /\ UNCHANGED <<storeVars, session, loaded, announced, roomVars>>

-----------------------------------------------------------------------------
(* The control room *)

(* set_status (resolve is set_status with RESOLVED): the SELECT.  An event *)
(* with no row is a 404 and changes nothing.                               *)
SetStatus(c, e, s, n) ==
  /\ c \notin sent
  /\ Recorded(e)
  /\ inflight' = inflight \cup {[id |-> c, on |-> e, status |-> s, note |-> n,
                                 seen |-> row[e]]}
  /\ sent' = sent \cup {c}
  /\ clash' = IF \E d \in inflight : d.on = e THEN clash \cup {e} ELSE clash
  /\ ordered' = IF s = "RESOLVED" THEN ordered \cup {e} ELSE ordered
  /\ UNCHANGED <<storeVars, triggerVars, acked, touched>>

(* Mutants of Written: the note replaces the notes; resolved_at is set     *)
(* only when it was set already.                                           *)
WrittenNoteReplaced(d) ==
  [row[d.on] EXCEPT
     !.status   = IF d.status = d.seen.status THEN @ ELSE d.status,
     !.resolved = IF d.status = "RESOLVED" THEN TRUE
                  ELSE IF d.seen.resolved THEN FALSE ELSE @,
     !.notes    = IF d.note THEN {d.id} ELSE @]
WrittenUntimed(d) ==
  [row[d.on] EXCEPT
     !.status   = IF d.status = d.seen.status THEN @ ELSE d.status,
     !.resolved = IF d.seen.resolved THEN d.status = "RESOLVED" ELSE @,
     !.notes    = IF d.note THEN d.seen.notes \cup {d.id} ELSE @]

(* The columns the UPDATE names, against the row as it is by then.  The    *)
(* note is appended to the notes the SELECT returned.                      *)
Written(d) ==
  [row[d.on] EXCEPT
     !.status   = IF d.status = d.seen.status THEN @ ELSE d.status,
     !.resolved = IF d.status = "RESOLVED" THEN TRUE
                  ELSE IF d.seen.resolved THEN FALSE ELSE @,
     !.notes    = IF d.note THEN d.seen.notes \cup {d.id} ELSE @]

Commit(d) ==
  /\ row' = [row EXCEPT ![d.on] = Written(d)]
  /\ touched' = touched \cup {d.on}
  /\ \/ UNCHANGED acked                             \* the reply is lost
     \/ d.note /\ acked' = acked \cup {<<d.id, d.on>>}
  /\ inflight' = inflight \ {d}
  /\ UNCHANGED <<told, texted, logged, clock, triggerVars, sent, clash, ordered>>

(* The commit fails, or the worker dies before it.                         *)
Abandon(d) ==
  /\ inflight' = inflight \ {d}
  /\ UNCHANGED <<storeVars, triggerVars, sent, acked, clash, touched, ordered>>

(* list_active: what a poll of GET /api/admin/sos/active returns.          *)
Newer(e) ==
  {f \in Emergencies : row[f].status \in Unresolved /\ row[f].born > row[e].born}

(* Mutant of ListActive: the events still pending are forgotten.           *)
ListActivated ==
  {e \in Emergencies : row[e].status = "ACTIVATED" /\ Cardinality(Newer(e)) < Limit}

ListActive ==
  {e \in Emergencies : row[e].status \in Unresolved /\ Cardinality(Newer(e)) < Limit}

-----------------------------------------------------------------------------
TriggerStep(e) ==
  \/ PersistCommit(e)
  \/ PersistFail(e)
  \/ Refresh(e)
  \/ RefreshFail(e)
  \/ Publish(e)
  \/ PublishFail(e)
  \/ Activate(e)
  \/ ActivateFail(e)
  \/ Answer(e)

Next ==
  \/ \E e \in Emergencies : Trigger(e) \/ TriggerStep(e) \/ Crash(e)
  \/ \E c \in Calls, e \in Emergencies, s \in Statuses, n \in BOOLEAN :
       SetStatus(c, e, s, n)
  \/ \E d \in inflight : Commit(d) \/ Abandon(d)

(* A request that is running keeps running: every await on the store, on   *)
(* Redis and on the SMS gateway returns or raises.  Nobody owes a trigger, *)
(* a crash or an operator.                                                 *)
Spec == Init /\ [][Next]_vars /\ \A e \in Emergencies : WF_vars(TriggerStep(e))

-----------------------------------------------------------------------------
(* Properties *)

(* Nobody hears of an emergency, on the dashboard, by SMS or on the        *)
(* pilgrim's own card, of which no trace is left: its row is in the store, *)
(* or its loss is in the error log.  (trigger's fixed order.)              *)
Traced ==
  \A e \in Emergencies :
    e \in told \cup texted \/ pc[e] = "answered" => Recorded(e) \/ e \in logged

(* The card says ACTIVATED: unless the write failed and was logged, or an  *)
(* operator has moved the event since, the store says so too.              *)
CardIsTrue ==
  \A e \in Emergencies :
    pc[e] = "answered" /\ e \notin logged \cup touched => row[e].status = "ACTIVATED"

(* The card reads Connected only if the push went out: _publish's result   *)
(* is not lost or invented between there and the answer.                   *)
ConnectedMeansTold ==
  \A e \in Emergencies : pc[e] = "answered" /\ announced[e] => e \in told

(* A step of the pipeline never undoes what an operator wrote: neither a   *)
(* note nor resolved_at changes under trigger, whatever it had loaded.     *)
TriggerKeepsOperatorWork ==
  [][\A e \in Emergencies :
       Recorded(e) /\ (row'[e].notes # row[e].notes \/ row'[e].resolved # row[e].resolved)
         => \E d \in inflight : d.on = e /\ d \notin inflight']_vars

(* An operator's note that was acknowledged is in the row, as long as no   *)
(* two status changes of that event overlapped: reopening, resolving and   *)
(* the trigger's late activation do not drop it.                           *)
AckedNoteKept ==
  \A e \in Emergencies \ clash :
    \A c \in Calls : <<c, e>> \in acked => c \in row[e].notes

(* A closed emergency carries the time it was closed, again as long as no  *)
(* two status changes of it overlapped.                                    *)
ResolvedIsTimed ==
  \A e \in Emergencies \ clash : row[e].status = "RESOLVED" => row[e].resolved

(* Until somebody asks for it to be closed, an emergency whose row was     *)
(* written is on the dashboard's list, if fewer than Limit newer ones are. *)
(* A crash, a failed push or a failed activation never hides it.           *)
VisibleUntilOrdered ==
  \A e \in Emergencies :
    Recorded(e) /\ e \notin ordered =>
      e \in ListActive \/ Cardinality(Newer(e)) >= Limit

(* The promise of EmergencyLedger.                                         *)
Ledger == INSTANCE EmergencyLedger WITH
  entry    <- [e \in Emergencies |->
                 IF row[e].status = "ABSENT" THEN "absent"
                 ELSE IF row[e].status = "RESOLVED" THEN "closed" ELSE "open"],
  told     <- told \cup texted,
  answered <- {e \in Emergencies : pc[e] = "answered"}

KeepsLedger == Ledger!Spec

(* A trigger request that has started ends: with a card, with an error or  *)
(* with its worker.                                                        *)
Concludes == \A e \in Emergencies : pc[e] \in Running ~> pc[e] \in Finished

(* The inductive invariant behind the safety properties.  Pipeline(e) says *)
(* what the request of e has done by each step; Room(e) what the control   *)
(* room has in flight on e, and that a lone call in flight still sees what *)
(* it is about to overwrite.                                               *)
Pipeline(e) ==
  /\ pc[e] \in {"idle", "persist"} =>
       ~Recorded(e) /\ e \notin told \cup texted /\ loaded[e] = "NONE"
  /\ loaded[e] # "NONE" => Recorded(e)
  /\ pc[e] \in {"idle", "persist", "refresh", "publish"} => ~announced[e]
  /\ pc[e] = "refresh" => Recorded(e) /\ (e \in touched \/ row[e].status = "PENDING")
  /\ pc[e] \in {"publish", "activate", "alert", "answered"} \/ e \in told \cup texted
       => Recorded(e) \/ e \in logged
  /\ e \notin logged \cup touched =>
       /\ pc[e] \in {"publish", "activate"} => loaded[e] = "PENDING"
       /\ pc[e] \in {"alert", "answered"} => row[e].status = "ACTIVATED"
  /\ pc[e] \in {"activate", "alert", "answered"} /\ announced[e] => e \in told

Room(e) ==
  /\ row[e].status = "RESOLVED" => e \in ordered
  /\ \A d \in inflight : d.on = e =>
       /\ Recorded(e)
       /\ d.status = "RESOLVED" => e \in ordered
       /\ e \notin clash =>
            /\ \A other \in inflight : other.on = e => other = d
            /\ d.seen.notes = row[e].notes
            /\ d.seen.resolved = row[e].resolved
            /\ row[e].status = "RESOLVED" => d.seen.status = "RESOLVED"
  /\ \A c \in Calls : <<c, e>> \in acked =>
       Recorded(e) /\ (e \notin clash => c \in row[e].notes)
  /\ e \notin clash /\ row[e].status = "RESOLVED" => row[e].resolved

IndInv == \A e \in Emergencies : Pipeline(e) /\ Room(e)

(* What the repository says and the code does not do.                      *)

(* "A failed database write does not fail the request": once the event is  *)
(* persisted and pushed, a failing activation does not fail the request.   *)
FailedWriteStillAnswers ==
  \A e \in Emergencies : announced[e] => pc[e] # "failed"

(* "cleared on the way back out, so a reopened emergency does not read as  *)
(* already closed": an unresolved event has no resolved_at.                *)
ReopenedReadsOpen ==
  \A e \in Emergencies : row[e].status \in Unresolved => ~row[e].resolved
=============================================================================
