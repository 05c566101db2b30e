-------------------------- MODULE EmergencyConsent --------------------------
(***************************************************************************)
(* One pilgrim's session (services/session_service.py) and the requests    *)
(* that read, change and write it back: chat messages and the SOS card     *)
(* (routers/conversation.py, services/llm_orchestrator.py), the in-app IVR *)
(* (routers/ivr_session.py) and the panic button (routers/sos.py).         *)
(*                                                                         *)
(* A request loads the whole session, changes its copy and writes the copy *)
(* back: to Redis, or to the worker's memory while Redis is away, and then *)
(* to sessions.context_json.  Nothing locks the session in between.  Each  *)
(* step below is the code between two awaits that matter; consecutive      *)
(* writes of the same copy are one step, and so are a read of Redis' two   *)
(* keys and the re-read of a key just read.                                *)
(***************************************************************************)
EXTENDS Naturals, IvrMenu

CONSTANTS
  Requests,     \* slots for requests in flight; a slot is used over and over
  Workers,      \* uvicorn worker processes, each with its own memory
  Sids,         \* sessions.id values, uuid4
  NoSid,        \* "there is none"
  Kinds,        \* the kinds of request this instance makes
  Tools,        \* the tools with a lasting effect that the assistant may call
  MaxTroubles   \* bound on outages and crashes, for model checking

AllKinds == {"message", "yes", "confirm", "cancel", "panic", "start", "voice"} \cup Keys

ASSUME NoSidAssumption == NoSid \notin Sids
ASSUME KindsAssumption == Kinds \subseteq AllKinds
ASSUME ToolsAssumption == Tools \subseteq {"trigger_sos", "escalate_to_human"}
ASSUME TroublesAssumption == MaxTroubles \in Nat

VARIABLES
  (* the stores *)
  ptr,        \* wv:session:token:<token> in Redis: the session's id
  hot,        \* hot[s]: wv:session:<s> in Redis
  mem,        \* mem[w][s]: _memory_store of worker w
  row,        \* the sessions row with this token; its sid is the primary key
  redisUp,    \* does get_redis() return a client, and do its calls work?
  dbUp,       \* do statements work?
  (* the requests *)
  pc, kind, on, after, found, own, kept,
  (* history *)
  troubles,   \* outages and crashes so far
  overlapped, \* have two requests ever been in flight at once?
  spoke,      \* has there been a voice request?
  prompted,   \* has the assistant ever asked for a confirmation?
  armed,      \* has the caller ever pressed 4 in the menu?
  asked,      \* is a confirmation asked for, going by what was answered?
  waiting,    \* is the pilgrim waiting for a volunteer?
  place       \* where the IVR call stands, going by what was answered

storeVars   == <<ptr, hot, mem, row>>
upVars      == <<redisUp, dbUp>>
requestVars == <<pc, kind, on, after, found, own, kept>>
disturbVars == <<troubles, overlapped, spoke>>
consentVars == <<prompted, armed>>
expectVars  == <<asked, waiting, place>>
vars == <<storeVars, upVars, requestVars, disturbVars, consentVars, expectVars>>

(* A SessionState, as far as the properties tell states apart.  ivr is     *)
(* (state.ivr or {}).get("state", "language").  A state without a sid      *)
(* stands for None.                                                        *)
State == [sid : Sids \cup {NoSid}, pending : BOOLEAN, escalated : BOOLEAN,
          ivr : States]
Blank(s) == [sid |-> s, pending |-> FALSE, escalated |-> FALSE, ivr |-> "language"]
Nothing == Blank(NoSid)
Exists(c) == c.sid # NoSid

Points == {"idle", "look", "select", "create", "adopt", "handle", "turn", "raise",
           "save", "sync"}

StoreTypes ==
  /\ ptr \in Sids \cup {NoSid}
  /\ hot \in [Sids -> State]
  /\ mem \in [Workers -> [Sids -> State]]
  /\ row \in State
  /\ redisUp \in BOOLEAN
  /\ dbUp \in BOOLEAN

RequestTypes ==
  /\ pc \in [Requests -> Points]
  /\ kind \in [Requests -> AllKinds]
  /\ on \in [Requests -> Workers]
  /\ after \in [Requests -> {"handle", "turn", "raise"}]
  /\ found \in [Requests -> State]
  /\ own \in [Requests -> State]
  /\ kept \in [Requests -> State]

HistoryTypes ==
  /\ troubles \in Nat
  /\ {overlapped, spoke, prompted, armed, asked, waiting} \subseteq BOOLEAN
  /\ place \in States

TypeOK == StoreTypes /\ RequestTypes /\ HistoryTypes

Init ==
  /\ ptr = NoSid
  /\ hot = [s \in Sids |-> Nothing]
  /\ mem = [w \in Workers |-> [s \in Sids |-> Nothing]]
  /\ row = Nothing
  /\ redisUp = TRUE
  /\ dbUp = TRUE
  /\ pc = [r \in Requests |-> "idle"]
  /\ kind = [r \in Requests |-> "message"]
  /\ on \in [Requests -> Workers]
  /\ after = [r \in Requests |-> "handle"]
  /\ found = [r \in Requests |-> Nothing]
  /\ own = [r \in Requests |-> Nothing]
  /\ kept = [r \in Requests |-> Nothing]
  /\ troubles = 0
  /\ overlapped = FALSE
  /\ spoke = FALSE
  /\ prompted = FALSE
  /\ armed = FALSE
  /\ asked = FALSE
  /\ waiting = FALSE
  /\ place = "language"

Busy == {r \in Requests : pc[r] # "idle"}

(* Nothing failed, no worker died and requests came one after the other.   *)
(* Redis losing what it holds does not count: the durable copy is for that. *)
Calm == troubles = 0 /\ ~overlapped

Goto(r, step) == pc' = [pc EXCEPT ![r] = step]

(* resolve, the subroutine: look the session up, then go on at step.       *)
Resolve(r, step) == Goto(r, "look") /\ after' = [after EXCEPT ![r] = step]

Found(r, c) == found' = [found EXCEPT ![r] = c] /\ Goto(r, after[r])

Own(r, c) == own' = [own EXCEPT ![r] = c]

(* The request is over; what it held is gone.                              *)
End(r) ==
  /\ Goto(r, "idle")
  /\ kind' = [kind EXCEPT ![r] = "message"]
  /\ after' = [after EXCEPT ![r] = "handle"]
  /\ found' = [found EXCEPT ![r] = Nothing]
  /\ own' = [own EXCEPT ![r] = Nothing]
  /\ kept' = [kept EXCEPT ![r] = Nothing]

(* A request of kind k reaches worker w.  A chat message and the panic     *)
(* button go straight to the service that resolves the session.            *)
Arrive(r, k, w) ==
  /\ pc[r] = "idle"
  /\ kind' = [kind EXCEPT ![r] = k]
  /\ on' = [on EXCEPT ![r] = w]
  /\ Resolve(r, IF k = "message" THEN "turn" ELSE IF k = "panic" THEN "raise" ELSE "handle")
  /\ overlapped' = (overlapped \/ Busy # {})
  /\ spoke' = (spoke \/ k = "voice")
  /\ UNCHANGED <<storeVars, upVars, found, own, kept, troubles, consentVars, expectVars>>

-----------------------------------------------------------------------------
(* SessionService: finding the session *)

(* _load: Redis, and only when Redis has nothing, this worker's memory.    *)
Cached(w, s) ==
  IF s = NoSid THEN Nothing
  ELSE IF redisUp /\ Exists(hot[s]) THEN hot[s] ELSE mem[w][s]

(* _load_by_token by the pointer in Redis.                                 *)
Look(r) ==
  /\ pc[r] = "look"
  /\ IF redisUp /\ Exists(Cached(on[r], ptr))
       THEN Found(r, Cached(on[r], ptr))
       ELSE Goto(r, "select") /\ UNCHANGED found
  /\ UNCHANGED <<storeVars, upVars, kind, on, after, own, kept, disturbVars,
                 consentVars, expectVars>>

(* _load_by_token by the row; a failing SELECT counts as "no such session". *)
Select(r) ==
  /\ pc[r] = "select"
  /\ IF dbUp /\ Exists(row)
       THEN /\ Found(r, IF Exists(Cached(on[r], row.sid)) THEN Cached(on[r], row.sid)
                        ELSE row)
            /\ ptr' = IF redisUp THEN row.sid ELSE ptr
       ELSE Goto(r, "create") /\ UNCHANGED <<found, ptr>>
  /\ UNCHANGED <<hot, mem, row, upVars, kind, on, after, own, kept, disturbVars,
                 consentVars, expectVars>>

(* Ids nothing refers to stand for fresh uuid4 values.                     *)
FreshSids ==
  {s \in Sids : /\ s # ptr /\ s # row.sid
                /\ ~Exists(hot[s])
                /\ \A w \in Workers : ~Exists(mem[w][s])
                /\ \A r \in Requests : s \notin {found[r].sid, own[r].sid, kept[r].sid}}

(* Mutant of Insert: the row is looked for, and not made.                  *)
InsertNever(c) == row' = row

(* An INSERT of a sessions row for this token: session_token is unique, so *)
(* it does nothing once there is a row.  In an outage the commit may have  *)
(* been applied although the worker saw it fail.                           *)
Insert(c) ==
  \/ dbUp /\ row' = IF Exists(row) THEN row ELSE c
  \/ ~dbUp /\ row' \in {row, IF Exists(row) THEN row ELSE c}

(* resolve makes a new session: _persist_session_row ...                   *)
Create(r) ==
  /\ pc[r] = "create"
  /\ \E s \in FreshSids :
       /\ found' = [found EXCEPT ![r] = Blank(s)]
       /\ Insert(Blank(s))
  /\ Goto(r, "adopt")
  /\ UNCHANGED <<ptr, hot, mem, upVars, kind, on, after, own, kept, disturbVars,
                 consentVars, expectVars>>

(* save: Redis, or this worker's memory.                                   *)
Put(w, c) ==
  IF redisUp THEN hot' = [hot EXCEPT ![c.sid] = c] /\ UNCHANGED mem
  ELSE mem' = [mem EXCEPT ![w] = [@ EXCEPT ![c.sid] = c]] /\ UNCHANGED hot

(* ... then save and _remember_token, whether or not the row was written.  *)
Adopt(r) ==
  /\ pc[r] = "adopt"
  /\ Put(on[r], found[r])
  /\ ptr' = IF redisUp THEN found[r].sid ELSE ptr
  /\ Goto(r, after[r])
  /\ UNCHANGED <<row, upVars, kind, on, after, found, own, kept, disturbVars,
                 consentVars, expectVars>>

-----------------------------------------------------------------------------
(* What the requests do with it *)

(* The copy to be written back, and the step that writes it.               *)
WriteBack(r, c) ==
  /\ Own(r, c)
  /\ Goto(r, "save")
  /\ UNCHANGED <<after, kept>>

(* SosService.trigger, which resolves the session once more.               *)
Dispatch(r) ==
  /\ Own(r, found[r])
  /\ Resolve(r, "raise")
  /\ UNCHANGED <<kept, expectVars>>

(* _activate of routers/conversation.py: without a location, neither in    *)
(* the request nor on the session, a FAILED card and nothing else.         *)
Activate(r) ==
  \/ Dispatch(r)
  \/ WriteBack(r, found[r]) /\ UNCHANGED expectVars

(* Mutant of Yes: a bare "yes" always confirms.                            *)
YesAlways(r) ==
  /\ kind[r] = "yes"
  /\ Activate(r)

(* post_message with an affirmative message: a confirmation if one is      *)
(* pending, otherwise a turn like any other, which resolves again.         *)
Yes(r) ==
  /\ kind[r] = "yes"
  /\ \/ found[r].pending /\ Activate(r)
     \/ /\ ~found[r].pending
        /\ Resolve(r, "turn")
        /\ UNCHANGED <<own, kept, expectVars>>

(* confirm_sos: the card's buttons.                                        *)
Confirm(r) == kind[r] = "confirm" /\ Activate(r)

Cancel(r) ==
  /\ kind[r] = "cancel"
  /\ WriteBack(r, [found[r] EXCEPT !.pending = FALSE])
  /\ asked' = FALSE
  /\ UNCHANGED <<waiting, place>>

(* start of the in-app call: the language menu, or the main menu for a     *)
(* caller whose language the app knows.                                    *)
Start(r) ==
  /\ kind[r] = "start"
  /\ \E t \in {start, main_menu("language_selected")} :
       /\ WriteBack(r, [found[r] EXCEPT !.ivr = t.state])
       /\ place' = t.state
  /\ UNCHANGED <<asked, waiting>>

(* dtmf: a key moves the call; only sos_dispatch raises an emergency.      *)
Press(r) ==
  /\ kind[r] \in Keys
  /\ LET t == next_state(found[r].ivr, kind[r]) IN
       IF t.action = "sos_dispatch" THEN Dispatch(r)
       ELSE /\ WriteBack(r, [found[r] EXCEPT !.ivr = t.state])
            /\ place' = t.state
            /\ UNCHANGED <<asked, waiting>>

(* voice: the copy resolved before the transcription is kept for the end;  *)
(* an unusable recording, or no transcription, ends the request here.      *)
Voice(r) ==
  /\ kind[r] = "voice"
  /\ kept' = [kept EXCEPT ![r] = found[r]]
  /\ Resolve(r, "turn")
  /\ UNCHANGED <<own, expectVars>>

VoiceUnusable(r) ==
  /\ pc[r] = "handle"
  /\ kind[r] = "voice"
  /\ End(r)
  /\ UNCHANGED <<storeVars, upVars, on, disturbVars, consentVars, expectVars>>

Handle(r) ==
  /\ pc[r] = "handle"
  /\ Yes(r) \/ Confirm(r) \/ Cancel(r) \/ Start(r) \/ Press(r) \/ Voice(r)
  /\ armed' = (armed \/ (kind[r] = "4" /\ found[r].ivr = "menu"))
  /\ UNCHANGED <<storeVars, upVars, kind, on, found, disturbVars, prompted>>

(* Mutant of Pending: a call of trigger_sos that failed counts as a prompt. *)
PendingIfCalled(sos, before) == sos # "none"

(* What a turn leaves pending: trigger_sos asks for a confirmation, or     *)
(* fails for want of a location and leaves things as they were; a turn     *)
(* without it clears a prompt that is pending.                             *)
Pending(sos, before) == sos = "asked" \/ (sos = "unlocated" /\ before)

(* process_message: the model, or the keyword rules, and the tools they    *)
(* call; escalate_to_human flags the session for a volunteer.              *)
Turn(r) ==
  /\ pc[r] = "turn"
  /\ \E sos \in {"none", "unlocated", "asked"}, escalate \in BOOLEAN :
       /\ sos # "none" => "trigger_sos" \in Tools
       /\ escalate => "escalate_to_human" \in Tools
       /\ WriteBack(r, [found[r] EXCEPT !.pending = Pending(sos, @),
                                        !.escalated = @ \/ escalate])
       /\ prompted' = (prompted \/ sos = "asked")
       /\ asked' = Pending(sos, asked)
       /\ waiting' = (waiting \/ escalate)
  /\ UNCHANGED <<storeVars, upVars, kind, on, found, disturbVars, armed, place>>

(* SosService.trigger after its resolve: ensure_row, then the pipeline of  *)
(* SosDispatch, which may fail when the database does.  The caller then    *)
(* clears the prompt, and the menu goes back to its start.                 *)
Raised(r) ==
  [own[r] EXCEPT !.pending = FALSE, !.ivr = IF kind[r] \in Keys THEN "menu" ELSE @]

Raise(r) ==
  /\ pc[r] = "raise"
  /\ Insert(found[r])
  /\ IF kind[r] = "panic" THEN End(r) /\ UNCHANGED expectVars
     ELSE \/ /\ WriteBack(r, Raised(r))
             /\ asked' = FALSE
             /\ place' = IF kind[r] \in Keys THEN "menu" ELSE place
             /\ UNCHANGED <<kind, found, waiting>>
          \/ ~dbUp /\ End(r) /\ UNCHANGED expectVars
  /\ UNCHANGED <<ptr, hot, mem, upVars, on, disturbVars, consentVars>>

Save(r) ==
  /\ pc[r] = "save"
  /\ Put(on[r], own[r])
  /\ Goto(r, "sync")
  /\ UNCHANGED <<ptr, row, upVars, kind, on, after, found, own, kept, disturbVars,
                 consentVars, expectVars>>

(* Mutant of Synced: a prompt is written to the row, its end is not.       *)
SyncedPrompt(c) == IF Exists(row) /\ row.pending THEN row ELSE c

(* _persist_messages, or ensure_row and _sync_context: the row gets the    *)
(* whole copy; it is inserted if it is missing.                            *)
Synced(c) == IF row.sid \in {NoSid, c.sid} THEN c ELSE row

(* After its turn, voice stores the copy it resolved before the turn.      *)
Sync(r) ==
  /\ pc[r] = "sync"
  /\ \/ dbUp /\ row' = Synced(own[r])
     \/ ~dbUp /\ row' \in {row, Synced(own[r])}
  /\ IF Exists(kept[r])
       THEN /\ Own(r, [kept[r] EXCEPT !.ivr = "speech"])
            /\ kept' = [kept EXCEPT ![r] = Nothing]
            /\ Goto(r, "save")
            /\ place' = "speech"
            /\ UNCHANGED <<kind, after, found, asked, waiting>>
       ELSE End(r) /\ UNCHANGED expectVars
  /\ UNCHANGED <<ptr, hot, mem, upVars, on, disturbVars, consentVars>>

-----------------------------------------------------------------------------
(* The environment *)

(* Redis is flushed or restarts empty; the pointer alone may expire first, *)
(* for it is not renewed when the session is saved.                        *)
Flush ==
  /\ hot' = [s \in Sids |-> Nothing]
  /\ ptr' = NoSid
  /\ UNCHANGED <<mem, row, upVars, requestVars, disturbVars, consentVars, expectVars>>

PointerExpires ==
  /\ ptr # NoSid
  /\ ptr' = NoSid
  /\ UNCHANGED <<hot, mem, row, upVars, requestVars, disturbVars, consentVars, expectVars>>

Trouble ==
  /\ troubles < MaxTroubles
  /\ troubles' = troubles + 1
  /\ UNCHANGED <<overlapped, spoke, consentVars, expectVars>>

Outage ==
  /\ Trouble
  /\ \/ redisUp /\ redisUp' = FALSE /\ UNCHANGED dbUp
     \/ dbUp /\ dbUp' = FALSE /\ UNCHANGED redisUp
  /\ UNCHANGED <<storeVars, requestVars>>

Recover ==
  /\ \/ ~redisUp /\ redisUp' = TRUE /\ UNCHANGED dbUp
     \/ ~dbUp /\ dbUp' = TRUE /\ UNCHANGED redisUp
  /\ UNCHANGED <<storeVars, requestVars, disturbVars, consentVars, expectVars>>

(* A worker dies and is restarted: its memory and its requests are gone.   *)
Crash(w) ==
  /\ Trouble
  /\ mem' = [mem EXCEPT ![w] = [s \in Sids |-> Nothing]]
  /\ LET Keep(f, default) == [r \in Requests |-> IF on[r] = w THEN default ELSE f[r]] IN
       /\ pc' = Keep(pc, "idle")
       /\ kind' = Keep(kind, "message")
       /\ after' = Keep(after, "handle")
       /\ found' = Keep(found, Nothing)
       /\ own' = Keep(own, Nothing)
       /\ kept' = Keep(kept, Nothing)
  /\ UNCHANGED <<ptr, hot, row, upVars, on>>

-----------------------------------------------------------------------------
RequestStep(r) ==
  \/ Look(r) \/ Select(r) \/ Create(r) \/ Adopt(r)
  \/ Handle(r) \/ VoiceUnusable(r) \/ Turn(r) \/ Raise(r) \/ Save(r) \/ Sync(r)

Next ==
  \/ \E r \in Requests, k \in Kinds, w \in Workers : Arrive(r, k, w)
  \/ \E r \in Requests : RequestStep(r)
  \/ Flush
  \/ PointerExpires
  \/ Outage
  \/ Recover
  \/ \E w \in Workers : Crash(w)

Spec == Init /\ [][Next]_vars

-----------------------------------------------------------------------------
(* Properties *)

(* The request has decided to raise an emergency.                          *)
Decides(r) == pc[r] = "handle" /\ pc'[r] = "look" /\ after'[r] = "raise"

(* A bare "yes" raises an emergency only if the assistant has asked for    *)
(* that, whatever copies of the session outages, lost updates and restarts *)
(* left behind.  If nothing was disturbed it has asked and nothing since   *)
(* has answered, cancelled or dropped the question.  (post_message;        *)
(* voice turns are excepted: see VoiceKeepsEscalation.)                    *)
YesAnswersPrompt ==
  [][\A r \in Requests : kind[r] = "yes" /\ Decides(r) =>
       prompted /\ (Calm /\ ~spoke => asked)]_vars

(* A key raises an emergency only if 4 was pressed in the menu at some     *)
(* time; undisturbed, only at the confirmation prompt the caller is at.    *)
KeyConfirms ==
  [][\A r \in Requests : kind[r] \in Keys /\ Decides(r) =>
       armed /\ (Calm => place = "sos_confirm" /\ kind[r] = "1")]_vars

(* Undisturbed, the durable copy is at every turn's end what the pilgrim   *)
(* was last told, and the hot copy, if Redis still has it, is the same:    *)
(* whichever of them the next request finds, it continues the conversation *)
(* where it was.                                                           *)
WrittenThrough ==
  Calm /\ Busy = {} /\ Exists(row) =>
    /\ row.ivr = place
    /\ ~spoke => row.pending = asked /\ row.escalated = waiting
    /\ ptr # NoSid => ptr = row.sid
    /\ Exists(hot[row.sid]) => hot[row.sid] = row

(* Undisturbed, an emergency has a session row to be stored under.         *)
EmergencyHasSession ==
  [][\A r \in Requests : pc[r] = "raise" /\ pc'[r] # "raise" /\ Calm =>
       row'.sid = found[r].sid]_vars

(* No copy of the session, in any store or any request, carries a consent  *)
(* the pilgrim was never asked for.                                        *)
Copies ==
  {row} \cup {hot[s] : s \in Sids} \cup {mem[w][s] : w \in Workers, s \in Sids}
        \cup UNION {{found[r], own[r], kept[r]} : r \in Requests}

Grounded ==
  \A c \in Copies : (c.pending => prompted) /\ (c.ivr = "sos_confirm" => armed)

(* What the repository says and the code does not do.                      *)

(* "Returns None only when the database is unreachable": with the database *)
(* up all the time, an emergency has a session row to be stored under.     *)
SessionUnlessDown ==
  [][\A r \in Requests : pc[r] = "raise" /\ pc'[r] # "raise" /\ troubles = 0 =>
       row'.sid = found[r].sid]_vars

(* "Recorded on context_json so the control-room dashboard can query for   *)
(* waiting pilgrims": undisturbed, a pilgrim who waits is on record.       *)
VoiceKeepsEscalation ==
  Calm /\ Busy = {} /\ waiting => row.escalated
=============================================================================
