----------------------------- MODULE PhoneCall -----------------------------
(***************************************************************************)
(* A telephone call through Twilio (routers/ivr.py): one webhook at a time *)
(* reads the call's session, changes its copy and writes the copy back,    *)
(* while the status callback of a call that ended may overtake the webhook *)
(* still running.  The session is in Redis, in a process's memory while *)
(* Redis is away, and in the row services/session_service.py keeps.        *)
(*                                                                         *)
(* Of the session only the caller's place is told apart: known or not.     *)
(***************************************************************************)
EXTENDS Handles

CONSTANTS
    Lines,          \* processes serving webhooks
    MaxSessions     \* sessions made for the call's CallSid

ASSUME LinesAssumption == Lines \subseteq Workers /\ Lines # {} /\ MaxSessions \in Nat \ {0}

VARIABLES
    pointer,        \* the Redis key of the CallSid: a session's id, or 0
    hot,            \* hot[s]: the session in Redis
    mem,            \* mem[w][s]: _memory_store of process w
    session,        \* the sessions row with this CallSid as its token
    sessions,       \* sessions made so far
    line,           \* the call, as Twilio sees it
    hookPc, hookOn, state,  \* the webhook's and the callback's step, process, copy
    alerts,         \* history: [located, named] of each emergency raised
    named,          \* history: a turn with the place known was stored for good
    strayed         \* history: a copy in some memory, or a second session

storedVars == <<pointer, hot, mem, session>>
phoneVars  == <<storedVars, sessions, line, hookPc, hookOn, state, alerts, named, strayed>>

Calls    == {"webhook", "callback"}
Ids      == 1..MaxSessions
Sessions == [sid : {0} \cup Ids, located : BOOLEAN]
None     == [sid |-> 0, located |-> FALSE]
Is(s)    == s.sid # 0

HookSteps == {"idle", "language", "row", "heard", "ask", "turn", "saved", "digit", "emergency",
              "escalate", "hold", "finish"}

PhoneType ==
    /\ pointer \in {0} \cup Ids
    /\ hot \in [Ids -> Sessions]
    /\ mem \in [Lines -> [Ids -> Sessions]]
    /\ session \in Sessions
    /\ sessions \in {0} \cup Ids
    /\ line \in {"ringing", "greeted", "open", "over", "reported"}
    /\ hookPc \in [Calls -> HookSteps]
    /\ hookOn \in [Calls -> Lines]
    /\ state \in [Calls -> Sessions]
    /\ alerts \subseteq [located : BOOLEAN, named : BOOLEAN]
    /\ {named, strayed} \subseteq BOOLEAN

PhoneInit ==
    /\ pointer = 0 /\ hot = [s \in Ids |-> None]
    /\ mem = [w \in Lines |-> [s \in Ids |-> None]]
    /\ session = None /\ sessions = 0 /\ line = "ringing"
    /\ hookPc = [c \in Calls |-> "idle"]
    /\ hookOn \in [Calls -> {CHOOSE w \in Lines : TRUE}]
    /\ state = [c \in Calls |-> None]
    /\ alerts = {} /\ named = FALSE /\ strayed = FALSE

Then(c, step) == hookPc' = [hookPc EXCEPT ![c] = step]
Copy(c, s)    == state' = [state EXCEPT ![c] = s]

(* The webhook is answered, or died: its copy is gone.                     *)
Answer(c) == Then(c, "idle") /\ Copy(c, None)

-----------------------------------------------------------------------------
(* SessionService, for one CallSid *)

(* _load: Redis, and this process's memory when Redis has nothing.      *)
_load(w, s) ==
    IF s = 0 THEN None
    ELSE IF Answered(w) /\ Is(hot[s]) THEN hot[s] ELSE mem[w][s]

(* _load_by_token: by the pointer, then by the row.                        *)
By_pointer(w) == IF Answered(w) THEN _load(w, pointer) ELSE None
By_row(w)     == IF ~Executes \/ ~Is(session) THEN None
                 ELSE IF Is(_load(w, session.sid)) THEN _load(w, session.sid) ELSE session

(* save.                                                                   *)
save(w, s) ==
    /\ hot'    = IF Answered(w) THEN [hot EXCEPT ![s.sid] = s] ELSE hot
    /\ mem' = IF Answered(w) THEN mem ELSE [mem EXCEPT ![w][s.sid] = s]

(* _remember_token.                                                        *)
_remember_token(w, s) == pointer' = IF Answered(w) THEN s ELSE pointer

(* _persist_session_row: session_token is unique.                          *)
Added(s) == IF Executes /\ ~Is(session) THEN s ELSE session

(* _sync_context and, were there no row yet, _persist_messages.            *)
_sync_context(s) == IF Executes /\ session.sid = s.sid THEN s ELSE session

(* Mutant of _persist_messages: the context is left out.                   *)
PersistUnlocated(s) ==
    IF Executes /\ session.sid \in {0, s.sid} THEN [s EXCEPT !.located = session.located]
    ELSE session

_persist_messages(s) ==
    IF Executes /\ session.sid \in {0, s.sid} THEN s ELSE session

(* resolve, for the copy c: found, or a new session with row and pointer.  *)
(* Location is what the request itself knows of the caller's place.        *)
resolve(c, w, known) ==
    LET found == IF Is(By_pointer(w)) THEN By_pointer(w) ELSE By_row(w)
        new   == [sid |-> sessions + 1, located |-> FALSE]
    IN IF Is(found)
       THEN /\ Copy(c, [found EXCEPT !.located = @ \/ known])
            /\ IF Is(By_pointer(w)) THEN UNCHANGED pointer ELSE _remember_token(w, session.sid)
            /\ UNCHANGED <<hot, mem, session, sessions, strayed>>
       ELSE /\ new.sid \in Ids
            /\ Copy(c, [new EXCEPT !.located = known])
            /\ session' = Added(new) /\ save(w, new) /\ _remember_token(w, new.sid)
            /\ sessions' = new.sid
            /\ strayed' = (strayed \/ new.sid > 1 \/ ~Answered(w))

(* save from a handler, at a step of its own.                              *)
Saved(c) ==
    /\ save(hookOn[c], state[c])
    /\ strayed' = (strayed \/ ~Answered(hookOn[c]))
    /\ UNCHANGED <<pointer, sessions>>

(* record_turn once saved: the transcript and the context, in one commit.  *)
Recorded(c) ==
    /\ session' = _persist_messages(state[c])
    /\ named' = (named \/ (Executes /\ session.sid \in {0, state[c].sid} /\ state[c].located))

-----------------------------------------------------------------------------
(* The webhooks *)

(* answer: the greeting, in three languages; no session yet.               *)
answer ==
    /\ line = "ringing" /\ line' = "greeted"
    /\ UNCHANGED <<storedVars, sessions, hookPc, hookOn, state, alerts, named, strayed>>

(* A document that ends in _listen is answered by a further webhook, be it *)
(* with speech, a key or silence: actionOnEmptyResult makes Twilio post    *)
(* the silence too, so what follows the gather is never reached.           *)
Webhook(w, next) ==
    /\ hookPc["webhook"] = "idle"
    /\ Then("webhook", next) /\ hookOn' = [hookOn EXCEPT !["webhook"] = w]
    /\ resolve("webhook", w, FALSE)
    /\ UNCHANGED <<alerts, named>>

choose_language(w) ==
    /\ line = "greeted" /\ line' = "open"
    /\ Webhook(w, "language")

(* transcribe and dtmf: keys win over speech; silence, like a key that     *)
(* means nothing, is listened to anew.                                     *)
transcribe(w) ==
    /\ line = "open"
    /\ \E next \in {"heard", "digit"} : Webhook(w, next)
    /\ UNCHANGED line

language_saved ==
    /\ hookPc["webhook"] = "language" /\ Saved("webhook") /\ Then("webhook", "row")
    /\ UNCHANGED <<session, line, hookOn, state, alerts, named>>

ensure_row ==
    /\ hookPc["webhook"] = "row"
    /\ session' = Added(state["webhook"])
    /\ Answer("webhook")
    /\ UNCHANGED <<pointer, hot, mem, sessions, line, hookOn, alerts, named, strayed>>

(* _remember_spoken_location: a zone named for the first time is saved.    *)
_remember_spoken_location ==
    /\ hookPc["webhook"] = "heard" /\ Then("webhook", "ask")
    /\ \/ UNCHANGED <<storedVars, sessions, state, strayed>>
       \/ /\ ~state["webhook"].located
          /\ Copy("webhook", [state["webhook"] EXCEPT !.located = TRUE])
          /\ save(hookOn["webhook"], [state["webhook"] EXCEPT !.located = TRUE])
          /\ strayed' = (strayed \/ ~Answered(hookOn["webhook"]))
          /\ UNCHANGED <<pointer, session, sessions>>
    /\ UNCHANGED <<line, hookOn, alerts, named>>

(* _handle_digit: 9 and 0 are themselves, 1 to 3 are canned questions, 3   *)
(* only for a caller whose place is known; any other key listens again.    *)
_handle_digit ==
    /\ hookPc["webhook"] = "digit"
    /\ \E digit \in {"9", "0", "1", "3", "other"} :
          \/ digit = "9" /\ Then("webhook", "emergency") /\ UNCHANGED state
          \/ digit = "0" /\ Then("webhook", "escalate") /\ UNCHANGED state
          \/ /\ digit = "1" \/ (digit = "3" /\ state["webhook"].located)
             /\ Then("webhook", "ask") /\ UNCHANGED state
          \/ /\ digit = "other" \/ (digit = "3" /\ ~state["webhook"].located)
             /\ Answer("webhook")
    /\ UNCHANGED <<storedVars, sessions, line, hookOn, alerts, named, strayed>>

(* _ask: process_message resolves a copy of its own and is told the place  *)
(* the webhook knows; the assistant may add one when it offers an SOS.     *)
_ask ==
    /\ hookPc["webhook"] = "ask" /\ Then("webhook", "turn")
    /\ \E known \in {state["webhook"].located, TRUE} :
          resolve("webhook", hookOn["webhook"], known)
    /\ UNCHANGED <<line, hookOn, alerts, named>>

(* A failure is told to the caller; what it was about is not recorded.     *)
_ask_fails ==
    /\ hookPc["webhook"] = "turn" /\ Answer("webhook")
    /\ UNCHANGED <<storedVars, sessions, line, hookOn, alerts, named, strayed>>

(* _emergency: the alert leaves with the place the session knows, and only *)
(* then is the turn recorded; a database error may end it at once.         *)
_emergency ==
    /\ hookPc["webhook"] = "emergency"
    /\ alerts' = alerts \cup {[located |-> state["webhook"].located,
                               named   |-> named /\ ~strayed]}
    /\ session' = Added(state["webhook"])
    /\ \/ Then("webhook", "saved") /\ UNCHANGED state
       \/ ~Executes /\ Answer("webhook")
    /\ UNCHANGED <<pointer, hot, mem, sessions, line, hookOn, named, strayed>>

(* _escalate: escalate saves and syncs; the dashboard is told; the turn is *)
(* recorded.  The answer is hold music and no gather: the call ends.       *)
_escalate ==
    /\ hookPc["webhook"] = "escalate" /\ Saved("webhook") /\ Then("webhook", "hold")
    /\ session' = _sync_context(state["webhook"])
    /\ UNCHANGED <<line, hookOn, state, alerts, named>>

hold ==
    /\ hookPc["webhook"] = "hold" /\ Then("webhook", "saved")
    /\ line' = IF line = "open" THEN "over" ELSE line
    /\ UNCHANGED <<storedVars, sessions, hookOn, state, alerts, named, strayed>>

(* record_turn: save, then the durable transcript.                         *)
record_turn ==
    /\ hookPc["webhook"] \in {"turn", "saved"}
    /\ Saved("webhook") /\ Recorded("webhook")
    /\ Answer("webhook")
    /\ UNCHANGED <<line, hookOn, alerts>>

(* call_status: only once the call is over, if a webhook runs or not.      *)
call_status(w) ==
    /\ line = "over" /\ line' = "reported"
    /\ Then("callback", "finish") /\ hookOn' = [hookOn EXCEPT !["callback"] = w]
    /\ resolve("callback", w, FALSE)
    /\ UNCHANGED <<alerts, named>>

finish_call ==
    /\ hookPc["callback"] = "finish" /\ Saved("callback")
    /\ session' = _sync_context(state["callback"])
    /\ Answer("callback")
    /\ UNCHANGED <<line, hookOn, alerts, named>>

-----------------------------------------------------------------------------
HangUp ==
    /\ line = "open" /\ line' = "over"
    /\ UNCHANGED <<storedVars, sessions, hookPc, hookOn, state, alerts, named, strayed>>

KeysExpire ==
    /\ hot' = [s \in Ids |-> None] /\ pointer' = 0
    /\ <<hot, pointer>> # <<hot', pointer'>>
    /\ UNCHANGED <<mem, session, sessions, line, hookPc, hookOn, state, alerts, named, strayed>>

LineDies(w) ==
    /\ mem' = [mem EXCEPT ![w] = [s \in Ids |-> None]]
    /\ hookPc' = [c \in Calls |-> IF hookOn[c] = w THEN "idle" ELSE hookPc[c]]
    /\ state' = [c \in Calls |-> IF hookOn[c] = w THEN None ELSE state[c]]
    /\ <<mem, hookPc>> # <<mem', hookPc'>>
    /\ UNCHANGED <<pointer, hot, session, sessions, line, hookOn, alerts, named, strayed>>

PhoneNext ==
    /\ \/ answer \/ language_saved \/ ensure_row \/ _remember_spoken_location \/ _handle_digit
       \/ _ask \/ _ask_fails \/ _emergency \/ _escalate \/ hold \/ record_turn \/ finish_call
       \/ HangUp \/ KeysExpire
       \/ \E w \in Lines : choose_language(w) \/ transcribe(w) \/ call_status(w) \/ LineDies(w)
    /\ UNCHANGED handleVars

(***************************************************************************)
(* A caller who has said where they are is found: "A caller cannot share   *)
(* GPS, but they can say where they are" (routers/ivr.py:143-144).  Once a *)
(* turn with the place was stored for good, every later emergency of the   *)
(* call carries it, though Redis forgets, processes die or another one     *)
(* answers.  Not promised once a copy lies in a process's memory, which    *)
(* is preferred to the row, or the call has a second session.              *)
(***************************************************************************)
LocatedEmergency == \A a \in alerts : a.named => a.located
=============================================================================
