------------------------------ MODULE IvrTurns ------------------------------
(***************************************************************************)
(* One in-app call over a bad network.  The app (services/ivrApi.ts and    *)
(* components/IVRActiveCall.tsx) sends a turn, waits, retries it under the *)
(* same turn id, and falls back on a canned answer; the server             *)
(* (routers/ivr_session.py) answers a repeated turn from a receipt kept in *)
(* Redis.  The model begins when dial has opened the call at the menu.     *)
(* The stored menu position is one cell here: EmergencyConsent shows what  *)
(* SessionService makes of it.                                             *)
(***************************************************************************)
EXTENDS Naturals, IvrMenu

CONSTANTS
  MaxTurns,     \* bound on the turns of a call, for model checking
  MAX_RETRIES,  \* attempts after the first
  Kinds         \* the kinds of turn this instance takes

ASSUME MaxTurnsAssumption == MaxTurns \in Nat
ASSUME RetriesAssumption == MAX_RETRIES \in Nat
ASSUME KindsAssumption == Kinds \subseteq {"voice"} \cup Keys

VARIABLES
  (* the app *)
  turns,      \* turns so far; turnSeq, and the id of the latest
  kind,       \* kind[t]: "voice" or the key of turn t; "#" until there is one
  client,     \* client[t]: where the request of turn t stands
  round,      \* round[t]: retries of turn t
  screen,     \* what the caller sees
  (* the network and the server *)
  live,       \* attempts under way
  menu,       \* the session's stored menu position
  receipts,   \* receipts[t]: ivr:turn:<session>:<turn id>, the answer's state
  (* history *)
  seen,       \* seen[t]: the screen turn t was taken at
  applied,    \* applied[t]: how often the server has acted on turn t
  raised,     \* turns that raised an emergency
  hurried,    \* turns sent again while an earlier attempt was still alive
  unreceipted,\* turns whose receipt was not written, or not there when asked for
  crowded     \* has a turn begun before the last one was over?

appVars     == <<turns, kind, client, round, screen>>
serverVars  == <<live, menu, receipts>>
historyVars == <<seen, applied, raised, hurried, unreceipted, crowded>>
vars == <<appVars, serverVars, historyVars>>

Turns == 1..MaxTurns

(* genuine: the answer came from the server.                               *)
Screen == [state : States, genuine : BOOLEAN]
Attempt == [turn : Turns, round : 0..MAX_RETRIES,
            at : {"sent", "checked", "applied", "stored", "replying"},
            answer : States \cup {"none"}]

TypeOK ==
  /\ turns \in 0..MaxTurns
  /\ kind \in [Turns -> Kinds \cup {"#"}]
  /\ client \in [Turns -> {"unused", "waiting", "backoff", "done"}]
  /\ round \in [Turns -> 0..MAX_RETRIES]
  /\ screen \in Screen
  /\ live \subseteq Attempt
  /\ menu \in States
  /\ receipts \in [Turns -> States \cup {"none"}]
  /\ seen \in [Turns -> Screen]
  /\ applied \in [Turns -> Nat]
  /\ raised \subseteq Turns
  /\ hurried \subseteq Turns
  /\ unreceipted \subseteq Turns
  /\ crowded \in BOOLEAN

(* A fresh call has a session id of its own, and its start was answered:   *)
(* the app always names a language, so that is the main menu.              *)
Init ==
  /\ turns = 0
  /\ kind = [t \in Turns |-> "#"]
  /\ client = [t \in Turns |-> "unused"]
  /\ round = [t \in Turns |-> 0]
  /\ screen = [state |-> "menu", genuine |-> TRUE]
  /\ live = {}
  /\ menu = "menu"
  /\ receipts = [t \in Turns |-> "none"]
  /\ seen = [t \in Turns |-> screen]
  /\ applied = [t \in Turns |-> 0]
  /\ raised = {}
  /\ hurried = {}
  /\ unreceipted = {}
  /\ crowded = FALSE

-----------------------------------------------------------------------------
(* The app *)

Send(t, n) ==
  live' = live \cup {[turn |-> t, round |-> n, at |-> "sent", answer |-> "none"]}

InFlight == {t \in Turns : client[t] \in {"waiting", "backoff"}}

(* A key or a recording.  Nothing keeps an impatient caller from the next  *)
(* one while a turn is under way.                                          *)
Begin(k) ==
  /\ turns < MaxTurns
  /\ screen.state # "ended"
  /\ LET t == turns + 1 IN
       /\ turns' = t
       /\ kind' = [kind EXCEPT ![t] = k]
       /\ client' = [client EXCEPT ![t] = "waiting"]
       /\ seen' = [seen EXCEPT ![t] = screen]
       /\ Send(t, 0)
  /\ crowded' = (crowded \/ InFlight # {} \/ live # {})
  /\ UNCHANGED <<round, screen, menu, receipts, applied, raised, hurried, unreceipted>>

(* A recording that came out empty takes a turn number and sends nothing.  *)
Unheard ==
  /\ "voice" \in Kinds /\ turns < MaxTurns
  /\ screen.state # "ended"
  /\ turns' = turns + 1
  /\ crowded' = (crowded \/ InFlight # {})
  /\ UNCHANGED <<kind, client, round, screen, serverVars, seen, applied, raised,
                 hurried, unreceipted>>

(* present: an answer that is not the latest turn's is dropped.            *)
Present(t, state, genuine) ==
  screen' = IF t = turns THEN [state |-> state, genuine |-> genuine] ELSE screen

(* mockIvrApi: the canned answer, whatever the menu is.                    *)
Mock(k) ==
  IF k = "4" THEN "sos_confirm" ELSE IF k = "voice" THEN "speech" ELSE "menu"

(* Mutant of NoReply: one retry too many.                                  *)
NoReplyOffByOne(t) ==
  /\ client[t] = "waiting"
  /\ IF round[t] <= MAX_RETRIES
       THEN client' = [client EXCEPT ![t] = "backoff"] /\ UNCHANGED screen
       ELSE client' = [client EXCEPT ![t] = "done"] /\ Present(t, Mock(kind[t]), FALSE)
  /\ UNCHANGED <<turns, kind, round, serverVars, historyVars>>

(* attempt fails: the timeout fires, the connection drops, or the server   *)
(* answers with a status worth retrying.  After the last round, the canned *)
(* answer.                                                                 *)
NoReply(t) ==
  /\ client[t] = "waiting"
  /\ IF round[t] < MAX_RETRIES
       THEN client' = [client EXCEPT ![t] = "backoff"] /\ UNCHANGED screen
       ELSE client' = [client EXCEPT ![t] = "done"] /\ Present(t, Mock(kind[t]), FALSE)
  /\ UNCHANGED <<turns, kind, round, serverVars, historyVars>>

(* The next round, after the backoff.                                      *)
Retry(t) ==
  /\ client[t] = "backoff"
  /\ client' = [client EXCEPT ![t] = "waiting"]
  /\ round' = [round EXCEPT ![t] = @ + 1]
  /\ Send(t, round[t] + 1)
  /\ hurried' = IF \E a \in live : a.turn = t THEN hurried \cup {t} ELSE hurried
  /\ UNCHANGED <<turns, kind, screen, menu, receipts, seen, applied, raised,
                 unreceipted, crowded>>

-----------------------------------------------------------------------------
(* The server *)

(* The attempt goes on: to its next step, with its answer.                 *)
Move(a, step, answer) ==
  live' = (live \ {a}) \cup {[a EXCEPT !.at = step, !.answer = answer]}

(* Mutant of Check: the receipt is not asked for.                          *)
CheckBlind(a) ==
  /\ a.at = "sent"
  /\ Move(a, "checked", "none")
  /\ UNCHANGED <<appVars, menu, receipts, historyVars>>

(* _replayed_turn.  If Redis fails, the turn runs as if there were no      *)
(* receipt.                                                                *)
Check(a) ==
  /\ a.at = "sent"
  /\ \/ /\ receipts[a.turn] # "none"
        /\ Move(a, "replying", receipts[a.turn])
        /\ UNCHANGED unreceipted
     \/ /\ receipts[a.turn] = "none"
        /\ Move(a, "checked", "none")
        /\ UNCHANGED unreceipted
     \/ /\ Move(a, "checked", "none")
        /\ unreceipted' = unreceipted \cup {a.turn}
  /\ UNCHANGED <<appVars, menu, receipts, seen, applied, raised, hurried, crowded>>

(* What a turn asks for where the call stands; a recording is answered in  *)
(* the speech state.                                                       *)
Effect(k, state) ==
  IF k = "voice" THEN Transition("speech", "enter_speech")
  ELSE next_state(state, k)

(* The session is resolved and the transition's action performed.          *)
Apply(a) ==
  /\ a.at = "checked"
  /\ LET t == Effect(kind[a.turn], menu) IN
       /\ Move(a, "applied", t.state)
       /\ raised' = IF t.action = "sos_dispatch" THEN raised \cup {a.turn} ELSE raised
  /\ applied' = [applied EXCEPT ![a.turn] = @ + 1]
  /\ UNCHANGED <<appVars, menu, receipts, seen, hurried, unreceipted, crowded>>

(* Mutant of Stored: the position is not stored after a dispatch.          *)
StoredUnlessRaised(a) == IF a.turn \in raised THEN menu ELSE a.answer

(* What _store writes.                                                     *)
Stored(a) == a.answer

Store(a) ==
  /\ a.at = "applied"
  /\ menu' = Stored(a)
  /\ Move(a, "stored", a.answer)
  /\ UNCHANGED <<appVars, receipts, historyVars>>

(* _remember_turn, which Redis may fail.                                   *)
Remember(a) ==
  /\ a.at = "stored"
  /\ Move(a, "replying", a.answer)
  /\ \/ receipts' = [receipts EXCEPT ![a.turn] = a.answer] /\ UNCHANGED unreceipted
     \/ unreceipted' = unreceipted \cup {a.turn} /\ UNCHANGED receipts
  /\ UNCHANGED <<appVars, menu, seen, applied, raised, hurried, crowded>>

(* The answer reaches the app; it counts if its attempt is still waited for. *)
Reply(a) ==
  /\ a.at = "replying"
  /\ live' = live \ {a}
  /\ IF client[a.turn] = "waiting" /\ round[a.turn] = a.round
       THEN client' = [client EXCEPT ![a.turn] = "done"] /\ Present(a.turn, a.answer, TRUE)
       ELSE UNCHANGED <<client, screen>>
  /\ UNCHANGED <<turns, kind, round, menu, receipts, historyVars>>

(* voice turns an unusable recording down before it acts on it (400, 413,  *)
(* 415): no retry, the canned answer.                                      *)
Refuse(a) ==
  /\ a.at = "checked" /\ kind[a.turn] = "voice"
  /\ live' = live \ {a}
  /\ IF client[a.turn] = "waiting" /\ round[a.turn] = a.round
       THEN client' = [client EXCEPT ![a.turn] = "done"] /\ Present(a.turn, Mock("voice"), FALSE)
       ELSE UNCHANGED <<client, screen>>
  /\ UNCHANGED <<turns, kind, round, menu, receipts, historyVars>>

-----------------------------------------------------------------------------
(* The environment *)

(* The request or its answer is lost, or the worker dies on the way.       *)
Lose(a) ==
  /\ live' = live \ {a}
  /\ unreceipted' = IF a.at \in {"applied", "stored"} THEN unreceipted \cup {a.turn}
                    ELSE unreceipted
  /\ UNCHANGED <<appVars, menu, receipts, seen, applied, raised, hurried, crowded>>

(* Redis loses a receipt while somebody may still ask for it.              *)
Forget(t) ==
  /\ receipts[t] # "none"
  /\ t \in InFlight \/ \E a \in live : a.turn = t /\ a.at = "sent"
  /\ receipts' = [receipts EXCEPT ![t] = "none"]
  /\ unreceipted' = unreceipted \cup {t}
  /\ UNCHANGED <<appVars, live, menu, seen, applied, raised, hurried, crowded>>

-----------------------------------------------------------------------------
Next ==
  \/ \E k \in Kinds : Begin(k)
  \/ Unheard
  \/ \E t \in Turns : NoReply(t) \/ Retry(t) \/ Forget(t)
  \/ \E a \in live :
       \/ Check(a) \/ Apply(a) \/ Store(a) \/ Remember(a)
       \/ Refuse(a) \/ Reply(a) \/ Lose(a)

Spec == Init /\ [][Next]_vars

-----------------------------------------------------------------------------
(* Properties *)

(* A turn takes effect once, however often its answer was lost and it was  *)
(* sent again: unless an attempt was still alive when the next one left,   *)
(* or its receipt was missing.                                             *)
AppliedOnce ==
  \A t \in Turns \ (hurried \cup unreceipted) : applied[t] <= 1

(* A hang-up key means something else the second time: it leaves a prompt  *)
(* for the menu, ends the call from there, and then, as any key does,      *)
(* opens it again at the language prompt.                                  *)
HungUp == \E t \in Turns : client[t] # "unused" /\ kind[t] = "#"

(* When a call is at rest and its turns never overlapped, the caller looks *)
(* at the menu the server is at: nobody presses a key meant for another    *)
(* prompt.  Every other key leaves the menu where its first press put it,  *)
(* so that attempts which overlap and receipts which go missing do no harm *)
(* in a call nobody hung up.  (The canned answer is another matter: see    *)
(* DispatchSeen.)                                                          *)
ScreenTrue ==
  /\ live = {} /\ InFlight = {} /\ ~crowded /\ screen.genuine
  /\ HungUp => hurried = {} /\ unreceipted = {}
  => screen.state = menu

(* A turn makes the menu raise an emergency only if it is a 1, and, taken  *)
(* at a screen the server sent in a call whose turns never overlapped,     *)
(* only if that screen was the confirmation.                               *)
DispatchConfirmed ==
  \A t \in raised :
    /\ kind[t] = "1"
    /\ seen[t].genuine /\ ~crowded => seen[t].state = "sos_confirm"

(* What the repository says and the code does not do.                      *)

(* "Pressing 4 never dispatches.  It moves to a confirmation state; only   *)
(* pressing 1 there raises the emergency": the caller saw that state.      *)
DispatchSeen == ~crowded => \A t \in raised : seen[t].state = "sos_confirm"
=============================================================================
