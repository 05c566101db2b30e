------------------------------ MODULE IvrMenu ------------------------------
(***************************************************************************)
(* The in-app IVR menu (services/ivr_state.py): a pure function from where *)
(* a call stands and the key pressed to where it stands next and what the  *)
(* endpoint has to do.  Prompts and option labels are left out.            *)
(***************************************************************************)

States == {"language", "menu", "sos_confirm", "speech", "ended"}

Keys == {"0", "1", "2", "3", "4", "5", "6", "7", "8", "9", "*", "#"}

LANGUAGE_KEYS == {"1", "2", "3"}

Transition(s, a) == [state |-> s, action |-> a]

(* Mutant of start: a state the menu does not know.                        *)
startMisspelt == Transition("greeting", "greet")

start == Transition("language", "greet")

main_menu(action) == Transition("menu", action)

(* The information keys of the main menu.                                  *)
Info == [k \in {"1", "2", "3"} |->
           IF k = "1" THEN "crowd_summary"
           ELSE IF k = "2" THEN "temple_info" ELSE "nearby_seva"]

(* Mutant of Ask: the menu key dispatches at once.                         *)
AskSkipped == main_menu("sos_dispatch")

(* Emergency help is asked about first.                                    *)
Ask == Transition("sos_confirm", "sos_confirm")

Menu(key) ==
  IF key \in DOMAIN Info THEN main_menu(Info[key])
  ELSE IF key = "4" THEN Ask
  ELSE IF key = "9" THEN Transition("speech", "enter_speech")
  ELSE IF key = "0" THEN main_menu("replay")
  ELSE IF key = "#" THEN Transition("ended", "goodbye")
  ELSE main_menu("invalid")

SosConfirm(key) ==
  IF key = "1" THEN main_menu("sos_dispatch")
  ELSE IF key \in {"0", "#"} THEN main_menu("replay")
  ELSE Transition("sos_confirm", "invalid")

(* An unknown key stays where it is and asks again.                        *)
next_state(state, key) ==
  IF state = "language" THEN
    IF key \in LANGUAGE_KEYS THEN main_menu("language_selected")
    ELSE Transition("language", "invalid")
  ELSE IF state = "menu" THEN Menu(key)
  ELSE IF state = "sos_confirm" THEN SosConfirm(key)
  ELSE IF state = "speech" THEN
    IF key \in {"0", "#"} THEN main_menu("replay")
    ELSE Transition("speech", "invalid")
  ELSE start
=============================================================================
