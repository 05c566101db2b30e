--------------------------- MODULE AssistantTurn ---------------------------
(***************************************************************************)
(* One turn of the assistant (services/llm_orchestrator.py): the language  *)
(* model calls tools, in up to three rounds, and is to say the answer; if  *)
(* it breaks off, what the tools returned is put into words; if there is   *)
(* nothing, keyword rules answer.  An answer is a set of sentences and,    *)
(* where there is a screen, the tools' cards.                              *)
(*                                                                         *)
(* A tool's arguments are told apart by whether they fit (a known zone or  *)
(* category, a valid report, a reachable place) and whether a place comes  *)
(* with them, from the model or from the session.                          *)
(***************************************************************************)
EXTENDS Handles, Sequences, FiniteSets

CONSTANTS
    Called,         \* the tools the model calls in this instance
    Messages,       \* what the pilgrim may say: keyword hits by intent
    MaxCalls        \* tool calls of the turn

VARIABLES
    turnPc, channel, located,
    rounds,         \* answers of the model that called tools
    outcomes,       \* the tools' outcomes so far, in order
    filed,          \* reports committed: their references
    reply,          \* the sentences of the answer
    source,         \* who worded it
    cards           \* the cards of the answer

turnVars == <<turnPc, channel, located, rounds, outcomes, filed, reply, source, cards>>

MAX_TOOL_ROUNDS == 3

(* The tools the model is offered; it may make up others.                  *)
TOOL_SCHEMAS ==
    {"get_crowd_density", "get_congestion_forecast", "get_route_guidance",
     "get_nearby_facility", "get_temple_info", "report_lost_found", "trigger_sos",
     "get_palkhi_location", "escalate_to_human"}

Intents == {"sos", "lost_found", "escalate", "forecast", "crowd", "facility", "route",
            "temple", "palkhi", "greeting"}

ASSUME CalledAssumption == "made_up" \notin TOOL_SCHEMAS /\ Called \subseteq TOOL_SCHEMAS \cup {"made_up"}
ASSUME MessagesAssumption == Messages \subseteq [Intents -> Nat]
ASSUME CallsAssumption == MaxCalls \in Nat

(* ToolOutcome: the reference is that of a report; why is the reason of a  *)
(* failure the wording tells apart.                                        *)
ToolOutcome == [name : TOOL_SCHEMAS \cup {"made_up"}, ok : BOOLEAN, card : BOOLEAN,
                ref : 0..MaxCalls, why : {"", "no_location"}]
Shows(tool)  == [name |-> tool, ok |-> TRUE, card |-> TRUE, ref |-> 0, why |-> ""]
Fails(tool)  == [Shows(tool) EXCEPT !.ok = FALSE, !.card = FALSE]
Placeless(tool) == [Fails(tool) EXCEPT !.why = "no_location"]

Sentence == [about : TOOL_SCHEMAS \cup {"made_up", "nothing", "model"}, ref : 0..MaxCalls,
             gist : {"result", "message", "need_location", "none_found", "fallback", "own"}]
Says(about, gist) == [about |-> about, gist |-> gist, ref |-> 0]

TurnType ==
    /\ turnPc \in {"start", "model", "tools", "refresh", "word", "rules", "done"}
    /\ channel \in {"app", "ivr", "ivr_screen"}
    /\ located \in BOOLEAN
    /\ rounds \in 0..MAX_TOOL_ROUNDS
    /\ \A i \in DOMAIN outcomes : i <= MaxCalls + 1 /\ outcomes[i] \in ToolOutcome
    /\ filed \subseteq 1..MaxCalls
    /\ reply \subseteq Sentence
    /\ source \in {"", "llm", "rules"}
    /\ cards \subseteq ToolOutcome

TurnInit ==
    /\ turnPc = "start" /\ channel \in {"app", "ivr", "ivr_screen"} /\ located \in BOOLEAN
    /\ rounds = 0 /\ outcomes = <<>> /\ filed = {}
    /\ reply = {} /\ source = "" /\ cards = {}

-----------------------------------------------------------------------------
(* The tools *)

Arguments == [fits : BOOLEAN, placed : BOOLEAN]

_tool_crowd_density(args) ==
    IF args.fits THEN Shows("get_crowd_density") ELSE Fails("get_crowd_density")
_tool_congestion_forecast(args) ==
    IF args.fits THEN Shows("get_congestion_forecast") ELSE Fails("get_congestion_forecast")
_tool_route_guidance(args) ==
    IF ~args.placed THEN Placeless("get_route_guidance")
    ELSE IF args.fits THEN Shows("get_route_guidance") ELSE Fails("get_route_guidance")
_tool_nearby_facility(args) ==
    IF ~args.placed THEN Placeless("get_nearby_facility")
    ELSE IF args.fits THEN Shows("get_nearby_facility") ELSE Fails("get_nearby_facility")
_tool_temple_info        == Shows("get_temple_info")
_tool_get_palkhi_location == Shows("get_palkhi_location")
_tool_escalate           == Shows("escalate_to_human")

(* Never a dispatch: a card that asks, or one that says it cannot be.      *)
_tool_trigger_sos(args) ==
    IF args.placed THEN Shows("trigger_sos")
    ELSE [Placeless("trigger_sos") EXCEPT !.card = TRUE]

(* What a tool other than the report returns.                              *)
Outcome(tool, args) ==
    CASE tool = "get_crowd_density"       -> _tool_crowd_density(args)
      [] tool = "get_congestion_forecast" -> _tool_congestion_forecast(args)
      [] tool = "get_route_guidance"      -> _tool_route_guidance(args)
      [] tool = "get_nearby_facility"     -> _tool_nearby_facility(args)
      [] tool = "get_temple_info"         -> _tool_temple_info
      [] tool = "get_palkhi_location"     -> _tool_get_palkhi_location
      [] tool = "escalate_to_human"       -> _tool_escalate
      [] tool = "trigger_sos"             -> _tool_trigger_sos(args)
      [] OTHER                            -> Fails(tool)

(* After an outcome: the next call of the same answer, or the model again. *)
Goes(outcome) ==
    /\ outcomes' = Append(outcomes, outcome)
    /\ turnPc' \in (IF Len(outcomes') < MaxCalls THEN {"tools", "model"} ELSE {"model"})

(* _execute_tool: a handler that raises is a failed outcome, as is a tool  *)
(* that does not exist.                                                    *)
_execute_tool ==
    /\ turnPc = "tools"
    /\ \E tool \in Called \ {"report_lost_found"}, args \in Arguments :
          /\ located => args.placed
          /\ Goes(Outcome(tool, args)) \/ (~Executes /\ Goes(Fails(tool)))
    /\ UNCHANGED <<channel, located, rounds, filed, reply, source, cards>>

(* _tool_report_lost_found: an invalid report is refused; otherwise it is  *)
(* filed with the next reference and committed, and then read back.        *)
_tool_report_lost_found ==
    /\ turnPc = "tools" /\ "report_lost_found" \in Called
    /\ \/ Goes(Fails("report_lost_found")) /\ UNCHANGED filed
       \/ /\ Executes
          /\ filed' = filed \cup {Cardinality(filed) + 1}
          /\ turnPc' = "refresh" /\ UNCHANGED outcomes
    /\ UNCHANGED <<channel, located, rounds, reply, source, cards>>

(* A refresh that fails makes a failure of a report that is filed.         *)
report_refresh ==
    /\ turnPc = "refresh"
    /\ Goes(IF Executes
            THEN [Shows("report_lost_found") EXCEPT !.ref = Cardinality(filed)]
            ELSE Fails("report_lost_found"))
    /\ UNCHANGED <<channel, located, rounds, filed, reply, source, cards>>

-----------------------------------------------------------------------------
(* The model *)

(* The cards of an answer: those of all outcomes, if there is a screen.    *)
Widgets(of) == IF channel = "ivr" THEN {} ELSE {o \in of : o.card}

(* process_message: with a model, or by the rules alone.                   *)
process_message ==
    /\ turnPc = "start" /\ turnPc' \in {"model", "rules"}
    /\ UNCHANGED <<channel, located, rounds, outcomes, filed, reply, source, cards>>

(* _run_llm: the model answers with tool calls, as long as rounds are left. *)
model_calls ==
    /\ turnPc = "model" /\ rounds < MAX_TOOL_ROUNDS /\ Len(outcomes) < MaxCalls
    /\ rounds' = rounds + 1 /\ turnPc' = "tools"
    /\ UNCHANGED <<channel, located, outcomes, filed, reply, source, cards>>

(* ... with a sentence: its last word.                                     *)
model_answers ==
    /\ turnPc = "model" /\ rounds < MAX_TOOL_ROUNDS
    /\ reply' = {Says("model", "own")} /\ source' = "llm" /\ turnPc' = "done"
    /\ cards' = Widgets({outcomes[i] : i \in DOMAIN outcomes})
    /\ UNCHANGED <<channel, located, rounds, outcomes, filed>>

(* Mutant of model_breaks_off: the outcomes are forgotten.                 *)
DropsOutcomes ==
    /\ turnPc = "model" /\ turnPc' = "rules" /\ outcomes' = <<>>
    /\ UNCHANGED <<channel, located, rounds, filed, reply, source, cards>>

(* ... with nothing, too late, not at all, or not within its rounds: what  *)
(* the tools returned remains.                                             *)
model_breaks_off ==
    /\ turnPc = "model"
    /\ turnPc' = IF outcomes = <<>> THEN "rules" ELSE "word"
    /\ UNCHANGED <<channel, located, rounds, outcomes, filed, reply, source, cards>>

-----------------------------------------------------------------------------
(* The answer without the model *)

(* _describe: the sentence for an outcome.  An emergency and a report have *)
(* their own wording, on their cards.                                      *)
_describe(o) ==
    LET worded == {"trigger_sos", "report_lost_found"}
        gist == IF o.ok
                THEN IF o.name \in worded \cup {"escalate_to_human"} THEN "message" ELSE "result"
                ELSE IF o.name \in worded THEN (IF o.card THEN "message" ELSE "fallback")
                ELSE IF o.name = "get_nearby_facility" /\ o.why # "no_location" THEN "none_found"
                ELSE "need_location"
    IN [about |-> o.name, gist |-> gist, ref |-> o.ref]

(* Each tool is described once, by its first outcome.                      *)
describe_outcomes ==
    /\ turnPc = "word" /\ turnPc' = "done" /\ source' = "rules"
    /\ reply' = {_describe(outcomes[i]) : i \in
                   {j \in DOMAIN outcomes : \A k \in 1..j - 1 : outcomes[k].name # outcomes[j].name}}
    /\ cards' = Widgets({outcomes[i] : i \in DOMAIN outcomes})
    /\ UNCHANGED <<channel, located, rounds, outcomes, filed>>

(* The intents in the order of _INTENT_KEYWORDS, which breaks ties.        *)
_INTENT_KEYWORDS == <<"sos", "lost_found", "escalate", "forecast", "crowd", "facility",
                      "route", "temple", "palkhi", "greeting">>

(* classify_intent, from the number of keywords hit for each intent.       *)
classify_intent(hits) ==
    LET score(i) == hits[_INTENT_KEYWORDS[i]]
        best == {i \in 1..Len(_INTENT_KEYWORDS) :
                   /\ score(i) > 0
                   /\ \A j \in 1..Len(_INTENT_KEYWORDS) :
                        score(j) < score(i) \/ (score(j) = score(i) /\ j >= i)}
    IN IF \A i \in Intents : hits[i] = 0 THEN "unknown"
       ELSE IF hits["sos"] > 0 THEN "sos"
       ELSE IF hits["forecast"] > 0 /\ hits["crowd"] > 0 THEN "forecast"
       ELSE _INTENT_KEYWORDS[CHOOSE i \in best : TRUE]

RuleTool ==
    [sos |-> "trigger_sos", crowd |-> "get_crowd_density", forecast |-> "get_congestion_forecast",
     facility |-> "get_nearby_facility", route |-> "get_route_guidance",
     temple |-> "get_temple_info", palkhi |-> "get_palkhi_location",
     escalate |-> "escalate_to_human"]

(* _rule_based: the tool the keywords call for, or a sentence; a report is *)
(* never filed, nor a facility looked for without a place.                 *)
_rule_based ==
    /\ turnPc = "rules" /\ turnPc' = "done" /\ source' = "rules"
    /\ \E hits \in Messages :
         LET intent == classify_intent(hits) IN
         \/ /\ intent \notin DOMAIN RuleTool \/ (intent = "facility" /\ ~located)
            /\ outcomes' = <<>> /\ reply' = {Says("nothing", "fallback")}
         \/ /\ intent \in DOMAIN RuleTool /\ (intent = "facility" => located)
            /\ \E fits \in BOOLEAN :
                 LET o == Outcome(RuleTool[intent], [fits |-> fits, placed |-> located])
                 IN outcomes' = <<o>> /\ reply' = {_describe(o)}
    /\ cards' = Widgets({outcomes'[i] : i \in DOMAIN outcomes'})
    /\ UNCHANGED <<channel, located, rounds, filed>>

TurnNext ==
    /\ \/ process_message \/ model_calls \/ model_answers \/ model_breaks_off
       \/ _execute_tool \/ _tool_report_lost_found \/ report_refresh
       \/ describe_outcomes \/ _rule_based
    /\ UNCHANGED handleVars

-----------------------------------------------------------------------------
(* Properties *)

(* The references of the reports whose filing succeeded, as the turn saw.  *)
Handed == {o.ref : o \in {outcomes[i] : i \in DOMAIN outcomes}} \ {0}
OnCards == {o.ref : o \in cards}
InWords == {s.ref : s \in reply}

(***************************************************************************)
(* Where there is a screen, the reference of every report the assistant    *)
(* filed is on a card of the answer, though the model timed out, failed,   *)
(* said nothing or never stopped calling tools; only a report whose read   *)
(* back failed is not.  (process_message, _run_llm)                        *)
(***************************************************************************)
ReferenceShown ==
    turnPc = "done" /\ channel # "ivr" =>
        /\ Handed \subseteq OnCards
        /\ outages = 0 => filed \subseteq OnCards

(***************************************************************************)
(* "Describe what those tools returned rather than discarding them - one   *)
(* of them may have filed a report whose reference number the pilgrim      *)
(* still needs" (llm_orchestrator.py:536-539): an answer the model did not *)
(* word tells every reference, on a card or in words.                      *)
(***************************************************************************)
ReferenceTold ==
    turnPc = "done" /\ source = "rules" => Handed \subseteq OnCards \cup InWords
=============================================================================
