----------------------------- MODULE SpeechClips -----------------------------
(***************************************************************************)
(* The cache of spoken prompts (tts.py) and the warming of it at start-up  *)
(* (ivr_audio_cache.py), beside the live requests that speak the same      *)
(* prompts (routers/voice.py, voice_service.py).  A clip arrives in pieces *)
(* and is cached for a day, by the warmer for a month; a manifest remembers*)
(* that the whole set was warmed, and a lock keeps the processes from      *)
(* warming it together.                                                    *)
(***************************************************************************)
EXTENDS Handles, FiniteSets

CONSTANTS
    Warmers,            \* processes that warm at start-up
    Speaker,            \* a process with a live request
    Prompts,            \* static prompts, numbered in the order of their digests
    LiveTexts,          \* texts asked for live, prompts and others
    MarathiTexts,       \* those of the others that Google speaks, ElevenLabs the rest
    Pieces,             \* pieces a clip arrives in
    MAX_CONCURRENCY

ASSUME ClipsAssumption ==
    /\ Warmers \cup {Speaker} \subseteq Workers /\ "none" \notin Warmers
    /\ MarathiTexts \subseteq LiveTexts \ Prompts
    /\ Prompts \cup LiveTexts \subseteq Nat \ {0}
    /\ {Pieces, MAX_CONCURRENCY} \subseteq Nat \ {0}

VARIABLES
    clips,              \* clips[t]: pieces cached of a text, and for how long
    manifest,           \* whether ivr:audio:manifest is the fingerprint of the set
    warmLock,           \* the process whose ivr:audio:warm:lock it is, or "none"
    warmPc,             \* a warmer's step
    job,                \* job[w][p]: what became of p in w's run
    speaking, pieces,   \* the live request, pieces it received
    gone,               \* history: prompts whose month-long clip was lost, replaced, or
                        \* not taken by Redis
    overrun             \* history: a lock went while its holder was warming

clipVars == <<clips, manifest, warmLock, warmPc, job, speaking, pieces, gone, overrun>>
warmVars == <<warmPc, job>>

Texts == Prompts \cup LiveTexts
NoClip == [pieces |-> 0, lasts |-> "none"]
Clip(n, lasts) == [pieces |-> n, lasts |-> lasts]
Silent == [text |-> 0, step |-> "idle"]

ClipsType ==
    /\ {manifest, overrun} \subseteq BOOLEAN
    /\ clips \in [Texts -> {NoClip} \cup [pieces : 0..Pieces, lasts : {"day", "month"}]]
    /\ warmLock \in Warmers \cup {"none"}
    /\ warmPc \in [Warmers -> {"idle", "lock", "warm", "unlock"}]
    /\ job \in [Warmers -> [Prompts -> {"todo", "stream", "keep", "done", "failed"}]]
    /\ speaking \in {Silent} \cup [text : Texts, step : {"stream", "store"}]
    /\ pieces \in 0..Pieces /\ gone \in SUBSET Prompts

ClipsInit ==
    /\ clips = [t \in Texts |-> NoClip]
    /\ manifest = FALSE /\ warmLock = "none" /\ overrun = FALSE
    /\ warmPc = [w \in Warmers |-> "idle"]
    /\ job = [w \in Warmers |-> [p \in Prompts |-> "todo"]]
    /\ speaking = Silent /\ pieces = 0 /\ gone = {}

(* cached: a failing or missing Redis is a miss.                           *)
cached(w, t) == Answered(w) /\ clips[t] # NoClip

(* Mutant of store: kept without EX.                                       *)
StoreForever(w, t, n, lasts) ==
    clips' = IF Answered(w) /\ n > 0 THEN [clips EXCEPT ![t] = Clip(n, "none")] ELSE clips

(* store, for a day or a month: what Redis does not take is left at that.  *)
store(w, t, n, lasts) ==
    clips' = IF Answered(w) /\ n > 0 THEN [clips EXCEPT ![t] = Clip(n, lasts)] ELSE clips

----------------------------------------------------------------------------
(* Warming.                                                                *)

Warming(w) == warmPc[w] = "warm"
(* The state a run starts and ends with.                                   *)
Rest(w, point) ==
    /\ warmPc' = [warmPc EXCEPT ![w] = point]
    /\ job' = [job EXCEPT ![w] = [p \in Prompts |-> "todo"]]

(* start, at the boot of a process, up to the look at the manifest.  Bound: *)
(* once a lock was overrun, those at it finish and no other one boots.     *)
warm_static_prompts(w) ==
    /\ warmPc[w] = "idle" /\ ~overrun
    /\ Answered(w) /\ ~manifest
    /\ Rest(w, "lock")
    /\ UNCHANGED <<clips, manifest, warmLock, speaking, pieces, gone, overrun>>

(* Mutant of warm_lock: SET without NX.                                    *)
WarmAnyway(w) ==
    /\ warmPc[w] = "lock"
    /\ IF Answered(w) THEN warmLock' = w /\ Rest(w, "warm")
                      ELSE Rest(w, "idle") /\ UNCHANGED warmLock
    /\ UNCHANGED <<clips, manifest, speaking, pieces, gone, overrun>>

(* SET NX EX.                                                              *)
warm_lock(w) ==
    /\ warmPc[w] = "lock"
    /\ IF Answered(w) /\ warmLock = "none" THEN warmLock' = w /\ Rest(w, "warm")
                                           ELSE Rest(w, "idle") /\ UNCHANGED warmLock
    /\ UNCHANGED <<clips, manifest, speaking, pieces, gone, overrun>>

(* gone is kept up only as long as no lock was overrun.                    *)
Noted(prompts) == gone' = IF overrun THEN {} ELSE prompts

(* A month's clip that a day's one replaces.                               *)
Shortened(w, t) == IF Answered(w) /\ clips[t].lasts = "month" THEN {t} ELSE {}

Turns(w, p, from, to) ==
    /\ warmPc[w] = "warm" /\ job[w][p] = from
    /\ job' = [job EXCEPT ![w][p] = to]
    /\ UNCHANGED warmPc
Underway(w) == {p \in Prompts : job[w][p] \in {"stream", "keep"}}

(* _warm_prompt: a clip that is there is kept on, else it is synthesised.  *)
(* The semaphore lets the prompts in by their order.                       *)
_warm_prompt(w, p) ==
    /\ \A q \in Prompts : q < p => job[w][q] # "todo"
    /\ Cardinality(Underway(w)) < MAX_CONCURRENCY
    /\ Turns(w, p, "todo", IF cached(w, p) THEN "keep" ELSE "stream")
    /\ UNCHANGED <<clips, manifest, warmLock, speaking, pieces, gone, overrun>>

(* synthesize_openai_bytes has the whole stream and caches it for a day; a *)
(* 200 without audio leaves nothing to keep.                               *)
warm_synthesised(w, p) ==
    /\ \/ /\ Turns(w, p, "stream", "keep")
          /\ store(w, p, Pieces, "day")
          /\ Noted(gone \cup Shortened(w, p))
       \/ /\ Turns(w, p, "stream", "done")
          /\ Noted(gone \cup {p})
          /\ UNCHANGED clips
    /\ UNCHANGED <<manifest, warmLock, speaking, pieces, overrun>>

(* _synthesize_patiently gives up on a prompt; when it is the provider's   *)
(* rate limit that will not let it through, on all that has not begun.     *)
_synthesize_patiently(w, p) ==
    /\ warmPc[w] = "warm" /\ job[w][p] = "stream"
    /\ \E abandoned \in BOOLEAN :
         job' = [job EXCEPT ![w] = [q \in Prompts |->
                    IF q = p \/ (abandoned /\ @[q] = "todo") THEN "failed" ELSE @[q]]]
    /\ UNCHANGED <<clips, manifest, warmLock, warmPc, speaking, pieces, gone, overrun>>

warm_keep(w, p) ==
    /\ Turns(w, p, "keep", "done")
    /\ store(w, p, Pieces, "month")
    /\ Noted(IF Answered(w) THEN gone \ {p} ELSE gone \cup {p})
    /\ UNCHANGED <<manifest, warmLock, speaking, pieces, overrun>>

(* Mutant of Clean: any success will do.                                   *)
CleanEnough(w) == \E p \in Prompts : job[w][p] = "done"

(* The end of a run: only a clean one is remembered.                       *)
Clean(w) == \A p \in Prompts : job[w][p] = "done"

warm_done(w) ==
    /\ warmPc[w] = "warm" /\ \A p \in Prompts : job[w][p] \in {"done", "failed"}
    /\ Rest(w, "unlock")
    /\ manifest' = (manifest \/ (Clean(w) /\ Answered(w)))
    /\ UNCHANGED <<clips, warmLock, speaking, pieces, gone, overrun>>

(* The lock is deleted, whoever holds it by then.                          *)
warm_unlock(w) ==
    /\ warmPc[w] = "unlock" /\ Rest(w, "idle")
    /\ warmLock' = IF Answered(w) THEN "none" ELSE warmLock
    /\ overrun' = (overrun \/ (Answered(w) /\ warmLock \notin {"none", w}))
    /\ UNCHANGED <<clips, manifest, speaking, pieces, gone>>

(* stop cancels the task, which then deletes the lock; or the process dies.*)
stop(w) ==
    /\ \/ Warming(w) /\ Rest(w, "unlock")
       \/ warmPc[w] # "idle" /\ Rest(w, "idle")
    /\ UNCHANGED <<clips, manifest, warmLock, speaking, pieces, gone, overrun>>

----------------------------------------------------------------------------
(* Speaking.                                                               *)

(* A hit is played at once: the call's prompts (voice_service.speak) and   *)
(* what the app asks to be read (/api/voice/speak).                        *)
speak(t) ==
    /\ speaking = Silent
    /\ ~cached(Speaker, t)
    /\ speaking' = [text |-> t, step |-> "stream"] /\ pieces' = 0
    /\ UNCHANGED <<clips, manifest, warmLock, warmVars, gone, overrun>>

(* OpenAI, ElevenLabs and Google: the last one's clip comes whole.         *)
provider_for(t) ==
    IF t \in Prompts THEN "openai" ELSE IF t \in MarathiTexts THEN "google" ELSE "elevenlabs"

synthesize ==
    /\ speaking.step = "stream"
    /\ pieces' = IF provider_for(speaking.text) = "google" THEN Pieces ELSE pieces + 1
    /\ speaking' = [speaking EXCEPT !.step = IF pieces' = Pieces THEN "store" ELSE "stream"]
    /\ UNCHANGED <<clips, manifest, warmLock, warmVars, gone, overrun>>

(* The provider fails, the connection drops, or the listener goes away.    *)
speak_fails ==
    /\ speaking # Silent /\ speaking' = Silent /\ pieces' = 0
    /\ UNCHANGED <<clips, manifest, warmLock, warmVars, gone, overrun>>

(* The whole clip has been sent and is cached for a day.                   *)
speak_store ==
    /\ speaking.step = "store" /\ speaking' = Silent /\ pieces' = 0
    /\ store(Speaker, speaking.text, pieces, "day")
    /\ Noted(gone \cup Shortened(Speaker, speaking.text))
    /\ UNCHANGED <<manifest, warmLock, warmVars, overrun>>

----------------------------------------------------------------------------
(* Keys expire; a Redis that restarts empty loses them one after the other. *)
ClipExpires ==
    /\ \E t \in Texts :
         /\ clips[t] # NoClip /\ clips' = [clips EXCEPT ![t] = NoClip]
         /\ Noted(IF clips[t].lasts = "month" THEN gone \cup {t} ELSE gone)
    /\ UNCHANGED <<manifest, warmLock, warmVars, speaking, pieces, overrun>>

ManifestExpires ==
    /\ manifest /\ manifest' = FALSE
    /\ UNCHANGED <<clips, warmLock, warmVars, speaking, pieces, gone, overrun>>

(* The lock's five minutes are over.                                       *)
LockExpires ==
    /\ warmLock # "none" /\ warmLock' = "none"
    /\ overrun' = (overrun \/ Warming(warmLock))
    /\ Noted(IF overrun' THEN {} ELSE gone)
    /\ UNCHANGED <<clips, manifest, warmVars, speaking, pieces>>

WarmNext ==
    \E w \in Warmers :
         \/ stop(w)
         \/ warm_static_prompts(w) \/ warm_lock(w) \/ warm_done(w) \/ warm_unlock(w)
         \/ \E p \in Prompts : \/ _warm_prompt(w, p) \/ warm_synthesised(w, p)
                               \/ _synthesize_patiently(w, p) \/ warm_keep(w, p)

SpeakNext == (\E t \in LiveTexts : speak(t)) \/ synthesize \/ speak_fails \/ speak_store

ClipsNext ==
    /\ \/ WarmNext \/ SpeakNext
       \/ ClipExpires \/ ManifestExpires \/ LockExpires
    /\ UNCHANGED handleVars

(***************************************************************************)
(* Two processes never warm at once ("the first to take the Redis lock     *)
(* does the work", ivr_audio_cache.py:193-195), through deaths,            *)
(* cancellations and outages, unless a lock was gone before its holder was *)
(* done: a run longer than the lock's five minutes, a lock Redis lost or   *)
(* another process deleted.                                                *)
(***************************************************************************)
OneWarmer == ~overrun => Cardinality({w \in Warmers : Warming(w)}) <= 1

(***************************************************************************)
(* A clip in the cache is whole, whatever broke on its way ("a dropped     *)
(* connection cannot leave a truncated clip cached forever", tts.py:247);  *)
(* and under the manifest every prompt's clip is there for the month ("a   *)
(* partial warm is retried on the next boot instead of being remembered as *)
(* complete", ivr_audio_cache.py:263-264), but for the prompts in gone: a  *)
(* clip Redis did not take or lost, the provider left empty, or a day's    *)
(* clip replaced; and two runs at once may undo each other.                *)
(***************************************************************************)
ClipsTrustworthy ==
    /\ \A t \in Texts : clips[t].pieces \in {0, Pieces}
    /\ manifest /\ ~overrun => \A p \in Prompts \ gone : clips[p] = Clip(Pieces, "month")
=============================================================================
