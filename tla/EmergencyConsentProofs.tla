----------------------- MODULE EmergencyConsentProofs -----------------------
(***************************************************************************)
(* Proofs about EmergencyConsent, for any slots, workers, session ids,     *)
(* kinds of request, tools and number of troubles.                         *)
(***************************************************************************)
EXTENDS EmergencyConsent, TLAPS

(* The menu: where it can lead, how one gets to the confirmation prompt,   *)
(* and that only 1 at that prompt dispatches.                              *)
LEMMA MenuFacts ==
  ASSUME NEW s \in States, NEW k \in Keys
  PROVE  /\ next_state(s, k).state \in States
         /\ next_state(s, k).state = "sos_confirm" =>
              s = "sos_confirm" \/ (s = "menu" /\ k = "4")
         /\ next_state(s, k).action = "sos_dispatch" => s = "sos_confirm" /\ k = "1"
<1> USE DEF next_state, Transition, main_menu, start
<1>1. CASE s = "language"
  BY <1>1 DEF States
<1>2. CASE s = "menu"
  BY <1>2 DEF States, Keys, Menu, Info, Ask
<1>3. CASE s = "sos_confirm"
  BY <1>3 DEF States, SosConfirm
<1>4. CASE s = "speech"
  BY <1>4 DEF States
<1>5. CASE s = "ended"
  BY <1>5 DEF States
<1>6. QED
  BY <1>1, <1>2, <1>3, <1>4, <1>5 DEF States

LEMMA StateFacts ==
  Nothing \in State /\ \A s \in Sids : Blank(s) \in State
BY DEF State, Nothing, Blank, States

LEMMA StoreStep == TypeOK /\ [Next]_vars => StoreTypes'
<1> SUFFICES ASSUME StoreTypes, RequestTypes, [Next]_vars PROVE StoreTypes'
  BY DEF TypeOK
<1> USE StateFacts DEF StoreTypes, storeVars, upVars
<1>i. ASSUME NEW c \in State, Insert(c) PROVE row' \in State
  BY <1>i DEF Insert
<1>p. ASSUME NEW w \in Workers, NEW c \in State, Put(w, c)
      PROVE  hot' \in [Sids -> State] /\ mem' \in [Workers -> [Sids -> State]]
  BY <1>p DEF Put
<1>1. ASSUME NEW r \in Requests, NEW k \in Kinds, NEW w \in Workers, Arrive(r, k, w)
      PROVE  StoreTypes'
  BY <1>1 DEF Arrive
<1>2. ASSUME NEW r \in Requests, Look(r) PROVE StoreTypes'
  BY <1>2 DEF Look
<1>3. ASSUME NEW r \in Requests, Select(r) PROVE StoreTypes'
  BY <1>3 DEF Select, State
<1>4. ASSUME NEW r \in Requests, Create(r) PROVE StoreTypes'
  BY <1>4, <1>i DEF Create, FreshSids
<1>5. ASSUME NEW r \in Requests, Adopt(r) PROVE StoreTypes'
  <2>1. found[r] \in State /\ found[r].sid \in Sids \cup {NoSid} /\ on[r] \in Workers
    BY DEF RequestTypes, State
  <2>2. QED
    BY <1>5, <1>p, <2>1 DEF Adopt
<1>6. ASSUME NEW r \in Requests, Handle(r) \/ VoiceUnusable(r) \/ Turn(r) PROVE StoreTypes'
  BY <1>6 DEF Handle, VoiceUnusable, Turn
<1>7. ASSUME NEW r \in Requests, Raise(r) PROVE StoreTypes'
  BY <1>7, <1>i DEF Raise, RequestTypes
<1>8. ASSUME NEW r \in Requests, Save(r) PROVE StoreTypes'
  BY <1>8, <1>p DEF Save, RequestTypes
<1>9. ASSUME NEW r \in Requests, Sync(r) PROVE StoreTypes'
  BY <1>9 DEF Sync, Synced, RequestTypes
<1>10. CASE Flush \/ PointerExpires
  BY <1>10 DEF Flush, PointerExpires
<1>11. CASE Outage \/ Recover
  BY <1>11 DEF Outage, Recover
<1>12. ASSUME NEW w \in Workers, Crash(w) PROVE StoreTypes'
  BY <1>12 DEF Crash
<1>13. CASE UNCHANGED vars
  BY <1>13 DEF vars
<1>14. QED
  BY <1>1, <1>2, <1>3, <1>4, <1>5, <1>6, <1>7, <1>8, <1>9, <1>10, <1>11, <1>12, <1>13
  DEF Next, RequestStep

(* Copies of a state with a field changed are states.                      *)
LEMMA Changed ==
  ASSUME NEW c \in State
  PROVE  /\ [c EXCEPT !.pending = FALSE] \in State
         /\ \A p \in States : [c EXCEPT !.ivr = p] \in State
         /\ \A p \in States : [c EXCEPT !.pending = FALSE, !.ivr = p] \in State
         /\ \A a, b \in BOOLEAN : [c EXCEPT !.pending = a, !.escalated = b] \in State
BY DEF State

LEMMA RequestStepTypes == TypeOK /\ [Next]_vars => RequestTypes'
<1> SUFFICES ASSUME StoreTypes, RequestTypes, [Next]_vars PROVE RequestTypes'
  BY DEF TypeOK
<1> USE StateFacts DEF RequestTypes, requestVars, Goto, Resolve, Found, Own, Points
<1>c. \A w \in Workers, s \in Sids \cup {NoSid} : Cached(w, s) \in State
  BY DEF Cached, StoreTypes
<1>e. ASSUME NEW r \in Requests, End(r), on' = on PROVE RequestTypes'
  <2>1. "message" \in AllKinds
    BY DEF AllKinds
  <2>2. QED
    BY <1>e, <2>1 DEF End
<1>1. ASSUME NEW r \in Requests, NEW k \in Kinds, NEW w \in Workers, Arrive(r, k, w)
      PROVE  RequestTypes'
  BY <1>1, KindsAssumption DEF Arrive
<1>2. ASSUME NEW r \in Requests, Look(r) PROVE RequestTypes'
  <2>1. ptr \in Sids \cup {NoSid} /\ on[r] \in Workers
    BY DEF StoreTypes
  <2>2. Cached(on[r], ptr) \in State
    BY <2>1, <1>c
  <2>3. QED
    BY <1>2, <2>2 DEF Look
<1>3. ASSUME NEW r \in Requests, Select(r) PROVE RequestTypes'
  <2>1. row \in State /\ row.sid \in Sids \cup {NoSid} /\ on[r] \in Workers
    BY DEF StoreTypes, State
  <2>2. Cached(on[r], row.sid) \in State
    BY <2>1, <1>c
  <2>3. QED
    BY <1>3, <2>1, <2>2 DEF Select
<1>4. ASSUME NEW r \in Requests, Create(r) PROVE RequestTypes'
  BY <1>4 DEF Create, FreshSids
<1>5. ASSUME NEW r \in Requests, Adopt(r) PROVE RequestTypes'
  BY <1>5 DEF Adopt
<1>6. ASSUME NEW r \in Requests, Handle(r) PROVE RequestTypes'
  <2>1. found[r] \in State /\ kind[r] \in AllKinds
    OBVIOUS
  <2>2. [found[r] EXCEPT !.pending = FALSE] \in State
    BY <2>1, Changed
  <2>3. \A p \in States : [found[r] EXCEPT !.ivr = p] \in State
    BY <2>1, Changed
  <2>4. ASSUME Press(r) PROVE own' \in [Requests -> State]
    <3>1. next_state(found[r].ivr, kind[r]).state \in States
      BY <2>4, <2>1, MenuFacts DEF Press, State
    <3>2. QED
      BY <2>3, <2>4, <3>1, <2>1 DEF Press, Dispatch, WriteBack
  <2>5. ASSUME Start(r) PROVE own' \in [Requests -> State]
    BY <2>5, <2>3 DEF Start, WriteBack, start, main_menu, Transition, States
  <2>6. own' \in [Requests -> State]
    BY <1>6, <2>1, <2>2, <2>4, <2>5
    DEF Handle, Yes, Confirm, Cancel, Voice, Activate, Dispatch, WriteBack
  <2>7. QED
    BY <1>6, <2>6 DEF Handle, Yes, Confirm, Cancel, Start, Press, Voice, Activate,
                      Dispatch, WriteBack
<1>7. ASSUME NEW r \in Requests, VoiceUnusable(r) PROVE RequestTypes'
  BY <1>7, <1>e DEF VoiceUnusable
<1>8. ASSUME NEW r \in Requests, Turn(r) PROVE RequestTypes'
  <2>1. PICK sos \in {"none", "unlocated", "asked"}, escalate \in BOOLEAN :
          WriteBack(r, [found[r] EXCEPT !.pending = Pending(sos, @),
                                        !.escalated = @ \/ escalate])
    BY <1>8 DEF Turn
  <2>2. Pending(sos, found[r].pending) \in BOOLEAN /\ (found[r].escalated \/ escalate) \in BOOLEAN
    BY DEF Pending
  <2>3. [found[r] EXCEPT !.pending = Pending(sos, @), !.escalated = @ \/ escalate] \in State
    BY <2>2, Changed
  <2>4. QED
    BY <1>8, <2>1, <2>3 DEF Turn, WriteBack
<1>9. ASSUME NEW r \in Requests, Raise(r) PROVE RequestTypes'
  <2>1. Raised(r) \in State
    BY DEF Raised, State, States
  <2>2. QED
    BY <1>9, <1>e, <2>1 DEF Raise, WriteBack
<1>10. ASSUME NEW r \in Requests, Save(r) PROVE RequestTypes'
  BY <1>10 DEF Save
<1>11. ASSUME NEW r \in Requests, Sync(r) PROVE RequestTypes'
  <2>1. [kept[r] EXCEPT !.ivr = "speech"] \in State
    BY Changed DEF States
  <2>2. QED
    BY <1>11, <1>e, <2>1 DEF Sync
<1>12. CASE Flush \/ PointerExpires \/ Outage \/ Recover
  BY <1>12 DEF Flush, PointerExpires, Outage, Recover
<1>13. ASSUME NEW w \in Workers, Crash(w) PROVE RequestTypes'
  <2>1. "message" \in AllKinds
    BY DEF AllKinds
  <2>2. QED
    BY <1>13, <2>1 DEF Crash
<1>14. CASE UNCHANGED vars
  BY <1>14 DEF vars
<1>15. QED
  BY <1>1, <1>2, <1>3, <1>4, <1>5, <1>6, <1>7, <1>8, <1>9, <1>10, <1>11, <1>12, <1>13,
     <1>14 DEF Next, RequestStep

LEMMA HistoryStepTypes == TypeOK /\ [Next]_vars => HistoryTypes'
<1> SUFFICES ASSUME RequestTypes, HistoryTypes, [Next]_vars PROVE HistoryTypes'
  BY DEF TypeOK
<1> USE DEF HistoryTypes, disturbVars, consentVars, expectVars
<1>1. ASSUME NEW r \in Requests, NEW k \in Kinds, NEW w \in Workers, Arrive(r, k, w)
      PROVE  HistoryTypes'
  BY <1>1 DEF Arrive
<1>2. ASSUME NEW r \in Requests,
             Look(r) \/ Select(r) \/ Create(r) \/ Adopt(r) \/ VoiceUnusable(r) \/ Save(r)
      PROVE  HistoryTypes'
  BY <1>2 DEF Look, Select, Create, Adopt, VoiceUnusable, Save
<1>3. ASSUME NEW r \in Requests, Handle(r) PROVE HistoryTypes'
  <2>1. armed' \in BOOLEAN /\ UNCHANGED <<disturbVars, prompted>>
    BY <1>3 DEF Handle
  <2>2. asked' \in BOOLEAN /\ UNCHANGED waiting
    BY <1>3 DEF Handle, Yes, Confirm, Cancel, Start, Press, Voice, Activate, Dispatch
  <2>3. place' \in States
    <3>1. ASSUME Press(r) PROVE place' \in States
      <4>1. found[r].ivr \in States /\ kind[r] \in Keys
        BY <3>1 DEF Press, RequestTypes, State
      <4>2. next_state(found[r].ivr, kind[r]).state \in States
        BY <4>1, MenuFacts
      <4>3. QED
        BY <3>1, <4>2 DEF Press, Dispatch
    <3>2. ASSUME Start(r) PROVE place' \in States
      BY <3>2 DEF Start, start, main_menu, Transition, States
    <3>3. QED
      BY <1>3, <3>1, <3>2 DEF Handle, Yes, Confirm, Cancel, Voice, Activate, Dispatch
  <2>4. QED
    BY <2>1, <2>2, <2>3
<1>4. ASSUME NEW r \in Requests, Turn(r) PROVE HistoryTypes'
  BY <1>4 DEF Turn, Pending
<1>5. ASSUME NEW r \in Requests, Raise(r) PROVE HistoryTypes'
  BY <1>5 DEF Raise, States
<1>6. ASSUME NEW r \in Requests, Sync(r) PROVE HistoryTypes'
  BY <1>6 DEF Sync, States
<1>7. CASE Flush \/ PointerExpires \/ Outage \/ Recover
  BY <1>7 DEF Flush, PointerExpires, Outage, Recover, Trouble
<1>8. ASSUME NEW w \in Workers, Crash(w) PROVE HistoryTypes'
  BY <1>8 DEF Crash, Trouble
<1>9. CASE UNCHANGED vars
  BY <1>9 DEF vars
<1>10. QED
  BY <1>1, <1>2, <1>3, <1>4, <1>5, <1>6, <1>7, <1>8, <1>9 DEF Next, RequestStep

(* Every variable keeps its type: the copies of the session are states,    *)
(* whatever interleaving, outage or crash produced them.                   *)
THEOREM TypeCorrect == Spec => []TypeOK
<1>1. Init => TypeOK
  <2>1. Init => StoreTypes
    BY StateFacts DEF Init, StoreTypes
  <2>2. Init => RequestTypes
    BY StateFacts DEF Init, RequestTypes, Points, AllKinds
  <2>3. Init => HistoryTypes
    <3>1. Init => troubles \in Nat /\ place \in States
      BY DEF Init, States
    <3>2. Init => {overlapped, spoke, prompted, armed, asked, waiting} = {FALSE}
      BY DEF Init
    <3>3. QED
      BY <3>1, <3>2 DEF HistoryTypes
  <2>4. QED
    BY <2>1, <2>2, <2>3 DEF TypeOK
<1>2. TypeOK /\ [Next]_vars => TypeOK'
  BY StoreStep, RequestStepTypes, HistoryStepTypes DEF TypeOK
<1>3. QED
  BY <1>1, <1>2, PTL DEF Spec

-----------------------------------------------------------------------------
(* Consent is grounded.  A copy is sound if it claims no prompt that never *)
(* was; Grounded says that every copy is.                                  *)
Sound(c) == (c.pending => prompted) /\ (c.ivr = "sos_confirm" => armed)

SoundStores ==
  /\ Sound(row)
  /\ \A s \in Sids : Sound(hot[s])
  /\ \A w \in Workers, s \in Sids : Sound(mem[w][s])
SoundRequests == \A r \in Requests : Sound(found[r]) /\ Sound(own[r]) /\ Sound(kept[r])

LEMMA GroundedIsSound == Grounded <=> SoundStores /\ SoundRequests
BY DEF Grounded, Copies, Sound, SoundStores, SoundRequests

LEMMA BlankIsSound == Sound(Nothing) /\ \A s : Sound(Blank(s))
BY DEF Sound, Nothing, Blank

(* No step takes a prompt back, so a copy that was sound stays sound.      *)
LEMMA PromptsStay ==
  TypeOK /\ [Next]_vars => (prompted => prompted') /\ (armed => armed')
<1> SUFFICES ASSUME [Next]_vars PROVE (prompted => prompted') /\ (armed => armed')
  OBVIOUS
<1> USE DEF consentVars
<1>1. ASSUME NEW r \in Requests, Handle(r)
      PROVE (prompted => prompted') /\ (armed => armed')
  BY <1>1 DEF Handle
<1>2. ASSUME NEW r \in Requests, Turn(r)
      PROVE (prompted => prompted') /\ (armed => armed')
  <2>1. armed' = armed /\ (prompted => prompted')
    BY <1>2 DEF Turn
  <2>2. QED
    BY <2>1
<1>3. ASSUME UNCHANGED consentVars PROVE (prompted => prompted') /\ (armed => armed')
  BY <1>3
<1>4. ASSUME NEW r \in Requests, RequestStep(r)
      PROVE  Handle(r) \/ Turn(r) \/ UNCHANGED consentVars
  BY <1>4 DEF RequestStep, Look, Select, Create, Adopt, VoiceUnusable, Raise, Save, Sync
<1>5. ASSUME ~ \E r \in Requests : RequestStep(r) PROVE UNCHANGED consentVars
  BY <1>5 DEF Next, Arrive, Flush, PointerExpires, Outage, Recover, Crash, Trouble, vars
<1>6. QED
  BY <1>1, <1>2, <1>3, <1>4, <1>5

(* What a copy has to claim after the step to be sound then.               *)
StaysSound(c) == (c.pending => prompted') /\ (c.ivr = "sos_confirm" => armed')

LEMMA SoundStays ==
  ASSUME TypeOK, Grounded, [Next]_vars
  PROVE  /\ StaysSound(Nothing)
         /\ \A s : StaysSound(Blank(s))
         /\ StaysSound(row)
         /\ \A s \in Sids : StaysSound(hot[s])
         /\ \A w \in Workers, s \in Sids : StaysSound(mem[w][s])
         /\ \A r \in Requests : StaysSound(found[r]) /\ StaysSound(own[r]) /\ StaysSound(kept[r])
<1>1. ASSUME NEW c, Sound(c) PROVE StaysSound(c)
  BY <1>1, PromptsStay DEF Sound, StaysSound
<1>2. QED
  BY <1>1, BlankIsSound, GroundedIsSound DEF SoundStores, SoundRequests

LEMMA SoundStoresStep == TypeOK /\ Grounded /\ [Next]_vars => SoundStores'
<1> SUFFICES ASSUME TypeOK, Grounded, [Next]_vars PROVE SoundStores'
  OBVIOUS
<1> USE SoundStays DEF storeVars
<1>t. StoreTypes /\ RequestTypes
  BY DEF TypeOK
<1>g. ASSUME StaysSound(row'), \A s \in Sids : StaysSound(hot'[s]),
             \A w \in Workers, s \in Sids : StaysSound(mem'[w][s])
      PROVE  SoundStores'
  BY <1>g DEF SoundStores, Sound, StaysSound
<1>i. ASSUME NEW c, Insert(c), StaysSound(c) PROVE StaysSound(row')
  BY <1>i DEF Insert
<1>p. ASSUME NEW w \in Workers, NEW c, Put(w, c), StaysSound(c)
      PROVE  /\ \A s \in Sids : StaysSound(hot'[s])
             /\ \A v \in Workers, s \in Sids : StaysSound(mem'[v][s])
  BY <1>p, <1>t DEF Put, StoreTypes
<1>1. ASSUME UNCHANGED <<hot, mem, row>> PROVE SoundStores'
  BY <1>1, <1>g
<1>2. ASSUME NEW r \in Requests, Create(r) PROVE SoundStores'
  <2>1. PICK s \in FreshSids : Insert(Blank(s))
    BY <1>2 DEF Create
  <2>2. QED
    BY <1>2, <1>g, <1>i, <2>1 DEF Create
<1>3. ASSUME NEW r \in Requests, Adopt(r) PROVE SoundStores'
  <2>1. on[r] \in Workers /\ StaysSound(found[r])
    BY <1>t DEF RequestTypes
  <2>2. QED
    BY <1>3, <1>g, <1>p, <2>1 DEF Adopt
<1>4. ASSUME NEW r \in Requests, Raise(r) PROVE SoundStores'
  BY <1>4, <1>g, <1>i DEF Raise
<1>5. ASSUME NEW r \in Requests, Save(r) PROVE SoundStores'
  <2>1. on[r] \in Workers /\ StaysSound(own[r])
    BY <1>t DEF RequestTypes
  <2>2. QED
    BY <1>5, <1>g, <1>p, <2>1 DEF Save
<1>6. ASSUME NEW r \in Requests, Sync(r) PROVE SoundStores'
  BY <1>6, <1>g DEF Sync, Synced
<1>7. CASE Flush
  BY <1>7, <1>g DEF Flush
<1>8. ASSUME NEW w \in Workers, Crash(w) PROVE SoundStores'
  BY <1>8, <1>g, <1>t DEF Crash, StoreTypes
<1>9. ASSUME NEW r \in Requests,
             Look(r) \/ Select(r) \/ Handle(r) \/ VoiceUnusable(r) \/ Turn(r)
      PROVE  UNCHANGED <<hot, mem, row>>
  BY <1>9 DEF Look, Select, Handle, VoiceUnusable, Turn
<1>10. ASSUME NEW r \in Requests, NEW k \in Kinds, NEW w \in Workers, Arrive(r, k, w)
       PROVE  UNCHANGED <<hot, mem, row>>
  BY <1>10 DEF Arrive
<1>11. CASE PointerExpires \/ Outage \/ Recover \/ UNCHANGED vars
  BY <1>1, <1>11 DEF PointerExpires, Outage, Recover, vars
<1>12. QED
  BY <1>1, <1>2, <1>3, <1>4, <1>5, <1>6, <1>7, <1>8, <1>9, <1>10, <1>11 DEF Next, RequestStep

(* What a request holds is what it found in a store, or what it made of    *)
(* what it held: only an answer that asks makes a prompt, and only 4 in    *)
(* the menu leads to the confirmation.                                     *)
LEMMA SoundRequestsStep == TypeOK /\ Grounded /\ [Next]_vars => SoundRequests'
<1> SUFFICES ASSUME TypeOK, Grounded, [Next]_vars PROVE SoundRequests'
  OBVIOUS
<1> USE SoundStays DEF requestVars, Goto, Resolve, Found, Own
<1>t. StoreTypes /\ RequestTypes
  BY DEF TypeOK
<1>g. ASSUME \A r \in Requests : StaysSound(found'[r]) /\ StaysSound(own'[r]) /\ StaysSound(kept'[r])
      PROVE  SoundRequests'
  BY <1>g DEF SoundRequests, Sound, StaysSound
<1>c. \A w \in Workers, s \in Sids \cup {NoSid} : StaysSound(Cached(w, s))
  BY DEF Cached
<1>e. ASSUME NEW r \in Requests, End(r) PROVE SoundRequests'
  BY <1>e, <1>g, <1>t DEF End, RequestTypes
<1>k. ASSUME UNCHANGED <<found, own, kept>> PROVE SoundRequests'
  BY <1>k, <1>g
<1>f. ASSUME NEW r \in Requests, NEW c, Found(r, c), StaysSound(c), UNCHANGED <<own, kept>>
      PROVE  SoundRequests'
  BY <1>f, <1>g, <1>t DEF RequestTypes
<1>w. ASSUME NEW r \in Requests, NEW c, WriteBack(r, c), StaysSound(c), UNCHANGED found
      PROVE  SoundRequests'
  BY <1>w, <1>g, <1>t DEF RequestTypes, WriteBack
<1>1. ASSUME NEW r \in Requests, NEW k \in Kinds, NEW w \in Workers, Arrive(r, k, w)
      PROVE  SoundRequests'
  BY <1>1, <1>k DEF Arrive
<1>2. ASSUME NEW r \in Requests, Look(r) PROVE SoundRequests'
  <2>1. StaysSound(Cached(on[r], ptr))
    BY <1>c, <1>t DEF StoreTypes, RequestTypes
  <2>2. QED
    BY <1>2, <1>f, <1>k, <2>1 DEF Look
<1>3. ASSUME NEW r \in Requests, Select(r) PROVE SoundRequests'
  <2>1. StaysSound(Cached(on[r], row.sid))
    BY <1>c, <1>t DEF StoreTypes, RequestTypes, State
  <2>2. QED
    BY <1>3, <1>f, <1>k, <2>1 DEF Select
<1>4. ASSUME NEW r \in Requests, Create(r) PROVE SoundRequests'
  BY <1>4, <1>g, <1>t DEF Create, RequestTypes
<1>5. ASSUME NEW r \in Requests, Adopt(r) \/ Save(r) PROVE SoundRequests'
  BY <1>5, <1>k DEF Adopt, Save
<1>6. ASSUME NEW r \in Requests, Handle(r) PROVE SoundRequests'
  <2>f. UNCHANGED found /\ StaysSound(found[r])
    BY <1>6 DEF Handle
  <2>d. ASSUME Dispatch(r) PROVE SoundRequests'
    BY <2>d, <2>f, <1>g, <1>t DEF Dispatch, RequestTypes
  <2>a. ASSUME Activate(r) PROVE SoundRequests'
    BY <2>a, <2>d, <2>f, <1>w DEF Activate
  <2>1. ASSUME Yes(r) \/ Confirm(r) PROVE SoundRequests'
    BY <2>1, <2>a, <2>f, <1>k DEF Yes, Confirm
  <2>2. ASSUME Cancel(r) PROVE SoundRequests'
    <3>1. StaysSound([found[r] EXCEPT !.pending = FALSE])
      BY <2>f, <1>t DEF StaysSound, RequestTypes, State
    <3>2. QED
      BY <2>2, <2>f, <3>1, <1>w DEF Cancel
  <2>3. ASSUME Start(r) PROVE SoundRequests'
    <3>1. PICK t \in {start, main_menu("language_selected")} :
            WriteBack(r, [found[r] EXCEPT !.ivr = t.state])
      BY <2>3 DEF Start
    <3>2. t.state \in {"language", "menu"}
      BY DEF start, main_menu, Transition
    <3>3. StaysSound([found[r] EXCEPT !.ivr = t.state])
      BY <2>f, <3>2, <1>t DEF StaysSound, RequestTypes, State
    <3>4. QED
      BY <2>f, <3>1, <3>3, <1>w
  <2>4. ASSUME Press(r) PROVE SoundRequests'
    <3> DEFINE t == next_state(found[r].ivr, kind[r])
    <3>1. found[r].ivr \in States /\ kind[r] \in Keys /\ found[r] \in State
      BY <2>4, <1>t DEF Press, RequestTypes, State
    <3>2. t.state = "sos_confirm" =>
            found[r].ivr = "sos_confirm" \/ (found[r].ivr = "menu" /\ kind[r] = "4")
      BY <3>1, MenuFacts
    <3>3. found[r].ivr = "menu" /\ kind[r] = "4" => armed'
      BY <1>6 DEF Handle
    <3> HIDE DEF t
    <3>4. StaysSound([found[r] EXCEPT !.ivr = t.state])
      BY <2>f, <3>1, <3>2, <3>3 DEF StaysSound, State
    <3>5. QED
      BY <2>4, <2>d, <2>f, <3>4, <1>w DEF Press, t
  <2>5. ASSUME Voice(r) PROVE SoundRequests'
    BY <2>5, <2>f, <1>g, <1>t DEF Voice, RequestTypes
  <2>6. QED
    BY <1>6, <2>1, <2>2, <2>3, <2>4, <2>5 DEF Handle
<1>7. ASSUME NEW r \in Requests, VoiceUnusable(r) PROVE SoundRequests'
  BY <1>7, <1>e DEF VoiceUnusable
<1>8. ASSUME NEW r \in Requests, Turn(r) PROVE SoundRequests'
  <2>1. PICK sos \in {"none", "unlocated", "asked"}, escalate \in BOOLEAN :
          /\ WriteBack(r, [found[r] EXCEPT !.pending = Pending(sos, @),
                                           !.escalated = @ \/ escalate])
          /\ sos = "asked" => prompted'
    BY <1>8 DEF Turn
  <2>2. Pending(sos, found[r].pending) => sos = "asked" \/ found[r].pending
    BY DEF Pending
  <2>3. StaysSound([found[r] EXCEPT !.pending = Pending(sos, @), !.escalated = @ \/ escalate])
    <3> DEFINE a == Pending(sos, found[r].pending)
               b == found[r].escalated \/ escalate
    <3>1. found[r] \in State /\ StaysSound(found[r]) /\ (a => prompted')
      BY <1>t, <2>1, <2>2 DEF RequestTypes, StaysSound
    <3> HIDE DEF a, b
    <3>2. StaysSound([found[r] EXCEPT !.pending = a, !.escalated = b])
      BY <3>1 DEF StaysSound, State
    <3>3. QED
      BY <3>2 DEF a, b
  <2>4. QED
    BY <1>8, <2>1, <2>3, <1>w DEF Turn
<1>9. ASSUME NEW r \in Requests, Raise(r) PROVE SoundRequests'
  <2>1. StaysSound(Raised(r))
    BY <1>t DEF Raised, StaysSound, RequestTypes, State
  <2>2. QED
    BY <1>9, <1>e, <1>w, <2>1 DEF Raise
<1>10. ASSUME NEW r \in Requests, Sync(r) PROVE SoundRequests'
  <2>1. StaysSound([kept[r] EXCEPT !.ivr = "speech"])
    BY <1>t DEF StaysSound, RequestTypes, State
  <2>2. QED
    BY <1>10, <1>e, <1>g, <1>t, <2>1 DEF Sync, RequestTypes
<1>11. CASE Flush \/ PointerExpires \/ Outage \/ Recover \/ UNCHANGED vars
  BY <1>11, <1>k DEF Flush, PointerExpires, Outage, Recover, vars
<1>12. ASSUME NEW w \in Workers, Crash(w) PROVE SoundRequests'
  BY <1>12, <1>g DEF Crash
<1>13. QED
  BY <1>1, <1>2, <1>3, <1>4, <1>5, <1>6, <1>7, <1>8, <1>9, <1>10, <1>11, <1>12
  DEF Next, RequestStep

(* No copy of the session anywhere carries a consent the pilgrim was never *)
(* asked for, however requests overlap and whatever fails.                 *)
THEOREM GroundedCorrect == Spec => []Grounded
<1>1. Init => Grounded
  <2>1. Init => SoundStores /\ SoundRequests
    BY BlankIsSound DEF Init, SoundStores, SoundRequests
  <2>2. QED
    BY <2>1, GroundedIsSound
<1>2. TypeOK /\ Grounded /\ [Next]_vars => Grounded'
  <2>1. (SoundStores /\ SoundRequests => Grounded)'
    BY GroundedIsSound, PTL
  <2>2. QED
    BY <2>1, SoundStoresStep, SoundRequestsStep
<1>3. QED
  BY <1>1, <1>2, TypeCorrect, PTL DEF Spec

(* The request that decides is being handled; no other step moves it on.   *)
LEMMA OnlyHandleDecides ==
  ASSUME TypeOK, [Next]_vars, NEW r \in Requests, Decides(r)
  PROVE  Handle(r)
<1> USE DEF Decides, Goto, Resolve, Found, End
<1>t. pc \in [Requests -> Points] /\ after \in [Requests -> {"handle", "turn", "raise"}]
  BY DEF TypeOK, RequestTypes
<1>1. ASSUME NEW q \in Requests, NEW k \in Kinds, NEW w \in Workers, Arrive(q, k, w)
      PROVE  FALSE
  BY <1>1, <1>t DEF Arrive
<1>2. ASSUME NEW q \in Requests,
             Look(q) \/ Select(q) \/ Create(q) \/ Adopt(q)
      PROVE  FALSE
  BY <1>2, <1>t DEF Look, Select, Create, Adopt
<1>3. ASSUME NEW q \in Requests,
             VoiceUnusable(q) \/ Turn(q) \/ Raise(q) \/ Save(q) \/ Sync(q)
      PROVE  FALSE
  BY <1>3, <1>t DEF VoiceUnusable, Turn, Raise, Save, Sync, WriteBack
<1>4. ASSUME NEW q \in Requests, Handle(q) PROVE q = r
  <2>1. \E p \in Points : pc' = [pc EXCEPT ![q] = p]
    BY <1>4 DEF Handle, Yes, Confirm, Cancel, Start, Press, Voice, Activate, Dispatch,
                WriteBack, Points
  <2>2. QED
    BY <2>1, <1>t
<1>5. CASE Flush \/ PointerExpires \/ Outage \/ Recover \/ UNCHANGED vars
  BY <1>5 DEF Flush, PointerExpires, Outage, Recover, vars, requestVars
<1>6. ASSUME NEW w \in Workers, Crash(w) PROVE FALSE
  BY <1>6, <1>t DEF Crash
<1>7. QED
  BY <1>1, <1>2, <1>3, <1>4, <1>5, <1>6 DEF Next, RequestStep

(* What the copy of a request that decides says: its "yes" was asked for,  *)
(* its key is the 1 at the confirmation.                                   *)
LEMMA WhyItDecides ==
  ASSUME TypeOK, [Next]_vars, NEW r \in Requests, Decides(r)
  PROVE  /\ pc[r] = "handle"
         /\ kind[r] = "yes" => found[r].pending
         /\ kind[r] \in Keys => found[r].ivr = "sos_confirm" /\ kind[r] = "1"
<1>h. Handle(r) /\ pc[r] = "handle" /\ pc'[r] = "look" /\ after'[r] = "raise"
  BY OnlyHandleDecides DEF Decides
<1>t. /\ found[r] \in State /\ pc \in [Requests -> Points]
      /\ after \in [Requests -> {"handle", "turn", "raise"}]
  BY DEF TypeOK, RequestTypes
<1>1. ASSUME kind[r] = "yes" PROVE found[r].pending
  <2>1. Yes(r)
    BY <1>h, <1>1 DEF Handle, Yes, Confirm, Cancel, Start, Press, Voice, Keys
  <2>2. QED
    BY <1>h, <1>t, <2>1 DEF Yes, Resolve
<1>2. ASSUME kind[r] \in Keys PROVE found[r].ivr = "sos_confirm" /\ kind[r] = "1"
  <2>1. Press(r)
    BY <1>h, <1>2 DEF Handle, Yes, Confirm, Cancel, Start, Press, Voice, Keys
  <2>2. next_state(found[r].ivr, kind[r]).action = "sos_dispatch"
    BY <1>h, <1>t, <2>1 DEF Press, WriteBack, Goto
  <2>3. QED
    BY <1>2, <1>t, <2>2, MenuFacts DEF State
<1>3. QED
  BY <1>h, <1>1, <1>2
-----------------------------------------------------------------------------
(* The rest is about the undisturbed session.  A copy is told if it is     *)
(* what the pilgrim was last told.                                         *)
Told(c) ==
  /\ c.ivr = place
  /\ ~spoke => c.pending = asked /\ c.escalated = waiting

Resolving(r) == pc[r] \in {"look", "select", "create", "adopt"}
Writing(r) == pc[r] \in {"save", "sync"}

(* The request has decided to raise an emergency, and holds its copy while *)
(* SosService resolves the session again.                                  *)
Raising(r) ==
  kind[r] # "panic" /\ (pc[r] = "raise" \/ (Resolving(r) /\ after[r] = "raise"))

OneByOne == \A q, r \in Busy : q = r

(* The stores when nobody writes hold one copy, and it is told; a writer   *)
(* has put its own in Redis before it puts it in the row.                  *)
CalmStores ==
  /\ redisUp /\ dbUp
  /\ \A w \in Workers, s \in Sids : ~Exists(mem[w][s])
  /\ ~Exists(row) => row = Nothing
  /\ ptr \in {NoSid, row.sid}
  /\ \A s \in Sids : Exists(hot[s]) =>
       /\ s = row.sid
       /\ (\A r \in Requests : pc[r] # "sync") => hot[s] = row
       /\ \A r \in Requests : pc[r] = "sync" => hot[s] = own[r]
  /\ (\A r \in Requests : ~Writing(r)) => Told(row)

(* How far a request has come: what it found is the row, and what it is    *)
(* about to write is told.                                                 *)
Stage(r) ==
  /\ pc[r] \in {"adopt", "handle", "turn", "raise"} => Exists(row) /\ found[r] = row
  /\ pc[r] = "create" => ~Exists(row)
  /\ Writing(r) \/ Raising(r) => Exists(row) /\ own[r].sid = row.sid /\ Told(own[r])
  /\ Exists(kept[r]) => spoke /\ kept[r].sid = row.sid
  /\ kind[r] = "voice" => spoke

CalmInv == Calm => CalmStores /\ OneByOne /\ \A r \in Requests : Stage(r)

(* CalmStores as the one request in flight sees it. *)
StoresAt(r) ==
  /\ redisUp /\ dbUp
  /\ \A w \in Workers, s \in Sids : ~Exists(mem[w][s])
  /\ ~Exists(row) => row = Nothing
  /\ ptr \in {NoSid, row.sid}
  /\ \A s \in Sids : Exists(hot[s]) =>
       s = row.sid /\ hot[s] = IF pc[r] = "sync" THEN own[r] ELSE row
  /\ ~Writing(r) => Told(row)

(* A session row keeps its id for good.                                    *)
LEMMA RowStays == TypeOK /\ [Next]_vars /\ Exists(row) => row'.sid = row.sid
<1> SUFFICES ASSUME TypeOK, [Next]_vars, Exists(row) PROVE row'.sid = row.sid
  OBVIOUS
<1>i. ASSUME NEW c, Insert(c) PROVE row'.sid = row.sid
  BY <1>i DEF Insert
<1>1. ASSUME NEW r \in Requests, Create(r) \/ Raise(r) PROVE row'.sid = row.sid
  BY <1>1, <1>i DEF Create, Raise
<1>2. ASSUME NEW r \in Requests, Sync(r) PROVE row'.sid = row.sid
  BY <1>2 DEF Sync, Synced, Exists
<1>3. QED
  BY <1>1, <1>2
  DEF Next, RequestStep, Arrive, Look, Select, Adopt, Handle, VoiceUnusable, Turn, Save,
      Flush, PointerExpires, Outage, Recover, Crash, vars, storeVars

(* What was disturbed stays disturbed.                                     *)
LEMMA CalmWas ==
  ASSUME TypeOK, [Next]_vars, Calm'
  PROVE  Calm /\ ~Outage /\ \A w \in Workers : ~Crash(w)
<1>t. troubles \in Nat /\ overlapped \in BOOLEAN
  BY DEF TypeOK, HistoryTypes
<1>1. ~Trouble
  BY <1>t DEF Calm, Trouble
<1>2. ~Outage /\ \A w \in Workers : ~Crash(w)
  BY <1>1 DEF Outage, Crash
<1>3. ASSUME NEW r \in Requests, NEW k \in Kinds, NEW w \in Workers, Arrive(r, k, w) PROVE Calm
  <2>1. troubles' = troubles /\ overlapped' = (overlapped \/ Busy # {})
    BY <1>3 DEF Arrive
  <2>2. QED
    BY <2>1 DEF Calm
<1>4. ASSUME UNCHANGED <<troubles, overlapped>> PROVE Calm
  BY <1>4 DEF Calm
<1>5. QED
  BY <1>2, <1>3, <1>4
  DEF Next, RequestStep, Look, Select, Create, Adopt, Handle, VoiceUnusable, Turn, Raise, Save,
      Sync, Flush, PointerExpires, Recover, vars, disturbVars

(* The request that takes a step is the only one in flight.                *)
LEMMA OnlyOne ==
  ASSUME TypeOK, OneByOne, NEW r \in Requests, RequestStep(r)
  PROVE  /\ pc[r] # "idle"
         /\ \A q \in Requests \ {r} : /\ pc[q] = "idle" /\ pc'[q] = "idle"
                                      /\ kept'[q] = kept[q] /\ kind'[q] = kind[q]
         /\ UNCHANGED <<spoke, redisUp, dbUp>>
<1> USE DEF Goto, Resolve, Found, Own, End, WriteBack, upVars, disturbVars
<1>t. /\ pc \in [Requests -> Points] /\ kept \in [Requests -> State]
      /\ kind \in [Requests -> AllKinds]
  BY DEF TypeOK, RequestTypes
<1>1. pc[r] # "idle" /\ UNCHANGED <<spoke, redisUp, dbUp>>
  BY DEF RequestStep, Look, Select, Create, Adopt, Handle, VoiceUnusable, Turn, Raise, Save, Sync
<1>2. \A q \in Requests \ {r} : pc[q] = "idle"
  BY <1>1 DEF OneByOne, Busy
<1>3. \E p : pc' = [pc EXCEPT ![r] = p]
  <2>1. Handle(r) => \E p : pc' = [pc EXCEPT ![r] = p]
    BY DEF Handle, Yes, Confirm, Cancel, Start, Press, Voice, Activate, Dispatch
  <2>2. QED
    BY <2>1 DEF RequestStep, Look, Select, Create, Adopt, VoiceUnusable, Turn, Raise, Save, Sync
<1>4. kept' = kept \/ \E c : kept' = [kept EXCEPT ![r] = c]
  <2>1. Handle(r) => kept' = kept \/ \E c : kept' = [kept EXCEPT ![r] = c]
    BY DEF Handle, Yes, Confirm, Cancel, Start, Press, Voice, Activate, Dispatch
  <2>2. QED
    BY <2>1 DEF RequestStep, Look, Select, Create, Adopt, VoiceUnusable, Turn, Raise, Save, Sync
<1>5. kind' = kind \/ \E k : kind' = [kind EXCEPT ![r] = k]
  BY DEF RequestStep, Look, Select, Create, Adopt, Handle, VoiceUnusable, Turn, Raise, Save, Sync
<1>6. \A q \in Requests \ {r} : pc'[q] = pc[q] /\ kept'[q] = kept[q] /\ kind'[q] = kind[q]
  BY <1>t, <1>3, <1>4, <1>5
<1>7. QED
  BY <1>1, <1>2, <1>6

(* One lemma per group of steps: what the step finds, it leaves.           *)
Undisturbed(r) == StoresAt(r) /\ Stage(r)

(* The types the steps below rely on. *)
LEMMA Types ==
  ASSUME TypeOK, NEW r \in Requests
  PROVE  /\ pc \in [Requests -> Points] /\ kind \in [Requests -> AllKinds]
         /\ after \in [Requests -> {"handle", "turn", "raise"}]
         /\ found \in [Requests -> State] /\ own \in [Requests -> State]
         /\ kept \in [Requests -> State]
         /\ on[r] \in Workers /\ found[r] \in State /\ own[r] \in State /\ kept[r] \in State
         /\ found[r].sid \in Sids \cup {NoSid} /\ own[r].sid \in Sids \cup {NoSid}
         /\ row \in State /\ row.sid \in Sids \cup {NoSid} /\ ptr \in Sids \cup {NoSid}
         /\ hot \in [Sids -> State] /\ mem \in [Workers -> [Sids -> State]]
BY DEF TypeOK, RequestTypes, StoreTypes, State

(* What Redis or the row has is the row's copy. *)
LEMMA FindCalm ==
  ASSUME TypeOK, NEW r \in Requests, Undisturbed(r), Look(r) \/ Select(r)
  PROVE  Undisturbed(r)'
<1> USE DEF Undisturbed, StoresAt, Stage, Goto, Found, Resolving, Raising, Writing, Exists,
            storeVars, upVars, disturbVars, expectVars, Told
<1>t. /\ pc \in [Requests -> Points]
      /\ after \in [Requests -> {"handle", "turn", "raise"}]
      /\ found \in [Requests -> State]
      /\ on[r] \in Workers
      /\ row.sid \in Sids \cup {NoSid} /\ ptr \in Sids \cup {NoSid}
  BY Types
<1>c. \A s \in Sids \cup {NoSid} : Exists(Cached(on[r], s)) /\ pc[r] # "sync" =>
        /\ Exists(row) /\ s = row.sid /\ Cached(on[r], s) = row
  BY <1>t, NoSidAssumption DEF Cached, Nothing, Blank
<1>1. CASE Look(r)
  <2>1. CASE Exists(Cached(on[r], ptr)) /\ Found(r, Cached(on[r], ptr))
    <3>1. Exists(row) /\ found'[r] = row /\ pc'[r] = after[r]
      BY <1>t, <1>c, <1>1, <2>1 DEF Look
    <3>2. UNCHANGED <<ptr, hot, mem, row, redisUp, dbUp, kind, after, own, kept, spoke, asked,
                      waiting, place>>
      BY <1>1 DEF Look
    <3>3. pc[r] = "look" /\ after[r] \in {"handle", "turn", "raise"}
      BY <1>1, <1>t DEF Look
    <3>4. QED
      BY <3>1, <3>2, <3>3
  <2>2. CASE Goto(r, "select")
    <3>1. pc'[r] = "select" /\ pc[r] = "look"
      BY <1>t, <1>1, <2>2 DEF Look
    <3>2. UNCHANGED <<ptr, hot, mem, row, redisUp, dbUp, kind, after, own, kept, spoke, asked,
                      waiting, place>>
      BY <1>1 DEF Look
    <3>3. QED
      BY <3>1, <3>2
  <2>3. QED
    BY <1>1, <2>1, <2>2 DEF Look
<1>2. CASE Select(r)
  <2>0. pc[r] = "select" /\ dbUp /\ redisUp
        /\ UNCHANGED <<hot, mem, row, redisUp, dbUp, kind, after, own, kept, spoke, asked,
                       waiting, place>>
    BY <1>2 DEF Select
  <2>1. CASE Exists(row)
    <3>1. found'[r] = row /\ pc'[r] = after[r] /\ ptr' = row.sid
      BY <1>t, <1>c, <1>2, <2>0, <2>1 DEF Select
    <3>2. after[r] \in {"handle", "turn", "raise"}
      BY <1>t
    <3>3. QED
      BY <2>0, <2>1, <3>1, <3>2
  <2>2. CASE ~Exists(row)
    <3>1. pc'[r] = "create" /\ ptr' = ptr
      BY <1>t, <1>2, <2>2 DEF Select
    <3>2. QED
      BY <2>0, <2>2, <3>1
  <2>3. QED
    BY <2>1, <2>2
<1>3. QED
  BY <1>1, <1>2

(* A session is made once: the row and the copy are the blank one, and the *)
(* pilgrim has been told nothing yet.                                      *)
LEMMA MakeCalm ==
  ASSUME TypeOK, NEW r \in Requests, Undisturbed(r), Create(r) \/ Adopt(r)
  PROVE  Undisturbed(r)'
<1> USE DEF Undisturbed, StoresAt, Stage, Goto, Resolving, Raising, Writing, Exists,
            storeVars, upVars, disturbVars, expectVars, Told
<1>t. /\ pc \in [Requests -> Points]
      /\ after \in [Requests -> {"handle", "turn", "raise"}]
      /\ found \in [Requests -> State] /\ hot \in [Sids -> State]
      /\ on[r] \in Workers
      /\ row.sid \in Sids \cup {NoSid} /\ ptr \in Sids \cup {NoSid}
  BY Types
<1>1. CASE Create(r)
  <2>0. pc[r] = "create" /\ dbUp /\ ~Exists(row) /\ row = Nothing
        /\ UNCHANGED <<ptr, hot, mem, redisUp, dbUp, kind, after, own, kept, spoke, asked,
                       waiting, place>>
    BY <1>1 DEF Create
  <2>1. PICK s \in FreshSids : found' = [found EXCEPT ![r] = Blank(s)] /\ Insert(Blank(s))
    BY <1>1 DEF Create
  <2>2. row' = Blank(s) /\ found'[r] = Blank(s) /\ pc'[r] = "adopt"
    BY <1>t, <1>1, <2>0, <2>1 DEF Create, Insert
  <2>3. s # NoSid /\ Blank(s).sid = s
    BY NoSidAssumption DEF FreshSids, Blank
  <2>4. \A u \in Sids : ~Exists(hot[u])
    BY <2>0, NoSidAssumption
  <2>5. ptr = NoSid
    BY <2>0
  <2>6. Told(Nothing) /\ Told(Blank(s))'
    <3>1. Told(Nothing)
      BY <2>0
    <3>2. QED
      BY <2>0, <3>1 DEF Nothing, Blank
  <2>7. kept'[r] = kept[r] /\ ~Exists(kept[r]) /\ ~Raising(r)
    BY <2>0
  <2>8. QED
    BY <2>0, <2>2, <2>3, <2>4, <2>5, <2>6, <2>7
<1>2. CASE Adopt(r)
  <2>0. /\ pc[r] = "adopt" /\ Exists(row) /\ found[r] = row /\ Told(row)
        /\ UNCHANGED <<row, redisUp, dbUp, kind, after, found, own, kept, spoke, asked,
                       waiting, place>>
        /\ pc'[r] = after[r] /\ after[r] \in {"handle", "turn", "raise"}
    BY <1>t, <1>2 DEF Adopt
  <2>1. hot' = [hot EXCEPT ![row.sid] = row] /\ mem' = mem /\ ptr' = row.sid
    BY <1>2, <2>0 DEF Adopt, Put
  <2>2. \A s \in Sids : hot'[s] = IF s = row.sid THEN row ELSE hot[s]
    BY <1>t, <2>1
  <2>3. QED
    BY <2>0, <2>1, <2>2
<1>3. QED
  BY <1>1, <1>2

(* What a copy has to be to be told after the step.                        *)
ToldNext(c) ==
  /\ c.ivr = place'
  /\ ~spoke' => c.pending = asked' /\ c.escalated = waiting'

(* What a request is about to write is what the pilgrim was told, and the  *)
(* stores still hold the old copy. *)
LEMMA WriteBackCalm ==
  ASSUME TypeOK, NEW r \in Requests, Undisturbed(r), pc[r] \in {"handle", "turn", "raise"},
         NEW c, own'[r] = c, pc'[r] = "save", c.sid = row.sid, ToldNext(c), kept'[r] = kept[r],
         UNCHANGED <<ptr, hot, mem, row, redisUp, dbUp, kind, spoke>>
  PROVE  Undisturbed(r)'
<1>1. Exists(row)
  BY DEF Undisturbed, Stage
<1>2. Told(own[r])'
  BY DEF Told, ToldNext
<1>3. QED
  BY <1>1, <1>2 DEF Undisturbed, StoresAt, Stage, Raising, Resolving, Writing, Exists

(* A request that only resolves again, or is over, leaves all as it is. *)
LEMMA ResolveCalm ==
  ASSUME TypeOK, NEW r \in Requests, Undisturbed(r), pc[r] \in {"handle", "turn", "raise"},
         pc'[r] \in {"look", "idle"}, kept'[r] \in {kept[r], Nothing},
         pc'[r] = "look" => after'[r] = "turn" \/ (after'[r] = "raise" /\ own'[r] = row),
         kind'[r] \in {kind[r], "message"},
         UNCHANGED <<ptr, hot, mem, row, redisUp, dbUp, spoke, asked, waiting, place>>
  PROVE  Undisturbed(r)'
<1>1. Exists(row) /\ Told(row) /\ Told(row)' /\ ~Exists(Nothing)
  BY DEF Undisturbed, StoresAt, Stage, Writing, Told, Exists, Nothing, Blank
<1>2. pc'[r] = "look" /\ after'[r] = "raise" => Told(own[r])'
  BY <1>1 DEF Told
<1>3. QED
  BY <1>1, <1>2 DEF Undisturbed, StoresAt, Stage, Raising, Resolving, Writing, Exists

LEMMA HandleCalm ==
  ASSUME TypeOK, NEW r \in Requests, Undisturbed(r), Handle(r)
  PROVE  Undisturbed(r)'
<1> USE DEF Goto, Resolve, Own, storeVars, upVars, disturbVars, expectVars
<1>t. /\ pc \in [Requests -> Points]
      /\ after \in [Requests -> {"handle", "turn", "raise"}]
      /\ own \in [Requests -> State] /\ kept \in [Requests -> State]
      /\ found[r] \in State
  BY Types
<1>0. /\ pc[r] = "handle" /\ found[r] = row /\ Exists(row) /\ Told(row)
      /\ UNCHANGED <<ptr, hot, mem, row, redisUp, dbUp, kind, found, spoke>>
  BY DEF Handle, Undisturbed, StoresAt, Stage, Writing
<1>w. ASSUME NEW c, WriteBack(r, c), c.sid = row.sid, ToldNext(c) PROVE Undisturbed(r)'
  <2>1. own'[r] = c /\ pc'[r] = "save" /\ kept'[r] = kept[r]
    BY <1>w, <1>t DEF WriteBack
  <2>2. QED
    BY <1>w, <1>0, <2>1, WriteBackCalm
<1>d. ASSUME Dispatch(r) PROVE Undisturbed(r)'
  BY <1>d, <1>0, <1>t, ResolveCalm DEF Dispatch
<1>a. ASSUME Activate(r) PROVE Undisturbed(r)'
  <2>1. CASE WriteBack(r, found[r]) /\ UNCHANGED expectVars
    BY <1>0, <1>w, <2>1 DEF Told, ToldNext
  <2>2. QED
    BY <1>a, <1>d, <2>1 DEF Activate
<1>1. CASE Yes(r)
  <2>1. CASE Resolve(r, "turn") /\ UNCHANGED <<own, kept, expectVars>>
    BY <1>0, <1>t, <2>1, ResolveCalm
  <2>2. QED
    BY <1>1, <1>a, <2>1 DEF Yes
<1>2. CASE Confirm(r)
  BY <1>2, <1>a DEF Confirm
<1>3. CASE Cancel(r)
  <2> DEFINE c == [found[r] EXCEPT !.pending = FALSE]
  <2>1. c.sid = row.sid /\ c.ivr = row.ivr /\ c.pending = FALSE /\ c.escalated = row.escalated
    BY <1>0, <1>t DEF State
  <2>2. asked' = FALSE /\ UNCHANGED <<waiting, place>> /\ WriteBack(r, c)
    BY <1>3 DEF Cancel
  <2>3. ToldNext(c)
    BY <1>0, <2>1, <2>2 DEF Told, ToldNext
  <2> HIDE DEF c
  <2>4. QED
    BY <2>1, <2>2, <2>3, <1>w
<1>p. ASSUME NEW p, WriteBack(r, [found[r] EXCEPT !.ivr = p]), place' = p,
             UNCHANGED <<asked, waiting>>
      PROVE  Undisturbed(r)'
  <2> DEFINE c == [found[r] EXCEPT !.ivr = p]
  <2>1. c.sid = row.sid /\ c.ivr = p /\ c.pending = row.pending /\ c.escalated = row.escalated
    BY <1>0, <1>t DEF State
  <2>2. ToldNext(c)
    BY <1>0, <1>p, <2>1 DEF Told, ToldNext
  <2>3. WriteBack(r, c)
    BY <1>p
  <2> HIDE DEF c
  <2>4. QED
    BY <2>1, <2>2, <2>3, <1>w
<1>4. CASE Start(r)
  BY <1>4, <1>p DEF Start
<1>5. CASE Press(r)
  BY <1>5, <1>p, <1>d DEF Press
<1>6. CASE Voice(r)
  <2>1. /\ kind[r] = "voice" /\ kept'[r] = row /\ pc'[r] = "look" /\ after'[r] = "turn"
        /\ UNCHANGED <<own, asked, waiting, place>>
    BY <1>6, <1>0, <1>t DEF Voice
  <2>2. QED
    BY <1>0, <2>1 DEF Undisturbed, StoresAt, Stage, Raising, Resolving, Writing, Exists, Told
<1>7. QED
  BY <1>1, <1>2, <1>3, <1>4, <1>5, <1>6 DEF Handle

LEMMA TurnCalm ==
  ASSUME TypeOK, NEW r \in Requests, Undisturbed(r), VoiceUnusable(r) \/ Turn(r)
  PROVE  Undisturbed(r)'
<1> USE DEF Goto, Own, End, storeVars, upVars, disturbVars, expectVars
<1>t. /\ pc \in [Requests -> Points] /\ kind \in [Requests -> AllKinds]
      /\ own \in [Requests -> State] /\ kept \in [Requests -> State]
      /\ found[r] \in State
  BY Types
<1>0. /\ pc[r] \in {"handle", "turn"} /\ found[r] = row /\ Exists(row) /\ Told(row)
      /\ UNCHANGED <<ptr, hot, mem, row, redisUp, dbUp, spoke>>
  BY DEF VoiceUnusable, Turn, Undisturbed, StoresAt, Stage, Writing
<1>1. CASE VoiceUnusable(r)
  BY <1>0, <1>1, <1>t, ResolveCalm DEF VoiceUnusable
<1>2. CASE Turn(r)
  <2>1. PICK sos \in {"none", "unlocated", "asked"}, escalate \in BOOLEAN :
          /\ WriteBack(r, [found[r] EXCEPT !.pending = Pending(sos, @),
                                           !.escalated = @ \/ escalate])
          /\ asked' = Pending(sos, asked) /\ waiting' = (waiting \/ escalate)
    BY <1>2 DEF Turn
  <2> DEFINE c == [found[r] EXCEPT !.pending = Pending(sos, @), !.escalated = @ \/ escalate]
  <2>2. /\ c.sid = row.sid /\ c.ivr = row.ivr /\ c.pending = Pending(sos, row.pending)
        /\ c.escalated = (row.escalated \/ escalate)
    <3> DEFINE a == Pending(sos, found[r].pending)
               b == found[r].escalated \/ escalate
    <3> HIDE DEF a, b
    <3>1. LET d == [found[r] EXCEPT !.pending = a, !.escalated = b] IN
            d.sid = row.sid /\ d.ivr = row.ivr /\ d.pending = a /\ d.escalated = b
      BY <1>0, <1>t DEF State
    <3>2. QED
      BY <1>0, <3>1 DEF a, b
  <2>3. place' = place /\ kind' = kind
    BY <1>2 DEF Turn
  <2>4. ToldNext(c)
    <3>1. c.ivr = place'
      BY <1>0, <2>2, <2>3 DEF Told
    <3>2. ASSUME ~spoke' PROVE c.pending = asked' /\ c.escalated = waiting'
      <4>1. row.pending = asked /\ row.escalated = waiting
        BY <1>0, <3>2 DEF Told
      <4>2. QED
        BY <2>1, <2>2, <4>1
    <3>3. QED
      BY <3>1, <3>2 DEF ToldNext
  <2>5. own'[r] = c /\ pc'[r] = "save" /\ kept'[r] = kept[r]
    BY <2>1, <1>t DEF WriteBack
  <2> HIDE DEF c
  <2>6. QED
    BY <1>0, <2>2, <2>3, <2>4, <2>5, WriteBackCalm
<1>3. QED
  BY <1>1, <1>2

(* The emergency has its row; the prompt is answered and the menu is back  *)
(* at its start. *)
LEMMA RaiseCalm ==
  ASSUME TypeOK, NEW r \in Requests, Undisturbed(r), Raise(r)
  PROVE  Undisturbed(r)' /\ row' = row /\ row.sid = found[r].sid
<1> USE DEF Goto, Own, End, storeVars, upVars, disturbVars, expectVars
<1>t. /\ pc \in [Requests -> Points] /\ kind \in [Requests -> AllKinds]
      /\ own \in [Requests -> State] /\ kept \in [Requests -> State]
      /\ own[r] \in State
  BY Types
<1>0. /\ pc[r] = "raise" /\ found[r] = row /\ Exists(row) /\ Told(row) /\ dbUp
      /\ UNCHANGED <<ptr, hot, mem, redisUp, dbUp, spoke>>
  BY DEF Raise, Undisturbed, StoresAt, Stage, Writing
<1>1. row' = row
  BY <1>0 DEF Raise, Insert
<1>2. CASE kind[r] = "panic"
  BY <1>0, <1>1, <1>2, <1>t, ResolveCalm DEF Raise
<1>3. CASE kind[r] # "panic"
  <2>1. /\ WriteBack(r, Raised(r)) /\ asked' = FALSE
        /\ place' = IF kind[r] \in Keys THEN "menu" ELSE place
        /\ UNCHANGED <<kind, waiting>>
    BY <1>0, <1>3 DEF Raise
  <2>2. own[r].sid = row.sid /\ Told(own[r])
    BY <1>0, <1>3 DEF Undisturbed, Stage, Raising
  <2>3. /\ Raised(r).sid = row.sid /\ Raised(r).pending = FALSE
        /\ Raised(r).escalated = own[r].escalated
        /\ Raised(r).ivr = IF kind[r] \in Keys THEN "menu" ELSE own[r].ivr
    BY <1>t, <2>2 DEF Raised, State
  <2>4. ToldNext(Raised(r))
    BY <1>0, <2>1, <2>2, <2>3 DEF Told, ToldNext
  <2>5. own'[r] = Raised(r) /\ pc'[r] = "save" /\ kept'[r] = kept[r]
    BY <2>1, <1>t DEF WriteBack
  <2>6. QED
    BY <1>0, <1>1, <2>1, <2>3, <2>4, <2>5, WriteBackCalm
<1>4. QED
  BY <1>0, <1>1, <1>2, <1>3

(* Redis first, then the row: at the end both have the copy. *)
LEMMA WriteCalm ==
  ASSUME TypeOK, NEW r \in Requests, Undisturbed(r), Save(r) \/ Sync(r)
  PROVE  Undisturbed(r)'
<1> USE DEF Undisturbed, StoresAt, Stage, Goto, Own, End, Resolving, Raising, Writing, Exists,
            storeVars, upVars, disturbVars, expectVars, Told
<1>t. /\ pc \in [Requests -> Points] /\ kind \in [Requests -> AllKinds]
      /\ after \in [Requests -> {"handle", "turn", "raise"}]
      /\ own \in [Requests -> State] /\ kept \in [Requests -> State]
      /\ kept[r] \in State /\ row.sid \in Sids \cup {NoSid} /\ hot \in [Sids -> State]
  BY Types
<1>0. Exists(row) /\ own[r].sid = row.sid /\ Told(own[r]) /\ redisUp /\ dbUp
  BY DEF Save, Sync
<1>1. CASE Save(r)
  <2>1. /\ pc[r] = "save" /\ pc'[r] = "sync"
        /\ UNCHANGED <<ptr, row, redisUp, dbUp, kind, after, found, own, kept, spoke, asked,
                       waiting, place>>
    BY <1>1, <1>t DEF Save
  <2>2. hot' = [hot EXCEPT ![row.sid] = own[r]] /\ mem' = mem
    BY <1>1, <1>0 DEF Save, Put
  <2>3. \A s \in Sids : hot'[s] = IF s = row.sid THEN own[r] ELSE hot[s]
    BY <1>t, <2>2
  <2>4. QED
    BY <1>0, <2>1, <2>2, <2>3
<1>2. CASE Sync(r)
  <2>1. row' = own[r] /\ pc[r] = "sync"
        /\ UNCHANGED <<ptr, hot, mem, redisUp, dbUp, spoke>>
    BY <1>2, <1>0 DEF Sync, Synced
  <2>2. CASE Exists(kept[r])
    <3> DEFINE c == [kept[r] EXCEPT !.ivr = "speech"]
    <3>1. c.sid = row.sid /\ c.ivr = "speech" /\ spoke
      BY <1>t, <2>2 DEF State
    <3>2. /\ own'[r] = c /\ pc'[r] = "save" /\ kept'[r] = Nothing /\ place' = "speech"
          /\ kind' = kind
      BY <1>2, <1>t, <2>2 DEF Sync
    <3>3. ~Exists(Nothing)
      BY DEF Nothing, Blank
    <3> HIDE DEF c
    <3>4. QED
      BY <1>0, <2>1, <3>1, <3>2, <3>3
  <2>3. CASE ~Exists(kept[r])
    <3>1. /\ pc'[r] = "idle" /\ kept'[r] = Nothing /\ kind'[r] = "message"
          /\ UNCHANGED <<asked, waiting, place>>
      BY <1>2, <1>t, <2>3 DEF Sync
    <3>2. ~Exists(Nothing)
      BY DEF Nothing, Blank
    <3>3. QED
      BY <1>0, <2>1, <3>1, <3>2
  <2>4. QED
    BY <2>2, <2>3
<1>3. QED
  BY <1>1, <1>2

LEMMA CalmStep == TypeOK /\ CalmInv /\ [Next]_vars => CalmInv'
<1> SUFFICES ASSUME TypeOK, CalmInv, [Next]_vars, Calm'
             PROVE  CalmStores' /\ OneByOne' /\ \A q \in Requests : Stage(q)'
  BY DEF CalmInv
<1>0. /\ Calm /\ ~Outage /\ \A w \in Workers : ~Crash(w)
      /\ CalmStores /\ OneByOne /\ \A q \in Requests : Stage(q)
      /\ redisUp /\ dbUp
  BY CalmWas DEF CalmInv, CalmStores
<1>t. /\ pc \in [Requests -> Points] /\ kind \in [Requests -> AllKinds]
      /\ after \in [Requests -> {"handle", "turn", "raise"}]
      /\ kept \in [Requests -> State]
  BY DEF TypeOK, RequestTypes
<1>1. ASSUME NEW r \in Requests, RequestStep(r)
      PROVE  CalmStores' /\ OneByOne' /\ \A q \in Requests : Stage(q)'
  <2>1. /\ pc[r] # "idle"
        /\ \A q \in Requests \ {r} : /\ pc[q] = "idle" /\ pc'[q] = "idle"
                                     /\ kept'[q] = kept[q] /\ kind'[q] = kind[q]
        /\ UNCHANGED <<spoke, redisUp, dbUp>>
    BY <1>0, <1>1, OnlyOne
  <2>2. Undisturbed(r)
    BY <1>0, <2>1 DEF CalmStores, StoresAt, Undisturbed, Writing
  <2>3. Undisturbed(r)'
    BY <1>1, <2>2, FindCalm, MakeCalm, HandleCalm, TurnCalm, RaiseCalm, WriteCalm DEF RequestStep
  <2>4. CalmStores'
    BY <2>1, <2>3 DEF CalmStores, StoresAt, Undisturbed, Writing
  <2>5. OneByOne'
    BY <2>1 DEF OneByOne, Busy
  <2>6. ASSUME NEW q \in Requests PROVE Stage(q)'
    <3>1. CASE q = r
      BY <2>3, <3>1 DEF Undisturbed
    <3>2. CASE q # r
      <4>1. Exists(row) => row'.sid = row.sid
        BY RowStays
      <4>2. Stage(q) /\ pc'[q] = "idle" /\ kept'[q] = kept[q] /\ kind'[q] = kind[q]
        BY <1>0, <2>1, <3>2
      <4>3. Exists(kept[q]) => kept[q].sid = row'.sid
        BY <4>1, <4>2 DEF Stage, Exists
      <4>4. QED
        BY <2>1, <4>2, <4>3 DEF Stage, Raising, Resolving, Writing, Exists
    <3>3. QED
      BY <3>1, <3>2
  <2>7. QED
    BY <2>4, <2>5, <2>6
<1>2. ASSUME NEW r \in Requests, NEW k \in Kinds, NEW w \in Workers, Arrive(r, k, w)
      PROVE  CalmStores' /\ OneByOne' /\ \A q \in Requests : Stage(q)'
  <2>1. Busy = {}
    <3>1. overlapped' = (overlapped \/ Busy # {})
      BY <1>2 DEF Arrive
    <3>2. QED
      BY <3>1 DEF Calm
  <2>2. /\ UNCHANGED <<ptr, hot, mem, row, redisUp, dbUp, found, own, kept, asked, waiting, place>>
        /\ pc' = [pc EXCEPT ![r] = "look"] /\ kind' = [kind EXCEPT ![r] = k]
        /\ after' = [after EXCEPT ![r] =
             IF k = "message" THEN "turn" ELSE IF k = "panic" THEN "raise" ELSE "handle"]
        /\ spoke' = (spoke \/ k = "voice")
    BY <1>2 DEF Arrive, Resolve, Goto, storeVars, upVars, expectVars
  <2>3. \A q \in Requests : pc[q] = "idle" /\ pc'[q] = IF q = r THEN "look" ELSE "idle"
    BY <1>t, <2>1, <2>2 DEF Busy
  <2>4. CalmStores'
    <3>1. Told(row)
      BY <1>0, <2>3 DEF CalmStores, Writing
    <3>2. ~spoke' => ~spoke
      BY <2>2
    <3>3. Told(row)'
      BY <2>2, <3>1, <3>2 DEF Told
    <3>4. \A q \in Requests : pc[q] # "sync" /\ pc'[q] # "sync"
      BY <2>3
    <3>5. \A s \in Sids : Exists(hot[s]) => s = row.sid /\ hot[s] = row
      BY <1>0, <3>4 DEF CalmStores
    <3>6. QED
      BY <1>0, <2>2, <3>3, <3>4, <3>5 DEF CalmStores, Exists
  <2>5. OneByOne'
    BY <2>3 DEF OneByOne, Busy
  <2>6. \A q \in Requests : Stage(q)'
    BY <1>0, <1>t, <2>2, <2>3 DEF Stage, Raising, Resolving, Writing, Exists
  <2>7. QED
    BY <2>4, <2>5, <2>6
<1>3. ASSUME UNCHANGED <<mem, row, upVars, requestVars, disturbVars, expectVars>>,
             (hot' = hot \/ \A s \in Sids : hot'[s] = Nothing),
             ptr' \in {ptr, NoSid}
      PROVE  CalmStores' /\ OneByOne' /\ \A q \in Requests : Stage(q)'
  <2>1. ~Exists(Nothing)
    BY DEF Nothing, Blank, Exists
  <2>2. CalmStores'
    BY <1>0, <1>3, <2>1 DEF CalmStores, Told, Writing, upVars, requestVars, disturbVars, expectVars
  <2>3. OneByOne'
    BY <1>0, <1>3 DEF OneByOne, Busy, requestVars
  <2>4. \A q \in Requests : Stage(q)'
    BY <1>0, <1>3 DEF Stage, Raising, Resolving, Writing, Told, requestVars, disturbVars, expectVars
  <2>5. QED
    BY <2>2, <2>3, <2>4
<1>4. CASE Flush
  BY <1>3, <1>4 DEF Flush
<1>5. CASE PointerExpires
  BY <1>3, <1>5 DEF PointerExpires
<1>6. ~Recover
  BY <1>0 DEF Recover
<1>7. CASE UNCHANGED vars
  BY <1>3, <1>7 DEF vars, storeVars
<1>8. QED
  BY <1>0, <1>1, <1>2, <1>4, <1>5, <1>6, <1>7 DEF Next

LEMMA InitCalm == Init => CalmInv
<1> SUFFICES ASSUME Init PROVE CalmInv
  OBVIOUS
<1>1. ~Exists(Nothing) /\ Told(Nothing)
  BY DEF Init, Told, Nothing, Blank, Exists
<1>2. row = Nothing /\ ptr = NoSid /\ Nothing.sid = NoSid
  BY DEF Init, Nothing, Blank
<1>3. CalmStores
  BY <1>1, <1>2 DEF Init, CalmStores
<1>4. OneByOne /\ \A r \in Requests : Stage(r)
  BY <1>1 DEF Init, OneByOne, Busy, Stage, Raising, Resolving, Writing
<1>5. QED
  BY <1>3, <1>4 DEF CalmInv

LEMMA CalmAlways == Spec => []CalmInv
<1>1. QED
  BY InitCalm, CalmStep, TypeCorrect, PTL DEF Spec

(* If nothing failed and requests came one after the other, the durable    *)
(* copy is at every turn's end what the pilgrim was last told, and the hot *)
(* copy, if Redis still has it, is the same one.                           *)
THEOREM WrittenThroughCorrect == Spec => []WrittenThrough
<1>1. TypeOK /\ CalmInv => WrittenThrough
  <2> SUFFICES ASSUME TypeOK, CalmInv, Calm, Busy = {}, Exists(row)
               PROVE  /\ row.ivr = place
                      /\ ~spoke => row.pending = asked /\ row.escalated = waiting
                      /\ ptr # NoSid => ptr = row.sid
                      /\ Exists(hot[row.sid]) => hot[row.sid] = row
    BY DEF WrittenThrough
  <2>1. CalmStores /\ row.sid \in Sids
    BY DEF CalmInv, TypeOK, StoreTypes, State, Exists
  <2>2. \A r \in Requests : pc[r] = "idle"
    BY DEF Busy
  <2>3. Told(row)
    BY <2>1, <2>2 DEF CalmStores, Writing
  <2>4. QED
    BY <2>1, <2>2, <2>3 DEF CalmStores, Told
<1>2. QED
  BY <1>1, CalmAlways, TypeCorrect, PTL

(* What a request being handled has before it, undisturbed: what the       *)
(* pilgrim was last told. *)
LEMMA HandledIsTold ==
  ASSUME CalmInv, Calm, NEW r \in Requests, pc[r] = "handle"
  PROVE  Told(found[r])
<1>1. CalmStores /\ OneByOne /\ found[r] = row
  BY DEF CalmInv, Stage
<1>2. \A q \in Requests : ~Writing(q)
  BY <1>1 DEF OneByOne, Busy, Writing
<1>3. QED
  BY <1>1, <1>2 DEF CalmStores

(* A bare "yes" raises an emergency only if the assistant asked for a      *)
(* confirmation some time, whatever outages, lost updates and restarts     *)
(* left behind; undisturbed, only if the question still stands.            *)
THEOREM YesAnswersPromptCorrect == Spec => YesAnswersPrompt
<1>1. ASSUME TypeOK, Grounded, CalmInv, [Next]_vars,
             NEW r \in Requests, kind[r] = "yes", Decides(r)
      PROVE  prompted /\ (Calm /\ ~spoke => asked)
  <2>1. pc[r] = "handle" /\ found[r].pending
    BY <1>1, WhyItDecides
  <2>2. prompted
    BY <1>1, <2>1, GroundedIsSound DEF SoundRequests, Sound
  <2>3. ASSUME Calm, ~spoke PROVE asked
    BY <1>1, <2>1, <2>3, HandledIsTold DEF Told
  <2>4. QED
    BY <2>2, <2>3
<1>2. TypeOK /\ Grounded /\ CalmInv /\ [Next]_vars =>
        [\A r \in Requests : kind[r] = "yes" /\ Decides(r) =>
           prompted /\ (Calm /\ ~spoke => asked)]_vars
  BY <1>1
<1>3. QED
  BY <1>2, TypeCorrect, GroundedCorrect, CalmAlways, PTL DEF Spec, YesAnswersPrompt

(* A key raises an emergency only if 4 was pressed in the menu some time,  *)
(* whatever was disturbed; undisturbed, it is the 1 at the confirmation    *)
(* prompt the caller is at.                                                *)
THEOREM KeyConfirmsCorrect == Spec => KeyConfirms
<1>1. ASSUME TypeOK, Grounded, CalmInv, [Next]_vars,
             NEW r \in Requests, kind[r] \in Keys, Decides(r)
      PROVE  armed /\ (Calm => place = "sos_confirm" /\ kind[r] = "1")
  <2>1. pc[r] = "handle" /\ found[r].ivr = "sos_confirm" /\ kind[r] = "1"
    BY <1>1, WhyItDecides
  <2>2. armed
    BY <1>1, <2>1, GroundedIsSound DEF SoundRequests, Sound
  <2>3. ASSUME Calm PROVE place = "sos_confirm"
    BY <1>1, <2>1, <2>3, HandledIsTold DEF Told
  <2>4. QED
    BY <2>1, <2>2, <2>3
<1>2. TypeOK /\ Grounded /\ CalmInv /\ [Next]_vars =>
        [\A r \in Requests : kind[r] \in Keys /\ Decides(r) =>
           armed /\ (Calm => place = "sos_confirm" /\ kind[r] = "1")]_vars
  BY <1>1
<1>3. QED
  BY <1>2, TypeCorrect, GroundedCorrect, CalmAlways, PTL DEF Spec, KeyConfirms

(* Undisturbed, an emergency has a session row to be stored under when the *)
(* pipeline begins: the second resolve found the one there is.             *)
THEOREM EmergencyHasSessionCorrect == Spec => EmergencyHasSession
<1>1. ASSUME TypeOK, CalmInv, [Next]_vars, NEW r \in Requests, pc[r] = "raise", Calm
      PROVE  row'.sid = found[r].sid
  <2>1. Exists(row) /\ found[r] = row
    BY <1>1 DEF CalmInv, Stage
  <2>2. QED
    BY <1>1, <2>1, RowStays
<1>2. TypeOK /\ CalmInv /\ [Next]_vars =>
        [\A r \in Requests : pc[r] = "raise" /\ pc'[r] # "raise" /\ Calm =>
           row'.sid = found[r].sid]_vars
  BY <1>1
<1>3. QED
  BY <1>2, TypeCorrect, CalmAlways, PTL DEF Spec, EmergencyHasSession
=============================================================================
