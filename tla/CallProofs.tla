----------------------------- MODULE CallProofs -----------------------------
(***************************************************************************)
(* Proofs about the telephone call and the assistant's turn of Services,   *)
(* for any processes, sessions, tools, calls and outages.                  *)
(***************************************************************************)
EXTENDS Services, FiniteSetTheorems, TLAPS

LEMMA PhoneFrame == [Next]_vars => PhoneNext \/ UNCHANGED phoneVars
BY DEF Next, vars, ServiceStep, HandleStep, Runs

----------------------------------------------------------------------------
(* The call.                                                               *)

StoredTypes ==
    /\ pointer \in {0} \cup Ids
    /\ hot \in [Ids -> Sessions]
    /\ mem \in [Lines -> [Ids -> Sessions]]
    /\ session \in Sessions

HookTypes ==
    /\ sessions \in {0} \cup Ids
    /\ line \in {"ringing", "greeted", "open", "over", "reported"}
    /\ hookPc \in [Calls -> HookSteps]
    /\ hookOn \in [Calls -> Lines]
    /\ state \in [Calls -> Sessions]
    /\ {named, strayed} \subseteq BOOLEAN

(* Sessions are numbered as they are made, and kept under their numbers; a *)
(* hook that runs has one.                                                 *)
Numbered ==
    /\ pointer <= sessions /\ session.sid <= sessions
    /\ \A s \in Ids : hot[s].sid \in {0, s} /\ hot[s].sid <= sessions
    /\ \A w \in Lines, s \in Ids : mem[w][s].sid \in {0, s} /\ mem[w][s].sid <= sessions
HasSession ==
    \A c \in Calls : state[c].sid <= sessions /\ (hookPc[c] # "idle" => Is(state[c]))

(* The callback comes last, and no place is stored before there is a call. *)
Ordered ==
    /\ hookPc["callback"] # "idle" => line = "reported"
    /\ line \in {"ringing", "greeted"} => ~named /\ sessions = 0 /\ hookPc["webhook"] = "idle"
    /\ named => sessions # 0

(* As long as no copy strayed there is one session, in Redis and the row;  *)
(* once its place was stored, all that an open call can read has it.       *)
PlacedStore ==
    /\ \A s \in Ids : Is(hot[s]) => hot[s].located
    /\ Is(session) => session.located

Placed ==
    ~strayed =>
        /\ sessions <= 1
        /\ \A w \in Lines, s \in Ids : ~Is(mem[w][s])
        /\ named /\ line = "open" =>
             PlacedStore /\ (hookPc["webhook"] # "idle" => state["webhook"].located)
        /\ named /\ hookPc["webhook"] \in {"digit", "emergency"} => state["webhook"].located

PhoneInv ==
    /\ StoredTypes /\ HookTypes /\ Numbered /\ HasSession /\ Ordered /\ Placed
    /\ LocatedEmergency

LEMMA SessionFacts ==
  /\ None \in Sessions /\ ~Is(None) /\ ~None.located
  /\ \A s \in Sessions : s.sid \in {0} \cup Ids /\ s.located \in BOOLEAN
  /\ \A s \in Ids : s \in Nat /\ s # 0
  /\ Calls = {"webhook", "callback"} /\ 1 \in Ids
BY LinesAssumption DEF None, Is, Sessions, Ids, Calls

LEMMA PhoneInitial == PhoneInit => PhoneInv
<1> SUFFICES ASSUME PhoneInit PROVE PhoneInv
  OBVIOUS
<1> USE SessionFacts
<1>1. StoredTypes
  BY DEF PhoneInit, StoredTypes
<1>2. HookTypes
  <2>1. (CHOOSE w \in Lines : TRUE) \in Lines
    BY LinesAssumption
  <2>2. hookOn \in [Calls -> Lines]
    BY <2>1 DEF PhoneInit
  <2>3. hookPc \in [Calls -> HookSteps] /\ state \in [Calls -> Sessions]
    BY DEF PhoneInit, HookSteps
  <2>4. QED
    BY <2>2, <2>3 DEF PhoneInit, HookTypes
<1>3. Numbered /\ HasSession
  BY DEF PhoneInit, Numbered, HasSession, None
<1>4. Ordered /\ Placed /\ LocatedEmergency
  BY DEF PhoneInit, Ordered, Placed, LocatedEmergency
<1>5. QED
  BY <1>1, <1>2, <1>3, <1>4 DEF PhoneInv

(* A session is found by its pointer or row, or made.                      *)
Known(s) == s \in Sessions /\ Is(s) /\ s.sid <= sessions

LEMMA Loaded ==
  ASSUME StoredTypes, Numbered, NEW w \in Lines, NEW s \in {0} \cup Ids
  PROVE  /\ _load(w, s) \in Sessions /\ _load(w, s).sid \in {0, s}
         /\ Is(_load(w, s)) => Known(_load(w, s))
         /\ ~Is(mem[w][s]) /\ Is(_load(w, s)) => s \in Ids /\ _load(w, s) = hot[s]
BY SessionFacts DEF StoredTypes, Numbered, _load, Known, Is, None

(* Writing a session that is known keeps the store as it should be.        *)
LEMMA SaveKeeps ==
  ASSUME StoredTypes, Numbered, NEW w \in Lines, NEW s \in Sessions, Is(s), save(w, s)
  PROVE  /\ hot' \in [Ids -> Sessions] /\ mem' \in [Lines -> [Ids -> Sessions]]
         /\ \A i \in Ids : hot'[i] = hot[i] \/ (i = s.sid /\ hot'[i] = s /\ Answered(w))
         /\ \A v \in Lines, i \in Ids :
              mem'[v][i] = mem[v][i] \/ (i = s.sid /\ mem'[v][i] = s /\ ~Answered(w))
BY SessionFacts DEF StoredTypes, Numbered, save, Is

LEMMA Resolved ==
  ASSUME StoredTypes, Numbered, HookTypes, NEW c \in Calls, NEW w \in Lines,
         NEW known \in BOOLEAN, resolve(c, w, known)
  PROVE  /\ state' = [state EXCEPT ![c] = state'[c]] /\ state'[c] \in Sessions
         /\ Is(state'[c]) /\ state'[c].sid <= sessions'
         /\ sessions' \in Ids /\ sessions <= sessions' /\ strayed' \in BOOLEAN
         /\ StoredTypes' /\ Numbered'
         /\ Placed /\ Ordered /\ ~strayed' =>
              /\ ~strayed /\ sessions' <= 1
              /\ \A v \in Lines, s \in Ids : ~Is(mem'[v][s])
              /\ named /\ line = "open" => PlacedStore' /\ state'[c].located
<1> DEFINE found == IF Is(By_pointer(w)) THEN By_pointer(w) ELSE By_row(w)
           new == [sid |-> sessions + 1, located |-> FALSE]
<1> USE SessionFacts
<1>t. sessions \in Nat /\ session.sid \in {0} \cup Ids /\ strayed \in BOOLEAN
  BY DEF HookTypes, StoredTypes, Ids
<1>1. CASE Is(found)
  <2>1. PICK s \in {0} \cup Ids : found = session \/ found = _load(w, s)
    BY <1>1, <1>t DEF By_pointer, By_row, StoredTypes
  <2>2. found \in Sessions /\ found.sid <= sessions
    BY <1>1, <2>1, Loaded DEF Known, Numbered, StoredTypes
  <2> DEFINE own == [found EXCEPT !.located = found.located \/ known]
  <2>3. /\ Copy(c, own)
        /\ UNCHANGED <<hot, mem, session, sessions, strayed>>
        /\ pointer' \in {pointer, session.sid}
    BY <1>1 DEF resolve, _remember_token
  <2>4. own \in Sessions /\ own.sid = found.sid /\ (found.located => own.located)
    BY <2>2 DEF Sessions
  <2>5. sessions \in Ids
    BY <1>1, <1>t, <2>2 DEF Is, HookTypes, Sessions
  <2>6. StoredTypes' /\ Numbered'
    BY <1>t, <2>3 DEF StoredTypes, Numbered
  <2>7. ASSUME Placed, Ordered, ~strayed'
        PROVE  /\ ~strayed /\ sessions' <= 1
               /\ \A v \in Lines, i \in Ids : ~Is(mem'[v][i])
               /\ named /\ line = "open" => PlacedStore' /\ own.located
    <3>1. /\ ~strayed /\ sessions <= 1 /\ \A v \in Lines, i \in Ids : ~Is(mem[v][i])
          /\ named /\ line = "open" => PlacedStore
      BY <2>3, <2>7 DEF Placed
    <3>2. PlacedStore => found.located
      BY <1>1, <2>1, <3>1, Loaded DEF PlacedStore, _load, Is, None
    <3>3. PlacedStore' = PlacedStore
      BY <2>3 DEF PlacedStore, Is
    <3>4. QED
      BY <2>3, <2>4, <3>1, <3>2, <3>3
  <2> HIDE DEF own
  <2>8. state' = [state EXCEPT ![c] = own] /\ state'[c] = own
    BY <2>3 DEF Copy, HookTypes
  <2>9. Is(own) /\ own.sid <= sessions' /\ sessions' = sessions
    BY <1>1, <2>2, <2>3, <2>4 DEF Is
  <2>10. state'[c] \in Sessions /\ Is(state'[c]) /\ state'[c].sid <= sessions'
    BY <2>4, <2>8, <2>9
  <2>11. sessions' \in Ids /\ sessions <= sessions' /\ strayed' \in BOOLEAN
    BY <1>t, <2>3, <2>5
  <2>12. QED
    BY <2>6, <2>7, <2>8, <2>10, <2>11
<1>2. CASE ~Is(found)
  <2>1. /\ new.sid \in Ids
        /\ Copy(c, [sid |-> sessions + 1, located |-> known])
        /\ session' = Added(new) /\ save(w, new) /\ _remember_token(w, new.sid)
        /\ sessions' = new.sid
    BY <1>2 DEF resolve
  <2>2. strayed' = (strayed \/ new.sid > 1 \/ ~Answered(w))
    BY <1>2 DEF resolve
  <2>3. /\ new \in Sessions /\ Is(new) /\ new.sid = sessions + 1 /\ ~new.located
        /\ [sid |-> sessions + 1, located |-> known] \in Sessions
        /\ [sid |-> sessions + 1, located |-> known].sid = sessions + 1
    BY <1>t, <2>1 DEF Sessions, Is
  <2>4. session' \in {session, new} /\ pointer' \in {pointer, sessions + 1}
    BY <2>1 DEF Added, _remember_token
  <2> HIDE DEF new
  <2>5. /\ hot' \in [Ids -> Sessions] /\ mem' \in [Lines -> [Ids -> Sessions]]
        /\ \A i \in Ids : hot'[i] = hot[i] \/ (i = new.sid /\ hot'[i] = new)
        /\ \A v \in Lines, i \in Ids :
             mem'[v][i] = mem[v][i] \/ (i = new.sid /\ mem'[v][i] = new /\ ~Answered(w))
    BY <2>1, <2>3, SaveKeeps
  <2>6. StoredTypes'
    BY <2>1, <2>3, <2>4, <2>5 DEF StoredTypes
  <2>7. Numbered'
    <3>1. pointer' <= sessions' /\ session'.sid <= sessions'
      BY <1>t, <2>1, <2>3, <2>4 DEF Numbered, StoredTypes
    <3>2. ASSUME NEW i \in Ids
          PROVE  hot'[i].sid \in {0, i} /\ hot'[i].sid <= sessions'
      <4>1. hot[i].sid \in {0, i} /\ hot[i].sid <= sessions /\ i \in Nat
        BY SessionFacts DEF Numbered
      <4>2. CASE hot'[i] = hot[i]
        BY <1>t, <2>1, <2>3, <4>1, <4>2
      <4>3. CASE i = new.sid /\ hot'[i] = new
        BY <1>t, <2>1, <2>3, <4>3
      <4>4. QED
        BY <2>5, <4>2, <4>3
    <3>3. ASSUME NEW v \in Lines, NEW i \in Ids
          PROVE  mem'[v][i].sid \in {0, i} /\ mem'[v][i].sid <= sessions'
      <4>1. mem[v][i].sid \in {0, i} /\ mem[v][i].sid <= sessions /\ i \in Nat
        BY SessionFacts DEF Numbered
      <4>2. CASE mem'[v][i] = mem[v][i]
        BY <1>t, <2>1, <2>3, <4>1, <4>2
      <4>3. CASE i = new.sid /\ mem'[v][i] = new
        BY <1>t, <2>1, <2>3, <4>3
      <4>4. QED
        BY <2>5, <4>2, <4>3
    <3>4. QED
      BY <3>1, <3>2, <3>3 DEF Numbered
  <2>8. ASSUME Placed, Ordered, ~strayed'
        PROVE  /\ ~strayed /\ sessions' <= 1
               /\ \A v \in Lines, i \in Ids : ~Is(mem'[v][i])
               /\ ~(named /\ line = "open")
    <3>1. ~strayed /\ ~(new.sid > 1) /\ Answered(w)
      BY <2>2, <2>8
    <3>2. sessions = 0
      BY <1>t, <2>3, <3>1
    <3>3. QED
      BY <2>1, <2>3, <2>5, <2>8, <3>1, <3>2 DEF Placed, Ordered
  <2>9. strayed' \in BOOLEAN
    BY <2>2
  <2>10. state' = [state EXCEPT ![c] = [sid |-> sessions + 1, located |-> known]]
         /\ state'[c] = [sid |-> sessions + 1, located |-> known]
    BY <2>1 DEF Copy, HookTypes
  <2>11. Is(state'[c]) /\ state'[c].sid <= sessions' /\ sessions <= sessions' /\ sessions' \in Ids
    BY <1>t, <2>1, <2>3, <2>10 DEF Is
  <2>12. QED
    BY <2>3, <2>6, <2>7, <2>8, <2>9, <2>10, <2>11
<1>3. QED
  BY <1>1, <1>2

(* A step writes what a hook has: into Redis, a memory or the row.         *)
LEMMA StoreStep ==
  ASSUME PhoneInv, NEW w \in Lines, NEW s \in Sessions, Known(s),
         save(w, s) \/ UNCHANGED <<hot, mem>>, session' \in {session, s},
         UNCHANGED <<pointer, sessions>>
  PROVE  /\ StoredTypes' /\ Numbered'
         /\ Placed /\ ~strayed /\ (Answered(w) \/ UNCHANGED <<hot, mem>>) =>
              /\ \A v \in Lines, i \in Ids : ~Is(mem'[v][i])
              /\ PlacedStore /\ s.located => PlacedStore'
<1> USE SessionFacts DEF PhoneInv
<1>t. sessions \in Nat /\ s.sid \in Ids /\ s.sid \in Nat /\ s.sid <= sessions
  BY DEF HookTypes, Ids, Known, Is
<1>1. /\ hot' \in [Ids -> Sessions] /\ mem' \in [Lines -> [Ids -> Sessions]]
      /\ \A i \in Ids : hot'[i] = hot[i] \/ (i = s.sid /\ hot'[i] = s)
      /\ \A v \in Lines, i \in Ids : mem'[v][i] = mem[v][i] \/ (i = s.sid /\ mem'[v][i] = s)
  <2>1. CASE save(w, s)
    BY <2>1, SaveKeeps DEF Known
  <2>2. CASE UNCHANGED <<hot, mem>>
    BY <2>2 DEF StoredTypes
  <2>3. QED
    BY <2>1, <2>2
<1>2. StoredTypes'
  BY <1>1 DEF StoredTypes
<1>3. Numbered'
  <2>1. pointer' <= sessions' /\ session'.sid <= sessions'
    BY <1>t DEF Numbered
  <2>2. ASSUME NEW i \in Ids PROVE hot'[i].sid \in {0, i} /\ hot'[i].sid <= sessions'
    BY <1>t, <1>1 DEF Numbered
  <2>3. ASSUME NEW v \in Lines, NEW i \in Ids
        PROVE  mem'[v][i].sid \in {0, i} /\ mem'[v][i].sid <= sessions'
    BY <1>t, <1>1 DEF Numbered
  <2>4. QED
    BY <2>1, <2>2, <2>3 DEF Numbered
<1>4. ASSUME Placed, ~strayed, Answered(w) \/ UNCHANGED <<hot, mem>>
      PROVE  /\ \A v \in Lines, i \in Ids : ~Is(mem'[v][i])
             /\ PlacedStore /\ s.located => PlacedStore'
  <2>1. mem' = mem
    BY <1>4 DEF save
  <2>2. PlacedStore /\ s.located => PlacedStore'
    BY <1>1 DEF PlacedStore
  <2>3. QED
    BY <1>4, <2>1, <2>2 DEF Placed
<1>5. QED
  BY <1>2, <1>3, <1>4

(* A hook goes on to a step with a copy of the session, or is done.        *)
LEMMA HookStep ==
  ASSUME HookTypes, HasSession, NEW c \in Calls, NEW step \in HookSteps, NEW s \in Sessions,
         Then(c, step), state' = [state EXCEPT ![c] = s], s.sid <= sessions',
         step # "idle" => Is(s), sessions' \in {0} \cup Ids, sessions <= sessions'
  PROVE  /\ hookPc' \in [Calls -> HookSteps] /\ hookPc'[c] = step
         /\ state' \in [Calls -> Sessions] /\ state'[c] = s
         /\ \A d \in Calls : d # c => hookPc'[d] = hookPc[d] /\ state'[d] = state[d]
         /\ HasSession'
<1>1. /\ hookPc' \in [Calls -> HookSteps] /\ hookPc'[c] = step
      /\ state' \in [Calls -> Sessions] /\ state'[c] = s
      /\ \A d \in Calls : d # c => hookPc'[d] = hookPc[d] /\ state'[d] = state[d]
  BY DEF HookTypes, Then
<1>2. sessions \in Nat /\ sessions' \in Nat
  BY DEF HookTypes, Ids
<1>3. ASSUME NEW d \in Calls
      PROVE  state'[d].sid <= sessions' /\ (hookPc'[d] # "idle" => Is(state'[d]))
  <2>1. CASE d = c
    BY <1>1, <2>1
  <2>2. CASE d # c
    <3>1. state[d].sid \in Nat /\ state[d].sid <= sessions
      BY SessionFacts DEF HookTypes, HasSession
    <3>2. QED
      BY <1>1, <1>2, <2>2, <3>1 DEF HasSession
  <2>3. QED
    BY <2>1, <2>2
<1>4. QED
  BY <1>1, <1>3 DEF HasSession

LEMMA Running ==
  ASSUME PhoneInv, NEW c \in Calls
  PROVE  /\ state[c] \in Sessions /\ hookOn[c] \in Lines /\ state[c].sid <= sessions
         /\ hookPc[c] # "idle" => Known(state[c])
         /\ state = [state EXCEPT ![c] = state[c]]
         /\ {"webhook", "callback"} = Calls /\ None.sid <= sessions /\ None \in Sessions
         /\ sessions \in {0} \cup Ids /\ sessions <= sessions /\ sessions \in Nat
<1>1. state \in [Calls -> Sessions] /\ hookOn \in [Calls -> Lines] /\ sessions \in {0} \cup Ids
  BY DEF PhoneInv, HookTypes
<1>2. sessions \in Nat
  BY <1>1 DEF Ids
<1>3. None.sid = 0 /\ None \in Sessions /\ {"webhook", "callback"} = Calls
  BY SessionFacts DEF None, Calls
<1>4. state[c].sid <= sessions /\ (hookPc[c] # "idle" => Is(state[c]))
  BY DEF PhoneInv, HasSession
<1>5. QED
  BY <1>1, <1>2, <1>3, <1>4 DEF Known

(* A webhook goes on, or is answered, and stores nothing.                  *)
LEMMA GoesOn ==
  ASSUME PhoneInv, _handle_digit \/ _ask_fails \/ hold
  PROVE  PhoneInv'
<1> USE SessionFacts
<1> DEFINE c == "webhook"
<1>1. UNCHANGED <<storedVars, sessions, hookOn, alerts, named, strayed>>
  BY DEF _handle_digit, _ask_fails, hold
<1>2. c \in Calls /\ hookPc[c] # "idle" /\ Known(state[c])
  BY Running DEF _handle_digit, _ask_fails, hold
<1>3. \/ line' = line /\ Then(c, "idle") /\ Copy(c, None)
      \/ line' = line /\ state' = state /\ hookPc[c] = "digit"
         /\ \E step \in {"emergency", "escalate", "ask"} : Then(c, step)
      \/ line' \in {line, "over"} /\ (line' # line => line = "open") /\ state' = state
         /\ Then(c, "saved") /\ hookPc[c] = "hold"
  BY DEF _handle_digit, _ask_fails, hold, Answer
<1>4. PICK step \in HookSteps, s \in {None, state[c]} :
         /\ Then(c, step) /\ state' = [state EXCEPT ![c] = s] /\ (step # "idle" => s = state[c])
         /\ step \in {"digit", "emergency"} => hookPc[c] = "digit"
         /\ line' = line \/ (line = "open" /\ line' = "over")
  BY <1>2, <1>3, Running DEF Copy, HookSteps
<1>5. /\ hookPc' \in [Calls -> HookSteps] /\ hookPc'[c] = step
      /\ state' \in [Calls -> Sessions] /\ state'[c] = s
      /\ hookPc'["callback"] = hookPc["callback"] /\ HasSession'
  <2>1. s \in Sessions /\ s.sid <= sessions' /\ (step # "idle" => Is(s))
    BY <1>1, <1>2, <1>4, Running DEF Known
  <2>2. sessions' \in {0} \cup Ids /\ sessions <= sessions' /\ "callback" \in Calls
    BY <1>1, <1>2, Running
  <2>3. HookTypes /\ HasSession
    BY DEF PhoneInv
  <2>4. QED
    BY <1>2, <1>4, <2>1, <2>2, <2>3, HookStep
<1>6. StoredTypes' /\ Numbered'
  BY <1>1 DEF PhoneInv, StoredTypes, Numbered, storedVars
<1>7. HookTypes'
  BY <1>1, <1>4, <1>5 DEF PhoneInv, HookTypes
<1>8. Ordered'
  BY <1>1, <1>2, <1>4, <1>5 DEF PhoneInv, Ordered
<1>9. Placed'
  <2>1. PlacedStore' = PlacedStore
    BY <1>1 DEF PlacedStore, storedVars, Is
  <2>2. ASSUME ~strayed PROVE sessions <= 1 /\ \A w \in Lines, i \in Ids : ~Is(mem'[w][i])
    BY <1>1, <2>2 DEF PhoneInv, Placed, storedVars, Is
  <2>3. ASSUME ~strayed, named, line' = "open"
        PROVE  PlacedStore' /\ (hookPc'[c] # "idle" => state'[c].located)
    BY <1>1, <1>2, <1>4, <1>5, <2>1, <2>3 DEF PhoneInv, Placed
  <2>4. ASSUME ~strayed, named, hookPc'[c] \in {"digit", "emergency"} PROVE state'[c].located
    BY <1>1, <1>2, <1>4, <1>5, <2>4 DEF PhoneInv, Placed
  <2>5. QED
    BY <1>1, <2>2, <2>3, <2>4 DEF Placed
<1>10. LocatedEmergency'
  BY <1>1 DEF PhoneInv, LocatedEmergency
<1>11. QED
  BY <1>5, <1>6, <1>7, <1>8, <1>9, <1>10 DEF PhoneInv

(* What happens to the call, to Redis and to a process stores nothing new. *)
LEMMA Untouched ==
  ASSUME PhoneInv, answer \/ HangUp \/ UNCHANGED phoneVars
  PROVE  PhoneInv'
<1> USE SessionFacts
<1>1. /\ UNCHANGED <<storedVars, sessions, hookPc, hookOn, state, alerts, named, strayed>>
      /\ \/ line = "ringing" /\ line' = "greeted"
         \/ line = "open" /\ line' = "over"
         \/ line' = line
  BY DEF answer, HangUp, phoneVars
<1>2. StoredTypes' /\ Numbered' /\ HasSession'
  BY <1>1 DEF PhoneInv, StoredTypes, Numbered, HasSession, storedVars, Is
<1>3. HookTypes' /\ Ordered' /\ LocatedEmergency'
  BY <1>1 DEF PhoneInv, HookTypes, Ordered, LocatedEmergency
<1>4. Placed'
  <2>1. PlacedStore' = PlacedStore
    BY <1>1 DEF PlacedStore, storedVars, Is
  <2>2. (named => line # "ringing") /\ (line' = "open" => line = "open")
    BY <1>1 DEF PhoneInv, Ordered
  <2>3. QED
    BY <1>1, <2>1, <2>2 DEF PhoneInv, Placed, storedVars, Is
<1>5. QED
  BY <1>2, <1>3, <1>4 DEF PhoneInv

LEMMA Forgotten == ASSUME PhoneInv, KeysExpire PROVE PhoneInv'
<1> USE SessionFacts
<1>1. /\ hot' = [s \in Ids |-> None] /\ pointer' = 0
      /\ UNCHANGED <<mem, session, sessions, line, hookPc, hookOn, state, alerts, named, strayed>>
  BY DEF KeysExpire
<1>2. StoredTypes' /\ HasSession'
  BY <1>1 DEF PhoneInv, StoredTypes, HasSession, Is
<1>3. HookTypes' /\ Ordered' /\ LocatedEmergency'
  BY <1>1 DEF PhoneInv, HookTypes, Ordered, LocatedEmergency
<1>4. Numbered'
  <2>1. None.sid = 0 /\ sessions \in Nat
    BY Running DEF None, Calls
  <2>2. QED
    BY <1>1, <2>1 DEF PhoneInv, Numbered
<1>5. Placed'
  <2>1. PlacedStore => PlacedStore'
    BY <1>1 DEF PlacedStore, Is
  <2>2. QED
    BY <1>1, <2>1 DEF PhoneInv, Placed, Is
<1>6. QED
  BY <1>2, <1>3, <1>4, <1>5 DEF PhoneInv

LEMMA ProcessGone == ASSUME PhoneInv, NEW w \in Lines, LineDies(w) PROVE PhoneInv'
<1> USE SessionFacts
<1>1. /\ mem' = [mem EXCEPT ![w] = [s \in Ids |-> None]]
      /\ hookPc' = [c \in Calls |-> IF hookOn[c] = w THEN "idle" ELSE hookPc[c]]
      /\ state' = [c \in Calls |-> IF hookOn[c] = w THEN None ELSE state[c]]
      /\ UNCHANGED <<pointer, hot, session, sessions, line, hookOn, alerts, named, strayed>>
  BY DEF LineDies
<1>2. None.sid = 0 /\ sessions \in Nat
  BY Running DEF None, Calls
<1>3. \A v \in Lines, i \in Ids : mem'[v][i] \in {mem[v][i], None}
  BY <1>1 DEF PhoneInv, StoredTypes
<1>4. /\ \A c \in Calls : \/ hookPc'[c] = hookPc[c] /\ state'[c] = state[c]
                          \/ hookPc'[c] = "idle" /\ state'[c] = None
      /\ hookPc' \in [Calls -> HookSteps] /\ state' \in [Calls -> Sessions]
  <2>1. "idle" \in HookSteps
    BY DEF HookSteps
  <2>2. hookPc \in [Calls -> HookSteps] /\ state \in [Calls -> Sessions]
    BY DEF PhoneInv, HookTypes
  <2>3. ASSUME NEW c \in Calls
        PROVE  \/ hookPc'[c] = hookPc[c] /\ state'[c] = state[c]
               \/ hookPc'[c] = "idle" /\ state'[c] = None
    BY <1>1
  <2>4. hookPc' \in [Calls -> HookSteps] /\ state' \in [Calls -> Sessions]
    BY <1>1, <2>1, <2>2
  <2>5. QED
    BY <2>3, <2>4
<1>5. StoredTypes'
  BY <1>1 DEF PhoneInv, StoredTypes
<1>6. HookTypes'
  BY <1>1, <1>4 DEF PhoneInv, HookTypes
<1>7. Numbered'
  BY <1>1, <1>2, <1>3 DEF PhoneInv, Numbered
<1>8. HasSession'
  BY <1>1, <1>2, <1>4 DEF PhoneInv, HasSession
<1>9. Ordered' /\ LocatedEmergency'
  BY <1>1, <1>4 DEF PhoneInv, Ordered, LocatedEmergency
<1>10. Placed'
  <2>1. PlacedStore' = PlacedStore
    BY <1>1 DEF PlacedStore, Is
  <2>2. \A v \in Lines, i \in Ids : Is(mem'[v][i]) => Is(mem[v][i])
    BY <1>3
  <2>3. "webhook" \in Calls
    OBVIOUS
  <2>4. QED
    BY <1>1, <1>4, <2>1, <2>2, <2>3 DEF PhoneInv, Placed
<1>11. QED
  BY <1>5, <1>6, <1>7, <1>8, <1>9, <1>10 DEF PhoneInv

(* A webhook or the callback resolves the session.                         *)
LEMMA Resolves ==
  ASSUME PhoneInv, NEW c \in Calls, NEW w \in Lines, NEW known \in BOOLEAN,
         resolve(c, w, known), NEW step \in HookSteps, step # "idle", Then(c, step),
         hookOn' \in [Calls -> Lines], UNCHANGED <<alerts, named>>,
         \/ line' = line
         \/ line = "greeted" /\ line' = "open" /\ c = "webhook"
         \/ line = "over" /\ line' = "reported" /\ c = "callback",
         c = "callback" => line' = "reported",
         c = "webhook" => line' \notin {"ringing", "greeted"},
         c = "webhook" /\ step \in {"digit", "emergency"} => line = "open"
  PROVE  PhoneInv'
<1> USE SessionFacts
<1> DEFINE own == state'[c]
<1>1. /\ state' = [state EXCEPT ![c] = own] /\ own \in Sessions
      /\ Is(own) /\ own.sid <= sessions'
      /\ sessions' \in Ids /\ sessions <= sessions' /\ strayed' \in BOOLEAN
      /\ StoredTypes' /\ Numbered'
      /\ ~strayed' =>
           /\ ~strayed /\ sessions' <= 1
           /\ \A v \in Lines, s \in Ids : ~Is(mem'[v][s])
           /\ named /\ line = "open" => PlacedStore' /\ own.located
  BY Resolved DEF PhoneInv
<1> HIDE DEF own
<1>2. /\ hookPc' \in [Calls -> HookSteps] /\ hookPc'[c] = step
      /\ state' \in [Calls -> Sessions] /\ state'[c] = own
      /\ \A d \in Calls : d # c => hookPc'[d] = hookPc[d] /\ state'[d] = state[d]
      /\ HasSession'
  BY <1>1, HookStep DEF PhoneInv
<1>3. sessions' # 0
  BY <1>1
<1>4. HookTypes'
  <2>1. line' \in {"ringing", "greeted", "open", "over", "reported"}
    BY DEF PhoneInv, HookTypes
  <2>2. {named', strayed'} \subseteq BOOLEAN /\ sessions' \in {0} \cup Ids
    BY <1>1 DEF PhoneInv, HookTypes
  <2>3. QED
    BY <1>2, <2>1, <2>2 DEF HookTypes
<1>5. Ordered'
  <2>1. CASE c = "webhook"
    <3>1. hookPc'["callback"] = hookPc["callback"]
      BY <1>2, <2>1
    <3>2. QED
      BY <1>3, <2>1, <3>1 DEF PhoneInv, Ordered
  <2>2. CASE c = "callback"
    BY <1>3, <2>2 DEF PhoneInv, Ordered
  <2>3. QED
    BY <2>1, <2>2
<1>6. Placed'
  <2>1. ASSUME ~strayed', named, line' = "open"
        PROVE  PlacedStore' /\ (hookPc'["webhook"] # "idle" => state'["webhook"].located)
    <3>1. c = "webhook" /\ line = "open"
      BY <2>1 DEF PhoneInv, Ordered
    <3>2. QED
      BY <1>1, <1>2, <2>1, <3>1
  <2>2. ASSUME ~strayed', named, hookPc'["webhook"] \in {"digit", "emergency"}
        PROVE  state'["webhook"].located
    <3>1. CASE c = "webhook"
      BY <1>1, <1>2, <2>2, <3>1
    <3>2. CASE c = "callback"
      BY <1>1, <1>2, <2>2, <3>2 DEF PhoneInv, Placed
    <3>3. QED
      BY <3>1, <3>2
  <2>3. QED
    BY <1>1, <2>1, <2>2 DEF Placed
<1>7. LocatedEmergency'
  BY DEF PhoneInv, LocatedEmergency
<1>8. QED
  BY <1>1, <1>2, <1>4, <1>5, <1>6, <1>7 DEF PhoneInv

LEMMA Arrives ==
  ASSUME PhoneInv,
         \/ _ask
         \/ \E w \in Lines : choose_language(w) \/ transcribe(w) \/ call_status(w)
  PROVE  PhoneInv'
<1> USE SessionFacts
<1>1. ASSUME NEW w \in Lines, NEW step \in {"language", "heard", "digit"}, Webhook(w, step),
             \/ line = "greeted" /\ line' = "open" /\ step = "language"
             \/ line = "open" /\ line' = line
      PROVE  PhoneInv'
  <2>1. /\ Then("webhook", step) /\ resolve("webhook", w, FALSE)
        /\ hookOn' = [hookOn EXCEPT !["webhook"] = w] /\ UNCHANGED <<alerts, named>>
    BY <1>1 DEF Webhook
  <2>2. hookOn' \in [Calls -> Lines] /\ step \in HookSteps /\ step # "idle"
    BY <2>1 DEF PhoneInv, HookTypes, HookSteps
  <2>3. "webhook" \in Calls /\ "webhook" # "callback" /\ FALSE \in BOOLEAN
    OBVIOUS
  <2>4. line' \notin {"ringing", "greeted"} /\ (step \in {"digit", "emergency"} => line = "open")
    BY <1>1
  <2>5. QED
    BY <1>1, <2>1, <2>2, <2>3, <2>4, Resolves
<1>2. CASE _ask
  <2>1. PICK known \in BOOLEAN : resolve("webhook", hookOn["webhook"], known)
    BY <1>2, Running DEF _ask, Sessions
  <2>2. /\ Then("webhook", "turn") /\ UNCHANGED <<line, hookOn, alerts, named>>
        /\ hookPc["webhook"] = "ask"
    BY <1>2 DEF _ask
  <2>3. hookOn["webhook"] \in Lines /\ hookOn' \in [Calls -> Lines] /\ "turn" \in HookSteps
    BY <2>2 DEF PhoneInv, HookTypes, HookSteps
  <2>4. line' \notin {"ringing", "greeted"}
    BY <2>2 DEF PhoneInv, Ordered
  <2>5. "webhook" \in Calls /\ "webhook" # "callback" /\ "turn" \notin {"digit", "emergency", "idle"}
    OBVIOUS
  <2>6. QED
    BY <2>1, <2>2, <2>3, <2>4, <2>5, Resolves
<1>3. ASSUME NEW w \in Lines, call_status(w) PROVE PhoneInv'
  <2>1. /\ Then("callback", "finish") /\ resolve("callback", w, FALSE)
        /\ line = "over" /\ line' = "reported"
        /\ hookOn' = [hookOn EXCEPT !["callback"] = w] /\ UNCHANGED <<alerts, named>>
    BY <1>3 DEF call_status
  <2>2. hookOn' \in [Calls -> Lines] /\ "finish" \in HookSteps
    BY <2>1 DEF PhoneInv, HookTypes, HookSteps
  <2>3. /\ "callback" \in Calls /\ "webhook" # "callback" /\ FALSE \in BOOLEAN
        /\ "finish" # "idle"
    OBVIOUS
  <2>4. QED
    BY <2>1, <2>2, <2>3, Resolves
<1>4. QED
  BY <1>1, <1>2, <1>3 DEF choose_language, transcribe

(* A hook stores its copy, in Redis or its memory, in the row or in both;  *)
(* the place is stored for good only by one that does both.                *)
LEMMA Stores ==
  ASSUME PhoneInv, NEW c \in Calls, hookPc[c] # "idle", NEW s \in Sessions,
         s.sid = state[c].sid, state[c].located => s.located,
         \/ save(hookOn[c], s) /\ strayed' = (strayed \/ ~Answered(hookOn[c]))
         \/ UNCHANGED <<hot, mem, strayed>>,
         session' \in {session, s}, UNCHANGED <<pointer, sessions, line, hookOn>>,
         NEW step \in HookSteps \ {"digit", "emergency"}, NEW own \in {s, None},
         Then(c, step), state' = [state EXCEPT ![c] = own], step # "idle" => own = s,
         named' \in BOOLEAN, named => named',
         named' /\ ~named => /\ s.located /\ session' = s /\ c = "webhook" /\ step = "idle"
                            /\ save(hookOn[c], s) /\ strayed' = (strayed \/ ~Answered(hookOn[c])),
         LocatedEmergency'
  PROVE  PhoneInv'
<1> USE SessionFacts
<1>1. Known(s) /\ hookOn[c] \in Lines /\ Known(state[c])
  BY Running DEF Known, Is
<1>2. /\ StoredTypes' /\ Numbered'
      /\ Placed /\ ~strayed /\ (Answered(hookOn[c]) \/ UNCHANGED <<hot, mem>>) =>
           /\ \A v \in Lines, i \in Ids : ~Is(mem'[v][i])
           /\ PlacedStore /\ s.located => PlacedStore'
  BY <1>1, StoreStep
<1>3. own \in Sessions /\ own.sid <= sessions' /\ (step # "idle" => Is(own))
  BY <1>1, Running DEF Known
<1>4. /\ hookPc' \in [Calls -> HookSteps] /\ hookPc'[c] = step
      /\ state' \in [Calls -> Sessions] /\ state'[c] = own
      /\ \A d \in Calls : d # c => hookPc'[d] = hookPc[d] /\ state'[d] = state[d]
      /\ HasSession'
  <2>1. sessions' \in {0} \cup Ids /\ sessions <= sessions' /\ step \in HookSteps
    BY Running
  <2>2. HookTypes /\ HasSession
    BY DEF PhoneInv
  <2>3. QED
    BY <1>3, <2>1, <2>2, HookStep
<1>5. HookTypes'
  BY <1>4 DEF PhoneInv, HookTypes
<1>6. sessions # 0
  BY <1>1, Running DEF Known, Is
<1>7. line \notin {"ringing", "greeted"} /\ (c = "callback" => line = "reported")
  BY DEF PhoneInv, Ordered
<1>8. Ordered'
  <2>1. hookPc'["callback"] # "idle" => line = "reported"
    <3>1. CASE c = "callback"
      BY <1>7, <3>1
    <3>2. CASE c # "callback"
      BY <1>4, <3>2 DEF PhoneInv, Ordered
    <3>3. QED
      BY <3>1, <3>2
  <2>2. QED
    BY <1>6, <1>7, <2>1 DEF Ordered
<1>9. Placed'
  <2>1. ASSUME ~strayed' PROVE ~strayed /\ (Answered(hookOn[c]) \/ UNCHANGED <<hot, mem>>)
    <3>1. CASE strayed' = (strayed \/ ~Answered(hookOn[c]))
      BY <2>1, <3>1
    <3>2. CASE UNCHANGED <<hot, mem, strayed>>
      BY <2>1, <3>2
    <3>3. QED
      BY <3>1, <3>2
  <2>2. ASSUME ~strayed' PROVE sessions <= 1 /\ \A v \in Lines, i \in Ids : ~Is(mem'[v][i])
    BY <1>2, <2>1, <2>2 DEF PhoneInv, Placed
  <2>3. ASSUME ~strayed', named, line = "open"
        PROVE  PlacedStore' /\ (hookPc'["webhook"] # "idle" => state'["webhook"].located)
    <3>1. c = "webhook"
      BY <1>7, <2>3
    <3>2. PlacedStore /\ s.located
      BY <2>1, <2>3, <3>1 DEF PhoneInv, Placed
    <3>3. QED
      BY <1>2, <1>4, <2>1, <2>3, <3>1, <3>2 DEF PhoneInv
  <2>4. ASSUME ~strayed', named', ~named
        PROVE  PlacedStore' /\ hookPc'["webhook"] = "idle"
    <3>1. s.located /\ session' = s /\ c = "webhook" /\ step = "idle"
      BY <2>4
    <3>2. save(hookOn[c], s) /\ Answered(hookOn[c]) /\ sessions <= 1
      BY <2>2, <2>4
    <3>3. hot' = [hot EXCEPT ![s.sid] = s]
      BY <3>2 DEF save
    <3>4. s.sid \in Ids /\ s.sid <= 1 /\ sessions \in Nat
      BY <1>1, <3>2, Running DEF Known, Is
    <3>5. ASSUME NEW i \in Ids, Is(hot'[i]) PROVE hot'[i].located
      <4>1. CASE i = s.sid
        BY <3>1, <3>3, <4>1 DEF PhoneInv, StoredTypes
      <4>2. CASE i # s.sid
        <5>1. hot'[i] = hot[i] /\ hot[i].sid \in {0, i} /\ hot[i].sid <= sessions
          BY <3>3, <4>2 DEF PhoneInv, StoredTypes, Numbered
        <5>2. i \in Nat /\ i # 0 /\ i <= 1 /\ s.sid \in Nat /\ s.sid # 0
          BY <3>2, <3>4, <3>5, <5>1 DEF Is
        <5>3. QED
          BY <3>4, <4>2, <5>2
      <4>3. QED
        BY <4>1, <4>2
    <3>6. QED
      BY <1>4, <3>1, <3>5 DEF PlacedStore
  <2>5. ASSUME ~strayed', named', hookPc'["webhook"] \in {"digit", "emergency"}
        PROVE  state'["webhook"].located
    <3>1. c = "callback" /\ named
      BY <1>4, <2>4, <2>5 DEF Calls
    <3>2. hookPc'["webhook"] = hookPc["webhook"] /\ state'["webhook"] = state["webhook"]
      BY <1>4, <3>1
    <3>3. QED
      BY <2>1, <2>5, <3>1, <3>2 DEF PhoneInv, Placed
  <2>6. QED
    BY <2>2, <2>3, <2>4, <2>5 DEF Placed
<1>10. QED
  BY <1>2, <1>4, <1>5, <1>8, <1>9 DEF PhoneInv

LEMMA WebhookStores ==
  ASSUME PhoneInv,
         language_saved \/ ensure_row \/ _remember_spoken_location \/ _emergency
  PROVE  PhoneInv'
<1> USE SessionFacts
<1> DEFINE c == "webhook"
           own == state["webhook"]
<1>t. /\ c \in Calls /\ own \in Sessions /\ state = [state EXCEPT ![c] = own]
      /\ own.located \in BOOLEAN /\ named \in BOOLEAN /\ LocatedEmergency
  BY Running DEF PhoneInv, HookTypes
<1>s. "row" \in HookSteps /\ "idle" \in HookSteps /\ "ask" \in HookSteps /\ "saved" \in HookSteps
  BY DEF HookSteps
<1>1. CASE language_saved
  <2>1. /\ hookPc[c] # "idle" /\ save(hookOn[c], own)
        /\ strayed' = (strayed \/ ~Answered(hookOn[c])) /\ Then(c, "row")
        /\ UNCHANGED <<pointer, session, sessions, line, hookOn, state, alerts, named>>
    BY <1>1 DEF language_saved, Saved
  <2>2. LocatedEmergency'
    BY <1>t, <2>1 DEF LocatedEmergency
  <2>3. "row" \notin {"digit", "emergency", "idle"}
    OBVIOUS
  <2>4. QED
    BY <1>t, <1>s, <2>1, <2>2, <2>3, Stores
<1>2. CASE ensure_row
  <2>1. /\ hookPc[c] # "idle" /\ session' \in {session, own}
        /\ Then(c, "idle") /\ state' = [state EXCEPT ![c] = None]
        /\ UNCHANGED <<pointer, hot, mem, sessions, line, hookOn, alerts, named, strayed>>
    BY <1>2 DEF ensure_row, Added, Answer, Copy
  <2>2. LocatedEmergency'
    BY <1>t, <2>1 DEF LocatedEmergency
  <2>3. "idle" \notin {"digit", "emergency"}
    OBVIOUS
  <2>4. QED
    BY <1>t, <1>s, <2>1, <2>2, <2>3, Stores
<1>3. CASE _remember_spoken_location
  <2> DEFINE placed == [own EXCEPT !.located = TRUE]
  <2>1. /\ hookPc[c] # "idle" /\ Then(c, "ask") /\ UNCHANGED <<line, hookOn, alerts, named>>
    BY <1>3 DEF _remember_spoken_location
  <2>2. LocatedEmergency'
    BY <1>t, <2>1 DEF LocatedEmergency
  <2>3. "ask" \notin {"digit", "emergency", "idle"}
    OBVIOUS
  <2>4. CASE UNCHANGED <<storedVars, sessions, state, strayed>>
    BY <1>t, <1>s, <2>1, <2>2, <2>3, <2>4, Stores DEF storedVars
  <2>5. CASE ~UNCHANGED <<storedVars, sessions, state, strayed>>
    <3>1. /\ state' = [state EXCEPT ![c] = placed] /\ save(hookOn[c], placed)
          /\ strayed' = (strayed \/ ~Answered(hookOn[c]))
          /\ UNCHANGED <<pointer, session, sessions>>
      BY <1>3, <2>5 DEF _remember_spoken_location, Copy
    <3>2. placed \in Sessions /\ placed.sid = own.sid /\ placed.located
      BY <1>t DEF Sessions
    <3> HIDE DEF placed
    <3>3. QED
      BY <1>t, <1>s, <2>1, <2>2, <2>3, <3>1, <3>2, Stores
  <2>6. QED
    BY <2>4, <2>5
<1>4. CASE _emergency
  <2>1. /\ hookPc[c] = "emergency" /\ session' \in {session, own}
        /\ \/ Then(c, "saved") /\ state' = state
           \/ Then(c, "idle") /\ state' = [state EXCEPT ![c] = None]
        /\ UNCHANGED <<pointer, hot, mem, sessions, line, hookOn, named, strayed>>
    BY <1>4 DEF _emergency, Added, Answer, Copy
  <2>2. alerts' = alerts \cup {[located |-> own.located, named |-> named /\ ~strayed]}
    BY <1>4 DEF _emergency
  <2>3. LocatedEmergency'
    <3>1. named /\ ~strayed => own.located
      BY <2>1 DEF PhoneInv, Placed
    <3>2. QED
      BY <1>t, <2>2, <3>1 DEF LocatedEmergency
  <2>4. /\ "idle" \notin {"digit", "emergency"} /\ "saved" \notin {"digit", "emergency"}
        /\ hookPc[c] # "idle"
    BY <2>1
  <2>5. CASE Then(c, "saved") /\ state' = state
    BY <1>t, <1>s, <2>1, <2>3, <2>4, <2>5, Stores
  <2>6. CASE Then(c, "idle") /\ state' = [state EXCEPT ![c] = None]
    BY <1>t, <1>s, <2>1, <2>3, <2>4, <2>6, Stores
  <2>7. QED
    BY <2>1, <2>5, <2>6
<1>5. QED
  BY <1>1, <1>2, <1>3, <1>4

LEMMA TurnStores ==
  ASSUME PhoneInv, _escalate \/ record_turn \/ finish_call
  PROVE  PhoneInv'
<1> USE SessionFacts
<1>t. /\ named \in BOOLEAN /\ LocatedEmergency
      /\ \A c \in Calls : state[c] \in Sessions /\ state = [state EXCEPT ![c] = state[c]]
  BY Running DEF PhoneInv, HookTypes
<1>s. "idle" \in HookSteps /\ "hold" \in HookSteps
  BY DEF HookSteps
<1>1. CASE _escalate
  <2>1. /\ hookPc["webhook"] # "idle" /\ save(hookOn["webhook"], state["webhook"])
        /\ strayed' = (strayed \/ ~Answered(hookOn["webhook"])) /\ Then("webhook", "hold")
        /\ session' \in {session, state["webhook"]}
        /\ UNCHANGED <<pointer, sessions, line, hookOn, state, alerts, named>>
    BY <1>1 DEF _escalate, Saved, _sync_context
  <2>2. LocatedEmergency'
    BY <1>t, <2>1 DEF LocatedEmergency
  <2>3. "hold" \notin {"digit", "emergency", "idle"} /\ "webhook" \in Calls
    OBVIOUS
  <2>4. QED
    BY <1>t, <1>s, <2>1, <2>2, <2>3, Stores
<1>2. CASE record_turn
  <2> DEFINE own == state["webhook"]
  <2>1. /\ hookPc["webhook"] # "idle" /\ save(hookOn["webhook"], own)
        /\ strayed' = (strayed \/ ~Answered(hookOn["webhook"])) /\ Then("webhook", "idle")
        /\ session' \in {session, own} /\ state' = [state EXCEPT !["webhook"] = None]
        /\ UNCHANGED <<pointer, sessions, line, hookOn, alerts>>
    BY <1>2 DEF record_turn, Saved, Recorded, Answer, Copy, _persist_messages
  <2>2. /\ session' = (IF Executes /\ session.sid \in {0, own.sid} THEN own ELSE session)
        /\ named' = (named \/ (Executes /\ session.sid \in {0, own.sid} /\ own.located))
    BY <1>2 DEF record_turn, Recorded, _persist_messages
  <2>3. named' \in BOOLEAN /\ (named => named')
    BY <1>t, <2>2
  <2>4. named' /\ ~named => own.located /\ session' = own
    BY <1>t, <2>2
  <2>5. LocatedEmergency'
    BY <1>t, <2>1 DEF LocatedEmergency
  <2>6. "idle" \notin {"digit", "emergency"} /\ "webhook" \in Calls
    OBVIOUS
  <2>7. QED
    BY <1>t, <1>s, <2>1, <2>3, <2>4, <2>5, <2>6, Stores
<1>3. CASE finish_call
  <2>1. /\ hookPc["callback"] # "idle" /\ save(hookOn["callback"], state["callback"])
        /\ strayed' = (strayed \/ ~Answered(hookOn["callback"])) /\ Then("callback", "idle")
        /\ session' \in {session, state["callback"]}
        /\ state' = [state EXCEPT !["callback"] = None]
        /\ UNCHANGED <<pointer, sessions, line, hookOn, alerts, named>>
    BY <1>3 DEF finish_call, Saved, Answer, Copy, _sync_context
  <2>2. LocatedEmergency'
    BY <1>t, <2>1 DEF LocatedEmergency
  <2>3. "idle" \notin {"digit", "emergency"} /\ "callback" \in Calls
    OBVIOUS
  <2>4. QED
    BY <1>t, <1>s, <2>1, <2>2, <2>3, Stores
<1>4. QED
  BY <1>1, <1>2, <1>3

LEMMA PhoneInvariant == Spec => []PhoneInv
<1>1. Init => PhoneInv
  BY PhoneInitial DEF Init
<1>2. PhoneInv /\ [Next]_vars => PhoneInv'
  <2> SUFFICES ASSUME PhoneInv, PhoneNext \/ UNCHANGED phoneVars PROVE PhoneInv'
    BY PhoneFrame
  <2>1. CASE answer \/ HangUp \/ UNCHANGED phoneVars
    BY <2>1, Untouched
  <2>2. CASE _handle_digit \/ _ask_fails \/ hold
    BY <2>2, GoesOn
  <2>3. CASE language_saved \/ ensure_row \/ _remember_spoken_location \/ _emergency
    BY <2>3, WebhookStores
  <2>4. CASE _escalate \/ record_turn \/ finish_call
    BY <2>4, TurnStores
  <2>5. CASE _ask \/ \E w \in Lines : choose_language(w) \/ transcribe(w) \/ call_status(w)
    BY <2>5, Arrives
  <2>6. CASE KeysExpire
    BY <2>6, Forgotten
  <2>7. CASE \E w \in Lines : LineDies(w)
    BY <2>7, ProcessGone
  <2>8. QED
    BY <2>1, <2>2, <2>3, <2>4, <2>5, <2>6, <2>7 DEF PhoneNext
<1>3. QED
  BY <1>1, <1>2, PTL DEF Spec

(* A caller whose place was stored for good is found by every later        *)
(* emergency of the call, though Redis forgets, processes die or another   *)
(* one answers (routers/ivr.py, services/session_service.py), as long as   *)
(* the session is one and not in a process's memory.                       *)
THEOREM PlaceReachesEmergency == Spec => []LocatedEmergency
<1>1. PhoneInv => LocatedEmergency
  BY DEF PhoneInv
<1>2. QED
  BY <1>1, PhoneInvariant, PTL

(* The types of the rest.                                                  *)
LEMMA PhoneTyped == Spec => []PhoneType
<1> DEFINE Raised == alerts \subseteq [located : BOOLEAN, named : BOOLEAN]
<1>1. Init => Raised
  BY DEF Init, PhoneInit
<1>2. PhoneInv /\ Raised /\ [Next]_vars => Raised'
  <2> SUFFICES ASSUME PhoneInv, Raised, PhoneNext \/ UNCHANGED phoneVars PROVE Raised'
    BY PhoneFrame
  <2>1. CASE _emergency
    <3>1. state["webhook"].located \in BOOLEAN
      BY SessionFacts DEF PhoneInv, HookTypes
    <3> DEFINE alertNamed == named /\ ~strayed
    <3>2. alertNamed \in BOOLEAN
      OBVIOUS
    <3>3. alerts' = alerts \cup {[located |-> state["webhook"].located, named |-> alertNamed]}
      BY <2>1 DEF _emergency
    <3> HIDE DEF alertNamed
    <3>4. [located |-> state["webhook"].located, named |-> alertNamed] \in [located : BOOLEAN, named : BOOLEAN]
      BY <3>1, <3>2
    <3>5. QED
      BY <3>3, <3>4
  <2>2. CASE ~_emergency
    <3>1. alerts' = alerts
      BY <2>2 DEF PhoneNext, phoneVars, answer, language_saved, ensure_row,
                  _remember_spoken_location, _handle_digit, _ask, _ask_fails, _escalate, hold,
                  record_turn, finish_call, HangUp, KeysExpire, choose_language, transcribe,
                  Webhook, call_status, LineDies
    <3>2. QED
      BY <3>1
  <2>3. QED
    BY <2>1, <2>2
<1>3. PhoneInv /\ Raised => PhoneType
  BY DEF PhoneInv, StoredTypes, HookTypes, PhoneType
<1>4. QED
  BY <1>1, <1>2, <1>3, PhoneInvariant, PTL DEF Spec

----------------------------------------------------------------------------
(* The assistant's turn.                                                   *)

LEMMA TurnFrame ==
  [Next]_vars => \/ service = "assistant" /\ service' = service /\ TurnNext
                 \/ service = "assistant" /\ UNCHANGED <<service, turnVars>> /\ DatabaseNext
                 \/ UNCHANGED <<service, turnVars, handleVars>>
                 \/ service # "assistant" /\ UNCHANGED <<service, turnVars>>
BY DEF Next, vars, ServiceStep, HandleStep, Runs

(* An outcome; a report's reference comes with a card.                     *)
AnyOutcome == [name : TOOL_SCHEMAS \cup {"made_up"}, ok : BOOLEAN, card : BOOLEAN,
               ref : Nat, why : {"", "no_location"}]
Good(o) == o \in AnyOutcome /\ (o.ref # 0 => o.card)

(* Reports are numbered as they are filed, and each of them is an outcome  *)
(* but the one being read back, unless the database was away.              *)
Accounted ==
    /\ \E n \in Nat : filed = 1..n
    /\ service = "assistant" /\ outages = 0 =>
         \A r \in filed : \/ \E i \in DOMAIN outcomes : outcomes[i].ref = r
                          \/ turnPc = "refresh" /\ r = Cardinality(filed)

TurnInv ==
    /\ service = "assistant" => outages \in Nat /\ (outages = 0 => dbUp)
    /\ turnPc # "done" => outcomes \in Seq(AnyOutcome)
    /\ turnPc # "done" => \A i \in DOMAIN outcomes : Good(outcomes[i])
    /\ turnPc \in {"start", "rules"} => outcomes = <<>>
    /\ service # "assistant" => turnPc = "start"
    /\ Accounted
    /\ ReferenceShown

LEMMA NoReference == \A tool, args : Outcome(tool, args).ref = 0
BY DEF Outcome, Shows, Fails, Placeless, _tool_crowd_density, _tool_congestion_forecast,
       _tool_route_guidance, _tool_nearby_facility, _tool_temple_info, _tool_get_palkhi_location,
       _tool_escalate, _tool_trigger_sos

LEMMA OutcomesFit ==
  \A tool \in TOOL_SCHEMAS \cup {"made_up"} :
    Good(Fails(tool)) /\ \A args \in Arguments : Good(Outcome(tool, args))
<1> SUFFICES ASSUME NEW tool \in TOOL_SCHEMAS \cup {"made_up"}
             PROVE  Good(Fails(tool)) /\ \A args \in Arguments : Good(Outcome(tool, args))
  OBVIOUS
<1>1. \A t \in TOOL_SCHEMAS \cup {"made_up"} :
         /\ Shows(t) \in AnyOutcome /\ Fails(t) \in AnyOutcome /\ Placeless(t) \in AnyOutcome
         /\ [Placeless(t) EXCEPT !.card = TRUE] \in AnyOutcome
         /\ Fails(t).ref = 0
  BY DEF AnyOutcome, Shows, Fails, Placeless
<1>2. \A args \in Arguments : Outcome(tool, args) \in AnyOutcome
  BY <1>1 DEF Outcome, _tool_crowd_density, _tool_congestion_forecast,
       _tool_route_guidance, _tool_nearby_facility, _tool_temple_info, _tool_get_palkhi_location,
       _tool_escalate, _tool_trigger_sos, TOOL_SCHEMAS
<1>3. QED
  BY <1>1, <1>2, NoReference DEF Good

(* A turn grows by a good outcome.                                         *)
LEMMA Grows ==
  ASSUME TurnInv, turnPc # "done", NEW o, Good(o), Goes(o)
  PROVE  /\ turnPc' \in {"tools", "model"}
         /\ outcomes' \in Seq(AnyOutcome) /\ \A i \in DOMAIN outcomes' : Good(outcomes'[i])
         /\ \E i \in DOMAIN outcomes' : outcomes'[i] = o
         /\ \A i \in DOMAIN outcomes : i \in DOMAIN outcomes' /\ outcomes'[i] = outcomes[i]
<1>1. outcomes \in Seq(AnyOutcome) /\ o \in AnyOutcome /\ outcomes' = Append(outcomes, o)
  BY DEF TurnInv, Good, Goes
<1>2. /\ DOMAIN outcomes' = 1..Len(outcomes) + 1 /\ DOMAIN outcomes = 1..Len(outcomes)
      /\ Len(outcomes) \in Nat /\ outcomes'[Len(outcomes) + 1] = o
      /\ \A i \in 1..Len(outcomes) : outcomes'[i] = outcomes[i]
      /\ outcomes' \in Seq(AnyOutcome)
  BY <1>1
<1>3. turnPc' \in {"tools", "model"}
  BY DEF Goes
<1>4. \A i \in DOMAIN outcomes' : Good(outcomes'[i])
  <2>1. ASSUME NEW i \in 1..Len(outcomes) + 1 PROVE Good(outcomes'[i])
    <3>1. CASE i = Len(outcomes) + 1
      BY <1>2, <3>1
    <3>2. CASE i # Len(outcomes) + 1
      BY <1>2, <3>2 DEF TurnInv
    <3>3. QED
      BY <3>1, <3>2
  <2>2. QED
    BY <1>2, <2>1
<1>5. QED
  BY <1>2, <1>3, <1>4

LEMMA TurnInitial == Init => TurnInv
<1> SUFFICES ASSUME Init PROVE TurnInv
  OBVIOUS
<1>1. /\ turnPc = "start" /\ outcomes = <<>> /\ filed = {}
      /\ outages \in Nat /\ dbUp
  BY DEF Init, TurnInit, HandlesInit
<1>2. <<>> \in Seq(AnyOutcome) /\ DOMAIN <<>> = {} /\ filed = 1..0 /\ 0 \in Nat
  BY <1>1
<1>3. Accounted
  BY <1>1, <1>2 DEF Accounted
<1>4. QED
  BY <1>1, <1>2, <1>3 DEF TurnInv, ReferenceShown

LEMMA HandlesTurn ==
  ASSUME TurnInv,
         \/ service = "assistant" /\ UNCHANGED <<service, turnVars>> /\ DatabaseNext
         \/ UNCHANGED <<service, turnVars, handleVars>>
         \/ service # "assistant" /\ UNCHANGED <<service, turnVars>>
  PROVE  TurnInv'
<1>1. UNCHANGED <<service, turnPc, channel, outcomes, filed, cards>>
  BY DEF turnVars
<1>2. ASSUME service = "assistant"
      PROVE  /\ outages' \in Nat /\ (outages' = 0 => dbUp')
             /\ outages' = 0 => outages = 0
  BY <1>2 DEF TurnInv, DatabaseNext, DatabaseAway, DatabaseBack, handleVars
<1>3. Accounted'
  BY <1>1, <1>2 DEF TurnInv, Accounted
<1>4. ReferenceShown'
  BY <1>1, <1>2 DEF TurnInv, ReferenceShown, Handed, OnCards
<1>5. QED
  BY <1>1, <1>2, <1>3, <1>4 DEF TurnInv, Good

LEMMA TurnSteps ==
  ASSUME TurnInv, service = "assistant", service' = service, TurnNext
  PROVE  TurnInv'
<1>t. UNCHANGED handleVars /\ outages' = outages /\ dbUp' = dbUp
  BY DEF TurnNext, handleVars
<1>1. ASSUME turnPc # "done", NEW o, Good(o), Goes(o),
             filed' = filed, turnPc # "refresh" \/ o.ref = Cardinality(filed) \/ outages # 0
      PROVE  TurnInv'
  <2>1. /\ turnPc' \in {"tools", "model"}
        /\ outcomes' \in Seq(AnyOutcome) /\ \A i \in DOMAIN outcomes' : Good(outcomes'[i])
        /\ \E i \in DOMAIN outcomes' : outcomes'[i] = o
        /\ \A i \in DOMAIN outcomes : i \in DOMAIN outcomes' /\ outcomes'[i] = outcomes[i]
    BY <1>1, Grows
  <2>2. Accounted'
    <3>1. \E n \in Nat : filed' = 1..n
      BY <1>1 DEF TurnInv, Accounted
    <3>2. ASSUME outages = 0, NEW r \in filed PROVE \E i \in DOMAIN outcomes' : outcomes'[i].ref = r
      <4>1. CASE \E i \in DOMAIN outcomes : outcomes[i].ref = r
        BY <2>1, <4>1
      <4>2. CASE turnPc = "refresh" /\ r = Cardinality(filed)
        BY <1>1, <2>1, <3>2, <4>2
      <4>3. QED
        BY <3>2, <4>1, <4>2 DEF TurnInv, Accounted
    <3>3. QED
      BY <1>1, <1>t, <3>1, <3>2 DEF Accounted
  <2>3. QED
    BY <1>t, <2>1, <2>2 DEF TurnInv, ReferenceShown
<1>2. CASE _execute_tool
  <2>1. PICK tool \in TOOL_SCHEMAS \cup {"made_up"}, args \in Arguments :
          Goes(Outcome(tool, args)) \/ Goes(Fails(tool))
    BY <1>2, CalledAssumption DEF _execute_tool
  <2>2. turnPc = "tools" /\ filed' = filed
    BY <1>2 DEF _execute_tool
  <2>3. Good(Outcome(tool, args)) /\ Good(Fails(tool))
    BY OutcomesFit
  <2>4. QED
    BY <1>1, <2>1, <2>2, <2>3
<1>3. CASE _tool_report_lost_found
  <2>1. turnPc = "tools"
    BY <1>3 DEF _tool_report_lost_found
  <2>2. CASE Goes(Fails("report_lost_found")) /\ filed' = filed
    <3>1. "report_lost_found" \in TOOL_SCHEMAS
      BY DEF TOOL_SCHEMAS
    <3>2. Good(Fails("report_lost_found"))
      BY <3>1, OutcomesFit
    <3>3. QED
      BY <1>1, <2>1, <2>2, <3>2
  <2>3. CASE ~(Goes(Fails("report_lost_found")) /\ filed' = filed)
    <3>1. /\ filed' = filed \cup {Cardinality(filed) + 1}
          /\ turnPc' = "refresh" /\ outcomes' = outcomes
      BY <1>3, <2>3 DEF _tool_report_lost_found
    <3>2. PICK n \in Nat : filed = 1..n
      BY DEF TurnInv, Accounted
    <3>3. Cardinality(filed) = n
      BY <3>2, FS_Interval
    <3>4. filed' = 1..(n + 1) /\ n + 1 \in Nat
      BY <3>1, <3>2, <3>3
    <3>5. Cardinality(filed') = n + 1
      BY <3>4, FS_Interval
    <3>6. Accounted'
      <4>1. ASSUME outages = 0, NEW r \in filed'
            PROVE  \/ \E i \in DOMAIN outcomes' : outcomes'[i].ref = r
                   \/ turnPc' = "refresh" /\ r = Cardinality(filed')
        <5>1. CASE r \in filed
          BY <2>1, <3>1, <4>1, <5>1 DEF TurnInv, Accounted
        <5>2. CASE r = n + 1
          BY <3>1, <3>5, <5>2
        <5>3. QED
          BY <3>1, <3>3, <4>1, <5>1, <5>2
      <4>2. QED
        BY <1>t, <3>4, <4>1 DEF Accounted
    <3>7. QED
      BY <1>t, <2>1, <3>1, <3>6 DEF TurnInv, ReferenceShown
  <2>4. QED
    BY <2>2, <2>3
<1>4. CASE report_refresh
  <2>1. turnPc = "refresh" /\ filed' = filed
    BY <1>4 DEF report_refresh
  <2>2. PICK n \in Nat : filed = 1..n
    BY DEF TurnInv, Accounted
  <2>3. Cardinality(filed) = n
    BY <2>2, FS_Interval
  <2>4. "report_lost_found" \in TOOL_SCHEMAS
    BY DEF TOOL_SCHEMAS
  <2>5. CASE dbUp
    <3> DEFINE o == [Shows("report_lost_found") EXCEPT !.ref = Cardinality(filed)]
    <3>1. Goes(o)
      BY <1>4, <2>5 DEF report_refresh, Executes
    <3>2. Good(o) /\ o.ref = Cardinality(filed)
      BY <2>3, <2>4 DEF Good, AnyOutcome, Shows
    <3> HIDE DEF o
    <3>3. QED
      BY <1>1, <2>1, <3>1, <3>2
  <2>6. CASE ~dbUp
    <3>1. Goes(Fails("report_lost_found"))
      BY <1>4, <2>6 DEF report_refresh, Executes
    <3>2. Good(Fails("report_lost_found"))
      BY <2>4, OutcomesFit
    <3>3. QED
      BY <1>1, <2>1, <2>6, <3>1, <3>2 DEF TurnInv
  <2>7. QED
    BY <2>5, <2>6
<1>5. CASE process_message \/ model_calls \/ model_breaks_off
  <2>1. /\ UNCHANGED <<outcomes, filed>> /\ turnPc \in {"start", "model"}
        /\ turnPc' \in {"model", "rules", "tools", "word"}
        /\ turnPc' = "rules" => outcomes = <<>>
    BY <1>5 DEF process_message, model_calls, model_breaks_off, TurnInv
  <2>2. Accounted'
    BY <1>t, <2>1 DEF TurnInv, Accounted
  <2>3. QED
    BY <1>t, <2>1, <2>2 DEF TurnInv, ReferenceShown, Good
<1>6. CASE model_answers \/ describe_outcomes
  <2>1. /\ UNCHANGED <<channel, outcomes, filed>> /\ turnPc \in {"model", "word"}
        /\ turnPc' = "done" /\ cards' = Widgets({outcomes[i] : i \in DOMAIN outcomes})
    BY <1>6 DEF model_answers, describe_outcomes
  <2>2. Accounted'
    BY <1>t, <2>1 DEF TurnInv, Accounted
  <2>3. ASSUME channel # "ivr", NEW i \in DOMAIN outcomes, outcomes[i].ref # 0
        PROVE  outcomes[i].ref \in OnCards'
    <3>1. outcomes[i] \in cards'
      BY <2>1, <2>3 DEF Widgets, TurnInv, Good
    <3>2. QED
      BY <3>1 DEF OnCards
  <2>4. ReferenceShown'
    <3>1. channel # "ivr" => Handed' \subseteq OnCards'
      BY <2>1, <2>3 DEF Handed
    <3>2. ASSUME channel # "ivr", outages = 0, NEW r \in filed PROVE r \in OnCards'
      <4>1. PICK i \in DOMAIN outcomes : outcomes[i].ref = r
        BY <2>1, <3>2 DEF TurnInv, Accounted
      <4>2. r # 0
        BY DEF TurnInv, Accounted
      <4>3. QED
        BY <2>3, <3>2, <4>1, <4>2
    <3>3. QED
      BY <1>t, <2>1, <3>1, <3>2 DEF ReferenceShown
  <2>5. QED
    BY <1>t, <2>1, <2>2, <2>4 DEF TurnInv
<1>7. CASE _rule_based
  <2>1. /\ turnPc = "rules" /\ turnPc' = "done" /\ UNCHANGED <<channel, filed>>
        /\ \/ outcomes' = <<>>
           \/ \E tool, args : outcomes' = <<Outcome(tool, args)>>
    BY <1>7 DEF _rule_based
  <2>2. \A i \in DOMAIN outcomes' : outcomes'[i].ref = 0
    BY <2>1, NoReference
  <2>3. outages = 0 => filed = {}
    BY <2>1 DEF TurnInv, Accounted
  <2>4. Accounted'
    BY <1>t, <2>1, <2>3 DEF TurnInv, Accounted
  <2>5. Handed' = {}
    BY <2>2 DEF Handed
  <2>6. ReferenceShown'
    BY <1>t, <2>1, <2>3, <2>5 DEF ReferenceShown
  <2>7. QED
    BY <1>t, <2>1, <2>4, <2>6 DEF TurnInv
<1>8. QED
  BY <1>2, <1>3, <1>4, <1>5, <1>6, <1>7 DEF TurnNext

LEMMA TurnInvariant == Spec => []TurnInv
<1>1. TurnInv /\ [Next]_vars => TurnInv'
  BY TurnFrame, TurnSteps, HandlesTurn
<1>2. QED
  BY TurnInitial, <1>1, PTL DEF Spec

(* Where there is a screen, every report the assistant files has its       *)
(* reference on a card, whatever becomes of the model (_run_llm,           *)
(* describe_outcomes); only one whose read back failed has not.            *)
THEOREM ReportsAreShown == Spec => []ReferenceShown
<1>1. TurnInv => ReferenceShown
  BY DEF TurnInv
<1>2. QED
  BY <1>1, TurnInvariant, PTL

(* The types of the rest: no turn has more outcomes, the report being read *)
(* back among them, than there are calls.                                  *)
TurnPoints == {"start", "model", "tools", "refresh", "word", "rules", "done"}

TurnFits ==
    /\ turnPc \in TurnPoints
    /\ channel \in {"app", "ivr", "ivr_screen"}
    /\ located \in BOOLEAN
    /\ rounds \in 0..MAX_TOOL_ROUNDS
    /\ reply \subseteq Sentence
    /\ source \in {"", "llm", "rules"}
    /\ cards \subseteq ToolOutcome
    /\ \A i \in DOMAIN outcomes : i <= MaxCalls + 1 /\ outcomes[i] \in ToolOutcome

CallsFit ==
    /\ turnPc # "done" => /\ Len(outcomes) <= MaxCalls
                          /\ turnPc \notin {"refresh", "rules"} => Cardinality(filed) <= Len(outcomes)
    /\ turnPc \in {"tools", "refresh"} => Len(outcomes) < MaxCalls
    /\ turnPc = "refresh" => Cardinality(filed) <= Len(outcomes) + 1
    /\ Cardinality(filed) <= MaxCalls

LEMMA ReferenceFits ==
  ASSUME NEW o \in AnyOutcome, o.ref \in 0..MaxCalls PROVE o \in ToolOutcome
BY DEF AnyOutcome, ToolOutcome

LEMMA OutcomeFits ==
  \A tool \in TOOL_SCHEMAS \cup {"made_up"} :
    /\ Fails(tool) \in ToolOutcome /\ Fails(tool).ref = 0
    /\ \A args \in Arguments : Outcome(tool, args) \in ToolOutcome
<1>1. 0 \in 0..MaxCalls
  BY CallsAssumption
<1>2. \A tool : Fails(tool).ref = 0
  BY DEF Fails, Shows
<1>3. QED
  BY <1>1, <1>2, NoReference, OutcomesFit, ReferenceFits DEF Good

LEMMA SentencesFit == ASSUME NEW o \in ToolOutcome PROVE _describe(o) \in Sentence
BY DEF _describe, ToolOutcome, Sentence

LEMMA FiledFacts ==
  ASSUME TurnInv
  PROVE  /\ Cardinality(filed) \in Nat /\ filed = 1..Cardinality(filed)
         /\ Cardinality(filed \cup {Cardinality(filed) + 1}) = Cardinality(filed) + 1
<1>1. PICK n \in Nat : filed = 1..n
  BY DEF TurnInv, Accounted
<1>2. Cardinality(filed) = n /\ filed \cup {n + 1} = 1..(n + 1) /\ n + 1 \in Nat
  <2>1. 1 \in Int /\ n \in Int
    OBVIOUS
  <2>2. Cardinality(filed) = n
    BY <1>1, <2>1, FS_Interval
  <2>3. filed \cup {n + 1} = 1..(n + 1) /\ n + 1 \in Nat
    BY <1>1
  <2>4. QED
    BY <2>2, <2>3
<1>3. Cardinality(1..(n + 1)) = n + 1
  BY <1>2, FS_Interval
<1>4. QED
  BY <1>1, <1>2, <1>3

(* A turn grows within its calls.                                          *)
LEMMA GrowsWithin ==
  ASSUME TurnInv, TurnFits, CallsFit, turnPc \in {"tools", "refresh"}, NEW o, Good(o),
         o \in ToolOutcome, Goes(o), UNCHANGED <<channel, located, rounds, filed, reply, source, cards>>
  PROVE  TurnFits' /\ CallsFit'
<1>1. outcomes \in Seq(AnyOutcome) /\ o \in AnyOutcome /\ outcomes' = Append(outcomes, o)
  BY DEF TurnInv, Good, Goes
<1>2. /\ DOMAIN outcomes' = 1..Len(outcomes) + 1 /\ Len(outcomes') = Len(outcomes) + 1
      /\ Len(outcomes) \in Nat /\ outcomes'[Len(outcomes) + 1] = o
      /\ \A i \in 1..Len(outcomes) : outcomes'[i] = outcomes[i] /\ i \in DOMAIN outcomes
  BY <1>1
<1>3. turnPc' \in {"tools", "model"} /\ (turnPc' = "tools" => Len(outcomes') < MaxCalls)
  BY DEF Goes
<1>4. Len(outcomes) < MaxCalls /\ MaxCalls \in Nat
  BY CallsAssumption DEF CallsFit
<1>5. \A i \in DOMAIN outcomes' : i <= MaxCalls + 1 /\ outcomes'[i] \in ToolOutcome
  <2>1. ASSUME NEW i \in 1..Len(outcomes) + 1 PROVE i <= MaxCalls + 1 /\ outcomes'[i] \in ToolOutcome
    <3>1. CASE i = Len(outcomes) + 1
      BY <1>2, <1>4, <3>1
    <3>2. CASE i # Len(outcomes) + 1
      <4>1. i \in 1..Len(outcomes)
        BY <1>2, <3>2
      <4>2. outcomes'[i] = outcomes[i] /\ i \in DOMAIN outcomes
        BY <1>2, <4>1
      <4>3. QED
        BY <4>2 DEF TurnFits
    <3>3. QED
      BY <3>1, <3>2
  <2>2. QED
    BY <1>2, <2>1
<1>6. TurnFits'
  BY <1>3, <1>5 DEF TurnFits, TurnPoints
<1>7. CallsFit'
  <2>1. Cardinality(filed') = Cardinality(filed) /\ Cardinality(filed) \in Nat
    BY FiledFacts
  <2>2. Cardinality(filed) <= Len(outcomes) + 1
    BY <1>2, <2>1 DEF CallsFit
  <2>3. QED
    BY <1>2, <1>3, <1>4, <2>1, <2>2 DEF CallsFit
<1>8. QED
  BY <1>6, <1>7

(* The end of a turn.                                                      *)
LEMMA EndsWithin ==
  ASSUME TurnFits, CallsFit, turnPc' = "done", UNCHANGED <<channel, located, rounds, filed>>,
         reply' \subseteq Sentence, source' \in {"llm", "rules"},
         cards' = Widgets({outcomes'[i] : i \in DOMAIN outcomes'}),
         \A i \in DOMAIN outcomes' : i <= MaxCalls + 1 /\ outcomes'[i] \in ToolOutcome
  PROVE  TurnFits' /\ CallsFit'
<1>1. cards' \subseteq ToolOutcome
  BY DEF Widgets
<1>2. TurnFits'
  BY <1>1 DEF TurnFits, TurnPoints
<1>3. CallsFit'
  BY DEF CallsFit
<1>4. QED
  BY <1>2, <1>3

LEMMA TurnStepsFit ==
  ASSUME TurnInv, TurnFits, CallsFit, TurnNext
  PROVE  TurnFits' /\ CallsFit'
<1>f. /\ Cardinality(filed) \in Nat /\ filed = 1..Cardinality(filed)
      /\ Cardinality(filed \cup {Cardinality(filed) + 1}) = Cardinality(filed) + 1
  BY FiledFacts
<1>1. CASE process_message
  <2>1. turnPc = "start" /\ outcomes = <<>> /\ Cardinality(filed) <= Len(outcomes)
    BY <1>1 DEF process_message, TurnInv, CallsFit
  <2>2. TurnFits'
    BY <1>1 DEF process_message, TurnFits, TurnPoints
  <2>3. CallsFit'
    BY <1>1, <2>1 DEF process_message, CallsFit
  <2>4. QED
    BY <2>2, <2>3
<1>2. CASE model_calls
  <2>1. rounds + 1 \in 0..MAX_TOOL_ROUNDS
    <3>1. rounds \in 0..MAX_TOOL_ROUNDS /\ rounds < MAX_TOOL_ROUNDS
      BY <1>2 DEF model_calls, TurnFits
    <3>2. QED
      BY <3>1 DEF MAX_TOOL_ROUNDS
  <2>2. TurnFits'
    BY <1>2, <2>1 DEF model_calls, TurnFits, TurnPoints
  <2>3. CallsFit'
    BY <1>2 DEF model_calls, CallsFit
  <2>4. QED
    BY <2>2, <2>3
<1>3. CASE model_breaks_off
  <2>1. TurnFits'
    BY <1>3 DEF model_breaks_off, TurnFits, TurnPoints
  <2>2. CallsFit'
    BY <1>3 DEF model_breaks_off, CallsFit
  <2>3. QED
    BY <2>1, <2>2
<1>4. CASE model_answers
  <2>1. Says("model", "own") \in Sentence
    <3>1. 0 \in 0..MaxCalls
      BY CallsAssumption
    <3>2. QED
      BY <3>1 DEF Says, Sentence
  <2>2. QED
    BY <1>4, <2>1, EndsWithin DEF model_answers, TurnFits
<1>5. CASE describe_outcomes
  <2>1. reply' \subseteq Sentence
    BY <1>5, SentencesFit DEF describe_outcomes, TurnFits
  <2>2. QED
    BY <1>5, <2>1, EndsWithin DEF describe_outcomes, TurnFits
<1>6. CASE _execute_tool
  <2>1. PICK tool \in TOOL_SCHEMAS \cup {"made_up"}, args \in Arguments :
          Goes(Outcome(tool, args)) \/ Goes(Fails(tool))
    BY <1>6, CalledAssumption DEF _execute_tool
  <2>2. turnPc = "tools" /\ UNCHANGED <<channel, located, rounds, filed, reply, source, cards>>
    BY <1>6 DEF _execute_tool
  <2>3. /\ Good(Outcome(tool, args)) /\ Good(Fails(tool))
        /\ Outcome(tool, args) \in ToolOutcome /\ Fails(tool) \in ToolOutcome
    BY OutcomesFit, OutcomeFits
  <2>4. QED
    BY <2>1, <2>2, <2>3, GrowsWithin
<1>7. CASE _tool_report_lost_found
  <2>0. "report_lost_found" \in TOOL_SCHEMAS
    BY DEF TOOL_SCHEMAS
  <2>1. turnPc = "tools" /\ UNCHANGED <<channel, located, rounds, reply, source, cards>>
    BY <1>7 DEF _tool_report_lost_found
  <2>2. CASE Goes(Fails("report_lost_found")) /\ filed' = filed
    <3>1. Good(Fails("report_lost_found")) /\ Fails("report_lost_found") \in ToolOutcome
      BY <2>0, OutcomesFit, OutcomeFits
    <3>2. QED
      BY <2>1, <2>2, <3>1, GrowsWithin
  <2>3. CASE ~(Goes(Fails("report_lost_found")) /\ filed' = filed)
    <3>1. /\ filed' = filed \cup {Cardinality(filed) + 1}
          /\ turnPc' = "refresh" /\ outcomes' = outcomes
      BY <1>7, <2>3 DEF _tool_report_lost_found
    <3>2. TurnFits'
      BY <2>1, <3>1 DEF TurnFits, TurnPoints
    <3>3. Cardinality(filed') = Cardinality(filed) + 1
      BY <1>f, <3>1
    <3>4. Cardinality(filed) <= Len(outcomes) /\ Len(outcomes) < MaxCalls /\ Len(outcomes) \in Nat
      <4>1. outcomes \in Seq(AnyOutcome)
        BY <2>1 DEF TurnInv
      <4>2. Len(outcomes) \in Nat
        BY <4>1
      <4>3. QED
        BY <2>1, <4>2 DEF CallsFit
    <3>5. CallsFit'
      BY <1>f, <3>1, <3>3, <3>4, CallsAssumption DEF CallsFit
    <3>6. QED
      BY <3>2, <3>5
  <2>4. QED
    BY <2>2, <2>3
<1>8. CASE report_refresh
  <2>0. "report_lost_found" \in TOOL_SCHEMAS
    BY DEF TOOL_SCHEMAS
  <2>1. turnPc = "refresh" /\ UNCHANGED <<channel, located, rounds, filed, reply, source, cards>>
    BY <1>8 DEF report_refresh
  <2>2. CASE Executes
    <3> DEFINE o == [Shows("report_lost_found") EXCEPT !.ref = Cardinality(filed)]
    <3>1. Goes(o)
      BY <1>8, <2>2 DEF report_refresh
    <3>2. Good(o) /\ o.ref = Cardinality(filed)
      BY <1>f, <2>0 DEF Good, AnyOutcome, Shows
    <3> HIDE DEF o
    <3>3. o \in ToolOutcome
      <4>1. Cardinality(filed) \in 0..MaxCalls
        BY <1>f, CallsAssumption DEF CallsFit
      <4>2. QED
        BY <3>2, <4>1, ReferenceFits DEF Good
    <3>4. QED
      BY <2>1, <3>1, <3>2, <3>3, GrowsWithin
  <2>3. CASE ~Executes
    <3>1. Goes(Fails("report_lost_found"))
      BY <1>8, <2>3 DEF report_refresh
    <3>2. Good(Fails("report_lost_found")) /\ Fails("report_lost_found") \in ToolOutcome
      BY <2>0, OutcomesFit, OutcomeFits
    <3>3. QED
      BY <2>1, <3>1, <3>2, GrowsWithin
  <2>4. QED
    BY <2>2, <2>3
<1>9. CASE _rule_based
  <2>1. /\ turnPc' = "done" /\ UNCHANGED <<channel, located, rounds, filed>>
        /\ source' = "rules" /\ cards' = Widgets({outcomes'[i] : i \in DOMAIN outcomes'})
    BY <1>9 DEF _rule_based
  <2>2. \/ outcomes' = <<>> /\ reply' = {Says("nothing", "fallback")}
        \/ \E o \in ToolOutcome : outcomes' = <<o>> /\ reply' = {_describe(o)}
    <3>1. \A intent \in DOMAIN RuleTool : RuleTool[intent] \in TOOL_SCHEMAS
      BY DEF RuleTool, TOOL_SCHEMAS
    <3>2. ASSUME NEW intent \in DOMAIN RuleTool, NEW fits \in BOOLEAN
          PROVE  Outcome(RuleTool[intent], [fits |-> fits, placed |-> located]) \in ToolOutcome
      <4>1. [fits |-> fits, placed |-> located] \in Arguments
        BY DEF Arguments, TurnFits
      <4>2. QED
        BY <3>1, <4>1, OutcomeFits
    <3>3. QED
      BY <1>9, <3>2 DEF _rule_based
  <2>3. CASE outcomes' = <<>> /\ reply' = {Says("nothing", "fallback")}
    <3>1. 0 \in 0..MaxCalls
      BY CallsAssumption
    <3>2. Says("nothing", "fallback") \in Sentence
      BY <3>1 DEF Says, Sentence
    <3>3. DOMAIN outcomes' = {}
      BY <2>3
    <3>4. QED
      BY <2>1, <2>3, <3>2, <3>3, EndsWithin
  <2>4. ASSUME NEW o \in ToolOutcome, outcomes' = <<o>> /\ reply' = {_describe(o)}
        PROVE  TurnFits' /\ CallsFit'
    <3>1. DOMAIN outcomes' = {1} /\ outcomes'[1] = o
      BY <2>4
    <3>2. 1 <= MaxCalls + 1
      BY CallsAssumption
    <3>3. reply' \subseteq Sentence
      BY <2>4, SentencesFit
    <3>4. QED
      BY <2>1, <3>1, <3>2, <3>3, EndsWithin
  <2>5. QED
    BY <2>2, <2>3, <2>4
<1>10. QED
  BY <1>1, <1>2, <1>3, <1>4, <1>5, <1>6, <1>7, <1>8, <1>9 DEF TurnNext

LEMMA TurnTyped == Spec => []TurnType
<1>1. Init => TurnFits /\ CallsFit
  <2> SUFFICES ASSUME TurnInit PROVE TurnFits /\ CallsFit
    BY DEF Init
  <2>1. 0 \in 0..MAX_TOOL_ROUNDS /\ MaxCalls \in Nat
    BY CallsAssumption DEF MAX_TOOL_ROUNDS
  <2>2. DOMAIN outcomes = {} /\ Len(outcomes) = 0
    <3>1. outcomes = <<>>
      BY DEF TurnInit
    <3>2. QED
      BY <3>1
  <2>3. Cardinality(filed) = 0
    BY FS_EmptySet DEF TurnInit
  <2>4. TurnFits
    BY <2>1, <2>2 DEF TurnInit, TurnFits, TurnPoints
  <2>5. CallsFit
    <3>1. turnPc = "start"
      BY DEF TurnInit
    <3>2. QED
      BY <2>1, <2>2, <2>3, <3>1 DEF CallsFit
  <2>6. QED
    BY <2>4, <2>5
<1>2. TurnInv /\ TurnFits /\ CallsFit /\ [Next]_vars => TurnFits' /\ CallsFit'
  <2>1. [Next]_vars => TurnNext \/ UNCHANGED turnVars
    BY TurnFrame
  <2>2. TurnFits /\ CallsFit /\ UNCHANGED turnVars => TurnFits' /\ CallsFit'
    BY DEF turnVars, TurnFits, CallsFit
  <2>3. QED
    BY <2>1, <2>2, TurnStepsFit
<1>3. TurnInv /\ TurnFits /\ CallsFit => TurnType
  <2> SUFFICES ASSUME TurnInv, TurnFits, CallsFit PROVE TurnType
    OBVIOUS
  <2>1. filed \subseteq 1..MaxCalls
    BY FiledFacts, CallsAssumption DEF CallsFit
  <2>2. QED
    BY <2>1 DEF TurnFits, TurnType, TurnPoints
<1>4. QED
  BY <1>1, <1>2, <1>3, TurnInvariant, PTL DEF Spec
=============================================================================
