---------------------------- MODULE SignInProofs ----------------------------
(***************************************************************************)
(* Proofs about the one-time codes of Services, for any processes, codes,  *)
(* limits and numbers of outages, and about the limit on chat messages.    *)
(***************************************************************************)
EXTENDS Services, FiniteSetTheorems, TLAPS

LEMMA OtpFrame == [Next]_vars => OtpNext \/ UNCHANGED otpVars
BY DEF Next, vars, ServiceStep, HandleStep, Runs

Positions == {"idle"} \cup Sending \cup Verifying

SendTypes ==
    /\ sends \in Nat /\ issued \in Nat
    /\ otpPc \in [Requesters -> Positions]
    /\ {sendsExpire, uneven, orphaned} \subseteq BOOLEAN

LEMMA PositionFacts ==
  /\ {"idle", "store", "register", "expire", "select", "flush", "persist", "bump", "finish"}
       \subseteq Positions
  /\ \A p \in Sending : p # "idle" /\ p \notin Verifying
BY DEF Positions, Sending, Verifying

LEMMA SendTypesPreserved == SendTypes /\ [Next]_vars => SendTypes'
<1> SUFFICES ASSUME SendTypes, OtpNext \/ UNCHANGED otpVars PROVE SendTypes'
  BY OtpFrame
<1> USE PositionFacts DEF SendTypes
<1>m. ASSUME NEW w \in Requesters, NEW p \in Positions, otpPc' = [otpPc EXCEPT ![w] = p]
      PROVE  otpPc' \in [Requesters -> Positions]
  BY <1>m
<1>c. ASSUME NEW n \in Nat, Counted_issues(n) PROVE issued' \in Nat
  BY <1>c DEF Counted_issues
<1>1. ASSUME NEW w \in Requesters, send_otp(w) PROVE SendTypes'
  BY <1>1, <1>m, <1>c DEF send_otp, Step
<1>2. ASSUME NEW w \in Requesters, send_store(w) PROVE SendTypes'
  BY <1>2, <1>m, <1>c DEF send_store, Step
<1>3. ASSUME NEW w \in Requesters, _register_send(w) PROVE SendTypes'
  BY <1>3, <1>m, <1>c DEF _register_send, Step
<1>4. ASSUME NEW w \in Requesters, _register_expire(w) PROVE SendTypes'
  BY <1>4, <1>m DEF _register_expire, Step
<1>5. ASSUME NEW w \in Requesters,
             \/ verify_otp(w) \/ verify_select(w) \/ _bump_attempts(w)
             \/ verify_flush(w) \/ verify_persist(w) \/ verify_finish(w)
      PROVE  SendTypes'
  <2>1. /\ UNCHANGED countVars
        /\ \E p \in Positions : otpPc' = [otpPc EXCEPT ![w] = p]
    BY <1>5 DEF verify_otp, verify_select, _bump_attempts, verify_flush, verify_persist,
                verify_finish, Step, Ends
  <2>2. QED
    BY <2>1, <1>m DEF countVars
<1>6. ASSUME NEW w \in Requesters, OtpDies(w) PROVE SendTypes'
  BY <1>6, <1>m, <1>c DEF OtpDies, Ends
<1>7. CASE CodeExpires
  BY <1>7 DEF CodeExpires, countVars
<1>8. CASE WindowPasses
  BY <1>8 DEF WindowPasses
<1>9. CASE CountersLost
  BY <1>9, <1>c DEF CountersLost
<1>10. CASE UNCHANGED otpVars
  BY <1>10 DEF otpVars
<1>11. QED
  BY <1>1, <1>2, <1>3, <1>4, <1>5, <1>6, <1>7, <1>8, <1>9, <1>10 DEF OtpNext, Requests

----------------------------------------------------------------------------
(* Sending.                                                                *)

(* While nothing upset the window, sends come one after the other and each *)
(* code is counted, the last one perhaps not yet.                          *)
Even ==
    ~uneven =>
        /\ issued <= SendLimit
        /\ \A v, w \in Requesters : {otpPc[v], otpPc[w]} \subseteq Sending => v = w
        /\ (\A w \in Requesters : ~OtpAt(w, "register")) => issued = sends
        /\ \A w \in Requesters : OtpAt(w, "store") => sends < SendLimit
        /\ \A w \in Requesters : OtpAt(w, "register") => issued = sends + 1

SendInv == SendTypes /\ SendCounterExpires /\ Even

LEMMA SendInitial == OtpInit => SendInv
<1> SUFFICES ASSUME OtpInit PROVE SendInv
  OBVIOUS
<1>1. SendTypes
  BY PositionFacts DEF OtpInit, SendTypes
<1>2. SendCounterExpires
  BY DEF OtpInit, SendCounterExpires
<1>3. \A w \in Requesters : otpPc[w] \notin Sending
  BY PositionFacts DEF OtpInit
<1>4. issued = 0 /\ sends = 0
  BY DEF OtpInit
<1>5. Even
  BY <1>3, <1>4, OtpAssumption DEF Even, OtpAt, Sending
<1>6. QED
  BY <1>1, <1>2, <1>5 DEF SendInv

(* A step of w alone moves w alone.                                        *)
LEMMA Moved ==
  ASSUME SendTypes, NEW w \in Requesters, NEW p \in Positions,
         otpPc' = [otpPc EXCEPT ![w] = p]
  PROVE  \A v \in Requesters : otpPc'[v] = IF v = w THEN p ELSE otpPc[v]
BY DEF SendTypes

LEMMA SendPreserved == SendInv /\ [Next]_vars => SendInv'
<1> SUFFICES ASSUME SendTypes, SendCounterExpires, Even, OtpNext \/ UNCHANGED otpVars
             PROVE  SendCounterExpires' /\ Even'
  BY OtpFrame, SendTypesPreserved DEF SendInv
<1> USE PositionFacts DEF SendTypes, OtpAt
<1>1. ASSUME NEW w \in Requesters, send_otp(w) PROVE SendCounterExpires' /\ Even'
  <2>1. /\ otpPc[w] = "idle" /\ otpPc' = [otpPc EXCEPT ![w] = "store"]
        /\ UNCHANGED <<sends, sendsExpire, orphaned>>
    BY <1>1 DEF send_otp, Step
  <2>2. \A v \in Requesters : otpPc'[v] = IF v = w THEN "store" ELSE otpPc[v]
    BY <2>1, Moved
  <2>3. SendCounterExpires'
    BY <2>1, <2>2 DEF SendCounterExpires
  <2>4. ASSUME ~uneven' PROVE Even'
    <3>1. /\ ~uneven /\ Answered(w)
          /\ \A v \in Requesters \ {w} : otpPc[v] \notin Sending
      BY <1>1, <2>4 DEF send_otp
    <3>2. issued' = issued /\ sends < SendLimit
      BY <1>1, <2>4, <3>1 DEF send_otp, Counted_issues, _recent_send_count
    <3>3. QED
      BY <2>1, <2>2, <3>1, <3>2 DEF Even, Sending
  <2>5. QED
    BY <2>3, <2>4 DEF Even
<1>2. ASSUME NEW w \in Requesters, send_store(w) PROVE SendCounterExpires' /\ Even'
  <2>1. PICK p \in {"register", "idle"} :
          /\ otpPc[w] = "store" /\ otpPc' = [otpPc EXCEPT ![w] = p]
          /\ IF p = "register" THEN Counted_issues(issued + 1) ELSE UNCHANGED issued
          /\ UNCHANGED <<sends, sendsExpire, orphaned, uneven>>
    BY <1>2 DEF send_store, Step
  <2>2. \A v \in Requesters : otpPc'[v] = IF v = w THEN p ELSE otpPc[v]
    BY <2>1, Moved
  <2>3. SendCounterExpires'
    BY <2>1, <2>2 DEF SendCounterExpires
  <2>4. ASSUME ~uneven' PROVE Even'
    <3>1. /\ sends < SendLimit /\ issued <= SendLimit
          /\ \A v \in Requesters \ {w} : otpPc[v] \notin Sending
          /\ \A v \in Requesters : otpPc[v] # "register"
          /\ issued = sends
      BY <2>1, <2>4 DEF Even, Sending
    <3>2. issued' = IF p = "register" THEN issued + 1 ELSE issued
      BY <2>1, <2>4 DEF Counted_issues
    <3>3. QED
      BY <2>1, <2>2, <3>1, <3>2, OtpAssumption DEF Even, Sending
  <2>5. QED
    BY <2>3, <2>4 DEF Even
<1>3. ASSUME NEW w \in Requesters, _register_send(w) PROVE SendCounterExpires' /\ Even'
  <2>1. PICK p \in {"expire", "idle"} :
          /\ otpPc[w] = "register" /\ otpPc' = [otpPc EXCEPT ![w] = p]
          /\ p = "expire" <=> Answered(w) /\ sends = 0
          /\ sends' = IF Answered(w) THEN sends + 1 ELSE sends
          /\ Counted_issues(issued)
          /\ UNCHANGED <<sendsExpire, orphaned>>
    BY <1>3 DEF _register_send, Step
  <2>2. \A v \in Requesters : otpPc'[v] = IF v = w THEN p ELSE otpPc[v]
    BY <2>1, Moved
  <2>3. SendCounterExpires'
    BY <2>1, <2>2 DEF SendCounterExpires
  <2>4. ASSUME ~uneven' PROVE Even'
    <3>1. ~uneven /\ Answered(w)
      BY <1>3, <2>4 DEF _register_send
    <3>2. /\ issued <= SendLimit /\ issued = sends + 1
          /\ \A v \in Requesters \ {w} : otpPc[v] \notin Sending
      BY <2>1, <3>1 DEF Even, Sending
    <3>3. issued' = issued /\ sends' = sends + 1
      BY <2>1, <2>4, <3>1 DEF Counted_issues
    <3>4. QED
      BY <2>1, <2>2, <3>2, <3>3, OtpAssumption DEF Even, Sending
  <2>5. QED
    BY <2>3, <2>4 DEF Even
<1>4. ASSUME NEW w \in Requesters, _register_expire(w) PROVE SendCounterExpires' /\ Even'
  <2>1. /\ otpPc[w] = "expire" /\ otpPc' = [otpPc EXCEPT ![w] = "idle"]
        /\ UNCHANGED <<sends, issued, uneven>>
    BY <1>4 DEF _register_expire, Step
  <2>2. \A v \in Requesters : otpPc'[v] = IF v = w THEN "idle" ELSE otpPc[v]
    BY <2>1, Moved
  <2>3. Answered(w) /\ sends > 0 => sendsExpire'
    BY <1>4 DEF _register_expire
  <2>4. ~Answered(w) => orphaned'
    BY <1>4 DEF _register_expire
  <2>5. SendCounterExpires'
    BY <2>1, <2>3, <2>4 DEF SendCounterExpires
  <2>6. Even'
    BY <2>1, <2>2 DEF Even, Sending
  <2>7. QED
    BY <2>5, <2>6
<1>5. ASSUME NEW w \in Requesters,
             \/ verify_otp(w) \/ verify_select(w) \/ _bump_attempts(w)
             \/ verify_flush(w) \/ verify_persist(w) \/ verify_finish(w)
      PROVE  SendCounterExpires' /\ Even'
  <2>1. /\ UNCHANGED countVars
        /\ otpPc[w] \in {"idle"} \cup Verifying
        /\ \E p \in {"idle"} \cup Verifying : otpPc' = [otpPc EXCEPT ![w] = p]
    BY <1>5 DEF verify_otp, verify_select, _bump_attempts, verify_flush, verify_persist,
                verify_finish, Step, Ends, Verifying
  <2>2. PICK p \in {"idle"} \cup Verifying : otpPc' = [otpPc EXCEPT ![w] = p]
    BY <2>1
  <2>3. \A v \in Requesters : otpPc'[v] = IF v = w THEN p ELSE otpPc[v]
    BY <2>2, Moved DEF Positions
  <2>4. p \notin Sending /\ otpPc[w] \notin Sending
    BY <2>1 DEF Sending, Verifying
  <2>5. QED
    BY <2>1, <2>3, <2>4 DEF SendCounterExpires, Even, countVars, Sending
<1>6. ASSUME NEW w \in Requesters, OtpDies(w) PROVE SendCounterExpires' /\ Even'
  <2>1. /\ otpPc' = [otpPc EXCEPT ![w] = "idle"]
        /\ UNCHANGED <<sends, sendsExpire>>
    BY <1>6 DEF OtpDies, Ends
  <2>2. \A v \in Requesters : otpPc'[v] = IF v = w THEN "idle" ELSE otpPc[v]
    BY <2>1, Moved
  <2>3. orphaned \/ otpPc[w] = "expire" => orphaned'
    BY <1>6 DEF OtpDies
  <2>4. SendCounterExpires'
    BY <2>1, <2>2, <2>3 DEF SendCounterExpires
  <2>5. ASSUME ~uneven' PROVE Even'
    <3>1. ~uneven /\ otpPc[w] \notin Sending /\ issued' = issued
      BY <1>6, <2>5 DEF OtpDies, Counted_issues
    <3>2. QED
      BY <2>1, <2>2, <3>1 DEF Even, Sending
  <2>6. QED
    BY <2>4, <2>5 DEF Even
<1>7. CASE CodeExpires
  BY <1>7 DEF CodeExpires, countVars, SendCounterExpires, Even
<1>8. CASE WindowPasses
  <2>1. /\ \A w \in Requesters : otpPc[w] \notin Sending
        /\ issued' = 0 /\ sends' = IF sendsExpire THEN 0 ELSE sends
        /\ uneven' = (sends' # 0)
        /\ UNCHANGED <<orphaned, otpPc>>
    BY <1>8 DEF WindowPasses
  <2>2. \A w \in Requesters : otpPc[w] \notin {"store", "register", "expire"}
    BY <2>1 DEF Sending
  <2>3. SendCounterExpires'
    BY <2>1, <2>2 DEF SendCounterExpires
  <2>4. ~uneven' => issued' = 0 /\ sends' = 0
    BY <2>1
  <2>5. \A w \in Requesters : otpPc'[w] \notin Sending
    BY <2>1
  <2>6. Even'
    BY <2>2, <2>1, <2>4, <2>5, OtpAssumption DEF Even
  <2>7. QED
    BY <2>3, <2>6
<1>9. CASE CountersLost
  <2>1. sends' = 0 /\ UNCHANGED otpPc
    BY <1>9 DEF CountersLost
  <2>2. ASSUME ~uneven' PROVE Even'
    <3>a. ~uneven /\ ~(issued > 0) /\ issued' = issued
      BY <1>9, <2>2 DEF CountersLost, Counted_issues
    <3>1. ~uneven /\ issued = 0 /\ issued' = 0
      BY <3>a
    <3>2. QED
      BY <2>1, <3>1, OtpAssumption DEF Even
  <2>3. QED
    BY <2>1, <2>2 DEF Even, SendCounterExpires
<1>10. CASE UNCHANGED otpVars
  BY <1>10 DEF otpVars, SendCounterExpires, Even
<1>11. QED
  BY <1>1, <1>2, <1>3, <1>4, <1>5, <1>6, <1>7, <1>8, <1>9, <1>10 DEF OtpNext, Requests

LEMMA SendInvariant == Spec => []SendInv
<1>1. Init => SendInv
  BY SendInitial DEF Init
<1>2. QED
  BY <1>1, SendPreserved, PTL DEF Spec

(***************************************************************************)
(* A number is sent no more codes in a window than the limit allows, for   *)
(* any limit and any processes, as long as nothing upset the window.       *)
(***************************************************************************)
THEOREM SendsLimited == Spec => []SendLimitHolds
<1>1. SendInv => SendLimitHolds
  BY DEF SendInv, Even, SendLimitHolds
<1>2. QED
  BY <1>1, SendInvariant, PTL

(***************************************************************************)
(* A send counter without an expiry was orphaned between INCR and EXPIRE,  *)
(* by a death or an outage, or is about to get one.                        *)
(***************************************************************************)
THEOREM SendCounterGoes == Spec => []SendCounterExpires
<1>1. SendInv => SendCounterExpires
  BY DEF SendInv
<1>2. QED
  BY <1>1, SendInvariant, PTL

----------------------------------------------------------------------------
(* Verifying.                                                              *)

Holding == {"flush", "persist", "finish"}

CodeTypes ==
    /\ otpPc \in [Requesters -> Positions]
    /\ codes \in [Codes -> {"unsent", "fresh", "used", "expired"}]
    /\ code \in [Requesters -> {0} \cup Codes]
    /\ signIns \in [Codes -> Nat]

(* A verification holds a code from the flush to its end; one that is not  *)
(* doubted it holds alone, has not been signed in with, and at the end is  *)
(* used up.                                                                *)
Held ==
    \A w \in Requesters :
        /\ code[w] # 0 <=> otpPc[w] \in Holding
        /\ code[w] \in Codes \ doubted =>
             /\ \A v \in Requesters : code[v] = code[w] => v = w
             /\ signIns[code[w]] = 0
             /\ OtpAt(w, "finish") => codes[code[w]] = "used"

CodeInv == CodeTypes /\ Held /\ CodeUsedOnce

LEMMA ZeroNoCode == 0 \notin Codes
BY OtpAssumption DEF Codes

LEMMA CodeInitial == OtpInit => CodeInv
BY ZeroNoCode, PositionFacts DEF OtpInit, CodeInv, CodeTypes, Held, Holding, CodeUsedOnce

(* What the steps that do not sign in have in common: w moves and keeps its *)
(* code or is over, nothing is signed in, and no used code becomes another. *)
Keeps(w) ==
    /\ \E p \in Positions :
         /\ otpPc' = [otpPc EXCEPT ![w] = p]
         /\ \/ (p \in Holding <=> otpPc[w] \in Holding) /\ p # "finish" /\ code' = code
            \/ p \notin Holding /\ code' = [code EXCEPT ![w] = 0]
    /\ codes' \in [Codes -> {"unsent", "fresh", "used", "expired"}]
    /\ \A c \in Codes : codes[c] = "used" => codes'[c] = "used"
    /\ UNCHANGED <<signIns, doubted>>

LEMMA KeepsCodes == ASSUME CodeInv, NEW w \in Requesters, Keeps(w) PROVE CodeInv'
<1> USE ZeroNoCode DEF CodeInv, CodeTypes
<1>1. PICK p \in Positions :
        /\ otpPc' = [otpPc EXCEPT ![w] = p]
        /\ \/ (p \in Holding <=> otpPc[w] \in Holding) /\ p # "finish" /\ code' = code
           \/ p \notin Holding /\ code' = [code EXCEPT ![w] = 0]
  BY DEF Keeps
<1>2. /\ \A v \in Requesters : otpPc'[v] = IF v = w THEN p ELSE otpPc[v]
      /\ \A v \in Requesters \ {w} : code'[v] = code[v]
      /\ \/ (p \in Holding <=> otpPc[w] \in Holding) /\ p # "finish" /\ code'[w] = code[w]
         \/ p \notin Holding /\ code'[w] = 0
  BY <1>1
<1>3. CodeTypes'
  BY <1>1 DEF Keeps
<1>4. Held'
  BY <1>2 DEF Keeps, Held, Holding, OtpAt
<1>5. CodeUsedOnce'
  BY DEF Keeps, CodeUsedOnce
<1>6. QED
  BY <1>3, <1>4, <1>5

LEMMA CodePreserved == CodeInv /\ [Next]_vars => CodeInv'
<1> SUFFICES ASSUME CodeInv, OtpNext \/ UNCHANGED otpVars PROVE CodeInv'
  BY OtpFrame
<1> USE ZeroNoCode, PositionFacts
<1>t. CodeTypes /\ Held /\ CodeUsedOnce
  BY DEF CodeInv
<1>1. ASSUME NEW w \in Requesters, send_store(w), Executes PROVE CodeInv'
  <2>1. PICK c \in Codes : Next_code(c) /\ codes' = [codes EXCEPT ![c] = "fresh"]
    BY <1>1 DEF send_store
  <2>2. codes[c] = "unsent"
    BY <2>1 DEF Next_code, Unsent
  <2>3. Keeps(w)
    BY <1>1, <1>t, <2>1, <2>2 DEF Keeps, send_store, Step, OtpAt, verifyVars, Holding, CodeTypes
  <2>4. QED
    BY <2>3, KeepsCodes
<1>2. ASSUME NEW w \in Requesters,
             \/ send_otp(w) \/ _register_send(w) \/ _register_expire(w)
             \/ send_store(w) /\ ~Executes
             \/ verify_otp(w) \/ _bump_attempts(w) \/ verify_flush(w) \/ OtpDies(w)
      PROVE  CodeInv'
  <2>1. Keeps(w)
    BY <1>2, <1>t DEF Keeps, send_otp, send_store, _register_send, _register_expire, verify_otp,
                      _bump_attempts, verify_flush, OtpDies, Step, OtpAt, Ends, verifyVars,
                      Holding, CodeTypes
  <2>2. QED
    BY <2>1, KeepsCodes
<1>3. ASSUME NEW w \in Requesters, verify_select(w) PROVE CodeInv'
  <2>1. UNCHANGED codes /\ OtpAt(w, "select") /\ Sign_ins(signIns)
    BY <1>3 DEF verify_select
  <2>2. signIns' = [c \in Codes |-> IF c \in doubted' THEN 0 ELSE signIns[c]]
    BY <2>1 DEF Sign_ins
  <2>a. CASE /\ UNCHANGED doubted
             /\ \/ Ends(w)
                \/ otpPc' = [otpPc EXCEPT ![w] = "bump"] /\ UNCHANGED code
    <3>1. PICK p \in {"idle", "bump"} : otpPc' = [otpPc EXCEPT ![w] = p]
      BY <2>a DEF Ends
    <3>2. code' = code
      BY <2>a, <2>1, <1>t DEF Ends, Held, Holding, OtpAt, CodeTypes
    <3>3. CodeTypes'
      BY <1>t, <2>1, <2>2, <3>1, <3>2 DEF CodeTypes
    <3>4. Held'
      BY <1>t, <2>1, <2>2, <2>a, <3>1, <3>2 DEF CodeTypes, Held, Holding, OtpAt
    <3>5. CodeUsedOnce'
      BY <1>t, <2>1, <2>2, <2>a DEF CodeTypes, CodeUsedOnce
    <3>6. QED
      BY <3>3, <3>4, <3>5 DEF CodeInv
  <2>b. CASE \E c \in Codes :
               /\ Newest_code(c) /\ code' = [code EXCEPT ![w] = c]
               /\ otpPc' = [otpPc EXCEPT ![w] = "flush"]
               /\ doubted' = IF \E v \in Requesters : code[v] = c THEN doubted \cup {c}
                                                                  ELSE doubted
    <3>1. PICK c \in Codes :
            /\ Newest_code(c) /\ code' = [code EXCEPT ![w] = c]
            /\ otpPc' = [otpPc EXCEPT ![w] = "flush"]
            /\ doubted' = IF \E v \in Requesters : code[v] = c THEN doubted \cup {c}
                                                               ELSE doubted
      BY <2>b
    <3>2. codes[c] = "fresh"
      BY <3>1 DEF Newest_code, Fresh
    <3>3. c \notin doubted' => signIns[c] = 0 /\ \A v \in Requesters : code[v] # c
      BY <1>t, <3>1, <3>2 DEF CodeUsedOnce, CodeTypes
    <3>4. /\ \A v \in Requesters : code'[v] = IF v = w THEN c ELSE code[v]
          /\ \A v \in Requesters : otpPc'[v] = IF v = w THEN "flush" ELSE otpPc[v]
      BY <1>t, <3>1 DEF CodeTypes
    <3>5. doubted \subseteq doubted'
      BY <3>1
    <3>6. CodeTypes'
      BY <1>t, <2>1, <2>2, <3>1 DEF CodeTypes
    <3>7. Held'
      BY <1>t, <2>1, <2>2, <3>3, <3>4, <3>5 DEF CodeTypes, Held, Holding, OtpAt
    <3>8. CodeUsedOnce'
      BY <1>t, <2>1, <2>2, <3>5 DEF CodeTypes, CodeUsedOnce
    <3>9. QED
      BY <3>6, <3>7, <3>8 DEF CodeInv
  <2>3. QED
    BY <1>3, <2>a, <2>b DEF verify_select, Step
<1>4. ASSUME NEW w \in Requesters, verify_persist(w) PROVE CodeInv'
  <2>1. /\ OtpAt(w, "persist") /\ code[w] \in Codes
        /\ signIns' = [c \in Codes |-> IF c \in doubted' THEN 0 ELSE signIns[c]]
    BY <1>4, <1>t DEF verify_persist, Sign_ins, Held, Holding, OtpAt, CodeTypes
  <2>a. CASE /\ codes' = [codes EXCEPT ![code[w]] = "used"]
             /\ otpPc' = [otpPc EXCEPT ![w] = "finish"] /\ UNCHANGED <<code, doubted>>
    <3>1. CodeTypes'
      BY <1>t, <2>1, <2>a DEF CodeTypes
    <3>2. Held'
      BY <1>t, <2>1, <2>a DEF CodeTypes, Held, Holding, OtpAt
    <3>3. CodeUsedOnce'
      BY <1>t, <2>1, <2>a DEF CodeTypes, CodeUsedOnce
    <3>4. QED
      BY <3>1, <3>2, <3>3 DEF CodeInv
  <2>b. CASE /\ doubted' = doubted \cup {code[w]} /\ UNCHANGED codes
             /\ \/ otpPc' = [otpPc EXCEPT ![w] = "finish"] /\ UNCHANGED code
                \/ Ends(w)
    <3>1. CodeTypes'
      BY <1>t, <2>1, <2>b DEF CodeTypes, Ends
    <3>2. Held'
      BY <1>t, <2>1, <2>b DEF CodeTypes, Held, Holding, OtpAt, Ends
    <3>3. CodeUsedOnce'
      BY <1>t, <2>1, <2>b DEF CodeTypes, CodeUsedOnce
    <3>4. QED
      BY <3>1, <3>2, <3>3 DEF CodeInv
  <2>2. QED
    BY <1>4, <2>a, <2>b DEF verify_persist, Step
<1>5. ASSUME NEW w \in Requesters, verify_finish(w) PROVE CodeInv'
  <2>1. /\ OtpAt(w, "finish") /\ code[w] \in Codes
        /\ otpPc' = [otpPc EXCEPT ![w] = "idle"] /\ code' = [code EXCEPT ![w] = 0]
        /\ UNCHANGED <<codes, doubted>>
    BY <1>5, <1>t DEF verify_finish, Ends, Held, Holding, OtpAt, CodeTypes
  <2>2. /\ signIns' \in [Codes -> Nat]
        /\ \A c \in Codes \ doubted : c # code[w] => signIns'[c] = signIns[c]
        /\ code[w] \notin doubted => signIns'[code[w]] \in {signIns[code[w]], signIns[code[w]] + 1}
    BY <1>5, <1>t, <2>1 DEF verify_finish, Sign_ins, CodeTypes
  <2>3. CodeTypes'
    BY <1>t, <2>1, <2>2 DEF CodeTypes
  <2>4. Held'
    BY <1>t, <2>1, <2>2 DEF CodeTypes, Held, Holding, OtpAt
  <2>5. CodeUsedOnce'
    BY <1>t, <2>1, <2>2 DEF CodeTypes, CodeUsedOnce, Held
  <2>6. QED
    BY <2>3, <2>4, <2>5 DEF CodeInv
<1>6. CASE CodeExpires
  <2>1. /\ codes' \in [Codes -> {"unsent", "fresh", "used", "expired"}]
        /\ \A c \in Codes : codes[c] = "used" => codes'[c] = "used"
        /\ UNCHANGED <<otpPc, code, signIns, doubted>>
    BY <1>6, <1>t DEF CodeExpires, Fresh, verifyVars, CodeTypes
  <2>2. QED
    BY <1>t, <2>1 DEF CodeInv, CodeTypes, Held, CodeUsedOnce, OtpAt
<1>7. CASE WindowPasses \/ CountersLost \/ UNCHANGED otpVars
  <2>1. UNCHANGED <<otpPc, codes, code, signIns, doubted>>
    BY <1>7 DEF WindowPasses, CountersLost, otpVars, verifyVars
  <2>2. QED
    BY <1>t, <2>1 DEF CodeInv, CodeTypes, Held, CodeUsedOnce, OtpAt
<1>8. QED
  BY <1>1, <1>2, <1>3, <1>4, <1>5, <1>6, <1>7 DEF OtpNext, Requests

(***************************************************************************)
(* A code signs in once at most and is used up by it, for any processes    *)
(* and codes, unless two verifications held it or its use was rolled back. *)
(***************************************************************************)
THEOREM CodesSignInOnce == Spec => []CodeUsedOnce
<1>1. Init => CodeInv
  BY CodeInitial DEF Init
<1>2. CodeInv => CodeUsedOnce
  BY DEF CodeInv
<1>3. QED
  BY <1>1, <1>2, CodePreserved, PTL DEF Spec

----------------------------------------------------------------------------
(* The types of the rest: each send that is counted, or is about to be,    *)
(* has a code of its own.                                                  *)

Sent == {c \in Codes : codes[c] # "unsent"}
Registering == {w \in Requesters : OtpAt(w, "register")}

Counts ==
    /\ IsFiniteSet(Registering)
    /\ sends + Cardinality(Registering) <= Cardinality(Sent)
    /\ issued <= Cardinality(Sent)
    /\ recent \in Nat /\ recent <= Cardinality(Sent)

SignTypes ==
    /\ attempts \in 0..MaxAttempts
    /\ account \in BOOLEAN
    /\ knew \in [Requesters -> BOOLEAN]
    /\ signIns \in [Codes -> 0..2]
    /\ doubted \in SUBSET Codes

LEMMA SentFacts ==
  ASSUME NEW S, S \subseteq Codes
  PROVE  IsFiniteSet(S) /\ Cardinality(S) \in 0..MaxCodes
<1>1. MaxCodes \in Nat
  BY OtpAssumption
<1>2. IsFiniteSet(Codes) /\ Cardinality(Codes) = MaxCodes
  <2>1. 1 \in Int /\ MaxCodes \in Int
    BY <1>1
  <2>2. QED
    BY <1>1, <2>1, FS_Interval DEF Codes
<1>3. IsFiniteSet(S) /\ Cardinality(S) <= MaxCodes
  BY <1>2, FS_Subset
<1>4. Cardinality(S) \in Nat
  BY <1>3, FS_CardinalityType
<1>5. QED
  BY <1>1, <1>3, <1>4

(* No code is taken back, and no more sends are counted or under way.      *)
LEMMA NoMoreSends ==
  ASSUME SendTypes, Counts, Registering' \subseteq Registering, Sent \subseteq Sent',
         sends' \in Nat, sends' <= sends, issued' \in Nat, issued' <= issued,
         recent' \in Nat, recent' <= recent
  PROVE  Counts'
<1>1. Sent' \subseteq Codes
  BY DEF Sent, Codes
<1>2. IsFiniteSet(Sent') /\ Cardinality(Sent) <= Cardinality(Sent') /\ Cardinality(Sent') \in Nat
  <2>1. IsFiniteSet(Sent') /\ Cardinality(Sent') \in Nat
    BY <1>1, SentFacts
  <2>2. QED
    BY <2>1, FS_Subset
<1>3. /\ IsFiniteSet(Registering') /\ Cardinality(Registering') <= Cardinality(Registering)
      /\ Cardinality(Registering') \in Nat /\ Cardinality(Registering) \in Nat
  <2>1. IsFiniteSet(Registering)
    BY DEF Counts
  <2>2. QED
    BY <2>1, FS_Subset, FS_CardinalityType
<1>4. Cardinality(Sent) \in Nat
  <2>1. Sent \subseteq Codes
    BY DEF Sent
  <2>2. QED
    BY <2>1, SentFacts
<1>5. sends \in Nat /\ issued \in Nat
  BY DEF SendTypes
<1>6. QED
  BY <1>2, <1>3, <1>4, <1>5 DEF Counts

LEMMA Leaves ==
  ASSUME SendTypes, NEW w \in Requesters, NEW p, p # "register",
         otpPc' = [otpPc EXCEPT ![w] = p]
  PROVE  Registering' \subseteq Registering
BY DEF SendTypes, Registering, OtpAt

LEMMA CountsPreserved == SendInv /\ SendInv' /\ CodeInv /\ CodeInv' /\ Counts /\ [Next]_vars => Counts'
<1> SUFFICES ASSUME SendInv, SendInv', CodeInv, CodeInv', Counts, OtpNext \/ UNCHANGED otpVars
             PROVE  Counts'
  BY OtpFrame
<1>t. /\ SendTypes /\ SendTypes'
      /\ codes \in [Codes -> {"unsent", "fresh", "used", "expired"}]
      /\ codes' \in [Codes -> {"unsent", "fresh", "used", "expired"}]
      /\ sends \in Nat /\ sends' \in Nat /\ issued \in Nat /\ issued' \in Nat /\ recent \in Nat
  BY DEF SendInv, CodeInv, CodeTypes, SendTypes, Counts
<1>c. ASSUME NEW n \in Nat, Counted_issues(n) PROVE issued' <= n
  BY <1>c DEF Counted_issues
<1>s. UNCHANGED codes => Sent \subseteq Sent'
  BY DEF Sent
<1>0. CASE UNCHANGED otpVars
  <2>1. Registering' = Registering
    BY <1>0 DEF otpVars, Registering, OtpAt
  <2>2. UNCHANGED <<sends, issued, recent, codes>>
    BY <1>0 DEF otpVars
  <2>3. QED
    BY <1>t, <1>s, <2>1, <2>2, NoMoreSends
<1>1. ASSUME NEW w \in Requesters, send_otp(w) PROVE Counts'
  <2>1. UNCHANGED <<sends, recent, codes>> /\ Counted_issues(issued)
    BY <1>1 DEF send_otp
  <2>2. Registering' \subseteq Registering
    BY <1>1, <1>t, Leaves DEF send_otp, Step
  <2>3. QED
    BY <1>t, <1>s, <1>c, <2>1, <2>2, NoMoreSends
<1>2. ASSUME NEW w \in Requesters, send_store(w) PROVE Counts'
  <2>1. CASE UNCHANGED <<codes, recent, issued>> /\ Step(w, "store", "idle")
    <3>1. Registering' \subseteq Registering
      BY <1>t, <2>1, Leaves DEF Step
    <3>2. sends' = sends
      BY <1>2 DEF send_store
    <3>3. QED
      BY <1>t, <1>s, <2>1, <3>1, <3>2, NoMoreSends
  <2>2. CASE /\ Step(w, "store", "register")
             /\ \E c \in Codes : Next_code(c) /\ codes' = [codes EXCEPT ![c] = "fresh"]
             /\ recent' = recent + 1 /\ Counted_issues(issued + 1)
    <3>1. PICK c \in Codes : Next_code(c) /\ codes' = [codes EXCEPT ![c] = "fresh"]
      BY <2>2
    <3>2. c \notin Sent /\ Sent' = Sent \cup {c}
      BY <1>t, <3>1 DEF Next_code, Unsent, Sent
    <3>3. w \notin Registering /\ Registering' = Registering \cup {w}
      BY <1>t, <2>2 DEF Step, OtpAt, SendTypes, Registering
    <3>4. Cardinality(Sent') = Cardinality(Sent) + 1 /\ Cardinality(Sent) \in Nat
      <4>1. Sent \subseteq Codes
        BY DEF Sent
      <4>2. IsFiniteSet(Sent) /\ Cardinality(Sent) \in Nat
        BY <4>1, SentFacts
      <4>3. QED
        BY <3>2, <4>2, FS_AddElement
    <3>5. /\ IsFiniteSet(Registering') /\ Cardinality(Registering') = Cardinality(Registering) + 1
          /\ Cardinality(Registering) \in Nat
      <4>1. IsFiniteSet(Registering)
        BY DEF Counts
      <4>2. QED
        BY <3>3, <4>1, FS_AddElement, FS_CardinalityType
    <3>6. issued' <= issued + 1 /\ recent' = recent + 1 /\ sends' = sends
      BY <1>2, <1>t, <1>c, <2>2 DEF send_store
    <3>7. QED
      BY <1>t, <3>4, <3>5, <3>6 DEF Counts
  <2>3. QED
    BY <1>2, <2>1, <2>2 DEF send_store
<1>3. ASSUME NEW w \in Requesters, _register_send(w) PROVE Counts'
  <2>1. /\ UNCHANGED <<recent, codes>> /\ Counted_issues(issued)
        /\ sends' \in {sends, sends + 1}
        /\ otpPc[w] = "register"
        /\ otpPc' = [otpPc EXCEPT ![w] = "expire"] \/ otpPc' = [otpPc EXCEPT ![w] = "idle"]
    BY <1>3 DEF _register_send, Step, OtpAt
  <2>2. w \in Registering /\ Registering' = Registering \ {w}
    BY <1>t, <2>1 DEF SendTypes, Registering, OtpAt
  <2>3. /\ IsFiniteSet(Registering') /\ Cardinality(Registering') = Cardinality(Registering) - 1
        /\ Cardinality(Registering) \in Nat
    <3>1. IsFiniteSet(Registering)
      BY DEF Counts
    <3>2. QED
      BY <2>2, <3>1, FS_RemoveElement, FS_CardinalityType
  <2>4. Sent' = Sent
    BY <2>1 DEF Sent
  <2>5. Cardinality(Sent) \in Nat
    <3>1. Sent \subseteq Codes
      BY DEF Sent
    <3>2. QED
      BY <3>1, SentFacts
  <2>6. issued' <= issued
    BY <1>t, <1>c, <2>1
  <2>7. QED
    BY <1>t, <2>1, <2>3, <2>4, <2>5, <2>6 DEF Counts
<1>4. ASSUME NEW w \in Requesters, _register_expire(w) PROVE Counts'
  <2>1. UNCHANGED <<sends, recent, issued, codes>>
    BY <1>4 DEF _register_expire
  <2>2. Registering' \subseteq Registering
    BY <1>4, <1>t, Leaves DEF _register_expire, Step
  <2>3. QED
    BY <1>t, <1>s, <2>1, <2>2, NoMoreSends
<1>5. ASSUME NEW w \in Requesters,
             \/ verify_otp(w) \/ verify_select(w) \/ _bump_attempts(w)
             \/ verify_flush(w) \/ verify_persist(w) \/ verify_finish(w)
      PROVE  Counts'
  <2>1. UNCHANGED <<sends, recent, issued>>
    BY <1>5 DEF verify_otp, verify_select, _bump_attempts, verify_flush, verify_persist,
                verify_finish, countVars
  <2>2. Registering' \subseteq Registering
    BY <1>5, <1>t, Leaves DEF verify_otp, verify_select, _bump_attempts, verify_flush,
                              verify_persist, verify_finish, Step, Ends
  <2>3. codes' = codes \/ codes' = [codes EXCEPT ![code[w]] = "used"]
    BY <1>5 DEF verify_otp, verify_select, _bump_attempts, verify_flush, verify_persist,
                verify_finish
  <2>4. Sent \subseteq Sent'
    BY <1>t, <2>3 DEF Sent
  <2>5. QED
    BY <1>t, <2>1, <2>2, <2>4, NoMoreSends
<1>6. ASSUME NEW w \in Requesters, OtpDies(w) PROVE Counts'
  <2>1. UNCHANGED <<sends, recent, codes>> /\ Counted_issues(issued)
    BY <1>6 DEF OtpDies
  <2>2. Registering' \subseteq Registering
    BY <1>6, <1>t, Leaves DEF OtpDies, Ends
  <2>3. QED
    BY <1>t, <1>s, <1>c, <2>1, <2>2, NoMoreSends
<1>7. CASE CodeExpires
  <2>1. UNCHANGED <<sends, recent, issued, otpPc>>
    BY <1>7 DEF CodeExpires, countVars
  <2>2. Sent \subseteq Sent'
    BY <1>t, <1>7 DEF CodeExpires, Fresh, Sent
  <2>3. Registering' = Registering
    BY <2>1 DEF Registering, OtpAt
  <2>4. QED
    BY <1>t, <2>1, <2>2, <2>3, NoMoreSends
<1>8. CASE WindowPasses \/ CountersLost
  <2>1. /\ UNCHANGED <<codes, otpPc>> /\ sends' \in {sends, 0}
        /\ recent' \in {recent, 0} /\ (issued' = 0 \/ Counted_issues(issued))
    BY <1>8 DEF WindowPasses, CountersLost
  <2>2. Registering' = Registering
    BY <2>1 DEF Registering, OtpAt
  <2>3. issued' <= issued /\ sends' <= sends /\ recent' <= recent /\ recent' \in Nat
    BY <1>t, <1>c, <2>1
  <2>4. QED
    BY <1>t, <1>s, <2>1, <2>2, <2>3, NoMoreSends
<1>9. QED
  BY <1>0, <1>1, <1>2, <1>3, <1>4, <1>5, <1>6, <1>7, <1>8 DEF OtpNext, Requests

LEMMA SignTypesPreserved == CodeInv /\ SignTypes /\ [Next]_vars => SignTypes'
<1> SUFFICES ASSUME CodeInv, SignTypes, OtpNext \/ UNCHANGED otpVars PROVE SignTypes'
  BY OtpFrame
<1>a. 0 \in 0..MaxAttempts
  BY OtpAssumption
<1>r. ASSUME NEW w, _reset_attempts(w) PROVE attempts' \in 0..MaxAttempts
  BY <1>r, <1>a DEF _reset_attempts, SignTypes
<1>k. ASSUME NEW w, NEW b \in BOOLEAN, knew' = [knew EXCEPT ![w] = b]
      PROVE  knew' \in [Requesters -> BOOLEAN]
  BY <1>k DEF SignTypes
<1>e. ASSUME NEW w, Ends(w) PROVE knew' \in [Requesters -> BOOLEAN]
  BY <1>e, <1>k DEF Ends
<1>s. ASSUME NEW now \in [Codes -> 0..2], Sign_ins(now) PROVE signIns' \in [Codes -> 0..2]
  BY <1>s DEF Sign_ins
<1>u. SignTypes => (UNCHANGED <<attempts, account, knew, signIns, doubted>> => SignTypes')
  BY DEF SignTypes
<1>1. ASSUME NEW w \in Requesters, send_otp(w) \/ send_store(w) PROVE SignTypes'
  BY <1>1, <1>u DEF send_otp, send_store, verifyVars
<1>2. ASSUME NEW w \in Requesters, _register_send(w) \/ _register_expire(w) PROVE SignTypes'
  <2>1. attempts' \in 0..MaxAttempts
    BY <1>2, <1>r DEF _register_send, _register_expire, SignTypes
  <2>2. UNCHANGED <<account, knew, signIns, doubted>>
    BY <1>2 DEF _register_send, _register_expire
  <2>3. QED
    BY <2>1, <2>2 DEF SignTypes
<1>3. ASSUME NEW w \in Requesters, verify_otp(w) PROVE SignTypes'
  BY <1>3, <1>u DEF verify_otp, verifyVars
<1>4. ASSUME NEW w \in Requesters, verify_select(w) PROVE SignTypes'
  <2>1. knew' \in [Requesters -> BOOLEAN]
    <3>1. account \in BOOLEAN /\ knew \in [Requesters -> BOOLEAN]
      BY DEF SignTypes
    <3>2. Ends(w) \/ UNCHANGED knew \/ knew' = [knew EXCEPT ![w] = account]
      BY <1>4 DEF verify_select
    <3>3. QED
      BY <1>e, <1>k, <3>1, <3>2
  <2>2. doubted' \in SUBSET Codes
    BY <1>4 DEF verify_select, SignTypes
  <2>3. signIns' \in [Codes -> 0..2]
    BY <1>4, <1>s DEF verify_select, SignTypes
  <2>4. QED
    BY <1>4, <2>1, <2>2, <2>3 DEF verify_select, SignTypes
<1>5. ASSUME NEW w \in Requesters, _bump_attempts(w) PROVE SignTypes'
  <2>1. attempts' \in 0..MaxAttempts
    <3>1. attempts \in 0..MaxAttempts /\ MaxAttempts \in Nat
      BY OtpAssumption DEF SignTypes
    <3>2. attempts' = attempts \/ (attempts < MaxAttempts /\ attempts' = attempts + 1)
      BY <1>5 DEF _bump_attempts
    <3>3. QED
      BY <3>1, <3>2
  <2>2. UNCHANGED <<account, knew, signIns, doubted>>
    BY <1>5 DEF _bump_attempts
  <2>3. QED
    BY <2>1, <2>2 DEF SignTypes
<1>6. ASSUME NEW w \in Requesters, verify_flush(w) PROVE SignTypes'
  <2>1. knew' \in [Requesters -> BOOLEAN]
    BY <1>6, <1>e DEF verify_flush, SignTypes
  <2>2. UNCHANGED <<attempts, account, signIns, doubted>>
    BY <1>6 DEF verify_flush
  <2>3. QED
    BY <2>1, <2>2 DEF SignTypes
<1>7. ASSUME NEW w \in Requesters, verify_persist(w) PROVE SignTypes'
  <2>1. knew' \in [Requesters -> BOOLEAN]
    BY <1>7, <1>e DEF verify_persist, SignTypes
  <2>2. doubted' \in SUBSET Codes
    <3>1. code[w] \in Codes
      BY <1>7 DEF verify_persist, OtpAt, CodeInv, CodeTypes, Held, Holding
    <3>2. QED
      BY <1>7, <3>1 DEF verify_persist, SignTypes
  <2>3. signIns' \in [Codes -> 0..2]
    BY <1>7, <1>s DEF verify_persist, SignTypes
  <2>4. account' \in BOOLEAN
    BY <1>7 DEF verify_persist, SignTypes
  <2>5. attempts' = attempts
    BY <1>7 DEF verify_persist
  <2>6. QED
    BY <2>1, <2>2, <2>3, <2>4, <2>5 DEF SignTypes
<1>8. ASSUME NEW w \in Requesters, verify_finish(w) PROVE SignTypes'
  <2> DEFINE now == [signIns EXCEPT ![code[w]] = IF @ < 2 THEN @ + 1 ELSE @]
  <2>1. now \in [Codes -> 0..2]
    <3>1. signIns \in [Codes -> 0..2]
      BY DEF SignTypes
    <3>2. \A n \in 0..2 : (IF n < 2 THEN n + 1 ELSE n) \in 0..2
      OBVIOUS
    <3>3. QED
      BY <3>1, <3>2
  <2>2. Sign_ins(now) \/ UNCHANGED signIns
    BY <1>8 DEF verify_finish
  <2> HIDE DEF now
  <2>3. signIns' \in [Codes -> 0..2]
    BY <1>s, <2>1, <2>2 DEF SignTypes
  <2>4. knew' \in [Requesters -> BOOLEAN]
    BY <1>8, <1>e DEF verify_finish
  <2>5. attempts' \in 0..MaxAttempts
    BY <1>8, <1>r DEF verify_finish, SignTypes
  <2>6. UNCHANGED <<account, doubted>>
    BY <1>8 DEF verify_finish
  <2>7. QED
    BY <2>3, <2>4, <2>5, <2>6 DEF SignTypes
<1>9. ASSUME NEW w \in Requesters, OtpDies(w) PROVE SignTypes'
  <2>1. knew' \in [Requesters -> BOOLEAN]
    BY <1>9, <1>e DEF OtpDies
  <2>2. UNCHANGED <<attempts, account, signIns, doubted>>
    BY <1>9 DEF OtpDies
  <2>3. QED
    BY <2>1, <2>2 DEF SignTypes
<1>10. CASE CodeExpires \/ WindowPasses
  BY <1>10, <1>u DEF CodeExpires, WindowPasses, verifyVars
<1>11. CASE CountersLost
  BY <1>11, <1>a DEF CountersLost, SignTypes
<1>12. CASE UNCHANGED otpVars
  BY <1>12, <1>u DEF otpVars
<1>13. QED
  BY <1>1, <1>2, <1>3, <1>4, <1>5, <1>6, <1>7, <1>8, <1>9, <1>10, <1>11, <1>12
     DEF OtpNext, Requests

LEMMA OtpTyped == Spec => []OtpType
<1>1. Init => CodeInv /\ Counts /\ SignTypes
  <2> SUFFICES ASSUME OtpInit PROVE CodeInv /\ Counts /\ SignTypes
    BY DEF Init
  <2>1. CodeInv
    BY CodeInitial
  <2>2. Counts
    <3>1. Registering = {}
      BY DEF OtpInit, Registering, OtpAt
    <3>2. IsFiniteSet(Registering) /\ Cardinality(Registering) = 0
      BY <3>1, FS_EmptySet
    <3>3. Cardinality(Sent) \in Nat
      <4>1. Sent \subseteq Codes
        BY DEF Sent
      <4>2. QED
        BY <4>1, SentFacts
    <3>4. sends = 0 /\ issued = 0 /\ recent = 0
      BY DEF OtpInit
    <3>5. QED
      BY <3>2, <3>3, <3>4 DEF Counts
  <2>3. SignTypes
    <3>1. 0 \in 0..MaxAttempts /\ 0 \in 0..2
      BY OtpAssumption
    <3>2. account \in BOOLEAN /\ knew \in [Requesters -> BOOLEAN] /\ doubted \in SUBSET Codes
      BY DEF OtpInit
    <3>3. attempts = 0 /\ signIns = [c \in Codes |-> 0]
      BY DEF OtpInit
    <3>4. QED
      BY <3>1, <3>2, <3>3 DEF SignTypes
  <2>4. QED
    BY <2>1, <2>2, <2>3
<1>2. SendInv /\ CodeInv /\ Counts /\ SignTypes => OtpType
  <2> SUFFICES ASSUME SendInv, CodeInv, Counts, SignTypes PROVE OtpType
    OBVIOUS
  <2>1. Cardinality(Sent) \in 0..MaxCodes /\ MaxCodes \in Nat
    <3>1. Sent \subseteq Codes
      BY DEF Sent
    <3>2. QED
      BY <3>1, SentFacts, OtpAssumption
  <2>2. Cardinality(Registering) \in Nat
    BY FS_CardinalityType DEF Counts
  <2>3. sends \in 0..MaxCodes /\ issued \in 0..MaxCodes /\ recent \in 0..MaxCodes
    BY <2>1, <2>2 DEF SendInv, SendTypes, Counts
  <2>4. {sendsExpire, account, uneven, orphaned} \subseteq BOOLEAN
    BY DEF SendInv, SendTypes, SignTypes
  <2>5. QED
    BY <2>3, <2>4 DEF SendInv, SendTypes, CodeInv, CodeTypes, SignTypes, OtpType, Positions
<1>3. QED
  BY <1>1, <1>2, SendInvariant, CodePreserved, CountsPreserved, SignTypesPreserved, PTL DEF Spec

----------------------------------------------------------------------------
(* The limit on chat messages.                                             *)

LEMMA ChatFrame == [Next]_vars => ChatNext \/ UNCHANGED chatVars
BY DEF Next, vars, ServiceStep, HandleStep, Runs

ChatTypes ==
    /\ chatCount \in 0..Most /\ passed \in Nat
    /\ chatPc \in [Chats -> {"idle", "expire", "decide"}]
    /\ count \in [Chats -> 0..Most]

(* A message that holds a value of the counter within the limit, and will  *)
(* pass; the values so held.                                               *)
Passing(w) == chatPc[w] # "idle" /\ count[w] <= RATE_LIMIT_MESSAGES
PassingCounts == {k \in 1..RATE_LIMIT_MESSAGES : \E w \in Chats : Passing(w) /\ count[w] = k}

(* What passed and what will pass take values of the counter, each one of  *)
(* its own; and a counter without a TTL is about to be given it, unless    *)
(* that went wrong.                                                        *)
Room ==
    /\ passed + Cardinality(PassingCounts) <= RATE_LIMIT_MESSAGES
    /\ passed + Cardinality(PassingCounts) <= chatCount
Fair ==
    /\ \A w \in Chats : chatPc[w] # "idle" => count[w] \in 1..chatCount
    /\ \A w \in Chats : chatPc[w] = "expire" => count[w] = 1
    /\ \A v, w \in Chats : Passing(v) /\ Passing(w) /\ count[v] = count[w] => v = w
    /\ Room
Lasting == chatCount > 0 /\ ~chatExpires => stuck \/ \E w \in Chats : chatPc[w] = "expire"

ChatInv == ChatTypes /\ Fair /\ Lasting

LEMMA LimitFacts == RATE_LIMIT_MESSAGES \in Nat \ {0} /\ Most = RATE_LIMIT_MESSAGES + 2
BY ChatAssumption DEF Most

LEMMA PassingFinite ==
  /\ IsFiniteSet(PassingCounts) /\ Cardinality(PassingCounts) \in Nat
  /\ PassingCounts \subseteq 1..RATE_LIMIT_MESSAGES
<1>1. PassingCounts \in SUBSET (1..RATE_LIMIT_MESSAGES)
  BY DEF PassingCounts
<1>2. IsFiniteSet(1..RATE_LIMIT_MESSAGES)
  BY FS_Interval, LimitFacts
<1>3. QED
  BY <1>1, <1>2, FS_Subset, FS_CardinalityType

LEMMA PassingFiniteNext ==
  ASSUME TRUE PROVE IsFiniteSet(PassingCounts') /\ Cardinality(PassingCounts') \in Nat
<1>1. PassingCounts' \in SUBSET (1..RATE_LIMIT_MESSAGES)
  BY DEF PassingCounts
<1>2. IsFiniteSet(1..RATE_LIMIT_MESSAGES)
  BY FS_Interval, LimitFacts
<1>3. QED
  BY <1>1, <1>2, FS_Subset, FS_CardinalityType

LEMMA ChatInitial == ChatInit => ChatInv
<1> SUFFICES ASSUME ChatInit PROVE ChatInv
  OBVIOUS
<1>1. ChatTypes
  BY LimitFacts DEF ChatInit, ChatTypes
<1>2. PassingCounts = {}
  BY DEF ChatInit, PassingCounts, Passing
<1>3. Cardinality(PassingCounts) = 0
  BY <1>2, FS_EmptySet
<1>4. Fair
  BY <1>3, LimitFacts DEF ChatInit, Fair, Room, Passing
<1>5. QED
  BY <1>1, <1>4 DEF ChatInit, ChatInv, Lasting

(* A step of one message.                                                  *)
LEMMA CountedFacts ==
  ASSUME ChatTypes, NEW w \in Chats, NEW point \in {"idle", "expire", "decide"},
         NEW n \in 0..Most, Counted(w, point, n)
  PROVE  /\ chatPc' \in [Chats -> {"idle", "expire", "decide"}] /\ count' \in [Chats -> 0..Most]
         /\ chatPc'[w] = point /\ count'[w] = n
         /\ \A v \in Chats \ {w} : chatPc'[v] = chatPc[v] /\ count'[v] = count[v]
BY DEF Counted, ChatTypes

(* A message that ends gives back the value it held.                       *)
LEMMA GivenBack ==
  ASSUME ChatInv, NEW w \in Chats, chatPc[w] # "idle", Counted(w, "idle", 0)
  PROVE  PassingCounts' = IF count[w] <= RATE_LIMIT_MESSAGES THEN PassingCounts \ {count[w]}
                                                          ELSE PassingCounts
<1> USE DEF ChatInv, Fair
<1>1. /\ chatPc'[w] = "idle"
      /\ \A v \in Chats \ {w} : chatPc'[v] = chatPc[v] /\ count'[v] = count[v]
  BY CountedFacts, LimitFacts
<1>2. \A v \in Chats : Passing(v)' <=> v # w /\ Passing(v)
  BY <1>1 DEF Passing
<1>3. \A k \in 1..RATE_LIMIT_MESSAGES :
         (\E v \in Chats : Passing(v)' /\ count'[v] = k)
           <=> \E v \in Chats \ {w} : Passing(v) /\ count[v] = k
  BY <1>1, <1>2
<1>4. PassingCounts' = {k \in 1..RATE_LIMIT_MESSAGES :
                         \E v \in Chats \ {w} : Passing(v) /\ count[v] = k}
  BY <1>3 DEF PassingCounts
<1>5. CASE count[w] <= RATE_LIMIT_MESSAGES
  <2>1. Passing(w)
    BY <1>5 DEF Passing
  <2>2. \A v \in Chats \ {w} : Passing(v) => count[v] # count[w]
    BY <2>1
  <2>3. QED
    BY <1>4, <1>5, <2>1, <2>2 DEF PassingCounts
<1>6. CASE ~(count[w] <= RATE_LIMIT_MESSAGES)
  BY <1>4, <1>6 DEF PassingCounts, Passing
<1>7. QED
  BY <1>5, <1>6

LEMMA ChatPreserved == ChatInv /\ [Next]_vars => ChatInv'
<1> SUFFICES ASSUME ChatInv, ChatNext \/ UNCHANGED chatVars PROVE ChatInv'
  BY ChatFrame
<1> USE LimitFacts, PassingFinite, PassingFiniteNext
<1>t. ChatTypes
  BY DEF ChatInv
<1>n. ASSUME NEW w \in Chats PROVE count[w] \in 0..Most /\ chatPc[w] \in {"idle", "expire", "decide"}
  BY <1>t DEF ChatTypes
<1>1. ASSUME NEW w \in Chats, _check_rate_limit(w) PROVE ChatInv'
  <2> DEFINE new == IF chatCount < Most THEN chatCount + 1 ELSE Most
             point == IF chatCount = 0 THEN "expire" ELSE "decide"
  <2>1. /\ chatPc[w] = "idle" /\ chatCount' = new /\ Counted(w, point, new)
        /\ UNCHANGED <<chatExpires, passed, stuck>>
    BY <1>1 DEF _check_rate_limit, OneMore
  <2>2. new \in 1..Most /\ chatCount \in 0..Most /\ chatCount <= new
        /\ point \in {"idle", "expire", "decide"} /\ point # "idle"
        /\ passed \in Nat
    BY <1>t DEF ChatTypes
  <2>3. /\ chatPc' \in [Chats -> {"idle", "expire", "decide"}] /\ count' \in [Chats -> 0..Most]
        /\ chatPc'[w] = point /\ count'[w] = new
        /\ \A v \in Chats \ {w} : chatPc'[v] = chatPc[v] /\ count'[v] = count[v]
    BY <1>t, <2>1, <2>2, CountedFacts
  <2>4. ChatTypes'
    BY <1>t, <2>1, <2>2, <2>3 DEF ChatTypes
  <2>5. Fair'
    <3>1. \A v \in Chats : chatPc[v] # "idle" => count[v] \in 1..chatCount
      BY DEF ChatInv, Fair
    <3>2. new <= RATE_LIMIT_MESSAGES =>
            new = chatCount + 1 /\ \A v \in Chats : chatPc[v] # "idle" => count[v] < new
      BY <1>n, <2>2, <3>1
    <3>3. \A v \in Chats : chatPc'[v] # "idle" => count'[v] \in 1..new
      BY <1>n, <2>2, <2>3, <3>1
    <3>e. \A v \in Chats : chatPc'[v] = "expire" => count'[v] = 1
      BY <2>3 DEF ChatInv, Fair
    <3>4. \A u, v \in Chats : Passing(u)' /\ Passing(v)' /\ count'[u] = count'[v] => u = v
      <4> SUFFICES ASSUME NEW u \in Chats, NEW v \in Chats,
                          Passing(u)', Passing(v)', count'[u] = count'[v], u # v
                   PROVE  FALSE
        OBVIOUS
      <4>1. CASE u # w /\ v # w
        BY <4>1, <2>3 DEF Passing, ChatInv, Fair
      <4>2. CASE u = w
        BY <4>2, <2>3, <3>2, <1>n DEF Passing
      <4>3. CASE v = w
        BY <4>3, <2>3, <3>2, <1>n DEF Passing
      <4>4. QED
        BY <4>1, <4>2, <4>3
    <3>5. \A v \in Chats \ {w} : Passing(v)' <=> Passing(v)
      BY <2>3 DEF Passing
    <3>6. ~Passing(w) /\ (Passing(w)' <=> new <= RATE_LIMIT_MESSAGES)
      BY <2>1, <2>2, <2>3 DEF Passing
    <3>7. Room'
      <4>0. passed + Cardinality(PassingCounts) <= chatCount
        BY DEF ChatInv, Fair, Room
      <4>1. CASE new <= RATE_LIMIT_MESSAGES
        <5>1. PassingCounts' = PassingCounts \cup {new}
          BY <4>1, <2>2, <2>3, <3>5, <3>6 DEF PassingCounts
        <5>2. Cardinality(PassingCounts') <= Cardinality(PassingCounts) + 1
          BY <5>1, FS_AddElement
        <5>3. QED
          BY <4>0, <4>1, <5>2, <2>1, <2>2, <3>2 DEF Room
      <4>2. CASE ~(new <= RATE_LIMIT_MESSAGES)
        <5>1. PassingCounts' = PassingCounts
          BY <4>2, <2>2, <2>3, <3>5, <3>6 DEF PassingCounts
        <5>2. QED
          BY <4>0, <5>1, <2>1, <2>2 DEF ChatInv, Fair, Room
      <4>3. QED
        BY <4>1, <4>2
    <3>8. QED
      BY <3>3, <3>e, <3>4, <3>7, <2>1 DEF Fair
  <2>6. Lasting'
    <3>1. CASE chatCount = 0
      BY <3>1, <2>3 DEF Lasting
    <3>2. CASE chatCount # 0 /\ ~chatExpires /\ ~stuck
      <4>1. PICK v \in Chats : chatPc[v] = "expire"
        BY <3>2, <2>2 DEF ChatInv, Lasting
      <4>2. v # w
        BY <4>1, <2>1
      <4>3. QED
        BY <4>1, <4>2, <2>3 DEF Lasting
    <3>3. QED
      BY <3>1, <3>2, <2>1 DEF Lasting
  <2>7. QED
    BY <2>4, <2>5, <2>6 DEF ChatInv
<1>2. ASSUME NEW w \in Chats, limit_expire(w), Answered(w) PROVE ChatInv'
  <2>1. /\ chatPc[w] = "expire" /\ Counted(w, "decide", count[w])
        /\ chatExpires' = (chatExpires \/ chatCount > 0)
        /\ UNCHANGED <<chatCount, passed, stuck>>
    BY <1>2 DEF limit_expire
  <2>2. /\ chatPc' \in [Chats -> {"idle", "expire", "decide"}] /\ count' \in [Chats -> 0..Most]
        /\ chatPc'[w] = "decide" /\ count'[w] = count[w]
        /\ \A v \in Chats \ {w} : chatPc'[v] = chatPc[v] /\ count'[v] = count[v]
    BY <1>t, <1>n, <2>1, CountedFacts
  <2>3. ChatTypes'
    BY <1>t, <2>1, <2>2 DEF ChatTypes
  <2>4. \A v \in Chats : /\ count'[v] = count[v] /\ (Passing(v)' <=> Passing(v))
                         /\ chatPc'[v] = "idle" <=> chatPc[v] = "idle"
                         /\ chatPc'[v] = "expire" => chatPc[v] = "expire"
    BY <2>1, <2>2 DEF Passing
  <2>5. PassingCounts' = PassingCounts
    BY <2>4 DEF PassingCounts
  <2>6. Fair'
    BY <2>1, <2>4, <2>5 DEF ChatInv, Fair, Room
  <2>7. Lasting'
    BY <2>1, <1>t DEF Lasting, ChatTypes
  <2>8. QED
    BY <2>3, <2>6, <2>7 DEF ChatInv
<1>3. ASSUME NEW w \in Chats, \/ limit_decide(w) \/ ChatDies(w)
                              \/ limit_expire(w) /\ ~Answered(w)
                              \/ limit_lost(w) /\ chatPc[w] = "expire"
      PROVE ChatInv'
  <2>1. /\ chatPc[w] # "idle" /\ Counted(w, "idle", 0)
        /\ chatCount' = chatCount
        /\ passed' \in Nat
        /\ \/ chatExpires' = chatExpires /\ (~stuck' => ~stuck /\ chatPc[w] = "decide")
           \/ chatCount > 0 => chatExpires'
        /\ passed' # passed => passed' = passed + 1 /\ count[w] <= RATE_LIMIT_MESSAGES
    <3>1. CASE limit_decide(w)
      BY <3>1, <1>t DEF limit_decide, ChatTypes
    <3>2. CASE ChatDies(w)
      BY <3>2, <1>n, <1>t DEF ChatDies, ChatTypes
    <3>3. CASE limit_expire(w) /\ ~Answered(w)
      <4>1. count[w] <= RATE_LIMIT_MESSAGES /\ passed <= RATE_LIMIT_MESSAGES
        BY <3>3, <1>t DEF limit_expire, ChatInv, Fair, Room, ChatTypes
      <4>2. QED
        BY <3>3, <4>1, <1>t DEF limit_expire, OneMore, ChatTypes
    <3>4. CASE limit_lost(w) /\ chatPc[w] = "expire"
      <4>1. count[w] <= RATE_LIMIT_MESSAGES /\ passed <= RATE_LIMIT_MESSAGES
        BY <3>4, <1>t DEF ChatInv, Fair, Room, ChatTypes
      <4>2. /\ passed' = OneMore(passed) /\ Counted(w, "idle", 0) /\ chatCount' = chatCount
            /\ chatCount > 0 => chatExpires'
        BY <3>4 DEF limit_lost
      <4>3. passed' = passed + 1 /\ passed' \in Nat
        BY <4>1, <4>2, <1>t DEF OneMore, ChatTypes
      <4>4. QED
        BY <3>4, <4>1, <4>2, <4>3
    <3>5. QED
      BY <3>1, <3>2, <3>3, <3>4, <1>3
  <2>2. /\ chatPc' \in [Chats -> {"idle", "expire", "decide"}] /\ count' \in [Chats -> 0..Most]
        /\ chatPc'[w] = "idle"
        /\ \A v \in Chats \ {w} : chatPc'[v] = chatPc[v] /\ count'[v] = count[v]
    BY <1>t, <2>1, CountedFacts
  <2>3. ChatTypes'
    BY <1>t, <2>1, <2>2 DEF ChatTypes
  <2>4. \A v \in Chats : chatPc'[v] # "idle" =>
           v # w /\ chatPc'[v] = chatPc[v] /\ count'[v] = count[v]
    BY <2>2
  <2>5. \A v \in Chats : Passing(v)' => Passing(v) /\ count'[v] = count[v]
    BY <2>4 DEF Passing
  <2>6. Room'
    <3>1. passed + Cardinality(PassingCounts) <= RATE_LIMIT_MESSAGES
          /\ passed + Cardinality(PassingCounts) <= chatCount
      BY DEF ChatInv, Fair, Room
    <3>2. count[w] \in 1..chatCount
      BY <2>1 DEF ChatInv, Fair
    <3>3. CASE count[w] <= RATE_LIMIT_MESSAGES
      <4>1. PassingCounts' = PassingCounts \ {count[w]}
        BY <3>3, <2>1, GivenBack
      <4>2. Passing(w) /\ count[w] \in 1..RATE_LIMIT_MESSAGES
        BY <3>2, <3>3, <2>1, <1>t DEF Passing, ChatTypes
      <4>3. count[w] \in PassingCounts
        BY <4>2 DEF PassingCounts
      <4>4. Cardinality(PassingCounts') = Cardinality(PassingCounts) - 1
        BY <4>1, <4>3, FS_RemoveElement
      <4>5. QED
        BY <3>1, <4>4, <2>1, <1>t DEF Room, ChatTypes
    <3>4. CASE ~(count[w] <= RATE_LIMIT_MESSAGES)
      <4>1. PassingCounts' = PassingCounts
        BY <3>4, <2>1, GivenBack
      <4>2. QED
        BY <3>1, <3>4, <4>1, <2>1 DEF Room
    <3>5. QED
      BY <3>3, <3>4
  <2>7. Fair'
    BY <2>1, <2>4, <2>5, <2>6 DEF ChatInv, Fair
  <2>8. Lasting'
    <3> SUFFICES ASSUME chatCount > 0, ~chatExpires', ~stuck'
                 PROVE  \E v \in Chats : chatPc'[v] = "expire"
      BY <2>1 DEF Lasting
    <3>1. PICK v \in Chats : chatPc[v] = "expire"
      BY <2>1 DEF ChatInv, Lasting
    <3>2. v # w
      BY <3>1, <2>1
    <3>3. QED
      BY <3>1, <3>2, <2>2
  <2>9. QED
    BY <2>3, <2>7, <2>8 DEF ChatInv
<1>4. CASE MinutePasses
  <2>1. /\ chatCount' = 0 /\ chatExpires' = FALSE /\ passed' = 0
        /\ UNCHANGED <<chatPc, count, stuck>> /\ \A w \in Chats : chatPc[w] = "idle"
    BY <1>4 DEF MinutePasses
  <2>2. ChatTypes'
    BY <2>1, <1>t DEF ChatTypes
  <2>3. PassingCounts' = {}
    BY <2>1 DEF PassingCounts, Passing
  <2>4. Cardinality(PassingCounts') = 0
    BY <2>3, FS_EmptySet
  <2>5. Fair' /\ Lasting'
    BY <2>1, <2>4 DEF Fair, Room, Passing, Lasting
  <2>6. QED
    BY <2>2, <2>5 DEF ChatInv
<1>5. CASE UNCHANGED chatVars
  <2>1. UNCHANGED <<chatCount, chatExpires, chatPc, count, passed, stuck>>
    BY <1>5 DEF chatVars
  <2>2. ChatTypes' /\ PassingCounts' = PassingCounts /\ \A w \in Chats : Passing(w)' <=> Passing(w)
    BY <2>1, <1>t DEF ChatTypes, PassingCounts, Passing
  <2>3. Fair' /\ Lasting'
    BY <2>1, <2>2 DEF ChatInv, Fair, Room, Lasting
  <2>4. QED
    BY <2>2, <2>3 DEF ChatInv
<1>6. ASSUME NEW w \in Chats, limit_lost(w), chatPc[w] = "idle" PROVE ChatInv'
  <2>1. /\ chatCount' = OneMore(chatCount) /\ (~stuck' => ~stuck /\ chatCount # 0)
        /\ UNCHANGED <<chatExpires, chatPc, count, passed>>
    BY <1>6 DEF limit_lost
  <2>2. chatCount \in 0..Most /\ chatCount' \in 0..Most /\ chatCount <= chatCount'
    BY <1>t, <2>1 DEF ChatTypes, OneMore
  <2>3. ChatTypes' /\ PassingCounts' = PassingCounts /\ \A v \in Chats : Passing(v)' <=> Passing(v)
    BY <1>t, <2>1, <2>2 DEF ChatTypes, PassingCounts, Passing
  <2>4. Room'
    BY <1>t, <2>1, <2>2, <2>3 DEF ChatInv, Fair, Room, ChatTypes
  <2>5. \A v \in Chats : chatPc[v] # "idle" => count[v] \in 1..chatCount'
    BY <1>n, <2>2 DEF ChatInv, Fair
  <2>6. Fair'
    BY <2>1, <2>3, <2>4, <2>5 DEF ChatInv, Fair
  <2>7. Lasting'
    BY <2>1, <2>2 DEF ChatInv, Lasting
  <2>8. QED
    BY <2>3, <2>6, <2>7 DEF ChatInv
<1>7. ASSUME NEW w \in Chats, limit_lost(w) PROVE ChatInv'
  BY <1>3, <1>6, <1>7 DEF limit_lost
<1>8. QED
  BY <1>1, <1>2, <1>3, <1>4, <1>5, <1>7 DEF ChatNext

LEMMA ChatInvariant == Spec => []ChatInv
<1>1. Init => ChatInv
  BY ChatInitial DEF Init
<1>2. QED
  BY <1>1, ChatPreserved, PTL DEF Spec

(***************************************************************************)
(* No more of the chat messages that are told their count pass in a minute *)
(* than the limit, however many processes count them, die, or lose Redis   *)
(* or its replies meanwhile; and the counter goes with its minute, unless  *)
(* a process died, or the reply or Redis was lost, between INCR and        *)
(* EXPIRE.  A message that is not told its count passes, as the code means *)
(* it to.                                                                  *)
(***************************************************************************)
THEOREM ChatLimited == Spec => []ChatLimitHolds
<1>1. ChatInv => ChatLimitHolds
  <2> SUFFICES ASSUME ChatInv PROVE ChatLimitHolds
    OBVIOUS
  <2>1. passed <= RATE_LIMIT_MESSAGES
    BY PassingFinite, LimitFacts DEF ChatInv, Fair, Room, ChatTypes
  <2>2. ~stuck /\ chatCount > RATE_LIMIT_MESSAGES /\ (\A w \in Chats : chatPc[w] = "idle")
          => chatExpires
    BY LimitFacts DEF ChatInv, Lasting, ChatTypes
  <2>3. QED
    BY <2>1, <2>2 DEF ChatLimitHolds
<1>2. QED
  BY <1>1, ChatInvariant, PTL

(* The types of the rest.                                                  *)
LEMMA ChatTyped == Spec => []ChatType
<1> DEFINE Others == /\ chatExpires \in BOOLEAN /\ stuck \in BOOLEAN
                   /\ chatDeaths \in 0..MaxDeaths
<1>1. Init => Others
  <2>1. 0 \in 0..MaxDeaths
    BY ChatAssumption
  <2>2. Init => chatExpires \in BOOLEAN /\ stuck \in BOOLEAN /\ chatDeaths = 0
    BY DEF Init, ChatInit
  <2>3. QED
    BY <2>1, <2>2
<1>2. Others /\ [Next]_vars => Others'
  <2> SUFFICES ASSUME Others, ChatNext \/ UNCHANGED chatVars PROVE Others'
    BY ChatFrame
  <2>1. ASSUME NEW w \in Chats, _check_rate_limit(w) \/ limit_decide(w) PROVE Others'
    BY <2>1 DEF _check_rate_limit, limit_decide
  <2>2. ASSUME NEW w \in Chats, limit_expire(w) \/ limit_lost(w) PROVE Others'
    BY <2>2 DEF limit_expire, limit_lost
  <2>3. ASSUME NEW w \in Chats, ChatDies(w) PROVE Others'
    BY <2>3, ChatAssumption DEF ChatDies
  <2>4. CASE MinutePasses
    BY <2>4 DEF MinutePasses
  <2>5. CASE UNCHANGED chatVars
    BY <2>5 DEF chatVars
  <2>6. QED
    BY <2>1, <2>2, <2>3, <2>4, <2>5 DEF ChatNext
<1>3. ChatInv /\ Others => ChatType
  <2> SUFFICES ASSUME ChatInv, Others PROVE ChatType
    OBVIOUS
  <2>1. passed \in 0..Most
    BY PassingFinite, LimitFacts DEF ChatInv, ChatTypes, Fair, Room
  <2>2. QED
    BY <2>1 DEF ChatType, ChatInv, ChatTypes
<1>4. QED
  BY <1>1, <1>2, <1>3, ChatInvariant, PTL DEF Spec
=============================================================================
