--------------------------- MODULE IvrTurnsProofs ---------------------------
(***************************************************************************)
(* Theorems about IvrTurns, for any number of turns and of retries.        *)
(***************************************************************************)
EXTENDS IvrTurns, TLAPS

(* A request waits for its next round only while there is one left.        *)
RoundLeft == \A t \in Turns : client[t] = "backoff" => round[t] < MAX_RETRIES

(* The server has an answer once it has acted on the turn.                 *)
AnswerKnown ==
  \A a \in live : a.at \in {"applied", "stored", "replying"} => a.answer \in States

Typed == TypeOK /\ RoundLeft /\ AnswerKnown

(* Where a turn leads is a state of the menu.                              *)
LEMMA MenuStates ==
  ASSUME NEW s \in States, NEW k \in Kinds \cup {"#"}
  PROVE  Effect(k, s).state \in States
<1>1. k \in {"voice"} \cup Keys
  BY KindsAssumption DEF Keys
<1>2. CASE k = "voice"
  BY <1>2 DEF Effect, Transition, States
<1>3. CASE k # "voice"
  <2>1. Effect(k, s).state = next_state(s, k).state
    BY <1>3 DEF Effect
  <2>2. CASE s = "language"
    BY <2>1, <2>2 DEF next_state, Transition, main_menu, States
  <2>3. CASE s = "menu"
    BY <2>1, <2>3 DEF next_state, Menu, Ask, Transition, main_menu, States
  <2>4. CASE s = "sos_confirm"
    BY <2>1, <2>4 DEF next_state, SosConfirm, Transition, main_menu, States
  <2>5. CASE s = "speech"
    BY <2>1, <2>5 DEF next_state, Transition, main_menu, States
  <2>6. CASE s = "ended"
    BY <2>1, <2>6 DEF next_state, start, Transition, main_menu, States
  <2>7. QED
    BY <2>2, <2>3, <2>4, <2>5, <2>6 DEF States
<1>4. QED
  BY <1>2, <1>3

(* The three ways a step changes what is under way, or the screen.         *)
LEMMA SendTypes ==
  ASSUME live \subseteq Attempt, NEW t \in Turns, NEW n \in 0..MAX_RETRIES, Send(t, n)
  PROVE  live' \subseteq Attempt
BY DEF Send, Attempt

LEMMA MoveTypes ==
  ASSUME live \subseteq Attempt, NEW a \in live,
         NEW step \in {"sent", "checked", "applied", "stored", "replying"},
         NEW answer \in States \cup {"none"}, Move(a, step, answer)
  PROVE  live' \subseteq Attempt
BY DEF Move, Attempt

LEMMA PresentTypes ==
  ASSUME screen \in Screen, NEW t \in Turns, NEW s \in States, NEW g \in BOOLEAN,
         Present(t, s, g)
  PROVE  screen' \in Screen
BY DEF Present, Screen

(* Typed is inductive; its last part is AnswerStep.                        *)
LEMMA TypeStep == Typed /\ [Next]_vars => TypeOK' /\ RoundLeft'
<1> SUFFICES ASSUME Typed, [Next]_vars PROVE TypeOK' /\ RoundLeft'
  OBVIOUS
<1> USE RetriesAssumption, MaxTurnsAssumption
    DEF Typed, TypeOK, RoundLeft, Turns, appVars, serverVars, historyVars
<1>m. \A k : Mock(k) \in States
  BY DEF Mock, States
<1>1. ASSUME NEW k \in Kinds, Begin(k) PROVE TypeOK' /\ RoundLeft'
  <2>1. turns + 1 \in Turns /\ 0 \in 0..MAX_RETRIES
    BY <1>1 DEF Begin
  <2>2. live' \subseteq Attempt
    BY <1>1, <2>1, SendTypes DEF Begin
  <2>3. QED
    BY <1>1, <2>1, <2>2 DEF Begin
<1>2. CASE Unheard
  BY <1>2 DEF Unheard
<1>3. ASSUME NEW t \in Turns, NoReply(t) PROVE TypeOK' /\ RoundLeft'
  <2>1. screen' \in Screen
    BY <1>3, <1>m, PresentTypes DEF NoReply
  <2>2. QED
    BY <1>3, <2>1 DEF NoReply
<1>4. ASSUME NEW t \in Turns, Retry(t) PROVE TypeOK' /\ RoundLeft'
  <2>1. round[t] + 1 \in 0..MAX_RETRIES
    BY <1>4 DEF Retry
  <2>2. live' \subseteq Attempt
    BY <1>4, <2>1, SendTypes DEF Retry
  <2>3. QED
    BY <1>4, <2>1, <2>2 DEF Retry
<1>5. ASSUME NEW t \in Turns, Forget(t) PROVE TypeOK' /\ RoundLeft'
  BY <1>5 DEF Forget
<1>a. \A a \in live : a.turn \in Turns /\ a.answer \in States \cup {"none"}
  BY DEF Attempt
<1>6. ASSUME NEW a \in live, Check(a) PROVE TypeOK' /\ RoundLeft'
  <2>1. live' \subseteq Attempt
    BY <1>6, <1>a, MoveTypes DEF Check
  <2>2. QED
    BY <1>6, <1>a, <2>1 DEF Check
<1>7. ASSUME NEW a \in live, Apply(a) PROVE TypeOK' /\ RoundLeft'
  <2>1. Effect(kind[a.turn], menu).state \in States
    BY <1>a, MenuStates
  <2>2. live' \subseteq Attempt
    BY <1>7, <2>1, MoveTypes DEF Apply
  <2>3. applied' \in [Turns -> Nat]
    BY <1>7, <1>a DEF Apply
  <2>4. raised' \subseteq Turns
    <3>1. raised' = raised \/ raised' = raised \cup {a.turn}
      BY <1>7 DEF Apply
    <3>2. QED
      BY <3>1, <1>a
  <2>5. QED
    BY <1>7, <2>2, <2>3, <2>4 DEF Apply
<1>8. ASSUME NEW a \in live, Store(a) PROVE TypeOK' /\ RoundLeft'
  <2>1. a.answer \in States
    BY <1>8 DEF Store, AnswerKnown
  <2>2. live' \subseteq Attempt
    BY <1>8, <2>1, MoveTypes DEF Store
  <2>3. QED
    BY <1>8, <2>1, <2>2 DEF Store, Stored
<1>9. ASSUME NEW a \in live, Remember(a) PROVE TypeOK' /\ RoundLeft'
  <2>1. a.answer \in States
    BY <1>9 DEF Remember, AnswerKnown
  <2>2. live' \subseteq Attempt
    BY <1>9, <2>1, MoveTypes DEF Remember
  <2>3. QED
    BY <1>9, <1>a, <2>1, <2>2 DEF Remember
<1>10. ASSUME NEW a \in live, Refuse(a) PROVE TypeOK' /\ RoundLeft'
  <2>1. screen' \in Screen
    BY <1>10, <1>a, <1>m, PresentTypes DEF Refuse
  <2>2. QED
    BY <1>10, <1>a, <2>1 DEF Refuse
<1>11. ASSUME NEW a \in live, Reply(a) PROVE TypeOK' /\ RoundLeft'
  <2>1. screen' \in Screen
    BY <1>11, <1>a, PresentTypes DEF Reply, AnswerKnown
  <2>2. QED
    BY <1>11, <1>a, <2>1 DEF Reply
<1>12. ASSUME NEW a \in live, Lose(a) PROVE TypeOK' /\ RoundLeft'
  BY <1>12, <1>a DEF Lose
<1>13. CASE UNCHANGED vars
  BY <1>13 DEF vars
<1>14. QED
  BY <1>1, <1>2, <1>3, <1>4, <1>5, <1>6, <1>7, <1>8, <1>9, <1>10, <1>11, <1>12, <1>13
  DEF Next

(* An attempt leaves Check or Apply with an answer, and keeps it.          *)
LEMMA AnswerStep == Typed /\ [Next]_vars => AnswerKnown'
<1> SUFFICES ASSUME Typed, [Next]_vars PROVE AnswerKnown'
  OBVIOUS
<1> USE DEF Typed, AnswerKnown, appVars, serverVars, historyVars
<1>a. \A a \in live : a \in Attempt /\ a.turn \in Turns
  BY DEF TypeOK, Attempt
<1>m. ASSUME NEW a \in live, NEW step, NEW answer, Move(a, step, answer),
             step = "checked" \/ answer \in States
      PROVE  AnswerKnown'
  BY <1>m, <1>a DEF Move, Attempt
<1>1. ASSUME NEW k \in Kinds, Begin(k) PROVE AnswerKnown'
  BY <1>1 DEF Begin, Send
<1>2. ASSUME NEW t \in Turns, Retry(t) PROVE AnswerKnown'
  BY <1>2 DEF Retry, Send
<1>3. ASSUME NEW a \in live, Check(a) PROVE AnswerKnown'
  <2>1. receipts[a.turn] # "none" => receipts[a.turn] \in States
    BY <1>a DEF TypeOK
  <2>2. QED
    BY <1>3, <1>m, <2>1 DEF Check
<1>4. ASSUME NEW a \in live, Apply(a) PROVE AnswerKnown'
  <2>1. Effect(kind[a.turn], menu).state \in States
    BY <1>a, MenuStates DEF TypeOK
  <2>2. QED
    BY <1>4, <1>m, <2>1 DEF Apply
<1>5. ASSUME NEW a \in live, Store(a) PROVE AnswerKnown'
  BY <1>5, <1>m DEF Store
<1>6. ASSUME NEW a \in live, Remember(a) PROVE AnswerKnown'
  BY <1>6, <1>m DEF Remember
<1>7. ASSUME NEW a \in live, Refuse(a) \/ Reply(a) \/ Lose(a) PROVE AnswerKnown'
  BY <1>7 DEF Refuse, Reply, Lose
<1>8. ASSUME UNCHANGED live PROVE AnswerKnown'
  BY <1>8
<1>9. QED
  BY <1>1, <1>2, <1>3, <1>4, <1>5, <1>6, <1>7, <1>8
  DEF Next, Unheard, NoReply, Forget, vars

(* A fresh call is typed.                                                  *)
LEMMA InitTyped == Init => Typed
<1> SUFFICES ASSUME Init PROVE Typed
  OBVIOUS
<1>1. screen \in Screen /\ menu \in States
  BY DEF Init, Screen, States
<1>2. RoundLeft /\ AnswerKnown
  BY DEF Init, RoundLeft, AnswerKnown
<1>3. TypeOK
  <2>1. turns \in 0..MaxTurns /\ round \in [Turns -> 0..MAX_RETRIES]
    BY RetriesAssumption, MaxTurnsAssumption DEF Init
  <2>2. /\ kind \in [Turns -> Kinds \cup {"#"}]
        /\ client \in [Turns -> {"unused", "waiting", "backoff", "done"}]
        /\ receipts \in [Turns -> States \cup {"none"}]
        /\ seen \in [Turns -> Screen]
        /\ applied \in [Turns -> Nat]
    BY <1>1 DEF Init
  <2>3. QED
    BY <1>1, <2>1, <2>2 DEF Init, TypeOK
<1>4. QED
  BY <1>2, <1>3 DEF Typed

(* Every variable has its type: the app never counts a round past the last *)
(* and shows only screens of the menu.                                     *)
THEOREM TypeCorrect == Spec => []TypeOK
<1>1. Init => Typed
  BY InitTyped
<1>2. Typed /\ [Next]_vars => Typed'
  BY TypeStep, AnswerStep DEF Typed
<1>3. Typed => TypeOK
  BY DEF Typed
<1>4. QED
  BY <1>1, <1>2, <1>3, PTL DEF Spec
-----------------------------------------------------------------------------
(* Turns are numbered in order: what is under way belongs to a turn that   *)
(* has begun.                                                              *)
Begun ==
  /\ \A a \in live : a.turn <= turns
  /\ \A t \in Turns : client[t] # "unused" => t <= turns
  /\ \A t \in Turns : t > turns => applied[t] = 0

(* A turn that was not hurried has one attempt under way at most, and when *)
(* the server has acted on it, the receipt is there or on its way, or the  *)
(* turn counts as unreceipted.                                             *)
Alone(t) == \A a, b \in live : a.turn = t /\ b.turn = t => a = b

Witnessed(t) ==
  \/ receipts[t] # "none"
  \/ \E a \in live : a.turn = t /\ a.at \in {"applied", "stored"}

Once(t) ==
  /\ Alone(t)
  /\ applied[t] = 0 \/ (applied[t] = 1 /\ Witnessed(t))
  /\ \A a \in live : a.turn = t /\ a.at = "checked" => applied[t] = 0

OnceInv == Begun /\ \A t \in Turns \ (hurried \cup unreceipted) : Once(t)

(* Only Begin makes an attempt for a turn of its own, and it numbers it.   *)
LEMMA BegunStep == Typed /\ Begun /\ [Next]_vars => Begun'
<1> SUFFICES ASSUME Typed, Begun, [Next]_vars PROVE Begun'
  OBVIOUS
<1> USE MaxTurnsAssumption
    DEF Typed, Begun, Turns, Send, Move, appVars, serverVars, historyVars
<1>t. /\ turns \in Nat
      /\ client \in [Turns -> {"unused", "waiting", "backoff", "done"}]
      /\ applied \in [Turns -> Nat]
      /\ \A a \in live : a \in Attempt /\ a.turn \in Turns
  BY DEF TypeOK, Attempt
<1>1. ASSUME NEW k \in Kinds, Begin(k) PROVE Begun'
  BY <1>1, <1>t DEF Begin
<1>2. CASE Unheard
  BY <1>2, <1>t DEF Unheard
<1>3. ASSUME NEW t \in Turns, NoReply(t) PROVE Begun'
  BY <1>3, <1>t DEF NoReply
<1>4. ASSUME NEW t \in Turns, Retry(t) PROVE Begun'
  BY <1>4, <1>t DEF Retry
<1>5. ASSUME NEW t \in Turns, Forget(t) PROVE Begun'
  BY <1>5, <1>t DEF Forget
<1>m. ASSUME NEW a \in live, NEW step, NEW answer, Move(a, step, answer)
      PROVE  \A b \in live' : b.turn <= turns
  BY <1>m, <1>t DEF Attempt
<1>6. ASSUME NEW a \in live, Check(a) PROVE Begun'
  BY <1>6, <1>m DEF Check
<1>7. ASSUME NEW a \in live, Apply(a) PROVE Begun'
  <2>1. \A b \in live' : b.turn <= turns
    BY <1>7, <1>m DEF Apply
  <2>2. ASSUME NEW t \in Turns, t > turns PROVE applied'[t] = 0
    <3>1. a.turn # t
      BY <1>t, <2>2
    <3>2. QED
      BY <1>7, <1>t, <2>2, <3>1 DEF Apply
  <2>3. QED
    BY <1>7, <2>1, <2>2 DEF Apply
<1>8. ASSUME NEW a \in live, Store(a) PROVE Begun'
  BY <1>8, <1>m DEF Store
<1>9. ASSUME NEW a \in live, Remember(a) PROVE Begun'
  BY <1>9, <1>m DEF Remember
<1>10. ASSUME NEW a \in live, Refuse(a) \/ Reply(a) PROVE Begun'
  BY <1>10, <1>t DEF Refuse, Reply
<1>11. ASSUME NEW a \in live, Lose(a) PROVE Begun'
  BY <1>11 DEF Lose
<1>12. CASE UNCHANGED vars
  BY <1>12 DEF vars
<1>13. QED
  BY <1>1, <1>2, <1>3, <1>4, <1>5, <1>6, <1>7, <1>8, <1>9, <1>10, <1>11, <1>12 DEF Next

(* A turn the step leaves alone: it stays as it is in all that Once says.  *)
LEMMA OnceKept ==
  ASSUME NEW t \in Turns, Once(t),
         \A a \in live' : a.turn = t => a \in live,
         \A a \in live : a.turn = t /\ a.at \in {"applied", "stored"} =>
           a \in live' \/ receipts'[t] # "none",
         receipts[t] # "none" => receipts'[t] # "none",
         applied'[t] = applied[t]
  PROVE  Once(t)'
BY DEF Once, Alone, Witnessed

(* A turn that is still neither hurried nor unreceipted after the step was *)
(* so before it, and keeps its one attempt and its witness.                *)
LEMMA OnceStep ==
  ASSUME Typed, OnceInv, [Next]_vars,
         NEW t \in Turns, t \notin hurried' \cup unreceipted'
  PROVE  Once(t)'
<1> USE DEF appVars, serverVars, historyVars
<1>t. /\ turns \in Nat
      /\ applied \in [Turns -> Nat]
      /\ receipts \in [Turns -> States \cup {"none"}]
      /\ \A a \in live : a \in Attempt /\ a.turn \in Turns
      /\ Begun
  BY MaxTurnsAssumption DEF Typed, TypeOK, Attempt, OnceInv
<1>n. "none" \notin States
  BY DEF States
<1>o. ASSUME t \notin hurried \cup unreceipted PROVE Once(t)
  BY <1>o DEF OnceInv
<1>m. ASSUME NEW a \in live, NEW step, NEW answer, Move(a, step, answer), a.turn # t,
             Once(t), receipts[t] # "none" => receipts'[t] # "none", applied'[t] = applied[t]
      PROVE  Once(t)'
  <2>1. /\ \A b \in live' : b.turn = t => b \in live
        /\ \A b \in live : b.turn = t => b \in live'
    BY <1>m, <1>t DEF Move, Attempt
  <2>2. QED
    BY <1>m, <2>1, OnceKept
(* The attempt of t that moves is its only one. *)
<1>s. ASSUME NEW a \in live, NEW step, NEW answer, Move(a, step, answer), a.turn = t, Once(t)
      PROVE  /\ Alone(t)'
             /\ \A b \in live' : b.turn = t => b.at = step
             /\ \E b \in live' : b.turn = t /\ b.at = step
             /\ Witnessed(t) => receipts[t] # "none" \/ a.at \in {"applied", "stored"}
  <2> DEFINE moved == [a EXCEPT !.at = step, !.answer = answer]
  <2>1. moved.turn = t /\ moved.at = step
    BY <1>s, <1>t DEF Attempt
  <2>2. live' = (live \ {a}) \cup {moved}
    BY <1>s DEF Move
  <2>3. \A b \in live : b.turn = t => b = a
    BY <1>s DEF Once, Alone
  <2>4. \A b \in live' : b.turn = t => b = moved
    BY <2>2, <2>3
  <2>5. Witnessed(t) => receipts[t] # "none" \/ a.at \in {"applied", "stored"}
    BY <2>3 DEF Witnessed
  <2>6. Alone(t)'
    BY <2>4 DEF Alone
  <2>7. QED
    BY <2>1, <2>2, <2>4, <2>5, <2>6
<1>1. ASSUME NEW k \in Kinds, Begin(k) PROVE Once(t)'
  <2>0. Once(t) /\ receipts' = receipts /\ applied' = applied
    BY <1>1, <1>o DEF Begin
  <2>1. CASE t = turns + 1
    <3>1. \A a \in live : a.turn # t
      BY <1>t, <2>1 DEF Begun, Turns
    <3>2. applied[t] = 0
      BY <1>t, <2>1 DEF Begun, Turns
    <3>3. QED
      BY <1>1, <2>0, <3>1, <3>2 DEF Begin, Send, Once, Alone
  <2>2. CASE t # turns + 1
    BY <1>1, <2>0, <2>2, OnceKept DEF Begin, Send
  <2>3. QED
    BY <2>1, <2>2
<1>2. CASE Unheard
  BY <1>2, <1>o, OnceKept DEF Unheard
<1>3. ASSUME NEW u \in Turns, NoReply(u) PROVE Once(t)'
  BY <1>3, <1>o, OnceKept DEF NoReply
<1>4. ASSUME NEW u \in Turns, Retry(u) PROVE Once(t)'
  <2>0. Once(t) /\ receipts' = receipts /\ applied' = applied
    BY <1>4, <1>o DEF Retry
  <2>1. CASE t = u
    <3>1. \A a \in live : a.turn # t
      BY <1>4, <2>1 DEF Retry
    <3>2. QED
      BY <1>4, <2>0, <3>1 DEF Retry, Send, Once, Alone, Witnessed
  <2>2. CASE t # u
    BY <1>4, <2>0, <2>2, OnceKept DEF Retry, Send
  <2>3. QED
    BY <2>1, <2>2
<1>5. ASSUME NEW u \in Turns, Forget(u) PROVE Once(t)'
  BY <1>5, <1>o, OnceKept DEF Forget
<1>6. ASSUME NEW a \in live, Check(a) PROVE Once(t)'
  <2>0. Once(t) /\ receipts' = receipts /\ applied' = applied
    BY <1>6, <1>o DEF Check
  <2>1. CASE a.turn = t
    <3>1. a.at = "sent" /\ t \notin unreceipted'
      BY <1>6 DEF Check
    <3>2. CASE receipts[t] # "none" /\ Move(a, "replying", receipts[t])
      BY <2>0, <2>1, <3>2, <1>s DEF Once, Witnessed
    <3>3. CASE receipts[t] = "none" /\ Move(a, "checked", "none")
      BY <2>0, <2>1, <3>1, <3>3, <1>s DEF Once
    <3>4. QED
      BY <1>6, <2>1, <3>1, <3>2, <3>3 DEF Check
  <2>2. CASE a.turn # t
    BY <1>6, <2>0, <2>2, <1>m DEF Check
  <2>3. QED
    BY <2>1, <2>2
<1>7. ASSUME NEW a \in live, Apply(a) PROVE Once(t)'
  <2>0. Once(t) /\ receipts' = receipts
    BY <1>7, <1>o DEF Apply
  <2>1. CASE a.turn = t
    <3>1. applied[t] = 0
      BY <1>7, <2>0, <2>1 DEF Apply, Once
    <3>2. applied'[t] = 1
      BY <1>7, <1>t, <2>1, <3>1 DEF Apply
    <3>3. QED
      BY <1>7, <2>0, <2>1, <3>2, <1>s DEF Apply, Once, Witnessed
  <2>2. CASE a.turn # t
    <3>1. applied'[t] = applied[t]
      BY <1>7, <1>t, <2>2 DEF Apply
    <3>2. QED
      BY <1>7, <2>0, <2>2, <3>1, <1>m DEF Apply
  <2>3. QED
    BY <2>1, <2>2
<1>8. ASSUME NEW a \in live, Store(a) PROVE Once(t)'
  <2>0. Once(t) /\ receipts' = receipts /\ applied' = applied
    BY <1>8, <1>o DEF Store
  <2>1. CASE a.turn = t
    BY <1>8, <2>0, <2>1, <1>s DEF Store, Once, Witnessed
  <2>2. CASE a.turn # t
    BY <1>8, <2>0, <2>2, <1>m DEF Store
  <2>3. QED
    BY <2>1, <2>2
<1>9. ASSUME NEW a \in live, Remember(a) PROVE Once(t)'
  <2>0. Once(t) /\ applied' = applied
    BY <1>9, <1>o DEF Remember
  <2>1. CASE a.turn = t
    <3>1. receipts'[t] # "none"
      BY <1>9, <1>t, <1>n, <2>1 DEF Remember, Typed, AnswerKnown
    <3>2. QED
      BY <1>9, <2>0, <2>1, <3>1, <1>s DEF Remember, Once, Witnessed
  <2>2. CASE a.turn # t
    <3>1. receipts'[t] = receipts[t]
      BY <1>9, <1>t, <2>2 DEF Remember
    <3>2. QED
      BY <1>9, <2>0, <2>2, <3>1, <1>m DEF Remember
  <2>3. QED
    BY <2>1, <2>2
<1>10. ASSUME NEW a \in live, Refuse(a) \/ Reply(a) PROVE Once(t)'
  BY <1>10, <1>o, OnceKept DEF Refuse, Reply
<1>11. ASSUME NEW a \in live, Lose(a) PROVE Once(t)'
  <2>1. t \notin hurried \cup unreceipted /\ live' = live \ {a}
        /\ UNCHANGED <<receipts, applied>>
    BY <1>11 DEF Lose
  <2>2. a.turn = t => a.at \notin {"applied", "stored"}
    BY <1>11 DEF Lose
  <2>3. QED
    BY <1>o, <2>1, <2>2, OnceKept
<1>12. CASE UNCHANGED vars
  BY <1>12, <1>o, OnceKept DEF vars
<1>13. QED
  BY <1>1, <1>2, <1>3, <1>4, <1>5, <1>6, <1>7, <1>8, <1>9, <1>10, <1>11, <1>12 DEF Next

(* A turn takes effect once, however often it is sent again, as long as    *)
(* its attempts did not overlap and its receipt did not go missing.        *)
THEOREM AppliedOnceCorrect == Spec => []AppliedOnce
<1>1. Init => Typed /\ OnceInv
  <2>1. Init => OnceInv
    BY DEF Init, OnceInv, Begun, Once, Alone
  <2>2. QED
    BY <2>1, InitTyped
<1>2. Typed /\ OnceInv /\ [Next]_vars => Typed' /\ OnceInv'
  BY TypeStep, AnswerStep, BegunStep, OnceStep DEF Typed, OnceInv
<1>3. Typed /\ OnceInv => AppliedOnce
  BY DEF Typed, TypeOK, OnceInv, Once, AppliedOnce
<1>4. QED
  BY <1>1, <1>2, <1>3, PTL DEF Spec
-----------------------------------------------------------------------------
(* The rest is about a call whose turns never overlapped.  It has one turn *)
(* under way at most: one the app waits for, or one the server still has   *)
(* an attempt of.                                                          *)
Active == InFlight \cup {a.turn : a \in live}

Single ==
  ~crowded => /\ \A t, u \in Active : t = u
              /\ \A t \in InFlight : t = turns

(* Nothing is known of a turn that has not begun.                          *)
Fresh ==
  \A t \in Turns : t > turns => receipts[t] = "none" /\ t \notin raised

(* What Move leaves under way.                                             *)
LEMMA Moved ==
  ASSUME Typed, NEW a \in live, NEW step, NEW answer, Move(a, step, answer),
         NEW b \in live'
  PROVE  b \in live \/ (b.turn = a.turn /\ b.at = step /\ b.answer = answer)
<1>1. a \in Attempt
  BY DEF Typed, TypeOK
<1>2. QED
  BY <1>1 DEF Move, Attempt

(* Only Begin adds to the turns under way, and it ends the innocence of a  *)
(* call that has one.                                                      *)
LEMMA ActiveStep ==
  ASSUME Typed, [Next]_vars
  PROVE  /\ crowded => crowded'
         /\ \/ Active' \subseteq Active /\ InFlight' \subseteq InFlight
               /\ (turns' = turns \/ crowded' \/ InFlight = {})
            \/ /\ crowded' \/ Active = {}
               /\ turns' = turns + 1 /\ Active' \subseteq Active \cup {turns'}
               /\ InFlight' \subseteq InFlight \cup {turns'}
<1> DEFINE Kept == Active' \subseteq Active /\ InFlight' \subseteq InFlight
<1> USE DEF Active, InFlight, appVars, serverVars, historyVars
<1>t. /\ client \in [Turns -> {"unused", "waiting", "backoff", "done"}]
      /\ crowded \in BOOLEAN
      /\ \A a \in live : a \in Attempt /\ a.turn \in Turns
  BY DEF Typed, TypeOK, Attempt
<1>m. ASSUME NEW a \in live, NEW step, NEW answer, Move(a, step, answer), client' = client
      PROVE  Kept
  BY <1>m, Moved
<1>1. ASSUME NEW k \in Kinds, Begin(k)
      PROVE  /\ crowded => crowded'
             /\ crowded' \/ Active = {}
             /\ turns' = turns + 1 /\ Active' \subseteq Active \cup {turns'}
             /\ InFlight' \subseteq InFlight \cup {turns'}
  <2>1. crowded' = (crowded \/ InFlight # {} \/ live # {})
    BY <1>1 DEF Begin
  <2>2. InFlight' \subseteq InFlight \cup {turns'} /\ turns' = turns + 1
    BY <1>1, <1>t DEF Begin
  <2>3. \A b \in live' : b \in live \/ b.turn = turns'
    BY <1>1 DEF Begin, Send
  <2>4. QED
    BY <2>1, <2>2, <2>3
<1>2. CASE Unheard
  <2>1. Kept
    BY <1>2 DEF Unheard
  <2>2. crowded' = (crowded \/ InFlight # {})
    BY <1>2 DEF Unheard
  <2>3. QED
    BY <2>1, <2>2
<1>3. ASSUME NEW t \in Turns, NoReply(t) PROVE Kept
  BY <1>3, <1>t DEF NoReply
<1>4. ASSUME NEW t \in Turns, Retry(t) PROVE Kept
  <2>1. InFlight' \subseteq InFlight /\ t \in InFlight
    BY <1>4, <1>t DEF Retry
  <2>2. \A b \in live' : b \in live \/ b.turn = t
    BY <1>4 DEF Retry, Send
  <2>3. QED
    BY <2>1, <2>2
<1>5. ASSUME NEW t \in Turns, Forget(t) PROVE Kept
  BY <1>5 DEF Forget
<1>6. ASSUME NEW a \in live, Check(a) \/ Apply(a) \/ Store(a) \/ Remember(a) PROVE Kept
  BY <1>6, <1>m DEF Check, Apply, Store, Remember
<1>7. ASSUME NEW a \in live, Refuse(a) \/ Reply(a) \/ Lose(a) PROVE Kept
  BY <1>7, <1>t DEF Refuse, Reply, Lose
<1>8. ASSUME UNCHANGED vars PROVE Kept
  BY <1>8 DEF vars
<1>9. (\E k \in Kinds : Begin(k)) \/ Unheard \/ (turns' = turns /\ crowded' = crowded)
  BY DEF Next, vars, NoReply, Retry, Forget, Check, Apply, Store, Remember, Refuse, Reply, Lose
<1>10. ASSUME ~ Unheard, ~ \E k \in Kinds : Begin(k) PROVE Kept
  BY <1>10, <1>3, <1>4, <1>5, <1>6, <1>7, <1>8 DEF Next
<1>11. CASE \E k \in Kinds : Begin(k)
  BY <1>1, <1>11
<1>12. CASE ~ Unheard /\ ~ \E k \in Kinds : Begin(k)
  <2>1. turns' = turns /\ crowded' = crowded
    BY <1>9, <1>12
  <2>2. Kept
    BY <1>10, <1>12
  <2>3. QED
    BY <2>1, <2>2
<1>13. QED
  BY <1>2, <1>11, <1>12

LEMMA SingleStep == Typed /\ Begun /\ Single /\ [Next]_vars => Single'
<1> SUFFICES ASSUME Typed, Begun, Single, [Next]_vars, ~crowded'
             PROVE  /\ \A t, u \in Active' : t = u
                    /\ \A t \in InFlight' : t = turns'
  BY DEF Single
<1>1. ~crowded /\ InFlight \subseteq Active
  BY ActiveStep DEF Active
<1>2. QED
  BY <1>1, ActiveStep DEF Single

LEMMA FreshStep == Typed /\ Begun /\ Fresh /\ [Next]_vars => Fresh'
<1> SUFFICES ASSUME Typed, Begun, Fresh, [Next]_vars,
                    NEW t \in Turns, t > turns'
             PROVE  receipts'[t] = "none" /\ t \notin raised'
  BY DEF Fresh
<1>t. /\ turns \in Nat /\ t \in Nat
      /\ receipts \in [Turns -> States \cup {"none"}]
      /\ \A a \in live : a.turn \in Nat /\ a.turn <= turns
  BY MaxTurnsAssumption DEF Typed, TypeOK, Turns, Attempt, Begun
<1>1. turns' = turns \/ turns' = turns + 1
  BY DEF Next, vars, appVars, serverVars, historyVars, Begin, Unheard, NoReply, Retry,
         Forget, Check, Apply, Store, Remember, Refuse, Reply, Lose
<1>2. t > turns /\ receipts[t] = "none" /\ t \notin raised
  BY <1>t, <1>1 DEF Fresh
<1>3. \A a \in live : a.turn # t
  BY <1>t, <1>2
<1>4. ASSUME NEW a \in live, Apply(a) PROVE t \notin raised'
  BY <1>2, <1>3, <1>4 DEF Apply
<1>5. ASSUME NEW a \in live, Remember(a) PROVE receipts'[t] = "none"
  BY <1>2, <1>3, <1>5, <1>t DEF Remember
<1>6. ASSUME NEW u \in Turns, Forget(u) PROVE receipts'[t] = "none"
  BY <1>2, <1>6, <1>t DEF Forget
<1>7. QED
  BY <1>2, <1>4, <1>5, <1>6
  DEF Next, vars, appVars, serverVars, historyVars, Begin, Unheard, NoReply, Retry,
      Forget, Check, Apply, Store, Remember, Refuse, Reply, Lose
-----------------------------------------------------------------------------
(* Where a turn of kind k takes a call that stands at s.                   *)
After(k, s) == Effect(k, s).state

Held(a) == a.at \in {"applied", "stored", "replying"}
Settled(a) == a.at \in {"stored", "replying"}

(* The app, the receipt, the attempts and the menu agree, as far as view   *)
(* tells prompts apart: every answer is where the turn takes the menu, or  *)
(* has taken it, and taking the turn once more changes nothing.            *)
Agrees(view) ==
  /\ \A a \in live : Held(a) =>
       /\ view[a.answer] = view[After(kind[a.turn], menu)]
       /\ view[After(kind[a.turn], a.answer)] = view[a.answer]
  /\ \A a \in live : Settled(a) => view[a.answer] = view[menu]
  /\ \A t \in Active : receipts[t] # "none" =>
       /\ view[receipts[t]] = view[menu]
       /\ view[After(kind[t], menu)] = view[menu]
       /\ view[After(kind[t], receipts[t])] = view[receipts[t]]
  /\ InFlight = {} /\ screen.genuine =>
       /\ view[screen.state] = view[menu]
       /\ \A a \in live : view[After(kind[a.turn], menu)] = view[menu]

(* Taking the turn of the attempt twice is taking it once, for this view.  *)
Repeats(view, a) ==
  view[After(kind[a.turn], After(kind[a.turn], menu))] = view[After(kind[a.turn], menu)]

(* Agreement outlives every step of a call whose turns do not overlap, if  *)
(* no turn under way would be taken further by a second press.             *)
LEMMA AgreesStep ==
  ASSUME NEW CONSTANT view,
         Typed, Begun, Single, Fresh, Agrees(view), [Next]_vars, ~crowded',
         \A a \in live : Repeats(view, a)
  PROVE  Agrees(view)'
<1> USE DEF appVars, serverVars, historyVars, Held, Settled
<1>t. /\ turns \in Nat
      /\ kind \in [Turns -> Kinds \cup {"#"}]
      /\ client \in [Turns -> {"unused", "waiting", "backoff", "done"}]
      /\ receipts \in [Turns -> States \cup {"none"}]
      /\ \A a \in live : a \in Attempt /\ a.turn \in Turns /\ a.turn \in Active
      /\ InFlight \subseteq Active /\ Active \subseteq Turns
      /\ \A a, b \in live : a.turn = b.turn
      /\ \A t \in InFlight : t = turns
      /\ \A t \in Active : t <= turns /\ t \in Nat
      /\ \A a \in live, t \in Active : a.turn = t
  <2>1. /\ turns \in Nat
        /\ kind \in [Turns -> Kinds \cup {"#"}]
        /\ client \in [Turns -> {"unused", "waiting", "backoff", "done"}]
        /\ receipts \in [Turns -> States \cup {"none"}]
        /\ \A a \in live : a \in Attempt /\ a.turn \in Turns
    BY MaxTurnsAssumption DEF Typed, TypeOK, Attempt
  <2>2. ~crowded
    BY ActiveStep
  <2>3. \A a \in live : a.turn \in Active
    BY DEF Active
  <2>4. InFlight \subseteq Active /\ Active \subseteq Turns
    BY <2>1 DEF Active, InFlight
  <2>5. \A t \in Active : t <= turns /\ t \in Nat
    BY <2>1, <2>4 DEF Active, InFlight, Begun, Turns
  <2>6. QED
    BY <2>1, <2>2, <2>3, <2>4, <2>5 DEF Single
<1>n. "none" \notin States
  BY DEF States
<1>1. ASSUME NEW k \in Kinds, Begin(k) PROVE Agrees(view)'
  <2>1. live = {} /\ InFlight = {}
    BY <1>1 DEF Begin
  <2>2. turns' = turns + 1 /\ turns' \in Turns /\ receipts' = receipts
    BY <1>1, <1>t, MaxTurnsAssumption DEF Begin, Turns
  <2>3. \A b \in live' : b.at = "sent"
    BY <1>1, <2>1 DEF Begin, Send
  <2>4. turns' \in InFlight'
    BY <1>1, <1>t, <2>2 DEF Begin, InFlight
  <2>5. \A t \in Active' : t = turns'
    BY <1>1, <1>t, <2>1 DEF Begin, Send, Active, InFlight
  <2>6. receipts[turns'] = "none"
    BY <1>t, <2>2 DEF Fresh
  <2>7. QED
    BY <2>2, <2>3, <2>4, <2>5, <2>6 DEF Agrees
(* A step that leaves the server and the screen be. *)
<1>k. ASSUME \A b \in live' : b \in live \/ b.at = "sent",
             \A b \in live' : \E a \in live : b.turn = a.turn,
             UNCHANGED <<kind, menu, screen>>, Active' \subseteq Active,
             \A t \in Turns : receipts'[t] = receipts[t] \/ receipts'[t] = "none",
             InFlight' = {} => InFlight = {}
      PROVE  Agrees(view)'
  BY <1>k, <1>t DEF Agrees
<1>2. CASE Unheard
  <2>1. Active' = Active /\ InFlight' = InFlight
    BY <1>2 DEF Unheard, Active, InFlight
  <2>2. QED
    BY <1>2, <2>1, <1>k DEF Unheard
<1>3. ASSUME NEW t \in Turns, NoReply(t) PROVE Agrees(view)'
  <2>1. t \in InFlight
    BY <1>3 DEF NoReply, InFlight
  <2>2. t = turns
    BY <1>t, <2>1
  <2>3. live' = live /\ Active' \subseteq Active /\ UNCHANGED <<kind, menu, receipts>>
    BY <1>3, <1>t DEF NoReply, Active, InFlight
  <2>4. CASE client' = [client EXCEPT ![t] = "backoff"] /\ screen' = screen
    <3>1. t \in InFlight'
      BY <1>t, <2>4 DEF InFlight
    <3>2. QED
      BY <2>3, <3>1 DEF Agrees
  <2>5. CASE Present(t, Mock(kind[t]), FALSE)
    <3>1. ~screen'.genuine
      BY <2>2, <2>5, <1>3 DEF Present, NoReply
    <3>2. QED
      BY <2>3, <3>1 DEF Agrees
  <2>6. QED
    BY <1>3, <2>4, <2>5 DEF NoReply
<1>4. ASSUME NEW t \in Turns, Retry(t) PROVE Agrees(view)'
  <2>1. t \in InFlight /\ t \in InFlight'
    BY <1>4, <1>t DEF Retry, InFlight
  <2>2. Active' \subseteq Active
    BY <1>4, <1>t, <2>1 DEF Retry, Send, Active, InFlight
  <2>3. \A b \in live' : b \in live \/ b.at = "sent"
    BY <1>4 DEF Retry, Send
  <2>4. UNCHANGED <<kind, menu, receipts>>
    BY <1>4 DEF Retry
  <2>5. QED
    BY <2>1, <2>2, <2>3, <2>4 DEF Agrees
<1>5. ASSUME NEW t \in Turns, Forget(t) PROVE Agrees(view)'
  <2>1. Active' = Active /\ InFlight' = InFlight
    BY <1>5 DEF Forget, Active, InFlight
  <2>2. QED
    BY <1>5, <1>t, <2>1, <1>k DEF Forget
<1>m. ASSUME NEW a \in live, NEW step, NEW answer, Move(a, step, answer), client' = client
      PROVE  /\ InFlight' = InFlight /\ Active' \subseteq Active
             /\ \A b \in live' : b \in live \/ (b.turn = a.turn /\ b.at = step /\ b.answer = answer)
             /\ \A b \in live' : b.turn = a.turn
  <2>1. /\ \A b \in live' : b \in live \/ (b.turn = a.turn /\ b.at = step /\ b.answer = answer)
        /\ InFlight' = InFlight
    BY <1>m, Moved DEF InFlight
  <2>2. QED
    BY <1>t, <2>1 DEF Active
<1>6. ASSUME NEW a \in live, Check(a) PROVE Agrees(view)'
  <2> DEFINE t == a.turn
  <2>0. UNCHANGED <<kind, menu, screen, receipts, client>>
    BY <1>6 DEF Check
  <2>1. CASE receipts[t] # "none" /\ Move(a, "replying", receipts[t])
    <3>1. /\ view[receipts[t]] = view[menu]
          /\ view[After(kind[t], menu)] = view[menu]
          /\ view[After(kind[t], receipts[t])] = view[receipts[t]]
      BY <1>t, <2>1 DEF Agrees
    <3>2. QED
      BY <1>t, <1>m, <2>0, <2>1, <3>1 DEF Agrees
  <2>2. CASE Move(a, "checked", "none")
    BY <1>t, <1>m, <2>0, <2>2 DEF Agrees
  <2>3. QED
    BY <1>6, <2>1, <2>2 DEF Check
<1>7. ASSUME NEW a \in live, Apply(a) PROVE Agrees(view)'
  <2> DEFINE next == After(kind[a.turn], menu)
  <2>1. Move(a, "applied", next) /\ UNCHANGED <<kind, menu, screen, receipts, client>>
    BY <1>7 DEF Apply, After
  <2>2. view[After(kind[a.turn], next)] = view[next]
    BY DEF Repeats
  <2>3. QED
    BY <1>t, <1>m, <2>1, <2>2 DEF Agrees
<1>8. ASSUME NEW a \in live, Store(a) PROVE Agrees(view)'
  <2>1. /\ Move(a, "stored", a.answer) /\ menu' = a.answer
        /\ UNCHANGED <<kind, screen, receipts, client>>
    BY <1>8 DEF Store, Stored
  <2>2. /\ view[a.answer] = view[After(kind[a.turn], menu)]
        /\ view[After(kind[a.turn], a.answer)] = view[a.answer]
    BY <1>8 DEF Store, Agrees
  <2>3. \A b \in live' : Held(b) => view[b.answer] = view[a.answer]
                                /\ view[After(kind[b.turn], b.answer)] = view[b.answer]
    BY <1>t, <1>m, <2>1, <2>2 DEF Agrees
  <2>4. ASSUME NEW t \in Active', receipts[t] # "none"
        PROVE  /\ view[receipts[t]] = view[a.answer]
               /\ view[After(kind[t], receipts[t])] = view[receipts[t]]
    BY <1>t, <1>m, <2>1, <2>2, <2>4 DEF Agrees
  <2>5. InFlight' = {} /\ screen.genuine => view[screen.state] = view[a.answer]
    BY <1>t, <1>m, <2>1, <2>2 DEF Agrees
  <2>6. \A t \in Active' : t = a.turn
    BY <1>t, <1>m, <2>1
  <2>7. \A b \in live' : b.turn = a.turn
    BY <1>m, <2>1
  <2>8. QED
    BY <2>1, <2>2, <2>3, <2>4, <2>5, <2>6, <2>7 DEF Agrees
<1>9. ASSUME NEW a \in live, Remember(a) PROVE Agrees(view)'
  <2>1. Move(a, "replying", a.answer) /\ UNCHANGED <<kind, menu, screen, client>>
    BY <1>9 DEF Remember
  <2>2. /\ view[a.answer] = view[After(kind[a.turn], menu)]
        /\ view[After(kind[a.turn], a.answer)] = view[a.answer]
        /\ view[a.answer] = view[menu]
    BY <1>9 DEF Remember, Agrees
  <2>3. \A u \in Active' : u = a.turn
    BY <1>t, <1>m, <2>1
  <2>4. receipts'[a.turn] = a.answer \/ receipts'[a.turn] = receipts[a.turn]
    BY <1>9, <1>t DEF Remember
  <2>5. receipts'[a.turn] # "none" =>
          /\ view[receipts'[a.turn]] = view[menu]
          /\ view[After(kind[a.turn], menu)] = view[menu]
          /\ view[After(kind[a.turn], receipts'[a.turn])] = view[receipts'[a.turn]]
    <3>1. CASE receipts'[a.turn] = a.answer
      BY <2>2, <3>1
    <3>2. CASE receipts'[a.turn] = receipts[a.turn]
      BY <1>t, <3>2 DEF Agrees
    <3>3. QED
      BY <2>4, <3>1, <3>2
  <2>6. /\ InFlight' = InFlight
        /\ \A b \in live' : b \in live \/ (b.turn = a.turn /\ b.at = "replying" /\ b.answer = a.answer)
        /\ \A b \in live' : b.turn = a.turn
    BY <1>m, <2>1
  <2>7. \A b \in live' : Held(b) =>
          /\ view[b.answer] = view[After(kind[b.turn], menu)]
          /\ view[After(kind[b.turn], b.answer)] = view[b.answer]
    BY <2>2, <2>6 DEF Agrees
  <2>8. \A b \in live' : Settled(b) => view[b.answer] = view[menu]
    BY <2>2, <2>6 DEF Agrees
  <2>9. InFlight' = {} /\ screen.genuine =>
          /\ view[screen.state] = view[menu]
          /\ \A b \in live' : view[After(kind[b.turn], menu)] = view[menu]
    BY <2>6 DEF Agrees
  <2>10. QED
    BY <2>1, <2>3, <2>5, <2>7, <2>8, <2>9 DEF Agrees
<1>10. ASSUME NEW a \in live, Reply(a) \/ Refuse(a) PROVE Agrees(view)'
  <2>1. /\ live' = live \ {a} /\ UNCHANGED <<kind, menu, receipts, turns>>
        /\ Active' \subseteq Active
    BY <1>10, <1>t DEF Reply, Refuse, Active, InFlight
  <2>2. CASE UNCHANGED <<client, screen>>
    BY <2>1, <2>2 DEF Agrees, InFlight
  <2>3. CASE client[a.turn] = "waiting"
    <3>1. a.turn = turns
      BY <1>t, <2>3 DEF InFlight
    <3>2. CASE Reply(a) /\ Present(a.turn, a.answer, TRUE)
      <4>1. /\ view[a.answer] = view[After(kind[a.turn], menu)]
            /\ view[a.answer] = view[menu]
        BY <3>2 DEF Reply, Agrees
      <4>2. screen'.state = a.answer
        BY <3>1, <3>2, <2>1 DEF Present
      <4>3. QED
        BY <1>t, <2>1, <4>1, <4>2 DEF Agrees
    <3>3. CASE Present(a.turn, Mock("voice"), FALSE)
      <4>1. ~screen'.genuine
        BY <3>1, <3>3, <2>1 DEF Present
      <4>2. QED
        BY <2>1, <4>1 DEF Agrees
    <3>4. QED
      BY <1>10, <2>2, <3>2, <3>3 DEF Reply, Refuse
  <2>4. QED
    BY <1>10, <2>2, <2>3 DEF Reply, Refuse
<1>11. ASSUME NEW a \in live, Lose(a) PROVE Agrees(view)'
  <2>1. Active' \subseteq Active /\ InFlight' = InFlight
    BY <1>11 DEF Lose, Active, InFlight
  <2>2. QED
    BY <1>11, <2>1, <1>k DEF Lose
<1>12. CASE UNCHANGED vars
  <2>1. Active' \subseteq Active /\ InFlight' = InFlight
    BY <1>12 DEF vars, Active, InFlight
  <2>2. QED
    BY <1>12, <2>1, <1>k DEF vars
<1>13. QED
  BY <1>1, <1>2, <1>3, <1>4, <1>5, <1>6, <1>7, <1>8, <1>9, <1>10, <1>11, <1>12 DEF Next
-----------------------------------------------------------------------------
(* Where a key leads, and where it leads the second time.  Whether a call  *)
(* is at the confirmation is settled by the first press of any key.        *)
Asked == [s \in States |-> s = "sos_confirm"]

(* After, one prompt at a time. *)
LEMMA Leads ==
  ASSUME NEW k \in Keys
  PROVE  /\ \A s : After("voice", s) = "speech"
         /\ After(k, "language") = IF k \in LANGUAGE_KEYS THEN "menu" ELSE "language"
         /\ After(k, "menu") = IF k = "4" THEN "sos_confirm" ELSE IF k = "9" THEN "speech"
                               ELSE IF k = "#" THEN "ended" ELSE "menu"
         /\ After(k, "sos_confirm") = IF k \in {"1", "0", "#"} THEN "menu" ELSE "sos_confirm"
         /\ After(k, "speech") = IF k \in {"0", "#"} THEN "menu" ELSE "speech"
         /\ After(k, "ended") = "language"
<1>1. k # "voice"
  BY DEF Keys
<1>2. \A s : After("voice", s) = "speech"
  BY DEF After, Effect, Transition
<1>3. \A s : After(k, s) = next_state(s, k).state
  BY <1>1 DEF After, Effect
<1>4. After(k, "language") = IF k \in LANGUAGE_KEYS THEN "menu" ELSE "language"
  BY <1>3 DEF next_state, main_menu, Transition
<1>5. After(k, "menu") = IF k = "4" THEN "sos_confirm" ELSE IF k = "9" THEN "speech"
                         ELSE IF k = "#" THEN "ended" ELSE "menu"
  <2>1. next_state("menu", k) = Menu(k)
    BY DEF next_state
  <2>2. DOMAIN Info = {"1", "2", "3"}
    BY DEF Info
  <2>3. QED
    BY <1>3, <2>1, <2>2 DEF Menu, Ask, main_menu, Transition
<1>6. After(k, "sos_confirm") = IF k \in {"1", "0", "#"} THEN "menu" ELSE "sos_confirm"
  BY <1>3 DEF next_state, SosConfirm, main_menu, Transition
<1>7. After(k, "speech") = IF k \in {"0", "#"} THEN "menu" ELSE "speech"
  BY <1>3 DEF next_state, main_menu, Transition
<1>8. After(k, "ended") = "language"
  BY <1>3 DEF next_state, start, Transition
<1>9. QED
  BY <1>2, <1>4, <1>5, <1>6, <1>7, <1>8

LEMMA ConfirmRepeats ==
  ASSUME NEW k \in Kinds \cup {"#"}, NEW s \in States
  PROVE  Asked[After(k, After(k, s))] = Asked[After(k, s)]
<1>1. /\ k \in {"voice"} \cup Keys
      /\ After(k, s) \in States /\ After(k, After(k, s)) \in States
  BY KindsAssumption, MenuStates DEF Keys, After
<1>2. CASE k = "voice"
  BY <1>1, <1>2, Leads DEF Keys
<1>3. CASE k \in Keys
  <2>1. s \in {"language", "menu", "sos_confirm", "speech", "ended"}
    BY DEF States
  <2>2. (After(k, After(k, s)) = "sos_confirm") <=> (After(k, s) = "sos_confirm")
    BY <1>3, <2>1, Leads DEF LANGUAGE_KEYS
  <2>3. QED
    BY <1>1, <2>2 DEF Asked
<1>4. QED
  BY <1>1, <1>2, <1>3

(* An emergency was raised by a 1, at the confirmation if the caller had   *)
(* the server's own prompt before him; and a 1 under way finds the menu    *)
(* there only in that case.                                                *)
Raised ==
  \A t \in raised :
    /\ kind[t] = "1"
    /\ seen[t].genuine /\ ~crowded => seen[t].state = "sos_confirm"

Ready ==
  ~crowded => \A t \in Active :
    kind[t] = "1" /\ seen[t].genuine /\ menu = "sos_confirm" => seen[t].state = "sos_confirm"

ConfirmInv == Raised /\ Ready /\ (~crowded => Agrees(Asked))

CallInv == Typed /\ Begun /\ Single /\ Fresh

LEMMA CallStep == CallInv /\ [Next]_vars => CallInv'
BY TypeStep, AnswerStep, BegunStep, SingleStep, FreshStep DEF CallInv, Typed

LEMMA InitCall == Init => CallInv
<1> SUFFICES ASSUME Init PROVE CallInv
  OBVIOUS
<1>1. Begun /\ Fresh
  BY DEF Init, Begun, Fresh
<1>2. Active = {} /\ InFlight = {}
  BY DEF Init, Active, InFlight
<1>3. QED
  BY <1>1, <1>2, InitTyped DEF CallInv, Single

(* A fresh call agrees in every way. *)
LEMMA InitAgrees ==
  ASSUME NEW CONSTANT view, Init
  PROVE  Agrees(view)
<1>1. live = {} /\ Active = {} /\ screen.state = menu
  BY DEF Init, Active, InFlight
<1>2. QED
  BY <1>1 DEF Agrees

LEMMA AskedStep ==
  ASSUME CallInv, ~crowded => Agrees(Asked), [Next]_vars
  PROVE  ~crowded' => Agrees(Asked)'
<1> SUFFICES ASSUME ~crowded' PROVE Agrees(Asked)'
  OBVIOUS
<1>1. Typed /\ Begun /\ Single /\ Fresh
  BY DEF CallInv
<1>2. ~crowded
  BY <1>1, ActiveStep
<1>3. ASSUME NEW a \in live PROVE Repeats(Asked, a)
  <2>1. kind[a.turn] \in Kinds \cup {"#"} /\ menu \in States
    BY <1>1 DEF Typed, TypeOK, Attempt
  <2>2. QED
    BY <2>1, ConfirmRepeats DEF Repeats
<1>4. QED
  BY <1>1, <1>2, <1>3, AgreesStep

(* A 1 never leads to the confirmation. *)
LEMMA OneAsksNothing ==
  ASSUME CallInv, ~crowded, Agrees(Asked), NEW a \in live, Held(a), kind[a.turn] = "1"
  PROVE  a.answer # "sos_confirm"
<1>1. menu \in States /\ a.answer \in States
  BY DEF CallInv, Typed, TypeOK, AnswerKnown, Held
<1>2. After("1", menu) \in States /\ After("1", menu) # "sos_confirm"
  <2>1. "1" \in Keys
    BY DEF Keys
  <2>2. QED
    BY <1>1, <2>1, Leads DEF States, LANGUAGE_KEYS
<1>3. Asked[a.answer] = Asked[After("1", menu)]
  BY DEF Agrees
<1>4. QED
  BY <1>1, <1>2, <1>3 DEF Asked

(* Only the 1 at the confirmation dispatches. *)
LEMMA OnlyOneDispatches ==
  ASSUME NEW k \in Kinds \cup {"#"}, NEW s \in States, Effect(k, s).action = "sos_dispatch"
  PROVE  k = "1" /\ s = "sos_confirm"
<1>1. k # "voice"
  BY DEF Effect, Transition
<1>2. next_state(s, k).action = "sos_dispatch"
  BY <1>1 DEF Effect
<1>3. s # "language" /\ s # "speech" /\ s # "ended"
  BY <1>2 DEF next_state, main_menu, start, Transition
<1>4. s # "menu"
  <2> SUFFICES ASSUME s = "menu" PROVE FALSE
    OBVIOUS
  <2>1. Menu(k).action = "sos_dispatch"
    BY <1>2 DEF next_state
  <2>2. CASE k \in {"1", "2", "3"}
    BY <2>1, <2>2 DEF Menu, Info, main_menu, Transition
  <2>3. CASE k \notin {"1", "2", "3"}
    BY <2>1, <2>3 DEF Menu, Info, Ask, main_menu, Transition
  <2>4. QED
    BY <2>2, <2>3
<1>5. s = "sos_confirm"
  BY <1>3, <1>4 DEF States
<1>6. SosConfirm(k).action = "sos_dispatch"
  BY <1>2, <1>5 DEF next_state
<1>7. QED
  BY <1>5, <1>6 DEF SosConfirm, main_menu, Transition

LEMMA RaisedStep == CallInv /\ ConfirmInv /\ [Next]_vars => Raised'
<1> SUFFICES ASSUME CallInv, ConfirmInv, [Next]_vars, NEW t \in raised'
             PROVE  /\ kind'[t] = "1"
                    /\ seen'[t].genuine /\ ~crowded' => seen'[t].state = "sos_confirm"
  BY DEF Raised
<1> USE DEF appVars, serverVars, historyVars
<1>t. /\ turns \in Nat /\ raised \subseteq Turns
      /\ kind \in [Turns -> Kinds \cup {"#"}] /\ seen \in [Turns -> Screen]
      /\ menu \in States
      /\ \A a \in live : a.turn \in Turns /\ a.turn \in Active
      /\ \A u \in Turns : u > turns => u \notin raised
      /\ Typed
  BY MaxTurnsAssumption DEF CallInv, Typed, TypeOK, Attempt, Active, Fresh
<1>c. ~crowded' => ~crowded
  BY <1>t, ActiveStep
<1>1. CASE t \in raised /\ UNCHANGED <<kind, seen>>
  BY <1>1, <1>c DEF ConfirmInv, Raised
<1>2. ASSUME NEW k \in Kinds, Begin(k)
      PROVE  t \in raised /\ kind'[t] = kind[t] /\ seen'[t] = seen[t]
  <2>1. raised' = raised /\ t \in raised
    BY <1>2 DEF Begin
  <2>2. t # turns + 1
    BY <1>t, <2>1 DEF Turns
  <2>3. QED
    BY <1>2, <1>t, <2>1, <2>2 DEF Begin
<1>3. ASSUME NEW a \in live, Apply(a), t \notin raised
      PROVE  /\ kind'[t] = "1"
             /\ seen'[t].genuine /\ ~crowded' => seen'[t].state = "sos_confirm"
  <2>1. t = a.turn /\ Effect(kind[t], menu).action = "sos_dispatch"
    BY <1>3 DEF Apply
  <2>2. kind[t] = "1" /\ menu = "sos_confirm"
    BY <1>t, <2>1, OnlyOneDispatches
  <2>3. UNCHANGED <<kind, seen>>
    BY <1>3 DEF Apply
  <2>4. QED
    BY <1>t, <1>c, <2>1, <2>2, <2>3 DEF ConfirmInv, Ready
<1>4. \/ UNCHANGED <<kind, seen, raised>>
      \/ \E k \in Kinds : Begin(k)
      \/ \E a \in live : Apply(a) /\ UNCHANGED <<kind, seen>>
  BY DEF Next, vars, Unheard, NoReply, Retry, Forget, Check, Apply, Store, Remember,
         Refuse, Reply, Lose
<1>5. CASE \E k \in Kinds : Begin(k)
  BY <1>2, <1>5, <1>c DEF ConfirmInv, Raised
<1>6. QED
  BY <1>1, <1>3, <1>4, <1>5

(* A 1 that finds the confirmation was pressed at it: what the menu is when *)
(* the turn begins is what the caller sees, and the turn's own attempts     *)
(* lead away from there.                                                    *)
LEMMA ReadyStep == CallInv /\ ConfirmInv /\ [Next]_vars => Ready'
<1> SUFFICES ASSUME CallInv, ConfirmInv, [Next]_vars, ~crowded', NEW t \in Active',
                    kind'[t] = "1", seen'[t].genuine, menu' = "sos_confirm"
             PROVE  seen'[t].state = "sos_confirm"
  BY DEF Ready
<1> USE DEF appVars, serverVars, historyVars
<1>t. /\ turns \in Nat /\ screen \in Screen /\ menu \in States
      /\ kind \in [Turns -> Kinds \cup {"#"}] /\ seen \in [Turns -> Screen]
      /\ \A a \in live : a.turn \in Turns /\ a.turn \in Active
      /\ Active \subseteq Turns /\ Typed /\ Begun /\ Single
  BY MaxTurnsAssumption DEF CallInv, Typed, TypeOK, Attempt, Active, InFlight
<1>c. ~crowded /\ Agrees(Asked)
  BY <1>t, ActiveStep DEF ConfirmInv
<1>1. ASSUME NEW k \in Kinds, Begin(k) PROVE seen'[t].state = "sos_confirm"
  <2>1. live = {} /\ InFlight = {} /\ menu' = menu
    BY <1>1 DEF Begin
  <2>2. turns + 1 \in Turns
    BY <1>1, <1>t, MaxTurnsAssumption DEF Begin, Turns
  <2>3. t = turns + 1
    BY <1>1, <1>t, <2>1, <2>2 DEF Begin, Send, Active, InFlight, Begun
  <2>4. seen'[t] = screen
    BY <1>1, <1>t, <2>2, <2>3 DEF Begin
  <2>5. Asked[screen.state] = Asked[menu]
    BY <2>1, <2>4, <1>c DEF Agrees
  <2>6. QED
    BY <1>t, <2>1, <2>4, <2>5 DEF Asked, Screen
<1>2. ASSUME ~ \E k \in Kinds : Begin(k)
      PROVE  t \in Active /\ kind'[t] = kind[t] /\ seen'[t] = seen[t]
  <2>1. UNCHANGED <<kind, seen>>
    BY <1>2 DEF Next, vars, Unheard, NoReply, Retry, Forget, Check, Apply, Store, Remember,
       Refuse, Reply, Lose
  <2>2. Active' \subseteq Active
    <3>1. UNCHANGED turns \/ Unheard
      BY <1>2 DEF Next, vars, NoReply, Retry, Forget, Check, Apply, Store, Remember,
         Refuse, Reply, Lose
    <3>2. CASE UNCHANGED turns
      BY <1>t, <3>2, ActiveStep
    <3>3. CASE Unheard
      BY <3>3 DEF Unheard, Active, InFlight
    <3>4. QED
      BY <3>1, <3>2, <3>3
  <2>3. QED
    BY <2>1, <2>2
<1>3. ASSUME NEW a \in live, Store(a) PROVE FALSE
  <2>1. menu' = a.answer /\ Held(a) /\ UNCHANGED <<kind, client>>
    BY <1>3 DEF Store, Stored, Held
  <2>2. a.turn = t
    <3>1. Move(a, "stored", a.answer)
      BY <1>3 DEF Store
    <3>2. Active' \subseteq Active
      BY <1>t, <2>1, <3>1, Moved DEF Active, InFlight
    <3>3. QED
      BY <1>t, <1>c, <3>2 DEF Single
  <2>3. QED
    BY <1>c, <2>1, <2>2, OneAsksNothing
<1>4. CASE ~ (\E k \in Kinds : Begin(k)) /\ menu' = menu
  BY <1>2, <1>4, <1>c DEF ConfirmInv, Ready
<1>5. menu' = menu \/ \E a \in live : Store(a)
  BY DEF Next, vars, Begin, Unheard, NoReply, Retry, Forget, Check, Apply, Remember,
         Refuse, Reply, Lose
<1>6. QED
  BY <1>1, <1>3, <1>4, <1>5

(* Only a 1 raises an emergency, and only at the confirmation, if what the *)
(* caller had before him was the server's and his turns never overlapped:  *)
(* however often the turns were sent again, and whatever became of their   *)
(* receipts.                                                               *)
THEOREM DispatchConfirmedCorrect == Spec => []DispatchConfirmed
<1>1. Init => CallInv /\ ConfirmInv
  <2> SUFFICES ASSUME Init PROVE CallInv /\ ConfirmInv
    OBVIOUS
  <2>1. raised = {} /\ Active = {}
    BY DEF Init, Active, InFlight
  <2>2. QED
    BY <2>1, InitCall, InitAgrees DEF ConfirmInv, Raised, Ready
<1>2. CallInv /\ ConfirmInv /\ [Next]_vars => CallInv' /\ ConfirmInv'
  BY CallStep, AskedStep, RaisedStep, ReadyStep DEF ConfirmInv
<1>3. ConfirmInv => DispatchConfirmed
  BY DEF ConfirmInv, Raised, DispatchConfirmed
<1>4. QED
  BY <1>1, <1>2, <1>3, PTL DEF Spec
-----------------------------------------------------------------------------
(* Without a hang-up key the call stays among three prompts, and there no  *)
(* key goes further the second time.                                       *)
Itself == [s \in States |-> s]

Prompts == {"menu", "sos_confirm", "speech"}

LEMMA PromptsRepeat ==
  ASSUME NEW k \in Kinds \cup {"#"}, k # "#", NEW s \in Prompts
  PROVE  After(k, s) \in Prompts /\ After(k, After(k, s)) = After(k, s)
<1>1. k \in {"voice"} \cup Keys
  BY KindsAssumption
<1>2. CASE k = "voice"
  <2>1. "1" \in Keys
    BY DEF Keys
  <2>2. QED
    BY <1>2, <2>1, Leads DEF Prompts
<1>3. CASE k \in Keys
  BY <1>3, Leads DEF Prompts
<1>4. QED
  BY <1>1, <1>2, <1>3

Sent == \A a \in live : client[a.turn] # "unused"

InMenu ==
  ~HungUp => /\ menu \in Prompts
             /\ \A a \in live : Held(a) => a.answer \in Prompts
             /\ \A t \in Turns : receipts[t] # "none" => receipts[t] \in Prompts

LEMMA SentStep == Typed /\ Sent /\ [Next]_vars => Sent'
<1> SUFFICES ASSUME Typed, Sent, [Next]_vars PROVE Sent'
  OBVIOUS
<1> USE DEF appVars, serverVars, historyVars
<1>t. /\ turns \in 0..MaxTurns
      /\ client \in [Turns -> {"unused", "waiting", "backoff", "done"}]
      /\ \A a \in live : a.turn \in Turns
  BY DEF Typed, TypeOK, Attempt
<1>1. ASSUME NEW k \in Kinds, Begin(k) PROVE Sent'
  BY <1>1, <1>t, MaxTurnsAssumption DEF Begin, Send, Sent, Turns
<1>2. ASSUME NEW t \in Turns, NoReply(t) \/ Retry(t) PROVE Sent'
  <2>1. \A u \in Turns : client[u] # "unused" => client'[u] # "unused"
    BY <1>2, <1>t DEF NoReply, Retry
  <2>2. client'[t] # "unused"
    BY <1>2, <1>t DEF NoReply, Retry
  <2>3. \A b \in live' : b \in live \/ b.turn = t
    <3>1. NoReply(t) => live' = live
      BY DEF NoReply
    <3>2. Retry(t) => live' = live \cup
            {[turn |-> t, round |-> round[t] + 1, at |-> "sent", answer |-> "none"]}
      BY DEF Retry, Send
    <3>3. QED
      BY <1>2, <3>1, <3>2
  <2>4. QED
    BY <1>t, <2>1, <2>2, <2>3 DEF Sent
<1>3. ASSUME NEW a \in live, Refuse(a) \/ Reply(a) PROVE Sent'
  BY <1>3, <1>t DEF Refuse, Reply, Sent
<1>m. ASSUME NEW a \in live, NEW step, NEW answer, Move(a, step, answer), client' = client
      PROVE  Sent'
  BY <1>m, Moved DEF Sent
<1>4. ASSUME NEW a \in live, Check(a) \/ Apply(a) \/ Store(a) \/ Remember(a) PROVE Sent'
  BY <1>4, <1>m DEF Check, Apply, Store, Remember
<1>5. ASSUME UNCHANGED client, live' \subseteq live PROVE Sent'
  BY <1>5 DEF Sent
<1>6. QED
  BY <1>1, <1>2, <1>3, <1>4, <1>5 DEF Next, vars, Unheard, Forget, Lose

LEMMA HungUpStep == Typed /\ Begun /\ HungUp /\ [Next]_vars => HungUp'
<1> SUFFICES ASSUME Typed, Begun, [Next]_vars,
                    NEW t \in Turns, client[t] # "unused", kind[t] = "#"
             PROVE  client'[t] # "unused" /\ kind'[t] = "#"
  BY DEF HungUp
<1>t. /\ turns \in Nat /\ t <= turns
      /\ client \in [Turns -> {"unused", "waiting", "backoff", "done"}]
      /\ kind \in [Turns -> Kinds \cup {"#"}]
  BY MaxTurnsAssumption DEF Typed, TypeOK, Begun
<1>1. ASSUME NEW k \in Kinds, Begin(k) PROVE client'[t] # "unused" /\ kind'[t] = "#"
  <2>1. t # turns + 1
    BY <1>t DEF Turns
  <2>2. QED
    BY <1>1, <1>t, <2>1 DEF Begin
<1>2. ASSUME NEW u \in Turns, NoReply(u) \/ Retry(u)
      PROVE  client'[t] # "unused" /\ kind'[t] = "#"
  BY <1>2, <1>t DEF NoReply, Retry
<1>3. ASSUME NEW a \in live, Refuse(a) \/ Reply(a)
      PROVE  client'[t] # "unused" /\ kind'[t] = "#"
  BY <1>3, <1>t DEF Refuse, Reply
<1>4. QED
  BY <1>1, <1>2, <1>3
  DEF Next, vars, appVars, serverVars, historyVars, Unheard, Forget, Check, Apply, Store,
      Remember, Lose

(* A turn under way in a call without a hang-up key is another key. *)
LEMMA OtherKey ==
  ASSUME Typed, Sent, ~HungUp, NEW a \in live
  PROVE  kind[a.turn] \in Kinds \cup {"#"} /\ kind[a.turn] # "#"
BY DEF Typed, TypeOK, Attempt, Sent, HungUp

LEMMA InMenuStep == Typed /\ Begun /\ Sent /\ InMenu /\ [Next]_vars => InMenu'
<1> SUFFICES ASSUME Typed, Begun, Sent, InMenu, [Next]_vars, ~HungUp'
             PROVE  /\ menu' \in Prompts
                    /\ \A a \in live' : Held(a) => a.answer \in Prompts
                    /\ \A t \in Turns : receipts'[t] # "none" => receipts'[t] \in Prompts
  BY DEF InMenu, Held
<1> USE DEF appVars, serverVars, historyVars, Held
<1>h. ~HungUp
  BY HungUpStep
<1>t. /\ menu \in Prompts
      /\ \A a \in live : Held(a) => a.answer \in Prompts
      /\ \A t \in Turns : receipts[t] # "none" => receipts[t] \in Prompts
      /\ receipts \in [Turns -> States \cup {"none"}]
      /\ \A a \in live : a.turn \in Turns
  BY <1>h DEF InMenu, Typed, TypeOK, Attempt
<1>m. ASSUME NEW a \in live, NEW step, NEW answer, Move(a, step, answer),
             step = "checked" \/ answer \in Prompts
      PROVE  \A b \in live' : Held(b) => b.answer \in Prompts
  BY <1>m, <1>t, Moved
<1>1. ASSUME NEW k \in Kinds, Begin(k) PROVE \A b \in live' : Held(b) => b.answer \in Prompts
  BY <1>1, <1>t DEF Begin, Send
<1>2. ASSUME NEW t \in Turns, Retry(t) PROVE \A b \in live' : Held(b) => b.answer \in Prompts
  BY <1>2, <1>t DEF Retry, Send
<1>3. ASSUME NEW a \in live, Check(a) PROVE \A b \in live' : Held(b) => b.answer \in Prompts
  BY <1>3, <1>t, <1>m DEF Check
<1>4. ASSUME NEW a \in live, Apply(a) PROVE \A b \in live' : Held(b) => b.answer \in Prompts
  <2>1. After(kind[a.turn], menu) \in Prompts
    BY <1>h, <1>t, OtherKey, PromptsRepeat
  <2>2. Move(a, "applied", After(kind[a.turn], menu))
    BY <1>4 DEF Apply, After
  <2>3. QED
    BY <1>m, <2>1, <2>2
<1>5. ASSUME NEW a \in live, Store(a)
      PROVE  menu' \in Prompts /\ \A b \in live' : Held(b) => b.answer \in Prompts
  BY <1>5, <1>t, <1>m DEF Store, Stored
<1>6. ASSUME NEW a \in live, Remember(a)
      PROVE  /\ \A b \in live' : Held(b) => b.answer \in Prompts
             /\ \A t \in Turns : receipts'[t] # "none" => receipts'[t] \in Prompts
  BY <1>6, <1>t, <1>m DEF Remember
<1>7. ASSUME NEW u \in Turns, Forget(u)
      PROVE  \A t \in Turns : receipts'[t] # "none" => receipts'[t] \in Prompts
  BY <1>7, <1>t DEF Forget
<1>8. QED
  BY <1>1, <1>2, <1>3, <1>4, <1>5, <1>6, <1>7, <1>t
  DEF Next, vars, Begin, Retry, Check, Apply, Store, Remember, Forget,
      Unheard, NoReply, Refuse, Reply, Lose

(* While no turn is hurried or without its receipt, each is acted on once, *)
(* and everybody has the one answer.                                       *)
Sole == hurried = {} /\ unreceipted = {}

OneAnswer ==
  /\ \A a \in live : Settled(a) => a.answer = menu
  /\ \A t \in Active : receipts[t] # "none" =>
       receipts[t] = menu /\ \A a \in live : a.at \notin {"checked", "applied"}
  /\ InFlight = {} /\ screen.genuine => live = {} /\ screen.state = menu

LEMMA OneAnswerStep ==
  ASSUME CallInv, OnceInv, OneAnswer, [Next]_vars, ~crowded', Sole'
  PROVE  OneAnswer'
<1> USE DEF appVars, serverVars, historyVars, Settled
<1>s. Sole
  BY DEF Sole, Next, vars, Begin, Unheard, NoReply, Retry, Forget, Check, Apply, Store,
         Remember, Refuse, Reply, Lose
<1>t. /\ turns \in Nat
      /\ client \in [Turns -> {"unused", "waiting", "backoff", "done"}]
      /\ receipts \in [Turns -> States \cup {"none"}]
      /\ InFlight \subseteq Active /\ Active \subseteq Turns
      /\ \A a, b \in live : a = b
      /\ \A t \in InFlight : t = turns
      /\ \A a \in live, t \in Active : a.turn = t
      /\ \A a \in live : a \in Attempt /\ a.turn \in Active
      /\ Typed /\ Begun /\ Fresh
  <2>1. ~crowded /\ Typed
    BY ActiveStep DEF CallInv
  <2>2. /\ turns \in Nat
        /\ client \in [Turns -> {"unused", "waiting", "backoff", "done"}]
        /\ receipts \in [Turns -> States \cup {"none"}]
        /\ \A a \in live : a \in Attempt /\ a.turn \in Turns /\ a.turn \in Active
        /\ InFlight \subseteq Active /\ Active \subseteq Turns
    BY <2>1, MaxTurnsAssumption DEF Typed, TypeOK, Attempt, Active, InFlight
  <2>3. /\ \A t, u \in Active : t = u
        /\ \A t \in InFlight : t = turns
    BY <2>1 DEF CallInv, Single
  <2>4. \A t \in Turns : Alone(t)
    BY <1>s DEF OnceInv, Once, Sole
  <2>5. \A a, b \in live : a = b
    BY <2>2, <2>3, <2>4 DEF Alone
  <2>6. QED
    BY <2>1, <2>2, <2>3, <2>5 DEF CallInv
<1>n. "none" \notin States
  BY DEF States
<1>1. ASSUME NEW k \in Kinds, Begin(k) PROVE OneAnswer'
  <2>1. live = {} /\ InFlight = {}
    BY <1>1 DEF Begin
  <2>2. turns' = turns + 1 /\ turns' \in Turns /\ receipts' = receipts
    BY <1>1, <1>t, MaxTurnsAssumption DEF Begin, Turns
  <2>3. \A b \in live' : b.at = "sent"
    BY <1>1, <2>1 DEF Begin, Send
  <2>4. turns' \in InFlight'
    BY <1>1, <1>t, <2>2 DEF Begin, InFlight
  <2>5. \A t \in Active' : t = turns'
    BY <1>1, <1>t, <2>1 DEF Begin, Send, Active, InFlight
  <2>6. receipts[turns'] = "none"
    BY <1>t, <2>2 DEF Fresh
  <2>7. QED
    BY <2>2, <2>3, <2>4, <2>5, <2>6 DEF OneAnswer
<1>2. CASE Unheard
  BY <1>2 DEF Unheard, OneAnswer, Active, InFlight
<1>3. ASSUME NEW t \in Turns, NoReply(t) PROVE OneAnswer'
  <2>1. t = turns
    BY <1>3, <1>t DEF NoReply, InFlight
  <2>2. live' = live /\ Active' \subseteq Active /\ UNCHANGED <<menu, receipts>>
    BY <1>3, <1>t DEF NoReply, Active, InFlight
  <2>3. t \in InFlight' \/ ~screen'.genuine
    BY <1>3, <1>t, <2>1 DEF NoReply, Present, InFlight
  <2>4. QED
    BY <2>2, <2>3 DEF OneAnswer
<1>4. ASSUME NEW t \in Turns, Retry(t) PROVE OneAnswer'
  <2>1. t \in InFlight /\ t \in InFlight'
    BY <1>4, <1>t DEF Retry, InFlight
  <2>2. Active' \subseteq Active
    BY <1>4, <1>t, <2>1 DEF Retry, Send, Active, InFlight
  <2>3. \A b \in live' : b \in live \/ b.at = "sent"
    BY <1>4 DEF Retry, Send
  <2>4. UNCHANGED <<menu, receipts>>
    BY <1>4 DEF Retry
  <2>5. QED
    BY <2>1, <2>2, <2>3, <2>4 DEF OneAnswer
<1>5. ASSUME NEW t \in Turns, Forget(t) PROVE OneAnswer'
  BY <1>5 DEF Forget, Sole
<1>m. ASSUME NEW a \in live, NEW step, NEW answer, Move(a, step, answer), client' = client
      PROVE  /\ InFlight' = InFlight /\ Active' \subseteq Active /\ a.turn \in Active'
             /\ \A b \in live' : b.at = step /\ b.answer = answer
             /\ live' # {}
  <2> DEFINE moved == [a EXCEPT !.at = step, !.answer = answer]
  <2>1. live' = {moved}
    BY <1>m, <1>t DEF Move
  <2>2. moved.turn = a.turn /\ moved.at = step /\ moved.answer = answer
    BY <1>t DEF Attempt
  <2>3. InFlight' = InFlight
    BY <1>m DEF InFlight
  <2>4. QED
    BY <1>t, <2>1, <2>2, <2>3 DEF Active
<1>u. ASSUME NEW a \in live PROVE ~(InFlight = {} /\ screen.genuine)
  BY <1>u DEF OneAnswer
<1>6. ASSUME NEW a \in live, Check(a) PROVE OneAnswer'
  <2>0. UNCHANGED <<menu, screen, receipts, client>> /\ a.turn \notin unreceipted'
    BY <1>6 DEF Check, Sole
  <2>1. CASE receipts[a.turn] # "none" /\ Move(a, "replying", receipts[a.turn])
    BY <1>t, <1>m, <1>u, <2>0, <2>1 DEF OneAnswer
  <2>2. CASE receipts[a.turn] = "none" /\ Move(a, "checked", "none")
    BY <1>t, <1>m, <1>u, <2>0, <2>2 DEF OneAnswer
  <2>3. QED
    BY <1>6, <2>0, <2>1, <2>2 DEF Check
<1>7. ASSUME NEW a \in live, Apply(a) PROVE OneAnswer'
  <2>1. UNCHANGED <<menu, screen, receipts, client>> /\ a.at = "checked"
        /\ \E answer : Move(a, "applied", answer)
    BY <1>7 DEF Apply
  <2>2. receipts[a.turn] = "none"
    BY <1>t, <2>1 DEF OneAnswer
  <2>3. \A b \in live' : b.at = "applied"
    BY <1>m, <2>1
  <2>4. InFlight' = InFlight /\ Active' \subseteq Active
    BY <1>m, <2>1
  <2>5. QED
    BY <1>t, <1>u, <2>1, <2>2, <2>3, <2>4 DEF OneAnswer
<1>8. ASSUME NEW a \in live, Store(a) PROVE OneAnswer'
  <2>1. /\ Move(a, "stored", a.answer) /\ menu' = a.answer
        /\ UNCHANGED <<screen, receipts, client>> /\ a.at = "applied"
    BY <1>8 DEF Store, Stored
  <2>2. receipts[a.turn] = "none"
    BY <1>t, <2>1 DEF OneAnswer
  <2>3. QED
    BY <1>t, <1>m, <1>u, <2>1, <2>2 DEF OneAnswer
<1>9. ASSUME NEW a \in live, Remember(a) PROVE OneAnswer'
  <2>1. /\ Move(a, "replying", a.answer) /\ UNCHANGED <<menu, screen, client>>
        /\ a.at = "stored" /\ a.answer = menu
    BY <1>9 DEF Remember, OneAnswer
  <2>2. receipts'[a.turn] = a.answer
    BY <1>9, <1>t DEF Remember, Sole
  <2>3. QED
    BY <1>t, <1>m, <1>u, <2>1, <2>2 DEF OneAnswer
<1>10. ASSUME NEW a \in live, Reply(a) \/ Refuse(a) PROVE OneAnswer'
  <2>1. live' = {} /\ UNCHANGED <<menu, receipts, turns>>
    BY <1>10, <1>t DEF Reply, Refuse
  <2>2. Active' \subseteq Active
    BY <1>10, <1>t, <2>1 DEF Reply, Refuse, Active, InFlight
  <2>3. CASE UNCHANGED <<client, screen>>
    BY <1>u, <2>1, <2>2, <2>3 DEF OneAnswer, InFlight
  <2>4. CASE client[a.turn] = "waiting"
    <3>1. a.turn = turns
      BY <1>t, <2>4 DEF InFlight
    <3>2. CASE Reply(a) /\ Present(a.turn, a.answer, TRUE)
      <4>1. a.answer = menu
        BY <3>2 DEF Reply, OneAnswer
      <4>2. screen'.state = a.answer
        BY <3>1, <3>2, <2>1 DEF Present
      <4>3. QED
        BY <1>t, <2>1, <2>2, <4>1, <4>2 DEF OneAnswer
    <3>3. CASE Present(a.turn, Mock("voice"), FALSE)
      <4>1. ~screen'.genuine
        BY <3>1, <3>3, <2>1 DEF Present
      <4>2. QED
        BY <2>1, <2>2, <4>1 DEF OneAnswer
    <3>4. QED
      BY <1>10, <2>3, <3>2, <3>3 DEF Reply, Refuse
  <2>5. QED
    BY <1>10, <2>3, <2>4 DEF Reply, Refuse
<1>11. ASSUME NEW a \in live, Lose(a) PROVE OneAnswer'
  <2>1. Active' \subseteq Active /\ InFlight' = InFlight
    BY <1>11 DEF Lose, Active, InFlight
  <2>2. QED
    BY <1>11, <1>u, <2>1 DEF Lose, OneAnswer
<1>12. CASE UNCHANGED vars
  BY <1>12 DEF vars, OneAnswer, Active, InFlight
<1>13. QED
  BY <1>1, <1>2, <1>3, <1>4, <1>5, <1>6, <1>7, <1>8, <1>9, <1>10, <1>11, <1>12 DEF Next

ScreenInv ==
  /\ CallInv /\ OnceInv /\ Sent /\ InMenu
  /\ ~crowded /\ ~HungUp => Agrees(Itself)
  /\ ~crowded /\ Sole => OneAnswer

LEMMA ItselfStep ==
  ASSUME ScreenInv, [Next]_vars, ~crowded', ~HungUp'
  PROVE  Agrees(Itself)'
<1>1. Typed /\ Begun /\ Single /\ Fresh /\ Sent /\ InMenu
  BY DEF ScreenInv, CallInv
<1>2. ~crowded /\ ~HungUp
  BY <1>1, ActiveStep, HungUpStep
<1>3. ASSUME NEW a \in live PROVE Repeats(Itself, a)
  <2>1. menu \in Prompts
    BY <1>1, <1>2 DEF InMenu
  <2>2. kind[a.turn] \in Kinds \cup {"#"} /\ kind[a.turn] # "#"
    BY <1>1, <1>2, OtherKey
  <2>3. QED
    BY <2>1, <2>2, PromptsRepeat DEF Repeats
<1>4. Agrees(Itself)
  BY <1>2 DEF ScreenInv
<1>5. QED
  BY <1>1, <1>3, <1>4, AgreesStep

LEMMA SoleKept == ASSUME [Next]_vars, Sole' PROVE Sole
BY DEF Sole, Next, vars, appVars, serverVars, historyVars, Begin, Unheard, NoReply, Retry,
       Forget, Check, Apply, Store, Remember, Refuse, Reply, Lose

(* What the caller looks at is the menu the server is at, whenever a call  *)
(* whose turns never overlapped is at rest on an answer of the server's:   *)
(* through lost answers, retries that overtake each other and lost         *)
(* receipts, unless these meet a hang-up key.                              *)
THEOREM ScreenTrueCorrect == Spec => []ScreenTrue
<1>1. Init => ScreenInv
  <2> SUFFICES ASSUME Init PROVE ScreenInv
    OBVIOUS
  <2>1. OnceInv
    BY DEF Init, OnceInv, Begun, Once, Alone
  <2>2. Sent /\ InMenu
    BY DEF Init, Sent, InMenu, Prompts
  <2>3. OneAnswer
    BY DEF Init, OneAnswer, Active, InFlight
  <2>4. QED
    BY <2>1, <2>2, <2>3, InitCall, InitAgrees DEF ScreenInv
<1>2. ScreenInv /\ [Next]_vars => ScreenInv'
  <2> SUFFICES ASSUME ScreenInv, [Next]_vars PROVE ScreenInv'
    OBVIOUS
  <2>1. CallInv' /\ Sent' /\ InMenu'
    BY CallStep, SentStep, InMenuStep DEF ScreenInv, CallInv
  <2>2. OnceInv'
    BY BegunStep, OnceStep DEF ScreenInv, CallInv, OnceInv
  <2>3. ~crowded' /\ ~HungUp' => Agrees(Itself)'
    BY ItselfStep
  <2>4. ASSUME ~crowded', Sole' PROVE OneAnswer'
    <3>1. ~crowded /\ Sole
      BY <2>4, ActiveStep, SoleKept DEF ScreenInv, CallInv
    <3>2. QED
      BY <2>4, <3>1, OneAnswerStep DEF ScreenInv
  <2>5. QED
    BY <2>1, <2>2, <2>3, <2>4 DEF ScreenInv
<1>3. ScreenInv => ScreenTrue
  <2> SUFFICES ASSUME ScreenInv, live = {}, InFlight = {}, ~crowded, screen.genuine,
                      HungUp => Sole
               PROVE  screen.state = menu
    BY DEF ScreenTrue, Sole
  <2>1. CASE HungUp
    BY <2>1 DEF ScreenInv, OneAnswer
  <2>2. CASE ~HungUp
    <3>1. Itself[screen.state] = Itself[menu]
      BY <2>2 DEF ScreenInv, Agrees
    <3>2. screen.state \in States /\ menu \in States
      BY DEF ScreenInv, CallInv, Typed, TypeOK, Screen
    <3>3. QED
      BY <3>1, <3>2 DEF Itself
  <2>3. QED
    BY <2>1, <2>2
<1>4. QED
  BY <1>1, <1>2, <1>3, PTL DEF Spec
=============================================================================
