-------------------------- MODULE SosDispatchProofs --------------------------
(***************************************************************************)
(* Theorems about SosDispatch, for any set of emergencies and any set of   *)
(* status changes, of any number.                                          *)
(***************************************************************************)
EXTENDS SosDispatch, FiniteSetTheorems, TLAPS

(* Every variable has its type, whatever the interleaving.                 *)
THEOREM TypeCorrect == Spec => []TypeOK
<1>1. Init => TypeOK
  BY DEF Init, TypeOK, NoRow, Row, Running, Finished, Statuses, Unresolved
<1>2. TypeOK /\ [Next]_vars => TypeOK'
  <2> SUFFICES ASSUME TypeOK, [Next]_vars PROVE TypeOK'
    OBVIOUS
  <2> USE DEF TypeOK, Statuses, Unresolved, Running, Finished, Goto,
              storeVars, triggerVars, roomVars
  <2>1. ASSUME NEW e \in Emergencies, Trigger(e) PROVE TypeOK'
    BY <2>1 DEF Trigger
  <2>2. ASSUME NEW e \in Emergencies, PersistCommit(e) PROVE TypeOK'
    <3>1. row' \in [Emergencies -> Row] /\ clock' \in Nat
      BY <2>2 DEF PersistCommit, InsertRow, Row
    <3>2. QED
      BY <2>2, <3>1 DEF PersistCommit
  <2>3. ASSUME NEW e \in Emergencies, PersistFail(e) PROVE TypeOK'
    <3>1. row' \in [Emergencies -> Row] /\ clock' \in Nat
      <4>1. CASE InsertRow(e)
        BY <4>1 DEF InsertRow, Row
      <4>2. CASE UNCHANGED <<row, clock>>
        BY <4>2
      <4>3. QED
        BY <2>3, <4>1, <4>2 DEF PersistFail
    <3>2. QED
      BY <2>3, <3>1 DEF PersistFail
  <2>4. ASSUME NEW e \in Emergencies, Refresh(e) PROVE TypeOK'
    <3>1. row[e].status \in {"NONE"} \cup Statuses
      BY <2>4 DEF Refresh, Recorded, Row
    <3>2. QED
      BY <2>4, <3>1 DEF Refresh
  <2>5. ASSUME NEW e \in Emergencies, RefreshFail(e) PROVE TypeOK'
    BY <2>5 DEF RefreshFail
  <2>6. ASSUME NEW e \in Emergencies, Publish(e) PROVE TypeOK'
    BY <2>6 DEF Publish
  <2>7. ASSUME NEW e \in Emergencies, PublishFail(e) PROVE TypeOK'
    BY <2>7 DEF PublishFail
  <2>8. ASSUME NEW e \in Emergencies, Activate(e) PROVE TypeOK'
    BY <2>8 DEF Activate, Activation, Row
  <2>9. ASSUME NEW e \in Emergencies, ActivateFail(e) PROVE TypeOK'
    <3>1. CASE row' = row
      BY <2>9, <3>1 DEF ActivateFail
    <3>2. CASE row' = Activation(e)
      BY <2>9, <3>2 DEF ActivateFail, Activation, Row
    <3>3. QED
      BY <2>9, <3>1, <3>2 DEF ActivateFail
  <2>10. ASSUME NEW e \in Emergencies, Answer(e) PROVE TypeOK'
    BY <2>10 DEF Answer
  <2>11. ASSUME NEW e \in Emergencies, Crash(e) PROVE TypeOK'
    BY <2>11 DEF Crash
  <2>12. ASSUME NEW c \in Calls, NEW e \in Emergencies, NEW s \in Statuses,
                NEW n \in BOOLEAN, SetStatus(c, e, s, n)
         PROVE TypeOK'
    <3>1. row[e] \in Row
      OBVIOUS
    <3>2. inflight' \subseteq Call
      BY <2>12, <3>1 DEF SetStatus, Call
    <3>3. clash' \subseteq Emergencies /\ ordered' \subseteq Emergencies /\ sent' \subseteq Calls
      BY <2>12 DEF SetStatus
    <3>4. QED
      BY <2>12, <3>2, <3>3 DEF SetStatus
  <2>13. ASSUME NEW d \in inflight, Commit(d) PROVE TypeOK'
    <3>1. d \in Call /\ d.on \in Emergencies /\ d.id \in Calls
      BY DEF Call
    <3>2. Written(d) \in Row
      <4>1. row[d.on] \in Row /\ d.seen \in Row /\ d.status \in Statuses
        BY <3>1 DEF Call
      <4>2. QED
        BY <3>1, <4>1 DEF Written, Row
    <3>3. acked' \subseteq Calls \X Emergencies
      BY <2>13, <3>1 DEF Commit
    <3>4. QED
      BY <2>13, <3>1, <3>2, <3>3 DEF Commit
  <2>14. ASSUME NEW d \in inflight, Abandon(d) PROVE TypeOK'
    BY <2>14 DEF Abandon
  <2>15. CASE UNCHANGED vars
    BY <2>15 DEF vars
  <2>16. QED
    BY <2>1, <2>2, <2>3, <2>4, <2>5, <2>6, <2>7, <2>8, <2>9, <2>10, <2>11,
       <2>12, <2>13, <2>14, <2>15 DEF Next, TriggerStep
<1>3. QED
  BY <1>1, <1>2, PTL DEF Spec

-----------------------------------------------------------------------------
(* The pipeline's half of the inductive invariant.                         *)
LEMMA PipelineStep ==
  TypeOK /\ IndInv /\ [Next]_vars => \A f \in Emergencies : Pipeline(f)'
<1> SUFFICES ASSUME TypeOK, IndInv, [Next]_vars, NEW f \in Emergencies
             PROVE  Pipeline(f)'
  OBVIOUS
<1> USE DEF TypeOK, Goto, storeVars, triggerVars, roomVars, Pipeline, Recorded
<1>0. Pipeline(f) /\ Room(f)
  BY DEF IndInv
<1>1. ASSUME NEW e \in Emergencies, Trigger(e) PROVE Pipeline(f)'
  BY <1>0, <1>1 DEF Trigger
<1>2. ASSUME NEW e \in Emergencies, PersistCommit(e) PROVE Pipeline(f)'
  BY <1>0, <1>2 DEF PersistCommit, InsertRow
<1>3. ASSUME NEW e \in Emergencies, PersistFail(e) PROVE Pipeline(f)'
  <2>1. CASE InsertRow(e)
    BY <1>0, <1>3, <2>1 DEF PersistFail, InsertRow
  <2>2. CASE UNCHANGED <<row, clock>>
    BY <1>0, <1>3, <2>2 DEF PersistFail
  <2>3. QED
    BY <1>3, <2>1, <2>2 DEF PersistFail
<1>4. ASSUME NEW e \in Emergencies, Refresh(e) PROVE Pipeline(f)'
  BY <1>0, <1>4 DEF Refresh
<1>5. ASSUME NEW e \in Emergencies, RefreshFail(e) PROVE Pipeline(f)'
  BY <1>0, <1>5 DEF RefreshFail
<1>6. ASSUME NEW e \in Emergencies, Publish(e) PROVE Pipeline(f)'
  BY <1>0, <1>6 DEF Publish
<1>7. ASSUME NEW e \in Emergencies, PublishFail(e) PROVE Pipeline(f)'
  BY <1>0, <1>7 DEF PublishFail
<1>8. ASSUME NEW e \in Emergencies, Activate(e) PROVE Pipeline(f)'
  BY <1>0, <1>8 DEF Activate, Activation, Row
<1>9. ASSUME NEW e \in Emergencies, ActivateFail(e) PROVE Pipeline(f)'
  <2>1. CASE row' = row
    BY <1>0, <1>9, <2>1 DEF ActivateFail
  <2>2. CASE row' = Activation(e)
    BY <1>0, <1>9, <2>2 DEF ActivateFail, Activation, Row
  <2>3. QED
    BY <1>9, <2>1, <2>2 DEF ActivateFail
<1>10. ASSUME NEW e \in Emergencies, Answer(e) PROVE Pipeline(f)'
  BY <1>0, <1>10 DEF Answer
<1>11. ASSUME NEW e \in Emergencies, Crash(e) PROVE Pipeline(f)'
  BY <1>0, <1>11 DEF Crash, Running
<1>12. ASSUME NEW c \in Calls, NEW e \in Emergencies, NEW s \in Statuses,
              NEW n \in BOOLEAN, SetStatus(c, e, s, n)
       PROVE Pipeline(f)'
  BY <1>0, <1>12 DEF SetStatus
<1>13. ASSUME NEW d \in inflight, Commit(d) PROVE Pipeline(f)'
  <2>1. d \in Call /\ d.on \in Emergencies
    BY DEF Call
  <2>2. Room(d.on)
    BY <2>1 DEF IndInv
  <2>3. Recorded(d.on) /\ Written(d).status # "ABSENT"
    BY <2>1, <2>2 DEF Room, Written, Call, Statuses, Unresolved, Row
  <2>4. QED
    BY <1>0, <1>13, <2>1, <2>3 DEF Commit
<1>14. ASSUME NEW d \in inflight, Abandon(d) PROVE Pipeline(f)'
  BY <1>0, <1>14 DEF Abandon
<1>15. CASE UNCHANGED vars
  BY <1>0, <1>15 DEF vars
<1>16. QED
  BY <1>1, <1>2, <1>3, <1>4, <1>5, <1>6, <1>7, <1>8, <1>9, <1>10, <1>11,
     <1>12, <1>13, <1>14, <1>15 DEF Next, TriggerStep

-----------------------------------------------------------------------------
(* A trigger step writes no column the control room owns.  Before the      *)
(* event exists nothing is in flight on it; afterwards only its status can *)
(* move, to ACTIVATED.                                                     *)
LEMMA TriggerKeepsRoom ==
  ASSUME TypeOK, NEW f \in Emergencies, Pipeline(f), Room(f), UNCHANGED roomVars,
         \/ row'[f] = row[f]
         \/ row[f].status # "ABSENT" /\ row'[f] = [row[f] EXCEPT !.status = "ACTIVATED"]
         \/ row[f].status = "ABSENT" /\ row'[f].status = "PENDING"
  PROVE  Room(f)'
<1> USE DEF Room, Recorded, roomVars
<1>1. CASE row'[f] = row[f]
  BY <1>1
<1>2. CASE row[f].status # "ABSENT" /\ row'[f] = [row[f] EXCEPT !.status = "ACTIVATED"]
  BY <1>2 DEF TypeOK, Row
<1>3. CASE row[f].status = "ABSENT" /\ row'[f].status = "PENDING"
  BY <1>3
<1>4. QED
  BY <1>1, <1>2, <1>3

(* The control room's half of the inductive invariant.                     *)
LEMMA RoomStep ==
  TypeOK /\ IndInv /\ [Next]_vars => \A f \in Emergencies : Room(f)'
<1> SUFFICES ASSUME TypeOK, IndInv, [Next]_vars, NEW f \in Emergencies
             PROVE  Room(f)'
  OBVIOUS
<1>0. Pipeline(f) /\ Room(f)
  BY DEF IndInv
<1>1. ASSUME NEW e \in Emergencies, Trigger(e) \/ TriggerStep(e) \/ Crash(e)
      PROVE Room(f)'
  <2> USE DEF storeVars
  <2>0. UNCHANGED roomVars
    BY <1>1 DEF Trigger, TriggerStep, Crash, PersistCommit, PersistFail, Refresh,
                RefreshFail, Publish, PublishFail, Activate, ActivateFail, Answer
  <2>1. CASE row' = row
    BY <1>0, <2>0, <2>1, TriggerKeepsRoom
  <2>2. CASE InsertRow(e) /\ pc[e] = "persist"
    <3>1. ~Recorded(e)
      BY <2>2 DEF IndInv, Pipeline
    <3>2. \/ row'[f] = row[f]
          \/ row[f].status = "ABSENT" /\ row'[f].status = "PENDING"
      BY <2>2, <3>1 DEF InsertRow, Recorded, TypeOK
    <3>3. QED
      BY <1>0, <2>0, <3>2, TriggerKeepsRoom
  <2>3. CASE row' = Activation(e) /\ pc[e] = "activate"
    <3>1. loaded[e] # "NONE" => Recorded(e)
      BY <2>3 DEF IndInv, Pipeline
    <3>2. \/ row'[f] = row[f]
          \/ row[f].status # "ABSENT" /\ row'[f] = [row[f] EXCEPT !.status = "ACTIVATED"]
      BY <2>3, <3>1 DEF Activation, Recorded, TypeOK, Row
    <3>3. QED
      BY <1>0, <2>0, <3>2, TriggerKeepsRoom
  <2>4. QED
    BY <1>1, <2>1, <2>2, <2>3 DEF Trigger, TriggerStep, Crash, PersistCommit,
       PersistFail, Refresh, RefreshFail, Publish, PublishFail, Activate,
       ActivateFail, Answer
<1>2. ASSUME NEW c \in Calls, NEW e \in Emergencies, NEW s \in Statuses,
             NEW n \in BOOLEAN, SetStatus(c, e, s, n)
      PROVE Room(f)'
  <2>1. CASE e = f
    BY <1>0, <1>2, <2>1 DEF SetStatus, Room, Recorded, storeVars
  <2>2. CASE e # f
    BY <1>0, <1>2, <2>2 DEF SetStatus, Room, Recorded, storeVars
  <2>3. QED
    BY <2>1, <2>2
<1>3. ASSUME NEW d \in inflight, Commit(d) PROVE Room(f)'
  <2>0. d \in Call /\ d.on \in Emergencies /\ row[d.on] \in Row /\ Room(d.on)
    BY DEF TypeOK, Call, IndInv
  <2>1. CASE d.on = f
    <3>1. row'[f] = Written(d) /\ Written(d).status # "ABSENT"
      BY <1>3, <2>0, <2>1 DEF Commit, TypeOK, Written, Room, Recorded, Row, Call,
                              Statuses, Unresolved
    <3>2. d.status = "RESOLVED" => f \in ordered
      BY <2>0, <2>1 DEF Room
    <3>3. row'[f].status = "RESOLVED" => f \in ordered
      BY <1>0, <2>0, <2>1, <3>1, <3>2 DEF Room, Written, Row
    <3>4. ASSUME f \notin clash
          PROVE  /\ \A other \in inflight' : other.on # f
                 /\ row'[f].status = "RESOLVED" => row'[f].resolved
                 /\ row[f].notes \subseteq row'[f].notes
                 /\ d.note => d.id \in row'[f].notes
      <4>1. /\ \A other \in inflight : other.on = f => other = d
            /\ d.seen.notes = row[f].notes
            /\ d.seen.resolved = row[f].resolved
            /\ row[f].status = "RESOLVED" => d.seen.status = "RESOLVED"
        BY <2>0, <2>1, <3>4 DEF Room
      <4>2. row'[f] = [row[f] EXCEPT
                         !.status   = IF d.status = d.seen.status THEN @ ELSE d.status,
                         !.resolved = IF d.status = "RESOLVED" THEN TRUE
                                      ELSE IF d.seen.resolved THEN FALSE ELSE @,
                         !.notes    = IF d.note THEN d.seen.notes \cup {d.id} ELSE @]
        BY <2>1, <3>1 DEF Written
      <4>3. /\ row'[f].notes = IF d.note THEN row[f].notes \cup {d.id} ELSE row[f].notes
            /\ row'[f].status = IF d.status = d.seen.status THEN row[f].status ELSE d.status
            /\ d.status = "RESOLVED" => row'[f].resolved
        BY <2>0, <2>1, <4>1, <4>2 DEF Row
      <4>4. row'[f].status = "RESOLVED" => d.status = "RESOLVED"
        BY <4>1, <4>3
      <4>5. QED
        BY <1>3, <4>1, <4>3, <4>4 DEF Commit
    <3>5. UNCHANGED <<clash, ordered>> /\ inflight' \subseteq inflight
      BY <1>3 DEF Commit
    <3>6. \A c \in Calls : <<c, f>> \in acked' =>
            Recorded(f)' /\ (f \notin clash => c \in row'[f].notes)
      BY <1>0, <1>3, <2>1, <3>1, <3>4 DEF Commit, Room, Recorded
    <3>7. QED
      BY <1>0, <3>1, <3>3, <3>4, <3>5, <3>6 DEF Room, Recorded
  <2>2. CASE d.on # f
    <3>1. row'[f] = row[f]
      BY <1>3, <2>2 DEF Commit, TypeOK
    <3>2. QED
      BY <1>0, <1>3, <2>0, <2>2, <3>1 DEF Commit, Room, Recorded
  <2>3. QED
    BY <2>1, <2>2
<1>4. ASSUME NEW d \in inflight, Abandon(d) PROVE Room(f)'
  BY <1>0, <1>4 DEF Abandon, Room, Recorded, storeVars
<1>5. CASE UNCHANGED vars
  BY <1>0, <1>5 DEF vars, Room, Recorded, storeVars, roomVars
<1>6. QED
  BY <1>1, <1>2, <1>3, <1>4, <1>5 DEF Next

(* The two halves together are inductive.                                  *)
THEOREM Inductive == Spec => []IndInv
<1>1. Init => IndInv
  BY DEF Init, IndInv, Pipeline, Room, Recorded, NoRow
<1>2. TypeOK /\ IndInv /\ [Next]_vars => IndInv'
  BY PipelineStep, RoomStep DEF IndInv
<1>3. QED
  BY <1>1, <1>2, TypeCorrect, PTL DEF Spec

-----------------------------------------------------------------------------
(* Whoever hears of an emergency can find its row, or its loss in the log. *)
THEOREM TracedCorrect == Spec => []Traced
<1>1. IndInv => Traced
  BY DEF IndInv, Pipeline, Traced
<1>2. QED
  BY <1>1, Inductive, PTL

(* A card that says ACTIVATED is true of the store.                        *)
THEOREM CardIsTrueCorrect == Spec => []CardIsTrue
<1>1. IndInv => CardIsTrue
  BY DEF IndInv, Pipeline, CardIsTrue
<1>2. QED
  BY <1>1, Inductive, PTL

(* A card that says Connected is true of the channel.                      *)
THEOREM ConnectedCorrect == Spec => []ConnectedMeansTold
<1>1. IndInv => ConnectedMeansTold
  BY DEF IndInv, Pipeline, ConnectedMeansTold
<1>2. QED
  BY <1>1, Inductive, PTL

(* No acknowledged note is lost where no two status changes overlapped.    *)
THEOREM AckedNoteCorrect == Spec => []AckedNoteKept
<1>1. IndInv => AckedNoteKept
  BY DEF IndInv, Room, AckedNoteKept
<1>2. QED
  BY <1>1, Inductive, PTL

(* A closed emergency carries its closing time, under the same condition.  *)
THEOREM ResolvedIsTimedCorrect == Spec => []ResolvedIsTimed
<1>1. IndInv => ResolvedIsTimed
  BY DEF IndInv, Room, ResolvedIsTimed
<1>2. QED
  BY <1>1, Inductive, PTL

(* A recorded emergency nobody asked to close is on the list, or Limit     *)
(* newer ones are.                                                         *)
THEOREM VisibleCorrect == Spec => []VisibleUntilOrdered
<1>1. TypeOK /\ IndInv => VisibleUntilOrdered
  <2> SUFFICES ASSUME TypeOK, IndInv, NEW e \in Emergencies,
                      Recorded(e), e \notin ordered
               PROVE  e \in ListActive \/ Cardinality(Newer(e)) >= Limit
    BY DEF VisibleUntilOrdered
  <2>1. row[e].status \in Unresolved
    BY DEF TypeOK, Row, Statuses, IndInv, Room, Recorded
  <2>2. Cardinality(Newer(e)) \in Nat
    <3>1. Newer(e) \subseteq Emergencies
      BY DEF Newer
    <3>2. QED
      BY <3>1, EmergenciesAssumption, FS_Subset, FS_CardinalityType
  <2>3. QED
    BY <2>1, <2>2, LimitAssumption DEF ListActive
<1>2. QED
  BY <1>1, TypeCorrect, Inductive, PTL

(* The trigger pipeline never touches a note or a closing time.            *)
THEOREM OperatorWorkCorrect == Spec => TriggerKeepsOperatorWork
<1>1. TypeOK /\ IndInv /\ [Next]_vars =>
        [\A e \in Emergencies :
           Recorded(e) /\ (row'[e].notes # row[e].notes \/ row'[e].resolved # row[e].resolved)
             => \E d \in inflight : d.on = e /\ d \notin inflight']_vars
  <2> SUFFICES ASSUME TypeOK, IndInv, Next, NEW e \in Emergencies, Recorded(e),
                      row'[e].notes # row[e].notes \/ row'[e].resolved # row[e].resolved
               PROVE  \E d \in inflight : d.on = e /\ d \notin inflight'
    BY DEF vars
  <2>1. ASSUME NEW g \in Emergencies, Trigger(g) \/ TriggerStep(g) \/ Crash(g) PROVE FALSE
    <3> USE DEF storeVars
    <3>1. CASE row' = row
      BY <3>1
    <3>2. CASE InsertRow(g) /\ pc[g] = "persist"
      <4>1. ~Recorded(g)
        BY <3>2 DEF IndInv, Pipeline
      <4>2. QED
        BY <3>2, <4>1 DEF InsertRow, TypeOK
    <3>3. CASE row' = Activation(g)
      BY <3>3 DEF Activation, TypeOK, Row
    <3>4. QED
      BY <2>1, <3>1, <3>2, <3>3 DEF Trigger, TriggerStep, Crash, PersistCommit,
         PersistFail, Refresh, RefreshFail, Publish, PublishFail, Activate,
         ActivateFail, Answer
  <2>2. ASSUME NEW c \in Calls, NEW g \in Emergencies, NEW s \in Statuses,
               NEW n \in BOOLEAN, SetStatus(c, g, s, n)
        PROVE FALSE
    BY <2>2 DEF SetStatus, storeVars
  <2>3. ASSUME NEW d \in inflight, Commit(d)
        PROVE  \E x \in inflight : x.on = e /\ x \notin inflight'
    <3>1. d.on = e /\ d \notin inflight'
      BY <2>3 DEF Commit, TypeOK
    <3>2. QED
      BY <3>1
  <2>4. ASSUME NEW d \in inflight, Abandon(d) PROVE FALSE
    BY <2>4 DEF Abandon, storeVars
  <2>5. QED
    BY <2>1, <2>2, <2>3, <2>4 DEF Next
<1>2. QED
  BY <1>1, TypeCorrect, Inductive, PTL DEF Spec, TriggerKeepsOperatorWork

-----------------------------------------------------------------------------
(* How a row reads in the ledger.                                          *)
Entry(r) == IF r.status = "ABSENT" THEN "absent"
            ELSE IF r.status = "RESOLVED" THEN "closed" ELSE "open"

(* SosDispatch keeps the promise of EmergencyLedger: each step of a        *)
(* trigger and of the control room is a step of the ledger, or none.       *)
THEOREM LedgerCorrect == Spec => KeepsLedger
<1> DEFINE Entries == [e \in Emergencies |-> Entry(row[e])]
           Heard   == told \cup texted
           Carded  == {e \in Emergencies : pc[e] = "answered"}
<1> USE DEF Ledger!vars
<1>0. /\ Entries = [e \in Emergencies |->
                      IF row[e].status = "ABSENT" THEN "absent"
                      ELSE IF row[e].status = "RESOLVED" THEN "closed" ELSE "open"]
      /\ Entries' = [e \in Emergencies |->
                      IF row'[e].status = "ABSENT" THEN "absent"
                      ELSE IF row'[e].status = "RESOLVED" THEN "closed" ELSE "open"]
  BY DEF Entry
<1>1. Init => Ledger!Init
  BY DEF Init, Ledger!Init, NoRow
<1>2. TypeOK /\ IndInv /\ [Next]_vars => [Ledger!Next]_(Ledger!vars)
  <2> SUFFICES ASSUME TypeOK, IndInv, Next
               PROVE  Ledger!Next \/ UNCHANGED <<Entries, logged, Heard, Carded, ordered>>
    BY <1>0 DEF vars, storeVars, triggerVars, roomVars, Entry
  <2> USE DEF TypeOK, Goto, storeVars, triggerVars, roomVars
  <2>1. ASSUME NEW e \in Emergencies, Trigger(e) PROVE UNCHANGED <<Entries, logged, Heard, Carded, ordered>>
    BY <2>1 DEF Trigger
  <2>2. ASSUME NEW e \in Emergencies, PersistCommit(e) PROVE Ledger!Enter(e)
    <3>1. Pipeline(e)
      BY DEF IndInv
    <3>2. e \notin Heard \cup Carded /\ Entries[e] = "absent"
      BY <2>2, <3>1 DEF PersistCommit, Pipeline, Recorded, Entry
    <3>3. Entries' = [Entries EXCEPT ![e] = "open"]
      BY <2>2 DEF PersistCommit, InsertRow, Entry
    <3>4. UNCHANGED <<Heard, Carded>>
      BY <2>2 DEF PersistCommit
    <3>5. QED
      BY <1>0, <2>2, <3>2, <3>3, <3>4 DEF Ledger!Enter, PersistCommit
  <2>3. ASSUME NEW e \in Emergencies, PersistFail(e)
        PROVE  Ledger!Enter(e) \/ Ledger!LogForReconciliation(e)
    <3>1. Pipeline(e)
      BY DEF IndInv
    <3>2. e \notin Heard \cup Carded /\ Entries[e] = "absent"
      BY <2>3, <3>1 DEF PersistFail, Pipeline, Recorded, Entry
    <3>3. UNCHANGED <<Heard, Carded>>
      BY <2>3 DEF PersistFail
    <3>4. CASE InsertRow(e)
      <4>1. Entries' = [Entries EXCEPT ![e] = "open"]
        BY <3>4 DEF InsertRow, Entry
      <4>2. QED
        BY <1>0, <2>3, <3>2, <3>3, <4>1 DEF Ledger!Enter, PersistFail
    <3>5. CASE UNCHANGED <<row, clock>>
      BY <1>0, <2>3, <3>2, <3>3, <3>5 DEF Ledger!LogForReconciliation, PersistFail
    <3>6. QED
      BY <2>3, <3>4, <3>5 DEF PersistFail
  <2>4. ASSUME NEW e \in Emergencies, Refresh(e) \/ RefreshFail(e) \/ Crash(e)
        PROVE  UNCHANGED <<Entries, logged, Heard, Carded, ordered>>
    BY <2>4 DEF Refresh, RefreshFail, Crash, Running
  <2>5. ASSUME NEW e \in Emergencies, Publish(e) \/ PublishFail(e)
        PROVE  Ledger!Tell(e) \/ UNCHANGED <<Entries, logged, Heard, Carded, ordered>>
    <3>1. Entries[e] # "absent" \/ e \in logged
      BY <2>5 DEF Publish, PublishFail, IndInv, Pipeline, Recorded, Entry
    <3>2. UNCHANGED <<Entries, logged, Carded, ordered>>
      BY <2>5 DEF Publish, PublishFail
    <3>3. Heard' \in {Heard, Heard \cup {e}}
      BY <2>5 DEF Publish, PublishFail
    <3>4. QED
      BY <1>0, <3>1, <3>2, <3>3 DEF Ledger!Tell, Ledger!Traced
  <2>6. ASSUME NEW e \in Emergencies, Activate(e) \/ ActivateFail(e)
        PROVE  Ledger!Reopen(e) \/ UNCHANGED <<Entries, logged, Heard, Carded, ordered>>
    <3>1. UNCHANGED <<logged, Heard, Carded, ordered>>
      BY <2>6 DEF Activate, ActivateFail
    <3>2. CASE row' = row
      BY <3>1, <3>2
    <3>3. CASE row' = Activation(e) /\ loaded[e] # "NONE" /\ row' # row
      <4>1. row[e].status # "ABSENT"
        BY <3>3 DEF IndInv, Pipeline, Recorded
      <4>2. row' = [row EXCEPT ![e].status = "ACTIVATED"]
        BY <3>3 DEF Activation
      <4>3. Entries' = [Entries EXCEPT ![e] = "open"]
        BY <4>1, <4>2 DEF Entry, Row
      <4>4. Entries[e] \in {"open", "closed"}
        BY <4>1 DEF Entry
      <4>5. CASE Entries[e] = "open"
        BY <3>1, <4>3, <4>5
      <4>6. CASE Entries[e] = "closed"
        BY <1>0, <3>1, <4>3, <4>6 DEF Ledger!Reopen
      <4>7. QED
        BY <4>4, <4>5, <4>6
    <3>4. QED
      BY <2>6, <3>2, <3>3 DEF Activate, ActivateFail, Activation
  <2>7. ASSUME NEW e \in Emergencies, Answer(e) PROVE Ledger!Tell(e) \/ Ledger!Answer(e)
    <3>1. Entries[e] # "absent" \/ e \in logged
      BY <2>7 DEF Answer, IndInv, Pipeline, Recorded, Entry
    <3>2. UNCHANGED <<Entries, logged, ordered>>
      BY <2>7 DEF Answer
    <3>3. Carded' = Carded \cup {e} /\ Heard' \in {Heard, Heard \cup {e}}
      BY <2>7 DEF Answer
    <3>4. QED
      BY <1>0, <3>1, <3>2, <3>3 DEF Ledger!Tell, Ledger!Answer, Ledger!Traced
  <2>8. ASSUME NEW c \in Calls, NEW e \in Emergencies, NEW s \in Statuses,
               NEW n \in BOOLEAN, SetStatus(c, e, s, n)
        PROVE  Ledger!OrderClosed(e) \/ UNCHANGED <<Entries, logged, Heard, Carded, ordered>>
    <3>1. UNCHANGED <<Entries, logged, Heard, Carded>> /\ Entries[e] # "absent"
      BY <2>8 DEF SetStatus, Recorded, Entry
    <3>2. ordered' \in {ordered, ordered \cup {e}}
      BY <2>8 DEF SetStatus
    <3>3. QED
      BY <1>0, <3>1, <3>2 DEF Ledger!OrderClosed
  <2>9. ASSUME NEW d \in inflight, Commit(d)
        PROVE  \/ Ledger!Close(d.on)
               \/ Ledger!Reopen(d.on)
               \/ UNCHANGED <<Entries, logged, Heard, Carded, ordered>>
    <3>1. d \in Call /\ d.on \in Emergencies /\ row[d.on] \in Row /\ Room(d.on)
      BY DEF Call, IndInv
    <3>2. UNCHANGED <<logged, Heard, Carded, ordered>>
      BY <2>9 DEF Commit
    <3>3. row' = [row EXCEPT ![d.on] = Written(d)]
      BY <2>9 DEF Commit
    <3>4. /\ row[d.on].status # "ABSENT"
          /\ Written(d).status \in {row[d.on].status, d.status}
          /\ d.status \in Statuses
          /\ d.status = "RESOLVED" => d.on \in ordered
          /\ row[d.on].status = "RESOLVED" => d.on \in ordered
      BY <3>1 DEF Room, Recorded, Written, Row, Call
    <3>5. Entries' = [Entries EXCEPT ![d.on] = Entry(Written(d))]
      BY <3>1, <3>3
    <3>6. /\ Entries[d.on] \in {"open", "closed"}
          /\ Entry(Written(d)) \in {"open", "closed"}
          /\ Entry(Written(d)) = "closed" => d.on \in ordered
      BY <3>1, <3>4 DEF Entry, Statuses, Unresolved
    <3>7. CASE Entry(Written(d)) = Entries[d.on]
      BY <3>2, <3>5, <3>7
    <3>8. CASE Entries[d.on] = "open" /\ Entry(Written(d)) = "closed"
      BY <1>0, <3>1, <3>2, <3>5, <3>6, <3>8 DEF Ledger!Close
    <3>9. CASE Entries[d.on] = "closed" /\ Entry(Written(d)) = "open"
      BY <1>0, <3>1, <3>2, <3>5, <3>9 DEF Ledger!Reopen
    <3>10. QED
      BY <3>6, <3>7, <3>8, <3>9
  <2>10. ASSUME NEW d \in inflight, Abandon(d)
         PROVE  UNCHANGED <<Entries, logged, Heard, Carded, ordered>>
    BY <2>10 DEF Abandon
  <2>11. \A d \in inflight : d.on \in Emergencies
    BY DEF Call
  <2>12. QED
    BY <2>1, <2>2, <2>3, <2>4, <2>5, <2>6, <2>7, <2>8, <2>9, <2>10, <2>11
       DEF Next, TriggerStep, Ledger!Next
<1>3. QED
  BY <1>1, <1>2, TypeCorrect, Inductive, PTL DEF Spec, KeepsLedger, Ledger!Spec
=============================================================================
