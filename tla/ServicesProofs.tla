--------------------------- MODULE ServicesProofs ---------------------------
(***************************************************************************)
(* Proofs about the other services of Services: the reports, the listings, *)
(* the choice of an approach, the search for facilities and the crowd      *)
(* figures, for any processes, places, statuses and numbers of outages;    *)
(* and the types of all services together, from the modules that prove     *)
(* about each.                                                             *)
(***************************************************************************)
EXTENDS CrowdProofs, CacheProofs, SignInProofs, CallProofs

(* A step of Services is one of the service, or leaves it alone.           *)
LEMMA LostFrame == [Next]_vars => LostNext \/ UNCHANGED lostVars
BY DEF Next, vars, ServiceStep, HandleStep, Runs

LEMMA ListingsFrame == [Next]_vars => ListingsNext \/ UNCHANGED listingVars
BY DEF Next, vars, ServiceStep, HandleStep, Runs

----------------------------------------------------------------------------
(* Lost and found.                                                         *)

LostTypes ==
    /\ nextval \in Nat
    /\ filings \in 0..MaxReports
    /\ reference \in [Filings -> Nat]
    /\ rows \subseteq Filings /\ told \subseteq rows
    /\ deskPc \in [Desks -> {"idle", "allocate", "commit", "notify", "answer"}]
    /\ filing \in [Desks -> 0..MaxReports]

(* The references given out so far are below the sequence and distinct.    *)
Allocated ==
    /\ \A f \in Filings : reference[f] <= nextval
    /\ \A f, g \in Filings : reference[f] = reference[g] /\ reference[f] # 0 => f = g

(* What a row, and a process on its way to one, has.                       *)
Filed ==
    /\ \A f \in rows : reference[f] # 0
    /\ \A w \in Desks :
         /\ deskPc[w] # "idle" => filing[w] \in Filings
         /\ deskPc[w] \in {"commit", "notify", "answer"} => reference[filing[w]] # 0
         /\ deskPc[w] \in {"notify", "answer"} => filing[w] \in rows

LostInv == LostTypes /\ Allocated /\ Filed

LEMMA LostInitial == LostInit => LostInv
BY DesksAssumption DEF LostInit, LostInv, LostTypes, Allocated, Filed, Filings

LEMMA LostPreserved == LostInv /\ [Next]_vars => LostInv'
<1> SUFFICES ASSUME LostInv, LostNext \/ UNCHANGED lostVars PROVE LostInv'
  BY LostFrame
<1> USE DesksAssumption DEF LostInv, LostTypes, Allocated, Filed, Filings
<1>1. ASSUME NEW w \in Desks, create_report(w) PROVE LostInv'
  <2>1. filings + 1 \in Filings
    BY <1>1 DEF create_report
  <2>2. /\ filing' = [filing EXCEPT ![w] = filings + 1]
        /\ deskPc' = [deskPc EXCEPT ![w] = "allocate"]
        /\ filings' = filings + 1
        /\ UNCHANGED <<nextval, reference, rows, told>>
    BY <1>1 DEF create_report
  <2>3. LostTypes' /\ Allocated'
    BY <2>1, <2>2
  <2>4. Filed'
    BY <2>1, <2>2
  <2>5. QED
    BY <2>3, <2>4
<1>2. ASSUME NEW w \in Desks, allocate_reference_id(w), Executes PROVE LostInv'
  <2>1. /\ deskPc[w] = "allocate" /\ deskPc' = [deskPc EXCEPT ![w] = "commit"]
        /\ nextval' = nextval + 1
        /\ reference' = [reference EXCEPT ![filing[w]] = nextval + 1]
        /\ UNCHANGED <<filing, filings, rows, told>>
    BY <1>2 DEF allocate_reference_id, Turn
  <2>2. filing[w] \in Filings
    BY <2>1
  <2>3. LostTypes'
    BY <2>1, <2>2
  <2>4. Allocated'
    BY <2>1, <2>2
  <2>5. Filed'
    BY <2>1, <2>2
  <2>6. QED
    BY <2>3, <2>4, <2>5
<1>3. ASSUME NEW w \in Desks, UNCHANGED <<nextval, filings, reference, rows, told>>,
             deskPc' = [deskPc EXCEPT ![w] = "idle"], filing' = [filing EXCEPT ![w] = 0]
      PROVE  LostInv'
  BY <1>3
<1>4. ASSUME NEW w \in Desks, report_commit(w) PROVE LostInv'
  <2>1. /\ deskPc[w] = "commit"
        /\ rows' \in {rows, rows \cup {filing[w]}}
        /\ UNCHANGED <<nextval, filings, reference, told>>
        /\ \/ /\ deskPc' = [deskPc EXCEPT ![w] = "notify"] /\ filing' = filing
              /\ rows' = rows \cup {filing[w]}
           \/ /\ deskPc' = [deskPc EXCEPT ![w] = "idle"]
              /\ filing' = [filing EXCEPT ![w] = 0]
    BY <1>4 DEF report_commit, Turn
  <2>2. filing[w] \in Filings /\ reference[filing[w]] # 0
    BY <2>1
  <2>3. told' \subseteq rows' /\ rows' \subseteq Filings
    BY <2>1, <2>2
  <2>4. LostTypes'
    <3>1. /\ deskPc' \in [Desks -> {"idle", "allocate", "commit", "notify", "answer"}]
          /\ filing' \in [Desks -> 0..MaxReports]
      BY <2>1
    <3>2. QED
      BY <2>1, <2>3, <3>1
  <2>5. Allocated'
    BY <2>1
  <2>6. Filed'
    BY <2>1, <2>2
  <2>7. QED
    BY <2>4, <2>5, <2>6
<1>5. ASSUME NEW w \in Desks, _notify_dashboard(w) PROVE LostInv'
  <2>1. /\ deskPc[w] = "notify" /\ deskPc' = [deskPc EXCEPT ![w] = "answer"]
        /\ UNCHANGED <<filing, nextval, filings, reference, rows, told>>
    BY <1>5 DEF _notify_dashboard, Turn
  <2>2. QED
    BY <2>1
<1>6. ASSUME NEW w \in Desks, report_answer(w) PROVE LostInv'
  <2>1. /\ deskPc[w] = "answer" /\ deskPc' = [deskPc EXCEPT ![w] = "idle"]
        /\ filing' = [filing EXCEPT ![w] = 0]
        /\ told' = told \cup {filing[w]}
        /\ UNCHANGED <<nextval, filings, reference, rows>>
    BY <1>6 DEF report_answer, Turn
  <2>2. filing[w] \in rows
    BY <2>1
  <2>3. told' \subseteq rows'
    BY <2>1, <2>2
  <2>4. LostTypes'
    BY <2>1, <2>3
  <2>5. Allocated' /\ Filed'
    BY <2>1
  <2>6. QED
    BY <2>4, <2>5
<1>7. CASE UNCHANGED lostVars
  BY <1>7 DEF lostVars
<1>8. ASSUME NEW w \in Desks, allocate_reference_id(w), ~Executes PROVE LostInv'
  BY <1>8, <1>3 DEF allocate_reference_id, Turn
<1>9. ASSUME NEW w \in Desks, DeskDies(w) PROVE LostInv'
  BY <1>9, <1>3 DEF DeskDies, Turn
<1>10. QED
  BY <1>1, <1>2, <1>4, <1>5, <1>6, <1>7, <1>8, <1>9 DEF LostNext

(***************************************************************************)
(* A reference a pilgrim was given finds that pilgrim's report and no      *)
(* other, for any number of processes, reports and outages: the reference  *)
(* comes from a sequence that a rollback does not take back.               *)
(***************************************************************************)
THEOREM OneReportPerReference == Spec => []ReferenceFindsReport
<1>1. Init => LostInv
  BY LostInitial DEF Init
<1>2. LostInv => ReferenceFindsReport
  BY DEF LostInv, LostTypes, Allocated, Filed, ReferenceFindsReport, get_report
<1>3. QED
  BY <1>1, <1>2, LostPreserved, PTL DEF Spec

----------------------------------------------------------------------------
(* Community listings.                                                     *)

ListingTypes ==
    /\ table \in [Listings -> Entries]
    /\ memory \in [Hosts -> [Listings -> Entries]]
    /\ listPc \in [Hosts -> {"idle", "commit"}]
    /\ subject \in [Hosts -> [listing : Listings, purpose : Purposes] \cup {NoSubject}]
    /\ stands \in [Listings -> {"nothing", "published", "withdrawn"}]

(* Only what is there is active, and a listing that may have both a row    *)
(* and a copy is in shared.                                                *)
Kept ==
    /\ \A l \in Listings : table[l].active => table[l].there
    /\ \A w \in Hosts, l \in Listings : memory[w][l].active => memory[w][l].there
    /\ \A l \in Listings \ shared, w \in Hosts : memory[w][l].there =>
         ~table[l].there /\ \A v \in Hosts : memory[v][l].there => v = w

(* A pending publication is the first thing anyone hears of its listing; a *)
(* pending change is to a row that is there.                               *)
Unheard(w, l) ==
    /\ ~table[l].there
    /\ \A v \in Hosts : ~memory[v][l].there
    /\ \A v \in Hosts \ {w} : subject[v].listing # l
    /\ stands[l] = "nothing"

Awaits(w) ==
    /\ subject[w] # NoSubject
    /\ subject[w].purpose # "publish" => table[subject[w].listing].there
    /\ subject[w].purpose = "publish" => Unheard(w, subject[w].listing)

Pending == \A w \in Hosts : listPc[w] = "commit" => Awaits(w)

(* Where a listing stands against the row and the copies.                  *)
Word ==
    \A l \in Listings :
        /\ stands[l] = "published" => table[l].active
        /\ stands[l] = "withdrawn" /\ l \notin shared =>
             ~table[l].active /\ \A w \in Hosts : ~memory[w][l].active

ListingsInv == ListingTypes /\ Kept /\ Pending /\ Word

LEMMA ListingsInitial == ListingsInit => ListingsInv
BY DEF ListingsInit, ListingsInv, ListingTypes, Kept, Pending, Word, Entries, NoListing

LEMMA EntryFacts ==
  /\ NoListing \in Entries /\ ~NoListing.active /\ ~NoListing.there
  /\ Open \in Entries /\ Open.active /\ Open.there
BY DEF NoListing, Open, Entries

(* A change leaves a listing where it is and never puts it back on offer.  *)
LEMMA AppliedFacts ==
  ASSUME NEW e \in Entries, NEW p \in Purposes
  PROVE  /\ Applied(e, p) \in Entries
         /\ Applied(e, p).there = e.there
         /\ Applied(e, p).active => e.active
         /\ p = "withdraw" => ~Applied(e, p).active
         /\ p # "withdraw" => Applied(e, p).active = e.active
<1>1. CASE p = "withdraw"
  BY <1>1 DEF Applied, Entries
<1>2. CASE p = "lock"
  BY <1>2 DEF Applied, Entries
<1>3. CASE p = "unlock"
  BY <1>3 DEF Applied, Entries
<1>4. CASE p = "publish"
  BY <1>4 DEF Applied, Entries
<1>5. QED
  BY <1>1, <1>2, <1>3, <1>4 DEF Purposes

(* A request that ends leaves the other ones waiting, each for a listing   *)
(* of its own.                                                             *)
LEMMA OthersWait ==
  ASSUME ListingTypes, Pending, NEW w \in Hosts, Over(w), NEW v \in Hosts,
         listPc'[v] = "commit"
  PROVE  /\ v # w /\ Awaits(v) /\ subject'[v] = subject[v] /\ subject[v].listing \in Listings
         /\ \A u \in Hosts \ {v} :
              subject[u].listing # subject[v].listing => subject'[u].listing # subject[v].listing
BY HostsAssumption DEF ListingTypes, Pending, Awaits, Over, NoSubject

LEMMA ListingsPreserved == ListingsInv /\ [Next]_vars => ListingsInv'
<1> SUFFICES ASSUME ListingTypes, Kept, Pending, Word, ListingsNext \/ UNCHANGED listingVars
             PROVE  ListingsInv'
  BY ListingsFrame DEF ListingsInv
<1> USE EntryFacts DEF ListingsInv
<1>1. ASSUME NEW w \in Hosts, NEW l \in Listings, create(w, l) PROVE ListingsInv'
  <2>1. /\ ~table[l].there /\ \A v \in Hosts : ~memory[v][l].there /\ subject[v].listing # l
        /\ stands[l] = "nothing"
        /\ listPc' = [listPc EXCEPT ![w] = "commit"]
        /\ subject' = [subject EXCEPT ![w] = [listing |-> l, purpose |-> "publish"]]
        /\ UNCHANGED <<table, memory, shared, stands>>
    BY <1>1 DEF create, Unpublished, Begin
  <2>2. ListingTypes'
    BY <2>1 DEF ListingTypes, Purposes
  <2>3. Kept' /\ Word'
    BY <2>1 DEF Kept, Word
  <2>4. Pending'
    BY <2>1 DEF Pending, Awaits, Unheard, ListingTypes, NoSubject
  <2>5. QED
    BY <2>2, <2>3, <2>4
<1>2. ASSUME NEW w \in Hosts, create_commit(w) PROVE ListingsInv'
  <2> DEFINE l == subject[w].listing
  <2>1. /\ listPc[w] = "commit" /\ subject[w].purpose = "publish"
        /\ listPc' = [listPc EXCEPT ![w] = "idle"]
        /\ subject' = [subject EXCEPT ![w] = NoSubject]
    BY <1>2 DEF create_commit, Over
  <2>o. Over(w)
    BY <1>2 DEF create_commit
  <2>2. l \in Listings
    BY <2>1 DEF ListingTypes, NoSubject
  <2>3. /\ ~table[l].there /\ stands[l] = "nothing"
        /\ \A v \in Hosts : ~memory[v][l].there
        /\ \A v \in Hosts \ {w} : subject[v].listing # l
    BY <2>1 DEF Pending, Awaits, Unheard
  <2>a. CASE /\ table' = [table EXCEPT ![l] = Open]
             /\ stands' = [stands EXCEPT ![l] = "published"]
             /\ UNCHANGED <<memory, shared>>
    <3>1. ListingTypes'
      BY <2>1, <2>2, <2>a DEF ListingTypes
    <3>2. Kept'
      BY <2>2, <2>3, <2>a DEF ListingTypes, Kept
    <3>3. Pending'
      <4> SUFFICES ASSUME NEW v \in Hosts, listPc'[v] = "commit" PROVE Awaits(v)'
        BY DEF Pending
      <4>1. QED
        BY <2>2, <2>3, <2>a, <2>o, OthersWait DEF ListingTypes, Awaits, Unheard
    <3>4. Word'
      BY <2>2, <2>3, <2>a DEF ListingTypes, Word
    <3>5. QED
      BY <3>1, <3>2, <3>3, <3>4
  <2>b. CASE /\ memory' = [memory EXCEPT ![w][l] = Open]
             /\ \/ table' = [table EXCEPT ![l] = Open] /\ shared' = shared \cup {l}
                \/ UNCHANGED <<table, shared>>
             /\ UNCHANGED stands
    <3>1. ListingTypes'
      BY <2>1, <2>2, <2>b DEF ListingTypes
    <3>2. Kept'
      <4>1. \A v \in Hosts, k \in Listings :
              memory'[v][k] = IF v = w /\ k = l THEN Open ELSE memory[v][k]
        BY <2>2, <2>b DEF ListingTypes
      <4>2. QED
        BY <2>2, <2>3, <2>b, <4>1 DEF ListingTypes, Kept
    <3>3. Pending'
      <4> SUFFICES ASSUME NEW v \in Hosts, listPc'[v] = "commit" PROVE Awaits(v)'
        BY DEF Pending
      <4>1. QED
        BY <2>2, <2>3, <2>b, <2>o, OthersWait DEF ListingTypes, Awaits, Unheard
    <3>4. Word'
      BY <2>2, <2>3, <2>b DEF ListingTypes, Word
    <3>5. QED
      BY <3>1, <3>2, <3>3, <3>4
  <2>4. QED
    BY <1>2, <2>a, <2>b DEF create_commit, Stands
<1>3. ASSUME NEW w \in Hosts, NEW l \in Listings, NEW p \in Purposes \ {"publish"},
             change_row(w, l, p)
      PROVE  ListingsInv'
  <2>1. /\ table[l].active
        /\ listPc' = [listPc EXCEPT ![w] = "commit"]
        /\ subject' = [subject EXCEPT ![w] = [listing |-> l, purpose |-> p]]
        /\ UNCHANGED <<table, memory, shared, stands>>
    BY <1>3 DEF change_row, Begin
  <2>2. table[l].there
    BY <2>1 DEF Kept
  <2>3. ListingTypes' /\ Kept' /\ Word'
    BY <2>1 DEF ListingTypes, Kept, Word
  <2>4. Pending'
    <3> SUFFICES ASSUME NEW v \in Hosts, listPc'[v] = "commit" PROVE Awaits(v)'
      BY DEF Pending
    <3>1. CASE v = w
      <4>1. subject'[w].listing = l /\ subject'[w].purpose = p
        BY <2>1 DEF ListingTypes
      <4>2. p # "none" /\ NoSubject.purpose = "none"
        BY DEF Purposes, NoSubject
      <4>3. QED
        BY <2>1, <2>2, <3>1, <4>1, <4>2 DEF Awaits
    <3>2. CASE v # w
      <4>1. Awaits(v) /\ subject'[v] = subject[v]
        BY <2>1, <3>2 DEF ListingTypes, Pending
      <4>2. \A u \in Hosts \ {w} : subject'[u] = subject[u]
        BY <2>1 DEF ListingTypes
      <4>3. subject'[w].listing = l
        BY <2>1 DEF ListingTypes
      <4>4. QED
        BY <2>1, <2>2, <4>1, <4>2, <4>3 DEF Awaits, Unheard
    <3>3. QED
      BY <3>1, <3>2
  <2>5. QED
    BY <2>3, <2>4
<1>4. ASSUME NEW w \in Hosts, NEW l \in Listings, NEW p \in Purposes \ {"publish"},
             change_copy(w, l, p)
      PROVE  ListingsInv'
  <2>1. /\ memory[w][l].active
        /\ memory' = [memory EXCEPT ![w][l] = Applied(memory[w][l], p)]
        /\ stands' = IF p = "withdraw" THEN [stands EXCEPT ![l] = "withdrawn"] ELSE stands
        /\ UNCHANGED <<table, listPc, subject, shared>>
    BY <1>4 DEF change_copy, Stands
  <2>2. memory[w][l] \in Entries /\ memory[w][l].there
    BY <2>1 DEF Kept, ListingTypes
  <2> DEFINE e == Applied(memory[w][l], p)
  <2>3. /\ e \in Entries /\ e.there
        /\ p = "withdraw" => ~e.active
    BY <2>2, AppliedFacts
  <2>4. \A v \in Hosts, k \in Listings :
          memory'[v][k] = IF v = w /\ k = l THEN e ELSE memory[v][k]
    BY <2>1 DEF ListingTypes
  <2> HIDE DEF e
  <2>5. ListingTypes'
    BY <2>1, <2>3 DEF ListingTypes, e
  <2>6. Kept'
    BY <2>1, <2>2, <2>3, <2>4 DEF Kept
  <2>7. Pending'
    BY <2>1, <2>2, <2>3, <2>4 DEF Pending, Awaits, Unheard, ListingTypes, NoSubject
  <2>8. Word'
    BY <2>1, <2>2, <2>3, <2>4 DEF Word, Kept, ListingTypes
  <2>9. QED
    BY <2>5, <2>6, <2>7, <2>8
<1>5. ASSUME NEW w \in Hosts, change_commit(w) PROVE ListingsInv'
  <2> DEFINE l == subject[w].listing
             p == subject[w].purpose
             e == Applied(table[l], p)
  <2>1. /\ listPc[w] = "commit" /\ p # "publish"
        /\ listPc' = [listPc EXCEPT ![w] = "idle"]
        /\ subject' = [subject EXCEPT ![w] = NoSubject]
        /\ UNCHANGED <<memory, shared>>
    BY <1>5 DEF change_commit, Over
  <2>o. Over(w)
    BY <1>5 DEF change_commit
  <2>2. l \in Listings /\ p \in Purposes /\ table[l].there /\ table[l] \in Entries
    BY <2>1 DEF ListingTypes, Pending, Awaits
  <2>3. /\ e \in Entries /\ e.there /\ (e.active => table[l].active)
        /\ p = "withdraw" => ~e.active
        /\ p # "withdraw" => e.active = table[l].active
    BY <2>2, AppliedFacts
  <2> HIDE DEF e
  <2>a. CASE /\ table' = [table EXCEPT ![l] = e]
             /\ stands' = IF p = "withdraw" THEN [stands EXCEPT ![l] = "withdrawn"]
                                              ELSE stands
    <3>1. ListingTypes'
      BY <2>1, <2>2, <2>3, <2>a DEF ListingTypes
    <3>2. Kept'
      BY <2>1, <2>2, <2>3, <2>a DEF ListingTypes, Kept
    <3>3. Pending'
      <4> SUFFICES ASSUME NEW v \in Hosts, listPc'[v] = "commit" PROVE Awaits(v)'
        BY DEF Pending
      <4>1. /\ \A k \in Listings \ {l} : stands'[k] = stands[k] /\ table'[k] = table[k]
            /\ \A k \in Listings : table'[k].there = table[k].there
        BY <2>2, <2>3, <2>a DEF ListingTypes
      <4>2. /\ Awaits(v) /\ subject'[v] = subject[v] /\ subject[v].listing \in Listings
            /\ v # w
            /\ \A u \in Hosts \ {v} :
                 subject[u].listing # subject[v].listing => subject'[u].listing # subject[v].listing
        BY <2>o, OthersWait
      <4>3. QED
        BY <2>1, <4>1, <4>2 DEF Awaits, Unheard
    <3>4. Word'
      BY <2>1, <2>2, <2>3, <2>a DEF ListingTypes, Word, Kept
    <3>5. QED
      BY <3>1, <3>2, <3>3, <3>4
  <2>b. CASE UNCHANGED <<table, stands>>
    <3>1. ListingTypes' /\ Kept' /\ Word'
      BY <2>1, <2>b DEF ListingTypes, Kept, Word
    <3>2. Pending'
      <4> SUFFICES ASSUME NEW v \in Hosts, listPc'[v] = "commit" PROVE Awaits(v)'
        BY DEF Pending
      <4>1. QED
        BY <2>1, <2>b, <2>o, OthersWait DEF Awaits, Unheard
    <3>3. QED
      BY <3>1, <3>2
  <2>4. QED
    BY <1>5, <2>a, <2>b DEF change_commit, Stands, e
<1>6. ASSUME NEW w \in Hosts, HostRestarts(w) PROVE ListingsInv'
  <2>1. /\ memory' = [memory EXCEPT ![w] = [l \in Listings |-> NoListing]]
        /\ listPc' = [listPc EXCEPT ![w] = "idle"]
        /\ subject' = [subject EXCEPT ![w] = NoSubject]
        /\ UNCHANGED <<table, shared, stands>>
    BY <1>6 DEF HostRestarts, Over
  <2>o. Over(w)
    BY <1>6 DEF HostRestarts
  <2>2. ListingTypes'
    BY <2>1 DEF ListingTypes
  <2>3. Kept' /\ Word'
    BY <2>1 DEF ListingTypes, Kept, Word
  <2>4. Pending'
    <3> SUFFICES ASSUME NEW v \in Hosts, listPc'[v] = "commit" PROVE Awaits(v)'
      BY DEF Pending
    <3>1. QED
      BY <2>1, <2>o, OthersWait DEF ListingTypes, Awaits, Unheard
  <2>5. QED
    BY <2>2, <2>3, <2>4
<1>7. CASE UNCHANGED listingVars
  BY <1>7 DEF listingVars, ListingTypes, Kept, Pending, Awaits, Unheard, Word
<1>8. QED
  BY <1>1, <1>2, <1>3, <1>4, <1>5, <1>6, <1>7 DEF ListingsNext, manage

LEMMA ListingsInvariant == Spec => []ListingsInv
<1>1. Init => ListingsInv
  BY ListingsInitial DEF Init
<1>2. QED
  BY <1>1, ListingsPreserved, PTL DEF Spec

(* What a cut leaves out, it leaves out for a full list, or for a full     *)
(* query of a wider box; and it adds nothing.                              *)
LEMMA CutFacts ==
  ASSUME NEW box \in SUBSET Listings, NEW near \in SUBSET box,
         NEW w \in Hosts, NEW list \in active(w, box, near)
  PROVE  /\ list \subseteq near
         /\ \A l \in list : (Executes /\ table[l].active) \/ memory[w][l].active
         /\ \A l \in near : Executes /\ table[l].active =>
              \/ l \in list
              \/ Cardinality(list) = ListLimit
              \/ near # box /\ Cardinality(InBox(box)) > RowLimit
<1> DEFINE copies == {l \in Listings : memory[w][l].active}
<1>1. PICK read \in Cut(InBox(box), RowLimit) :
           list \in Cut((read \cup copies) \cap near, ListLimit)
  BY DEF active
<1>2. read \subseteq InBox(box) /\ list \subseteq (read \cup copies) \cap near
  BY <1>1 DEF Cut
<1>3. IsFiniteSet(list) /\ IsFiniteSet(InBox(box))
  <2>1. list \subseteq Listings /\ InBox(box) \subseteq Listings
    BY <1>2 DEF InBox
  <2>2. QED
    BY <2>1, FS_Subset, LimitsAssumption
<1>4. ASSUME NEW l \in near, Executes, table[l].active, l \notin list,
             Cardinality(list) # ListLimit
      PROVE  near # box /\ Cardinality(InBox(box)) > RowLimit
  <2>1. list = (read \cup copies) \cap near /\ Cardinality(list) <= ListLimit
    BY <1>1, <1>4 DEF Cut
  <2>2. l \in InBox(box) /\ l \notin read
    BY <1>4, <2>1 DEF InBox
  <2>3. read # InBox(box) /\ Cardinality(read) = RowLimit
    BY <1>1, <2>2 DEF Cut
  <2>4. Cardinality(InBox(box)) > RowLimit
    <3>1. /\ Cardinality(read) <= Cardinality(InBox(box))
          /\ Cardinality(read) = Cardinality(InBox(box)) => read = InBox(box)
      BY <1>2, <1>3, FS_Subset
    <3>2. Cardinality(InBox(box)) \in Nat
      BY <1>3, FS_CardinalityType
    <3>3. QED
      BY <2>3, <3>1, <3>2, LimitsAssumption
  <2>5. near # box
    <3>1. SUFFICES ASSUME near = box PROVE FALSE
      OBVIOUS
    <3>2. read \subseteq list
      BY <1>2, <2>1, <3>1 DEF InBox
    <3>3. Cardinality(read) <= Cardinality(list) /\ Cardinality(list) \in Nat
      BY <1>3, <3>2, FS_Subset, FS_CardinalityType
    <3>4. QED
      BY <1>4, <2>1, <2>3, <3>3, LimitsAssumption
  <2>6. QED
    BY <2>4, <2>5
<1>5. QED
  BY <1>2, <1>4 DEF InBox

(***************************************************************************)
(* A listing that was reported published is missing from a process's list  *)
(* only where the list, or the query for a box wider than the radius, is   *)
(* full without it, while the database answers and until a withdrawal      *)
(* takes effect: it is then a row, never one process's copy, whatever      *)
(* order the rows are read in and wherever the lists are cut.              *)
(***************************************************************************)
THEOREM PublishedForAll == Spec => []PublishedEverywhere
<1>1. ListingsInv => PublishedEverywhere
  BY CutFacts DEF ListingsInv, Word, PublishedEverywhere
<1>2. QED
  BY <1>1, ListingsInvariant, PTL

(***************************************************************************)
(* A withdrawal that took effect, acknowledged or not, keeps a listing     *)
(* that has not both a row and a copy out of every list, for any           *)
(* processes, listings, limits and outages.                                *)
(***************************************************************************)
THEOREM WithdrawnForGood == Spec => []WithdrawnStays
<1>1. ListingsInv => WithdrawnStays
  BY CutFacts DEF ListingsInv, Word, WithdrawnStays
<1>2. QED
  BY <1>1, ListingsInvariant, PTL
----------------------------------------------------------------------------
(* The choice of an approach.                                              *)

LEMMA RouteFrame == [Next]_vars => RouteNext \/ UNCHANGED routeVars
BY DEF Next, vars, ServiceStep, HandleStep, Runs

(* Every status read was one of the zone's since the look-up began.        *)
RouteTypes ==
    /\ status \in [RouteZones -> Ranks] /\ ranks \in [RouteZones -> SUBSET Ranks]
    /\ lengths \in [Approaches -> Nat] /\ statuses \in Seq(Ranks)
ReadsSeen ==
    /\ \A z \in RouteZones : status[z] \in ranks[z]
    /\ Len(statuses) <= 5
    /\ \A i \in 1..Len(statuses) : statuses[i] \in ranks[Passed[i]]

(* The choice and the warnings, from when they are made; a line is drawn   *)
(* after that.                                                             *)
Advised ==
    /\ chosen # 0 =>
         /\ (\E a \in Approaches : Clear(a)) => ~\E z \in ROUTES[chosen].zones : Congested(z)
         /\ \A z \in RouteZones : Congested(z) => z \in avoid_areas
    /\ polyline # "none" => chosen # 0

RouteInv == RouteTypes /\ ReadsSeen /\ Advised

LEMMA PassedFacts ==
  /\ Len(Passed) = 5 /\ DOMAIN Passed = 1..5
  /\ RouteZones = {"gate_1", "gate_2", "gate_3", "bhima_ghat", "main_road"}
  /\ \A i \in 1..5 : Passed[i] \in RouteZones
  /\ \A z \in RouteZones : \E i \in 1..5 : Passed[i] = z
  /\ \A i, j \in 1..5 : Passed[i] = Passed[j] => i = j
<1>1. Len(Passed) = 5 /\ DOMAIN Passed = 1..5
  BY DEF Passed
<1>2. /\ Passed[1] = "gate_1" /\ Passed[2] = "gate_2" /\ Passed[3] = "gate_3"
      /\ Passed[4] = "bhima_ghat" /\ Passed[5] = "main_road"
  BY DEF Passed
<1>3. RouteZones = {Passed[i] : i \in 1..5}
  BY <1>1 DEF RouteZones, ToSet
<1>4. \A i \in 1..5 : i \in {1, 2, 3, 4, 5}
  OBVIOUS
<1>5. RouteZones = {"gate_1", "gate_2", "gate_3", "bhima_ghat", "main_road"}
  BY <1>2, <1>3, <1>4
<1>6. \A i, j \in 1..5 : Passed[i] = Passed[j] => i = j
  BY <1>2, <1>4
<1>7. QED
  BY <1>1, <1>3, <1>5, <1>6

LEMMA RouteFacts ==
  /\ Approaches = {1, 2, 3}
  /\ \A a \in Approaches : /\ ROUTES[a].zones \subseteq RouteZones
                           /\ ROUTES[a].zones # {} /\ IsFiniteSet(ROUTES[a].zones)
<1>1. /\ Approaches = 1..3 /\ ROUTES[1].zones = {"main_road", "gate_1"}
      /\ ROUTES[2].zones = {"bhima_ghat", "gate_2"} /\ ROUTES[3].zones = {"gate_3"}
  BY DEF Approaches, ROUTES
<1>2. /\ IsFiniteSet({"main_road", "gate_1"}) /\ IsFiniteSet({"bhima_ghat", "gate_2"})
      /\ IsFiniteSet({"gate_3"})
  <2>1. ASSUME NEW x, NEW y PROVE IsFiniteSet({x, y})
    <3>1. {x, y} = {x} \cup {y}
      OBVIOUS
    <3>2. IsFiniteSet({x}) /\ IsFiniteSet({y})
      BY FS_Singleton
    <3>3. IsFiniteSet({x} \cup {y})
      BY <3>2, FS_Union
    <3>4. QED
      BY <3>1, <3>3, Zenon
  <2>2. QED
    BY <2>1, FS_Singleton
<1>3. Approaches = {1, 2, 3}
  BY <1>1
<1>4. \A a \in {1, 2, 3} : /\ ROUTES[a].zones \subseteq RouteZones
                           /\ ROUTES[a].zones # {} /\ IsFiniteSet(ROUTES[a].zones)
  <2>1. /\ {"main_road", "gate_1"} \subseteq RouteZones
        /\ {"bhima_ghat", "gate_2"} \subseteq RouteZones /\ {"gate_3"} \subseteq RouteZones
    BY PassedFacts
  <2> TAKE a \in {1, 2, 3}
  <2>2. CASE a = 1
    BY <1>1, <1>2, <2>1, <2>2
  <2>3. CASE a = 2
    BY <1>1, <1>2, <2>1, <2>3
  <2>4. CASE a = 3
    BY <1>1, <1>2, <2>1, <2>4
  <2>5. QED
    BY <2>2, <2>3, <2>4
<1>5. QED
  BY <1>3, <1>4

LEMMA RouteInitial == RouteInit => RouteInv
<1> SUFFICES ASSUME RouteInit PROVE RouteInv
  OBVIOUS
<1>1. RouteTypes
  <2>1. ranks \in [RouteZones -> SUBSET Ranks] /\ status \in [RouteZones -> Ranks]
    BY DEF RouteInit
  <2>2. lengths \in [Approaches -> Nat]
    BY RouteAssumption DEF RouteInit
  <2>3. statuses \in Seq(Ranks)
    BY DEF RouteInit
  <2>4. QED
    BY <2>1, <2>2, <2>3 DEF RouteTypes
<1>2. ReadsSeen /\ Advised
  BY DEF RouteInit, ReadsSeen, Advised
<1>3. QED
  BY <1>1, <1>2 DEF RouteInv

(* Once every zone was read.                                               *)
LEMMA ReadFacts ==
  ASSUME RouteTypes, ReadsSeen, Len(statuses) = Len(Passed)
  PROVE  \A z \in RouteZones : Read(z) \in ranks[z] /\ Read(z) \in 0..3
<1> TAKE z \in RouteZones
<1> DEFINE k == CHOOSE i \in DOMAIN Passed : Passed[i] = z
<1>1. k \in 1..5 /\ Passed[k] = z
  BY PassedFacts
<1>2. statuses[k] \in ranks[Passed[k]] /\ statuses[k] \in Ranks
  BY <1>1, PassedFacts DEF RouteTypes, ReadsSeen
<1>3. QED
  BY <1>1, <1>2, RouteAssumption DEF Read

LEMMA ScoreFacts ==
  ASSUME RouteTypes, ReadsSeen, Len(statuses) = Len(Passed), NEW a \in Approaches
  PROVE  /\ busy_count(a) \in Nat
         /\ busy_count(a) = 0 <=> \A z \in ROUTES[a].zones : Read(z) \notin _BUSY
         /\ score(a)[1] = busy_count(a) /\ score(a)[2] \in Int
<1> DEFINE busy == {z \in ROUTES[a].zones : Read(z) \in _BUSY}
           read == {Read(z) : z \in ROUTES[a].zones}
<1>1. IsFiniteSet(busy)
  BY RouteFacts, FS_Subset
<1>2. busy_count(a) \in Nat /\ (busy_count(a) = 0 <=> busy = {})
  BY <1>1, FS_CardinalityType, FS_EmptySet DEF busy_count
<1>3. read # {} /\ read \subseteq 0..3
  BY RouteFacts, ReadFacts
<1>4. \E r \in read : \A z \in ROUTES[a].zones : Read(z) <= r
  <2>1. \A r \in read : \E z \in ROUTES[a].zones : r = Read(z)
    OBVIOUS
  <2>2. \A z \in ROUTES[a].zones : Read(z) \in read
    OBVIOUS
  <2> HIDE DEF read
  <2>3. PICK t \in read : \A s \in read : s <= t
    <3>1. CASE 3 \in read
      BY <1>3, <3>1
    <3>2. CASE 3 \notin read /\ 2 \in read
      BY <1>3, <3>2
    <3>3. CASE 3 \notin read /\ 2 \notin read /\ 1 \in read
      BY <1>3, <3>3
    <3>4. CASE 3 \notin read /\ 2 \notin read /\ 1 \notin read
      <4>1. \A s \in read : s = 0
        BY <1>3, <3>4
      <4>2. PICK s \in read : TRUE
        BY <1>3
      <4>3. \A t \in read : t <= s
        BY <4>1
      <4>4. QED
        BY <4>3
    <3>5. QED
      BY <3>1, <3>2, <3>3, <3>4
  <2>4. QED
    BY <2>2, <2>3
<1>5. worst(a) \in read
  BY <1>4 DEF worst
<1>6. CONGESTION_FACTOR[worst(a) + 1] \in Int
  <2>1. worst(a) \in {0, 1, 2, 3}
    BY <1>3, <1>5
  <2>2. QED
    BY <2>1 DEF CONGESTION_FACTOR
<1>7. score(a)[2] \in Int
  BY <1>6 DEF score, RouteTypes
<1>8. QED
  BY <1>2, <1>7 DEF score

(* The choice is one of the approaches and has the lowest score.           *)
LEMMA ChoiceFacts ==
  ASSUME RouteTypes, ReadsSeen, Len(statuses) = Len(Passed)
  PROVE  _choose \in Approaches /\ \A b \in Approaches : ~Below(score(b), score(_choose))
<1> DEFINE Best(a) == /\ \A b \in Approaches : ~Below(score(b), score(a))
                      /\ \A b \in 1..(a - 1) : Below(score(a), score(b))
<1>1. \A a \in {1, 2, 3} : score(a)[1] \in Int /\ score(a)[2] \in Int
  BY ScoreFacts, RouteFacts
<1>2. \E a \in Approaches : Best(a)
  <2> HIDE DEF Best
  <2>1. 1..0 = {} /\ 1..1 = {1} /\ 1..2 = {1, 2} /\ 2 - 1 = 1 /\ 3 - 1 = 2 /\ 1 - 1 = 0
    OBVIOUS
  <2>2. CASE ~Below(score(2), score(1)) /\ ~Below(score(3), score(1))
    <3>1. ~Below(score(1), score(1))
      BY <1>1 DEF Below
    <3>2. Best(1)
      BY <2>1, <2>2, <3>1, RouteFacts DEF Best
    <3>3. QED
      BY <3>2, RouteFacts
  <2>3. CASE Below(score(2), score(1)) /\ ~Below(score(3), score(2))
    <3>1. ~Below(score(2), score(2)) /\ ~Below(score(1), score(2))
      BY <1>1, <2>3 DEF Below
    <3>2. Best(2)
      BY <2>1, <2>3, <3>1, RouteFacts DEF Best
    <3>3. QED
      BY <3>2, RouteFacts
  <2>4. CASE /\ Below(score(3), score(1)) /\ ~Below(score(2), score(1))
    <3>1. /\ ~Below(score(3), score(3)) /\ ~Below(score(1), score(3)) /\ ~Below(score(2), score(3))
          /\ Below(score(3), score(2))
      BY <1>1, <2>4 DEF Below
    <3>2. Best(3)
      BY <2>1, <2>4, <3>1, RouteFacts DEF Best
    <3>3. QED
      BY <3>2, RouteFacts
  <2>5. CASE Below(score(2), score(1)) /\ Below(score(3), score(2))
    <3>1. /\ ~Below(score(3), score(3)) /\ ~Below(score(1), score(3)) /\ ~Below(score(2), score(3))
          /\ Below(score(3), score(1))
      BY <1>1, <2>5 DEF Below
    <3>2. Best(3)
      BY <2>1, <2>5, <3>1, RouteFacts DEF Best
    <3>3. QED
      BY <3>2, RouteFacts
  <2>6. QED
    BY <2>2, <2>3, <2>4, <2>5
<1>3. _choose = CHOOSE a \in Approaches : Best(a)
  BY DEF _choose
<1>4. _choose \in Approaches /\ Best(_choose)
  BY <1>2, <1>3
<1>5. QED
  BY <1>4

LEMMA RoutePreserved == RouteInv /\ [Next]_vars => RouteInv'
<1> SUFFICES ASSUME RouteTypes, ReadsSeen, Advised, RouteNext \/ UNCHANGED routeVars
             PROVE  RouteInv'
  BY RouteFrame DEF RouteInv
<1>1. CASE _zone_statuses
  <2> DEFINE n == Len(statuses) + 1
  <2>1. /\ n \in 1..5 /\ statuses' = Append(statuses, status[Passed[n]])
        /\ UNCHANGED <<status, lengths, chosen, avoid_areas, polyline, ranks>>
    BY <1>1, PassedFacts DEF _zone_statuses, ReadsSeen, RouteTypes
  <2>2. Passed[n] \in RouteZones
    BY <2>1, PassedFacts
  <2>3. status[Passed[n]] \in Ranks /\ status[Passed[n]] \in ranks[Passed[n]]
    BY <2>2 DEF RouteTypes, ReadsSeen
  <2>4. /\ statuses' \in Seq(Ranks) /\ Len(statuses') = n
        /\ \A i \in 1..Len(statuses) : statuses'[i] = statuses[i]
        /\ statuses'[n] = status[Passed[n]]
    BY <2>1, <2>3 DEF RouteTypes
  <2>5. RouteTypes'
    BY <2>1, <2>4 DEF RouteTypes
  <2>6. \A i \in 1..n : i \in 1..Len(statuses) \/ i = n
    BY DEF RouteTypes
  <2>7. ReadsSeen'
    BY <2>1, <2>3, <2>4, <2>6 DEF ReadsSeen
  <2>8. Advised'
    BY <2>1 DEF Advised, Clear, Congested
  <2>9. QED
    BY <2>5, <2>7, <2>8 DEF RouteInv
<1>2. CASE guidance
  <2>1. /\ Len(statuses) = Len(Passed) /\ chosen' = _choose /\ avoid_areas' = _avoid_areas
        /\ UNCHANGED <<status, lengths, statuses, polyline, ranks>>
    BY <1>2 DEF guidance
  <2>2. RouteTypes' /\ ReadsSeen'
    BY <2>1 DEF RouteTypes, ReadsSeen
  <2>3. ASSUME NEW a \in Approaches, Clear(a) PROVE busy_count(a) = 0
    <3>1. \A z \in ROUTES[a].zones : Read(z) \notin _BUSY
      BY <2>1, <2>3, ReadFacts, RouteFacts DEF Clear
    <3>2. QED
      BY <2>1, <3>1, ScoreFacts
  <2>4. ASSUME NEW a \in Approaches, Clear(a), NEW z \in ROUTES[_choose].zones, Congested(z)
        PROVE  FALSE
    <3>1. _choose \in Approaches /\ ~Below(score(a), score(_choose))
      BY <2>1, ChoiceFacts
    <3>2. Read(z) \in _BUSY
      BY <2>1, <2>4, <3>1, ReadFacts, RouteFacts DEF Congested
    <3>3. busy_count(_choose) # 0 /\ busy_count(_choose) \in Nat
      BY <2>1, <3>1, <3>2, ScoreFacts
    <3>4. score(a)[1] = 0 /\ score(_choose)[1] = busy_count(_choose)
      BY <2>1, <2>3, <2>4, <3>1, ScoreFacts
    <3>5. QED
      BY <3>1, <3>3, <3>4 DEF Below
  <2>5. \A z \in RouteZones : Congested(z) => z \in _avoid_areas
    BY <2>1, ReadFacts DEF Congested, _avoid_areas
  <2>6. Advised'
    <3>1. _choose # 0
      BY <2>1, ChoiceFacts, RouteFacts
    <3>2. QED
      BY <2>1, <2>4, <2>5, <3>1 DEF Advised, Clear, Congested
  <2>7. QED
    BY <2>2, <2>6 DEF RouteInv
<1>3. CASE _fetch_mapbox_route \/ UNCHANGED routeVars
  <2>1. /\ UNCHANGED <<status, lengths, statuses, chosen, avoid_areas, ranks>>
        /\ polyline' = polyline \/ chosen # 0
    BY <1>3 DEF _fetch_mapbox_route, routeVars
  <2>2. QED
    BY <2>1 DEF RouteInv, RouteTypes, ReadsSeen, Advised, Clear, Congested
<1>4. CASE Shift
  <2>1. PICK z \in RouteZones, r \in Ranks :
           /\ status' = [status EXCEPT ![z] = r]
           /\ ranks' = [ranks EXCEPT ![z] = @ \cup {r}]
    BY <1>4 DEF Shift
  <2>2. chosen' = 0 /\ UNCHANGED <<chosen, polyline, lengths, statuses>>
    BY <1>4 DEF Shift
  <2>3. RouteTypes'
    BY <2>1, <2>2 DEF RouteTypes
  <2>4. \A y \in RouteZones : ranks[y] \subseteq ranks'[y] /\ status'[y] \in ranks'[y]
    BY <2>1 DEF RouteTypes, ReadsSeen
  <2>5. ReadsSeen'
    <3>1. \A i \in 1..Len(statuses) : Passed[i] \in RouteZones
      BY PassedFacts DEF RouteTypes, ReadsSeen
    <3>2. QED
      BY <2>2, <2>4, <3>1 DEF ReadsSeen
  <2>6. QED
    BY <2>2, <2>3, <2>5 DEF RouteInv, Advised
<1>5. QED
  BY <1>1, <1>2, <1>3, <1>4 DEF RouteNext

(***************************************************************************)
(* A line of the service's own leads through no zone congested all the     *)
(* while if one approach stays clear, whatever else changes between the    *)
(* reads; and the answer warns of every such zone, also where Mapbox's     *)
(* line, which nothing keeps off them, is drawn; for any lengths and       *)
(* number of changes.                                                      *)
(***************************************************************************)
THEOREM ClearRouteTaken == Spec => []ClearRouteDrawn
<1>1. Init => RouteInv
  BY RouteInitial DEF Init
<1>2. RouteInv => ClearRouteDrawn
  BY DEF RouteInv, Advised, ClearRouteDrawn
<1>3. QED
  BY <1>1, <1>2, RoutePreserved, PTL DEF Spec
----------------------------------------------------------------------------
(* The search for facilities.                                              *)

LEMMA HelpFrame == [Next]_vars => FacilitiesNext \/ UNCHANGED helpVars
BY DEF Next, vars, ServiceStep, HandleStep, Runs

(* The posts a search must come up with, once the candidates were read.    *)
Searching == {"limit", "expire", "pois", "answer"}
Posts == IF operational = {} THEN FACILITIES ELSE operational
Sought == {p \in Posts : p.kind \in inquiry.kinds \cap _ALWAYS_RELEVANT /\ InRange(p)}

HelpTypes ==
    /\ operational \in SUBSET FACILITIES
    /\ helpPc # "idle" => inquiry \in get_nearby \cup nearest
    /\ candidates \in SUBSET FACILITIES /\ pois \in SUBSET Pois
HelpInv ==
    /\ HelpTypes
    /\ helpPc \in Searching => Sought \subseteq candidates
    /\ HelpAnswered

(* Every bundled place has a name of its own, and stands somewhere.        *)
Own(places, first, last) ==
    \A p \in places : /\ p.name \in first..last /\ p.lon \in Nat /\ p.lat \in Nat
                      /\ \A q \in places : p.name = q.name => p = q

LEMMA PlaceFacts == Own(FACILITIES, 1, 20)
<1> USE DEF Own, Place, AllDay
<1>1. Own(MedicalPosts, 1, 3)
  BY DEF MedicalPosts
<1>2. Own(WaterPoints, 4, 8)
  BY DEF WaterPoints
<1>3. Own(ToiletBlocks, 9, 12)
  BY DEF ToiletBlocks
<1>4. Own(RestShelters, 13, 14)
  BY DEF RestShelters
<1>5. Own(Langars, 15, 17)
  BY DEF Langars
<1>6. Own(OfficialPosts, 18, 20)
  BY DEF OfficialPosts
<1> HIDE DEF Place, AllDay
<1>7. QED
  BY <1>1, <1>2, <1>3, <1>4, <1>5, <1>6 DEF FACILITIES

LEMMA PlacesFinite == IsFiniteSet(FACILITIES)
<1> DEFINE called == [p \in FACILITIES |-> p.name]
<1>1. called \in Injection(FACILITIES, 1..20)
  BY PlaceFacts DEF Own, Injection, IsInjective
<1>2. IsFiniteSet(1..20)
  <2>1. 1 \in Int /\ 20 \in Int
    OBVIOUS
  <2>2. QED
    BY <2>1, FS_Interval
<1>3. QED
  BY <1>1, <1>2, FS_Injection

(* What is within the radius is within the square around it.               *)
LEMMA Square ==
  ASSUME NEW x \in Nat, NEW y \in Nat, NEW r \in Nat, x * x + y * y <= r * r
  PROVE  x <= r
<1>1. y * y >= 0
  OBVIOUS
<1>2. x > r => x * x > r * r
  <2> SUFFICES ASSUME x > r PROVE x * x > r * r
    OBVIOUS
  <2>1. x * x >= x * r
    OBVIOUS
  <2>2. x * r >= r * r
    OBVIOUS
  <2>3. x * (x - r) >= x
    OBVIOUS
  <2>4. x * x - x * r >= x
    BY <2>3
  <2>5. QED
    BY <2>1, <2>2, <2>4
<1>3. QED
  BY <1>1, <1>2

LEMMA BoxHolds ==
  ASSUME HelpTypes, helpPc # "idle", NEW p \in FACILITIES, InRange(p)
  PROVE  bounding_box(p)
<1>1. /\ inquiry.radius \in Nat /\ inquiry.spot[1] \in Int /\ inquiry.spot[2] \in Int
  <2>1. CASE inquiry \in get_nearby
    <3>1. inquiry.spot \in Spots /\ inquiry.radius \in Radii
      BY <2>1 DEF get_nearby
    <3>2. Spots \subseteq Int \X Int /\ Radii \subseteq Nat
      <4>1. Radii \subseteq 1..10000
        BY FacilitiesAssumption
      <4>2. Radii \subseteq Nat
        BY <4>1
      <4>3. Spots \subseteq Int \X Int
        BY FacilitiesAssumption
      <4>4. QED
        BY <4>2, <4>3
    <3>3. inquiry.radius \in Nat
      BY <3>1, <3>2
    <3>4. inquiry.spot \in Int \X Int
      BY <3>1, <3>2
    <3>5. inquiry.spot[1] \in Int /\ inquiry.spot[2] \in Int
      BY <3>4
    <3>6. QED
      BY <3>3, <3>5
  <2>2. CASE inquiry \in nearest
    BY <2>2, FacilitiesAssumption DEF nearest
  <2>3. QED
    BY <2>1, <2>2 DEF HelpTypes
<1>2. p.lon \in Nat /\ p.lat \in Nat
  BY PlaceFacts DEF Own
<1>3. Apart(p.lon, inquiry.spot[1]) \in Nat /\ Apart(p.lat, inquiry.spot[2]) \in Nat
  BY <1>1, <1>2 DEF Apart
<1>4. East(p) \in Nat /\ North(p) \in Nat
  BY <1>3 DEF East, North
<1>5. East(p) * East(p) + North(p) * North(p) <= inquiry.radius * inquiry.radius
  BY DEF InRange, haversine_m
<1>6. North(p) * North(p) + East(p) * East(p) <= inquiry.radius * inquiry.radius
  BY <1>4, <1>5
<1>7. QED
  BY <1>1, <1>4, <1>5, <1>6, Square DEF bounding_box

LEMMA HelpInitial == FacilitiesInit => HelpInv
BY DEF FacilitiesInit, HelpInv, HelpTypes, Searching, HelpAnswered

(* The answer.                                                             *)
LEMMA AnswerHelps == ASSUME HelpInv, nearby_answer PROVE HelpAnswered'
<1> USE DEF HelpInv
<1>1. /\ helpPc = "answer" /\ UNCHANGED <<operational, inquiry, candidates, pois>>
      /\ Sought \subseteq candidates
  BY DEF nearby_answer, Searching
<1> DEFINE inside == {p \in pois \cup candidates : InRange(p)}
           open(p) == p \in pois \/ is_open_now(p)
           shown(kept) == {p \in kept : ~inquiry.open_only \/ open(p) \/ p.kind \in _ALWAYS_RELEVANT}
           entries(kept, tendered) == {Entry(p, open(p)) : p \in shown(kept)} \cup _community(tendered)
<1>2. PICK kept \in SUBSET inside, tendered \in SUBSET Offers :
         /\ Distinct(kept, inside)
         /\ helpAnswer' \in SUBSET entries(kept, tendered)
         /\ Nearest(helpAnswer', entries(kept, tendered))
  BY DEF nearby_answer
<1>3. IsFiniteSet(entries(kept, tendered))
  <2>1. IsFiniteSet(kept) /\ IsFiniteSet(tendered)
    <3>1. IsFiniteSet(pois) /\ IsFiniteSet(candidates) /\ IsFiniteSet(Offers)
      BY PlacesFinite, FacilitiesAssumption, FS_Subset DEF HelpTypes
    <3>2. IsFiniteSet(pois \cup candidates)
      BY <3>1, FS_Union
    <3>3. kept \in SUBSET (pois \cup candidates)
      OBVIOUS
    <3>4. QED
      BY <3>1, <3>2, <3>3, FS_Subset
  <2>2. IsFiniteSet({Entry(p, open(p)) : p \in shown(kept)})
    <3> DEFINE f == [p \in shown(kept) |-> Entry(p, open(p))]
               image == {Entry(p, open(p)) : p \in shown(kept)}
    <3>1. IsFiniteSet(shown(kept))
      BY <2>1, FS_Subset
    <3>2. f \in Surjection(shown(kept), image)
      BY DEF Surjection
    <3>3. QED
      BY <3>1, <3>2, FS_Surjection
  <2>3. IsFiniteSet(_community(tendered))
    <3> DEFINE taken == {o \in tendered : InRange(o) /\ o.kind \in inquiry.kinds \cap SEVA_CATEGORIES}
               f == [o \in taken |-> Entry(o, ~o.locked)]
               image == {Entry(o, ~o.locked) : o \in taken}
    <3>1. IsFiniteSet(taken)
      BY <2>1, FS_Subset
    <3>2. f \in Surjection(taken, image)
      BY DEF Surjection
    <3>3. IsFiniteSet(image)
      BY <3>1, <3>2, FS_Surjection
    <3>4. QED
      BY <3>3 DEF _community
  <2>4. QED
    BY <2>2, <2>3, FS_Union
<1>4. ASSUME NEW p \in Sought
      PROVE  \/ \E e \in helpAnswer' : e.name = p.name /\ e.kind = p.kind
             \/ Namesakes(p, pois) # {}
             \/ /\ Cardinality(helpAnswer') = inquiry.limit
                /\ \A e \in helpAnswer' : e.far <= haversine_m(p)
  <2>1. p \in inside /\ p \in FACILITIES
    BY <1>1, <1>4 DEF Sought, HelpTypes
  <2>2. PICK q \in kept : q.kind = p.kind /\ q.name = p.name
    <3>1. Cardinality(Namesakes(p, kept)) = 1
      BY <1>2, <2>1 DEF Distinct
    <3>2. Namesakes(p, kept) # {}
      BY <3>1, FS_EmptySet
    <3>3. QED
      BY <3>2 DEF Namesakes
  <2>3. CASE q \in pois
    BY <2>2, <2>3 DEF Namesakes
  <2>4. CASE q \notin pois
    <3>1. q \in candidates
      BY <2>4
    <3>2. q = p
      BY <3>1, <2>1, <2>2, PlaceFacts DEF Own, HelpTypes
    <3>3. p \in shown(kept)
      BY <3>2, <2>2, <1>4 DEF Sought
    <3> DEFINE e == Entry(p, open(p))
    <3>4. e \in entries(kept, tendered) /\ e.name = p.name /\ e.kind = p.kind
          /\ e.far = haversine_m(p)
      BY <3>3 DEF Entry
    <3> HIDE DEF e, entries
    <3>5. CASE e \in helpAnswer'
      BY <3>4, <3>5
    <3>6. CASE e \notin helpAnswer'
      <4>1. helpAnswer' # entries(kept, tendered)
        BY <3>4, <3>6
      <4>2. Cardinality(helpAnswer') # Cardinality(entries(kept, tendered))
        BY <4>1, <1>2, <1>3, FS_Subset
      <4>3. Cardinality(helpAnswer') = inquiry.limit
        BY <4>2, <1>2 DEF Nearest
      <4>4. \A d \in helpAnswer' : d.far <= e.far
        BY <3>4, <3>6, <1>2 DEF Nearest
      <4>5. QED
        BY <3>4, <4>3, <4>4
    <3>7. QED
      BY <3>5, <3>6
  <2>5. QED
    BY <2>3, <2>4
<1>5. QED
  BY <1>1, <1>4 DEF HelpAnswered, Sought, Posts, InRange, haversine_m, East, North

LEMMA HelpPreserved == HelpInv /\ [Next]_vars => HelpInv'
<1> SUFFICES ASSUME HelpInv, FacilitiesNext \/ UNCHANGED helpVars PROVE HelpInv'
  BY HelpFrame
<1>t. HelpTypes
  BY DEF HelpInv
<1>1. CASE nearby
  BY <1>1, <1>t DEF nearby, HelpInv, HelpTypes, Searching, HelpAnswered
<1>2. CASE _candidates
  <2>1. /\ helpPc = "read" /\ helpPc' = "limit"
        /\ candidates' = IF _from_db # {} THEN _from_db
                         ELSE {p \in FACILITIES : p.kind \in inquiry.kinds}
        /\ UNCHANGED <<operational, inquiry, pois>>
    BY <1>2 DEF _candidates
  <2>2. _from_db \in SUBSET FACILITIES
    BY <1>t DEF _from_db, HelpTypes
  <2>3. HelpTypes'
    BY <1>t, <2>1, <2>2 DEF HelpTypes
  <2>4. Sought \subseteq candidates'
    <3> SUFFICES ASSUME NEW p \in Sought PROVE p \in candidates'
      OBVIOUS
    <3>1. p \in FACILITIES /\ p.kind \in inquiry.kinds /\ InRange(p)
      BY <1>t DEF Sought, Posts, HelpTypes
    <3>2. bounding_box(p)
      BY <1>t, <2>1, <3>1, BoxHolds
    <3>3. CASE _from_db # {}
      <4>1. operational # {} /\ _from_db = {f \in operational : bounding_box(f) /\ f.kind \in inquiry.kinds}
        BY <3>3 DEF _from_db
      <4>2. p \in operational
        BY <4>1 DEF Sought, Posts
      <4>3. QED
        BY <2>1, <3>1, <3>2, <3>3, <4>1, <4>2
    <3>4. CASE _from_db = {}
      BY <2>1, <3>1, <3>4
    <3>5. QED
      BY <3>3, <3>4
  <2>5. Sought' = Sought
    BY <2>1 DEF Sought, Posts, InRange, haversine_m, East, North
  <2>6. QED
    BY <2>1, <2>3, <2>4, <2>5 DEF HelpInv, HelpAnswered
<1>3. CASE \/ check_mapbox_rate_limit \/ limit_window \/ _fetch_mapbox_pois \/ SearchFails
  <2>1. /\ helpPc \in Searching /\ helpPc' \in Searching \cup {"failed"}
        /\ pois' \in SUBSET Pois /\ UNCHANGED <<operational, inquiry, candidates>>
    BY <1>3, <1>t DEF check_mapbox_rate_limit, limit_window, _fetch_mapbox_pois, SearchFails,
                      Searching, HelpTypes
  <2>2. Sought' = Sought
    BY <2>1 DEF Sought, Posts, InRange, haversine_m, East, North
  <2>3. QED
    BY <1>t, <2>1, <2>2 DEF HelpInv, HelpTypes, HelpAnswered, Searching
<1>4. CASE nearby_answer
  <2>1. /\ helpPc = "answer" /\ helpPc' = "answered"
        /\ UNCHANGED <<operational, inquiry, candidates, pois>>
    BY <1>4 DEF nearby_answer
  <2>2. HelpTypes'
    BY <1>t, <2>1 DEF HelpTypes
  <2>3. HelpAnswered'
    BY <1>4, AnswerHelps
  <2>4. QED
    BY <2>1, <2>2, <2>3 DEF HelpInv, Searching
<1>5. CASE PoiWindowPasses \/ UNCHANGED helpVars
  <2>1. UNCHANGED <<operational, inquiry, helpPc, candidates, pois, helpAnswer>>
    BY <1>5 DEF PoiWindowPasses, helpVars
  <2>2. /\ Sought' = Sought
        /\ \A p : InRange(p)' = InRange(p) /\ haversine_m(p)' = haversine_m(p)
    BY <2>1 DEF Sought, Posts, InRange, haversine_m, East, North
  <2>3. HelpAnswered'
    BY <2>1, <2>2 DEF HelpInv, HelpAnswered, Namesakes
  <2>4. QED
    BY <1>t, <2>1, <2>2, <2>3 DEF HelpInv, HelpTypes
<1>6. QED
  BY <1>1, <1>2, <1>3, <1>4, <1>5 DEF FacilitiesNext

(***************************************************************************)
(* Every medical and police post in service and in range is answered, open *)
(* or not, whatever becomes of the table, the database, Mapbox and the     *)
(* volunteers; only as many nearer places as were asked for displace it,   *)
(* or a place Mapbox lists by its name.                                    *)
(***************************************************************************)
THEOREM HelpIsAnswered == Spec => []HelpAnswered
<1>1. Init => HelpInv
  BY HelpInitial DEF Init
<1>2. HelpInv => HelpAnswered
  BY DEF HelpInv
<1>3. QED
  BY <1>1, <1>2, HelpPreserved, PTL DEF Spec
----------------------------------------------------------------------------
(* The figures of a crowd answer.                                          *)

LEMMA FiguresFrame == [Next]_vars => FiguresNext \/ UNCHANGED figureVars
BY DEF Next, vars, ServiceStep, HandleStep, Runs

FigureTypes ==
    /\ zone \in Zones /\ hour \in 0..23 /\ minute \in Minutes /\ current \in Currents
    /\ points \in Seq(0..100)
FiguresInv == FigureTypes /\ ForecastJoinsCurve

LEMMA ClampedFacts ==
  \A k \in Int : Clamped(k) \in 0..100 /\ (k \in 0..100 => Clamped(k) = k)
BY DEF Clamped

LEMMA RoundInt == ASSUME NEW n \in Int, NEW d \in Nat \ {0} PROVE round(n, d) \subseteq Int
BY DEF round

(* The curve, at any minute, is a density.                                 *)
LEMMA CurveFacts ==
  ASSUME NEW z \in Zones, NEW h \in 0..23, NEW m \in Minutes
  PROVE  curve_density(z, h, m) \subseteq 0..100
<1> DEFINE at(i) == HOURLY_CURVE[((i + _ZONE_HOUR_SHIFT(z)) % 24) + 1]
           base == at(h) * (60 - m) + at(h + 1) * m
<1>1. ZONES[z].intensity \in Nat
  BY FiguresAssumption DEF ZONES, Gate
<1>2. \A k \in 1..24 : HOURLY_CURVE[k] \in Nat
  BY DEF HOURLY_CURVE
<1>3. \A i \in Nat : at(i) \in Nat
  <2> SUFFICES ASSUME NEW i \in Nat PROVE at(i) \in Nat
    OBVIOUS
  <2>1. _ZONE_HOUR_SHIFT(z) \in Nat
    BY DEF _ZONE_HOUR_SHIFT
  <2>2. ((i + _ZONE_HOUR_SHIFT(z)) % 24) + 1 \in 1..24
    BY <2>1
  <2>3. QED
    BY <1>2, <2>2
<1>4. m \in 0..59
  BY FiguresAssumption
<1>5. at(h) \in Nat /\ at(h + 1) \in Nat
  BY <1>3
<1>6. base * ZONES[z].intensity \in Int
  <2> HIDE DEF at
  <2>1. base \in Int
    BY <1>4, <1>5
  <2> HIDE DEF base
  <2>2. QED
    BY <1>1, <2>1
<1>7. round(base * ZONES[z].intensity, 6000) \subseteq Int
  <2> HIDE DEF base
  <2>1. QED
    BY <1>6, RoundInt
<1>8. curve_density(z, h, m) = {Clamped(k) : k \in round(base * ZONES[z].intensity, 6000)}
  BY DEF curve_density
<1>9. QED
  <2> HIDE DEF base
  <2>1. QED
    BY <1>7, <1>8, ClampedFacts

(* A weighted mean, rounded, lies between the two it is made of.           *)
LEMMA Between ==
  ASSUME NEW c \in 0..100, NEW m \in 0..100, NEW weight \in 0..3,
         NEW v \in round(c * (3 - weight) + m * weight, 3)
  PROVE  /\ v \in (m..c) \cup (c..m) /\ v \in 0..100
         /\ weight = 0 => v = c
         /\ weight = 3 => v = m
<1>1. CASE weight = 0
  <2>1. c * (3 - weight) + m * weight = 3 * c
    BY <1>1
  <2>2. QED
    BY <1>1, <2>1 DEF round
<1>2. CASE weight = 1
  <2>1. c * (3 - weight) + m * weight = 2 * c + m
    BY <1>2
  <2>2. QED
    BY <1>2, <2>1 DEF round
<1>3. CASE weight = 2
  <2>1. c * (3 - weight) + m * weight = c + 2 * m
    BY <1>3
  <2>2. QED
    BY <1>3, <2>1 DEF round
<1>4. CASE weight = 3
  <2>1. c * (3 - weight) + m * weight = 3 * m
    BY <1>4
  <2>2. QED
    BY <1>4, <2>1 DEF round
<1>5. QED
  BY <1>1, <1>2, <1>3, <1>4

(* What the forecast promises of its i-th point.                           *)
Joins(i) ==
    LET curve == curve_density(zone, (hour + i - 1) % 24, minute)
    IN  /\ i = 1 => points[i] = current
        /\ i > 3 => points[i] \in curve
        /\ \E m \in curve : points[i] \in (m..current) \cup (current..m)

LEMMA FiguresPreserved == FiguresInv /\ [Next]_vars => FiguresInv'
<1> SUFFICES ASSUME FigureTypes, ForecastJoinsCurve, FiguresNext \/ UNCHANGED figureVars
             PROVE  FiguresInv'
  BY FiguresFrame DEF FiguresInv
<1>1. CASE forecast
  <2> DEFINE offset == Len(points)
             weight == IF offset < 3 THEN offset ELSE 3
             curve == curve_density(zone, (hour + offset) % 24, minute)
  <2>1. UNCHANGED <<zone, hour, minute, current>>
    BY <1>1 DEF forecast
  <2>p. PICK m \in curve : \E v \in round(current * (3 - weight) + m * weight, 3) :
                              points' = Append(points, Clamped(v))
    BY <1>1 DEF forecast
  <2>2. PICK v \in round(current * (3 - weight) + m * weight, 3) :
           points' = Append(points, Clamped(v))
    BY <2>p
  <2>3. offset \in Nat /\ weight \in 0..3 /\ current \in 0..100 /\ (hour + offset) % 24 \in 0..23
    <3>0. points \in Seq(0..100) /\ hour \in Nat
      BY DEF FigureTypes
    <3>n. offset \in Nat
      BY <3>0
    <3> HIDE DEF offset
    <3>1. offset \in Nat /\ weight \in 0..3
      BY <3>n
    <3>2. \A k \in Nat : k % 24 \in 0..23
      OBVIOUS
    <3>3. (hour + offset) % 24 \in 0..23
      BY <3>0, <3>n, <3>2
    <3>4. current \in 0..100
      BY FiguresAssumption DEF FigureTypes
    <3>5. QED
      BY <3>1, <3>3, <3>4
  <2>4. m \in 0..100
    BY <2>3, CurveFacts DEF FigureTypes
  <2> HIDE DEF curve, weight, offset
  <2>5. /\ v \in (m..current) \cup (current..m) /\ v \in 0..100
        /\ weight = 0 => v = current
        /\ weight = 3 => v = m
    BY <2>3, <2>4, Between
  <2>6. Clamped(v) = v
    BY <2>5, ClampedFacts
  <2>7. /\ points' \in Seq(0..100) /\ DOMAIN points' = 1..(offset + 1)
        /\ points'[offset + 1] = v /\ \A i \in 1..offset : points'[i] = points[i]
    BY <2>2, <2>5, <2>6 DEF FigureTypes, offset
  <2>8. FigureTypes'
    BY <2>1, <2>7 DEF FigureTypes
  <2>9. ASSUME NEW i \in DOMAIN points' PROVE Joins(i)'
    <3>1. CASE i = offset + 1
      <4>1. hour + i - 1 = hour + offset
        BY <2>3, <3>1 DEF FigureTypes
      <4>2. curve_density(zone, (hour + i - 1) % 24, minute)' = curve
        BY <2>1, <4>1 DEF curve
      <4>3. (i = 1 => weight = 0) /\ (i > 3 => weight = 3)
        BY <2>3, <3>1 DEF weight
      <4>4. QED
        BY <2>1, <2>2, <2>5, <2>7, <3>1, <4>2, <4>3 DEF Joins
    <3>2. CASE i \in 1..offset
      <4>1. Joins(i)
        <5>1. i \in DOMAIN points
          BY <3>2 DEF FigureTypes, offset
        <5>2. \A j \in DOMAIN points : Joins(j)
          BY DEF ForecastJoinsCurve, Joins
        <5>3. QED
          BY <5>1, <5>2
      <4>2. points'[i] = points[i]
        BY <2>7, <3>2
      <4>3. QED
        BY <2>1, <4>1, <4>2 DEF Joins
    <3>3. QED
      BY <2>3, <2>7, <3>1, <3>2
  <2>10. ForecastJoinsCurve'
    BY <2>9 DEF ForecastJoinsCurve, Joins
  <2>11. QED
    BY <2>8, <2>10 DEF FiguresInv
<1>2. CASE recommendation \/ advice \/ UNCHANGED figureVars
  <2>1. UNCHANGED <<zone, hour, minute, current, points>>
    BY <1>2 DEF recommendation, advice, figureVars
  <2>2. FigureTypes'
    BY <2>1 DEF FigureTypes
  <2>3. ForecastJoinsCurve'
    BY <2>1 DEF ForecastJoinsCurve
  <2>4. QED
    BY <2>2, <2>3 DEF FiguresInv
<1>3. QED
  BY <1>1, <1>2 DEF FiguresNext

(***************************************************************************)
(* The forecast opens with the density read, lies between it and the curve *)
(* and is the curve from the fourth hour on, for every zone, time, reading *)
(* and length, and however an exact half is rounded.                       *)
(***************************************************************************)
THEOREM ForecastContinues == Spec => []ForecastJoinsCurve
<1>1. Init => FiguresInv
  <2> SUFFICES ASSUME FiguresInit PROVE FiguresInv
    BY DEF Init
  <2>1. FigureTypes
    BY DEF FiguresInit, FigureTypes
  <2>2. ForecastJoinsCurve
    BY DEF FiguresInit, ForecastJoinsCurve
  <2>3. QED
    BY <2>1, <2>2 DEF FiguresInv
<1>2. FiguresInv => ForecastJoinsCurve
  BY DEF FiguresInv
<1>3. QED
  BY <1>1, <1>2, FiguresPreserved, PTL DEF Spec

----------------------------------------------------------------------------
(* The types of the rest.  The sequence runs through as many numbers as    *)
(* reports were given one, each report at most one.                        *)

Minted == {f \in Filings : reference[f] # 0}

Numbers ==
    /\ nextval <= Cardinality(Minted)
    /\ noticed \subseteq Filings
    /\ \A f \in Filings : f > filings => reference[f] = 0
    /\ \A w \in Desks :
         /\ filing[w] <= filings
         /\ deskPc[w] = "allocate" =>
              /\ reference[filing[w]] = 0
              /\ \A v \in Desks : deskPc[v] = "allocate" /\ filing[v] = filing[w] => v = w

LEMMA MintedFacts ==
  IsFiniteSet(Minted) /\ Cardinality(Minted) \in Nat /\ Cardinality(Minted) <= MaxReports
<1>1. MaxReports \in Nat /\ 1 \in Int /\ MaxReports \in Int
  BY DesksAssumption
<1>2. IsFiniteSet(Filings) /\ Cardinality(Filings) = MaxReports
  BY <1>1, FS_Interval DEF Filings
<1>3. Minted \subseteq Filings
  BY DEF Minted
<1>4. IsFiniteSet(Minted) /\ Cardinality(Minted) <= MaxReports
  BY <1>2, <1>3, FS_Subset
<1>5. QED
  BY <1>4, FS_CardinalityType

LEMMA NumbersPreserved == LostInv /\ Numbers /\ [Next]_vars => Numbers'
<1> SUFFICES ASSUME LostInv, Numbers, LostNext \/ UNCHANGED lostVars PROVE Numbers'
  BY LostFrame
<1>i. LostTypes /\ Allocated /\ Filed
  BY DEF LostInv
<1>0. CASE UNCHANGED lostVars
  BY <1>0 DEF lostVars, Numbers, Minted
<1>1. ASSUME NEW w \in Desks, create_report(w) PROVE Numbers'
  <2>1. /\ filings + 1 \in Filings /\ filings \in Nat /\ filings' = filings + 1
        /\ UNCHANGED <<nextval, reference, noticed>>
    BY <1>i, <1>1, DesksAssumption DEF create_report, LostTypes, Filings
  <2>2. /\ \A v \in Desks : filing'[v] = IF v = w THEN filings + 1 ELSE filing[v]
        /\ \A v \in Desks : deskPc'[v] = IF v = w THEN "allocate" ELSE deskPc[v]
    BY <1>i, <1>1, <2>1 DEF create_report, LostTypes
  <2>3. Minted' = Minted
    BY <2>1 DEF Minted
  <2>4. \A v \in Desks : filing[v] \in Nat /\ filing[v] <= filings
    BY <1>i DEF LostTypes, Numbers
  <2>5. reference[filings + 1] = 0
    BY <2>1 DEF Numbers
  <2>6. \A f \in Filings : f > filings' => reference'[f] = 0
    BY <2>1 DEF Numbers, Filings
  <2>7. \A v \in Desks :
          /\ filing'[v] <= filings'
          /\ deskPc'[v] = "allocate" =>
               /\ reference'[filing'[v]] = 0
               /\ \A u \in Desks : deskPc'[u] = "allocate" /\ filing'[u] = filing'[v] => u = v
    BY <2>1, <2>2, <2>4, <2>5 DEF Numbers
  <2>8. QED
    BY <2>1, <2>3, <2>6, <2>7 DEF Numbers
<1>2. ASSUME NEW w \in Desks, allocate_reference_id(w), Executes PROVE Numbers'
  <2>1. /\ deskPc[w] = "allocate" /\ nextval \in Nat /\ nextval' = nextval + 1
        /\ filing[w] \in Filings /\ reference[filing[w]] = 0
        /\ UNCHANGED <<filings, filing, noticed>>
    BY <1>i, <1>2 DEF allocate_reference_id, Turn, LostTypes, Filed, Numbers
  <2>2. \A v \in Desks : deskPc'[v] = IF v = w THEN "commit" ELSE deskPc[v]
    BY <1>i, <1>2 DEF allocate_reference_id, Turn, LostTypes
  <2>3. \A f \in Filings : reference'[f] = IF f = filing[w] THEN nextval + 1 ELSE reference[f]
    BY <1>i, <1>2 DEF allocate_reference_id, LostTypes
  <2>4. filing[w] \notin Minted /\ Minted' = Minted \cup {filing[w]}
    BY <2>1, <2>3 DEF Minted
  <2>5. Cardinality(Minted') = Cardinality(Minted) + 1 /\ Cardinality(Minted) \in Nat
    BY <2>4, MintedFacts, FS_AddElement
  <2>6. nextval' <= Cardinality(Minted')
    BY <2>1, <2>5 DEF Numbers
  <2>7. \A f \in Filings : f > filings' => reference'[f] = 0
    BY <2>1, <2>3, <1>i DEF Numbers, LostTypes, Filings
  <2>8. \A v \in Desks :
          /\ filing'[v] <= filings'
          /\ deskPc'[v] = "allocate" =>
               /\ reference'[filing'[v]] = 0
               /\ \A u \in Desks : deskPc'[u] = "allocate" /\ filing'[u] = filing'[v] => u = v
    BY <1>i, <2>1, <2>2, <2>3 DEF Numbers, Filed
  <2>9. QED
    BY <2>1, <2>6, <2>7, <2>8 DEF Numbers
<1>3. ASSUME NEW w \in Desks, NEW point \in {"idle", "commit", "notify", "answer"},
             deskPc' = [deskPc EXCEPT ![w] = point],
             filing' = filing \/ (filing' = [filing EXCEPT ![w] = 0]),
             UNCHANGED <<nextval, filings, reference>>, noticed' \subseteq Filings
      PROVE  Numbers'
  <2>1. \A v \in Desks : deskPc'[v] = IF v = w THEN point ELSE deskPc[v]
    BY <1>i, <1>3 DEF LostTypes
  <2>2. \A v \in Desks : filing'[v] = filing[v] \/ (v = w /\ filing'[v] = 0)
    BY <1>i, <1>3 DEF LostTypes
  <2>3. filings \in Nat
    BY <1>i DEF LostTypes
  <2>4. Minted' = Minted
    BY <1>3 DEF Minted
  <2>5. QED
    BY <1>3, <2>1, <2>2, <2>3, <2>4 DEF Numbers
<1>n. noticed \subseteq Filings
  BY DEF Numbers
<1>4. ASSUME NEW w \in Desks, allocate_reference_id(w), ~Executes PROVE Numbers'
  BY <1>3, <1>4, <1>n DEF allocate_reference_id, Turn
<1>5. ASSUME NEW w \in Desks, report_commit(w) PROVE Numbers'
  BY <1>3, <1>5, <1>n DEF report_commit, Turn
<1>6. ASSUME NEW w \in Desks, _notify_dashboard(w) PROVE Numbers'
  <2>1. filing[w] \in Filings
    BY <1>i, <1>6 DEF _notify_dashboard, Turn, Filed
  <2>2. noticed' \subseteq Filings
    BY <1>6, <1>n, <2>1 DEF _notify_dashboard
  <2>3. QED
    BY <1>3, <1>6, <2>2 DEF _notify_dashboard, Turn
<1>7. ASSUME NEW w \in Desks, report_answer(w) \/ DeskDies(w) PROVE Numbers'
  BY <1>3, <1>7, <1>n DEF report_answer, DeskDies, Turn
<1>8. QED
  BY <1>0, <1>1, <1>2, <1>4, <1>5, <1>6, <1>7 DEF LostNext

LEMMA LostTyped == Spec => []LostType
<1>1. Init => LostInv /\ Numbers
  <2> SUFFICES ASSUME LostInit PROVE LostInv /\ Numbers
    BY DEF Init
  <2>1. /\ nextval = 0 /\ filings = 0 /\ noticed = {} /\ reference = [f \in Filings |-> 0]
        /\ deskPc = [w \in Desks |-> "idle"] /\ filing = [w \in Desks |-> 0]
    BY DEF LostInit
  <2>2. Numbers
    BY <2>1, MintedFacts DEF Numbers
  <2>3. QED
    BY <2>2, LostInitial
<1>2. LostInv /\ Numbers => LostType
  <2> SUFFICES ASSUME LostTypes, Allocated, Numbers PROVE LostType
    BY DEF LostInv
  <2>1. nextval \in 0..MaxReports
    BY MintedFacts, DesksAssumption DEF LostTypes, Numbers
  <2>2. reference \in [Filings -> 0..MaxReports]
    <3>1. \A f \in Filings : reference[f] \in Nat /\ reference[f] <= nextval
      BY DEF LostTypes, Allocated
    <3>2. \A f \in Filings : reference[f] \in 0..MaxReports
      BY <2>1, <3>1, DesksAssumption
    <3>3. QED
      BY <3>2 DEF LostTypes
  <2>3. {rows, told, noticed} \subseteq SUBSET Filings
    BY DEF LostTypes, Numbers
  <2>4. QED
    BY <2>1, <2>2, <2>3 DEF LostTypes, LostType
<1>3. QED
  BY <1>1, <1>2, LostPreserved, NumbersPreserved, PTL DEF Spec

LEMMA ListingsTyped == Spec => []ListingsType
<1> DEFINE Listed == shared \in SUBSET Listings
<1>1. Init => Listed
  BY DEF Init, ListingsInit
<1>2. ListingsInv /\ Listed /\ [Next]_vars => Listed'
  <2> SUFFICES ASSUME ListingTypes, Listed, ListingsNext \/ UNCHANGED listingVars PROVE Listed'
    BY ListingsFrame DEF ListingsInv
  <2>1. ASSUME NEW w \in Hosts, create_commit(w) PROVE Listed'
    <3>1. subject[w].listing \in Listings
      BY <2>1 DEF create_commit, ListingTypes, NoSubject
    <3>2. QED
      BY <2>1, <3>1 DEF create_commit
  <2>2. ASSUME NEW w \in Hosts, NEW l \in Listings, create(w, l) \/ manage(w, l) PROVE Listed'
    BY <2>2 DEF create, manage, change_row, change_copy
  <2>3. ASSUME NEW w \in Hosts, change_commit(w) \/ HostRestarts(w) PROVE Listed'
    BY <2>3 DEF change_commit, HostRestarts
  <2>4. CASE UNCHANGED listingVars
    BY <2>4 DEF listingVars
  <2>5. QED
    BY <2>1, <2>2, <2>3, <2>4 DEF ListingsNext
<1>3. ListingsInv /\ Listed => ListingsType
  BY DEF ListingsInv, ListingTypes, ListingsType
<1>4. QED
  BY <1>1, <1>2, <1>3, ListingsInvariant, PTL DEF Spec

LEMMA RouteTyped == Spec => []RouteType
<1> DEFINE Chosen == /\ lengths \in [Approaches -> Lengths]
                     /\ chosen \in Approaches \cup {0} /\ avoid_areas \in SUBSET RouteZones
                     /\ polyline \in {"none", "ours", "theirs"}
                     /\ shifts \in 0..MaxShifts
<1>1. Init => Chosen
  <2>1. 0 \in 0..MaxShifts
    BY RouteAssumption
  <2>2. QED
    BY <2>1 DEF Init, RouteInit
<1>2. RouteInv /\ Chosen /\ [Next]_vars => Chosen'
  <2> SUFFICES ASSUME RouteInv, Chosen, RouteNext \/ UNCHANGED routeVars PROVE Chosen'
    BY RouteFrame
  <2>1. CASE _zone_statuses
    BY <2>1 DEF _zone_statuses
  <2>2. CASE guidance
    <3>1. _choose \in Approaches
      BY <2>2, ChoiceFacts DEF guidance, RouteInv
    <3>2. _avoid_areas \in SUBSET RouteZones
      BY DEF _avoid_areas
    <3>3. QED
      BY <2>2, <3>1, <3>2 DEF guidance
  <2>3. CASE _fetch_mapbox_route
    BY <2>3 DEF _fetch_mapbox_route
  <2>4. CASE Shift
    <3>1. shifts' \in 0..MaxShifts
      BY <2>4, RouteAssumption DEF Shift
    <3>2. QED
      BY <2>4, <3>1 DEF Shift
  <2>5. CASE UNCHANGED routeVars
    BY <2>5 DEF routeVars
  <2>6. QED
    BY <2>1, <2>2, <2>3, <2>4, <2>5 DEF RouteNext
<1>3. RouteInv /\ Chosen => RouteType
  BY PassedFacts DEF RouteInv, RouteTypes, ReadsSeen, RouteType
<1>4. Init => RouteInv
  BY RouteInitial DEF Init
<1>5. QED
  BY <1>1, <1>2, <1>3, <1>4, RoutePreserved, PTL DEF Spec

LEMMA HelpTyped == Spec => []FacilitiesType
<1> DEFINE HelpSteps == {"idle", "read", "limit", "expire", "pois", "answer", "answered",
                         "failed"}
           Asked == /\ poiCount \in 0..(max_requests + 1) /\ poiExpires \in BOOLEAN
                    /\ inquiry \in get_nearby \cup nearest \cup {NoInquiry}
                    /\ helpPc \in HelpSteps
<1>0. 0 \in 0..(max_requests + 1) /\ max_requests \in Nat
  BY FacilitiesAssumption
<1>1. Init => Asked
  BY <1>0 DEF Init, FacilitiesInit
<1>2. Asked /\ [Next]_vars => Asked'
  <2> SUFFICES ASSUME Asked, FacilitiesNext \/ UNCHANGED helpVars PROVE Asked'
    BY HelpFrame
  <2>1. CASE nearby
    BY <2>1 DEF nearby
  <2>2. CASE _candidates \/ _fetch_mapbox_pois \/ nearby_answer \/ SearchFails
    BY <2>2 DEF _candidates, _fetch_mapbox_pois, nearby_answer, SearchFails
  <2>3. CASE check_mapbox_rate_limit
    <3>1. poiCount' \in 0..(max_requests + 1)
      <4>1. poiCount' = poiCount \/ (poiCount <= max_requests /\ poiCount' = poiCount + 1)
        BY <2>3 DEF check_mapbox_rate_limit
      <4>2. QED
        BY <1>0, <4>1
    <3>2. helpPc' \in HelpSteps /\ UNCHANGED <<poiExpires, inquiry>>
      BY <2>3 DEF check_mapbox_rate_limit
    <3>3. QED
      BY <3>1, <3>2
  <2>4. CASE limit_window
    <3>1. poiExpires' \in BOOLEAN
      BY <2>4 DEF limit_window
    <3>2. QED
      BY <2>4, <3>1 DEF limit_window
  <2>5. CASE PoiWindowPasses
    BY <1>0, <2>5 DEF PoiWindowPasses
  <2>6. CASE UNCHANGED helpVars
    BY <2>6 DEF helpVars
  <2>7. QED
    BY <2>1, <2>2, <2>3, <2>4, <2>5, <2>6 DEF FacilitiesNext
<1>3. HelpInv /\ Asked => FacilitiesType
  BY DEF HelpInv, HelpTypes, FacilitiesType
<1>4. Init => HelpInv
  BY HelpInitial DEF Init
<1>5. QED
  BY <1>1, <1>2, <1>3, <1>4, HelpPreserved, PTL DEF Spec

----------------------------------------------------------------------------
(* The types of all services together.  Only the service that runs moves   *)
(* the handles, and of the services only a crowd look-up does.             *)

HandlesInv == service \in Studied /\ HandlesType

LEMMA HandlesInitial == Init => HandlesInv
<1> SUFFICES ASSUME Init PROVE HandlesInv
  OBVIOUS
<1>1. MaxOutages \in Nat
  BY OutagesAssumption
<1>2. redisUp \in BOOLEAN /\ (~redisUp => MaxOutages # 0)
  BY DEF Init, HandlesInit
<1>3. outages \in 0..MaxOutages
  BY <1>1, <1>2 DEF Init, HandlesInit
<1>4. healthy \in [Workers -> BOOLEAN]
  BY <1>2 DEF Init, HandlesInit
<1>5. {redisUp, dbUp} \subseteq BOOLEAN
  BY <1>2 DEF Init, HandlesInit
<1>6. QED
  BY <1>3, <1>4, <1>5 DEF Init, HandlesInv, HandlesType

LEMMA FlagKept ==
  ASSUME HandlesType, NEW w, MarksDown(w) PROVE healthy' \in [Workers -> BOOLEAN]
BY DEF HandlesType, MarksDown

LEMMA CrowdHandles == ASSUME HandlesType, CrowdNext PROVE HandlesType'
<1>1. (\E w : MarksDown(w)) \/ UNCHANGED healthy
  BY DEF CrowdNext, read_zone, read_zone_select, read_zone_fill, _write_cache, update_crowd,
         tick, record, record_cache, record_commit, EntryLost, CrowdDies
<1>2. healthy' \in [Workers -> BOOLEAN]
  BY <1>1, FlagKept DEF HandlesType
<1>3. UNCHANGED <<redisUp, dbUp, outages>>
  BY DEF CrowdNext
<1>4. QED
  BY <1>2, <1>3 DEF HandlesType

LEMMA HandlesPreserved == HandlesInv /\ [Next]_vars => HandlesInv'
<1> SUFFICES ASSUME HandlesInv, [Next]_vars PROVE HandlesInv'
  OBVIOUS
<1>0. HandlesType /\ service' = service
  BY DEF HandlesInv, Next, ServiceStep, HandleStep, vars
<1>1. CASE ServiceStep
  <2>1. service \in {"readings", "temple", "otp", "figures", "listings", "lost", "chat", "help",
                     "routes", "clips", "call", "assistant"}
    BY StudiedAssumption DEF HandlesInv, Uses
  <2>2. CASE service = "readings"
    <3>1. CrowdNext
      BY <1>1, <2>2 DEF ServiceStep, Runs
    <3>2. QED
      BY <1>0, <3>1, CrowdHandles DEF HandlesInv
  <2>3. CASE service # "readings"
    <3>1. \/ TempleNext \/ OtpNext \/ ListingsNext \/ LostNext \/ ChatNext \/ FacilitiesNext
          \/ ClipsNext \/ PhoneNext \/ TurnNext \/ UNCHANGED handleVars
      BY <1>1, <2>1, <2>3 DEF ServiceStep, Runs
    <3>2. UNCHANGED handleVars
      BY <3>1 DEF TempleNext, OtpNext, ListingsNext, LostNext, ChatNext, FacilitiesNext,
                  ClipsNext, PhoneNext, TurnNext
    <3>3. QED
      BY <1>0, <3>2 DEF handleVars, HandlesInv, HandlesType
  <2>4. QED
    BY <2>2, <2>3
<1>2. CASE HandleStep
  <2>o. MaxOutages \in Nat /\ outages \in 0..MaxOutages
    BY <1>0, OutagesAssumption DEF HandlesType
  <2>1. CASE RedisAway \/ DatabaseAway
    <3>1. outages' \in 0..MaxOutages
      BY <2>o, <2>1 DEF RedisAway, DatabaseAway
    <3>2. /\ {redisUp', dbUp'} \subseteq {redisUp, dbUp, FALSE}
          /\ healthy' = healthy
      BY <2>1 DEF RedisAway, DatabaseAway
    <3>3. QED
      BY <1>0, <3>1, <3>2 DEF HandlesInv, HandlesType
  <2>2. CASE RedisBack \/ DatabaseBack
    <3>1. {redisUp', dbUp'} \subseteq {redisUp, dbUp, TRUE} /\ UNCHANGED <<healthy, outages>>
      BY <2>2 DEF RedisBack, DatabaseBack
    <3>2. QED
      BY <1>0, <3>1 DEF HandlesInv, HandlesType
  <2>3. ASSUME NEW w, LookupFails(w) \/ ping_redis(w) PROVE HandlesInv'
    <3>1. healthy' \in [Workers -> BOOLEAN]
      BY <1>0, <2>3, FlagKept DEF LookupFails, ping_redis, HandlesType
    <3>2. UNCHANGED <<redisUp, dbUp, outages>>
      BY <2>3 DEF LookupFails, ping_redis
    <3>3. QED
      BY <1>0, <3>1, <3>2 DEF HandlesInv, HandlesType
  <2>4. QED
    BY <1>2, <2>1, <2>2, <2>3 DEF HandleStep, RedisNext, DatabaseNext
<1>3. CASE UNCHANGED vars
  BY <1>0, <1>3 DEF vars, handleVars, HandlesInv, HandlesType
<1>4. QED
  BY <1>1, <1>2, <1>3 DEF Next

(***************************************************************************)
(* Every service keeps to its types, for any processes, bounds and choice  *)
(* of services.  Bounded are the codes, the reports and the calls; that    *)
(* the counters, references and outcomes made from them stay as small is   *)
(* what the lemmas above show: each has a code, a report or a call of its  *)
(* own.                                                                    *)
(***************************************************************************)
THEOREM ServicesTypeCorrect == Spec => []ServicesType
<1>1. Spec => []HandlesType
  <2>1. HandlesInv => HandlesType
    BY DEF HandlesInv
  <2>2. QED
    BY <2>1, HandlesInitial, HandlesPreserved, PTL DEF Spec
<1>2. /\ HandlesType /\ CrowdType /\ TempleType /\ OtpType /\ ListingsType /\ LostType
      /\ ChatType /\ FacilitiesType /\ RouteType /\ ClipsType /\ PhoneType /\ TurnType
      => ServicesType
  BY DEF ServicesType
<1>3. QED
  BY <1>1, <1>2, CrowdTyped, TempleTyped, OtpTyped, ListingsTyped, LostTyped, ChatTyped, HelpTyped,
     RouteTyped, ClipsTyped, PhoneTyped, TurnTyped, PTL
=============================================================================
