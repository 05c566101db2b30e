---------------------------- MODULE CrowdProofs ----------------------------
(***************************************************************************)
(* Proofs about the crowd readings of Services: an override that ran       *)
(* undisturbed stands, for any readers, densities, records and outages.    *)
(***************************************************************************)
EXTENDS Services, WellFoundedInduction, TLAPS

LEMMA CrowdFrame == [Next]_vars => CrowdNext \/ UNCHANGED crowdVars
BY DEF Next, vars, ServiceStep, HandleStep, Runs

Records == 1..MaxRecords
Writing == {"cache", "commit"}
AnyReading == [rec : 0..MaxRecords, density : Nat, source : {"none", "model", "manual"}]

ReadingTypes ==
    /\ recorded \in 0..MaxRecords
    /\ begun \in Seq(Records) /\ stored \in SUBSET Records
    /\ reading \in [Records -> AnyReading]
    /\ crowdPc \in [Workers -> {"idle", "select", "fill", "cache", "commit"}]
    /\ held = [w \in Workers |-> held[w]]
    /\ clean \in BOOLEAN /\ standing \in 0..MaxRecords

(* Only what was recorded is in the table, in the order of begun; a writer *)
(* holds what it recorded.                                                 *)
Recording ==
    /\ \A k \in DOMAIN begun : begun[k] <= recorded
    /\ \A k, j \in DOMAIN begun : begun[k] = begun[j] => k = j
    /\ \A i \in stored : \E k \in DOMAIN begun : begun[k] = i
    /\ \A w \in Workers : crowdPc[w] \in Writing =>
         held[w].rec \in 1..recorded /\ held[w] = reading[held[w].rec]
    /\ \A w \in Workers : crowdPc[w] \in Writing => w \in {Marshal, Simulator}

(* A clean override has the zone to itself: its record is the newest, and  *)
(* once cached nothing else is.                                            *)
Alone ==
    clean /\ crowdPc[Marshal] \in Writing =>
        /\ \A v \in Workers \ {Marshal} : Idle(v)
        /\ held[Marshal].rec = recorded
        /\ \A k \in DOMAIN begun : begun[k] = recorded => k = Len(begun)
        /\ crowdPc[Marshal] = "commit" => zoneCache \in {NoReading, held[Marshal]}

Parted == clean => crowdPc[Simulator] \notin Writing

(* While an override stands no one writes.                                 *)
Undisturbed ==
    standing # 0 =>
        /\ \A w \in Workers : crowdPc[w] \notin Writing
        /\ Len(begun) > 0 /\ begun[Len(begun)] = standing /\ standing \in stored
        /\ zoneCache \in {NoReading, reading[standing]}
        /\ \A w \in Workers : crowdPc[w] = "fill" => held[w] = reading[standing]

CrowdInv == ReadingTypes /\ Recording /\ Alone /\ Parted /\ Undisturbed

(* A record whose transaction began last is the newest row.                *)
LEMMA LastIsNewest ==
  ASSUME ReadingTypes, Recording, Len(begun) > 0, begun[Len(begun)] \in stored
  PROVE  Newest = reading[begun[Len(begun)]]
<1>1. Len(begun) \in DOMAIN begun /\ Last_row(Len(begun))
  BY DEF ReadingTypes, Last_row
<1>2. \A k \in DOMAIN begun : Last_row(k) => k = Len(begun)
  BY <1>1 DEF ReadingTypes, Last_row
<1>3. (CHOOSE k \in DOMAIN begun : Last_row(k)) = Len(begun)
  BY <1>1, <1>2
<1>4. QED
  BY <1>3 DEF Newest

LEMMA CrowdInitial == CrowdInit => CrowdInv
<1> SUFFICES ASSUME CrowdInit PROVE CrowdInv
  OBVIOUS
<1>1. NoReading \in AnyReading
  BY CrowdAssumption DEF NoReading, AnyReading
<1>2. ReadingTypes
  <2>1. begun \in Seq(Records) /\ reading \in [Records -> AnyReading]
    BY <1>1 DEF CrowdInit, Records
  <2>2. recorded \in 0..MaxRecords /\ standing \in 0..MaxRecords
    BY CrowdAssumption DEF CrowdInit
  <2>3. crowdPc \in [Workers -> {"idle", "select", "fill", "cache", "commit"}]
    BY DEF CrowdInit
  <2>4. held = [w \in Workers |-> held[w]] /\ stored \in SUBSET Records /\ clean \in BOOLEAN
    BY DEF CrowdInit
  <2>5. QED
    BY <2>1, <2>2, <2>3, <2>4 DEF ReadingTypes
<1>3. Recording /\ Alone /\ Parted /\ Undisturbed
  BY DEF CrowdInit, Recording, Alone, Parted, Undisturbed, Writing
<1>4. QED
  BY <1>2, <1>3 DEF CrowdInv

(* A step of w alone.                                                      *)
LEMMA WentTo ==
  ASSUME ReadingTypes, NEW w \in Workers, NEW r,
         NEW point \in {"idle", "select", "fill", "cache", "commit"}, Goto(w, point, r)
  PROVE  /\ crowdPc' \in [Workers -> {"idle", "select", "fill", "cache", "commit"}]
         /\ held' = [v \in Workers |-> held'[v]]
         /\ \A v \in Workers : crowdPc'[v] = IF v = w THEN point ELSE crowdPc[v]
         /\ \A v \in Workers : held'[v] = IF v = w THEN r ELSE held[v]
BY DEF Goto, ReadingTypes

(* A look-up, the end of a writer or the loss of the entry changes no      *)
(* record.                                                                 *)
LEMMA NoRecord ==
  ASSUME CrowdInv, NEW w \in Workers, NEW r,
         NEW point \in {"idle", "select", "fill"}, Goto(w, point, r),
         UNCHANGED <<begun, stored, reading, recorded, standing>>,
         clean' \in BOOLEAN, clean' => clean,
         crowdPc[w] \notin Writing /\ point # "idle" => ~clean' \/ ~Idle(w),
         zoneCache' \in {zoneCache, NoReading} \/
           (crowdPc[w] = "fill" /\ zoneCache' = held[w]),
         point = "fill" /\ standing # 0 => r = reading[standing]
  PROVE  CrowdInv'
<1>i. ReadingTypes /\ Recording /\ Alone /\ Parted /\ Undisturbed
  BY DEF CrowdInv
<1>1. /\ crowdPc' \in [Workers -> {"idle", "select", "fill", "cache", "commit"}]
      /\ held' = [v \in Workers |-> held'[v]]
      /\ \A v \in Workers : crowdPc'[v] = IF v = w THEN point ELSE crowdPc[v]
      /\ \A v \in Workers : held'[v] = IF v = w THEN r ELSE held[v]
  BY <1>i, WentTo
<1>2. ReadingTypes'
  BY <1>i, <1>1 DEF ReadingTypes
<1>3. Recording'
  BY <1>i, <1>1 DEF Recording, Writing
<1>4. Alone'
  BY <1>i, <1>1, CrowdAssumption DEF Alone, Writing, Idle
<1>5. Parted'
  BY <1>i, <1>1, CrowdAssumption DEF Parted, Writing
<1>6. Undisturbed'
  BY <1>i, <1>1 DEF Undisturbed, Writing
<1>7. QED
  BY <1>2, <1>3, <1>4, <1>5, <1>6 DEF CrowdInv

LEMMA CrowdPreserved == CrowdInv /\ [Next]_vars => CrowdInv'
<1> SUFFICES ASSUME CrowdInv, CrowdNext \/ UNCHANGED crowdVars PROVE CrowdInv'
  BY CrowdFrame
<1>i. ReadingTypes /\ Recording /\ Alone /\ Parted /\ Undisturbed
  BY DEF CrowdInv
<1>w. Readers \subseteq Workers /\ Marshal \in Workers /\ Simulator \in Workers
  BY CrowdAssumption
<1>0. CASE UNCHANGED crowdVars
  BY <1>i, <1>0 DEF crowdVars, CrowdInv, ReadingTypes, Recording, Alone, Parted, Undisturbed, Idle
<1>1. ASSUME NEW r \in Readers, read_zone(r) PROVE CrowdInv'
  <2>1. /\ crowdPc[r] = "idle"
        /\ UNCHANGED <<zoneCache, begun, stored, reading, recorded, standing>>
    BY <1>1 DEF read_zone
  <2>a. CASE UNCHANGED <<crowdPc, held, clean>>
    BY <1>0, <2>1, <2>a DEF crowdVars
  <2>b. CASE Goto(r, "select", NoReading) /\ clean' = FALSE
    BY <1>w, <2>1, <2>b, NoRecord
  <2>2. QED
    BY <1>1, <2>a, <2>b DEF read_zone
<1>2. ASSUME NEW r \in Readers, read_zone_select(r) PROVE CrowdInv'
  <2>1. /\ crowdPc[r] = "select"
        /\ Goto(r, "fill", Newest) \/ Goto(r, "idle", NoReading)
        /\ UNCHANGED <<zoneCache, begun, stored, reading, recorded, clean, standing>>
    BY <1>2 DEF read_zone_select
  <2>2. standing # 0 => Newest = reading[standing]
    BY <1>i, LastIsNewest DEF Undisturbed
  <2>3. clean \in BOOLEAN /\ ~Idle(r)
    BY <1>i, <2>1 DEF ReadingTypes, Idle
  <2>4. QED
    BY <1>w, <2>1, <2>2, <2>3, NoRecord
<1>3. ASSUME NEW r \in Readers, read_zone_fill(r) PROVE CrowdInv'
  <2>1. /\ crowdPc[r] = "fill" /\ Goto(r, "idle", NoReading)
        /\ zoneCache' \in {zoneCache, held[r]}
        /\ UNCHANGED <<begun, stored, reading, recorded, clean, standing>>
    BY <1>3 DEF read_zone_fill, _write_cache
  <2>2. clean \in BOOLEAN
    BY <1>i DEF ReadingTypes
  <2>3. QED
    BY <1>w, <2>1, <2>2, NoRecord
<1>4. CASE EntryLost
  <2>1. /\ zoneCache' = NoReading
        /\ UNCHANGED <<begun, stored, reading, recorded, crowdPc, held, clean, standing>>
    BY <1>4 DEF EntryLost
  <2>2. QED
    BY <1>i, <2>1 DEF CrowdInv, ReadingTypes, Recording, Alone, Parted, Undisturbed, Idle, NoReading
<1>5. ASSUME NEW w \in Workers, CrowdDies(w) PROVE CrowdInv'
  <2>1. /\ Goto(w, "idle", NoReading)
        /\ UNCHANGED <<zoneCache, begun, stored, reading, recorded, clean, standing>>
    BY <1>5 DEF CrowdDies
  <2>2. clean \in BOOLEAN
    BY <1>i DEF ReadingTypes
  <2>3. QED
    BY <2>1, <2>2, NoRecord
<1>6. ASSUME NEW w \in {Marshal, Simulator}, NEW d \in Densities,
             NEW by \in {"model", "manual"}, record(w, d, by)
      PROVE  CrowdInv'
  <2> DEFINE n == recorded + 1
             new == [rec |-> n, density |-> d, source |-> by]
  <2>1. /\ Idle(w) /\ recorded < MaxRecords
        /\ recorded' = n
        /\ reading' = [reading EXCEPT ![n] = new]
        /\ Goto(w, "cache", new)
        /\ begun' = begun \/ begun' = Append(begun, n)
        /\ clean' = (w = Marshal /\ \A v \in Workers \ {w} : Idle(v))
        /\ standing' = 0
        /\ UNCHANGED stored
    BY <1>6 DEF record
  <2>2. n \in Records /\ new \in AnyReading /\ w \in Workers
    <3>1. recorded \in Nat /\ MaxRecords \in Nat /\ d \in Nat
      <4>1. recorded \in 0..MaxRecords
        BY <1>i DEF ReadingTypes
      <4>2. MaxRecords \in Nat /\ d \in 0..100
        BY CrowdAssumption
      <4>3. QED
        BY <4>1, <4>2
    <3>2. n \in 1..MaxRecords
      BY <2>1, <3>1
    <3>3. QED
      BY <1>w, <3>1, <3>2 DEF Records, AnyReading
  <2>3. /\ crowdPc' \in [Workers -> {"idle", "select", "fill", "cache", "commit"}]
        /\ held' = [v \in Workers |-> held'[v]]
        /\ \A v \in Workers : crowdPc'[v] = IF v = w THEN "cache" ELSE crowdPc[v]
        /\ \A v \in Workers : held'[v] = IF v = w THEN new ELSE held[v]
    BY <1>i, <2>1, <2>2, WentTo
  <2>4. /\ reading' \in [Records -> AnyReading] /\ reading'[n] = new
        /\ \A i \in 1..recorded : reading'[i] = reading[i]
    BY <1>i, <2>1, <2>2 DEF ReadingTypes, Records
  <2>5. /\ begun' \in Seq(Records)
        /\ \A k \in DOMAIN begun' : (k \in DOMAIN begun /\ begun'[k] = begun[k])
                                      \/ (k = Len(begun) + 1 /\ k = Len(begun') /\ begun'[k] = n)
        /\ DOMAIN begun \subseteq DOMAIN begun'
    <3>1. CASE begun' = begun
      BY <1>i, <3>1 DEF ReadingTypes
    <3>2. CASE begun' = Append(begun, n)
      <4>1. begun \in Seq(Records) /\ n \in Records
        BY <1>i, <2>2 DEF ReadingTypes
      <4>2. begun' \in Seq(Records) /\ Len(begun') = Len(begun) + 1
        BY <3>2, <4>1
      <4>3. QED
        BY <3>2, <4>1, <4>2
    <3>3. QED
      BY <2>1, <3>1, <3>2
  <2> HIDE DEF new
  <2>6. ReadingTypes'
    <3>1. recorded' \in 0..MaxRecords /\ standing' \in 0..MaxRecords /\ clean' \in BOOLEAN
      BY <1>i, <2>1, <2>2, CrowdAssumption DEF ReadingTypes, Records
    <3>2. QED
      BY <1>i, <2>1, <2>3, <2>4, <2>5, <3>1 DEF ReadingTypes
  <2>7. Recording'
    <3>0. recorded \in Nat
      BY <1>i DEF ReadingTypes
    <3>1. \A k \in DOMAIN begun' : begun'[k] <= recorded'
      <4> SUFFICES ASSUME NEW k \in DOMAIN begun' PROVE begun'[k] <= n
        BY <2>1
      <4>1. CASE k \in DOMAIN begun /\ begun'[k] = begun[k]
        <5>1. begun[k] <= recorded /\ begun[k] \in Int
          <6>1. begun \in Seq(Records)
            BY <1>i DEF ReadingTypes
          <6>2. begun[k] \in Records
            BY <4>1, <6>1
          <6>3. QED
            BY <1>i, <4>1, <6>2 DEF Recording, Records
        <5>2. QED
          BY <3>0, <4>1, <5>1
      <4>2. CASE begun'[k] = n
        BY <3>0, <4>2
      <4>3. QED
        BY <2>5, <4>1, <4>2
    <3>2. \A k, j \in DOMAIN begun' : begun'[k] = begun'[j] => k = j
      BY <1>i, <2>1, <2>5 DEF Recording, ReadingTypes, Records
    <3>3. \A i \in stored' : \E k \in DOMAIN begun' : begun'[k] = i
      BY <1>i, <2>1, <2>5 DEF Recording, ReadingTypes
    <3>4. new.rec = n
      BY DEF new
    <3>5. \A v \in Workers : crowdPc'[v] \in Writing =>
            held'[v].rec \in 1..recorded' /\ held'[v] = reading'[held'[v].rec]
      BY <1>i, <2>1, <2>2, <2>3, <2>4, <3>4 DEF Recording, ReadingTypes, Records
    <3>6. \A v \in Workers : crowdPc'[v] \in Writing => v \in {Marshal, Simulator}
      BY <1>i, <2>3 DEF Recording
    <3>7. QED
      BY <3>1, <3>2, <3>3, <3>5, <3>6 DEF Recording
  <2>8. Alone'
    <3> SUFFICES ASSUME clean', crowdPc'[Marshal] \in Writing PROVE Alone'
      BY DEF Alone
    <3>1. w = Marshal /\ \A v \in Workers \ {Marshal} : Idle(v)
      BY <2>1
    <3>2. held'[Marshal].rec = recorded' /\ crowdPc'[Marshal] = "cache"
      BY <2>1, <2>2, <2>3, <3>1 DEF new
    <3>3. \A k \in DOMAIN begun' : begun'[k] = recorded' => k = Len(begun')
      BY <1>i, <2>1, <2>5 DEF Recording, ReadingTypes, Records
    <3>4. \A v \in Workers \ {Marshal} : Idle(v)'
      BY <2>3, <3>1 DEF Idle
    <3>5. QED
      BY <3>2, <3>3, <3>4 DEF Alone
  <2>9. Undisturbed'
    BY <2>1 DEF Undisturbed
  <2>10. Parted'
    BY <1>w, <2>1, <2>3, CrowdAssumption DEF Parted, Idle, Writing
  <2>11. QED
    BY <2>6, <2>7, <2>8, <2>9, <2>10 DEF CrowdInv
<1>7. ASSUME NEW w \in {Marshal, Simulator}, record_cache(w) PROVE CrowdInv'
  <2>1. /\ crowdPc[w] = "cache" /\ Goto(w, "commit", held[w])
        /\ zoneCache' = IF Answered(w) THEN held[w] ELSE zoneCache
        /\ UNCHANGED <<begun, stored, reading, recorded, standing>>
    BY <1>7 DEF record_cache, _write_cache
  <2>2. clean' = (clean /\ Answered(w))
    BY <1>7 DEF record_cache
  <2>3. /\ crowdPc' \in [Workers -> {"idle", "select", "fill", "cache", "commit"}]
        /\ held' = [v \in Workers |-> held'[v]]
        /\ \A v \in Workers : crowdPc'[v] = IF v = w THEN "commit" ELSE crowdPc[v]
        /\ \A v \in Workers : held'[v] = held[v]
    BY <1>i, <1>w, <2>1, WentTo
  <2>4. clean' \in BOOLEAN /\ (clean' => clean /\ Answered(w))
    BY <2>2
  <2>5. ReadingTypes' /\ Recording'
    BY <1>i, <2>1, <2>3, <2>4 DEF ReadingTypes, Recording, Writing
  <2>6. Alone'
    <3> SUFFICES ASSUME clean', crowdPc'[Marshal] \in Writing PROVE Alone'
      BY DEF Alone
    <3>1. crowdPc[Marshal] \in Writing
      BY <1>w, <2>1, <2>3 DEF Writing
    <3>2. w = Marshal
      BY <1>i, <1>w, <2>1, <2>4, <3>1 DEF Alone, Idle
    <3>3. QED
      BY <1>i, <1>w, <2>1, <2>3, <2>4, <3>1, <3>2 DEF Alone, Idle
  <2>7. Undisturbed'
    BY <1>i, <1>w, <2>1 DEF Undisturbed, Writing
  <2>8. Parted'
    BY <1>i, <1>w, <2>1, <2>3, <2>4 DEF Parted, Writing
  <2>9. QED
    BY <2>5, <2>6, <2>7, <2>8 DEF CrowdInv
<1>8. ASSUME NEW w \in {Marshal, Simulator}, record_commit(w) PROVE CrowdInv'
  <2> DEFINE i == held[w].rec
  <2>1. crowdPc[w] = "commit" /\ Goto(w, "idle", NoReading)
        /\ UNCHANGED <<zoneCache, reading, recorded, clean>>
    BY <1>8 DEF record_commit
  <2>a. CASE UNCHANGED <<begun, stored, standing>>
    <3>1. clean \in BOOLEAN /\ crowdPc[w] \in Writing
      BY <1>i, <2>1 DEF ReadingTypes, Writing
    <3>2. QED
      BY <1>w, <2>1, <2>a, <3>1, NoRecord
  <2>b. CASE /\ begun' = IF \E k \in DOMAIN begun : begun[k] = i THEN begun ELSE Append(begun, i)
             /\ stored' = stored \cup {i}
             /\ standing' = IF clean THEN i ELSE standing
    <3>1. /\ i \in 1..recorded /\ i \in Records /\ held[w] = reading[i]
      <4>1. i \in 1..recorded /\ held[w] = reading[i]
        BY <1>i, <1>w, <2>1 DEF Recording, Writing
      <4>2. recorded \in Nat /\ recorded <= MaxRecords /\ MaxRecords \in Nat
        BY <1>i, CrowdAssumption DEF ReadingTypes
      <4>3. QED
        BY <4>1, <4>2 DEF Records
    <3>2. /\ crowdPc' \in [Workers -> {"idle", "select", "fill", "cache", "commit"}]
          /\ held' = [v \in Workers |-> held'[v]]
          /\ \A v \in Workers : crowdPc'[v] = IF v = w THEN "idle" ELSE crowdPc[v]
          /\ \A v \in Workers : v # w => held'[v] = held[v]
      BY <1>i, <1>w, <2>1, WentTo
    <3>3. /\ begun' \in Seq(Records)
          /\ \E k \in DOMAIN begun' : begun'[k] = i
          /\ \A k \in DOMAIN begun' : (k \in DOMAIN begun /\ begun'[k] = begun[k])
               \/ (/\ k = Len(begun) + 1 /\ k = Len(begun') /\ begun'[k] = i
                   /\ \A j \in DOMAIN begun : begun[j] # i)
          /\ \A k \in DOMAIN begun : k \in DOMAIN begun' /\ begun'[k] = begun[k]
      <4>1. CASE \E k \in DOMAIN begun : begun[k] = i
        BY <1>i, <2>b, <4>1 DEF ReadingTypes
      <4>2. CASE ~\E k \in DOMAIN begun : begun[k] = i
        <5>1. begun' = Append(begun, i) /\ begun \in Seq(Records)
          BY <1>i, <2>b, <4>2 DEF ReadingTypes
        <5>2. begun' \in Seq(Records) /\ Len(begun') = Len(begun) + 1
          BY <3>1, <5>1
        <5>3. QED
          BY <3>1, <4>2, <5>1, <5>2
      <4>3. QED
        BY <4>1, <4>2
    <3>4. ReadingTypes'
      <4>1. standing' \in 0..MaxRecords /\ stored' \in SUBSET Records
        BY <1>i, <2>b, <3>1 DEF ReadingTypes, Records
      <4>2. QED
        BY <1>i, <2>1, <3>2, <3>3, <4>1 DEF ReadingTypes
    <3>5. Recording'
      <4>1. \A k \in DOMAIN begun' : begun'[k] <= recorded'
        BY <1>i, <2>1, <3>1, <3>3 DEF Recording, ReadingTypes
      <4>2. \A k, j \in DOMAIN begun' : begun'[k] = begun'[j] => k = j
        BY <1>i, <3>3 DEF Recording
      <4>3. \A x \in stored' : \E k \in DOMAIN begun' : begun'[k] = x
        BY <1>i, <2>b, <3>3 DEF Recording
      <4>4. QED
        BY <1>i, <2>1, <3>2, <4>1, <4>2, <4>3 DEF Recording, Writing
    <3>6. CASE clean
      <4>1. CASE w = Marshal
        <5>1. /\ \A v \in Workers : crowdPc'[v] = "idle"
              /\ i = recorded /\ zoneCache \in {NoReading, held[Marshal]}
              /\ \A k \in DOMAIN begun : begun[k] = i => k = Len(begun)
          BY <1>i, <1>w, <2>1, <3>2, <3>6, <4>1 DEF Alone, Writing, Idle
        <5>2. Alone'
          BY <1>w, <5>1 DEF Alone, Writing
        <5>3. Len(begun') > 0 /\ begun'[Len(begun')] = i
          <6>1. PICK k \in DOMAIN begun' : begun'[k] = i
            BY <3>3
          <6>2. k = Len(begun')
            BY <1>i, <2>b, <3>3, <5>1, <6>1 DEF ReadingTypes
          <6>3. QED
            BY <3>3, <6>1, <6>2
        <5>4. Undisturbed'
          BY <2>1, <2>b, <3>1, <3>6, <4>1, <5>1, <5>3 DEF Undisturbed, Writing
        <5>5. Parted'
          BY <1>w, <5>1 DEF Parted, Writing
        <5>6. QED
          BY <3>4, <3>5, <5>2, <5>4, <5>5 DEF CrowdInv
      <4>2. CASE w # Marshal
        <5>1. QED
          BY <1>i, <2>1, <3>6, <4>2 DEF Parted, Writing
      <4>3. QED
        BY <4>1, <4>2
    <3>7. CASE ~clean
      <4>1. Alone' /\ Parted'
        BY <2>1, <3>7 DEF Alone, Parted
      <4>2. standing = 0
        BY <1>i, <1>w, <2>1 DEF Undisturbed, Writing
      <4>3. Undisturbed'
        BY <2>b, <3>7, <4>2 DEF Undisturbed
      <4>4. QED
        BY <3>4, <3>5, <4>1, <4>3 DEF CrowdInv
    <3>8. QED
      BY <3>6, <3>7
  <2>2. QED
    BY <1>8, <2>a, <2>b DEF record_commit, ToSet
<1>9. QED
  BY <1>0, <1>1, <1>2, <1>3, <1>4, <1>5, <1>6, <1>7, <1>8 DEF CrowdNext, update_crowd, tick,
                                                              next_density

(***************************************************************************)
(* An override that ran undisturbed is what the cache, the table and every *)
(* look-up under way give until the next reading is recorded, for any      *)
(* readers, densities and numbers of records and outages.                  *)
(***************************************************************************)
THEOREM OverrideHolds == Spec => []OverrideStands
<1>1. Init => CrowdInv
  BY CrowdInitial DEF Init
<1>2. CrowdInv => OverrideStands
  BY LastIsNewest, CrowdAssumption DEF CrowdInv, Undisturbed, OverrideStands
<1>3. QED
  BY <1>1, <1>2, CrowdPreserved, PTL DEF Spec

(* Of the rows, one is the newest: the sequence of begun has a last one.   *)
LEMMA NewestIsRow ==
  ASSUME CrowdInv, stored # {}
  PROVE  \E k \in DOMAIN begun : Last_row(k)
<1> DEFINE rowsAt == {k \in DOMAIN begun : begun[k] \in stored}
           behind == {Len(begun) - k : k \in rowsAt}
<1>1. begun \in Seq(Records) /\ \A i \in stored : \E k \in DOMAIN begun : begun[k] = i
  BY DEF CrowdInv, ReadingTypes, Recording
<1>2. behind \subseteq Nat /\ behind # {}
  BY <1>1
<1>3. \E x \in behind : \A y \in behind : ~(<<y, x>> \in OpToRel(<, Nat))
  <2> HIDE DEF behind
  <2> QED
    BY <1>2, NatLessThanWellFounded, WFMin
<1>4. PICK x \in behind : \A y \in behind : ~(<<y, x>> \in OpToRel(<, Nat))
  BY <1>3
<1>5. PICK k \in rowsAt : x = Len(begun) - k
  BY <1>4
<1>6. ASSUME NEW j \in DOMAIN begun, j > k PROVE begun[j] \notin stored
  <2> SUFFICES ASSUME begun[j] \in stored PROVE FALSE
    OBVIOUS
  <2>1. Len(begun) - j \in behind /\ Len(begun) - j \in Nat /\ x \in Nat
    BY <1>1, <1>2, <1>4
  <2>2. Len(begun) - j < x
    BY <1>1, <1>5, <1>6
  <2>3. <<Len(begun) - j, x>> \in OpToRel(<, Nat)
    BY <2>1, <2>2 DEF OpToRel
  <2>4. QED
    BY <1>4, <2>1, <2>3
<1>7. QED
  BY <1>5, <1>6 DEF Last_row

(* What is cached, recorded or held is a reading within the bounds.        *)
ReadingsWithin ==
    /\ zoneCache \in Readings
    /\ reading \in [Records -> Readings]
    /\ held \in [Workers -> Readings]

LEMMA NoReadingIsReading == NoReading \in Readings
<1>1. 0 \in 0..MaxRecords
  BY CrowdAssumption
<1>2. QED
  BY <1>1 DEF NoReading, Readings

LEMMA NewestWithin == ASSUME CrowdInv, ReadingsWithin PROVE Newest \in Readings
<1>1. CASE stored = {}
  BY <1>1, NoReadingIsReading DEF Newest
<1>2. CASE stored # {}
  <2> DEFINE k == CHOOSE k \in DOMAIN begun : Last_row(k)
  <2>1. k \in DOMAIN begun /\ Last_row(k)
    BY <1>2, NewestIsRow
  <2>2. begun[k] \in Records
    BY <2>1 DEF Last_row, CrowdInv, ReadingTypes
  <2>3. reading[begun[k]] \in Readings
    BY <2>2 DEF ReadingsWithin
  <2>4. QED
    BY <1>2, <2>3 DEF Newest
<1>3. QED
  BY <1>1, <1>2

LEMMA WithinPreserved == CrowdInv /\ ReadingsWithin /\ [Next]_vars => ReadingsWithin'
<1> SUFFICES ASSUME CrowdInv, ReadingsWithin, CrowdNext \/ UNCHANGED crowdVars
             PROVE  ReadingsWithin'
  BY CrowdFrame
<1>w. Readers \subseteq Workers /\ Marshal \in Workers /\ Simulator \in Workers
  BY CrowdAssumption
<1>g. ASSUME NEW w, NEW point, NEW r \in Readings, Goto(w, point, r)
      PROVE  held' \in [Workers -> Readings]
  BY <1>g DEF Goto, ReadingsWithin
<1>0. CASE UNCHANGED crowdVars
  BY <1>0 DEF crowdVars, ReadingsWithin
<1>1. ASSUME NEW r \in Readers, read_zone(r) PROVE ReadingsWithin'
  BY <1>1, <1>g, NoReadingIsReading DEF read_zone, ReadingsWithin
<1>2. ASSUME NEW r \in Readers, read_zone_select(r) PROVE ReadingsWithin'
  BY <1>2, <1>g, NoReadingIsReading, NewestWithin DEF read_zone_select, ReadingsWithin
<1>3. ASSUME NEW r \in Readers, read_zone_fill(r) PROVE ReadingsWithin'
  BY <1>3, <1>g, <1>w, NoReadingIsReading DEF read_zone_fill, _write_cache, ReadingsWithin
<1>4. CASE EntryLost
  BY <1>4, NoReadingIsReading DEF EntryLost, ReadingsWithin
<1>5. ASSUME NEW w \in Workers, CrowdDies(w) PROVE ReadingsWithin'
  BY <1>5, <1>g, NoReadingIsReading DEF CrowdDies, ReadingsWithin
<1>6. ASSUME NEW w \in {Marshal, Simulator}, NEW d \in Densities,
             NEW by \in {"model", "manual"}, record(w, d, by)
      PROVE  ReadingsWithin'
  <2> DEFINE new == [rec |-> recorded + 1, density |-> d, source |-> by]
  <2>1. recorded + 1 \in 0..MaxRecords
    <3>1. recorded \in 0..MaxRecords /\ recorded < MaxRecords
      BY <1>6 DEF record, CrowdInv, ReadingTypes
    <3>2. QED
      BY <3>1, CrowdAssumption
  <2>2. new \in Readings
    BY <2>1 DEF Readings
  <2>3. /\ reading' = [reading EXCEPT ![recorded + 1] = new] /\ Goto(w, "cache", new)
        /\ UNCHANGED zoneCache
    BY <1>6 DEF record
  <2> HIDE DEF new
  <2>4. QED
    BY <1>g, <2>2, <2>3 DEF ReadingsWithin
<1>7. ASSUME NEW w \in {Marshal, Simulator}, record_cache(w) PROVE ReadingsWithin'
  <2>1. held[w] \in Readings
    BY <1>w DEF ReadingsWithin
  <2>2. QED
    BY <1>7, <1>g, <2>1 DEF record_cache, _write_cache, ReadingsWithin
<1>8. ASSUME NEW w \in {Marshal, Simulator}, record_commit(w) PROVE ReadingsWithin'
  BY <1>8, <1>g, NoReadingIsReading DEF record_commit, ReadingsWithin
<1>9. QED
  BY <1>0, <1>1, <1>2, <1>3, <1>4, <1>5, <1>6, <1>7, <1>8 DEF CrowdNext, update_crowd, tick,
                                                              next_density

LEMMA CrowdTyped == Spec => []CrowdType
<1>1. Init => CrowdInv /\ ReadingsWithin
  <2>1. CrowdInit => ReadingsWithin
    BY NoReadingIsReading DEF CrowdInit, ReadingsWithin, Records
  <2>2. QED
    BY <2>1, CrowdInitial DEF Init
<1>2. CrowdInv /\ ReadingsWithin => CrowdType
  BY DEF CrowdInv, ReadingTypes, ReadingsWithin, CrowdType, Records
<1>3. QED
  BY <1>1, <1>2, CrowdPreserved, WithinPreserved, PTL DEF Spec
=============================================================================
