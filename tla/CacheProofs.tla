---------------------------- MODULE CacheProofs ----------------------------
(***************************************************************************)
(* Proofs about the two caches of Services that outlive a request, the     *)
(* temple's card and the spoken clips, for any processes, edits, prompts   *)
(* and numbers of outages.                                                 *)
(***************************************************************************)
EXTENDS Services, FiniteSetTheorems, TLAPS

LEMMA TempleFrame == [Next]_vars => TempleNext \/ UNCHANGED templeVars
BY DEF Next, vars, ServiceStep, HandleStep, Runs

LEMMA ClipsFrame == [Next]_vars => ClipsNext \/ UNCHANGED clipVars
BY DEF Next, vars, ServiceStep, HandleStep, Runs

----------------------------------------------------------------------------
(* The temple's card.                                                      *)

Points == {"idle", "read", "fill", "commit", "refresh", "clear", "get"}
AnyCard == [Fields -> Int]

TempleTypes ==
    /\ card \in AnyCard /\ row \in AnyCard /\ latest \in AnyCard
    /\ edits \in Nat
    /\ templePc \in [Workers -> Points]
    /\ copy \in [Workers -> AnyCard]
    /\ stale \subseteq Workers
    /\ change \in [Workers -> [edit : Nat, fields : SUBSET Fields]]

(* What get answers with when it goes to the table.                        *)
Current == IF row = Nothing THEN Bundled ELSE row

(* An update that saw a row updates that row; the row has the newest edit  *)
(* of each field.                                                          *)
Edited ==
    /\ row = Nothing => latest = Bundled
    /\ row # Nothing => row = latest
    /\ \A w \in Workers : At(w, "commit") /\ copy[w] # Nothing => row # Nothing

(* What a process that is not stale holds, and is about to cache, is the   *)
(* row as it is.                                                           *)
UpToDate ==
    \A w \in Workers :
        /\ At(w, "idle") => copy[w] = Nothing
        /\ w \notin stale /\ At(w, "fill") => copy[w] = Current
        /\ w \notin stale /\ templePc[w] \in {"clear", "get", "read"}
             => copy[w] \in {Nothing, Current}

(* The cached card is right but for an update that is yet to drop it.      *)
Visible == ~slipped => card \in {Nothing, Current} \/ \E w \in Workers : Uncleared(w)

TempleInv == TempleTypes /\ Edited /\ UpToDate /\ Visible

LEMMA CardFacts ==
  /\ Nothing \in AnyCard /\ Bundled \in AnyCard /\ Nothing # Bundled
  /\ NoChange \in [edit : Nat, fields : SUBSET Fields]
<1>1. Nothing \in AnyCard /\ Bundled \in AnyCard
  BY DEF Nothing, Bundled, AnyCard
<1>2. PICK f \in Fields : TRUE
  BY TempleAssumption
<1>3. Nothing[f] # Bundled[f]
  BY <1>2 DEF Nothing, Bundled
<1>4. QED
  BY <1>1, <1>3 DEF NoChange

LEMMA TempleInitial == TempleInit => TempleInv
BY CardFacts DEF TempleInit, TempleInv, TempleTypes, Edited, UpToDate, Visible, At, Points

(* A written row is a row: it has a field.                                 *)
LEMMA ChangedFacts ==
  ASSUME TempleTypes, NEW w \in Workers, NEW base \in AnyCard,
         base = Bundled \/ base = row
  PROVE  /\ Changed(base, w) \in AnyCard
         /\ base # Nothing => Changed(base, w) # Nothing
<1>1. change[w].edit \in Nat
  BY DEF TempleTypes
<1>2. Changed(base, w) \in AnyCard
  BY <1>1 DEF Changed, AnyCard
<1>3. ASSUME Changed(base, w) = Nothing PROVE base = Nothing
  <2>1. \A f \in Fields : f \notin change[w].fields
    BY <1>1, <1>3 DEF Changed, Nothing
  <2>2. Changed(base, w) = base
    BY <2>1 DEF Changed, AnyCard
  <2>3. QED
    BY <1>3, <2>2
<1>4. QED
  BY <1>2, <1>3

LEMMA TemplePreserved == TempleInv /\ [Next]_vars => TempleInv'
<1> SUFFICES ASSUME TempleTypes, Edited, UpToDate, Visible, TempleNext \/ UNCHANGED templeVars
             PROVE  TempleInv'
  BY TempleFrame DEF TempleInv
<1> USE CardFacts DEF TempleInv, Points
<1>c. Current \in AnyCard /\ Current # Nothing
  BY DEF Current, TempleTypes
(* A step that leaves the row and the history alone.                       *)
<1>m. ASSUME NEW w \in Workers, NEW p \in Points \ {"commit"}, NEW c \in AnyCard, Move(w, p, c),
             UNCHANGED <<row, edits, latest>>,
             change' = change \/ change' = [change EXCEPT ![w] = NoChange],
             card' \in {card, copy[w], Nothing},
             stale' \in {stale, stale \cup {w}, stale \ {w}},
             p = "idle" => c = Nothing,
             w \notin stale' /\ p = "fill" => c = Current,
             w \notin stale' /\ p \in {"clear", "get", "read"} => c \in {Nothing, Current},
             ~slipped' =>
               \/ card' \in {Nothing, Current}
               \/ ~slipped /\ card' = card /\ (Uncleared(w) => p \in {"refresh", "clear"})
      PROVE  TempleInv'
  <2>1. /\ \A v \in Workers : templePc'[v] = IF v = w THEN p ELSE templePc[v]
        /\ \A v \in Workers : copy'[v] = IF v = w THEN c ELSE copy[v]
        /\ \A v \in Workers : v # w => (v \in stale' <=> v \in stale)
    BY <1>m DEF Move, TempleTypes
  <2>2. TempleTypes'
    <3>1. templePc' \in [Workers -> Points] /\ copy' \in [Workers -> AnyCard]
      BY <1>m DEF Move, TempleTypes
    <3>2. change' \in [Workers -> [edit : Nat, fields : SUBSET Fields]]
      BY <1>m DEF TempleTypes
    <3>3. stale' \subseteq Workers
      BY <1>m DEF TempleTypes
    <3>4. QED
      BY <1>m, <3>1, <3>2, <3>3 DEF TempleTypes
  <2>3. Edited'
    BY <1>m, <2>1 DEF Edited, At
  <2>4. Current' = Current
    BY <1>m DEF Current, Nothing, Bundled
  <2>5. UpToDate'
    BY <1>m, <2>1, <2>4 DEF UpToDate, At, Nothing
  <2>6. ASSUME ~slipped' PROVE card' \in {Nothing, Current} \/ \E v \in Workers : Uncleared(v)'
    <3>1. CASE ~slipped /\ card' = card /\ (Uncleared(w) => p \in {"refresh", "clear"})
      BY <2>1, <3>1 DEF Visible, Uncleared
    <3>2. QED
      BY <1>m, <2>6, <3>1
  <2>7. Visible'
    BY <2>4, <2>6 DEF Visible, Nothing
  <2>8. QED
    BY <2>2, <2>3, <2>5, <2>7
<1>1. ASSUME NEW w \in Workers, get(w) PROVE TempleInv'
  <2>1. /\ UNCHANGED <<card, row, edits, change, latest, slipped>>
        /\ templePc[w] \in {"get", "idle"}
    BY <1>1 DEF get, At
  <2>2. copy[w] \in AnyCard /\ ~Uncleared(w)
    BY <2>1 DEF TempleTypes, Uncleared
  <2>3. CASE Finish(w)
    BY <1>m, <2>1, <2>2, <2>3 DEF Finish
  <2>4. CASE Move(w, "read", copy[w]) /\ UNCHANGED stale
    <3>1. w \notin stale => copy[w] \in {Nothing, Current}
      BY <2>1 DEF UpToDate, At
    <3>2. QED
      BY <1>m, <2>1, <2>2, <2>4, <3>1
  <2>5. QED
    BY <1>1, <2>3, <2>4 DEF get
<1>2. ASSUME NEW w \in Workers, get_row(w) PROVE TempleInv'
  <2> DEFINE c == IF _read_row(w) = Nothing THEN Bundled ELSE _read_row(w)
  <2>1. /\ Move(w, "fill", c) /\ templePc[w] = "read"
        /\ stale' = IF Executes \/ row = Nothing THEN stale ELSE stale \cup {w}
        /\ UNCHANGED <<card, row, edits, change, latest, slipped>>
    BY <1>2 DEF get_row, At
  <2>2. c \in AnyCard
    BY DEF _read_row, TempleTypes
  <2>3. w \notin stale' => c = Current
    <3>1. CASE Executes
      BY <2>1, <3>1 DEF _read_row, Current, UpToDate
    <3>2. CASE ~Executes
      BY <2>1, <3>2 DEF _read_row, Current
    <3>3. QED
      BY <3>1, <3>2
  <2> HIDE DEF c
  <2>4. QED
    BY <1>m, <2>1, <2>2, <2>3 DEF Uncleared
<1>3. ASSUME NEW w \in Workers, get_fill(w) PROVE TempleInv'
  <2>1. /\ templePc[w] = "fill" /\ Move(w, "idle", Nothing) /\ stale' = stale \ {w}
        /\ \/ card' = copy[w] /\ (~slipped' => w \notin stale)
           \/ card' = card /\ (~slipped' => ~slipped)
        /\ UNCHANGED <<row, edits, change, latest>>
    BY <1>3 DEF get_fill, Finish, At
  <2>2. w \notin stale => copy[w] = Current
    BY <2>1 DEF UpToDate, At
  <2>3. QED
    BY <1>m, <2>1, <2>2 DEF Uncleared
<1>4. ASSUME NEW w \in Workers, update_clear(w) PROVE TempleInv'
  <2>1. /\ templePc[w] = "clear" /\ Move(w, "get", copy[w])
        /\ \/ card' = Nothing
           \/ card' = card /\ (~slipped' => card = Nothing)
        /\ UNCHANGED <<row, edits, stale, change, latest>>
    BY <1>4 DEF update_clear, LeavesCard, At
  <2>2. copy[w] \in AnyCard /\ (w \notin stale => copy[w] \in {Nothing, Current})
    BY <2>1 DEF TempleTypes, UpToDate
  <2>3. QED
    BY <1>m, <2>1, <2>2
<1>5. ASSUME NEW w \in Workers, TempleDies(w) PROVE TempleInv'
  <2>1. /\ Move(w, "idle", Nothing) /\ stale' = stale \ {w}
        /\ change' = [change EXCEPT ![w] = NoChange]
        /\ UNCHANGED <<card, row, edits, latest>>
    BY <1>5 DEF TempleDies, Finish
  <2>2. ~slipped' => card = Nothing \/ (~slipped /\ ~Uncleared(w))
    BY <1>5 DEF TempleDies, LeavesCard
  <2>3. QED
    BY <1>m, <2>1, <2>2
<1>6. ASSUME NEW w \in Operators, NEW fields \in SUBSET Fields, update(w, fields)
      PROVE  TempleInv'
  <2> w \in Workers
    BY TempleAssumption
  <2>1. /\ templePc[w] = "idle"
        /\ edits' = edits + 1
        /\ change' = [change EXCEPT ![w] = [edit |-> edits + 1, fields |-> fields]]
        /\ templePc' = [templePc EXCEPT ![w] = "commit"]
        /\ copy' = [copy EXCEPT ![w] = _read_row(w)]
        /\ UNCHANGED <<card, row, stale, latest, slipped>>
    BY <1>6 DEF update, Move, At
  <2>2. _read_row(w) \in AnyCard /\ (_read_row(w) # Nothing => row # Nothing)
    BY <2>1 DEF _read_row, TempleTypes, UpToDate, At
  <2>3. /\ \A v \in Workers : templePc'[v] = IF v = w THEN "commit" ELSE templePc[v]
        /\ \A v \in Workers : copy'[v] = IF v = w THEN _read_row(w) ELSE copy[v]
    BY <2>1 DEF TempleTypes
  <2>4. TempleTypes'
    BY <2>1, <2>2 DEF TempleTypes
  <2>5. Edited'
    BY <2>1, <2>2, <2>3 DEF Edited, At
  <2>6. Current' = Current
    BY <2>1 DEF Current, Nothing, Bundled
  <2>7. UpToDate'
    BY <2>1, <2>3, <2>6 DEF UpToDate, At, Nothing
  <2>8. Visible'
    BY <2>1, <2>3, <2>6 DEF Visible, Uncleared, Nothing
  <2>9. QED
    BY <2>4, <2>5, <2>7, <2>8
<1>7. ASSUME NEW w \in Operators, update_commit(w) PROVE TempleInv'
  <2> w \in Workers
    BY TempleAssumption
  <2>1. templePc[w] = "commit" /\ change' = [change EXCEPT ![w] = NoChange]
        /\ UNCHANGED <<card, edits>>
    BY <1>7 DEF update_commit, At
  <2>a. CASE Finish(w) /\ UNCHANGED <<row, latest, slipped>>
    BY <1>m, <2>1, <2>a DEF Finish, Uncleared
  <2>b. ASSUME copy[w] # Nothing \/ row = Nothing,
               row' = Written(w), latest' = Changed(latest, w),
               stale' = stale \cup Outdated(w),
               NEW p \in {"refresh", "idle"}, NEW c \in AnyCard, Move(w, p, c),
               p = "idle" => c = Nothing /\ LeavesCard,
               p = "refresh" => UNCHANGED slipped
        PROVE  TempleInv'
    <3>1. /\ \A v \in Workers : templePc'[v] = IF v = w THEN p ELSE templePc[v]
          /\ \A v \in Workers : copy'[v] = IF v = w THEN c ELSE copy[v]
      BY <2>b DEF Move, TempleTypes
    <3>2. row' = Changed(Current, w) /\ latest' = row' /\ row' \in AnyCard /\ row' # Nothing
      <4>1. Current = latest /\ Written(w) = Changed(Current, w)
        BY <2>1, <2>b DEF Written, Current, Edited, At
      <4>2. Changed(Current, w) \in AnyCard /\ Changed(Current, w) # Nothing
        BY <1>c, ChangedFacts DEF Current
      <4>3. QED
        BY <2>b, <4>1, <4>2
    <3>3. TempleTypes'
      <4>1. templePc' \in [Workers -> Points] /\ copy' \in [Workers -> AnyCard]
        BY <2>b DEF Move, TempleTypes
      <4>2. change' \in [Workers -> [edit : Nat, fields : SUBSET Fields]]
        BY <2>1 DEF TempleTypes
      <4>3. stale' \subseteq Workers
        BY <2>b DEF TempleTypes, Outdated
      <4>4. QED
        BY <2>1, <3>2, <4>1, <4>2, <4>3 DEF TempleTypes
    <3>4. Edited'
      BY <2>b, <3>1, <3>2 DEF Edited, At, Nothing
    <3>5. UpToDate'
      <4>1. ASSUME NEW v \in Workers \ {w}, v \notin stale',
                   templePc[v] \in {"clear", "get", "read", "fill"}
            PROVE  copy[v] = Nothing /\ templePc[v] # "fill"
        BY <1>c, <2>b, <4>1 DEF Outdated, UpToDate, At
      <4>2. QED
        BY <2>b, <3>1, <4>1 DEF UpToDate, At, Nothing
    <3>6. Visible'
      <4>1. CASE p = "refresh"
        BY <3>1, <4>1 DEF Visible, Uncleared
      <4>2. CASE p = "idle"
        BY <2>1, <2>b, <4>2 DEF Visible, LeavesCard, Nothing
      <4>3. QED
        BY <2>b, <4>1, <4>2
    <3>7. QED
      BY <3>3, <3>4, <3>5, <3>6
  <2>c. CASE /\ copy[w] # Nothing \/ row = Nothing
             /\ row' = Written(w) /\ latest' = Changed(latest, w)
             /\ stale' = stale \cup Outdated(w)
             /\ IF Executes THEN Move(w, "refresh", copy[w]) /\ UNCHANGED slipped
                            ELSE Move(w, "idle", Nothing) /\ LeavesCard
    <3>1. copy[w] \in AnyCard
      BY DEF TempleTypes
    <3>2. CASE Executes
      BY <2>b, <2>c, <3>1, <3>2
    <3>3. CASE ~Executes
      BY <2>b, <2>c, <3>3
    <3>4. QED
      BY <3>2, <3>3
  <2>2. QED
    BY <1>7, <2>a, <2>c DEF update_commit
<1>8. ASSUME NEW w \in Workers, refresh(w) PROVE TempleInv'
  <2>1. /\ templePc[w] = "refresh" /\ stale' = stale \ {w}
        /\ UNCHANGED <<card, row, edits, change, latest>>
    BY <1>8 DEF refresh, At
  <2>2. CASE Move(w, "clear", row) /\ UNCHANGED slipped
    <3>1. row \in AnyCard /\ row \in {Nothing, Current}
      BY DEF TempleTypes, Current
    <3>2. QED
      BY <1>m, <2>1, <2>2, <3>1
  <2>3. CASE Move(w, "idle", Nothing) /\ LeavesCard
    BY <1>m, <2>1, <2>3 DEF LeavesCard
  <2>4. QED
    BY <1>8, <2>2, <2>3 DEF refresh
<1>9. CASE CardLost
  <2>1. card' = Nothing /\ UNCHANGED <<row, edits, templePc, copy, stale, change, latest>>
    BY <1>9 DEF CardLost
  <2>2. TempleTypes' /\ Edited' /\ Visible'
    BY <2>1 DEF TempleTypes, Edited, Visible, At, Nothing, Bundled
  <2>3. UpToDate'
    BY <2>1 DEF UpToDate, At, Nothing, Current, Bundled
  <2>4. QED
    BY <2>2, <2>3
<1>10. CASE UNCHANGED templeVars
  BY <1>10 DEF templeVars, TempleTypes, Edited, UpToDate, Visible, Uncleared, At, Current, Nothing,
               Bundled
<1>11. CASE \E w \in Workers : get(w) \/ get_row(w) \/ get_fill(w) \/ TempleDies(w)
  BY <1>11, <1>1, <1>2, <1>3, <1>5, Zenon
<1>12. CASE \E w \in Operators : \/ \E fields \in SUBSET Fields : update(w, fields)
                                 \/ update_commit(w) \/ refresh(w) \/ update_clear(w)
  BY <1>12, <1>4, <1>6, <1>7, <1>8, TempleAssumption
<1>13. QED
  BY <1>9, <1>10, <1>11, <1>12 DEF TempleNext

LEMMA TempleInvariant == Spec => []TempleInv
<1>1. Init => TempleInv
  BY TempleInitial DEF Init
<1>2. QED
  BY <1>1, TemplePreserved, PTL DEF Spec

(***************************************************************************)
(* A committed edit is what the row holds until the field is edited again, *)
(* for any operators and edits under way at once.                          *)
(***************************************************************************)
THEOREM NoEditLost == Spec => []EditsKept
<1>1. TempleInv => EditsKept
  BY DEF TempleInv, Edited, EditsKept
<1>2. QED
  BY <1>1, TempleInvariant, PTL

(***************************************************************************)
(* While no update is between its commit and its removal of the cached     *)
(* card, that card is the row, unless a process that had read before a     *)
(* commit cached it (another update's closing get is one), or an update    *)
(* ended without dropping it, or it is the default of an outage: for any   *)
(* readers, operators, fields and edits, any overlap of them, and commits  *)
(* that are carried out without an acknowledgement.                        *)
(***************************************************************************)
THEOREM CorrectionsSeen == Spec => []CorrectionVisible
<1>1. TempleInv => CorrectionVisible
  BY DEF TempleInv, Visible, CorrectionVisible, Current
<1>2. QED
  BY <1>1, TempleInvariant, PTL

----------------------------------------------------------------------------
(* The clips and their warming.                                            *)

Whole == {NoClip} \cup [pieces : {Pieces}, lasts : {"day", "month"}]

ClipTypes ==
    /\ clips \in [Texts -> Whole]
    /\ warmPc \in [Warmers -> {"idle", "lock", "warm", "unlock"}]
    /\ job \in [Warmers -> [Prompts -> {"todo", "stream", "keep", "done", "failed"}]]
    /\ speaking \in {Silent} \cup [text : Texts, step : {"stream", "store"}]
    /\ gone \in SUBSET Texts
    /\ overrun \in BOOLEAN

(* What is stored is whole; it is a live request's only once all is there. *)
Received == speaking.step = "store" => pieces = Pieces

(* Who warms has the lock.                                                 *)
Locked == ~overrun => \A w \in Warmers : Warming(w) => warmLock = w

Month(p) == p \in gone \/ clips[p] = Clip(Pieces, "month")

(* A prompt that is done, in a run or by the manifest, is there.           *)
Remembered ==
    ~overrun =>
        /\ \A w \in Warmers, p \in Prompts : job[w][p] = "done" => Month(p)
        /\ manifest => \A p \in Prompts : Month(p)

ClipsInv == ClipTypes /\ Received /\ Locked /\ Remembered

LEMMA ClipFacts ==
  /\ NoClip \in Whole /\ NoClip # Clip(Pieces, "month") /\ NoClip.lasts # "month"
  /\ \A lasts \in {"day", "month"} : Clip(Pieces, lasts) \in Whole
  /\ Clip(Pieces, "day").lasts # "month" /\ Clip(Pieces, "month").lasts = "month"
  /\ \A c \in Whole : c.lasts = "month" <=> c = Clip(Pieces, "month")
  /\ Pieces \in Nat \ {0} /\ Prompts \subseteq Texts /\ LiveTexts \subseteq Texts
BY ClipsAssumption DEF NoClip, Clip, Whole, Texts

LEMMA ClipsInitial == ClipsInit => ClipsInv
<1> SUFFICES ASSUME ClipsInit PROVE ClipsInv
  OBVIOUS
<1>1. ClipTypes
  BY ClipFacts DEF ClipsInit, ClipTypes
<1>2. Received /\ Locked
  BY DEF ClipsInit, Received, Locked, Warming, Silent
<1>3. Remembered
  BY DEF ClipsInit, Remembered
<1>4. QED
  BY <1>1, <1>2, <1>3 DEF ClipsInv

(* A clip that a day's one replaces, or that is lost, is noted as gone if  *)
(* it was a month's.                                                       *)
LEMMA NotedFacts ==
  ASSUME ClipTypes, NEW t \in Texts, NEW c \in Whole, NEW now \in SUBSET Texts,
         clips' = clips \/ clips' = [clips EXCEPT ![t] = c],
         ~overrun => gone' = now, overrun => gone' = {},
         gone \subseteq now \cup {t},
         t \in Prompts => t \in now \/ clips'[t] = Clip(Pieces, "month")
                            \/ (t \notin gone /\ clips[t] # Clip(Pieces, "month"))
  PROVE  /\ clips' \in [Texts -> Whole] /\ gone' \in SUBSET Texts
         /\ ~overrun => \A p \in Prompts : Month(p) => Month(p)'
<1>1. clips' \in [Texts -> Whole] /\ gone' \in SUBSET Texts
  BY DEF ClipTypes
<1>2. \A p \in Prompts : p # t => clips'[p] = clips[p]
  BY ClipFacts DEF ClipTypes
<1>3. ~overrun => \A p \in Prompts : Month(p) => Month(p)'
  BY <1>2, ClipFacts DEF ClipTypes, Month
<1>4. QED
  BY <1>1, <1>3

(* A step that neither takes nor drops the lock and lets no one warm.      *)
LEMMA ClipStep ==
  ASSUME ClipsInv, ClipTypes', Received', UNCHANGED <<warmLock, overrun>>,
         \A w \in Warmers : warmPc'[w] = "warm" => warmPc[w] = "warm",
         ~overrun => /\ \A p \in Prompts : Month(p) => Month(p)'
                     /\ \A w \in Warmers, p \in Prompts :
                          job'[w][p] = "done" => job[w][p] = "done" \/ Month(p)'
                     /\ manifest' => manifest \/ \A p \in Prompts : Month(p)'
  PROVE  ClipsInv'
<1>1. Locked'
  BY DEF ClipsInv, Locked, Warming
<1>2. Remembered'
  BY DEF ClipsInv, Remembered
<1>3. QED
  BY <1>1, <1>2 DEF ClipsInv

(* The state a run of w starts or ends with.                               *)
LEMMA AtRest ==
  ASSUME ClipTypes, NEW w \in Warmers, NEW point \in {"idle", "lock", "warm", "unlock"},
         Rest(w, point)
  PROVE  /\ warmPc' \in [Warmers -> {"idle", "lock", "warm", "unlock"}]
         /\ job' \in [Warmers -> [Prompts -> {"todo", "stream", "keep", "done", "failed"}]]
         /\ \A v \in Warmers : warmPc'[v] = IF v = w THEN point ELSE warmPc[v]
         /\ \A v \in Warmers, p \in Prompts : job'[v][p] = "done" => job[v][p] = "done"
BY DEF Rest, ClipTypes

LEMMA InTurn ==
  ASSUME ClipTypes, NEW w \in Warmers, NEW p \in Prompts, NEW from,
         NEW to \in {"todo", "stream", "keep", "done", "failed"}, Turns(w, p, from, to)
  PROVE  /\ UNCHANGED warmPc
         /\ job' \in [Warmers -> [Prompts -> {"todo", "stream", "keep", "done", "failed"}]]
         /\ \A v \in Warmers, q \in Prompts :
              job'[v][q] = "done" => job[v][q] = "done" \/ (q = p /\ to = "done")
BY DEF Turns, ClipTypes

LEMMA WarmPreserved == ClipsInv /\ WarmNext => ClipsInv'
<1> SUFFICES ASSUME ClipsInv, NEW w \in Warmers,
                    \/ stop(w)
                    \/ warm_static_prompts(w) \/ warm_lock(w) \/ warm_done(w) \/ warm_unlock(w)
                    \/ \E p \in Prompts : \/ _warm_prompt(w, p) \/ warm_synthesised(w, p)
                                          \/ _synthesize_patiently(w, p) \/ warm_keep(w, p)
             PROVE  ClipsInv'
  BY DEF WarmNext
<1>i. ClipTypes /\ Received /\ Locked /\ Remembered
  BY DEF ClipsInv
<1>m. UNCHANGED <<clips, gone>> => \A p \in Prompts : Month(p)' = Month(p)
  BY DEF Month, Clip
<1>1. CASE stop(w) \/ warm_static_prompts(w)
  <2>1. PICK point \in {"idle", "lock", "unlock"} : Rest(w, point)
    BY <1>1 DEF stop, warm_static_prompts
  <2>2. UNCHANGED <<clips, manifest, warmLock, speaking, pieces, gone, overrun>>
    BY <1>1 DEF stop, warm_static_prompts
  <2>3. ClipTypes' /\ Received'
    BY <1>i, <2>1, <2>2, AtRest DEF ClipTypes, Received
  <2>4. QED
    BY <1>i, <1>m, <2>1, <2>2, <2>3, AtRest, ClipStep
<1>2. CASE warm_lock(w)
  <2>1. UNCHANGED <<clips, manifest, speaking, pieces, gone, overrun>>
    BY <1>2 DEF warm_lock
  <2>2. PICK point \in {"idle", "warm"} :
          /\ Rest(w, point)
          /\ point = "idle" => UNCHANGED warmLock
          /\ point = "warm" => warmLock = "none" /\ warmLock' = w
    BY <1>2 DEF warm_lock
  <2>3. ClipTypes' /\ Received'
    BY <1>i, <2>1, <2>2, AtRest DEF ClipTypes, Received
  <2>4. Locked'
    BY <1>i, <2>1, <2>2, AtRest, ClipsAssumption DEF Locked, Warming
  <2>5. Remembered'
    BY <1>i, <1>m, <2>1, <2>2, AtRest DEF Remembered
  <2>6. QED
    BY <2>3, <2>4, <2>5 DEF ClipsInv
<1>3. CASE warm_done(w)
  <2>1. /\ Rest(w, "unlock")
        /\ UNCHANGED <<clips, warmLock, speaking, pieces, gone, overrun>>
        /\ manifest' => manifest \/ Clean(w)
    BY <1>3 DEF warm_done
  <2>2. ClipTypes' /\ Received'
    BY <1>i, <2>1, AtRest DEF ClipTypes, Received
  <2>3. ~overrun /\ manifest' => manifest \/ \A p \in Prompts : Month(p)'
    BY <1>i, <1>m, <2>1 DEF Clean, Remembered
  <2>4. QED
    BY <1>i, <1>m, <2>1, <2>2, <2>3, AtRest, ClipStep
<1>4. CASE warm_unlock(w)
  <2>1. /\ warmPc[w] = "unlock" /\ Rest(w, "idle")
        /\ UNCHANGED <<clips, manifest, speaking, pieces, gone>>
        /\ warmLock' = warmLock \/ (warmLock' = "none" /\ Answered(w))
    BY <1>4 DEF warm_unlock
  <2>2. overrun' = (overrun \/ (Answered(w) /\ warmLock \notin {"none", w}))
    BY <1>4 DEF warm_unlock
  <2>a. overrun' \in BOOLEAN /\ (overrun => overrun')
    BY <2>2
  <2>3. ClipTypes' /\ Received'
    BY <1>i, <2>1, <2>a, AtRest DEF ClipTypes, Received
  <2>4. Locked'
    <3> SUFFICES ASSUME ~overrun', NEW v \in Warmers, Warming(v)' PROVE warmLock' = v
      BY DEF Locked
    <3>1. Warming(v) /\ v # w
      BY <1>i, <2>1, AtRest DEF Warming
    <3>2. warmLock = v
      BY <1>i, <2>a, <3>1 DEF Locked
    <3>3. ~Answered(w)
      BY <2>2, <3>1, <3>2, ClipsAssumption
    <3>4. QED
      BY <2>1, <3>2, <3>3
  <2>5. Remembered'
    BY <1>i, <1>m, <2>1, <2>a, AtRest DEF Remembered
  <2>6. QED
    BY <2>3, <2>4, <2>5 DEF ClipsInv
<1>5. ASSUME NEW p \in Prompts, _warm_prompt(w, p) PROVE ClipsInv'
  <2>1. PICK to \in {"keep", "stream"} : Turns(w, p, "todo", to)
    BY <1>5 DEF _warm_prompt
  <2>2. UNCHANGED <<clips, manifest, warmLock, speaking, pieces, gone, overrun>>
    BY <1>5 DEF _warm_prompt
  <2>3. ClipTypes' /\ Received'
    BY <1>i, <2>1, <2>2, InTurn DEF ClipTypes, Received
  <2>4. QED
    BY <1>i, <1>m, <2>1, <2>2, <2>3, InTurn, ClipStep
<1>6. ASSUME NEW p \in Prompts, warm_synthesised(w, p) PROVE ClipsInv'
  <2>1. UNCHANGED <<manifest, warmLock, speaking, pieces, overrun>>
    BY <1>6 DEF warm_synthesised
  <2>a. CASE /\ Turns(w, p, "stream", "keep")
             /\ store(w, p, Pieces, "day")
             /\ Noted(gone \cup Shortened(w, p))
    <3>1. /\ clips' \in [Texts -> Whole] /\ gone' \in SUBSET Texts
          /\ ~overrun => \A q \in Prompts : Month(q) => Month(q)'
      <4>1. Shortened(w, p) \subseteq {p}
        BY DEF Shortened
      <4>2. p \notin gone \cup Shortened(w, p) =>
              \/ p \notin gone /\ clips[p] # Clip(Pieces, "month")
              \/ clips'[p] = Clip(Pieces, "month")
        BY <2>a, ClipFacts, <1>i DEF Shortened, store, ClipTypes
      <4>3. clips' = clips \/ clips' = [clips EXCEPT ![p] = Clip(Pieces, "day")]
        BY <2>a DEF store
      <4>4. (~overrun => gone' = gone \cup Shortened(w, p)) /\ (overrun => gone' = {})
        BY <2>1, <2>a DEF Noted
      <4>5. p \in Texts /\ Clip(Pieces, "day") \in Whole
            /\ gone \cup Shortened(w, p) \in SUBSET Texts
        BY <1>i, <4>1, ClipFacts DEF ClipTypes
      <4>6. QED
        BY <1>i, <4>1, <4>2, <4>3, <4>4, <4>5, NotedFacts
    <3>2. ClipTypes' /\ Received'
      BY <1>i, <2>1, <2>a, <3>1, InTurn DEF ClipTypes, Received
    <3>3. QED
      BY <1>i, <2>1, <2>a, <3>1, <3>2, InTurn, ClipStep
  <2>b. CASE /\ Turns(w, p, "stream", "done")
             /\ Noted(gone \cup {p}) /\ UNCHANGED clips
    <3>1. (~overrun => gone' = gone \cup {p}) /\ gone' \in SUBSET Texts
      BY <1>i, <2>1, <2>b, ClipFacts DEF Noted, ClipTypes
    <3>2. ~overrun => /\ Month(p)'
                      /\ \A q \in Prompts : Month(q) => Month(q)'
      BY <2>b, <3>1 DEF Month, Clip
    <3>3. ClipTypes' /\ Received'
      BY <1>i, <2>1, <2>b, <3>1, InTurn DEF ClipTypes, Received
    <3>4. QED
      BY <1>i, <2>1, <2>b, <3>2, <3>3, InTurn, ClipStep
  <2>2. QED
    BY <1>6, <2>a, <2>b DEF warm_synthesised
<1>7. ASSUME NEW p \in Prompts, _synthesize_patiently(w, p) PROVE ClipsInv'
  <2>1. UNCHANGED <<clips, manifest, warmLock, warmPc, speaking, pieces, gone, overrun>>
    BY <1>7 DEF _synthesize_patiently
  <2>2. PICK abandoned \in BOOLEAN :
          job' = [job EXCEPT ![w] = [q \in Prompts |->
                    IF q = p \/ (abandoned /\ job[w][q] = "todo") THEN "failed" ELSE job[w][q]]]
    BY <1>7 DEF _synthesize_patiently
  <2>3. /\ job' \in [Warmers -> [Prompts -> {"todo", "stream", "keep", "done", "failed"}]]
        /\ \A v \in Warmers, q \in Prompts : job'[v][q] = "done" => job[v][q] = "done"
    BY <1>i, <2>2 DEF ClipTypes
  <2>4. ClipTypes' /\ Received'
    BY <1>i, <2>1, <2>3 DEF ClipTypes, Received
  <2>5. QED
    BY <1>i, <1>m, <2>1, <2>3, <2>4, ClipStep
<1>8. ASSUME NEW p \in Prompts, warm_keep(w, p) PROVE ClipsInv'
  <2>1. /\ UNCHANGED <<manifest, warmLock, speaking, pieces, overrun>>
        /\ Turns(w, p, "keep", "done")
    BY <1>8 DEF warm_keep
  <2> DEFINE now == IF Answered(w) THEN gone \ {p} ELSE gone \cup {p}
  <2>2. /\ clips' = IF Answered(w) THEN [clips EXCEPT ![p] = Clip(Pieces, "month")] ELSE clips
        /\ (~overrun => gone' = now) /\ (overrun => gone' = {})
    BY <1>8, ClipFacts, <2>1 DEF warm_keep, store, Noted
  <2>3. /\ p \in Texts /\ Clip(Pieces, "month") \in Whole /\ now \in SUBSET Texts
        /\ gone \subseteq now \cup {p}
        /\ p \in now \/ clips'[p] = Clip(Pieces, "month")
    BY <1>i, <2>2, ClipFacts DEF ClipTypes
  <2> HIDE DEF now
  <2>4. /\ clips' \in [Texts -> Whole] /\ gone' \in SUBSET Texts
        /\ ~overrun => \A q \in Prompts : Month(q) => Month(q)'
    BY <1>i, <2>2, <2>3, NotedFacts
  <2>5. ~overrun => Month(p)'
    BY <2>2, <2>3 DEF Month, Clip
  <2>6. ClipTypes' /\ Received'
    BY <1>i, <2>1, <2>4, InTurn DEF ClipTypes, Received
  <2>7. QED
    BY <1>i, <2>1, <2>4, <2>5, <2>6, InTurn, ClipStep
<1>9. QED
  BY <1>1, <1>2, <1>3, <1>4, <1>5, <1>6, <1>7, <1>8

LEMMA SpeakPreserved == ClipsInv /\ SpeakNext => ClipsInv'
<1> SUFFICES ASSUME ClipsInv, SpeakNext PROVE ClipsInv'
  OBVIOUS
<1>i. ClipTypes /\ Received /\ Locked /\ Remembered
  BY DEF ClipsInv
<1>m. UNCHANGED <<clips, gone>> => \A p \in Prompts : Month(p)' = Month(p)
  BY DEF Month, Clip
<1>s. speaking # Silent => speaking \in [text : Texts, step : {"stream", "store"}]
  BY <1>i DEF ClipTypes
<1>1. ASSUME UNCHANGED <<clips, manifest, warmLock, warmVars, gone, overrun>>,
             speaking' \in {Silent} \cup [text : Texts, step : {"stream", "store"}],
             Received'
      PROVE  ClipsInv'
  <2>1. ClipTypes'
    BY <1>i, <1>1 DEF ClipTypes, warmVars
  <2>2. QED
    BY <1>i, <1>m, <1>1, <2>1, ClipStep DEF warmVars
<1>2. ASSUME NEW t \in LiveTexts, speak(t) PROVE ClipsInv'
  BY <1>1, <1>2, ClipFacts DEF speak, Received
<1>3. CASE synthesize
  <2>1. speaking # Silent
    BY <1>3 DEF synthesize, Silent
  <2>2. speaking' = [speaking EXCEPT !.step = IF pieces' = Pieces THEN "store" ELSE "stream"]
    BY <1>3 DEF synthesize
  <2>3. /\ speaking' \in [text : Texts, step : {"stream", "store"}]
        /\ speaking'.step = "store" => pieces' = Pieces
    BY <1>s, <2>1, <2>2
  <2>4. QED
    BY <1>1, <1>3, <2>3 DEF synthesize, Received
<1>4. CASE speak_fails
  BY <1>1, <1>4 DEF speak_fails, Received, Silent
<1>5. CASE speak_store
  <2> DEFINE t == speaking.text
             now == gone \cup Shortened(Speaker, t)
  <2>1. /\ t \in Texts /\ pieces = Pieces
        /\ speaking' = Silent /\ UNCHANGED <<manifest, warmLock, warmVars, overrun>>
    BY <1>i, <1>s, <1>5 DEF speak_store, Silent, Received
  <2>2. clips' = IF Answered(Speaker) THEN [clips EXCEPT ![t] = Clip(Pieces, "day")] ELSE clips
    BY <1>5, <2>1, ClipFacts DEF speak_store, store
  <2>3. (~overrun => gone' = now) /\ (overrun => gone' = {})
    BY <1>5, <2>1 DEF speak_store, Noted
  <2>4. Shortened(Speaker, t) \subseteq {t} /\ now \in SUBSET Texts
    BY <1>i, <2>1 DEF Shortened, ClipTypes
  <2>5. t \notin now => clips'[t] = Clip(Pieces, "month")
                          \/ (t \notin gone /\ clips[t] # Clip(Pieces, "month"))
    BY <1>i, <2>1, <2>2, ClipFacts DEF Shortened, ClipTypes
  <2> HIDE DEF now
  <2>6. gone \subseteq now \cup {t}
    BY DEF now
  <2>7. /\ clips' \in [Texts -> Whole] /\ gone' \in SUBSET Texts
        /\ ~overrun => \A p \in Prompts : Month(p) => Month(p)'
    <3>1. Clip(Pieces, "day") \in Whole
      BY ClipFacts
    <3>2. clips' = clips \/ clips' = [clips EXCEPT ![t] = Clip(Pieces, "day")]
      BY <2>2
    <3>3. QED
      BY <1>i, <2>1, <2>3, <2>4, <2>5, <2>6, <3>1, <3>2, NotedFacts
  <2>8. ClipTypes' /\ Received'
    BY <1>i, <2>1, <2>7 DEF ClipTypes, Received, warmVars, Silent
  <2>9. QED
    BY <1>i, <2>1, <2>7, <2>8, ClipStep DEF warmVars
<1>6. QED
  BY <1>2, <1>3, <1>4, <1>5 DEF SpeakNext

LEMMA ClipsPreserved == ClipsInv /\ [Next]_vars => ClipsInv'
<1> SUFFICES ASSUME ClipsInv, ClipsNext \/ UNCHANGED clipVars PROVE ClipsInv'
  BY ClipsFrame
<1>i. ClipTypes /\ Received /\ Locked /\ Remembered
  BY DEF ClipsInv
<1>1. CASE WarmNext \/ SpeakNext
  BY <1>1, WarmPreserved, SpeakPreserved
<1>2. CASE ClipExpires
  <2>1. PICK t \in Texts : /\ clips' = [clips EXCEPT ![t] = NoClip]
                           /\ Noted(IF clips[t].lasts = "month" THEN gone \cup {t} ELSE gone)
    BY <1>2 DEF ClipExpires
  <2>2. UNCHANGED <<manifest, warmLock, warmVars, speaking, pieces, overrun>>
    BY <1>2 DEF ClipExpires
  <2> DEFINE now == IF clips[t].lasts = "month" THEN gone \cup {t} ELSE gone
  <2>3. (~overrun => gone' = now) /\ (overrun => gone' = {})
    BY <2>1, <2>2 DEF Noted
  <2>4. /\ now \in SUBSET Texts /\ gone \subseteq now \cup {t}
        /\ t \notin now => t \notin gone /\ clips[t] # Clip(Pieces, "month")
    BY <1>i, ClipFacts DEF ClipTypes
  <2> HIDE DEF now
  <2>5. /\ clips' \in [Texts -> Whole] /\ gone' \in SUBSET Texts
        /\ ~overrun => \A p \in Prompts : Month(p) => Month(p)'
    BY <1>i, <2>1, <2>3, <2>4, ClipFacts, NotedFacts
  <2>6. ClipTypes' /\ Received'
    BY <1>i, <2>2, <2>5 DEF ClipTypes, Received, warmVars
  <2>7. QED
    BY <1>i, <2>2, <2>5, <2>6, ClipStep DEF warmVars
<1>3. CASE ManifestExpires
  <2>1. UNCHANGED <<clips, warmLock, warmVars, speaking, pieces, gone, overrun>> /\ ~manifest'
    BY <1>3 DEF ManifestExpires
  <2>2. ClipTypes' /\ Received'
    BY <1>i, <2>1 DEF ClipTypes, Received, warmVars
  <2>3. \A p \in Prompts : Month(p)' = Month(p)
    BY <2>1 DEF Month, Clip
  <2>4. QED
    BY <1>i, <2>1, <2>2, <2>3, ClipStep DEF warmVars
<1>4. CASE LockExpires
  <2>1. /\ warmLock # "none" /\ warmLock' = "none"
        /\ UNCHANGED <<clips, manifest, warmVars, speaking, pieces>>
        /\ gone' = gone \/ gone' = {}
    BY <1>4 DEF LockExpires, Noted
  <2>2. overrun' = (overrun \/ Warming(warmLock))
    BY <1>4 DEF LockExpires
  <2>3. /\ overrun' \in BOOLEAN
        /\ ~overrun' => ~overrun /\ ~Warming(warmLock)
    BY <2>2
  <2>4. ~overrun' => gone' = gone
    BY <1>4, <2>3 DEF LockExpires, Noted
  <2>5. ClipTypes' /\ Received'
    BY <1>i, <2>1, <2>3 DEF ClipTypes, Received, warmVars
  <2>6. Locked'
    BY <1>i, <2>1, <2>3 DEF Locked, Warming, warmVars
  <2>7. Remembered'
    BY <1>i, <2>1, <2>3, <2>4 DEF Remembered, Month, Clip, warmVars
  <2>8. QED
    BY <2>5, <2>6, <2>7 DEF ClipsInv
<1>5. CASE UNCHANGED clipVars
  BY <1>i, <1>5 DEF clipVars, ClipsInv, ClipTypes, Received, Locked, Remembered, Month, Clip,
                    Warming
<1>6. QED
  BY <1>1, <1>2, <1>3, <1>4, <1>5 DEF ClipsNext

LEMMA ClipsInvariant == Spec => []ClipsInv
<1>1. Init => ClipsInv
  BY ClipsInitial DEF Init
<1>2. QED
  BY <1>1, ClipsPreserved, PTL DEF Spec

(***************************************************************************)
(* Two processes never warm at once, for any number of them, unless a lock *)
(* went before its holder was done.                                        *)
(***************************************************************************)
THEOREM NeverTwoWarmers == Spec => []OneWarmer
<1>1. ClipsInv => OneWarmer
  <2> SUFFICES ASSUME ClipsInv, ~overrun
               PROVE  Cardinality({w \in Warmers : Warming(w)}) <= 1
    BY DEF OneWarmer
  <2> DEFINE S == {w \in Warmers : Warming(w)}
  <2>1. S \subseteq {warmLock}
    BY DEF ClipsInv, Locked
  <2>2. CASE S = {}
    BY <2>2, FS_EmptySet
  <2>3. CASE S = {warmLock}
    <3>1. Cardinality({warmLock}) = 1
      BY FS_Singleton
    <3>2. QED
      BY <2>3, <3>1
  <2>4. QED
    BY <2>1, <2>2, <2>3
<1>2. QED
  BY <1>1, ClipsInvariant, PTL

(***************************************************************************)
(* What is cached is whole, and under the manifest every prompt is cached  *)
(* for the month but those noted as gone, for any prompts and any number   *)
(* of pieces a clip comes in.                                              *)
(***************************************************************************)
THEOREM ClipsAreWhole == Spec => []ClipsTrustworthy
<1>1. ClipsInv => ClipsTrustworthy
  BY DEF ClipsInv, ClipTypes, Whole, NoClip, Remembered, Month, ClipsTrustworthy
<1>2. QED
  BY <1>1, ClipsInvariant, PTL

----------------------------------------------------------------------------
(* The types of the rest: what a card is made of.                          *)

CardsWithin ==
    /\ card \in Cards /\ row \in Cards /\ latest \in Cards
    /\ edits \in 0..MaxEdits
    /\ copy \in [Workers -> Cards]
    /\ change \in [Workers -> [edit : 0..MaxEdits, fields : SUBSET Fields]]
    /\ slipped \in BOOLEAN

LEMMA CardsFacts ==
  /\ Nothing \in Cards /\ Bundled \in Cards
  /\ NoChange \in [edit : 0..MaxEdits, fields : SUBSET Fields]
  /\ 0 \in 0..MaxEdits
<1>1. 0 \in 0..MaxEdits /\ 0 \in -1..MaxEdits /\ -1 \in -1..MaxEdits
  BY TempleAssumption
<1>2. QED
  BY <1>1 DEF Nothing, Bundled, NoChange, Cards

LEMMA ChangedWithin ==
  ASSUME CardsWithin, NEW base \in Cards, NEW w \in Workers
  PROVE  Changed(base, w) \in Cards
<1>1. change[w].edit \in -1..MaxEdits
  <2>1. change[w].edit \in 0..MaxEdits
    BY DEF CardsWithin
  <2>2. QED
    BY <2>1, TempleAssumption
<1>2. QED
  BY <1>1 DEF Changed, Cards

LEMMA CardsPreserved == CardsWithin /\ [Next]_vars => CardsWithin'
<1> SUFFICES ASSUME CardsWithin, TempleNext \/ UNCHANGED templeVars PROVE CardsWithin'
  BY TempleFrame
<1>w. Operators \subseteq Workers
  BY TempleAssumption
<1>g. ASSUME NEW w, NEW point, NEW c \in Cards, Move(w, point, c)
      PROVE  copy' \in [Workers -> Cards]
  BY <1>g DEF Move, CardsWithin
<1>0. CASE UNCHANGED templeVars
  BY <1>0 DEF templeVars, CardsWithin
<1>1. ASSUME NEW w \in Workers, get(w) PROVE CardsWithin'
  <2>1. copy[w] \in Cards
    BY DEF CardsWithin
  <2>2. QED
    BY <1>1, <1>g, <2>1, CardsFacts DEF get, Finish, CardsWithin
<1>2. ASSUME NEW w \in Workers, get_row(w) PROVE CardsWithin'
  <2>1. _read_row(w) \in Cards
    BY CardsFacts DEF _read_row, CardsWithin
  <2>2. (IF _read_row(w) = Nothing THEN Bundled ELSE _read_row(w)) \in Cards
    BY <2>1, CardsFacts
  <2>3. QED
    BY <1>2, <1>g, <2>2 DEF get_row, CardsWithin
<1>3. ASSUME NEW w \in Workers, get_fill(w) PROVE CardsWithin'
  <2>1. copy' \in [Workers -> Cards] /\ card' \in Cards
    BY <1>3, <1>g, CardsFacts DEF get_fill, Finish, CardsWithin
  <2>2. slipped' \in BOOLEAN
    <3>1. CASE Answered(w)
      BY <1>3, <3>1 DEF get_fill
    <3>2. CASE ~Answered(w)
      BY <1>3, <3>2 DEF get_fill, CardsWithin
    <3>3. QED
      BY <3>1, <3>2
  <2>3. QED
    BY <1>3, <2>1, <2>2 DEF get_fill, CardsWithin
<1>4. ASSUME NEW w \in Workers, TempleDies(w) PROVE CardsWithin'
  <2>1. copy' \in [Workers -> Cards]
    BY <1>4, <1>g, CardsFacts DEF TempleDies, Finish
  <2>2. slipped' \in BOOLEAN
    BY <1>4 DEF TempleDies, LeavesCard, CardsWithin
  <2>3. change' \in [Workers -> [edit : 0..MaxEdits, fields : SUBSET Fields]]
    BY <1>4, CardsFacts DEF TempleDies, CardsWithin
  <2>4. QED
    BY <1>4, <2>1, <2>2, <2>3 DEF TempleDies, CardsWithin
<1>5. ASSUME NEW w \in Operators, NEW fields \in SUBSET Fields, update(w, fields)
      PROVE  CardsWithin'
  <2>1. edits + 1 \in 0..MaxEdits
    <3>1. edits \in 0..MaxEdits /\ edits < MaxEdits
      BY <1>5 DEF update, CardsWithin
    <3>2. QED
      BY <3>1, TempleAssumption
  <2>2. _read_row(w) \in Cards
    BY <1>w, CardsFacts DEF _read_row, CardsWithin
  <2>3. copy' \in [Workers -> Cards]
    BY <1>5, <1>g, <2>2 DEF update
  <2>4. change' \in [Workers -> [edit : 0..MaxEdits, fields : SUBSET Fields]]
    BY <1>5, <2>1 DEF update, CardsWithin
  <2>5. QED
    BY <1>5, <2>1, <2>3, <2>4 DEF update, CardsWithin
<1>6. ASSUME NEW w \in Operators, update_commit(w) PROVE CardsWithin'
  <2>1. Written(w) \in Cards /\ Changed(latest, w) \in Cards
    BY <1>w, CardsFacts, ChangedWithin DEF Written, CardsWithin
  <2>2. copy' \in [Workers -> Cards]
    <3>1. copy[w] \in Cards
      BY <1>w DEF CardsWithin
    <3>2. QED
      BY <1>6, <1>g, <3>1, CardsFacts DEF update_commit, Finish
  <2>3. row' \in Cards /\ latest' \in Cards
    BY <1>6, <2>1 DEF update_commit, CardsWithin
  <2>4. slipped' \in BOOLEAN
    BY <1>6 DEF update_commit, LeavesCard, CardsWithin
  <2>5. change' \in [Workers -> [edit : 0..MaxEdits, fields : SUBSET Fields]]
    BY <1>6, CardsFacts DEF update_commit, CardsWithin
  <2>6. QED
    BY <1>6, <2>2, <2>3, <2>4, <2>5 DEF update_commit, CardsWithin
<1>7. ASSUME NEW w \in Operators, refresh(w) \/ update_clear(w) PROVE CardsWithin'
  <2>1. copy[w] \in Cards /\ row \in Cards
    BY <1>w DEF CardsWithin
  <2>2. copy' \in [Workers -> Cards] /\ card' \in Cards
    BY <1>7, <1>g, <2>1, CardsFacts DEF refresh, update_clear, CardsWithin
  <2>3. slipped' \in BOOLEAN
    BY <1>7 DEF refresh, update_clear, LeavesCard, CardsWithin
  <2>4. QED
    BY <1>7, <2>2, <2>3 DEF refresh, update_clear, CardsWithin
<1>8. CASE CardLost
  BY <1>8, CardsFacts DEF CardLost, CardsWithin
<1>9. QED
  BY <1>0, <1>1, <1>2, <1>3, <1>4, <1>5, <1>6, <1>7, <1>8 DEF TempleNext

LEMMA TempleTyped == Spec => []TempleType
<1>1. Init => CardsWithin
  <2>1. TempleInit => CardsWithin
    BY CardsFacts DEF TempleInit, CardsWithin
  <2>2. QED
    BY <2>1 DEF Init
<1>2. TempleInv /\ CardsWithin => TempleType
  BY DEF TempleInv, TempleTypes, CardsWithin, TempleType, Points
<1>3. QED
  BY <1>1, <1>2, TempleInvariant, CardsPreserved, PTL DEF Spec

----------------------------------------------------------------------------
(* The types of the rest: only a prompt is cached for a month, and a clip  *)
(* that is still coming has not got all its pieces.                        *)

ClipsWithin ==
    /\ manifest \in BOOLEAN
    /\ warmLock \in Warmers \cup {"none"}
    /\ gone \subseteq Prompts
    /\ \A t \in Texts : clips[t].lasts = "month" => t \in Prompts
    /\ pieces \in 0..Pieces
    /\ speaking.step = "stream" => pieces < Pieces

LEMMA StoredWithin ==
  ASSUME ClipTypes, ClipsWithin, NEW w, NEW t \in Texts, NEW n, NEW lasts,
         lasts = "month" => t \in Prompts, store(w, t, n, lasts)
  PROVE  \A s \in Texts : clips'[s].lasts = "month" => s \in Prompts
BY DEF store, Clip, ClipTypes, ClipsWithin

LEMMA ShortenedWithin ==
  ASSUME ClipsWithin, NEW w, NEW t \in Texts PROVE Shortened(w, t) \subseteq Prompts
BY DEF Shortened, ClipsWithin

LEMMA NotedWithin ==
  ASSUME NEW S, S \subseteq Prompts, Noted(S) PROVE gone' \subseteq Prompts
BY DEF Noted

LEMMA ClipsWithinPreserved == ClipsInv /\ ClipsWithin /\ [Next]_vars => ClipsWithin'
<1> SUFFICES ASSUME ClipsInv, ClipsWithin, ClipsNext \/ UNCHANGED clipVars PROVE ClipsWithin'
  BY ClipsFrame
<1>i. ClipTypes /\ Received
  BY DEF ClipsInv
<1>p. Prompts \subseteq Texts /\ LiveTexts \subseteq Texts /\ Pieces \in Nat \ {0}
  BY ClipFacts
<1>0. CASE UNCHANGED clipVars
  BY <1>0 DEF clipVars, ClipsWithin
<1>1. ASSUME NEW w \in Warmers, stop(w) \/ warm_static_prompts(w) PROVE ClipsWithin'
  BY <1>1 DEF stop, warm_static_prompts, ClipsWithin
<1>2. ASSUME NEW w \in Warmers, warm_lock(w) \/ warm_unlock(w) PROVE ClipsWithin'
  BY <1>2 DEF warm_lock, warm_unlock, ClipsWithin
<1>3. ASSUME NEW w \in Warmers, warm_done(w) PROVE ClipsWithin'
  <2>1. manifest' \in BOOLEAN
    BY <1>3 DEF warm_done
  <2>2. QED
    BY <1>3, <2>1 DEF warm_done, ClipsWithin
<1>4. ASSUME NEW w \in Warmers, NEW p \in Prompts, _warm_prompt(w, p) \/ _synthesize_patiently(w, p)
      PROVE  ClipsWithin'
  BY <1>4 DEF _warm_prompt, _synthesize_patiently, ClipsWithin
<1>5. ASSUME NEW w \in Warmers, NEW p \in Prompts, warm_synthesised(w, p) PROVE ClipsWithin'
  <2>1. \A s \in Texts : clips'[s].lasts = "month" => s \in Prompts
    <3>1. store(w, p, Pieces, "day") \/ UNCHANGED clips
      BY <1>5 DEF warm_synthesised
    <3>2. QED
      BY <1>i, <1>p, <3>1, StoredWithin DEF ClipsWithin
  <2>2. gone' \subseteq Prompts
    <3>1. Noted(gone \cup Shortened(w, p)) \/ Noted(gone \cup {p})
      BY <1>5 DEF warm_synthesised
    <3>2. gone \cup Shortened(w, p) \subseteq Prompts /\ gone \cup {p} \subseteq Prompts
      BY <1>p, ShortenedWithin DEF ClipsWithin
    <3>3. QED
      BY <3>1, <3>2, NotedWithin
  <2>3. QED
    BY <1>5, <2>1, <2>2 DEF warm_synthesised, ClipsWithin
<1>6. ASSUME NEW w \in Warmers, NEW p \in Prompts, warm_keep(w, p) PROVE ClipsWithin'
  <2>1. \A s \in Texts : clips'[s].lasts = "month" => s \in Prompts
    BY <1>6, <1>i, <1>p, StoredWithin DEF warm_keep
  <2>2. gone' \subseteq Prompts
    <3>1. (IF Answered(w) THEN gone \ {p} ELSE gone \cup {p}) \subseteq Prompts
      BY DEF ClipsWithin
    <3>2. QED
      BY <1>6, <3>1, NotedWithin DEF warm_keep
  <2>3. QED
    BY <1>6, <2>1, <2>2 DEF warm_keep, ClipsWithin
<1>7. ASSUME NEW t \in LiveTexts, speak(t) PROVE ClipsWithin'
  <2>1. 0 \in 0..Pieces /\ 0 < Pieces
    BY <1>p
  <2>2. UNCHANGED <<clips, manifest, warmLock, gone>> /\ pieces' = 0
    BY <1>7 DEF speak
  <2>3. QED
    BY <2>1, <2>2 DEF ClipsWithin
<1>8. CASE synthesize
  <2>1. speaking.step = "stream" /\ pieces \in 0..Pieces /\ pieces < Pieces
    BY <1>8 DEF synthesize, ClipsWithin
  <2>2. pieces' \in {Pieces, pieces + 1}
    BY <1>8 DEF synthesize
  <2>3. pieces' \in 0..Pieces
    BY <1>p, <2>1, <2>2
  <2>4. speaking'.step = "stream" => pieces' # Pieces
    <3>1. speaking \in [text : Texts, step : {"stream", "store"}]
      BY <1>i, <2>1 DEF ClipTypes, Silent
    <3>2. speaking' = [speaking EXCEPT !.step = IF pieces' = Pieces THEN "store" ELSE "stream"]
      BY <1>8 DEF synthesize
    <3>3. QED
      BY <3>1, <3>2
  <2>5. speaking'.step = "stream" => pieces' < Pieces
    BY <1>p, <2>3, <2>4
  <2>6. UNCHANGED <<clips, manifest, warmLock, gone>>
    BY <1>8 DEF synthesize
  <2>7. QED
    BY <2>3, <2>5, <2>6 DEF ClipsWithin
<1>9. CASE speak_fails \/ speak_store
  <2>1. 0 \in 0..Pieces /\ 0 < Pieces
    BY <1>p
  <2>2. pieces' = 0 /\ UNCHANGED <<manifest, warmLock>>
    BY <1>9 DEF speak_fails, speak_store
  <2>3. CASE speak_fails
    BY <2>1, <2>2, <2>3 DEF speak_fails, ClipsWithin
  <2>4. CASE speak_store
    <3>1. speaking.text \in Texts
      BY <1>i, <2>4 DEF speak_store, ClipTypes, Silent
    <3>2. \A s \in Texts : clips'[s].lasts = "month" => s \in Prompts
      BY <2>4, <1>i, <3>1, StoredWithin DEF speak_store
    <3>3. gone' \subseteq Prompts
      <4>1. gone \cup Shortened(Speaker, speaking.text) \subseteq Prompts
        BY <3>1, ShortenedWithin DEF ClipsWithin
      <4>2. QED
        BY <2>4, <4>1, NotedWithin DEF speak_store
    <3>4. QED
      BY <2>1, <2>2, <3>2, <3>3 DEF ClipsWithin
  <2>5. QED
    BY <1>9, <2>3, <2>4
<1>10. CASE ClipExpires
  <2>1. PICK t \in Texts : /\ clips' = [clips EXCEPT ![t] = NoClip]
                           /\ Noted(IF clips[t].lasts = "month" THEN gone \cup {t} ELSE gone)
    BY <1>10 DEF ClipExpires
  <2>2. gone' \subseteq Prompts
    <3>1. (IF clips[t].lasts = "month" THEN gone \cup {t} ELSE gone) \subseteq Prompts
      BY DEF ClipsWithin
    <3>2. QED
      BY <2>1, <3>1, NotedWithin
  <2>3. \A s \in Texts : clips'[s].lasts = "month" => s \in Prompts
    BY <1>i, <2>1 DEF ClipTypes, ClipsWithin, NoClip
  <2>4. QED
    BY <1>10, <2>2, <2>3 DEF ClipExpires, ClipsWithin
<1>11. CASE ManifestExpires
  BY <1>11 DEF ManifestExpires, ClipsWithin
<1>12. CASE LockExpires
  <2>1. gone' \subseteq Prompts
    BY <1>12 DEF LockExpires, Noted, ClipsWithin
  <2>2. QED
    BY <1>12, <2>1 DEF LockExpires, ClipsWithin
<1>13. QED
  BY <1>0, <1>1, <1>2, <1>3, <1>4, <1>5, <1>6, <1>7, <1>8, <1>9, <1>10, <1>11, <1>12
     DEF ClipsNext, WarmNext, SpeakNext

LEMMA ClipsTyped == Spec => []ClipsType
<1>1. Init => ClipsWithin
  <2>1. 0 \in 0..Pieces /\ 0 < Pieces
    BY ClipFacts
  <2>2. ASSUME ClipsInit PROVE ClipsWithin
    <3>1. manifest \in BOOLEAN /\ warmLock \in Warmers \cup {"none"} /\ gone \subseteq Prompts
      BY <2>2 DEF ClipsInit
    <3>2. \A t \in Texts : clips[t] = NoClip
      BY <2>2 DEF ClipsInit
    <3>3. pieces = 0
      BY <2>2 DEF ClipsInit
    <3>4. QED
      BY <2>1, <3>1, <3>2, <3>3, ClipFacts DEF ClipsWithin
  <2>3. QED
    BY <2>2 DEF Init
<1>2. ClipsInv /\ ClipsWithin => ClipsType
  <2> SUFFICES ASSUME ClipsInv, ClipsWithin PROVE ClipsType
    OBVIOUS
  <2>1. Pieces \in 0..Pieces
    BY ClipFacts
  <2>2. Whole \subseteq {NoClip} \cup [pieces : 0..Pieces, lasts : {"day", "month"}]
    BY <2>1 DEF Whole
  <2>3. clips \in [Texts -> {NoClip} \cup [pieces : 0..Pieces, lasts : {"day", "month"}]]
    BY <2>2 DEF ClipsInv, ClipTypes
  <2>4. QED
    BY <2>3 DEF ClipsInv, ClipTypes, ClipsWithin, ClipsType
<1>3. QED
  BY <1>1, <1>2, ClipsInvariant, ClipsWithinPreserved, PTL DEF Spec
=============================================================================
