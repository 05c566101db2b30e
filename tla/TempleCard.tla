----------------------------- MODULE TempleCard -----------------------------
(***************************************************************************)
(* temple_service.py for one language: the card is read from the cache,    *)
(* else from its row, else from the bundled default, and what was read is  *)
(* cached for an hour; an operator's partial update (PUT                   *)
(* /api/admin/temple/info) writes the row, drops the cached card and       *)
(* answers with what get returns then, in the session the row was written  *)
(* in.  A field holds the number of the edit that wrote it, 0 for the      *)
(* bundled text.                                                           *)
(***************************************************************************)
EXTENDS Handles

CONSTANTS
    Visitors,       \* processes with a request for the card
    Operators,      \* processes with an update
    Fields,         \* fields of the card
    MaxEdits

ASSUME TempleAssumption ==
    /\ Visitors \cup Operators \subseteq Workers
    /\ Visitors \cap Operators = {}
    /\ MaxEdits \in Nat /\ Fields # {}

VARIABLES
    card,           \* temple:info:{language}
    row,            \* the row of temple_info
    edits,          \* edits begun
    templePc, copy, \* a request's position, the card or the row it holds
    stale,          \* history: the processes whose card was read before another's
                    \* update, or is the default for want of the database
    change,         \* change[w]: the edit and the fields of w's update
    latest,         \* history: the newest committed edit of each field
    slipped         \* history: the cached card is a stale process's, or an update
                    \* ended without dropping it

templeVars == <<card, row, edits, templePc, copy, stale, change, latest, slipped>>

Nothing == [f \in Fields |-> -1]
(* temple_defaults: the bundled card.                                      *)
Bundled == [f \in Fields |-> 0]
NoChange == [edit |-> 0, fields |-> {}]
Cards == [Fields -> -1..MaxEdits]

TempleType ==
    /\ card \in Cards /\ row \in Cards /\ latest \in Cards
    /\ edits \in 0..MaxEdits
    /\ templePc \in [Workers -> {"idle", "read", "fill", "commit", "refresh", "clear", "get"}]
    /\ copy \in [Workers -> Cards]
    /\ stale \subseteq Workers
    /\ change \in [Workers -> [edit : 0..MaxEdits, fields : SUBSET Fields]]
    /\ slipped \in BOOLEAN

(* The table is empty, or seed_defaults filled it at deployment.           *)
TempleInit ==
    /\ card = Nothing
    /\ row \in {Nothing, Bundled}
    /\ edits = 0
    /\ templePc = [w \in Workers |-> "idle"]
    /\ copy = [w \in Workers |-> Nothing]
    /\ stale = {}
    /\ change = [w \in Workers |-> NoChange]
    /\ latest = Bundled
    /\ slipped = FALSE

At(w, point) == templePc[w] = point
Move(w, point, c) ==
    /\ templePc' = [templePc EXCEPT ![w] = point]
    /\ copy' = [copy EXCEPT ![w] = c]

Finish(w) == Move(w, "idle", Nothing) /\ stale' = stale \ {w}

(* _read_cache of get; a failure is a miss, and leaves the health flag be. *)
get(w) ==
    /\ At(w, "get") \/ (At(w, "idle") /\ w \in Visitors)
    /\ IF Answered(w) /\ card # Nothing THEN Finish(w)
                                        ELSE Move(w, "read", copy[w]) /\ UNCHANGED stale
    /\ UNCHANGED <<card, row, edits, change, latest, slipped>>

(* _read_row gives None both for an absent row and for a failing database; *)
(* a session that holds the row gives that object, as it was refreshed.    *)
_read_row(w) ==
    CASE ~Executes -> Nothing
      [] Executes /\ copy[w] # Nothing -> copy[w]
      [] OTHER -> row

get_row(w) ==
    /\ At(w, "read")
    /\ Move(w, "fill", IF _read_row(w) = Nothing THEN Bundled ELSE _read_row(w))
    /\ stale' = IF Executes \/ row = Nothing THEN stale ELSE stale \cup {w}
    /\ UNCHANGED <<card, row, edits, change, latest, slipped>>

get_fill(w) ==
    /\ At(w, "fill")
    /\ IF Answered(w) THEN card' = copy[w] /\ slipped' = (w \in stale)
                      ELSE UNCHANGED <<card, slipped>>
    /\ Finish(w)
    /\ UNCHANGED <<row, edits, change, latest>>

(* The head of update: the row is loaded, or a new one made from the       *)
(* defaults, and the fields of the payload are set on it.                  *)
update(w, fields) ==
    /\ At(w, "idle") /\ edits < MaxEdits
    /\ fields # {}
    /\ edits' = edits + 1
    /\ change' = [change EXCEPT ![w] = [edit |-> edits', fields |-> fields]]
    /\ Move(w, "commit", _read_row(w))
    /\ UNCHANGED <<card, row, stale, latest, slipped>>

Changed(base, w) ==
    [f \in Fields |-> IF f \in change[w].fields THEN change[w].edit ELSE base[f]]

(* Mutant of Written: all columns are written.                             *)
WrittenWhole(w) == Changed(IF copy[w] # Nothing THEN copy[w] ELSE Bundled, w)

(* The commit: an UPDATE of the changed columns alone, or an INSERT that a *)
(* row made meanwhile turns into an error.                                 *)
Written(w) == IF copy[w] # Nothing THEN Changed(row, w) ELSE Changed(Bundled, w)

(* The others that hold a card hold the one before this commit.            *)
Outdated(w) ==
    {v \in Workers \ {w} : copy[v] # Nothing /\ templePc[v] \in {"clear", "get", "read", "fill"}}

(* A request that ends with its update stored leaves a cached card behind. *)
LeavesCard == slipped' = (slipped \/ card # Nothing)

(* An error ends the request, also when the commit was carried out and     *)
(* only its answer is missing.                                             *)
update_commit(w) ==
    /\ At(w, "commit")
    /\ \/ /\ copy[w] # Nothing \/ row = Nothing
          /\ row' = Written(w)
          /\ latest' = Changed(latest, w)
          /\ stale' = stale \cup Outdated(w)
          /\ IF Executes THEN Move(w, "refresh", copy[w]) /\ UNCHANGED slipped
                         ELSE Move(w, "idle", Nothing) /\ LeavesCard
       \/ /\ ~Executes \/ (copy[w] = Nothing /\ row # Nothing)
          /\ Finish(w)
          /\ UNCHANGED <<row, latest, slipped>>
    /\ change' = [change EXCEPT ![w] = NoChange]
    /\ UNCHANGED <<card, edits>>

(* db.refresh loads the row as it is now, or raises.                       *)
refresh(w) ==
    /\ At(w, "refresh")
    /\ IF Executes THEN Move(w, "clear", row) /\ UNCHANGED slipped
                   ELSE Move(w, "idle", Nothing) /\ LeavesCard
    /\ stale' = stale \ {w}
    /\ UNCHANGED <<card, row, edits, change, latest>>

(* Mutant of update_clear: the cached card is left in place.               *)
UpdateUncleared(w) ==
    /\ At(w, "clear")
    /\ Move(w, "get", copy[w])
    /\ UNCHANGED <<card, row, edits, stale, change, latest, slipped>>

(* _clear_cache: nothing happens without a client, and a failure is only   *)
(* logged.                                                                 *)
update_clear(w) ==
    /\ At(w, "clear")
    /\ IF Answered(w) THEN card' = Nothing /\ slipped' = FALSE
                      ELSE UNCHANGED card /\ LeavesCard
    /\ Move(w, "get", copy[w])
    /\ UNCHANGED <<row, edits, stale, change, latest>>

(* The hour passes, or Redis loses the entry.                              *)
CardLost ==
    /\ card # Nothing /\ card' = Nothing
    /\ slipped' = FALSE
    /\ UNCHANGED <<row, edits, templePc, copy, stale, change, latest>>

Uncleared(w) == templePc[w] \in {"refresh", "clear"}

TempleDies(w) ==
    /\ ~At(w, "idle")
    /\ IF Uncleared(w) THEN LeavesCard ELSE UNCHANGED slipped
    /\ Finish(w)
    /\ change' = [change EXCEPT ![w] = NoChange]
    /\ UNCHANGED <<card, row, edits, latest>>

TempleNext ==
    /\ \/ \E w \in Workers : get(w) \/ get_row(w) \/ get_fill(w) \/ TempleDies(w)
       \/ \E w \in Operators : \/ \E fields \in SUBSET Fields : update(w, fields)
                               \/ update_commit(w) \/ refresh(w) \/ update_clear(w)
       \/ CardLost
    /\ UNCHANGED handleVars

(***************************************************************************)
(* Once no update is between its commit and its removal of the cached      *)
(* card, whatever a process finds in the cache is the row as it is now: "a *)
(* timing corrected during the Wari is visible immediately rather than up  *)
(* to an hour later" (routers/admin.py:156-157).  slipped names what       *)
(* breaks it, until the card is dropped, replaced or expires: a card that  *)
(* a process read before an update and caches after it, be it a reader or  *)
(* another update, whose closing get answers with the row it refreshed;    *)
(* the default cached while the database could not be read; an update that *)
(* is stored and ends before it has dropped the card, or cannot drop it    *)
(* for want of Redis.                                                      *)
(***************************************************************************)
CorrectionVisible ==
    ~slipped /\ (\A w \in Workers : ~Uncleared(w)) =>
        card \in {Nothing, IF row = Nothing THEN Bundled ELSE row}

(***************************************************************************)
(* A committed edit of a field is what the row holds until the field is    *)
(* edited again: operators who edit different fields at once do not undo   *)
(* each other ("send only the fields that changed", routers/admin.py:154). *)
(***************************************************************************)
EditsKept == row # Nothing => row = latest
=============================================================================
