------------------------- MODULE CommunityListings -------------------------
(***************************************************************************)
(* Seva offerings (community_service.py, routers/community.py), split at   *)
(* their awaits: publishing, withdrawing, reserving and releasing a        *)
(* listing, and listing what is offered.  A publication whose commit fails *)
(* stays in the memory of its process (_IN_MEMORY_SERVICES), which is      *)
(* consulted when the table does not give a row and merged into the list.  *)
(* Times are left out, and of places and categories only which listings a  *)
(* question takes in is kept: every listing is open.                       *)
(***************************************************************************)
EXTENDS Handles, FiniteSets

CONSTANTS
    Listings,       \* publications
    Hosts,          \* the processes that serve them
    RowLimit,       \* rows a list is made from (500)
    ListLimit       \* entries it is cut to (100, at most 200)

ASSUME HostsAssumption == Hosts \subseteq Workers /\ "none" \notin Listings
ASSUME LimitsAssumption ==
    IsFiniteSet(Listings) /\ RowLimit \in Nat /\ ListLimit \in 0..RowLimit

VARIABLES
    table,          \* table[l]: the row of l
    memory,         \* memory[w][l]: the copy process w keeps
    listPc, subject, \* a request's step, and its listing and purpose
    shared,         \* history: rows whose publication was not known to have succeeded
    stands          \* history: stands[l]: published once its provider was told so,
                    \* withdrawn once a withdrawal took effect, answered or not

listingVars == <<table, memory, listPc, subject, shared, stands>>

NoListing == [active |-> FALSE, locked |-> FALSE, there |-> FALSE]
Open == [active |-> TRUE, locked |-> FALSE, there |-> TRUE]
Entries == [active : BOOLEAN, locked : BOOLEAN, there : BOOLEAN]
Purposes == {"publish", "withdraw", "lock", "unlock"}
NoSubject == [listing |-> "none", purpose |-> "none"]

ListingsType ==
    /\ table \in [Listings -> Entries]
    /\ memory \in [Hosts -> [Listings -> Entries]]
    /\ listPc \in [Hosts -> {"idle", "commit"}]
    /\ subject \in [Hosts -> [listing : Listings, purpose : Purposes] \cup {NoSubject}]
    /\ shared \in SUBSET Listings
    /\ stands \in [Listings -> {"nothing", "published", "withdrawn"}]

ListingsInit ==
    /\ table = [l \in Listings |-> NoListing]
    /\ memory = [w \in Hosts |-> [l \in Listings |-> NoListing]]
    /\ listPc = [w \in Hosts |-> "idle"] /\ subject = [w \in Hosts |-> NoSubject]
    /\ shared = {} /\ stands = [l \in Listings |-> "nothing"]

Begin(w, l, purpose) ==
    /\ listPc[w] = "idle" /\ listPc' = [listPc EXCEPT ![w] = "commit"]
    /\ subject' = [subject EXCEPT ![w] = [listing |-> l, purpose |-> purpose]]
Over(w) ==
    /\ listPc' = [listPc EXCEPT ![w] = "idle"]
    /\ subject' = [subject EXCEPT ![w] = NoSubject]
Stands(l, what) == stands' = [stands EXCEPT ![l] = what]

Unpublished(l) ==
    /\ ~table[l].there /\ \A w \in Hosts : ~memory[w][l].there /\ subject[w].listing # l
    /\ stands[l] = "nothing"

----------------------------------------------------------------------------
(* create, up to its commit.                                               *)
create(w, l) ==
    /\ Unpublished(l)
    /\ Begin(w, l, "publish")
    /\ UNCHANGED <<table, memory, shared, stands>>

(* Mutant of create_commit: a failed commit is answered like a good one.   *)
CreateAnswered(w) ==
    LET l == subject[w].listing IN
    /\ listPc[w] = "commit" /\ subject[w].purpose = "publish"
    /\ table' = IF Executes THEN [table EXCEPT ![l] = Open] ELSE table
    /\ memory' = IF Executes THEN memory ELSE [memory EXCEPT ![w][l] = Open]
    /\ Stands(l, "published")
    /\ Over(w) /\ UNCHANGED shared

(* The INSERT's commit.  When it fails the listing is kept in memory, and  *)
(* the commit that closes the request, in a transaction that is broken by  *)
(* now, ends it with a 500: no manage token is handed out.  The connection *)
(* may have gone after the row was stored.                                 *)
create_commit(w) ==
    LET l == subject[w].listing IN
    /\ listPc[w] = "commit" /\ subject[w].purpose = "publish"
    /\ \/ /\ Executes
          /\ table' = [table EXCEPT ![l] = Open]
          /\ Stands(l, "published")
          /\ UNCHANGED <<memory, shared>>
       \/ /\ ~Executes
          /\ memory' = [memory EXCEPT ![w][l] = Open]
          /\ \/ table' = [table EXCEPT ![l] = Open] /\ shared' = shared \cup {l}
             \/ UNCHANGED <<table, shared>>
          /\ UNCHANGED stands
    /\ Over(w)

(* Mutant of Applied: all columns are written.                             *)
AppliedWhole(entry, purpose) ==
    [Open EXCEPT !.active = purpose # "withdraw", !.locked = purpose = "lock"]

(* deactivate, lock and unlock begin alike: the row or, where the table    *)
(* gives none, this process's copy; a listing that is not active is a 404. *)
(* A copy is changed on the spot and the request answered.                 *)
Applied(entry, purpose) ==
    CASE purpose = "withdraw" -> [entry EXCEPT !.active = FALSE]
      [] purpose = "lock"     -> [entry EXCEPT !.locked = TRUE]
      [] purpose = "unlock"   -> [entry EXCEPT !.locked = FALSE]
      [] purpose = "publish"  -> entry

Found(l) == Executes /\ table[l].there

change_row(w, l, purpose) ==
    /\ Found(l) /\ table[l].active
    /\ Begin(w, l, purpose)
    /\ UNCHANGED <<table, memory, shared, stands>>

change_copy(w, l, purpose) ==
    /\ listPc[w] = "idle"
    /\ ~Found(l) /\ memory[w][l].active
    /\ memory' = [memory EXCEPT ![w][l] = Applied(@, purpose)]
    /\ IF purpose = "withdraw" THEN Stands(l, "withdrawn") ELSE UNCHANGED stands
    /\ UNCHANGED <<table, listPc, subject, shared>>

(* The commit writes the columns it changed, whatever became of the others *)
(* since the row was read; a failure ends in a 500, also when only the     *)
(* acknowledgement is missing.                                             *)
change_commit(w) ==
    LET l == subject[w].listing
        purpose == subject[w].purpose
    IN  /\ listPc[w] = "commit" /\ purpose # "publish"
        /\ \/ /\ table' = [table EXCEPT ![l] = Applied(@, purpose)]
              /\ IF purpose = "withdraw" THEN Stands(l, "withdrawn") ELSE UNCHANGED stands
           \/ ~Executes /\ UNCHANGED <<table, stands>>
        /\ Over(w)
        /\ UNCHANGED <<memory, shared>>

(* Only its provider or the administrator gets through _may_manage to      *)
(* withdraw a listing; anyone reserves and releases it.                    *)
manage(w, l) ==
    \E purpose \in Purposes \ {"publish"} :
        change_row(w, l, purpose) \/ change_copy(w, l, purpose)

(* The process restarts: its copies are gone.                              *)
HostRestarts(w) ==
    /\ listPc[w] # "idle" \/ \E l \in Listings : memory[w][l].there
    /\ memory' = [memory EXCEPT ![w] = [l \in Listings |-> NoListing]]
    /\ Over(w)
    /\ UNCHANGED <<table, shared, stands>>

ListingsNext ==
    /\ \E w \in Hosts :
         \/ \E l \in Listings : create(w, l) \/ manage(w, l)
         \/ create_commit(w) \/ change_commit(w) \/ HostRestarts(w)
    /\ UNCHANGED handleVars

(* What a limit may leave of a set, the rows being in no order.            *)
Cut(S, limit) ==
    {T \in SUBSET S : (T = S /\ Cardinality(S) <= limit) \/ Cardinality(T) = limit}

(* active: the lists a process may answer with, for a place whose radius   *)
(* takes in the listings near, and whose bounding box those in box; with   *)
(* no place they are the same.  The query is cut to its limit, the copies  *)
(* that it does not have are merged, the radius is applied, and what is    *)
(* left is cut again.                                                      *)
InBox(box) == {l \in box : Executes /\ table[l].active}
active(w, box, near) ==
    LET copies == {l \in Listings : memory[w][l].active}
    IN  UNION {Cut((read \cup copies) \cap near, ListLimit) : read \in Cut(InBox(box), RowLimit)}

(***************************************************************************)
(* A listing the provider was told is published is missing from a          *)
(* process's list of the listings near a place only where the list is full *)
(* without it, or more are in the box around the radius than the query     *)
(* takes, while the database answers and until a withdrawal takes effect:  *)
(* it never lives in the memory of one process alone                       *)
(* (community_service.py:93-101, 254-301).                                 *)
(***************************************************************************)
PublishedEverywhere ==
    \A l \in Listings : stands[l] = "published" /\ Executes =>
        \A box \in SUBSET Listings : \A near \in SUBSET box, w \in Hosts :
            \A list \in active(w, box, near) : l \in near =>
                \/ l \in list
                \/ Cardinality(list) = ListLimit
                \/ near # box /\ Cardinality(InBox(box)) > RowLimit

(***************************************************************************)
(* Once a withdrawal took effect the listing is in no list, whatever       *)
(* reservation or release of it was under way, on every process and        *)
(* through outages and restarts, unless its publication left both a row    *)
(* and a copy (community_service.py:110-155, 270-277).                     *)
(***************************************************************************)
WithdrawnStays ==
    \A l \in Listings \ shared : stands[l] = "withdrawn" =>
        \A box \in SUBSET Listings : \A near \in SUBSET box, w \in Hosts :
            \A list \in active(w, box, near) : l \notin list
=============================================================================
