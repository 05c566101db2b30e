-------------------------- MODULE NearbyFacilities --------------------------
(***************************************************************************)
(* The search for facilities (facility_service.py, routers/facilities.py): *)
(* the table's rows or, when it gives none, the bundled places, the places *)
(* Mapbox knows under a shared rate limit, and the offers of volunteers,   *)
(* merged, filtered, ordered by distance and cut.  Places are in           *)
(* ten-thousandths of a degree east of 75.3 and north of 17.6; the ground  *)
(* is flat here, which at this size is right to the metre.                 *)
(***************************************************************************)
EXTENDS Handles, FiniteSets

CONSTANTS
    Asker,          \* the process that serves the question
    Spots,          \* <<lon, lat>> the pilgrim may ask from
    Radii,          \* in metres
    Limits,         \* how many places are asked for
    AskedHours,     \* hours of the day
    Pois,           \* places Mapbox may report
    Offers,         \* what volunteers may offer
    max_requests    \* of Mapbox's rate limit

ASSUME FacilitiesAssumption ==
    /\ Asker \in Workers /\ Spots \subseteq Int \X Int
    /\ IsFiniteSet(Pois) /\ IsFiniteSet(Offers)
    /\ Radii \subseteq 1..10000 /\ Limits \subseteq 1..100 /\ AskedHours \subseteq 0..23
    /\ max_requests \in Nat

VARIABLES
    operational,    \* the operational rows of the facilities table
    poiCount, poiExpires, \* wv:mapbox:ratelimit and whether it has a TTL
    inquiry,        \* the question
    helpPc,
    candidates, pois, \* what was read so far
    helpAnswer      \* the places answered

helpVars == <<operational, poiCount, poiExpires, inquiry, helpPc, candidates, pois, helpAnswer>>

Place(name, kind, lat, lon, opens, closes) ==
    [name |-> name, kind |-> kind, lon |-> lon, lat |-> lat, opens |-> opens, closes |-> closes]
AllDay(name, kind, lat, lon) == Place(name, kind, lat, lon, 0, 24)

MedicalPosts == {AllDay(1, "medical", 788, 305), AllDay(2, "medical", 777, 298),
                 Place(3, "medical", 808, 265, 4, 23)}
WaterPoints == {AllDay(4, "water", 772, 320), AllDay(5, "water", 776, 305),
                AllDay(6, "water", 780, 292), AllDay(7, "water", 795, 280),
                Place(8, "water", 805, 268, 4, 23)}
ToiletBlocks == {AllDay(9, "toilet", 768, 315), AllDay(10, "toilet", 784, 299),
                 AllDay(11, "toilet", 790, 288), AllDay(12, "toilet", 800, 272)}
RestShelters == {AllDay(13, "rest", 765, 325), AllDay(14, "rest", 798, 260)}
Langars == {Place(15, "food", 770, 310, 6, 22), Place(16, "food", 786, 282, 10, 21),
            Place(17, "food", 802, 258, 5, 22)}
OfficialPosts == {AllDay(18, "police", 781, 290), AllDay(19, "police", 810, 270),
                  AllDay(20, "lost_found_desk", 779, 286)}
FACILITIES == MedicalPosts \cup WaterPoints \cup ToiletBlocks \cup RestShelters
                \cup Langars \cup OfficialPosts

_ALWAYS_RELEVANT == {"medical", "police"}
SEVA_CATEGORIES == {"food", "accommodation", "water", "medical", "rest"}
facility_categories == {"medical", "food", "water", "toilet", "rest", "accommodation"}
MAPBOX_CATEGORIES == {"medical", "police", "food", "accommodation", "toilet", "water"}

Apart(a, b) == IF a < b THEN b - a ELSE a - b
East(p)  == (106 * Apart(p.lon, inquiry.spot[1])) \div 10
North(p) == (111 * Apart(p.lat, inquiry.spot[2])) \div 10
haversine_m(p) == East(p) * East(p) + North(p) * North(p)       \* its square
InRange(p) == haversine_m(p) <= inquiry.radius * inquiry.radius
(* The square around the radius, by which the tables are searched.         *)
bounding_box(p) == East(p) <= inquiry.radius /\ North(p) <= inquiry.radius

(* Both ends belong to the opening hours, which may cross midnight.        *)
is_open_now(p) ==
    IF p.opens <= p.closes THEN inquiry.hour \in p.opens..p.closes
                           ELSE inquiry.hour >= p.opens \/ inquiry.hour <= p.closes

NoInquiry == [spot |-> <<0, 0>>, kinds |-> {}, radius |-> 0, limit |-> 0, hour |-> 0,
              open_only |-> FALSE]
Kinds == {{"medical"}, {"police"}, {"food", "water"}, facility_categories}

(* GET /nearby, without a category the ones pilgrims search for.           *)
get_nearby == [spot : Spots, kinds : Kinds, radius : Radii, limit : Limits,
               hour : AskedHours, open_only : BOOLEAN]
(* nearest, which the assistant's tool and the responder look-up call.     *)
nearest == [spot : Spots, kinds : {{"medical"}, {"police"}}, radius : {5000}, limit : {1},
            hour : AskedHours, open_only : {FALSE}]

FacilitiesType ==
    /\ operational \in SUBSET FACILITIES
    /\ poiCount \in 0..(max_requests + 1) /\ poiExpires \in BOOLEAN
    /\ inquiry \in get_nearby \cup nearest \cup {NoInquiry}
    /\ helpPc \in {"idle", "read", "limit", "expire", "pois", "answer", "answered", "failed"}
    /\ candidates \in SUBSET FACILITIES /\ pois \in SUBSET Pois

(* The table was never filled, or holds the bundled places but for one     *)
(* that was taken out of service.                                          *)
FacilitiesInit ==
    /\ operational \in {{}, FACILITIES \ {AllDay(1, "medical", 788, 305)}, FACILITIES}
    /\ poiCount = 0 /\ poiExpires = FALSE
    /\ inquiry = NoInquiry /\ helpPc = "idle"
    /\ candidates = {} /\ pois = {} /\ helpAnswer = {}

nearby ==
    /\ helpPc \in {"idle", "answered", "failed"}
    /\ inquiry' \in get_nearby \cup nearest
    /\ helpPc' = "read" /\ candidates' = {} /\ pois' = {} /\ helpAnswer' = {}
    /\ UNCHANGED <<operational, poiCount, poiExpires>>

(* The operational rows in the box; none when the database fails.          *)
_from_db == IF Executes THEN {p \in operational : bounding_box(p) /\ p.kind \in inquiry.kinds}
                        ELSE {}

(* Mutant of _candidates: nothing when the table gives nothing.            *)
TableOnly ==
    /\ helpPc = "read" /\ helpPc' = "limit"
    /\ candidates' = _from_db
    /\ UNCHANGED <<operational, poiCount, poiExpires, inquiry, pois, helpAnswer>>

_candidates ==
    /\ helpPc = "read" /\ helpPc' = "limit"
    /\ candidates' = IF _from_db # {} THEN _from_db
                     ELSE {p \in FACILITIES : p.kind \in inquiry.kinds}
    /\ UNCHANGED <<operational, poiCount, poiExpires, inquiry, pois, helpAnswer>>

(* INCR; without Redis every search passes.  The limit is one for all.     *)
check_mapbox_rate_limit ==
    /\ helpPc = "limit"
    /\ IF Answered(Asker)
       THEN /\ poiCount' = IF poiCount <= max_requests THEN poiCount + 1 ELSE poiCount
            /\ helpPc' = IF poiCount = 0 THEN "expire"
                         ELSE IF poiCount' <= max_requests THEN "pois" ELSE "answer"
       ELSE helpPc' = "pois" /\ UNCHANGED poiCount
    /\ UNCHANGED <<operational, poiExpires, inquiry, candidates, pois, helpAnswer>>

limit_window ==
    /\ helpPc = "expire" /\ helpPc' = "pois"
    /\ poiExpires' = (poiExpires \/ (Answered(Asker) /\ poiCount > 0))
    /\ UNCHANGED <<operational, poiCount, inquiry, candidates, pois, helpAnswer>>

(* Whatever Mapbox has of the kinds asked for, each request of its own and *)
(* an error worth nothing; what it gives is taken to be always open.       *)
_fetch_mapbox_pois ==
    /\ helpPc = "pois" /\ helpPc' = "answer"
    /\ pois' \in SUBSET {p \in Pois : p.kind \in inquiry.kinds \cap MAPBOX_CATEGORIES}
    /\ UNCHANGED <<operational, poiCount, poiExpires, inquiry, candidates, helpAnswer>>

Entry(p, open) == [name |-> p.name, kind |-> p.kind, far |-> haversine_m(p), open |-> open]

(* Of the places of one kind and name the first in the list is kept,       *)
(* Mapbox's before ours.                                                   *)
Namesakes(p, places) == {q \in places : q.kind = p.kind /\ q.name = p.name}
Distinct(kept, places) ==
    /\ \A p \in places : Cardinality(Namesakes(p, kept)) = 1
    /\ \A p \in kept \ pois : Namesakes(p, pois \cap places) = {}

(* _community: offers of the kinds a volunteer can make, those reserved    *)
(* shown as closed.                                                        *)
_community(offered) ==
    {Entry(o, ~o.locked) : o \in {o \in offered : InRange(o)
                                    /\ o.kind \in inquiry.kinds \cap SEVA_CATEGORIES}}

Nearest(chosen, entries) ==
    /\ Cardinality(chosen) = IF Cardinality(entries) < inquiry.limit THEN Cardinality(entries)
                                                                    ELSE inquiry.limit
    /\ \A e \in chosen, o \in entries \ chosen : e.far <= o.far

nearby_answer ==
    /\ helpPc = "answer" /\ helpPc' = "answered"
    /\ LET inside == {p \in pois \cup candidates : InRange(p)}
       IN  \E kept \in SUBSET inside, offered \in IF Executes THEN SUBSET Offers ELSE {{}} :
             LET open(p) == p \in pois \/ is_open_now(p)
                 shown == {p \in kept : ~inquiry.open_only \/ open(p)
                                            \/ p.kind \in _ALWAYS_RELEVANT}
                 entries == {Entry(p, open(p)) : p \in shown} \cup _community(offered)
             IN  /\ Distinct(kept, inside)
                 /\ helpAnswer' \in SUBSET entries /\ Nearest(helpAnswer', entries)
    /\ UNCHANGED <<operational, poiCount, poiExpires, inquiry, candidates, pois>>

(* The database's connection breaks in the middle of the request, whose    *)
(* closing commit then fails; or the process dies.                         *)
SearchFails ==
    /\ helpPc \in {"limit", "expire", "pois", "answer"} /\ helpPc' = "failed"
    /\ UNCHANGED <<operational, poiCount, poiExpires, inquiry, candidates, pois, helpAnswer>>

(* The minute is over.                                                     *)
PoiWindowPasses ==
    /\ poiExpires /\ helpPc \in {"idle", "answered", "failed"}
    /\ poiCount' = 0 /\ poiExpires' = FALSE
    /\ UNCHANGED <<operational, inquiry, helpPc, candidates, pois, helpAnswer>>

FacilitiesNext ==
    /\ \/ nearby \/ _candidates \/ check_mapbox_rate_limit \/ limit_window
       \/ _fetch_mapbox_pois \/ nearby_answer \/ SearchFails \/ PoiWindowPasses
    /\ UNCHANGED handleVars

(***************************************************************************)
(* Every medical post and police post in range that is in service is in    *)
(* the answer, open or not, whether the table was filled, the database     *)
(* answers, or Mapbox and the volunteers add theirs; only as many nearer   *)
(* places as were asked for displace it, or a place Mapbox lists by its    *)
(* name ("so safety lookups still answer", facility_service.py:398-399).   *)
(***************************************************************************)
HelpAnswered ==
    helpPc = "answered" =>
      \A p \in IF operational = {} THEN FACILITIES ELSE operational :
        p.kind \in inquiry.kinds \cap _ALWAYS_RELEVANT /\ InRange(p) =>
          \/ \E e \in helpAnswer : e.name = p.name /\ e.kind = p.kind
          \/ Namesakes(p, pois) # {}
          \/ /\ Cardinality(helpAnswer) = inquiry.limit
             /\ \A e \in helpAnswer : e.far <= haversine_m(p)
=============================================================================
