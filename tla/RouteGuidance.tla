---------------------------- MODULE RouteGuidance ----------------------------
(***************************************************************************)
(* The choice among the three surveyed approaches to the temple            *)
(* (route_service.py).  The zones' statuses are read one after the other   *)
(* while they go on changing.  Statuses are ranks: LOW, MODERATE, HIGH,    *)
(* VERY_HIGH; of the ground only the length of each approach from where    *)
(* the pilgrim stands is kept, the hop onto it counted twice.              *)
(***************************************************************************)
EXTENDS Integers, Sequences, SequencesExt, FiniteSets

CONSTANTS
    Ranks,          \* the statuses that occur
    Lengths,        \* lengths of an approach, in metres
    MaxShifts       \* changes of a status during the look-up

ASSUME RouteAssumption ==
    Ranks \subseteq 0..3 /\ Lengths \subseteq Nat /\ MaxShifts \in Nat

VARIABLES
    status,         \* the status of each zone now
    lengths,        \* the length of each approach for this pilgrim
    statuses,       \* those read so far, in the order of the registry
    chosen,         \* the approach taken, or "none"
    avoid_areas,    \* the zones the answer warns of
    polyline,       \* whose line is drawn and measured
    shifts,
    ranks           \* history: the statuses each zone had since the look-up began

routeVars == <<status, lengths, statuses, chosen, avoid_areas, polyline, shifts, ranks>>

(* The monitored zones an approach leads through, in registry order.       *)
Passed == <<"gate_1", "gate_2", "gate_3", "bhima_ghat", "main_road">>
RouteZones == ToSet(Passed)
ROUTES == <<[id |-> "east_gate_1", zones |-> {"main_road", "gate_1"}],
            [id |-> "north_gate_2", zones |-> {"bhima_ghat", "gate_2"}],
            [id |-> "south_gate_3", zones |-> {"gate_3"}]>>
Approaches == DOMAIN ROUTES

_BUSY == {2, 3}
(* In tenths.                                                              *)
CONGESTION_FACTOR == <<10, 13, 18, 26>>

RouteType ==
    /\ status \in [RouteZones -> Ranks] /\ ranks \in [RouteZones -> SUBSET Ranks]
    /\ lengths \in [Approaches -> Lengths]
    /\ statuses \in Seq(Ranks) /\ Len(statuses) <= Len(Passed)
    /\ chosen \in Approaches \cup {0} /\ avoid_areas \in SUBSET RouteZones
    /\ polyline \in {"none", "ours", "theirs"}
    /\ shifts \in 0..MaxShifts

RouteInit ==
    /\ status \in [RouteZones -> Ranks] /\ ranks = [z \in RouteZones |-> {status[z]}]
    /\ lengths \in [Approaches -> Lengths]
    /\ statuses = <<>> /\ chosen = 0 /\ avoid_areas = {} /\ polyline = "none"
    /\ shifts = 0

(* _zone_statuses: read_zone of one zone after the other.                  *)
_zone_statuses ==
    /\ Len(statuses) < Len(Passed)
    /\ statuses' = Append(statuses, status[Passed[Len(statuses) + 1]])
    /\ UNCHANGED <<status, lengths, chosen, avoid_areas, polyline, shifts, ranks>>

Read(z) == statuses[CHOOSE i \in DOMAIN Passed : Passed[i] = z]

busy_count(a) == Cardinality({z \in ROUTES[a].zones : Read(z) \in _BUSY})
worst(a) == CHOOSE r \in {Read(z) : z \in ROUTES[a].zones} :
               \A z \in ROUTES[a].zones : Read(z) <= r
score(a) == <<busy_count(a), CONGESTION_FACTOR[worst(a) + 1] * 50 + lengths[a]>>

(* Mutant of Below: by the score alone.                                    *)
Shorter(s, t) == s[2] < t[2]

Below(s, t) == s[1] < t[1] \/ (s[1] = t[1] /\ s[2] < t[2])

(* The lowest score, the first of equals.                                  *)
_choose ==
    CHOOSE a \in Approaches :
        /\ \A b \in Approaches : ~Below(score(b), score(a))
        /\ \A b \in 1..(a - 1) : Below(score(a), score(b))

_avoid_areas == {z \in RouteZones : Read(z) \in _BUSY}

guidance ==
    /\ Len(statuses) = Len(Passed) /\ chosen = 0
    /\ chosen' = _choose
    /\ avoid_areas' = _avoid_areas
    /\ UNCHANGED <<status, lengths, statuses, polyline, shifts, ranks>>

(* The walking route Mapbox gives, if any, is what the answer draws and    *)
(* measures, under the name and the warnings of the approach chosen; it is *)
(* asked for between the two ends and knows nothing of the crowd.          *)
_fetch_mapbox_route ==
    /\ chosen # 0 /\ polyline = "none"
    /\ polyline' \in {"ours", "theirs"}
    /\ UNCHANGED <<status, lengths, statuses, chosen, avoid_areas, shifts, ranks>>

(* A zone gets another reading.                                            *)
Shift ==
    /\ chosen = 0 /\ shifts < MaxShifts /\ shifts' = shifts + 1
    /\ \E z \in RouteZones, r \in Ranks :
         /\ status' = [status EXCEPT ![z] = r] /\ status' # status
         /\ ranks' = [ranks EXCEPT ![z] = @ \cup {r}]
    /\ UNCHANGED <<lengths, statuses, chosen, avoid_areas, polyline>>

RouteNext == _zone_statuses \/ guidance \/ _fetch_mapbox_route \/ Shift

(***************************************************************************)
(* A line of the service's own leads through no zone that is congested all *)
(* the while if one approach stays clear, however long the clear one is    *)
(* and whatever changes elsewhere ("a clear route slightly longer beats a  *)
(* short one through a crush", route_service.py:299-300).  Where the line  *)
(* is Mapbox's nothing keeps it off such a zone; but either way the answer *)
(* warns of every zone congested all the while (route_service.py:138-193). *)
(***************************************************************************)
Congested(z) == ranks[z] \subseteq _BUSY
Clear(a) == \A z \in ROUTES[a].zones : ranks[z] \cap _BUSY = {}

ClearRouteDrawn ==
    /\ polyline = "ours" /\ (\E a \in Approaches : Clear(a))
         => ~\E z \in ROUTES[chosen].zones : Congested(z)
    /\ polyline # "none" => \A z \in RouteZones : Congested(z) => z \in avoid_areas
=============================================================================
