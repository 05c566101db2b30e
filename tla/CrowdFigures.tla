---------------------------- MODULE CrowdFigures ----------------------------
(***************************************************************************)
(* The figures of a crowd answer (crowd_service.py): the hourly curve, the *)
(* forecast that starts at the reading and joins the curve, the sentence   *)
(* recommended from it, and the quieter zones offered next to a busy one.  *)
(* Densities are whole percents.  round is Python's, on floats: of an      *)
(* exact half either neighbour may come out.                               *)
(***************************************************************************)
EXTENDS Integers, Sequences, FiniteSets

CONSTANTS
    Zones,          \* zones asked about
    Minutes,        \* minutes past the hour at which they are asked about
    Currents,       \* densities read
    Hours           \* points of a forecast

VARIABLES
    zone, hour, minute, current,    \* the question and the reading
    points,         \* the forecast so far
    sentence,       \* the recommendation
    wait,           \* the minutes of wait told
    around, offered \* the readings of the neighbours, and those offered

figureVars == <<zone, hour, minute, current, points, sentence, wait, around, offered>>

(* ZONES: the neighbours, the capacity and the people cleared per minute;  *)
(* how busy it runs relative to the curve, in percent.                     *)
Gate(busy, others) == [capacity |-> 8000, rate |-> 220, intensity |-> busy, near |-> others]
ZONES ==
  [gate_1 |-> Gate(95, {"gate_2", "gate_3"}),
   gate_2 |-> Gate(105, {"gate_1", "gate_3"}),
   gate_3 |-> Gate(85, {"gate_1", "gate_2"}),
   temple_main |-> [capacity |-> 12000, rate |-> 180, intensity |-> 112, near |-> {"gate_2", "gate_3"}],
   bhima_ghat |-> [capacity |-> 40000, rate |-> 600, intensity |-> 90, near |-> {"main_road"}],
   main_road |-> [capacity |-> 30000, rate |-> 800, intensity |-> 75, near |-> {"bhima_ghat"}],
   mukhdarshan_queue |-> [capacity |-> 15000, rate |-> 220, intensity |-> 80,
                          near |-> {"gate_1", "darshan_mandap_token"}],
   darshan_mandap_token |-> [capacity |-> 20000, rate |-> 220, intensity |-> 92,
                             near |-> {"mukhdarshan_queue", "gate_2"}],
   padsparsha_queue |-> [capacity |-> 35000, rate |-> 220, intensity |-> 118,
                         near |-> {"mukhdarshan_queue"}],
   chandrabhaga_riverbank |-> [capacity |-> 50000, rate |-> 600, intensity |-> 95,
                               near |-> {"bhima_ghat"}]]

ASSUME FiguresAssumption ==
    /\ Zones \subseteq DOMAIN ZONES
    /\ Minutes \subseteq 0..59 /\ Currents \subseteq 0..100 /\ Hours \in 1..24

HOURLY_CURVE == <<12, 9, 8, 14, 26, 38, 46, 52, 58, 68, 80, 88,
                  90, 86, 76, 64, 58, 60, 68, 71, 62, 47, 31, 19>>

(* The ghat's peak comes hours before the temple's.                        *)
_ZONE_HOUR_SHIFT(z) == IF z = "bhima_ghat" THEN 4 ELSE 0

round(n, d) == {k \in (n \div d)..(n \div d + 1) : 2 * (n - k * d) \in -d..d}
Clamped(k) == IF k < 0 THEN 0 ELSE IF k > 100 THEN 100 ELSE k

curve_density(z, h, m) ==
    LET at(i) == HOURLY_CURVE[((i + _ZONE_HOUR_SHIFT(z)) % 24) + 1]
        base == at(h) * (60 - m) + at(h + 1) * m
    IN  {Clamped(k) : k \in round(base * ZONES[z].intensity, 6000)}

(* density_to_status, as its rank: LOW, MODERATE, HIGH, VERY_HIGH.  The    *)
(* congestion factors grow with it.                                        *)
density_to_status(density) == Cardinality({c \in {30, 61, 86} : c <= density})

(* build_reading: the headcount and the wait it makes.                     *)
people_estimate(z, density) == round(ZONES[z].capacity * density, 100)
_wait_minutes(z, people) ==
    {IF k < 1 THEN 1 ELSE k : k \in round(people, ZONES[z].rate)}

(* alternates: of a busy zone, the neighbours that are less so.            *)
alternates(z, density, others) ==
    IF density_to_status(density) <= 1 THEN {}
    ELSE {a \in ZONES[z].near : density_to_status(others[a]) < density_to_status(density)}

----------------------------------------------------------------------------
NoSentence == [says |-> "none", at |-> 0]
NoneRead == [a \in {} |-> 0]

FiguresInit ==
    /\ zone \in Zones /\ hour \in 0..23 /\ minute \in Minutes /\ current \in Currents
    /\ points = <<>> /\ sentence = NoSentence
    /\ wait = 0 /\ around = NoneRead /\ offered = {}

(* Mutant of forecast: the weights are an hour ahead.                      *)
ForecastAhead ==
    LET offset == Len(points)
        weight == IF offset < 2 THEN offset + 1 ELSE 3
    IN  /\ offset < Hours
        /\ \E modelled \in curve_density(zone, (hour + offset) % 24, minute) :
             \E value \in round(current * (3 - weight) + modelled * weight, 3) :
                points' = Append(points, Clamped(value))
        /\ UNCHANGED <<zone, hour, minute, current, sentence, wait, around, offered>>

(* One point of the forecast: away from the reading within three hours.    *)
forecast ==
    LET offset == Len(points)
        weight == IF offset < 3 THEN offset ELSE 3
    IN  /\ offset < Hours
        /\ \E modelled \in curve_density(zone, (hour + offset) % 24, minute) :
             \E value \in round(current * (3 - weight) + modelled * weight, 3) :
                points' = Append(points, Clamped(value))
        /\ UNCHANGED <<zone, hour, minute, current, sentence, wait, around, offered>>

busy_threshold == 60
Busy(i) == points[i] >= busy_threshold
First(S) == CHOOSE i \in S : \A j \in S : i <= j

recommendation ==
    LET busy == {i \in DOMAIN points : Busy(i)}
        eased == DOMAIN points \ busy
        quiet == {i \in DOMAIN points : \A j \in DOMAIN points : points[i] <= points[j]}
    IN  /\ Len(points) = Hours /\ sentence = NoSentence
        /\ sentence' = IF busy = {} THEN [says |-> "all_clear", at |-> 0]
                       ELSE IF ~Busy(1) THEN [says |-> "before", at |-> First(busy)]
                       ELSE IF eased # {} THEN [says |-> "after", at |-> First(eased)]
                       ELSE [says |-> "quietest", at |-> First(quiet)]
        /\ UNCHANGED <<zone, hour, minute, current, points, wait, around, offered>>

advice ==
    /\ wait = 0
    /\ \E people \in people_estimate(zone, current) : wait' \in _wait_minutes(zone, people)
    /\ around' \in [ZONES[zone].near -> Currents]
    /\ offered' = alternates(zone, current, around')
    /\ UNCHANGED <<zone, hour, minute, current, points, sentence>>

FiguresNext == forecast \/ recommendation \/ advice

(***************************************************************************)
(* The forecast opens with the density the pilgrim is looking at, is the   *)
(* curve from the fourth hour on, and in between lies between the two: "a  *)
(* forecast never contradicts the density the pilgrim is looking at"       *)
(* (crowd_service.py:218-219).                                             *)
(***************************************************************************)
ForecastJoinsCurve ==
    \A i \in DOMAIN points :
        LET curve == curve_density(zone, (hour + i - 1) % 24, minute)
        IN  /\ i = 1 => points[i] = current
            /\ i > 3 => points[i] \in curve
            /\ \E m \in curve : points[i] \in (m..current) \cup (current..m)
=============================================================================
