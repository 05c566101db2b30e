---------------------------- MODULE MCServices ----------------------------
(* Instances of Services: two places of the pilgrimage and two facilities  *)
(* outside the bundled list, one of them a namesake of the nearest one.    *)
EXTENDS Services

MCSpots == {<<290, 781>>, <<268, 800>>}
MCPois ==
    {[name |-> 1, kind |-> "medical", lon |-> 292, lat |-> 783, opens |-> 0, closes |-> 24],
     [name |-> 99, kind |-> "food", lon |-> 289, lat |-> 781, opens |-> 0, closes |-> 24]}
MCOffers == {[name |-> 50, kind |-> "medical", lon |-> 291, lat |-> 781, locked |-> TRUE]}

Hits(hit) == [i \in Intents |-> IF i \in DOMAIN hit THEN hit[i] ELSE 0]
MCMessages ==
    {Hits([sos |-> 1, crowd |-> 2]), Hits([forecast |-> 1, crowd |-> 2]),
     Hits([facility |-> 1, route |-> 1]), Hits([route |-> 2, temple |-> 1]),
     Hits([lost_found |-> 1]), Hits([escalate |-> 1]), Hits([palkhi |-> 1]),
     Hits([greeting |-> 0])}
=============================================================================
