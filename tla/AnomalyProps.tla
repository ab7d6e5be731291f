---------------------------- MODULE AnomalyProps ----------------------------
(***************************************************************************)
(* What the anomaly detector promises: properties of Anomaly, and its      *)
(* instance for TLC, which is that of SessionsProps as well.               *)
(***************************************************************************)
EXTENDS Anomaly, SessionsProps

Abroad == (d1 :> 1) @@ (d2 :> 2)
Situations ==
    SessionSituations \cup
    {Doing({"watch"}, {}, {d1}, 3),
     Doing({"watch"}, {}, {d1, d2}, 2),
     Doing({"watch", "search"}, {}, {d1}, 2),
     Doing({"watch", "search"}, {"db", "bus", "crash"}, {d1}, 2)}

-----------------------------------------------------------------------------
(* "N+ login.success events for the same user within window W": no burst   *)
(* of checked sign-ins goes unnoticed, wherever its windows begin, however *)
(* their goroutines interleave and whatever restarts.                      *)
Burst(k) == {n \in 1..k : /\ signed[counted[n].of].user = signed[counted[k].of].user
                          /\ counted[n].at > counted[k].at - VelWindow}
BurstsAreFound ==
    \A k \in DOMAIN counted :
       Cardinality(Burst(k)) > VelThresh => <<counted[k].of, "anomaly.velocity">> \in found

(* "different geo regions within Z seconds": where everything about a      *)
(* sign-in was done before the next began, the next one is found when it   *)
(* is from another region and comes in time, whatever rows the checks of   *)
(* both have added and whatever is signed in later.                        *)
Suspicious(i, j) ==
    /\ signed[i].user = signed[j].user /\ ~SameRegion(signed[i].dev, signed[j].dev)
WrittenInTime(i) == \E n \in DOMAIN journal :
    journal[n].of = i /\ journal[n].action = login /\ now - journal[n].at <= GeoWindow
CameAlone(i) == i \in DOMAIN signed => signed[i].quiet
TravelIsFound ==
    here.faults = {} => \A i \in DOMAIN signed :
       (/\ i + 1 \in DOMAIN signed /\ checking[i + 1] = "done"
        /\ CameAlone(i) /\ CameAlone(i + 1) /\ CameAlone(i + 2)
        /\ Suspicious(i, i + 1) /\ WrittenInTime(i))
          => <<i + 1, "anomaly.geo">> \in found
AnomaliesAreFound == BurstsAreFound /\ TravelIsFound

-----------------------------------------------------------------------------
(* Refuted: see the README *)

(* The same, of two sign-ins that overlap. *)
EveryTravelIsFound ==
    here.faults = {} /\ writing = {} => \A i, j \in DOMAIN signed :
       (/\ i # j /\ checking[i] = "done" /\ checking[j] = "done" /\ Suspicious(i, j)
        /\ WrittenInTime(i) /\ WrittenInTime(j))
          => \E k \in {i, j} : <<k, "anomaly.geo">> \in found

(* A velocity alert means more than VelThresh sign-ins in one window. *)
OnlyBurstsAreFound ==
    \A k \in DOMAIN counted :
       <<counted[k].of, "anomaly.velocity">> \in found =>
          Cardinality({n \in 1..k : counted[n].at > counted[k].at - VelWindow}) > VelThresh

(* "N+ distinct IPs": the sign-in under check counts. *)
AddressesAreCounted ==
    here.faults = {} => \A i \in DOMAIN signed :
       checking[i] = "done" /\ Cardinality({signed[j].dev : j \in 1..i}) >= Spread
          => <<i, "anomaly.cross_ip">> \in found
=============================================================================
