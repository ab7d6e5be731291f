------------------------------ MODULE Delivery ------------------------------
(***************************************************************************)
(* What shared/eventbus gives its users, whichever adapter is configured:  *)
(* "each group gets every event", and "each event processed once per group"*)
(* with Redis streams, without gaps with Kafka.  An event is known by its  *)
(* place in the topic.                                                     *)
(***************************************************************************)
EXTENDS Naturals

CONSTANT Group

VARIABLES mode,    \* "once", "gapless"
          sent,    \* events published
          given,   \* [Group -> events its handlers were called with]
          calls    \* [Group -> how often they were called]

Init ==
    /\ mode \in {"once", "gapless"} /\ sent = 0
    /\ given = [g \in Group |-> {}] /\ calls = [g \in Group |-> 0]

Publish ==
    /\ sent' \in Nat /\ sent' > sent
    /\ UNCHANGED <<mode, given, calls>>

(* Once: an event is never given to a group again, wherever a loop stops.  *)
(* Gapless: it may be, but none is given before all that precede it.       *)
Give(g, k) ==
    /\ k \in 1..sent
    /\ mode = "once" => k \notin given[g]
    /\ mode = "gapless" => 1..(k - 1) \subseteq given[g]
    /\ given' = [given EXCEPT ![g] = @ \cup {k}]
    /\ calls' = [calls EXCEPT ![g] = @ + 1]
    /\ UNCHANGED <<mode, sent>>
Call(g) == \E k \in 1..sent : Give(g, k)

Next == Publish \/ \E g \in Group : Call(g)
Spec == Init /\ [][Next]_<<mode, sent, given, calls>>
=============================================================================
