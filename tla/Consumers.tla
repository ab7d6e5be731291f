----------------------------- MODULE Consumers -----------------------------
(***************************************************************************)
(* Two services behind the event bus: es-indexer, which keeps a document   *)
(* per order in Elasticsearch, and notification-service, which stores a row*)
(* for each event.  The module composes EventBus with what their handlers  *)
(* do, states what the bus and the services promise, and is their instance *)
(* for TLC.                                                                *)
(***************************************************************************)
EXTENDS EventBus, TLC

CONSTANTS es, nt, e1, e2, n1, ord1, ord2

ASSUME ServiceAssumption == es \in Group /\ nt \in Group /\ es # nt

VARIABLES
    indexed,   \* [Event -> place in the topic of what its document shows, 0: none]
    documents, \* places in the topic that have a document of their own
    rows       \* [place in the topic -> rows of notifications it made]
effects == <<indexed, documents, rows>>

(* An event is the order it is about: later events of an order carry its   *)
(* later states.                                                           *)
Service == (e1 :> es) @@ (e2 :> es) @@ (n1 :> nt)
MayFail == "handler" \in here.faults

(* mutant: the document is created, never overwritten *)
HandleOrderOnce(w) ==
    /\ GroupOf[w] = es /\ here.topic = "orders"
    /\ \/ /\ Call(w, TRUE)
          /\ indexed' = [indexed EXCEPT ![log[loop[w].at]] = IF @ = 0 THEN loop[w].at ELSE @]
       \/ MayFail /\ Call(w, FALSE) /\ UNCHANGED indexed
    /\ UNCHANGED <<documents, rows>>

(* HandleOrder: the document order-<id> is overwritten; an error of        *)
(* Elasticsearch is returned.                                              *)
HandleOrder(w) ==
    /\ GroupOf[w] = es /\ here.topic = "orders"
    /\ \/ /\ Call(w, TRUE)
          /\ indexed' = [indexed EXCEPT ![log[loop[w].at]] = loop[w].at]
       \/ MayFail /\ Call(w, FALSE) /\ UNCHANGED indexed
    /\ UNCHANGED <<documents, rows>>

(* HandleTrade, HandleBalance, HandleAudit, HandleNotification: a document *)
(* under the id of the event, the same when it is handled again.           *)
HandleEvent(w) ==
    /\ GroupOf[w] = es /\ here.topic = "others"
    /\ \/ Call(w, TRUE) /\ documents' = documents \cup {loop[w].at}
       \/ MayFail /\ Call(w, FALSE) /\ UNCHANGED documents
    /\ UNCHANGED <<indexed, rows>>

(* PersistAndBroadcast: no error is returned, whether the row was stored   *)
(* or not.                                                                 *)
PersistAndBroadcast(w) ==
    /\ GroupOf[w] = nt /\ Call(w, TRUE)
    /\ \/ rows' = [rows EXCEPT ![loop[w].at] = @ + 1]
       \/ MayFail /\ UNCHANGED rows
    /\ UNCHANGED <<indexed, documents>>

InitAll == /\ Init
           /\ indexed = [e \in Event |-> 0]
           /\ documents = {}
           /\ rows = [k \in 1..(MaxEvents + 1) |-> 0]
Handle(w) == HandleOrder(w) \/ HandleEvent(w) \/ PersistAndBroadcast(w)
Work(w) == \/ Handle(w)
           \/ (Receive(w) \/ Confirm(w)) /\ UNCHANGED effects
NextAll ==
    \/ \E e \in Event : Publish(e) /\ UNCHANGED effects
    \/ \E w \in Worker : Work(w)
    \/ \E w \in Worker : Stop(w) /\ UNCHANGED effects

SpecAll == InitAll /\ [][NextAll]_<<vars, effects>>

(* A loop goes on as long as its service runs, and a service that stops is *)
(* started again.                                                          *)
FairSpec == SpecAll /\ \A w \in Worker : WF_<<vars, effects>>(Work(w))

-----------------------------------------------------------------------------
Using(bus, events, workers, faults, keeps) ==
    [bus |-> bus, topic |-> events, workers |-> workers, faults |-> faults, keeps |-> keeps]
Situations ==
    {Using("redis", "orders", {e1, n1}, {}, MaxEvents),
     Using("redis", "orders", {e1, e2}, {}, MaxEvents),
     Using("redis", "others", {e1, e2}, {}, MaxEvents),
     Using("redis", "orders", {e1, e2}, {"stop", "reply", "handler"}, 2),
     Using("kafka", "orders", {e1}, {"stop", "answer"}, MaxEvents),
     Using("kafka", "orders", {e1}, {"stop", "handler"}, MaxEvents),
     Using("kafka", "others", {e1}, {"stop", "handler"}, MaxEvents),
     Using("kafka", "others", {n1}, {"stop"}, MaxEvents)}

Served(g) == \E w \in here.workers : GroupOf[w] = g
Reliable == here.bus = "kafka" \/ (here.faults = {} /\ here.keeps >= MaxEvents)

(* "Each group gets every event": over Kafka even when services stop or    *)
(* handlers fail, over Redis as long as nothing does, and is trimmed.      *)
EveryGroupServed ==
    \A k \in 1..MaxEvents :
        (k <= Len(log) /\ Reliable) ~> (\A g \in Group : Served(g) => k \in given[g])

CaughtUp(g) == \A w \in here.workers :
    GroupOf[w] = g => At(w, "read") /\ (IF here.bus = "redis" THEN cursor[g] ELSE loop[w].at) = Len(log)
LastOf(e) == IF \E k \in 1..Len(log) : log[k] = e
             THEN CHOOSE k \in 1..Len(log) : log[k] = e /\ \A j \in (k + 1)..Len(log) : log[j] # e
             ELSE 0

OneLoop(g) == Cardinality({w \in here.workers : GroupOf[w] = g}) = 1

(* When the indexer, with its one loop, has caught up, the document of an  *)
(* order shows its last state, although a restart hands it old ones again; *)
(* every other event has its own document, with several loops as well.     *)
(* When notification-service has caught up, no event is without its row;   *)
(* over Redis none ever has two.                                           *)
IndexIsLatest ==
    here.topic = "orders" /\ OneLoop(es) => \A e \in Event : indexed[e] = LastOf(e)
EffectsAreWhole ==
    /\ Reliable /\ ~MayFail =>
          /\ Served(es) /\ CaughtUp(es) => /\ IndexIsLatest
                                           /\ here.topic = "others" => documents = 1..Len(log)
          /\ Served(nt) /\ CaughtUp(nt) => \A k \in 1..Len(log) : rows[k] >= 1
    /\ here.bus = "redis" => \A k \in 1..Len(log) : rows[k] <= 1

-----------------------------------------------------------------------------
(* Refuted: see the README *)

(* An error of a handler leaves an event unacknowledged so that it is      *)
(* handled again.                                                          *)
FailedIsRetried ==
    \A k \in 1..MaxEvents : (k \in pending[es]) ~> (k \notin pending[es])

(* "Multiple instances with the same group = load balanced": the document  *)
(* shows the last state with two loops as well.                            *)
BalancedIsLatest ==
    here.faults = {} /\ here.topic = "orders" /\ Served(es) /\ CaughtUp(es) =>
        \A e \in Event : indexed[e] = LastOf(e)

(* Each event makes one notification. *)
OneRowPerEvent == \A k \in 1..Len(log) : rows[k] <= 1
=============================================================================
