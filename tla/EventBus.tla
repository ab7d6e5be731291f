------------------------------ MODULE EventBus ------------------------------
(***************************************************************************)
(* shared/eventbus: one topic, its publishers, and the consumer loops that *)
(* the services start on it, over a Redis stream (eventbus.go) or over a   *)
(* Kafka topic of one partition (kafka-adapter.go).                        *)
(***************************************************************************)
EXTENDS Integers, Sequences, FiniteSets

CONSTANTS
    Event,      \* payloads
    Group,      \* consumer groups
    Worker,     \* consumer loops
    GroupOf,    \* [Worker -> Group]
    Situation,  \* [bus, topic, workers, faults, keeps]: the adapter, the loops, what may
                \* fail, the entries a Redis stream keeps (MaxLen, roughly)
    Count,      \* entries one XREADGROUP may return
    MaxEvents,  \* bound: entries of the topic
    MaxStops    \* bound: stops of a service, replies and acknowledgements lost

ASSUME BusAssumption ==
    /\ GroupOf \in [Worker -> Group]
    /\ Count \in Nat \ {0} /\ MaxEvents \in Nat /\ IsFiniteSet(Worker)
    /\ \A s \in Situation :
          s.bus \in {"redis", "kafka"} /\ s.workers \subseteq Worker /\ s.keeps \in Nat \ {0}

VARIABLES
    log,      \* entries of the topic, in order
    gone,     \* Redis: entries 1..gone were trimmed
    cursor,   \* [Group -> last entry handed out (Redis), committed offset (Kafka)]
    pending,  \* Redis: [Group -> entries handed out, not acknowledged]
    loop,     \* [Worker -> [pc, at, last, mark]]: the entry the loop is at, the last
              \* of its batch, the offset it will commit
    given,    \* history: [Group -> entries its handlers were called with]
    calls,    \* history: [Group -> how often they were called]
    here,     \* the member of Situation this behaviour is in
    stops     \* counter for MaxStops

topic == <<log, gone>>
broker == <<cursor, pending>>
past == <<given, calls>>
vars == <<topic, broker, loop, past, here, stops>>

May(f) == f \in here.faults /\ stops < MaxStops
Happened == stops' = stops + 1
At(w, label) == loop[w].pc = label
Larger(m, n) == IF m >= n THEN m ELSE n
Smaller(m, n) == IF m <= n THEN m ELSE n

(* Publish: XADD, which may trim old entries, or a synchronous write to    *)
(* Kafka, which its client repeats when the answer is lost.                *)
XAdd(e) ==
    /\ here.bus = "redis" /\ log' = Append(log, e)
    /\ gone' \in {gone, Larger(gone, Len(log) + 1 - here.keeps)}
    /\ UNCHANGED stops
WriteMessages(e) ==
    /\ here.bus = "kafka" /\ UNCHANGED gone
    /\ \/ log' = Append(log, e) /\ UNCHANGED stops
       \/ May("answer") /\ log' = log \o <<e, e>> /\ Happened
Publish(e) ==
    /\ Len(log) < MaxEvents
    /\ XAdd(e) \/ WriteMessages(e)
    /\ UNCHANGED <<broker, loop, past, here>>

-----------------------------------------------------------------------------
(* The loop of StartConsumer *)

(* mutant: the loop asks for its pending entries too *)
ReadAgain(w) ==
    /\ here.bus = "redis" /\ w \in here.workers /\ At(w, "read")
    /\ LET g == GroupOf[w]
           left == pending[g] \cup (cursor[g] + 1)..Len(log)
       IN \E k \in left :
          /\ \A j \in left : k <= j
          /\ cursor' = [cursor EXCEPT ![g] = Larger(@, k)]
          /\ pending' = [pending EXCEPT ![g] = @ \cup {k}]
          /\ loop' = [loop EXCEPT ![w].pc = "call", ![w].at = k, ![w].last = k]
    /\ UNCHANGED <<topic, past, here, stops>>

(* XREADGROUP ">": the entries after the cursor that are left, as many as  *)
(* Count; they are pending from then on.  The reply may be lost.           *)
ReadGroup(w) ==
    /\ here.bus = "redis" /\ w \in here.workers /\ At(w, "read")
    /\ LET g == GroupOf[w]
           from == Larger(cursor[g], gone) + 1
           to == Smaller(from + Count - 1, Len(log))
       IN /\ from <= to
          /\ cursor' = [cursor EXCEPT ![g] = to]
          /\ pending' = [pending EXCEPT ![g] = @ \cup (from..to)]
          /\ \/ /\ loop' = [loop EXCEPT ![w].pc = "call", ![w].at = from, ![w].last = to]
                /\ UNCHANGED stops
             \/ May("reply") /\ Happened /\ UNCHANGED loop
    /\ UNCHANGED <<topic, past, here>>

(* FetchMessage: the next offset after the last that was fetched. *)
FetchMessage(w) ==
    /\ here.bus = "kafka" /\ w \in here.workers /\ At(w, "read") /\ loop[w].at < Len(log)
    /\ loop' = [loop EXCEPT ![w].at = @ + 1, ![w].pc = "call"]
    /\ UNCHANGED <<topic, broker, past, here, stops>>

(* After an entry: the rest of the batch, or the next read. *)
Onward(w) ==
    IF here.bus = "redis" /\ loop[w].at < loop[w].last
    THEN loop' = [loop EXCEPT ![w].pc = "call", ![w].at = @ + 1]
    ELSE loop' = [loop EXCEPT ![w].pc = "read"]

(* All handlers of the topic are called; ok if none returned an error. *)
Call(w, ok) ==
    /\ At(w, "call")
    /\ LET g == GroupOf[w] IN
       /\ given' = [given EXCEPT ![g] = @ \cup {loop[w].at}]
       /\ calls' = [calls EXCEPT ![g] = @ + 1]
    /\ IF ok THEN loop' = [loop EXCEPT ![w].pc = "ack"] ELSE Onward(w)
    /\ UNCHANGED <<topic, broker, here, stops>>

(* XACK, whose error is ignored. *)
Ack(w) ==
    /\ here.bus = "redis" /\ At(w, "ack") /\ Onward(w)
    /\ \/ /\ pending' = [pending EXCEPT ![GroupOf[w]] = @ \ {loop[w].at}]
          /\ UNCHANGED stops
       \/ May("reply") /\ Happened /\ UNCHANGED pending
    /\ UNCHANGED <<topic, cursor, past, here>>

(* CommitMessages: remembered here, sent every CommitInterval. *)
CommitMessages(w) ==
    /\ here.bus = "kafka" /\ At(w, "ack")
    /\ loop' = [loop EXCEPT ![w].pc = "read", ![w].mark = loop[w].at]
    /\ UNCHANGED <<topic, broker, past, here, stops>>
CommitTick(w) ==
    /\ here.bus = "kafka" /\ cursor[GroupOf[w]] < loop[w].mark
    /\ cursor' = [cursor EXCEPT ![GroupOf[w]] = loop[w].mark]
    /\ UNCHANGED <<topic, pending, loop, past, here, stops>>

-----------------------------------------------------------------------------
(* The service stops and starts again: a Redis loop reads what is new, a   *)
(* Kafka reader resumes after the committed offset.                        *)
RestartedAtEnd(g) ==   \* mutant: a reader starts at the end of the topic
    [pc |-> "read", at |-> Len(log), last |-> cursor[g], mark |-> cursor[g]]
Restarted(g) == [pc |-> "read", at |-> cursor[g], last |-> cursor[g], mark |-> cursor[g]]
Stop(w) ==
    /\ w \in here.workers /\ May("stop") /\ Happened
    /\ loop' = [loop EXCEPT ![w] = Restarted(GroupOf[w])]
    /\ UNCHANGED <<topic, broker, past, here>>

(* Groups are created at the start of the topic. *)
Init ==
    /\ here \in Situation
    /\ log = <<>> /\ gone = 0
    /\ cursor = [g \in Group |-> 0] /\ pending = [g \in Group |-> {}]
    /\ loop = [w \in Worker |-> [pc |-> "read", at |-> 0, last |-> 0, mark |-> 0]]
    /\ given = [g \in Group |-> {}] /\ calls = [g \in Group |-> 0] /\ stops = 0

Receive(w) == ReadGroup(w) \/ FetchMessage(w)
Confirm(w) == Ack(w) \/ CommitMessages(w) \/ CommitTick(w)
Next ==
    \/ \E e \in Event : Publish(e)
    \/ \E w \in Worker :
          \/ Receive(w) \/ Confirm(w) \/ Stop(w)
          \/ Call(w, TRUE)
          \/ "handler" \in here.faults /\ Call(w, FALSE)
Spec == Init /\ [][Next]_vars

(* The abstract bus. *)
Mode == IF here.bus = "redis" THEN "once" ELSE "gapless"
Bus == INSTANCE Delivery WITH mode <- Mode, sent <- Len(log)

(* What eventbus.go says of groups, as the abstract bus: with Redis no     *)
(* event is given to a group twice, however its loops overlap or stop;     *)
(* with Kafka none is given before one that precedes it.                   *)
Promise == Bus!Spec

(* The entries a Redis loop has still to call its handlers with. *)
Todo(w) == CASE At(w, "call") -> loop[w].at..loop[w].last
             [] At(w, "ack")  -> (loop[w].at + 1)..loop[w].last
             [] OTHER         -> {}
=============================================================================
