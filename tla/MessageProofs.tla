--------------------------- MODULE MessageProofs ---------------------------
(***************************************************************************)
(* Theorems about what travels.  The event bus between the services        *)
(* implements Delivery, for any number of groups, of loops in a group, of  *)
(* events and of stops, with either adapter, and the indexer and the       *)
(* notification service behind it keep whole what they make of it.  The    *)
(* hub that sends to browsers never sends on a closed channel and keeps the*)
(* order, for any number of clients, messages and failures and any size of *)
(* buffers.  The candles are true for any feeds, prices, trades and        *)
(* failures.  The three share no state; what is of the hub alone has Hub in*)
(* its name, what is of the market's prices comes last.                    *)
(***************************************************************************)
EXTENDS Consumers, HubProps, MarketProps, TotalsProofs, SequenceTheorems, FiniteSetTheorems, TLAPS

-----------------------------------------------------------------------------
(* The event bus                                                           *)

Loop == [pc : {"read", "call", "ack"}, at : Nat, last : Nat, mark : Nat]

Types ==
    /\ here \in Situation /\ log \in Seq(Event) /\ gone \in Nat
    /\ cursor \in [Group -> Nat] /\ loop \in [Worker -> Loop]
    /\ given \in [Group -> SUBSET Nat] /\ calls \in [Group -> Nat]
    /\ \A g \in Group : cursor[g] <= Len(log)

(* Redis: what has been given, and what the loops still hold, lies behind  *)
(* the cursor of the group; no two loops hold the same, and none holds what*)
(* has been given.                                                         *)
Behind == \A g \in Group : given[g] \subseteq 1..cursor[g]
Held == \A w \in Worker : Todo(w) \subseteq 1..cursor[GroupOf[w]]
Fresh == \A w \in Worker : Todo(w) \cap given[GroupOf[w]] = {}
Apart == \A v, w \in Worker : v # w /\ GroupOf[v] = GroupOf[w] => Todo(v) \cap Todo(w) = {}
AtHeld == \A w \in Worker : At(w, "call") => loop[w].at \in Todo(w)
RedisInv == Behind /\ Held /\ Fresh /\ Apart /\ AtHeld

(* Kafka: all that precedes a loop's place has been given, and so has all  *)
(* that is committed or about to be.                                       *)
Passed(w) == IF At(w, "call") THEN 1..(loop[w].at - 1) ELSE 1..loop[w].at
Reached ==
    \A w \in Worker :
        /\ loop[w].at <= Len(log) /\ (At(w, "call") => loop[w].at >= 1)
        /\ loop[w].mark <= loop[w].at
        /\ Passed(w) \subseteq given[GroupOf[w]]
        /\ 1..loop[w].mark \subseteq given[GroupOf[w]]
Covered == \A g \in Group : 1..cursor[g] \subseteq given[g]
KafkaInv == Reached /\ Covered

Inv ==
    /\ Types
    /\ here.bus = "redis" => RedisInv
    /\ here.bus = "kafka" => KafkaInv

(* A loop that is changed in one place keeps the other fields. *)
LEMMA LoopEdit ==
  ASSUME loop \in [Worker -> Loop], NEW w \in Worker, NEW new \in Loop,
         loop' = [loop EXCEPT ![w] = new]
  PROVE  /\ loop' \in [Worker -> Loop]
         /\ \A v \in Worker : loop'[v] = IF v = w THEN new ELSE loop[v]
  OBVIOUS

(* Initially nothing has been read, given or committed. *)
LEMMA InitInv == Init => Inv
<1> SUFFICES ASSUME Init PROVE Inv
  OBVIOUS
<1> USE BusAssumption DEF Init
<1>1. Types
  BY DEF Types, Loop
<1>2. RedisInv
  BY DEF RedisInv, Behind, Held, Fresh, Apart, AtHeld, Todo, At
<1>3. KafkaInv
  BY DEF KafkaInv, Reached, Covered, Passed, At
<1> QED
  BY <1>1, <1>2, <1>3 DEF Inv

(* Publishing moves no cursor and no loop. *)
LEMMA PublishInv == ASSUME Inv, NEW e \in Event, Publish(e) PROVE Inv'
<1> USE DEF Inv, Publish, XAdd, WriteMessages, vars, topic, broker, past
<1>1. log' \in Seq(Event) /\ Len(log) <= Len(log')
  <2>1. CASE log' = Append(log, e)
    BY <2>1 DEF Types
  <2>2. CASE log' = log \o <<e, e>>
    <3>1. <<e, e>> \in Seq(Event) /\ Len(<<e, e>>) = 2
      OBVIOUS
    <3>2. log \in Seq(Event)
      BY DEF Types
    <3>3. log \o <<e, e>> \in Seq(Event) /\ Len(log \o <<e, e>>) = Len(log) + 2
      BY <3>1, <3>2, ConcatProperties
    <3> QED
      BY <2>2, <3>2, <3>3
  <2> QED
    BY <2>1, <2>2
<1>2. gone' \in Nat
  <2>1. here.keeps \in Nat /\ Len(log) \in Nat /\ gone \in Nat
    BY BusAssumption DEF Types
  <2> QED
    BY <2>1 DEF Larger
<1>3. Types'
  BY <1>1, <1>2 DEF Types
<1>4. RedisInv => RedisInv'
  BY DEF RedisInv, Behind, Held, Fresh, Apart, AtHeld, Todo, At
<1>5. KafkaInv => KafkaInv'
  BY <1>1 DEF KafkaInv, Reached, Covered, Passed, At, Types, Loop
<1> QED
  BY <1>3, <1>4, <1>5

(* A read hands out what lies between the cursor and its new value. *)
LEMMA ReadGroupInv == ASSUME Inv, NEW w \in Worker, ReadGroup(w) PROVE Inv'
<1> DEFINE g == GroupOf[w]
           from == Larger(cursor[g], gone) + 1
           to == Smaller(from + Count - 1, Len(log))
<1> USE DEF Inv, topic, past
<1>0. here.bus = "redis" /\ g \in Group /\ At(w, "read")
  BY BusAssumption DEF ReadGroup
<1>1. cursor[g] \in Nat /\ from \in Nat /\ to \in Nat /\ cursor[g] < from /\ from <= to
      /\ to <= Len(log)
  BY <1>0, BusAssumption DEF ReadGroup, Types, Larger, Smaller
<1>2. cursor' = [cursor EXCEPT ![g] = to]
  BY DEF ReadGroup
<1>3. \/ loop' = [loop EXCEPT ![w].pc = "call", ![w].at = from, ![w].last = to]
      \/ loop' = loop
  BY DEF ReadGroup
<1>4. UNCHANGED <<log, gone, given, calls, here>>
  BY DEF ReadGroup
<1> HIDE DEF from, to, g
<1> DEFINE new == [loop[w] EXCEPT !.pc = "call", !.at = from, !.last = to]
<1>a. loop \in [Worker -> Loop] /\ loop[w] \in Loop
  BY DEF Types
<1>b. /\ new \in Loop /\ new.pc = "call" /\ new.at = from /\ new.last = to
  BY <1>1, <1>a DEF Loop
<1>c. loop' = [loop EXCEPT ![w] = new] \/ loop' = loop
  BY <1>3
<1> HIDE DEF new
<1>d. /\ loop' \in [Worker -> Loop]
      /\ \A v \in Worker : loop'[v] = loop[v] \/ (v = w /\ loop'[v] = new)
  <2>1. CASE loop' = loop
    BY <1>a, <2>1
  <2>2. CASE loop' = [loop EXCEPT ![w] = new]
    BY <1>a, <1>b, <2>2, LoopEdit
  <2> QED
    BY <1>c, <2>1, <2>2
<1>e. cursor' \in [Group -> Nat] /\ \A h \in Group : cursor'[h] <= Len(log')
  BY <1>0, <1>1, <1>2, <1>4 DEF Types
<1>5. Types'
  BY <1>4, <1>d, <1>e DEF Types
<1>6. \A h \in Group : cursor[h] \in Nat /\ cursor'[h] \in Nat /\ cursor[h] <= cursor'[h]
  BY <1>0, <1>1, <1>2, <1>5 DEF Types
<1>7. RedisInv
  BY <1>0
<1>8. Behind'
  BY <1>4, <1>6, <1>7 DEF RedisInv, Behind
<1>9. \A v \in Worker : \/ Todo(v)' = Todo(v)
                        \/ v = w /\ Todo(v)' = from..to /\ Todo(v) = {}
  BY <1>0, <1>b, <1>d DEF Todo, At
<1>10. Held'
  <2> SUFFICES ASSUME NEW v \in Worker PROVE Todo(v)' \subseteq 1..cursor'[GroupOf[v]]
    BY DEF Held
  <2>1. Todo(v) \subseteq 1..cursor[GroupOf[v]] /\ GroupOf[v] \in Group
    BY <1>7, BusAssumption DEF RedisInv, Held
  <2>2. cursor[GroupOf[v]] <= cursor'[GroupOf[v]] /\ cursor[GroupOf[v]] \in Nat
        /\ cursor'[GroupOf[v]] \in Nat
    BY <1>6, <2>1
  <2>3. cursor'[g] = to
    BY <1>0, <1>2 DEF Types
  <2>4. CASE Todo(v)' = Todo(v)
    BY <2>1, <2>2, <2>4
  <2>5. CASE v = w /\ Todo(v)' = from..to
    BY <1>1, <2>3, <2>5 DEF g
  <2> QED
    BY <1>9, <2>4, <2>5
<1>11. Fresh'
  BY <1>0, <1>1, <1>4, <1>7, <1>9 DEF RedisInv, Behind, Fresh, g
<1>12. Apart'
  BY <1>0, <1>1, <1>7, <1>9 DEF RedisInv, Held, Apart, g
<1>13. AtHeld'
  <2> SUFFICES ASSUME NEW v \in Worker, At(v, "call")' PROVE loop'[v].at \in Todo(v)'
    BY DEF AtHeld
  <2>1. CASE loop'[v] = loop[v]
    BY <1>7, <2>1 DEF RedisInv, AtHeld, Todo, At
  <2>2. CASE v = w /\ loop'[v] = new
    BY <1>1, <1>b, <2>2 DEF Todo, At
  <2> QED
    BY <1>d, <2>1, <2>2
<1> QED
  BY <1>0, <1>4, <1>5, <1>8, <1>10, <1>11, <1>12, <1>13 DEF RedisInv

(* A fetch goes one entry further. *)
LEMMA FetchMessageInv == ASSUME Inv, NEW w \in Worker, FetchMessage(w) PROVE Inv'
<1> USE DEF Inv, FetchMessage, topic, broker, past
<1> DEFINE new == [loop[w] EXCEPT !.at = @ + 1, !.pc = "call"]
<1>a. loop \in [Worker -> Loop] /\ loop[w] \in Loop /\ loop' = [loop EXCEPT ![w] = new]
  BY DEF Types
<1>b. new \in Loop /\ new.pc = "call" /\ new.at = loop[w].at + 1 /\ new.mark = loop[w].mark
  BY <1>a DEF Loop
<1> HIDE DEF new
<1>c. /\ loop' \in [Worker -> Loop]
      /\ \A v \in Worker : loop'[v] = IF v = w THEN new ELSE loop[v]
  BY <1>a, <1>b, LoopEdit
<1>1. Types'
  BY <1>c DEF Types
<1>2. KafkaInv'
  BY <1>a, <1>b, <1>c DEF KafkaInv, Reached, Covered, Passed, At, Types, Loop
<1> QED
  BY <1>1, <1>2

(* A call gives the group the entry the loop holds. *)
LEMMA CallInv == ASSUME Inv, NEW w \in Worker, NEW ok \in BOOLEAN, Call(w, ok) PROVE Inv'
<1> DEFINE g == GroupOf[w]
           k == loop[w].at
<1>1. g \in Group /\ k \in Nat /\ At(w, "call")
  BY BusAssumption DEF Inv, Call, Types, Loop
<1>2. given' = [given EXCEPT ![g] = @ \cup {k}] /\ calls' = [calls EXCEPT ![g] = @ + 1]
  BY DEF Call
<1>3. UNCHANGED <<log, gone, cursor, here>>
  BY DEF Call, topic, broker
<1>4. \/ loop' = [loop EXCEPT ![w].pc = "ack"]
      \/ loop' = [loop EXCEPT ![w].pc = "read"]
      \/ /\ here.bus = "redis" /\ loop[w].at < loop[w].last
         /\ loop' = [loop EXCEPT ![w].pc = "call", ![w].at = @ + 1]
  BY DEF Call, Onward
<1>a. loop \in [Worker -> Loop] /\ loop[w] \in Loop
  BY DEF Inv, Types
<1>b. PICK new \in Loop :
        /\ loop' = [loop EXCEPT ![w] = new] /\ new.mark = loop[w].mark
        /\ new.last = loop[w].last
        /\ \/ new.pc \in {"ack", "read"} /\ new.at = k
           \/ /\ here.bus = "redis" /\ k < loop[w].last
              /\ new.pc = "call" /\ new.at = k + 1
  <2>1. CASE loop' = [loop EXCEPT ![w].pc = "ack"]
    <3> DEFINE x == [loop[w] EXCEPT !.pc = "ack"]
    <3>1. x \in Loop
      BY <1>a DEF Loop
    <3> QED
      BY <1>a, <2>1, <3>1 DEF Loop
  <2>2. CASE loop' = [loop EXCEPT ![w].pc = "read"]
    <3> DEFINE x == [loop[w] EXCEPT !.pc = "read"]
    <3>1. x \in Loop
      BY <1>a DEF Loop
    <3> QED
      BY <1>a, <2>2, <3>1 DEF Loop
  <2>3. CASE /\ here.bus = "redis" /\ loop[w].at < loop[w].last
             /\ loop' = [loop EXCEPT ![w].pc = "call", ![w].at = @ + 1]
    <3> DEFINE y == [loop[w] EXCEPT !.pc = "call"]
               x == [y EXCEPT !.at = @ + 1]
    <3>0. y \in Loop /\ y.at \in Nat
      BY <1>a DEF Loop
    <3> HIDE DEF y
    <3>1. x \in Loop
      BY <3>0 DEF Loop
    <3> USE DEF y
    <3> QED
      BY <1>a, <2>3, <3>1 DEF Loop
  <2> QED
    BY <1>4, <2>1, <2>2, <2>3
<1>c. /\ loop' \in [Worker -> Loop]
      /\ \A v \in Worker : loop'[v] = IF v = w THEN new ELSE loop[v]
  BY <1>a, <1>b, LoopEdit
<1> HIDE DEF g, k
<1>5. Types'
  <2>1. given' \in [Group -> SUBSET Nat] /\ calls' \in [Group -> Nat]
    BY <1>1, <1>2 DEF Inv, Types
  <2> QED
    BY <1>3, <1>c, <2>1 DEF Inv, Types
<1>6. CASE here.bus = "redis"
  <2>1. RedisInv
    BY <1>6 DEF Inv
  <2>2. k \in Todo(w) /\ k \in 1..cursor[g]
    BY <1>1, <2>1 DEF RedisInv, AtHeld, Held, g, k
  <2>3. \A v \in Worker : \/ v # w /\ Todo(v)' = Todo(v)
                          \/ v = w /\ Todo(v)' \subseteq Todo(v) \ {k}
    BY <1>1, <1>b, <1>c DEF Todo, At, Loop, k
  <2>4. Behind' /\ Held'
    BY <1>2, <1>3, <2>1, <2>2, <2>3 DEF RedisInv, Behind, Held, Inv, Types
  <2>5. Fresh'
    <3> SUFFICES ASSUME NEW v \in Worker PROVE Todo(v)' \cap given'[GroupOf[v]] = {}
      BY DEF Fresh
    <3>1. Todo(v) \cap given[GroupOf[v]] = {} /\ GroupOf[v] \in Group
      BY <2>1, BusAssumption DEF RedisInv, Fresh
    <3>2. given'[GroupOf[v]] = IF GroupOf[v] = g THEN given[g] \cup {k} ELSE given[GroupOf[v]]
      BY <1>2, <3>1 DEF Inv, Types
    <3>3. CASE v = w
      BY <2>3, <3>1, <3>2, <3>3 DEF g
    <3>4. CASE v # w
      BY <2>1, <2>2, <2>3, <3>1, <3>2, <3>4 DEF RedisInv, Apart, g
    <3> QED
      BY <3>3, <3>4
  <2>6. Apart'
    BY <2>1, <2>3 DEF RedisInv, Apart
  <2>7. AtHeld'
    BY <1>1, <1>b, <1>c, <2>1 DEF RedisInv, AtHeld, Todo, At, Loop
  <2> QED
    BY <1>3, <1>5, <1>6, <2>4, <2>5, <2>6, <2>7 DEF Inv, RedisInv
<1>7. CASE here.bus = "kafka"
  <2>1. KafkaInv
    BY <1>7 DEF Inv
  <2>2. \A h \in Group : given[h] \subseteq given'[h]
    BY <1>2 DEF Inv, Types
  <2>3. k \in given'[g]
    BY <1>1, <1>2 DEF Inv, Types
  <2>4. \A v \in Worker : loop'[v].at = loop[v].at /\ loop'[v].mark = loop[v].mark
                          /\ (v # w => loop'[v].pc = loop[v].pc)
    BY <1>7, <1>b, <1>c DEF k
  <2>5. Reached'
    <3> SUFFICES ASSUME NEW v \in Worker
                 PROVE  /\ loop'[v].at <= Len(log') /\ (At(v, "call")' => loop'[v].at >= 1)
                        /\ loop'[v].mark <= loop'[v].at
                        /\ Passed(v)' \subseteq given'[GroupOf[v]]
                        /\ 1..loop'[v].mark \subseteq given'[GroupOf[v]]
      BY DEF Reached
    <3>1. /\ loop[v].at <= Len(log) /\ (At(v, "call") => loop[v].at >= 1)
          /\ loop[v].mark <= loop[v].at
          /\ Passed(v) \subseteq given[GroupOf[v]] /\ 1..loop[v].mark \subseteq given[GroupOf[v]]
          /\ GroupOf[v] \in Group
      BY <2>1, BusAssumption DEF KafkaInv, Reached
    <3>2. given[GroupOf[v]] \subseteq given'[GroupOf[v]]
      BY <2>2, <3>1
    <3>3. CASE v = w
      <4>1. ~At(w, "call")' /\ Passed(w)' = 1..k
        BY <1>7, <1>b, <1>c DEF Passed, At, k
      <4>2. Passed(w) = 1..(k - 1)
        BY <1>1 DEF Passed, k
      <4>3. 1..k \subseteq (1..(k - 1)) \cup {k}
        BY <1>1
      <4> QED
        BY <1>3, <2>3, <2>4, <3>1, <3>2, <3>3, <4>1, <4>2, <4>3 DEF g
    <3>4. CASE v # w
      BY <1>3, <2>4, <3>1, <3>2, <3>4 DEF Passed, At
    <3> QED
      BY <3>3, <3>4
  <2>6. Covered'
    BY <1>3, <2>1, <2>2 DEF KafkaInv, Covered
  <2> QED
    BY <1>3, <1>5, <1>7, <2>5, <2>6 DEF Inv, KafkaInv
<1> QED
  BY <1>3, <1>5, <1>6, <1>7 DEF Inv

(* After an acknowledgement the loop holds one entry less. *)
LEMMA AckInv == ASSUME Inv, NEW w \in Worker, Ack(w) PROVE Inv'
<1> USE DEF Inv, topic, past
<1>1. here.bus = "redis" /\ At(w, "ack") /\ UNCHANGED <<log, gone, cursor, given, calls, here>>
  BY DEF Ack
<1>2. \/ loop' = [loop EXCEPT ![w].pc = "read"]
      \/ /\ loop[w].at < loop[w].last
         /\ loop' = [loop EXCEPT ![w].pc = "call", ![w].at = @ + 1]
  BY DEF Ack, Onward
<1>a. loop \in [Worker -> Loop] /\ loop[w] \in Loop
  BY DEF Types
<1>b. PICK new \in Loop :
        /\ loop' = [loop EXCEPT ![w] = new] /\ new.last = loop[w].last
        /\ \/ new.pc = "read"
           \/ loop[w].at < loop[w].last /\ new.pc = "call" /\ new.at = loop[w].at + 1
  <2>1. CASE loop' = [loop EXCEPT ![w].pc = "read"]
    <3> DEFINE x == [loop[w] EXCEPT !.pc = "read"]
    <3>1. x \in Loop
      BY <1>a DEF Loop
    <3> QED
      BY <1>a, <2>1, <3>1 DEF Loop
  <2>2. CASE /\ loop[w].at < loop[w].last
             /\ loop' = [loop EXCEPT ![w].pc = "call", ![w].at = @ + 1]
    <3> DEFINE y == [loop[w] EXCEPT !.pc = "call"]
               x == [y EXCEPT !.at = @ + 1]
    <3>0. y \in Loop /\ y.at \in Nat
      BY <1>a DEF Loop
    <3> HIDE DEF y
    <3>1. x \in Loop
      BY <3>0 DEF Loop
    <3> USE DEF y
    <3> QED
      BY <1>a, <2>2, <3>1 DEF Loop
  <2> QED
    BY <1>2, <2>1, <2>2
<1>c. /\ loop' \in [Worker -> Loop]
      /\ \A v \in Worker : loop'[v] = IF v = w THEN new ELSE loop[v]
  BY <1>a, <1>b, LoopEdit
<1>3. Types'
  BY <1>1, <1>c DEF Types
<1>4. \A v \in Worker : Todo(v)' \subseteq Todo(v)
  BY <1>1, <1>a, <1>b, <1>c DEF Todo, At, Loop
<1>5. AtHeld'
  BY <1>1, <1>a, <1>b, <1>c DEF RedisInv, AtHeld, Todo, At, Loop
<1>6. Behind' /\ Held' /\ Fresh' /\ Apart'
  BY <1>1, <1>4 DEF RedisInv, Behind, Held, Fresh, Apart
<1> QED
  BY <1>1, <1>3, <1>5, <1>6 DEF RedisInv

(* What is marked, and then committed, has been given. *)
LEMMA CommitInv ==
  ASSUME Inv, NEW w \in Worker, CommitMessages(w) \/ CommitTick(w) PROVE Inv'
<1> USE DEF Inv, topic, broker, past
<1>1. here.bus = "kafka" /\ UNCHANGED <<log, gone, given, calls, here>>
  BY DEF CommitMessages, CommitTick
<1>2. CASE CommitMessages(w)
  <2>1. Types'
    BY <1>2 DEF CommitMessages, Types, Loop
  <2>2. KafkaInv'
    BY <1>1, <1>2 DEF CommitMessages, KafkaInv, Reached, Covered, Passed, At, Types, Loop
  <2> QED
    BY <1>1, <2>1, <2>2
<1>3. CASE CommitTick(w)
  <2>1. Reached /\ Covered /\ GroupOf[w] \in Group /\ loop[w] \in Loop
    BY <1>1, BusAssumption DEF KafkaInv, Types
  <2>2. cursor' = [cursor EXCEPT ![GroupOf[w]] = loop[w].mark] /\ UNCHANGED loop
    BY <1>3 DEF CommitTick
  <2>3. loop[w].mark \in Nat /\ 1..loop[w].mark \subseteq given[GroupOf[w]]
    BY <2>1 DEF Reached, Loop
  <2>4. loop[w].mark <= Len(log)
    <3>1. loop[w].mark <= loop[w].at /\ loop[w].at <= Len(log) /\ loop[w].at \in Nat
      BY <2>1 DEF Reached, Loop
    <3> QED
      BY <2>3, <3>1 DEF Types
  <2>5. Types'
    BY <1>1, <2>1, <2>2, <2>3, <2>4 DEF Types
  <2>6. KafkaInv'
    BY <1>1, <2>1, <2>2, <2>3 DEF KafkaInv, Reached, Covered, Passed, At, Types
  <2> QED
    BY <1>1, <2>5, <2>6
<1> QED
  BY <1>2, <1>3

(* A loop that starts again holds nothing, and resumes after the cursor. *)
LEMMA StopInv == ASSUME Inv, NEW w \in Worker, Stop(w) PROVE Inv'
<1> USE DEF Inv, topic, broker, past
<1>1. UNCHANGED <<log, gone, cursor, given, calls, here>> /\ GroupOf[w] \in Group
  BY BusAssumption DEF Stop
<1>2. loop' = [loop EXCEPT ![w] = Restarted(GroupOf[w])]
  BY DEF Stop
<1>3. Restarted(GroupOf[w]) \in Loop /\ cursor[GroupOf[w]] <= Len(log)
  BY <1>1 DEF Restarted, Loop, Types
<1>4. Types'
  BY <1>1, <1>2, <1>3 DEF Types
<1>5. \A v \in Worker : IF v = w THEN loop'[v] = Restarted(GroupOf[w]) ELSE loop'[v] = loop[v]
  BY <1>2 DEF Types
<1>6. RedisInv => RedisInv'
  BY <1>1, <1>5 DEF RedisInv, Behind, Held, Fresh, Apart, AtHeld, Todo, At, Restarted
<1>7. KafkaInv => KafkaInv'
  <2> SUFFICES ASSUME KafkaInv PROVE Reached'
    BY <1>1 DEF KafkaInv, Covered
  <2> SUFFICES ASSUME NEW v \in Worker
               PROVE  /\ loop'[v].at <= Len(log') /\ (At(v, "call")' => loop'[v].at >= 1)
                      /\ loop'[v].mark <= loop'[v].at
                      /\ Passed(v)' \subseteq given'[GroupOf[v]]
                      /\ 1..loop'[v].mark \subseteq given'[GroupOf[v]]
    BY DEF Reached
  <2>1. CASE v = w
    <3>1. loop'[v] = Restarted(GroupOf[v]) /\ cursor[GroupOf[v]] \in Nat
      BY <1>1, <1>5, <2>1 DEF Types
    <3>2. 1..cursor[GroupOf[v]] \subseteq given[GroupOf[v]]
      BY <1>1, <2>1 DEF KafkaInv, Covered
    <3> QED
      BY <1>1, <1>3, <2>1, <3>1, <3>2 DEF Passed, At, Restarted
  <2>2. CASE v # w
    BY <1>1, <1>5, <2>2 DEF KafkaInv, Reached, Passed, At
  <2> QED
    BY <2>1, <2>2
<1> QED
  BY <1>1, <1>4, <1>6, <1>7

(* What a publication or a call is to the abstract bus. *)
LEMMA PublishRefines ==
  ASSUME Inv, NEW e \in Event, Publish(e) PROVE Bus!Publish
<1>1. log \in Seq(Event) /\ UNCHANGED <<given, calls, here>>
  BY DEF Inv, Types, Publish, XAdd, WriteMessages, past
<1>2. CASE log' = Append(log, e)
  BY <1>1, <1>2 DEF Bus!Publish, Mode
<1>3. CASE log' = log \o <<e, e>>
  <2>1. <<e, e>> \in Seq(Event) /\ Len(<<e, e>>) = 2
    OBVIOUS
  <2>2. Len(log') = Len(log) + 2
    BY <1>1, <1>3, <2>1, ConcatProperties
  <2> QED
    BY <1>1, <2>2 DEF Bus!Publish, Mode
<1> QED
  BY <1>2, <1>3 DEF Publish, XAdd, WriteMessages

LEMMA CallRefines ==
  ASSUME Inv, NEW w \in Worker, NEW ok \in BOOLEAN, Call(w, ok) PROVE Bus!Call(GroupOf[w])
<1> DEFINE g == GroupOf[w]
           k == loop[w].at
<1>1. g \in Group /\ k \in Nat /\ At(w, "call") /\ here.bus \in {"redis", "kafka"}
  BY BusAssumption DEF Inv, Call, Types, Loop
<1>2. /\ given' = [given EXCEPT ![g] = @ \cup {k}] /\ calls' = [calls EXCEPT ![g] = @ + 1]
      /\ UNCHANGED <<log, here>>
  BY DEF Call, topic
<1>3. CASE here.bus = "redis"
  <2>1. k \in Todo(w) /\ k \in 1..cursor[g] /\ k \notin given[g]
    BY <1>1, <1>3 DEF Inv, RedisInv, AtHeld, Held, Fresh
  <2>2. k \in 1..Len(log)
    BY <1>1, <2>1 DEF Inv, Types
  <2> QED
    BY <1>2, <1>3, <2>1, <2>2 DEF Bus!Call, Bus!Give, Mode
<1>4. CASE here.bus = "kafka"
  <2>1. k \in 1..Len(log) /\ 1..(k - 1) \subseteq given[g]
    BY <1>1, <1>4 DEF Inv, KafkaInv, Reached, Passed, Types
  <2> QED
    BY <1>2, <1>4, <2>1 DEF Bus!Call, Bus!Give, Mode
<1> QED
  BY <1>1, <1>3, <1>4

(* Every step keeps the invariant, and is a step of the abstract bus or    *)
(* none.                                                                   *)
LEMMA StepInv ==
  ASSUME Inv, [Next]_vars PROVE Inv' /\ [Bus!Next]_<<Mode, Len(log), given, calls>>
<1>1. CASE UNCHANGED vars
  BY <1>1 DEF Inv, vars, topic, broker, past, Types, RedisInv, KafkaInv, Behind, Held, Fresh,
              Apart, AtHeld, Reached, Covered, Passed, Todo, At, Mode
<1>2. ASSUME NEW e \in Event, Publish(e) PROVE Inv' /\ Bus!Next
  BY <1>2, PublishInv, PublishRefines DEF Bus!Next
<1>3. ASSUME NEW w \in Worker, NEW ok \in BOOLEAN, Call(w, ok) PROVE Inv' /\ Bus!Next
  <2>1. GroupOf[w] \in Group
    BY BusAssumption
  <2> QED
    BY <1>3, <2>1, CallInv, CallRefines DEF Bus!Next
<1>4. ASSUME NEW w \in Worker, Receive(w) \/ Confirm(w) \/ Stop(w)
      PROVE  Inv' /\ UNCHANGED <<Mode, Len(log), given, calls>>
  <2>1. Inv'
    BY <1>4, ReadGroupInv, FetchMessageInv, AckInv, CommitInv, StopInv DEF Receive, Confirm
  <2>2. UNCHANGED <<log, given, calls, here>>
    BY <1>4 DEF Receive, Confirm, ReadGroup, FetchMessage, Ack, CommitMessages, CommitTick,
                Stop, topic, past
  <2> QED
    BY <2>1, <2>2 DEF Mode
<1> QED
  BY <1>1, <1>2, <1>3, <1>4 DEF Next

(* Over any groups, loops, events and stops, the bus keeps what it promises*)
(* its users: with Redis no event is given to a group twice, with Kafka    *)
(* none before one that precedes it.                                       *)
THEOREM BusPromise == Spec => Promise
<1>1. Init => Bus!Init
  BY BusAssumption DEF Init, Bus!Init, Mode
<1>2. Init /\ [][Next]_vars => []Inv
  BY InitInv, StepInv, PTL
<1>3. Inv /\ [Next]_vars => [Bus!Next]_<<Mode, Len(log), given, calls>>
  BY StepInv
<1> QED
  BY <1>1, <1>2, <1>3, PTL DEF Spec, Promise, Bus!Spec

(* Over Kafka, what is committed has been given: nothing is skipped when a *)
(* reader resumes.                                                         *)
THEOREM NothingSkipped ==
  Spec => [](here.bus = "kafka" => \A g \in Group : 1..cursor[g] \subseteq given[g])
<1>1. Init /\ [][Next]_vars => []Inv
  BY InitInv, StepInv, PTL
<1>2. Inv => (here.bus = "kafka" => \A g \in Group : 1..cursor[g] \subseteq given[g])
  BY DEF Inv, KafkaInv, Covered
<1> QED
  BY <1>1, <1>2, PTL DEF Spec

-----------------------------------------------------------------------------
(* The services behind the bus                                             *)

EffectTypes ==
    /\ indexed \in [Event -> Nat] /\ documents \subseteq Nat
    /\ rows \in [1..(MaxEvents + 1) -> Nat]

(* What was given is in the topic; only loops of this situation run. *)
Bounded ==
    /\ Len(log) <= MaxEvents + 1
    /\ \A g \in Group : given[g] \subseteq 1..Len(log)
    /\ \A w \in Worker \ here.workers : At(w, "read") /\ loop[w].mark = 0

(* A row comes with the call of its handler. *)
RowsMade ==
    /\ \A k \in 1..(MaxEvents + 1) : k \notin given[nt] => rows[k] = 0
    /\ here.bus = "redis" => \A k \in 1..(MaxEvents + 1) : rows[k] <= 1
    /\ ~MayFail => \A k \in 1..(MaxEvents + 1) : k \in given[nt] => rows[k] >= 1
DocumentsMade == here.topic = "others" /\ ~MayFail => documents = given[es]

(* Redis, when nothing fails: all that was handed out was given, or is     *)
(* held by a loop that will.                                               *)
Undisturbed == here.bus = "redis" /\ here.faults = {} /\ here.keeps >= MaxEvents
Holds(g, k) == k \in given[g] \/ \E w \in here.workers : GroupOf[w] = g /\ k \in Todo(w)
Kept == Undisturbed =>
    /\ gone = 0 /\ Len(log) <= MaxEvents
    /\ \A g \in Group : \A k \in 1..cursor[g] : Holds(g, k)

(* A document shows a state of its own order.  The one loop of the indexer *)
(* is never behind its cursor, and no document shows less than the last    *)
(* state the loop has passed since it started.                             *)
IndexHas == \A e \in Event : indexed[e] # 0 => indexed[e] \in 1..Len(log) /\ log[indexed[e]] = e
Sole(w) == /\ w \in here.workers /\ GroupOf[w] = es
           /\ \A v \in here.workers : GroupOf[v] = es => v = w
Place(w) == IF At(w, "call") THEN loop[w].at - 1 ELSE loop[w].at
InStep(w) ==
    /\ here.bus = "redis" => IF At(w, "read") THEN loop[w].at = cursor[es]
                             ELSE loop[w].at <= loop[w].last /\ loop[w].last = cursor[es]
    /\ here.bus = "kafka" => cursor[es] <= Place(w) /\ loop[w].mark <= Place(w)
UpToDate(w) == \A k \in 1..Place(w) : indexed[log[k]] >= k
IndexInv ==
    here.topic = "orders" /\ ~MayFail /\ (here.bus = "redis" => Undisturbed) =>
        \A w \in Worker : Sole(w) => InStep(w) /\ UpToDate(w)

EffectInv ==
    EffectTypes /\ Bounded /\ RowsMade /\ DocumentsMade /\ Kept /\ IndexHas /\ IndexInv

LEMMA EffectInit == ASSUME InitAll PROVE Inv /\ EffectInv
<1>1. Init /\ Inv
  BY InitInv DEF InitAll
<1>2. EffectTypes /\ Bounded /\ RowsMade /\ DocumentsMade /\ Kept /\ IndexHas
  BY <1>1, BusAssumption, ServiceAssumption
  DEF InitAll, Init, EffectTypes, Bounded, At, RowsMade, DocumentsMade, Kept, Holds, IndexHas
<1>3. IndexInv
  BY <1>1, BusAssumption, ServiceAssumption DEF InitAll, Init, IndexInv, InStep, UpToDate, Place, At
<1> QED
  BY <1>2, <1>3, <1>1 DEF EffectInv

(* A loop calls its handlers with an entry of the topic, and nobody but a  *)
(* loop of the situation does.                                             *)
LEMMA CallsInside ==
    ASSUME Inv, EffectInv, NEW w \in Worker, At(w, "call")
    PROVE  /\ loop[w].at \in 1..Len(log) /\ loop[w].at \in 1..(MaxEvents + 1) /\ w \in here.workers
           /\ here.bus = "redis" => loop[w].at \notin given[GroupOf[w]] /\ loop[w].at \in Todo(w)
<1>1. GroupOf[w] \in Group /\ loop[w] \in Loop /\ log \in Seq(Event) /\ here.bus \in {"redis", "kafka"}
  BY BusAssumption DEF Inv, Types
<1>2. CASE here.bus = "redis"
  <2>1. /\ loop[w].at \in Todo(w) /\ Todo(w) \subseteq 1..cursor[GroupOf[w]]
        /\ Todo(w) \cap given[GroupOf[w]] = {}
    BY <1>2 DEF Inv, RedisInv, AtHeld, Held, Fresh
  <2>2. cursor[GroupOf[w]] \in Nat /\ cursor[GroupOf[w]] <= Len(log)
    BY <1>1 DEF Inv, Types
  <2>3. loop[w].at \in 1..Len(log)
    BY <1>1, <2>1, <2>2
  <2> QED
    BY <1>1, <2>1, <2>3, BusAssumption DEF EffectInv, Bounded, At
<1>3. CASE here.bus = "kafka"
  <2>1. loop[w].at <= Len(log) /\ loop[w].at >= 1
    BY <1>3 DEF Inv, KafkaInv, Reached
  <2> QED
    BY <1>1, <1>3, <2>1, BusAssumption DEF EffectInv, Bounded, At, Loop
<1> QED
  BY <1>1, <1>2, <1>3

(* Publishing leaves what was given, and what the documents show, alone. *)
LEMMA PublishEffects ==
    ASSUME Inv, EffectInv, NEW e \in Event, Publish(e), UNCHANGED effects
    PROVE  EffectInv'
<1>1. log \in Seq(Event) /\ gone \in Nat /\ Len(log) \in Nat /\ Len(log) < MaxEvents /\ MaxEvents \in Nat
      /\ here \in Situation /\ here.keeps \in Nat
  BY BusAssumption DEF Inv, Types, Publish
<1>2. UNCHANGED <<cursor, pending, loop, given, calls, here, indexed, documents, rows>>
  BY DEF Publish, broker, past, effects
<1>3. /\ log' \in Seq(Event) /\ \A k \in 1..Len(log) : log'[k] = log[k]
      /\ Len(log') = Len(log) + 1 \/ (here.bus = "kafka" /\ Len(log') = Len(log) + 2)
  <2>1. CASE log' = Append(log, e)
    BY <1>1, <2>1
  <2>2. CASE log' = log \o <<e, e>> /\ here.bus = "kafka"
    <3>1. <<e, e>> \in Seq(Event) /\ Len(<<e, e>>) = 2
      OBVIOUS
    <3>2. log \o <<e, e>> \in Seq(Event) /\ Len(log \o <<e, e>>) = Len(log) + 2
          /\ \A k \in 1..Len(log) : (log \o <<e, e>>)[k] = log[k]
      BY <1>1, <3>1, ConcatProperties
    <3> QED
      BY <2>2, <3>2
  <2> QED
    BY <2>1, <2>2 DEF Publish, XAdd, WriteMessages
<1>4. Len(log) <= Len(log') /\ Len(log') <= MaxEvents + 1 /\ (here.bus = "redis" => Len(log') <= MaxEvents)
  <2>1. CASE Len(log') = Len(log) + 1
    BY <1>1, <2>1
  <2>2. CASE here.bus = "kafka" /\ Len(log') = Len(log) + 2
    BY <1>1, <2>2
  <2> QED
    BY <1>3, <2>1, <2>2
<1>5. EffectTypes' /\ RowsMade' /\ DocumentsMade'
  BY <1>2 DEF EffectInv, EffectTypes, RowsMade, DocumentsMade, MayFail
<1>6. Bounded'
  <2>1. \A g \in Group : given[g] \subseteq 1..Len(log')
    BY <1>1, <1>3, <1>4 DEF EffectInv, Bounded
  <2> QED
    BY <1>2, <1>4, <2>1 DEF EffectInv, Bounded, At
<1>7. Kept'
  <2>1. Undisturbed => gone' = 0
    <3> SUFFICES ASSUME Undisturbed PROVE gone' = 0
      OBVIOUS
    <3>1. gone = 0 /\ gone' \in {gone, Larger(gone, Len(log) + 1 - here.keeps)} /\ here.keeps >= MaxEvents
      BY BusAssumption DEF EffectInv, Kept, Undisturbed, Publish, XAdd, WriteMessages
    <3> QED
      BY <1>1, <3>1 DEF Larger
  <2> QED
    BY <1>2, <1>4, <2>1 DEF EffectInv, Kept, Undisturbed, Holds, Todo, At
<1>8. IndexHas'
  BY <1>1, <1>2, <1>3, <1>4 DEF EffectInv, IndexHas
<1>9. IndexInv'
  <2> SUFFICES ASSUME here.topic = "orders", ~MayFail, here.bus = "redis" => Undisturbed,
                      NEW w \in Worker, Sole(w)
               PROVE  InStep(w)' /\ UpToDate(w)'
    BY <1>2 DEF IndexInv, MayFail, Undisturbed, Sole
  <2>1. InStep(w) /\ UpToDate(w)
    BY DEF EffectInv, IndexInv
  <2>2. InStep(w)' /\ Place(w)' = Place(w)
    BY <1>2, <2>1 DEF InStep, Place, At
  <2>3. \A k \in 1..Place(w) : k \in 1..Len(log)
    <3>1. here.bus \in {"redis", "kafka"} /\ loop[w] \in Loop
          /\ cursor[GroupOf[w]] <= Len(log) /\ GroupOf[w] = es /\ cursor[es] \in Nat
      BY BusAssumption, ServiceAssumption DEF Inv, Types, Sole
    <3>2. Place(w) <= Len(log)
      <4>1. CASE here.bus = "redis"
        BY <1>1, <2>1, <3>1, <4>1 DEF InStep, Place, At, Loop
      <4>2. CASE here.bus = "kafka"
        BY <1>1, <3>1, <4>2 DEF Inv, KafkaInv, Reached, Place, At, Loop
      <4> QED
        BY <3>1, <4>1, <4>2
    <3>3. Place(w) \in Int
      BY <3>1 DEF Place, Loop
    <3> QED
      BY <1>1, <3>2, <3>3
  <2>4. UpToDate(w)'
    BY <1>2, <1>3, <2>1, <2>2, <2>3 DEF UpToDate
  <2> QED
    BY <2>2, <2>4
<1> QED
  BY <1>5, <1>6, <1>7, <1>8, <1>9 DEF EffectInv

(* What a step that calls no handler has to keep. *)
LEMMA QuietEffects ==
    ASSUME Inv, EffectInv, NEW w \in Worker, w \in here.workers,
           UNCHANGED <<log, gone, given, here, indexed, documents, rows>>,
           \A v \in Worker \ {w} : loop'[v] = loop[v],
           \A g \in Group \ {GroupOf[w]} : cursor'[g] = cursor[g],
           Kept', Sole(w) /\ (here.bus = "redis" => Undisturbed) /\ here.topic = "orders" /\ InStep(w)
                    => InStep(w)' /\ Place(w)' <= Place(w) /\ Place(w)' \in Int /\ Place(w) \in Int
    PROVE  EffectInv'
<1>1. EffectTypes' /\ RowsMade' /\ DocumentsMade' /\ IndexHas'
  BY DEF EffectInv, EffectTypes, RowsMade, DocumentsMade, MayFail, IndexHas
<1>2. Bounded'
  BY DEF EffectInv, Bounded, At
<1>3. IndexInv'
  <2> SUFFICES ASSUME here.topic = "orders", ~MayFail, here.bus = "redis" => Undisturbed,
                      NEW v \in Worker, Sole(v)
               PROVE  InStep(v)' /\ UpToDate(v)'
    BY DEF IndexInv, MayFail, Undisturbed, Sole
  <2>1. InStep(v) /\ UpToDate(v)
    BY DEF EffectInv, IndexInv
  <2>2. CASE v = w
    <3>1. InStep(v)' /\ Place(v)' <= Place(v) /\ Place(v)' \in Int /\ Place(v) \in Int
      BY <2>1, <2>2
    <3>2. \A k \in 1..Place(v)' : k \in 1..Place(v)
      BY <3>1
    <3> QED
      BY <2>1, <3>1, <3>2 DEF UpToDate
  <2>3. CASE v # w
    <3>1. GroupOf[w] # es /\ es \in Group
      BY <2>3, ServiceAssumption DEF Sole
    <3>2. loop'[v] = loop[v] /\ cursor'[es] = cursor[es]
      BY <2>3, <3>1
    <3>3. Place(v)' = Place(v) /\ InStep(v)'
      BY <2>1, <3>2 DEF Place, InStep, At
    <3> QED
      BY <2>1, <3>3 DEF UpToDate
  <2> QED
    BY <2>2, <2>3
<1> QED
  BY <1>1, <1>2, <1>3 DEF EffectInv

LEMMA ReadGroupEffects ==
    ASSUME Inv, EffectInv, NEW w \in Worker, ReadGroup(w), UNCHANGED effects
    PROVE  EffectInv'
<1> DEFINE g == GroupOf[w]
           from == Larger(cursor[g], gone) + 1
           to == Smaller(from + Count - 1, Len(log))
<1>1. /\ here.bus = "redis" /\ w \in here.workers /\ g \in Group /\ At(w, "read")
      /\ UNCHANGED <<log, gone, given, here, indexed, documents, rows>>
  BY BusAssumption DEF ReadGroup, topic, past, effects
<1>2. cursor[g] \in Nat /\ gone \in Nat /\ from \in Nat /\ to \in Nat /\ from <= to /\ loop[w] \in Loop
      /\ cursor \in [Group -> Nat] /\ loop \in [Worker -> Loop]
  BY <1>1, BusAssumption DEF Inv, ReadGroup, Types, Larger, Smaller
<1>3. cursor' = [cursor EXCEPT ![g] = to]
  BY DEF ReadGroup
<1>4. \/ loop' = [loop EXCEPT ![w].pc = "call", ![w].at = from, ![w].last = to]
      \/ "reply" \in here.faults /\ loop' = loop
  BY DEF ReadGroup, May
<1> HIDE DEF from, to, g
<1>5. \A v \in Worker \ {w} : loop'[v] = loop[v]
  BY <1>2, <1>4
<1>6. \A h \in Group \ {g} : cursor'[h] = cursor[h]
  BY <1>2, <1>3
<1>7. cursor'[g] = to
  BY <1>1, <1>2, <1>3
<1>8. ASSUME Undisturbed
      PROVE  /\ gone = 0 /\ from = cursor[g] + 1
             /\ loop'[w].pc = "call" /\ loop'[w].at = from /\ loop'[w].last = to
  <2>1. gone = 0
    BY <1>8 DEF EffectInv, Kept
  <2>2. from = cursor[g] + 1
    BY <1>2, <2>1 DEF from, Larger
  <2>3. loop' = [loop EXCEPT ![w].pc = "call", ![w].at = from, ![w].last = to]
    BY <1>4, <1>8 DEF Undisturbed
  <2> QED
    BY <1>2, <2>1, <2>2, <2>3 DEF Loop
<1>9. Kept'
  <2> SUFFICES ASSUME Undisturbed, NEW h \in Group, NEW k \in 1..cursor'[h]
               PROVE  k \in given[h] \/ \E v \in here.workers : GroupOf[v] = h /\ k \in Todo(v)'
    BY <1>1 DEF Kept, Undisturbed, Holds, EffectInv
  <2>1. \A v \in Worker : Todo(v) \subseteq Todo(v)' /\ (v = w => Todo(v)' = from..to)
    <3>1. Todo(w) = {} /\ Todo(w)' = from..to
      BY <1>1, <1>8 DEF Todo, At
    <3> QED
      BY <1>5, <3>1 DEF Todo, At
  <2>2. here.workers \subseteq Worker
    BY BusAssumption DEF Inv, Types
  <2>3. CASE k \in 1..cursor[h]
    BY <2>1, <2>2, <2>3 DEF EffectInv, Kept, Holds
  <2>4. CASE k \notin 1..cursor[h]
    <3>1. h = g /\ k \in from..to
      BY <1>2, <1>6, <1>7, <1>8, <2>4
    <3> QED
      BY <1>1, <2>1, <3>1 DEF g
  <2> QED
    BY <2>3, <2>4
<1>10. ASSUME Sole(w), Undisturbed, InStep(w)
       PROVE  InStep(w)' /\ Place(w)' <= Place(w) /\ Place(w)' \in Int /\ Place(w) \in Int
  <2>1. g = es /\ loop[w].at = cursor[es]
    BY <1>1, <1>10 DEF Sole, InStep, g
  <2>2. Place(w) = cursor[es] /\ Place(w)' = from - 1
    BY <1>1, <1>8, <1>10, <2>1 DEF Place, At
  <2>3. InStep(w)'
    BY <1>1, <1>2, <1>7, <1>8, <1>10, <2>1 DEF InStep, At
  <2> QED
    BY <1>2, <1>8, <1>10, <2>1, <2>2, <2>3
<1> QED
  BY <1>1, <1>5, <1>6, <1>9, <1>10, QuietEffects DEF g

LEMMA FetchEffects ==
    ASSUME Inv, EffectInv, NEW w \in Worker, FetchMessage(w), UNCHANGED effects
    PROVE  EffectInv'
<1>1. /\ here.bus = "kafka" /\ w \in here.workers /\ At(w, "read")
      /\ UNCHANGED <<log, gone, cursor, given, here, indexed, documents, rows>>
  BY DEF FetchMessage, topic, broker, past, effects
<1>2. loop \in [Worker -> Loop] /\ loop[w] \in Loop /\ loop' = [loop EXCEPT ![w].at = @ + 1, ![w].pc = "call"]
  BY DEF Inv, Types, FetchMessage
<1>3. /\ \A v \in Worker \ {w} : loop'[v] = loop[v]
      /\ loop'[w].pc = "call" /\ loop'[w].at = loop[w].at + 1 /\ loop'[w].mark = loop[w].mark
      /\ loop[w].at \in Nat
  BY <1>2 DEF Loop
<1>4. Place(w) = loop[w].at /\ Place(w)' = loop[w].at + 1 - 1
  BY <1>1, <1>3 DEF Place, At
<1>5. Place(w)' = Place(w) /\ Place(w) \in Int
  BY <1>3, <1>4
<1>6. Kept'
  BY <1>1 DEF Kept, Undisturbed
<1>7. InStep(w) => InStep(w)'
  BY <1>1, <1>3, <1>5 DEF InStep
<1> QED
  BY <1>1, <1>3, <1>5, <1>6, <1>7, QuietEffects

LEMMA AckEffects ==
    ASSUME Inv, EffectInv, NEW w \in Worker, Ack(w), UNCHANGED effects
    PROVE  EffectInv'
<1>1. /\ here.bus = "redis" /\ At(w, "ack")
      /\ UNCHANGED <<log, gone, cursor, given, here, indexed, documents, rows>>
  BY DEF Ack, topic, past, effects
<1>2. loop \in [Worker -> Loop] /\ loop[w] \in Loop /\ w \in here.workers
  BY <1>1 DEF Inv, Types, EffectInv, Bounded, At
<1>3. /\ \A v \in Worker \ {w} : loop'[v] = loop[v]
      /\ loop'[w].last = loop[w].last /\ loop[w].at \in Nat /\ loop[w].last \in Nat
      /\ \/ loop[w].at < loop[w].last /\ loop'[w].pc = "call" /\ loop'[w].at = loop[w].at + 1
         \/ loop[w].at >= loop[w].last /\ loop'[w].pc = "read" /\ loop'[w].at = loop[w].at
  <2>1. CASE loop[w].at < loop[w].last
    <3>1. loop' = [loop EXCEPT ![w].pc = "call", ![w].at = @ + 1]
      BY <1>1, <2>1 DEF Ack, Onward
    <3> QED
      BY <1>2, <2>1, <3>1 DEF Loop
  <2>2. CASE ~(loop[w].at < loop[w].last)
    <3>1. loop' = [loop EXCEPT ![w].pc = "read"]
      BY <1>1, <2>2 DEF Ack, Onward
    <3> QED
      BY <1>2, <2>2, <3>1 DEF Loop
  <2> QED
    BY <2>1, <2>2
<1>4. Place(w)' = Place(w) /\ Place(w) \in Int
  BY <1>1, <1>3 DEF Place, At
<1>5. \A v \in Worker : Todo(v)' = Todo(v)
  <2>1. Todo(w)' = Todo(w)
    BY <1>1, <1>3 DEF Todo, At
  <2> QED
    BY <1>3, <2>1 DEF Todo, At
<1>6. Kept'
  <2>1. here.workers \subseteq Worker
    BY BusAssumption DEF Inv, Types
  <2> QED
    BY <1>1, <1>5, <2>1 DEF EffectInv, Kept, Undisturbed, Holds
<1>7. InStep(w) => InStep(w)'
  BY <1>1, <1>3 DEF InStep, At
<1> QED
  BY <1>1, <1>2, <1>3, <1>4, <1>6, <1>7, QuietEffects

LEMMA CommitEffects ==
    ASSUME Inv, EffectInv, NEW w \in Worker, CommitMessages(w) \/ CommitTick(w), UNCHANGED effects
    PROVE  EffectInv'
<1>1. /\ here.bus = "kafka" /\ UNCHANGED <<log, gone, given, here, indexed, documents, rows>>
  BY DEF CommitMessages, CommitTick, topic, broker, past, effects
<1>2. loop \in [Worker -> Loop] /\ loop[w] \in Loop /\ cursor \in [Group -> Nat] /\ GroupOf[w] \in Group
      /\ loop[w].at \in Nat /\ loop[w].mark \in Nat
  BY BusAssumption DEF Inv, Types, Loop
<1>3. w \in here.workers
  BY <1>2 DEF EffectInv, Bounded, CommitMessages, CommitTick, At
<1>4. Kept'
  BY <1>1 DEF Kept, Undisturbed
<1>5. CASE CommitMessages(w)
  <2>1. loop' = [loop EXCEPT ![w].pc = "read", ![w].mark = loop[w].at] /\ UNCHANGED cursor /\ At(w, "ack")
    BY <1>5 DEF CommitMessages, broker
  <2>2. /\ \A v \in Worker \ {w} : loop'[v] = loop[v]
        /\ loop'[w].pc = "read" /\ loop'[w].at = loop[w].at /\ loop'[w].mark = loop[w].at
    BY <1>2, <2>1 DEF Loop
  <2>3. Place(w)' = Place(w) /\ Place(w) = loop[w].at
    BY <2>1, <2>2 DEF Place, At
  <2>4. InStep(w) => InStep(w)'
    BY <1>1, <1>2, <2>1, <2>2, <2>3 DEF InStep
  <2> QED
    BY <1>1, <1>2, <1>3, <1>4, <2>1, <2>2, <2>3, <2>4, QuietEffects
<1>6. CASE CommitTick(w)
  <2>1. cursor' = [cursor EXCEPT ![GroupOf[w]] = loop[w].mark] /\ UNCHANGED loop
    BY <1>6 DEF CommitTick
  <2>2. /\ \A h \in Group \ {GroupOf[w]} : cursor'[h] = cursor[h]
        /\ cursor'[GroupOf[w]] = loop[w].mark
    BY <1>2, <2>1
  <2>3. Place(w)' = Place(w) /\ Place(w) \in Int
    BY <1>2, <2>1 DEF Place, At
  <2>4. Sole(w) /\ InStep(w) => InStep(w)'
    BY <1>1, <2>1, <2>2, <2>3 DEF InStep, Sole
  <2> QED
    BY <1>1, <1>3, <1>4, <2>1, <2>2, <2>3, <2>4, QuietEffects
<1> QED
  BY <1>5, <1>6

(* A reader that starts again is at its cursor, never beyond where it was. *)
LEMMA StopEffects ==
    ASSUME Inv, EffectInv, NEW w \in Worker, Stop(w), UNCHANGED effects
    PROVE  EffectInv'
<1>1. /\ w \in here.workers /\ "stop" \in here.faults
      /\ UNCHANGED <<log, gone, cursor, given, here, indexed, documents, rows>>
  BY DEF Stop, May, topic, broker, past, effects
<1>2. loop \in [Worker -> Loop] /\ loop[w] \in Loop /\ cursor \in [Group -> Nat] /\ GroupOf[w] \in Group
      /\ loop[w].at \in Nat /\ here.bus \in {"redis", "kafka"}
  BY BusAssumption DEF Inv, Types, Loop
<1>3. /\ \A v \in Worker \ {w} : loop'[v] = loop[v]
      /\ loop'[w].pc = "read" /\ loop'[w].at = cursor[GroupOf[w]] /\ loop'[w].mark = cursor[GroupOf[w]]
  BY <1>2 DEF Stop, Restarted
<1>4. ~Undisturbed /\ ~Undisturbed'
  BY <1>1 DEF Undisturbed
<1>5. Kept'
  BY <1>4 DEF Kept
<1>6. ASSUME Sole(w), here.bus = "redis" => Undisturbed, InStep(w)
      PROVE  InStep(w)' /\ Place(w)' <= Place(w) /\ Place(w)' \in Int /\ Place(w) \in Int
  <2>1. here.bus = "kafka" /\ GroupOf[w] = es
    BY <1>2, <1>4, <1>6 DEF Sole
  <2>2. Place(w)' = cursor[es] /\ cursor[es] \in Nat /\ cursor[es] <= Place(w)
    BY <1>2, <1>3, <1>6, <2>1 DEF Place, At, InStep
  <2>3. Place(w) \in Int
    BY <1>2 DEF Place
  <2>4. InStep(w)'
    BY <1>1, <1>3, <2>1, <2>2 DEF InStep
  <2> QED
    BY <2>2, <2>3, <2>4
<1> QED
  BY <1>1, <1>3, <1>5, <1>6, QuietEffects

(* A handler that succeeds takes its loop past the entry it was called     *)
(* with; one that fails does so only where failures are allowed.           *)
Called(w) == Call(w, TRUE) \/ (MayFail /\ Call(w, FALSE))
LEMMA HandleLoops ==
    ASSUME Inv, EffectInv, NEW w \in Worker, Called(w)
    PROVE  /\ At(w, "call") /\ w \in here.workers /\ GroupOf[w] \in Group /\ loop[w].at \in Nat
           /\ \A v \in Worker \ {w} : loop'[v] = loop[v]
           /\ loop'[w].mark = loop[w].mark
           /\ \A g \in Group : given'[g] = IF g = GroupOf[w] THEN given[g] \cup {loop[w].at} ELSE given[g]
           /\ UNCHANGED <<log, gone, cursor, here>>
           /\ ~MayFail => loop'[w].pc = "ack" /\ loop'[w].at = loop[w].at /\ loop'[w].last = loop[w].last
<1>1. /\ At(w, "call") /\ GroupOf[w] \in Group /\ UNCHANGED <<log, gone, cursor, here>>
      /\ loop \in [Worker -> Loop] /\ loop[w] \in Loop /\ given \in [Group -> SUBSET Nat]
  BY BusAssumption DEF Inv, Types, Called, Call, topic, broker
<1>2. w \in here.workers /\ loop[w].at \in Nat
  BY <1>1, CallsInside
<1>3. given' = [given EXCEPT ![GroupOf[w]] = @ \cup {loop[w].at}]
  BY DEF Called, Call
<1>4. \A g \in Group : given'[g] = IF g = GroupOf[w] THEN given[g] \cup {loop[w].at} ELSE given[g]
  BY <1>1, <1>3
<1>5. CASE Call(w, TRUE)
  <2>1. loop' = [loop EXCEPT ![w].pc = "ack"]
    BY <1>5 DEF Call
  <2> QED
    BY <1>1, <1>2, <1>4, <2>1 DEF Loop
<1>6. CASE MayFail /\ Call(w, FALSE)
  <2>1. \/ loop' = [loop EXCEPT ![w].pc = "call", ![w].at = @ + 1]
        \/ loop' = [loop EXCEPT ![w].pc = "read"]
    BY <1>6 DEF Call, Onward
  <2>2. (\A v \in Worker \ {w} : loop'[v] = loop[v]) /\ loop'[w].mark = loop[w].mark
    BY <1>1, <2>1 DEF Loop
  <2> QED
    BY <1>1, <1>2, <1>4, <1>6, <2>2
<1> QED
  BY <1>5, <1>6 DEF Called

(* The parts that do not depend on what the handler did. *)
LEMMA HandleKeeps ==
    ASSUME Inv, EffectInv, NEW w \in Worker, Called(w)
    PROVE  Bounded' /\ Kept'
<1>1. Bounded'
  <2>1. \A g \in Group : given'[g] \subseteq 1..Len(log')
    <3>1. loop[w].at \in 1..Len(log) /\ UNCHANGED log
      BY HandleLoops, CallsInside
    <3>2. \A g \in Group : given'[g] \subseteq given[g] \cup {loop[w].at}
      BY HandleLoops
    <3> QED
      BY <3>1, <3>2 DEF EffectInv, Bounded
  <2> QED
    BY <2>1, HandleLoops DEF EffectInv, Bounded, At
<1>2. Kept'
  <2> SUFFICES ASSUME Undisturbed, NEW g \in Group, NEW k \in 1..cursor[g]
               PROVE  k \in given'[g] \/ \E v \in here.workers : GroupOf[v] = g /\ k \in Todo(v)'
    BY HandleLoops DEF Kept, Undisturbed, Holds, EffectInv
  <2>1. ~MayFail
    BY DEF Undisturbed, MayFail
  <2>2. k \in given[g] \/ \E v \in here.workers : GroupOf[v] = g /\ k \in Todo(v)
    BY DEF EffectInv, Kept, Holds
  <2>3. \A v \in Worker \ {w} : Todo(v)' = Todo(v)
    BY HandleLoops DEF Todo, At
  <2>4. \A j \in Todo(w) : j \in Todo(w)' \/ j = loop[w].at
    <3>1. At(w, "call") /\ loop'[w].pc = "ack" /\ loop'[w].at = loop[w].at /\ loop'[w].last = loop[w].last
          /\ loop[w].at \in Nat /\ loop[w].last \in Nat
      BY <2>1, HandleLoops DEF Inv, Types, Loop
    <3> QED
      BY <3>1 DEF Todo, At
  <2>5. here.workers \subseteq Worker
    BY BusAssumption DEF Inv, Types
  <2>6. CASE k \in given[g]
    BY <2>6, HandleLoops
  <2>7. ASSUME NEW v \in here.workers, GroupOf[v] = g, k \in Todo(v)
        PROVE  k \in given'[g] \/ k \in Todo(v)'
    <3>1. CASE v = w
      BY <2>4, <2>7, <3>1, HandleLoops
    <3> QED
      BY <2>3, <2>5, <2>7, <3>1
  <2> QED
    BY <2>2, <2>6, <2>7
<1> QED
  BY <1>1, <1>2

(* A step of a loop that is not the indexer's, or on another topic. *)
LEMMA OtherLoops ==
    ASSUME Inv, EffectInv, NEW w \in Worker, Called(w), UNCHANGED indexed,
           GroupOf[w] # es \/ here.topic # "orders"
    PROVE  IndexHas' /\ IndexInv'
<1>1. UNCHANGED <<log, cursor, here>> /\ \A v \in Worker \ {w} : loop'[v] = loop[v]
  BY HandleLoops
<1>2. IndexHas'
  BY <1>1 DEF EffectInv, IndexHas
<1>3. IndexInv'
  <2> SUFFICES ASSUME here.topic = "orders", ~MayFail, here.bus = "redis" => Undisturbed,
                      NEW v \in Worker, Sole(v)
               PROVE  InStep(v)' /\ UpToDate(v)'
    BY <1>1 DEF IndexInv, MayFail, Undisturbed, Sole
  <2>1. InStep(v) /\ UpToDate(v)
    BY DEF EffectInv, IndexInv
  <2>2. loop'[v] = loop[v]
    BY <1>1 DEF Sole
  <2> QED
    BY <1>1, <2>1, <2>2 DEF InStep, UpToDate, Place, At
<1> QED
  BY <1>2, <1>3

LEMMA HandleOrderEffects ==
    ASSUME Inv, EffectInv, NEW w \in Worker, HandleOrder(w)
    PROVE  EffectInv'
<1> DEFINE k == loop[w].at  e == log[k]
<1>1. GroupOf[w] = es /\ here.topic = "orders" /\ UNCHANGED <<documents, rows>>
  BY DEF HandleOrder
<1>2. /\ Called(w)
      /\ indexed' = [indexed EXCEPT ![e] = k] \/ (MayFail /\ UNCHANGED indexed)
  BY DEF HandleOrder, Called
<1>3. At(w, "call") /\ k \in 1..Len(log) /\ e \in Event /\ w \in here.workers
  <2>1. At(w, "call") /\ log \in Seq(Event)
    BY <1>2, HandleLoops DEF Inv, Types
  <2> QED
    BY <2>1, CallsInside
<1>4. UNCHANGED <<log, cursor, here>> /\ \A v \in Worker \ {w} : loop'[v] = loop[v]
  BY <1>2, HandleLoops
<1>5. Bounded' /\ Kept'
  BY <1>2, HandleKeeps
<1>6. RowsMade' /\ DocumentsMade'
  <2>1. given'[nt] = given[nt]
    BY <1>1, <1>2, ServiceAssumption, HandleLoops
  <2> QED
    BY <1>1, <1>4, <2>1 DEF EffectInv, RowsMade, DocumentsMade, MayFail
<1> HIDE DEF k, e
<1>7. indexed \in [Event -> Nat] /\ k \in Nat
  BY <1>3 DEF EffectInv, EffectTypes
<1>8. EffectTypes'
  BY <1>1, <1>2, <1>3, <1>7 DEF EffectInv, EffectTypes
<1>9. IndexHas'
  <2>1. ASSUME NEW d \in Event, indexed'[d] # 0
        PROVE  indexed'[d] \in 1..Len(log) /\ log[indexed'[d]] = d
    <3>1. \/ indexed'[d] = indexed[d]
          \/ d = e /\ indexed'[d] = k
      BY <1>2, <1>3, <1>7
    <3> QED
      BY <1>3, <2>1, <3>1 DEF EffectInv, IndexHas, e
  <2> QED
    BY <1>4, <2>1 DEF IndexHas
<1>10. IndexInv'
  <2> SUFFICES ASSUME ~MayFail, here.bus = "redis" => Undisturbed, NEW v \in Worker, Sole(v)
               PROVE  InStep(v)' /\ UpToDate(v)'
    BY <1>4 DEF IndexInv, MayFail, Undisturbed, Sole
  <2>1. v = w
    BY <1>1, <1>3 DEF Sole
  <2>2. InStep(w) /\ UpToDate(w)
    BY <1>1, <2>1 DEF EffectInv, IndexInv
  <2>3. indexed' = [indexed EXCEPT ![e] = k]
    BY <1>2
  <2>4. loop'[w].pc = "ack" /\ loop'[w].at = k /\ loop'[w].last = loop[w].last /\ loop'[w].mark = loop[w].mark
    BY <1>2, HandleLoops DEF k
  <2>5. Place(w) = k - 1 /\ Place(w)' = k
    BY <1>3, <2>4 DEF Place, At, k
  <2>6. InStep(w)'
    <3>1. loop[w].mark \in Nat /\ cursor[es] \in Nat /\ here.bus \in {"redis", "kafka"}
      BY BusAssumption, ServiceAssumption DEF Inv, Types, Loop
    <3> QED
      BY <1>3, <1>4, <1>7, <2>2, <2>4, <2>5, <3>1 DEF InStep, At, k
  <2>7. ASSUME NEW j \in 1..k
        PROVE  indexed'[log[j]] >= j
    <3>1. j \in 1..Len(log) /\ log[j] \in Event
      BY <1>3 DEF Inv, Types
    <3>2. CASE log[j] = e
      BY <1>7, <2>3, <3>1, <3>2
    <3>3. CASE log[j] # e
      <4>1. j # k
        BY <3>3 DEF e
      <4>2. j \in 1..Place(w)
        BY <1>7, <2>5, <4>1
      <4> QED
        BY <1>7, <2>2, <2>3, <3>1, <3>3, <4>2 DEF UpToDate
    <3> QED
      BY <3>2, <3>3
  <2> QED
    BY <1>4, <2>1, <2>5, <2>6, <2>7 DEF UpToDate
<1> QED
  BY <1>5, <1>6, <1>8, <1>9, <1>10 DEF EffectInv

LEMMA HandleEventEffects ==
    ASSUME Inv, EffectInv, NEW w \in Worker, HandleEvent(w)
    PROVE  EffectInv'
<1> DEFINE k == loop[w].at
<1>1. GroupOf[w] = es /\ here.topic # "orders" /\ UNCHANGED <<indexed, rows>>
  BY DEF HandleEvent
<1>2. /\ Called(w)
      /\ documents' = documents \cup {k} \/ (MayFail /\ UNCHANGED documents)
  BY DEF HandleEvent, Called
<1>3. k \in Nat /\ UNCHANGED here
  BY <1>2, HandleLoops
<1>4. given'[nt] = given[nt] /\ given'[es] = given[es] \cup {k}
  BY <1>1, <1>2, ServiceAssumption, HandleLoops
<1>5. Bounded' /\ Kept' /\ IndexHas' /\ IndexInv'
  BY <1>1, <1>2, HandleKeeps, OtherLoops
<1>6. EffectTypes'
  BY <1>1, <1>2, <1>3 DEF EffectInv, EffectTypes
<1>7. RowsMade' /\ DocumentsMade'
  BY <1>1, <1>2, <1>3, <1>4 DEF EffectInv, RowsMade, DocumentsMade, MayFail
<1> QED
  BY <1>5, <1>6, <1>7 DEF EffectInv

LEMMA PersistEffects ==
    ASSUME Inv, EffectInv, NEW w \in Worker, PersistAndBroadcast(w)
    PROVE  EffectInv'
<1> DEFINE k == loop[w].at
<1>1. GroupOf[w] = nt /\ Called(w) /\ UNCHANGED <<indexed, documents>>
  BY DEF PersistAndBroadcast, Called
<1>2. \/ rows' = [rows EXCEPT ![k] = @ + 1]
      \/ MayFail /\ UNCHANGED rows
  BY DEF PersistAndBroadcast
<1>3. /\ k \in 1..(MaxEvents + 1) /\ UNCHANGED here
      /\ here.bus = "redis" => k \notin given[nt]
  BY <1>1, HandleLoops, CallsInside
<1>4. given'[es] = given[es] /\ given'[nt] = given[nt] \cup {k}
  BY <1>1, ServiceAssumption, HandleLoops
<1>5. Bounded' /\ Kept' /\ IndexHas' /\ IndexInv'
  BY <1>1, ServiceAssumption, HandleKeeps, OtherLoops
<1> HIDE DEF k
<1>6. rows \in [1..(MaxEvents + 1) -> Nat]
  BY DEF EffectInv, EffectTypes
<1>7. EffectTypes'
  BY <1>1, <1>2, <1>3, <1>6 DEF EffectInv, EffectTypes
<1>8. \A j \in 1..(MaxEvents + 1) :
         rows'[j] = rows[j] \/ (j = k /\ rows'[j] = rows[j] + 1)
  BY <1>2, <1>3, <1>6
<1>9. ~MayFail => rows'[k] = rows[k] + 1
  BY <1>2, <1>3, <1>6
<1>10. RowsMade'
  <2>1. RowsMade
    BY DEF EffectInv
  <2>2. \A j \in 1..(MaxEvents + 1) : j \notin given'[nt] => rows'[j] = 0
    BY <1>4, <1>8, <2>1 DEF RowsMade
  <2>3. here.bus = "redis" => \A j \in 1..(MaxEvents + 1) : rows'[j] <= 1
    BY <1>3, <1>6, <1>8, <2>1 DEF RowsMade
  <2>4. ~MayFail => \A j \in 1..(MaxEvents + 1) : j \in given'[nt] => rows'[j] >= 1
    BY <1>4, <1>6, <1>8, <1>9, <2>1 DEF RowsMade
  <2> QED
    BY <1>3, <2>2, <2>3, <2>4 DEF RowsMade, MayFail
<1>11. DocumentsMade'
  BY <1>1, <1>3, <1>4 DEF EffectInv, DocumentsMade, MayFail
<1> QED
  BY <1>5, <1>7, <1>10, <1>11 DEF EffectInv

LEMMA HandleInv == ASSUME Inv, NEW w \in Worker, Handle(w) PROVE Inv'
<1>1. Call(w, TRUE) \/ Call(w, FALSE)
  BY DEF Handle, HandleOrder, HandleEvent, PersistAndBroadcast
<1> QED
  BY <1>1, CallInv

LEMMA EffectStep ==
    ASSUME Inv, EffectInv, [NextAll]_<<vars, effects>>
    PROVE  Inv' /\ EffectInv'
<1>1. CASE UNCHANGED <<vars, effects>>
  <2>1. Inv'
    BY <1>1, StepInv
  <2>2. UNCHANGED <<log, gone, cursor, loop, given, here, indexed, documents, rows>>
    BY <1>1 DEF vars, topic, broker, past, effects
  <2>3. EffectInv'
    BY <2>2 DEF EffectInv, EffectTypes, Bounded, RowsMade, DocumentsMade, MayFail, Kept, Undisturbed, Holds,
                Todo, At, IndexHas, IndexInv, Sole, InStep, UpToDate, Place
  <2> QED
    BY <2>1, <2>3
<1>2. ASSUME NEW e \in Event, Publish(e), UNCHANGED effects
      PROVE  Inv' /\ EffectInv'
  BY <1>2, PublishInv, PublishEffects
<1>3. ASSUME NEW w \in Worker, Handle(w)
      PROVE  Inv' /\ EffectInv'
  BY <1>3, HandleInv, HandleOrderEffects, HandleEventEffects, PersistEffects DEF Handle
<1>4. ASSUME NEW w \in Worker, Receive(w) \/ Confirm(w) \/ Stop(w), UNCHANGED effects
      PROVE  Inv' /\ EffectInv'
  BY <1>4, ReadGroupInv, FetchMessageInv, AckInv, CommitInv, StopInv,
     ReadGroupEffects, FetchEffects, AckEffects, CommitEffects, StopEffects DEF Receive, Confirm
<1> QED
  BY <1>1, <1>2, <1>3, <1>4 DEF NextAll, Work

(* The one loop of the indexer. *)
LEMMA OneLoopIsSole ==
    ASSUME Inv, OneLoop(es)
    PROVE  \E w \in Worker : Sole(w)
<1> DEFINE S == {w \in here.workers : GroupOf[w] = es}
<1>1. S \subseteq Worker /\ IsFiniteSet(S) /\ Cardinality(S) = 1
  <2>1. here.workers \subseteq Worker /\ IsFiniteSet(Worker)
    BY BusAssumption DEF Inv, Types
  <2>2. S \subseteq Worker
    BY <2>1
  <2> QED
    BY <2>1, <2>2, FS_Subset DEF OneLoop
<1>2. S # {}
  BY <1>1, FS_EmptySet
<1>3. PICK w \in S : TRUE
  BY <1>2
<1> HIDE DEF S
<1>4. IsFiniteSet(S \ {w}) /\ Cardinality(S \ {w}) = 0
  <2>1. IsFiniteSet(S \ {w}) /\ Cardinality(S \ {w}) = Cardinality(S) - 1
    BY <1>1, <1>3, FS_RemoveElement
  <2> QED
    BY <1>1, <2>1
<1>5. S \ {w} = {}
  BY <1>4, FS_EmptySet
<1> QED
  BY <1>1, <1>3, <1>5 DEF S, Sole

(* A group whose loops have caught up was given everything. *)
LEMMA AllGiven ==
    ASSUME Inv, EffectInv, Reliable, NEW g \in Group, Served(g), CaughtUp(g)
    PROVE  1..Len(log) \subseteq given[g]
<1>1. PICK w \in here.workers : GroupOf[w] = g
  BY DEF Served
<1>2. w \in Worker /\ At(w, "read") /\ here.bus \in {"redis", "kafka"}
      /\ (IF here.bus = "redis" THEN cursor[g] ELSE loop[w].at) = Len(log)
  BY <1>1, BusAssumption DEF CaughtUp, Inv, Types
<1>3. CASE here.bus = "redis"
  <2>1. Undisturbed
    BY <1>3 DEF Reliable, Undisturbed
  <2>2. cursor[g] = Len(log)
    BY <1>2, <1>3
  <2>3. \A v \in here.workers : GroupOf[v] = g => Todo(v) = {}
    BY DEF CaughtUp, Todo, At
  <2>4. \A k \in 1..Len(log) : Holds(g, k)
    BY <2>1, <2>2 DEF EffectInv, Kept
  <2> QED
    BY <2>3, <2>4 DEF Holds
<1>4. CASE here.bus = "kafka"
  BY <1>1, <1>2, <1>4 DEF Inv, KafkaInv, Reached, Passed, At
<1> QED
  BY <1>2, <1>3, <1>4

(* Where the one loop of the indexer is, when it has caught up. *)
LEMMA AtTheEnd ==
    ASSUME Inv, EffectInv, Reliable, ~MayFail, here.topic = "orders", CaughtUp(es),
           NEW w \in Worker, Sole(w)
    PROVE  \A k \in 1..Len(log) : indexed[log[k]] >= k
<1>1. w \in here.workers /\ GroupOf[w] = es /\ here.bus \in {"redis", "kafka"}
  BY BusAssumption DEF Sole, Inv, Types
<1>2. At(w, "read") /\ (IF here.bus = "redis" THEN cursor[es] ELSE loop[w].at) = Len(log)
  BY <1>1 DEF CaughtUp
<1>3. InStep(w) /\ UpToDate(w)
  BY <1>1 DEF EffectInv, IndexInv, Reliable, Undisturbed
<1>4. Place(w) = Len(log)
  BY <1>1, <1>2, <1>3 DEF Place, At, InStep
<1> QED
  BY <1>3, <1>4 DEF UpToDate

LEMMA LastIsShown ==
    ASSUME Inv, EffectInv, \A k \in 1..Len(log) : indexed[log[k]] >= k, NEW e \in Event
    PROVE  indexed[e] = LastOf(e)
<1> DEFINE LastPlace(k) == log[k] = e /\ \A j \in (k + 1)..Len(log) : log[j] # e
<1>1. Len(log) \in Nat /\ indexed[e] \in Nat
  BY DEF Inv, Types, EffectInv, EffectTypes
<1>2. \A k \in 1..Len(log) : log[k] = e => indexed[e] >= k
  OBVIOUS
<1>3. CASE indexed[e] = 0
  BY <1>1, <1>2, <1>3 DEF LastOf
<1>4. CASE indexed[e] # 0
  <2>1. indexed[e] \in 1..Len(log) /\ log[indexed[e]] = e
    BY <1>4 DEF EffectInv, IndexHas
  <2>2. LastPlace(indexed[e])
    BY <1>1, <1>2, <2>1
  <2>3. \A k \in 1..Len(log) : LastPlace(k) => k = indexed[e]
    BY <1>1, <1>2, <2>1
  <2>4. (CHOOSE k \in 1..Len(log) : LastPlace(k)) = indexed[e]
    <3> HIDE DEF LastPlace
    <3> QED
      BY <2>1, <2>2, <2>3
  <2> QED
    BY <2>1, <2>4 DEF LastOf
<1> QED
  BY <1>3, <1>4

LEMMA EffectsFollow ==
    ASSUME Inv, EffectInv
    PROVE  EffectsAreWhole
<1>1. ASSUME Reliable, ~MayFail, Served(es), CaughtUp(es)
      PROVE  IndexIsLatest /\ (here.topic = "others" => documents = 1..Len(log))
  <2>1. given[es] = 1..Len(log)
    BY <1>1, ServiceAssumption, AllGiven DEF EffectInv, Bounded
  <2>2. here.topic = "others" => documents = 1..Len(log)
    BY <1>1, <2>1 DEF EffectInv, DocumentsMade
  <2>3. ASSUME here.topic = "orders", OneLoop(es)
        PROVE  \A e \in Event : indexed[e] = LastOf(e)
    BY <1>1, <2>3, OneLoopIsSole, AtTheEnd, LastIsShown
  <2> QED
    BY <2>2, <2>3 DEF IndexIsLatest
<1>2. \A k \in 1..Len(log) : k \in 1..(MaxEvents + 1)
  BY BusAssumption DEF EffectInv, Bounded, Inv, Types
<1>3. ASSUME Reliable, ~MayFail, Served(nt), CaughtUp(nt)
      PROVE  \A k \in 1..Len(log) : rows[k] >= 1
  BY <1>2, <1>3, ServiceAssumption, AllGiven DEF EffectInv, RowsMade
<1>4. here.bus = "redis" => \A k \in 1..Len(log) : rows[k] <= 1
  BY <1>2 DEF EffectInv, RowsMade
<1> QED
  BY <1>1, <1>3, <1>4 DEF EffectsAreWhole

(* When a service has caught up with the bus, what it keeps is whole: the  *)
(* documents of orders show the last states although restarts handed old   *)
(* ones out again, every other event has its document, no event is without *)
(* its notification, and over Redis none has two.  For any number of       *)
(* loops, events, stops and lost replies, and any interleaving.            *)
THEOREM ServicesAreWhole == SpecAll => []EffectsAreWhole
<1>1. InitAll => Inv /\ EffectInv
  BY EffectInit
<1>2. Inv /\ EffectInv /\ [NextAll]_<<vars, effects>> => (Inv /\ EffectInv)'
  BY EffectStep
<1>3. Inv /\ EffectInv => EffectsAreWhole
  BY EffectsFollow
<1> QED
  BY <1>1, <1>2, <1>3, PTL DEF SpecAll

-----------------------------------------------------------------------------
(* The hub                                                                 *)

HubTypes ==
    /\ setting \in Setting /\ sent \in Nat /\ redis \in Seq(Nat) /\ local \in Seq(Nat)
    /\ run \in [pc : {"select", "add", "remove", "fan"}, client : Client \cup {Nobody}]
    /\ fan \in [Fan -> [msg : Nat, todo : SUBSET Client]]
    /\ clients \subseteq Client /\ closed \subseteq Client
    /\ buffer \in [Client -> Seq(Nat)] /\ received \in [Client -> Seq(Nat)]
    /\ conn \in [Client -> {"none", "asking", "open", "closed"}]

(* Who is fanned out to is registered, who is registered is not closed,    *)
(* and nobody comes back after that.                                       *)
Seen == {c \in Client : conn[c] \in {"open", "closed"}}
Positive(q) == \A i \in 1..Len(q) : q[i] > 0
Visits(f) == /\ fan[f].todo \subseteq clients
             /\ fan[f].msg = 0 => fan[f].todo = {}
Safe ==
    /\ ~panicked
    /\ clients \subseteq Seen \ closed /\ closed \subseteq Seen
    /\ run.pc = "add" => run.client \in Seen \ closed
    /\ \A f \in Fan : Visits(f)
    /\ Positive(redis) /\ Positive(local)

SafeInv == HubTypes /\ Safe

LEMMA InitSafe == ASSUME HubInit PROVE SafeInv
BY HubAssumption DEF HubInit, SafeInv, HubTypes, Safe, Seen, Positive, Visits

LEMMA BroadcastSafe == ASSUME SafeInv, Broadcast PROVE SafeInv'
<1>1. sent' \in Nat /\ sent' > 0
  BY DEF SafeInv, HubTypes, Broadcast
<1>2. \A q \in Seq(Nat) : /\ Append(q, sent') \in Seq(Nat)
                          /\ Positive(q) => Positive(Append(q, sent'))
  BY <1>1 DEF Positive
<1>3. /\ redis' \in {redis, Append(redis, sent')} /\ local' \in {local, Append(local, sent')}
      /\ UNCHANGED <<setting, run, fan, clients, closed, buffer, received, conn, panicked>>
  BY DEF Broadcast, Locally, queues, chans, pumps
<1> QED
  BY <1>1, <1>2, <1>3 DEF SafeInv, HubTypes, Safe, Seen, Visits

LEMMA RegisterSafe ==
  ASSUME SafeInv, NEW c \in Client, Connect(c) \/ Register(c) PROVE SafeInv'
<1>1. UNCHANGED <<setting, sent, redis, local, fan, clients, closed, buffer, received, panicked>>
  BY DEF Connect, Register, queues, chans
<1>2. CASE Connect(c)
  BY <1>1, <1>2 DEF Connect, SafeInv, HubTypes, Safe, Seen, Visits, Positive
<1>3. CASE Register(c)
  <2>1. Seen' = Seen \cup {c} /\ c \notin closed
    BY <1>1, <1>3 DEF Register, SafeInv, HubTypes, Safe, Seen
  <2>2. HubTypes'
    BY <1>1, <1>3 DEF Register, SafeInv, HubTypes, RunAs
  <2> QED
    BY <1>1, <1>3, <2>1, <2>2 DEF Register, RunAs, SafeInv, Safe, Visits, Positive
<1> QED
  BY <1>2, <1>3

LEMMA NoReader == ASSUME SafeInv, ~ReadLocked PROVE \A f \in Fan : fan[f].todo = {}
BY DEF SafeInv, Safe, Visits, ReadLocked

LEMMA RunSafe == ASSUME SafeInv, AddClient \/ RemoveClient PROVE SafeInv'
<1>1. UNCHANGED <<setting, sent, redis, local, fan, buffer, received, conn>>
  BY DEF AddClient, RemoveClient, queues, chans, pumps
<1>2. run' = [pc |-> "select", client |-> Nobody] /\ \A f \in Fan : fan[f].todo = {}
  BY NoReader DEF AddClient, RemoveClient, RunAs
<1>3. CASE AddClient
  <2>1. clients' = clients \cup {run.client} /\ run.client \in Seen \ closed
        /\ UNCHANGED <<closed, panicked>>
    BY <1>3 DEF AddClient, SafeInv, Safe, chans
  <2> QED
    BY <1>1, <1>2, <2>1 DEF SafeInv, HubTypes, Safe, Seen, Visits, Positive
<1>4. CASE RemoveClient
  <2>1. /\ clients' = clients \ {run.client}
        /\ closed' = IF run.client \in clients THEN closed \cup {run.client} ELSE closed
        /\ panicked' = (panicked \/ run.client \in clients \cap closed)
    BY <1>4 DEF RemoveClient
  <2>2. ~panicked'
    BY <2>1 DEF SafeInv, Safe
  <2>3. clients' \subseteq Seen \ closed' /\ closed' \subseteq Seen /\ closed' \subseteq Client
    BY <2>1 DEF SafeInv, HubTypes, Safe
  <2> QED
    BY <1>1, <1>2, <2>1, <2>2, <2>3 DEF SafeInv, HubTypes, Safe, Seen, Visits, Positive
<1> QED
  BY <1>3, <1>4

LEMMA TakeSafe == ASSUME SafeInv, TakeLocal \/ TakeRedis PROVE SafeInv'
<1>1. UNCHANGED <<setting, sent, clients, closed, buffer, received, conn, panicked>>
  BY DEF TakeLocal, TakeRedis, chans, pumps
<1>2. \A q \in Seq(Nat) : q # <<>> /\ Positive(q) =>
         Head(q) \in Nat \ {0} /\ Tail(q) \in Seq(Nat) /\ Positive(Tail(q))
  BY DEF Positive
<1>3. /\ redis' \in Seq(Nat) /\ local' \in Seq(Nat) /\ Positive(redis') /\ Positive(local')
      /\ run' = run \/ run' = [pc |-> "fan", client |-> Nobody]
      /\ \E f \in Fan, m \in Nat \ {0} : fan' = [fan EXCEPT ![f] = [msg |-> m, todo |-> clients]]
  BY <1>2 DEF TakeLocal, TakeRedis, RunAs, SafeInv, HubTypes, Safe, Fan
<1> QED
  BY <1>1, <1>3 DEF SafeInv, HubTypes, Safe, Seen, Visits, Positive

(* A step that only leaves fewer clients to visit. *)
Fewer == \A f \in Fan : /\ fan'[f].todo \subseteq fan[f].todo
                        /\ fan'[f].msg = fan[f].msg \/ (fan'[f].msg = 0 /\ fan'[f].todo = {})

LEMMA VisitedFewer ==
  ASSUME HubTypes, NEW f \in Fan, NEW c \in Client, Visited(f, c)
  PROVE  fan' \in [Fan -> [msg : Nat, todo : SUBSET Client]] /\ Fewer
BY DEF Visited, HubTypes, Fewer

LEMMA FannedOutFewer ==
  ASSUME HubTypes, NEW f \in Fan, FannedOut(f)
  PROVE  fan' \in [Fan -> [msg : Nat, todo : SUBSET Client]] /\ Fewer
BY DEF FannedOut, HubTypes, Fewer

LEMMA FewerSafe ==
  ASSUME SafeInv, Fewer, fan' \in [Fan -> [msg : Nat, todo : SUBSET Client]],
         UNCHANGED <<setting, sent, redis, local, clients, closed, conn, received, panicked>>,
         buffer' \in [Client -> Seq(Nat)],
         run' = run \/ \E l \in {"select", "remove"}, d \in Client \cup {Nobody} :
                          run' = [pc |-> l, client |-> d]
  PROVE  SafeInv'
<1>1. HubTypes'
  BY DEF SafeInv, HubTypes
<1>2. \A f \in Fan : Visits(f)'
  BY DEF SafeInv, Safe, Visits, Fewer
<1> QED
  BY <1>1, <1>2 DEF SafeInv, HubTypes, Safe, Seen, Positive

LEMMA VisitSafe == ASSUME SafeInv, NEW f \in Fan, Visit(f) PROVE SafeInv'
<1> USE DEF queues, chans, pumps
<1>0. HubTypes
  BY DEF SafeInv
<1>1. CASE FannedOut(f)
  <2>1. run' = run \/ run' = [pc |-> "select", client |-> Nobody]
    BY <1>1 DEF FannedOut, RunAs
  <2>2. UNCHANGED <<setting, sent, redis, local, clients, closed, conn, received, panicked, buffer>>
    BY <1>1 DEF FannedOut
  <2> QED
    BY <1>0, <1>1, <2>1, <2>2, FannedOutFewer, FewerSafe DEF HubTypes
<1>2. ASSUME NEW c \in Client, Send(f, c) PROVE SafeInv'
  <2>1. c \notin closed
    BY <1>2 DEF Send, SafeInv, Safe, Visits
  <2>2. UNCHANGED <<setting, sent, redis, local, run, clients, closed, conn, received, panicked>>
    BY <1>2, <2>1 DEF Send
  <2>3. buffer' = buffer \/ buffer' = [buffer EXCEPT ![c] = Append(@, fan[f].msg)]
    BY <1>2, <2>1 DEF Send
  <2>4. buffer' \in [Client -> Seq(Nat)]
    <3>1. fan[f].msg \in Nat /\ buffer[c] \in Seq(Nat)
      BY <1>0 DEF HubTypes
    <3>2. Append(buffer[c], fan[f].msg) \in Seq(Nat)
      BY <3>1
    <3> QED
      BY <1>0, <2>3, <3>2 DEF HubTypes
  <2>5. Visited(f, c)
    BY <1>2 DEF Send
  <2> QED
    BY <1>0, <2>2, <2>4, <2>5, VisitedFewer, FewerSafe
<1>3. ASSUME NEW c \in Client, DropSlow(f, c) PROVE SafeInv'
  <2>1. run' = run \/ run' = [pc |-> "remove", client |-> c]
    BY <1>3 DEF DropSlow, RunAs
  <2>2. UNCHANGED <<setting, sent, redis, local, clients, closed, conn, received, panicked, buffer>>
    BY <1>3 DEF DropSlow
  <2>3. Visited(f, c)
    BY <1>3 DEF DropSlow
  <2> QED
    BY <1>0, <2>1, <2>2, <2>3, VisitedFewer, FewerSafe DEF HubTypes
<1> QED
  BY <1>1, <1>2, <1>3 DEF Visit

LEMMA PumpSafe ==
  ASSUME SafeInv, NEW c \in Client,
         Subscribe(c) \/ Disconnect(c) \/ ReadStep(c) \/ Write(c) \/ WriteEnds(c)
  PROVE  SafeInv'
<1> USE DEF Subscribe, Disconnect, ReadStep, ReadFails, Unregister, Write, WriteEnds, queues,
            chans, pumps
<1>1. UNCHANGED <<setting, sent, redis, local, fan, clients, closed, panicked>>
  OBVIOUS
<1>2. buffer' = buffer \/ (buffer[c] # <<>> /\ buffer' = [buffer EXCEPT ![c] = Tail(@)])
  OBVIOUS
<1>3. \/ received' = received
      \/ buffer[c] # <<>> /\ received' = [received EXCEPT ![c] = Append(@, Head(buffer[c]))]
  OBVIOUS
<1>4. run' = run \/ run' = [pc |-> "remove", client |-> c]
  BY DEF RunAs
<1>5. conn' = conn \/ conn' = [conn EXCEPT ![c] = "closed"]
  OBVIOUS
<1>6. buffer[c] \in Seq(Nat) /\ received[c] \in Seq(Nat)
  BY DEF SafeInv, HubTypes
<1>7. buffer[c] # <<>> => Tail(buffer[c]) \in Seq(Nat) /\ Head(buffer[c]) \in Nat
  BY <1>6, HeadTailProperties
<1>8. buffer' \in [Client -> Seq(Nat)] /\ received' \in [Client -> Seq(Nat)]
  <2>1. buffer \in [Client -> Seq(Nat)] /\ received \in [Client -> Seq(Nat)]
    BY DEF SafeInv, HubTypes
  <2>2. buffer[c] # <<>> => Append(received[c], Head(buffer[c])) \in Seq(Nat)
    BY <1>6, <1>7
  <2>3. buffer' \in [Client -> Seq(Nat)]
    BY ONLY <1>2, <1>7, <2>1
  <2> QED
    BY ONLY <1>3, <2>1, <2>2, <2>3
<1>9. HubTypes'
  <2>1. conn' \in [Client -> {"none", "asking", "open", "closed"}]
    BY ONLY <1>5, SafeInv DEF SafeInv, HubTypes
  <2>2. run' \in [pc : {"select", "add", "remove", "fan"}, client : Client \cup {Nobody}]
    BY ONLY <1>4, SafeInv, c \in Client DEF SafeInv, HubTypes
  <2> QED
    BY ONLY <1>1, <1>8, <2>1, <2>2, SafeInv DEF SafeInv, HubTypes
<1>10. Seen \subseteq Seen'
  BY <1>5 DEF SafeInv, HubTypes, Seen
<1> QED
  BY <1>1, <1>4, <1>9, <1>10 DEF SafeInv, Safe, Visits, Positive

LEMMA StepSafe == ASSUME SafeInv, [HubNext]_hubVars PROVE SafeInv'
<1>1. CASE UNCHANGED hubVars
  BY <1>1 DEF hubVars, queues, chans, pumps, SafeInv, HubTypes, Safe, Seen, Visits, Positive
<1>2. CASE HubNext
  BY <1>2, BroadcastSafe, RegisterSafe, RunSafe, TakeSafe, VisitSafe, PumpSafe
  DEF HubNext, RunStep, SubscriberStep, Fan
<1> QED
  BY <1>1, <1>2

THEOREM SafeAlways == HubSpec => []SafeInv
BY InitSafe, StepSafe, PTL DEF HubSpec

(* No goroutine ever sends to a client whose channel is closed, or closes  *)
(* it again: whom fanOut still has to visit is registered, and the lock    *)
(* keeps Run from removing anyone meanwhile.                               *)
THEOREM NoPanic == HubSpec => []NeverPanics
<1>1. SafeInv => NeverPanics
  BY DEF SafeInv, Safe, Visits, NeverPanics
<1> QED
  BY <1>1, SafeAlways, PTL

-----------------------------------------------------------------------------
(* Order: by one way, from the queue through the fan-out and the buffer to *)
(* the connection, messages stay in the order of the broadcasts, and what a*)
(* client already has is behind what is still to be given to it.           *)
Elements(q) == {q[i] : i \in 1..Len(q)}
Rising(q) == \A i, j \in 1..Len(q) : i < j => q[i] < q[j]
Waiting == Elements(redis) \cup Elements(local)
Got(c) == Elements(received[c]) \cup Elements(buffer[c])

OneWay ==
    /\ setting.path = "local" => redis = <<>> /\ fan["sub"].msg = 0
    /\ setting.path = "redis" => local = <<>> /\ fan["run"].msg = 0
Queued ==
    /\ Rising(redis) /\ Rising(local)
    /\ \A q \in Waiting : q <= sent /\ \A f \in Fan : fan[f].msg < q
    /\ \A f \in Fan : fan[f].msg <= sent
Above(c) == \A g \in Got(c) :
    /\ g <= sent /\ \A q \in Waiting : g < q
    /\ \A f \in Fan : fan[f].msg # 0 => g <= fan[f].msg /\ (c \in fan[f].todo => g < fan[f].msg)
InLine(c) ==
    /\ Rising(received[c]) /\ Rising(buffer[c])
    /\ \A r \in Elements(received[c]), h \in Elements(buffer[c]) : r < h
Order == OneWay /\ Queued /\ \A c \in Client : Above(c) /\ InLine(c)
OrderInv == SafeInv /\ (setting.path # "home" => Order)

LEMMA Appended ==
  ASSUME NEW q \in Seq(Nat), NEW m \in Nat
  PROVE  /\ Elements(Append(q, m)) = Elements(q) \cup {m}
         /\ Rising(q) /\ (\A e \in Elements(q) : e < m) => Rising(Append(q, m))
<1>1. /\ Len(Append(q, m)) = Len(q) + 1 /\ Append(q, m)[Len(q) + 1] = m
      /\ \A i \in 1..Len(q) : Append(q, m)[i] = q[i]
  OBVIOUS
<1>2. Len(q) \in Nat
  OBVIOUS
<1>3. 1..(Len(q) + 1) = 1..Len(q) \cup {Len(q) + 1}
  BY <1>2
<1>4. Elements(Append(q, m)) = Elements(q) \cup {m}
  BY <1>1, <1>3 DEF Elements
<1>5. ASSUME Rising(q), \A e \in Elements(q) : e < m PROVE Rising(Append(q, m))
  BY <1>1, <1>2, <1>3, <1>5 DEF Rising, Elements
<1> QED
  BY <1>4, <1>5

LEMMA Advanced ==
  ASSUME NEW q \in Seq(Nat), q # <<>>
  PROVE  /\ Tail(q) \in Seq(Nat) /\ Head(q) \in Elements(q) /\ Elements(Tail(q)) \subseteq Elements(q)
         /\ Rising(q) => Rising(Tail(q)) /\ \A e \in Elements(Tail(q)) : Head(q) < e
<1>1. /\ Tail(q) \in Seq(Nat) /\ Len(Tail(q)) = Len(q) - 1 /\ Len(q) \in Nat \ {0}
      /\ \A i \in 1..Len(Tail(q)) : Tail(q)[i] = q[i + 1]
  BY HeadTailProperties
<1>2. Head(q) = q[1] /\ 1 \in 1..Len(q)
  BY <1>1
<1>3. \A i \in 1..Len(Tail(q)) : i + 1 \in 1..Len(q) /\ 1 < i + 1
  BY <1>1
<1>4. Head(q) \in Elements(q) /\ Elements(Tail(q)) \subseteq Elements(q)
  BY <1>1, <1>2, <1>3 DEF Elements
<1>5. ASSUME Rising(q) PROVE Rising(Tail(q)) /\ \A e \in Elements(Tail(q)) : Head(q) < e
  BY <1>1, <1>2, <1>3, <1>5 DEF Rising, Elements
<1> QED
  BY <1>1, <1>4, <1>5

LEMMA ElementsNat == ASSUME NEW q \in Seq(Nat) PROVE Elements(q) \subseteq Nat
BY DEF Elements

LEMMA PositiveWaiting == ASSUME SafeInv PROVE \A q \in Waiting : q \in Nat /\ q > 0
<1>1. ASSUME NEW s \in Seq(Nat), Positive(s) PROVE \A e \in Elements(s) : e \in Nat /\ e > 0
  BY <1>1 DEF Positive, Elements
<1>2. redis \in Seq(Nat) /\ local \in Seq(Nat) /\ Positive(redis) /\ Positive(local)
  BY DEF SafeInv, HubTypes, Safe
<1> QED
  BY <1>1, <1>2 DEF Waiting

LEMMA InitOrder == ASSUME HubInit PROVE Order
<1>1. Elements(<<>>) = {} /\ Rising(<<>>)
  BY DEF Elements, Rising
<1>2. /\ redis = <<>> /\ local = <<>> /\ sent = 0
      /\ \A f \in Fan : fan[f] = [msg |-> 0, todo |-> {}]
      /\ \A c \in Client : buffer[c] = <<>> /\ received[c] = <<>>
  BY DEF HubInit
<1> QED
  BY <1>1, <1>2 DEF Order, OneWay, Queued, Above, InLine, Waiting, Got, Fan

LEMMA BroadcastOrder ==
  ASSUME SafeInv, Order, Broadcast, setting.path # "home" PROVE Order'
<1>1. /\ redis' \in {redis, Append(redis, sent')} /\ local' \in {local, Append(local, sent')}
      /\ setting.path = "local" => redis' = redis
      /\ setting.path = "redis" => local' = local
      /\ sent' = sent + 1 /\ UNCHANGED <<setting, fan, buffer, received>>
  BY DEF Broadcast, Locally, queues, chans
<1>2. /\ redis \in Seq(Nat) /\ local \in Seq(Nat) /\ sent \in Nat
      /\ \A f \in Fan : fan[f].msg \in Nat
      /\ \A c \in Client : buffer[c] \in Seq(Nat) /\ received[c] \in Seq(Nat)
  BY DEF SafeInv, HubTypes
<1>3. Waiting \subseteq Nat /\ \A c \in Client : Got(c) \subseteq Nat
  BY <1>2, ElementsNat DEF Waiting, Got
<1>4. Waiting' \subseteq Waiting \cup {sent + 1}
  <2>1. sent' \in Nat /\ sent' = sent + 1
    BY <1>1, <1>2
  <2>2. Elements(redis') \subseteq Elements(redis) \cup {sent + 1}
    BY <1>1, <1>2, <2>1, Appended
  <2>3. Elements(local') \subseteq Elements(local) \cup {sent + 1}
    BY <1>1, <1>2, <2>1, Appended
  <2> QED
    BY <2>2, <2>3 DEF Waiting
<1>5. Rising(redis') /\ Rising(local')
  <2>1. /\ sent' \in Nat /\ Rising(redis) /\ Rising(local)
        /\ \A q \in Waiting : q < sent'
    BY <1>1, <1>2, <1>3 DEF Order, Queued
  <2>2. /\ \A e \in Elements(redis) : e < sent'
        /\ \A e \in Elements(local) : e < sent'
    BY <2>1 DEF Waiting
  <2>3. Rising(redis')
    BY <1>1, <1>2, <2>1, <2>2, Appended
  <2>4. Rising(local')
    BY <1>1, <1>2, <2>1, <2>2, Appended
  <2> QED
    BY <2>3, <2>4
<1>6. OneWay'
  BY <1>1 DEF Order, OneWay
<1>7. Queued'
  <2>1. Queued
    BY <1>1 DEF Order
  <2>2. sent' = sent + 1 /\ fan' = fan
    BY <1>1
  <2>3. ASSUME NEW q \in Waiting' PROVE q <= sent' /\ \A f \in Fan : fan[f].msg < q
    BY <1>2, <1>3, <1>4, <2>1, <2>2 DEF Queued
  <2>4. \A f \in Fan : fan[f].msg <= sent'
    BY <1>2, <2>1, <2>2 DEF Queued
  <2> QED
    BY <1>5, <2>2, <2>3, <2>4 DEF Queued
<1>8. ASSUME NEW c \in Client PROVE Above(c)' /\ InLine(c)'
  <2>1. Got(c)' = Got(c)
    BY <1>1 DEF Got
  <2>2. Above(c)'
    BY <1>1, <1>2, <1>3, <1>4, <2>1 DEF Order, Above
  <2> QED
    BY <1>1, <2>2 DEF Order, InLine
<1> QED
  BY <1>6, <1>7, <1>8 DEF Order

(* A step that takes something away, or nothing. *)
LEMMA LessOrder ==
  ASSUME SafeInv, Order, Fewer, UNCHANGED <<setting, sent, redis, local, received>>,
         \A c \in Client : \/ buffer'[c] = buffer[c]
                           \/ buffer[c] # <<>> /\ buffer'[c] = Tail(buffer[c])
  PROVE  Order'
<1>1. Waiting' = Waiting
  BY DEF Waiting
<1>2. OneWay'
  BY DEF Order, OneWay, Fewer, Fan
<1>3. Queued'
  <2>1. \A q \in Waiting : q \in Nat /\ q > 0
    BY PositiveWaiting
  <2>2. \A f \in Fan : fan'[f].msg = fan[f].msg \/ fan'[f].msg = 0
    BY DEF Fewer
  <2>3. sent \in Nat /\ Rising(redis') /\ Rising(local')
    BY DEF SafeInv, HubTypes, Order, Queued
  <2>4. \A q \in Waiting : q <= sent /\ \A f \in Fan : fan'[f].msg < q
    BY <2>1, <2>2 DEF Order, Queued
  <2>5. \A f \in Fan : fan'[f].msg <= sent
    BY <2>2, <2>3 DEF Order, Queued
  <2> QED
    BY <1>1, <2>3, <2>4, <2>5 DEF Queued
<1>4. ASSUME NEW c \in Client PROVE Above(c)' /\ InLine(c)'
  <2>1. Elements(buffer'[c]) \subseteq Elements(buffer[c]) /\ Rising(buffer'[c])
    <3>1. buffer[c] \in Seq(Nat) /\ Rising(buffer[c])
      BY DEF SafeInv, HubTypes, Order, InLine
    <3>2. CASE buffer'[c] = buffer[c]
      BY <3>1, <3>2
    <3>3. CASE buffer[c] # <<>> /\ buffer'[c] = Tail(buffer[c])
      BY <3>1, <3>3, Advanced
    <3> QED
      BY <3>2, <3>3
  <2>2. Got(c)' \subseteq Got(c)
    BY <2>1 DEF Got
  <2>3. Above(c)'
    BY <1>1, <2>2 DEF Order, Above, Fewer
  <2> QED
    BY <2>1, <2>3 DEF Order, InLine
<1> QED
  BY <1>2, <1>3, <1>4 DEF Order

LEMMA TakeOrder ==
  ASSUME SafeInv, Order, setting.path # "home", TakeLocal \/ TakeRedis PROVE Order'
<1>1. /\ redis \in Seq(Nat) /\ local \in Seq(Nat) /\ setting.path \in {"redis", "local"}
      /\ fan \in [Fan -> [msg : Nat, todo : SUBSET Client]] /\ sent \in Nat
  BY HubAssumption DEF SafeInv, HubTypes
<1>2. UNCHANGED <<setting, sent, buffer, received>>
  BY DEF TakeLocal, TakeRedis, chans, pumps
<1>3. PICK f \in Fan, m \in Nat \ {0} :
        /\ fan' = [fan EXCEPT ![f] = [msg |-> m, todo |-> clients]]
        /\ m \in Waiting /\ Waiting' \subseteq Waiting /\ \A q \in Waiting' : m < q
        /\ Rising(redis') /\ Rising(local') /\ OneWay'
  <2>1. CASE TakeRedis
    <3>1. /\ redis # <<>> /\ redis' = Tail(redis) /\ UNCHANGED <<setting, local>>
          /\ fan' = [fan EXCEPT !["sub"] = [msg |-> Head(redis), todo |-> clients]]
      BY <2>1 DEF TakeRedis
    <3>2. setting.path = "redis" /\ local = <<>> /\ fan["run"].msg = 0 /\ Rising(redis)
      BY <1>1, <3>1 DEF Order, OneWay, Queued
    <3>3. Waiting = Elements(redis) /\ Waiting' = Elements(redis')
      BY <3>1, <3>2 DEF Waiting, Elements
    <3>4. /\ Head(redis) \in Waiting /\ Waiting' \subseteq Waiting /\ Rising(redis')
          /\ \A q \in Waiting' : Head(redis) < q
      BY <1>1, <3>1, <3>2, <3>3, Advanced
    <3>5. Rising(local') /\ OneWay'
      BY <1>1, <3>1, <3>2 DEF OneWay, Rising, Fan
    <3>6. Head(redis) \in Nat \ {0}
      BY <3>4, PositiveWaiting
    <3> QED
      BY <3>1, <3>4, <3>5, <3>6 DEF Fan
  <2>2. CASE TakeLocal
    <3>1. /\ local # <<>> /\ local' = Tail(local) /\ UNCHANGED <<setting, redis>>
          /\ fan' = [fan EXCEPT !["run"] = [msg |-> Head(local), todo |-> clients]]
      BY <2>2 DEF TakeLocal
    <3>2. setting.path = "local" /\ redis = <<>> /\ fan["sub"].msg = 0 /\ Rising(local)
      BY <1>1, <3>1 DEF Order, OneWay, Queued
    <3>3. Waiting = Elements(local) /\ Waiting' = Elements(local')
      BY <3>1, <3>2 DEF Waiting, Elements
    <3>4. /\ Head(local) \in Waiting /\ Waiting' \subseteq Waiting /\ Rising(local')
          /\ \A q \in Waiting' : Head(local) < q
      BY <1>1, <3>1, <3>2, <3>3, Advanced
    <3>5. Rising(redis') /\ OneWay'
      BY <1>1, <3>1, <3>2 DEF OneWay, Rising, Fan
    <3>6. Head(local) \in Nat \ {0}
      BY <3>4, PositiveWaiting
    <3> QED
      BY <3>1, <3>4, <3>5, <3>6 DEF Fan
  <2> QED
    BY <2>1, <2>2
<1>4. \A g \in Fan : fan'[g] = IF g = f THEN [msg |-> m, todo |-> clients] ELSE fan[g]
  BY <1>1, <1>3
<1>5. Queued'
  <2>1. m <= sent
    BY <1>3 DEF Order, Queued
  <2>2. \A g \in Fan : fan'[g].msg <= sent /\ \A q \in Waiting' : fan'[g].msg < q
    BY <1>3, <1>4, <2>1 DEF Order, Queued
  <2> QED
    BY <1>2, <1>3, <2>2 DEF Order, Queued
<1>6. ASSUME NEW c \in Client PROVE Above(c)' /\ InLine(c)'
  <2>1. Got(c)' = Got(c)
    BY <1>2 DEF Got
  <2>2. \A g \in Got(c) : g < m
    BY <1>3 DEF Order, Above
  <2>3. Got(c) \subseteq Nat
    BY ElementsNat DEF Got, SafeInv, HubTypes
  <2>4. Above(c)'
    BY <1>2, <1>3, <1>4, <2>1, <2>2, <2>3 DEF Order, Above
  <2> QED
    BY <1>2, <2>4 DEF Order, InLine
<1> QED
  BY <1>3, <1>5, <1>6 DEF Order

LEMMA SendOrder ==
  ASSUME SafeInv, Order, setting.path # "home", NEW f \in Fan, NEW c \in Client, Send(f, c)
  PROVE  Order'
<1>1. /\ setting.path \in {"redis", "local"} /\ sent \in Nat
      /\ fan \in [Fan -> [msg : Nat, todo : SUBSET Client]]
      /\ buffer \in [Client -> Seq(Nat)] /\ received \in [Client -> Seq(Nat)]
  BY HubAssumption DEF SafeInv, HubTypes
<1>2. Fewer /\ \A g \in Fan : fan'[g].todo = IF g = f THEN fan[g].todo \ {c} ELSE fan[g].todo
  <2>1. Visited(f, c) /\ HubTypes
    BY DEF Send, SafeInv
  <2> QED
    BY <1>1, <2>1, VisitedFewer DEF Visited
<1>3. UNCHANGED <<setting, sent, redis, local, received>>
  BY DEF Send, queues, pumps
<1>4. CASE buffer' = buffer
  BY <1>2, <1>3, <1>4, LessOrder
<1>5. CASE buffer' = [buffer EXCEPT ![c] = Append(@, fan[f].msg)]
  <2> DEFINE m == fan[f].msg
  <2>1. c \in fan[f].todo /\ m \in Nat \ {0}
    BY <1>1 DEF Send, SafeInv, Safe, Visits
  <2>2. \A g \in Fan : fan'[g].msg = fan[g].msg /\ (g # f => fan[g].msg = 0)
    BY <1>1, <1>2, <2>1 DEF Send, Visited, Order, OneWay, Fan
  <2>3. OneWay' /\ Waiting' = Waiting /\ Queued'
    BY <1>3, <2>2 DEF Order, OneWay, Queued, Waiting, Fan
  <2>4. ASSUME NEW d \in Client, d # c PROVE Above(d)' /\ InLine(d)'
    <3>1. buffer'[d] = buffer[d] /\ received'[d] = received[d]
      BY <1>1, <1>3, <1>5, <2>4
    <3>2. Got(d)' = Got(d)
      BY <3>1 DEF Got
    <3>3. Above(d)'
      BY <1>2, <1>3, <2>2, <2>3, <3>2 DEF Order, Above
    <3> QED
      BY <3>1, <3>3 DEF Order, InLine
  <2>5. /\ buffer'[c] = Append(buffer[c], m) /\ buffer[c] \in Seq(Nat)
        /\ received'[c] = received[c] /\ received[c] \in Seq(Nat)
    BY <1>1, <1>3, <1>5
  <2>6. \A g \in Got(c) : g < m
    BY <2>1 DEF Order, Above
  <2>7. Elements(buffer'[c]) = Elements(buffer[c]) \cup {m}
    BY <2>1, <2>5, Appended
  <2>8. Got(c)' = Got(c) \cup {m} /\ Got(c) \subseteq Nat
    BY <2>5, <2>7, ElementsNat DEF Got
  <2>9. Above(c)'
    <3>1. m <= sent /\ \A q \in Waiting : m < q
      BY DEF Order, Queued
    <3>2. \A g \in Got(c) : g <= sent /\ \A q \in Waiting : g < q
      BY DEF Order, Above
    <3>3. \A g \in Got(c) \cup {m} : g <= m
      BY <2>1, <2>6, <2>8
    <3>4. \A e \in Fan : fan'[e].msg # 0 => e = f /\ fan'[e].msg = m /\ c \notin fan'[e].todo
      BY <1>2, <2>2
    <3> QED
      BY <1>3, <2>1, <2>2, <2>3, <2>8, <3>1, <3>2, <3>3, <3>4 DEF Above
  <2>10. InLine(c)'
    <3>1. Rising(received[c]) /\ Rising(buffer[c])
          /\ \A r \in Elements(received[c]), h \in Elements(buffer[c]) : r < h
      BY DEF Order, InLine
    <3>2. Rising(buffer'[c])
      BY <2>1, <2>5, <2>6, <3>1, Appended DEF Got
    <3>3. \A r \in Elements(received'[c]), h \in Elements(buffer'[c]) : r < h
      BY <2>5, <2>6, <2>7, <3>1 DEF Got
    <3> QED
      BY <2>5, <3>1, <3>2, <3>3 DEF InLine
  <2> QED
    BY <2>3, <2>4, <2>9, <2>10 DEF Order
<1> QED
  BY <1>4, <1>5 DEF Send

LEMMA WriteOrder ==
  ASSUME SafeInv, Order, NEW c \in Client, Write(c) PROVE Order'
<1>1. /\ buffer \in [Client -> Seq(Nat)] /\ received \in [Client -> Seq(Nat)]
      /\ UNCHANGED <<setting, sent, redis, local, fan>>
  BY DEF Write, queues, SafeInv, HubTypes
<1>2. /\ buffer[c] # <<>> /\ buffer' = [buffer EXCEPT ![c] = Tail(buffer[c])]
      /\ received' = [received EXCEPT ![c] = Append(received[c], Head(buffer[c]))]
  BY DEF Write
<1>3. OneWay' /\ Waiting' = Waiting /\ Queued'
  BY <1>1 DEF Order, OneWay, Queued, Waiting
<1>4. ASSUME NEW d \in Client, d # c PROVE Above(d)' /\ InLine(d)'
  <2>1. buffer'[d] = buffer[d] /\ received'[d] = received[d]
    BY <1>1, <1>2, <1>4
  <2>2. Above(d)'
    BY <1>1, <1>3, <2>1 DEF Order, Above, Got
  <2> QED
    BY <2>1, <2>2 DEF Order, InLine
<1>5. /\ buffer[c] \in Seq(Nat) /\ received[c] \in Seq(Nat)
      /\ buffer'[c] = Tail(buffer[c]) /\ received'[c] = Append(received[c], Head(buffer[c]))
  BY <1>1, <1>2
<1>6. /\ Rising(received[c]) /\ Rising(buffer[c])
      /\ \A r \in Elements(received[c]), h \in Elements(buffer[c]) : r < h
  BY DEF Order, InLine
<1>7. /\ Head(buffer[c]) \in Elements(buffer[c]) /\ Head(buffer[c]) \in Nat
      /\ Elements(buffer'[c]) \subseteq Elements(buffer[c]) /\ Rising(buffer'[c])
      /\ \A h \in Elements(buffer'[c]) : Head(buffer[c]) < h
  BY <1>2, <1>5, <1>6, Advanced, ElementsNat
<1>8. /\ Elements(received'[c]) = Elements(received[c]) \cup {Head(buffer[c])}
      /\ Rising(received'[c])
  BY <1>5, <1>6, <1>7, Appended
<1>9. Got(c)' \subseteq Got(c)
  BY <1>7, <1>8 DEF Got
<1>10. Above(c)'
  BY <1>1, <1>3, <1>9 DEF Order, Above
<1>11. InLine(c)'
  BY <1>6, <1>7, <1>8 DEF InLine
<1> QED
  BY <1>3, <1>4, <1>10, <1>11 DEF Order

(* The steps that leave the messages alone, but for a client that is not   *)
(* visited any more, or a message that could not be written.               *)
LEMMA OtherOrder ==
  ASSUME SafeInv, Order, NEW c, NEW f \in Fan,
         \/ UNCHANGED hubVars \/ AddClient \/ RemoveClient \/ FannedOut(f)
         \/ c \in Client /\ DropSlow(f, c)
         \/ Connect(c) \/ Register(c) \/ Subscribe(c) \/ Disconnect(c) \/ ReadStep(c)
         \/ WriteEnds(c)
  PROVE  Order'
<1> USE DEF hubVars, queues, chans, pumps
<1>1. UNCHANGED <<setting, sent, redis, local, received>>
  BY DEF AddClient, RemoveClient, FannedOut, DropSlow, Connect, Register, Subscribe, Disconnect,
         ReadStep, ReadFails, Unregister, WriteEnds
<1>2. buffer' = buffer \/ (buffer[c] # <<>> /\ buffer' = [buffer EXCEPT ![c] = Tail(@)])
  BY DEF AddClient, RemoveClient, FannedOut, DropSlow, Connect, Register, Subscribe, Disconnect,
         ReadStep, ReadFails, Unregister, WriteEnds
<1>3. fan' = fan \/ FannedOut(f) \/ (c \in Client /\ Visited(f, c))
  BY DEF AddClient, RemoveClient, DropSlow, Connect, Register, Subscribe, Disconnect,
         ReadStep, ReadFails, Unregister, WriteEnds
<1>4. Fewer
  <2>1. CASE fan' = fan
    BY <2>1 DEF Fewer
  <2>2. CASE FannedOut(f)
    BY <2>2, FannedOutFewer DEF SafeInv
  <2>3. CASE c \in Client /\ Visited(f, c)
    BY <2>3, VisitedFewer DEF SafeInv
  <2> QED
    BY <1>3, <2>1, <2>2, <2>3
<1>5. \A d \in Client : \/ buffer'[d] = buffer[d]
                        \/ buffer[d] # <<>> /\ buffer'[d] = Tail(buffer[d])
  BY <1>2 DEF SafeInv, HubTypes
<1> QED
  BY <1>1, <1>4, <1>5, LessOrder

LEMMA StepOrder ==
  ASSUME SafeInv, Order, setting.path # "home", HubNext PROVE Order'
<1>1. CASE Broadcast
  BY <1>1, BroadcastOrder
<1>2. CASE RunStep \/ SubscriberStep
  <2>1. ASSUME NEW f \in Fan, Visit(f) PROVE Order'
    <3>1. CASE FannedOut(f)
      BY <3>1, OtherOrder
    <3>2. CASE \E c \in Client : Send(f, c) \/ DropSlow(f, c)
      BY <3>2, SendOrder, OtherOrder
    <3> QED
      BY <2>1, <3>1, <3>2 DEF Visit
  <2> QED
    BY <1>2, <2>1, TakeOrder, OtherOrder DEF RunStep, SubscriberStep, Fan
<1>3. ASSUME NEW c \in Client,
             \/ Connect(c) \/ Register(c) \/ Subscribe(c) \/ Disconnect(c)
             \/ ReadStep(c) \/ Write(c) \/ WriteEnds(c)
      PROVE  Order'
  <2>1. "run" \in Fan
    BY DEF Fan
  <2> QED
    BY <1>3, <2>1, WriteOrder, OtherOrder
<1> QED
  BY <1>1, <1>2, <1>3 DEF HubNext

LEMMA KeepsOrder == ASSUME OrderInv, [HubNext]_hubVars PROVE OrderInv'
<1>1. SafeInv'
  BY StepSafe DEF OrderInv
<1>2. setting' = setting
  BY DEF HubNext, RunStep, SubscriberStep, Visit, ReadStep, Broadcast, AddClient, RemoveClient,
         TakeLocal, TakeRedis, FannedOut, Send, DropSlow, Connect, Register, Subscribe,
         Disconnect, ReadFails, Unregister, Write, WriteEnds, hubVars
<1>3. CASE UNCHANGED hubVars
  <2>1. "run" \in Fan
    BY DEF Fan
  <2> QED
    BY <1>1, <1>2, <1>3, <2>1, OtherOrder DEF OrderInv
<1>4. CASE HubNext
  BY <1>1, <1>2, <1>4, StepOrder DEF OrderInv
<1> QED
  BY <1>3, <1>4

(* What a client receives is in the order of the broadcasts, and nothing   *)
(* twice, whoever else leaves, is dropped or stops reading: by one way     *)
(* from the queue to the connection.                                       *)
THEOREM DeliveredInOrder == HubSpec => []InOrder
<1>1. HubInit => OrderInv
  BY InitSafe, InitOrder DEF OrderInv
<1>2. OrderInv /\ [HubNext]_hubVars => OrderInv'
  BY KeepsOrder
<1>3. OrderInv => InOrder
  <2> SUFFICES ASSUME OrderInv, setting.path # "home", NEW c \in Client,
                      NEW i \in DOMAIN received[c], NEW j \in DOMAIN received[c], i < j
               PROVE  received[c][i] < received[c][j]
    BY DEF InOrder
  <2>1. received[c] \in Seq(Nat) /\ Rising(received[c])
    BY DEF OrderInv, SafeInv, HubTypes, Order, InLine
  <2>2. DOMAIN received[c] = 1..Len(received[c])
    BY <2>1
  <2> QED
    BY <2>1, <2>2 DEF Rising
<1> QED
  BY <1>1, <1>2, <1>3, PTL DEF HubSpec

-----------------------------------------------------------------------------
(* What the feeds of market-service hold: the quotes of an interval, the   *)
(* candles in memory, in the table and in the hands of a goroutine.        *)
Quote == [n : Int, vol : Nat]
Candle == [time : 0..MaxTime, open : Int, close : Int, seen : SUBSET Int, volume : Nat]
Feeding == [pc : {"idle", "load", "lock", "flush", "purge", "reset"}, tick : Quote, at : Int,
            old : Candle \cup {NoCandle}]
Processing(f) == feed[f].pc # "idle"
MarketTypes ==
    /\ scenario \in Scenario /\ clock \in 0..MaxTime /\ turnover \in Nat /\ traded \in Nat
    /\ prevVol \in Nat \cup {None}
    /\ prices \in [0..MaxTime -> Seq(Quote)] /\ \A b \in 0..MaxTime : b > clock => prices[b] = <<>>
    /\ live \in Candle \cup {NoCandle} /\ table \in [0..MaxTime -> Candle \cup {NoCandle}]
    /\ feed \in [Feeder -> Feeding]
    /\ \A f \in Feeder : Processing(f) => /\ feed[f].at \in 0..MaxTime
                                          /\ feed[f].tick \in Range(prices[feed[f].at])
    /\ \A f \in Feeder : feed[f].pc = "flush" => feed[f].old \in Candle
    /\ "backfill" \notin scenario.faults => backfill.pc = "due"

(* Quotes are numbered as they come, and no two goroutines have the same.  *)
Numbered ==
    /\ IsFiniteSet(Ticks) /\ \A t \in Ticks : t.n \in 1..Cardinality(Ticks)
    /\ \A f, g \in Feeder : f # g /\ Processing(f) /\ Processing(g) => feed[f].tick.n # feed[g].tick.n

(* What the next message would add is within what was traded.              *)
VolumeBounded == VolumeOf(Ticks) + VolumeDelta <= traded

(* A candle is opened by a quote without volume, which is added twice; no  *)
(* other is in the candle before it is added.                              *)
OpenedEmpty ==
    /\ \A f \in Feeder : feed[f].pc \in {"lock", "flush", "purge", "reset"} => live # NoCandle
    /\ live = NoCandle => /\ feed["bybit"].pc = "idle" => prevVol = None
                          /\ feed["bybit"].pc = "load" => feed["bybit"].tick.vol = 0
    /\ \A f \in Feeder \ {"bybit"} : feed[f].tick.vol = 0
    /\ \A f \in Feeder : Processing(f) /\ live # NoCandle /\ feed[f].tick.vol # 0 =>
                            feed[f].tick.n \notin live.seen

(* A candle has seen quotes of its interval, and counts what they had.     *)
SeenBy(c) == {t \in Range(prices[c.time]) : t.n \in c.seen}
Sound(c) == /\ c.seen \subseteq Numbers(Range(prices[c.time])) \cup {Exchange}
            /\ c.volume <= VolumeOf(SeenBy(c))
AllSound ==
    /\ live # NoCandle => Sound(live)
    /\ \A b \in 0..MaxTime : table[b] # NoCandle => Sound(table[b])
    /\ \A f \in Feeder : feed[f].pc = "flush" => Sound(feed[f].old)

(* One feed, and nothing that fails.                                       *)
OneFeed == Cardinality(scenario.feeders) = 1 /\ scenario.faults \subseteq {"reads"}
CandleFrom(s, b) == [time |-> b, open |-> Head(s).n, close |-> Last(s).n,
                     seen |-> Numbers(Range(s)), volume |-> VolumeOf(Range(s))]
Latest(e, m) == /\ m \in 0..MaxTime /\ e[m] # <<>>
                /\ \A b \in 0..MaxTime : b > m => e[b] = <<>>
Void(e) == \A b \in 0..MaxTime : e[b] = <<>>
Stored(e, m) == \A b \in 0..MaxTime : b < m /\ e[b] # <<>> => table[b] = CandleFrom(e[b], b)
Made(e, m) == Latest(e, m) /\ Stored(e, m) /\ live = CandleFrom(e[m], m)
Whole(e) == (Void(e) /\ live = NoCandle) \/ \E m \in 0..MaxTime : Made(e, m)

(* e: the quotes without t, which a goroutine is about to add.             *)
WholeWith(f, e, t, a) ==
    /\ Latest(prices, a) /\ prices = [e EXCEPT ![a] = Append(@, t)]
    /\ t \notin Range(e[a])
    /\ feed[f].pc = "load" => Whole(e)
    /\ feed[f].pc = "lock" => \/ Void(e) /\ live = Opened(t, a) /\ t.vol = 0
                              \/ \E m \in 0..MaxTime : Made(e, m)
    /\ feed[f].pc \in {"flush", "purge", "reset"} =>
          \E m \in 0..MaxTime : /\ m < a /\ Made(e, m)
                                /\ IF feed[f].pc = "flush" THEN feed[f].old = live ELSE table[m] = live
WholeSoFar ==
    OneFeed => \A f \in scenario.feeders :
        IF Processing(f)
        THEN \E e \in [0..MaxTime -> Seq(Quote)], t \in Quote, a \in 0..MaxTime :
                t = feed[f].tick /\ a = feed[f].at /\ WholeWith(f, e, t, a)
        ELSE \E e \in [0..MaxTime -> Seq(Quote)] : e = prices /\ Whole(e)

(* Volumes of sets of quotes, and sequences that grow by one.              *)
LEMMA VolumeIs ==
    ASSUME NEW S, IsFiniteSet(S), NEW f, \A t \in S : t.vol \in Nat /\ f[t] = t.vol
    PROVE  VolumeOf(S) = Sum(f, S) /\ VolumeOf(S) \in Nat
<1> DEFINE g == [t \in S |-> t.vol]
<1>1. \A t \in S : g[t] \in Nat /\ g[t] \in Int /\ g[t] = f[t]
  OBVIOUS
<1>2. VolumeOf(S) = Sum(g, S)
  BY DEF VolumeOf
<1> HIDE DEF g
<1>3. Sum(g, S) = Sum(f, S)
  BY <1>1, SumSame
<1> QED
  BY <1>1, <1>2, <1>3, SumNat

LEMMA VolumeAdds ==
    ASSUME NEW S, IsFiniteSet(S), \A s \in S : s.vol \in Nat, NEW t, t \notin S, t.vol \in Nat
    PROVE  VolumeOf(S \cup {t}) = VolumeOf(S) + t.vol
<1> DEFINE f == [s \in S \cup {t} |-> s.vol]
<1>1. \A s \in S \cup {t} : s.vol \in Nat /\ f[s] = s.vol /\ f[s] \in Int
  OBVIOUS
<1>2. IsFiniteSet(S \cup {t})
  BY FS_AddElement
<1>3. f[t] = t.vol
  OBVIOUS
<1> HIDE DEF f
<1>4. VolumeOf(S \cup {t}) = Sum(f, S \cup {t})
  BY <1>1, <1>2, VolumeIs
<1>5. VolumeOf(S) = Sum(f, S)
  BY <1>1, VolumeIs
<1>6. Sum(f, S \cup {t}) = Sum(f, S) + f[t]
  BY <1>1, SumAdd
<1> QED
  BY <1>3, <1>4, <1>5, <1>6

LEMMA VolumeGrows ==
    ASSUME NEW T, IsFiniteSet(T), \A t \in T : t.vol \in Nat, NEW S \in SUBSET T
    PROVE  /\ VolumeOf(S) <= VolumeOf(T) /\ VolumeOf(S) \in Nat /\ VolumeOf(T) \in Nat
           /\ IsFiniteSet(S)
<1> DEFINE f == [t \in T |-> t.vol]
           g == [t \in T |-> IF t \in S THEN f[t] ELSE 0]
<1>1. \A t \in T : f[t] = t.vol /\ f[t] \in Int /\ g[t] \in Int /\ g[t] <= f[t]
                   /\ g[t] = IF t \in S THEN f[t] ELSE 0
  OBVIOUS
<1>2. IsFiniteSet(S)
  BY FS_Subset
<1> HIDE DEF f, g
<1>3. VolumeOf(S) = Sum(f, S) /\ VolumeOf(S) \in Nat
  BY <1>1, <1>2, VolumeIs
<1>4. VolumeOf(T) = Sum(f, T) /\ VolumeOf(T) \in Nat
  BY <1>1, VolumeIs
<1>5. Sum(f, S) = Sum(g, T)
  <2>1. \A t \in S : f[t] \in Int
    BY <1>1
  <2> QED
    BY <1>1, <2>1, SumFilter
<1>6. Sum(g, T) <= Sum(f, T)
  BY <1>1, SumMonotone
<1> QED
  BY <1>2, <1>3, <1>4, <1>5, <1>6

LEMMA VolumeNone == VolumeOf({}) = 0
BY SumEmpty DEF VolumeOf

LEMMA QuotesTypes ==
    ASSUME NEW s \in Seq(Quote)
    PROVE  Range(s) \subseteq Quote /\ (s = <<>> <=> Range(s) = {})
<1>1. PICK n : n = Len(s)
  OBVIOUS
<1>2. n \in Nat /\ DOMAIN s = 1..n /\ (s = <<>> <=> n = 0) /\ \A i \in 1..n : s[i] \in Quote
  BY ONLY <1>1, s \in Seq(Quote)
<1>3. n # 0 => 1 \in 1..n
  BY ONLY <1>2
<1>4. Range(s) = {s[i] : i \in 1..n}
  BY <1>2 DEF Range
<1>5. n = 0 => 1..n = {}
  BY ONLY <1>2
<1>6. Range(s) \subseteq Quote
  BY <1>2, <1>4
<1>7. n # 0 => s[1] \in Range(s)
  BY <1>3, <1>4
<1>8. n = 0 => Range(s) = {}
  BY <1>4, <1>5
<1> QED
  BY <1>2, <1>6, <1>7, <1>8

LEMMA QuotesAppend ==
    ASSUME NEW s \in Seq(Quote), NEW t \in Quote
    PROVE  /\ Append(s, t) \in Seq(Quote) /\ Append(s, t) # <<>>
           /\ Range(Append(s, t)) = Range(s) \cup {t}
           /\ Last(Append(s, t)) = t /\ Front(Append(s, t)) = s
           /\ Head(Append(s, t)) = IF s = <<>> THEN t ELSE Head(s)
<1>1. PICK n : n = Len(s)
  OBVIOUS
<1>2. PICK r : r = Append(s, t)
  OBVIOUS
<1>3. n \in Nat /\ DOMAIN s = 1..n /\ (s = <<>> <=> n = 0)
  BY ONLY <1>1, s \in Seq(Quote)
<1>4. r \in Seq(Quote) /\ r # <<>> /\ Len(r) = n + 1 /\ DOMAIN r = 1..(n + 1) /\ r[n + 1] = t
      /\ \A i \in 1..n : r[i] = s[i]
  BY ONLY <1>1, <1>2, s \in Seq(Quote), t \in Quote
<1>5. \A i \in 1..(n + 1) : i = n + 1 \/ i \in 1..n
  BY ONLY <1>3
<1>6. \A i \in 1..n : i \in 1..(n + 1)
  BY ONLY <1>3
<1>7. n + 1 \in 1..(n + 1)
  BY ONLY <1>3
<1>8. Range(r) = Range(s) \cup {t}
  BY ONLY <1>3, <1>4, <1>5, <1>6, <1>7 DEF Range
<1>9. Last(r) = t
  BY <1>4 DEF Last
<1>10. Front(r) = s
  BY <1>2, AppendProperties DEF Front
<1>11. Head(r) = IF s = <<>> THEN t ELSE Head(s)
  <2>1. Head(r) = r[1]
    BY ONLY <1>4
  <2>2. s # <<>> => Head(s) = s[1] /\ 1 \in 1..n
    BY ONLY <1>3, s \in Seq(Quote)
  <2> QED
    BY <1>3, <1>4, <2>1, <2>2
<1> QED
  BY <1>2, <1>4, <1>8, <1>9, <1>10, <1>11

(* The steps: what is outside, a new quote, and one that is worked on.     *)
Quiet == UNCHANGED <<scenario, clock, turnover, traded, prices, prevVol, feed, live, table>>
Arrives(f, vol) == /\ Tick(f, vol) /\ vol \in Nat
                   /\ \/ f = "bybit" /\ vol = VolumeDelta /\ prevVol' = turnover
                      \/ f # "bybit" /\ vol = 0 /\ UNCHANGED prevVol
LEMMA MarketCases ==
    ASSUME MarketTypes, [MarketNext]_marketVars
    PROVE  \/ PassTime \/ Trade \/ RollOff
           \/ \E f \in Feeder, vol \in Nat : Arrives(f, vol)
           \/ \E f \in Feeder : ProcessTick(f)
           \/ UpsertKlines \/ Restart
           \/ Quiet /\ (\/ UNCHANGED backfill
                        \/ backfill.pc = "due" /\ "backfill" \in scenario.faults)
<1>1. CASE UNCHANGED marketVars
  BY <1>1 DEF marketVars, Quiet, world, candles
<1>2. CASE HandleBybitMessage
  <2>1. VolumeDelta \in Nat
    <3>1. turnover \in Nat /\ prevVol \in Nat \cup {None}
      BY DEF MarketTypes
    <3> QED
      BY <3>1 DEF VolumeDelta
  <2>2. Arrives("bybit", VolumeDelta)
    BY <1>2, <2>1 DEF HandleBybitMessage, Arrives
  <2> QED
    BY <2>1, <2>2 DEF Feeder
<1>3. CASE PollForexRates
  <2>1. Arrives("forex", 0)
    BY <1>3 DEF PollForexRates, Arrives
  <2> QED
    BY <2>1 DEF Feeder
<1>4. CASE FetchInitialPrices
  <2>1. Arrives("initial", 0)
    BY <1>4 DEF FetchInitialPrices, Arrives
  <2> QED
    BY <2>1 DEF Feeder
<1>5. CASE ExpirePrice
  BY <1>5 DEF ExpirePrice, Quiet, world, candles
<1>6. CASE ReadRows \/ CacheRows \/ ExpireRows
  BY <1>6 DEF ReadRows, CacheRows, ExpireRows, Quiet, world, candles
<1>7. CASE FetchKlines
  BY <1>7 DEF FetchKlines, Quiet, world, candles
<1> QED
  BY <1>1, <1>2, <1>3, <1>4, <1>5, <1>6, <1>7 DEF MarketNext

LEMMA TicksTypes ==
    ASSUME MarketTypes
    PROVE  /\ \A b \in 0..MaxTime : Range(prices[b]) \subseteq Ticks /\ Range(prices[b]) \subseteq Quote
           /\ Ticks \subseteq Quote /\ \A t \in Ticks : t.vol \in Nat /\ t.n \in Int
<1>1. \A b \in 0..MaxTime : Range(prices[b]) \subseteq Quote
  BY QuotesTypes DEF MarketTypes
<1>2. DOMAIN prices = 0..MaxTime
  BY DEF MarketTypes
<1> QED
  BY <1>1, <1>2 DEF Ticks, Quote

LEMMA ArrivesStep ==
    ASSUME MarketTypes, Numbered, NEW f \in Feeder, NEW vol \in Nat, Arrives(f, vol)
    PROVE  \E t \in Quote :
              /\ t.n = Cardinality(Ticks) + 1 /\ t.vol = vol /\ t \notin Ticks
              /\ f \in scenario.feeders /\ ~Processing(f)
              /\ Cardinality(Ticks) \in Nat
              /\ prices' = [prices EXCEPT ![clock] = Append(@, t)]
              /\ feed' = [feed EXCEPT ![f] = [pc |-> "load", tick |-> t, at |-> clock, old |-> NoCandle]]
              /\ prices' \in [0..MaxTime -> Seq(Quote)] /\ feed' \in [Feeder -> Feeding]
              /\ Ticks' = Ticks \cup {t} /\ IsFiniteSet(Ticks')
              /\ Cardinality(Ticks') = Cardinality(Ticks) + 1
              /\ Range(prices'[clock]) = Range(prices[clock]) \cup {t}
              /\ \A b \in 0..MaxTime : Range(prices[b]) \subseteq Range(prices'[b])
              /\ UNCHANGED <<scenario, clock, turnover, traded, live, table, backfill>>
<1> DEFINE t == [n |-> Cardinality(Ticks) + 1, vol |-> vol]
<1>1. /\ f \in scenario.feeders /\ feed[f].pc = "idle"
      /\ prices' = [prices EXCEPT ![clock] = Append(@, t)]
      /\ feed' = [feed EXCEPT ![f] = [pc |-> "load", tick |-> t, at |-> clock, old |-> NoCandle]]
      /\ UNCHANGED <<scenario, clock, turnover, traded, live, table, backfill>>
  BY DEF Arrives, Tick, FeedAt, world, candles
<1>2. IsFiniteSet(Ticks) /\ (\A s \in Ticks : s.n \in 1..Cardinality(Ticks)) /\ Cardinality(Ticks) \in Nat
  BY FS_CardinalityType DEF Numbered
<1>3. t \in Quote /\ t.n = Cardinality(Ticks) + 1 /\ t.vol = vol
  BY <1>2 DEF Quote
<1>4. t \notin Ticks
  BY <1>2, <1>3
<1> HIDE DEF t
<1>5. prices \in [0..MaxTime -> Seq(Quote)] /\ clock \in 0..MaxTime
  BY DEF MarketTypes
<1>6. prices[clock] \in Seq(Quote)
  BY <1>5
<1>7. Append(prices[clock], t) \in Seq(Quote) /\ Range(Append(prices[clock], t)) = Range(prices[clock]) \cup {t}
  BY <1>3, <1>6, QuotesAppend
<1>8. prices' \in [0..MaxTime -> Seq(Quote)] /\ prices'[clock] = Append(prices[clock], t)
      /\ \A b \in 0..MaxTime : b # clock => prices'[b] = prices[b]
  BY <1>1, <1>5, <1>7
<1>9. \A b \in 0..MaxTime : Range(prices'[b]) = IF b = clock THEN Range(prices[b]) \cup {t} ELSE Range(prices[b])
  BY <1>7, <1>8
<1>10. Ticks' = Ticks \cup {t}
  <2>1. Ticks = UNION {Range(prices[b]) : b \in 0..MaxTime}
    BY <1>5 DEF Ticks
  <2>2. Ticks' = UNION {Range(prices'[b]) : b \in 0..MaxTime}
    BY <1>8 DEF Ticks
  <2> QED
    BY <1>5, <1>9, <2>1, <2>2
<1>11. IsFiniteSet(Ticks') /\ Cardinality(Ticks') = Cardinality(Ticks) + 1
  BY <1>2, <1>4, <1>10, FS_AddElement
<1>12. feed' \in [Feeder -> Feeding]
  <2>1. feed \in [Feeder -> Feeding] /\ clock \in Int
    BY <1>5 DEF MarketTypes
  <2>2. [pc |-> "load", tick |-> t, at |-> clock, old |-> NoCandle] \in Feeding
    BY <1>3, <2>1 DEF Feeding
  <2> QED
    BY <1>1, <2>1, <2>2
<1>13. ~Processing(f) /\ Range(prices'[clock]) = Range(prices[clock]) \cup {t}
       /\ \A b \in 0..MaxTime : Range(prices[b]) \subseteq Range(prices'[b])
  BY <1>1, <1>5, <1>9 DEF Processing
<1> QED
  BY <1>1, <1>2, <1>3, <1>4, <1>8, <1>10, <1>11, <1>12, <1>13, Zenon

(* What a goroutine of ProcessTick does.                                   *)
LEMMA ProcessStep ==
    ASSUME MarketTypes, OpenedEmpty, NEW f \in Feeder, ProcessTick(f)
    PROVE  /\ UNCHANGED <<scenario, clock, turnover, traded, prices, prevVol, backfill>>
           /\ f \in scenario.feeders /\ Processing(f)
           /\ feed[f].tick \in Quote /\ feed[f].at \in 0..MaxTime
           /\ feed[f].tick \in Range(prices[feed[f].at])
           /\ Opened(feed[f].tick, feed[f].at) \in Candle
           /\ \/ /\ feed[f].pc = "load" /\ feed' = [feed EXCEPT ![f].pc = "lock"] /\ UNCHANGED table
                 /\ live' = IF live = NoCandle THEN Opened(feed[f].tick, feed[f].at) ELSE live
              \/ /\ feed[f].pc = "lock" /\ live \in Candle /\ live.time = feed[f].at /\ UNCHANGED table
                 /\ live' = AddedTo(live, feed[f].tick) /\ feed' = [feed EXCEPT ![f].pc = "idle"]
              \/ /\ feed[f].pc = "lock" /\ live \in Candle /\ live.time # feed[f].at
                 /\ UNCHANGED <<live, table>>
                 /\ feed' = [feed EXCEPT ![f].pc = "flush", ![f].old = live]
              \/ /\ feed[f].pc = "flush" /\ feed' = [feed EXCEPT ![f].pc = "purge"] /\ UNCHANGED live
                 /\ feed[f].old \in Candle
                 /\ \/ table' = [table EXCEPT ![feed[f].old.time] = feed[f].old]
                    \/ "write" \in scenario.faults /\ UNCHANGED table
              \/ /\ feed[f].pc = "purge" /\ feed' = [feed EXCEPT ![f].pc = "reset"]
                 /\ UNCHANGED <<live, table>>
              \/ /\ feed[f].pc = "reset" /\ feed' = [feed EXCEPT ![f].pc = "idle"] /\ UNCHANGED table
                 /\ live' = Opened(feed[f].tick, feed[f].at)
<1>1. feed[f] \in Feeding
  BY DEF MarketTypes
<1>2. Processing(f) /\ f \in scenario.feeders
  BY DEF ProcessTick, LoadOrStore, AddTick, FlushCandle, Purge, ResetCandle, FeedAt, Processing
<1>3. feed[f].tick \in Quote /\ feed[f].at \in 0..MaxTime /\ feed[f].tick \in Range(prices[feed[f].at])
  BY <1>1, <1>2 DEF MarketTypes, Feeding
<1>4. Opened(feed[f].tick, feed[f].at) \in Candle
  BY <1>3 DEF Opened, Candle, Quote
<1>5. UNCHANGED <<scenario, clock, turnover, traded, prices, prevVol, backfill>>
  BY DEF ProcessTick, LoadOrStore, AddTick, FlushCandle, Purge, ResetCandle, world
<1>6. feed[f].pc \in {"lock", "flush"} => live \in Candle
  BY DEF OpenedEmpty, MarketTypes
<1>7. feed[f].pc = "flush" => feed[f].old \in Candle
  BY DEF MarketTypes
<1>8. CASE LoadOrStore(f)
  BY <1>2, <1>3, <1>4, <1>5, <1>8 DEF LoadOrStore, FeedAt, Goto
<1>9. CASE AddTick(f)
  BY <1>2, <1>3, <1>4, <1>5, <1>6, <1>9 DEF AddTick, FeedAt, Goto
<1>10. CASE FlushCandle(f)
  BY <1>2, <1>3, <1>4, <1>5, <1>7, <1>10 DEF FlushCandle, FeedAt, Goto, MayFault
<1>11. CASE Purge(f)
  BY <1>2, <1>3, <1>4, <1>5, <1>11 DEF Purge, FeedAt, Goto, candles
<1>12. CASE ResetCandle(f)
  BY <1>2, <1>3, <1>4, <1>5, <1>12 DEF ResetCandle, FeedAt, Goto
<1> QED
  BY <1>8, <1>9, <1>10, <1>11, <1>12 DEF ProcessTick

LEMMA AddedTypes ==
    ASSUME NEW c \in Candle, NEW t \in Quote
    PROVE  /\ AddedTo(c, t) \in Candle /\ AddedTo(c, t).time = c.time
           /\ AddedTo(c, t).open = c.open /\ AddedTo(c, t).close = t.n
           /\ AddedTo(c, t).seen = c.seen \cup {t.n} /\ AddedTo(c, t).volume = c.volume + t.vol
           /\ c.time \in 0..MaxTime /\ c.volume \in Nat /\ c.seen \subseteq Int /\ t.vol \in Nat /\ t.n \in Int
<1>1. c.time \in 0..MaxTime /\ c.volume \in Nat /\ c.seen \subseteq Int
  BY DEF Candle
<1>2. t.vol \in Nat /\ t.n \in Int
  BY DEF Quote
<1>3. PICK v \in Nat : v = c.volume + t.vol
  BY <1>1, <1>2
<1>4. PICK s \in SUBSET Int : s = c.seen \cup {t.n}
  BY <1>1, <1>2
<1>5. AddedTo(c, t) = [c EXCEPT !.close = t.n, !.seen = s, !.volume = v]
  BY <1>3, <1>4 DEF AddedTo
<1>6. PICK n \in Int : n = t.n
  BY <1>2
<1>7. [c EXCEPT !.close = n, !.seen = s, !.volume = v] \in Candle
  BY DEF Candle
<1>8. /\ AddedTo(c, t).time = c.time /\ AddedTo(c, t).open = c.open /\ AddedTo(c, t).close = t.n
      /\ AddedTo(c, t).seen = s /\ AddedTo(c, t).volume = v
  BY <1>5 DEF Candle
<1> QED
  BY <1>1, <1>2, <1>3, <1>4, <1>5, <1>6, <1>7, <1>8

LEMMA NotNoCandle == ASSUME NEW c \in Candle PROVE c # NoCandle /\ c.time \in 0..MaxTime
<1>1. c.time \in 0..MaxTime
  BY DEF Candle
<1> QED
  BY <1>1, MarketAssumption DEF NoCandle, None

(* Types.                                                                  *)
LEMMA MarketTyped ==
    ASSUME MarketTypes, Numbered, OpenedEmpty, [MarketNext]_marketVars
    PROVE  MarketTypes'
<1>1. CASE PassTime
  <2>1. clock < MaxTime /\ clock' = clock + 1
        /\ UNCHANGED <<scenario, turnover, traded, prices, prevVol, feed, live, table, backfill>>
    BY <1>1 DEF PassTime, candles
  <2>2. clock' \in 0..MaxTime /\ \A b \in 0..MaxTime : b > clock' => b > clock
    BY <2>1, MarketAssumption DEF MarketTypes
  <2> QED
    BY <2>1, <2>2 DEF MarketTypes, Processing
<1>2. CASE Trade \/ RollOff
  <2>1. turnover' \in Nat /\ traded' \in Nat
        /\ UNCHANGED <<scenario, clock, prices, prevVol, feed, live, table, backfill>>
    BY <1>2 DEF Trade, RollOff, candles, MarketTypes
  <2> QED
    BY <2>1 DEF MarketTypes, Processing
<1>3. ASSUME NEW f \in Feeder, NEW vol \in Nat, Arrives(f, vol) PROVE MarketTypes'
  <2>1. PICK t \in Quote :
          /\ prices' = [prices EXCEPT ![clock] = Append(@, t)]
          /\ feed' = [feed EXCEPT ![f] = [pc |-> "load", tick |-> t, at |-> clock, old |-> NoCandle]]
          /\ prices' \in [0..MaxTime -> Seq(Quote)] /\ feed' \in [Feeder -> Feeding]
          /\ Range(prices'[clock]) = Range(prices[clock]) \cup {t}
          /\ \A b \in 0..MaxTime : Range(prices[b]) \subseteq Range(prices'[b])
          /\ UNCHANGED <<scenario, clock, turnover, traded, live, table, backfill>>
    BY <1>3, ArrivesStep
  <2>2. clock \in 0..MaxTime /\ clock \in Nat /\ feed \in [Feeder -> Feeding]
        /\ prices \in [0..MaxTime -> Seq(Quote)]
    BY MarketAssumption DEF MarketTypes
  <2>3. \A b \in 0..MaxTime : b > clock' => prices'[b] = <<>>
    BY <2>1, <2>2 DEF MarketTypes
  <2>4. \A g \in Feeder : Processing(g)' => feed'[g].at \in 0..MaxTime
                                            /\ feed'[g].tick \in Range(prices'[feed'[g].at])
    <3>1. feed'[f].at = clock /\ feed'[f].tick = t
      BY <2>1, <2>2
    <3>2. \A g \in Feeder \ {f} : feed'[g] = feed[g]
      BY <2>1, <2>2
    <3>3. ASSUME NEW g \in Feeder \ {f}, Processing(g)'
          PROVE  feed'[g].at \in 0..MaxTime /\ feed'[g].tick \in Range(prices'[feed'[g].at])
      <4>1. Processing(g)
        BY <3>2, <3>3 DEF Processing
      <4>2. feed[g].at \in 0..MaxTime /\ feed[g].tick \in Range(prices[feed[g].at])
        BY <4>1 DEF MarketTypes
      <4> QED
        BY <2>1, <3>2, <4>2
    <3> QED
      BY <2>1, <2>2, <3>1, <3>3
  <2>5. \A g \in Feeder : feed'[g].pc = "flush" => feed'[g].old \in Candle
    BY <2>1, <2>2 DEF MarketTypes
  <2>6. prevVol' \in Nat \cup {None}
    BY <1>3 DEF Arrives, MarketTypes
  <2>7. scenario' \in Scenario /\ clock' \in 0..MaxTime /\ turnover' \in Nat /\ traded' \in Nat
        /\ live' \in Candle \cup {NoCandle} /\ table' \in [0..MaxTime -> Candle \cup {NoCandle}]
        /\ ("backfill" \notin scenario'.faults => backfill'.pc = "due")
    BY <2>1 DEF MarketTypes
  <2> QED
    BY <2>1, <2>3, <2>4, <2>5, <2>6, <2>7 DEF MarketTypes
<1>4. ASSUME NEW f \in Feeder, ProcessTick(f) PROVE MarketTypes'
  <2>1. /\ UNCHANGED <<scenario, clock, turnover, traded, prices, prevVol, backfill>>
        /\ Processing(f)
    BY <1>4, ProcessStep
  <2>2. feed \in [Feeder -> Feeding] /\ live \in Candle \cup {NoCandle}
        /\ table \in [0..MaxTime -> Candle \cup {NoCandle}]
    BY DEF MarketTypes
  <2>3. /\ feed' \in [Feeder -> Feeding]
        /\ \A g \in Feeder : /\ feed'[g].tick = feed[g].tick /\ feed'[g].at = feed[g].at
                             /\ feed'[g].pc # "idle" => feed[g].pc # "idle"
                             /\ feed'[g].pc = "flush" => feed'[g].old \in Candle
    <3>1. \/ \E l \in {"lock", "idle", "purge", "reset"} : feed' = [feed EXCEPT ![f].pc = l]
          \/ live \in Candle /\ feed' = [feed EXCEPT ![f].pc = "flush", ![f].old = live]
      BY <1>4, ProcessStep
    <3>2. \A g \in Feeder : feed[g].pc = "flush" => feed[g].old \in Candle
      BY DEF MarketTypes
    <3>3. CASE \E l \in {"lock", "idle", "purge", "reset"} : feed' = [feed EXCEPT ![f].pc = l]
      BY <2>1, <2>2, <3>2, <3>3 DEF Feeding, Processing
    <3>4. CASE live \in Candle /\ feed' = [feed EXCEPT ![f].pc = "flush", ![f].old = live]
      BY <2>1, <2>2, <3>2, <3>4 DEF Feeding, Processing
    <3> QED
      BY <3>1, <3>3, <3>4
  <2>4. live' \in Candle \cup {NoCandle} /\ table' \in [0..MaxTime -> Candle \cup {NoCandle}]
    <3>1. /\ feed[f].tick \in Quote /\ Opened(feed[f].tick, feed[f].at) \in Candle
          /\ \/ live' = live \/ live' = Opened(feed[f].tick, feed[f].at)
             \/ live \in Candle /\ live' = AddedTo(live, feed[f].tick)
          /\ \/ UNCHANGED table
             \/ feed[f].old \in Candle /\ table' = [table EXCEPT ![feed[f].old.time] = feed[f].old]
      BY <1>4, ProcessStep
    <3>2. live \in Candle => AddedTo(live, feed[f].tick) \in Candle
      BY <3>1, AddedTypes
    <3> QED
      BY <2>2, <3>1, <3>2
  <2> QED
    BY <2>1, <2>3, <2>4 DEF MarketTypes, Processing
<1>5. CASE UpsertKlines
  <2>1. backfill.pc = "fetched" /\ UNCHANGED <<scenario, clock, turnover, traded, prices, prevVol, feed, live>>
        /\ table' = [b \in DOMAIN table |-> IF b <= backfill.at THEN Supplied(b) ELSE table[b]]
    BY <1>5 DEF UpsertKlines, world
  <2>2. \A b \in 0..MaxTime : Supplied(b) \in Candle
    BY DEF Supplied, Candle, Exchange
  <2>3. table' \in [0..MaxTime -> Candle \cup {NoCandle}]
    BY <2>1, <2>2 DEF MarketTypes
  <2> QED
    BY <2>1, <2>3 DEF MarketTypes, Processing
<1>6. CASE Restart
  <2>1. UNCHANGED <<scenario, clock, turnover, traded, prices, table>> /\ live' = NoCandle
        /\ prevVol' = None /\ backfill' = NotYet /\ feed' = [f \in Feeder |-> Ready]
    BY <1>6 DEF Restart, world
  <2>2. Ready \in Feeding /\ Ready.pc = "idle"
    BY DEF Ready, Feeding, Quote, None
  <2>3. feed' \in [Feeder -> Feeding] /\ \A f \in Feeder : feed'[f].pc = "idle"
    BY <2>1, <2>2
  <2> QED
    BY <2>1, <2>3 DEF MarketTypes, Processing, NotYet
<1>7. CASE Quiet /\ (UNCHANGED backfill \/ (backfill.pc = "due" /\ "backfill" \in scenario.faults))
  BY <1>7 DEF Quiet, MarketTypes, Processing
<1> QED
  BY <1>1, <1>2, <1>3, <1>4, <1>5, <1>6, <1>7, MarketCases

(* Numbers and volumes of quotes.                                          *)
LEMMA NumbersKept ==
    ASSUME MarketTypes, Numbered, OpenedEmpty, [MarketNext]_marketVars
    PROVE  Numbered'
<1>1. CASE UNCHANGED <<prices, feed>>
  BY <1>1 DEF Numbered, Ticks, Processing
<1>2. PassTime \/ Trade \/ RollOff \/ UpsertKlines \/ Quiet => UNCHANGED <<prices, feed>>
  BY DEF PassTime, Trade, RollOff, UpsertKlines, Quiet
<1>3. ASSUME NEW f \in Feeder, NEW vol \in Nat, Arrives(f, vol) PROVE Numbered'
  <2>1. PICK t \in Quote :
          /\ t.n = Cardinality(Ticks) + 1 /\ Cardinality(Ticks) \in Nat
          /\ feed' = [feed EXCEPT ![f] = [pc |-> "load", tick |-> t, at |-> clock, old |-> NoCandle]]
          /\ Ticks' = Ticks \cup {t} /\ IsFiniteSet(Ticks')
          /\ Cardinality(Ticks') = Cardinality(Ticks) + 1
    BY <1>3, ArrivesStep
  <2>2. PICK n \in Nat : n = Cardinality(Ticks)
    BY <2>1
  <2>3. \A s \in Ticks : s.n \in 1..n
    BY <2>2 DEF Numbered
  <2>4. \A s \in Ticks' : s.n \in 1..(n + 1)
    BY <2>1, <2>2, <2>3
  <2>5. \A g \in Feeder \ {f} : Processing(g) => feed[g].tick.n \in 1..n
    <3>1. \A g \in Feeder : Processing(g) => feed[g].tick \in Ticks
      BY TicksTypes DEF MarketTypes
    <3> QED
      BY <2>3, <3>1
  <2>6. feed'[f].tick.n = n + 1 /\ \A g \in Feeder \ {f} : feed'[g] = feed[g]
    <3>1. feed \in [Feeder -> Feeding]
      BY DEF MarketTypes
    <3> QED
      BY <2>1, <2>2, <3>1
  <2>7. ASSUME NEW g \in Feeder, NEW h \in Feeder, g # h, Processing(g)', Processing(h)'
        PROVE  feed'[g].tick.n # feed'[h].tick.n
    <3>1. \A k \in Feeder \ {f} : Processing(k)' => Processing(k)
      BY <2>6 DEF Processing
    <3>2. \A k, l \in Feeder : k # l /\ Processing(k) /\ Processing(l) => feed[k].tick.n # feed[l].tick.n
      BY DEF Numbered
    <3>3. CASE g # f /\ h # f
      BY <2>6, <2>7, <3>1, <3>2, <3>3
    <3>4. CASE g = f
      <4>1. feed'[h].tick.n \in 1..n
        BY <2>5, <2>6, <2>7, <3>1, <3>4
      <4> QED
        BY <2>2, <2>6, <3>4, <4>1
    <3>5. CASE h = f
      <4>1. feed'[g].tick.n \in 1..n
        BY <2>5, <2>6, <2>7, <3>1, <3>5
      <4> QED
        BY <2>2, <2>6, <3>5, <4>1
    <3> QED
      BY <3>3, <3>4, <3>5
  <2> QED
    BY <2>1, <2>2, <2>4, <2>7 DEF Numbered
<1>4. ASSUME NEW f \in Feeder, ProcessTick(f) PROVE Numbered'
  <2>1. UNCHANGED prices /\ Processing(f)
    BY <1>4, ProcessStep
  <2>2. \A g \in Feeder : feed'[g].tick = feed[g].tick /\ (feed'[g].pc # "idle" => feed[g].pc # "idle")
    <3>1. \/ \E l \in {"lock", "idle", "purge", "reset"} : feed' = [feed EXCEPT ![f].pc = l]
          \/ feed' = [feed EXCEPT ![f].pc = "flush", ![f].old = live]
      BY <1>4, ProcessStep
    <3>2. feed \in [Feeder -> Feeding]
      BY DEF MarketTypes
    <3> QED
      BY <2>1, <3>1, <3>2 DEF Feeding, Processing
  <2> QED
    BY <2>1, <2>2 DEF Numbered, Ticks, Processing
<1>5. CASE Restart
  <2>1. prices' = prices /\ \A f \in Feeder : feed'[f].pc = "idle"
    BY <1>5 DEF Restart, Ready
  <2> QED
    BY <2>1 DEF Numbered, Ticks, Processing
<1> QED
  BY <1>1, <1>2, <1>3, <1>4, <1>5, MarketCases

LEMMA BoundKept ==
    ASSUME MarketTypes, Numbered, OpenedEmpty, VolumeBounded, [MarketNext]_marketVars
    PROVE  VolumeBounded'
<1>1. VolumeOf(Ticks) \in Nat
  <2>1. IsFiniteSet(Ticks) /\ \A t \in Ticks : t.vol \in Nat
    BY TicksTypes DEF Numbered
  <2> QED
    BY <2>1, VolumeGrows
<1>2. turnover \in Nat /\ traded \in Nat /\ prevVol \in Nat \cup {None} /\ None = -1
  BY DEF MarketTypes, None
<1>3. CASE UNCHANGED <<prices, turnover, traded, prevVol>>
  BY <1>3 DEF VolumeBounded, Ticks, VolumeDelta
<1>4. CASE Trade
  <2>1. traded' = traded + 1 /\ turnover' = turnover + 1 /\ prices' = prices /\ prevVol' = prevVol
    BY <1>4 DEF Trade
  <2>2. VolumeOf(Ticks)' = VolumeOf(Ticks)
    BY <2>1 DEF Ticks
  <2>3. VolumeDelta' <= VolumeDelta + 1 /\ VolumeDelta \in Nat /\ VolumeDelta' \in Nat
    BY <1>2, <2>1 DEF VolumeDelta
  <2> QED
    BY <1>1, <1>2, <2>1, <2>2, <2>3 DEF VolumeBounded
<1>5. CASE RollOff
  <2>1. traded' = traded /\ turnover' = turnover - 1 /\ turnover > 0 /\ prices' = prices /\ prevVol' = prevVol
    BY <1>5 DEF RollOff
  <2>2. VolumeOf(Ticks)' = VolumeOf(Ticks)
    BY <2>1 DEF Ticks
  <2>3. VolumeDelta' <= VolumeDelta /\ VolumeDelta \in Nat /\ VolumeDelta' \in Nat
    BY <1>2, <2>1 DEF VolumeDelta
  <2> QED
    BY <1>1, <1>2, <2>1, <2>2, <2>3 DEF VolumeBounded
<1>6. ASSUME NEW f \in Feeder, NEW vol \in Nat, Arrives(f, vol) PROVE VolumeBounded'
  <2>1. PICK t \in Quote :
          /\ t.vol = vol /\ t \notin Ticks /\ Ticks' = Ticks \cup {t}
          /\ UNCHANGED <<turnover, traded>>
    BY <1>6, ArrivesStep
  <2>2. VolumeOf(Ticks') = VolumeOf(Ticks) + vol
    <3>1. IsFiniteSet(Ticks) /\ \A s \in Ticks : s.vol \in Nat
      BY TicksTypes DEF Numbered
    <3> QED
      BY <2>1, <3>1, VolumeAdds
  <2>3. VolumeOf(Ticks)' = VolumeOf(Ticks) + vol
    BY <2>2 DEF VolumeOf
  <2>4. \/ vol = VolumeDelta /\ prevVol' = turnover
        \/ vol = 0 /\ prevVol' = prevVol
    BY <1>6 DEF Arrives
  <2>5. VolumeDelta' + vol = VolumeDelta /\ VolumeDelta \in Nat
    BY <1>2, <2>1, <2>4 DEF VolumeDelta
  <2>6. VolumeDelta' = VolumeDelta - vol
    BY <1>2, <2>1, <2>4, <2>5 DEF VolumeDelta
  <2> QED
    BY <1>1, <1>2, <2>1, <2>3, <2>5, <2>6 DEF VolumeBounded
<1>7. ASSUME NEW f \in Feeder, ProcessTick(f) PROVE UNCHANGED <<prices, turnover, traded, prevVol>>
  BY <1>7, ProcessStep
<1>8. PassTime \/ UpsertKlines \/ Quiet => UNCHANGED <<prices, turnover, traded, prevVol>>
  BY DEF PassTime, UpsertKlines, Quiet, world
<1>9. CASE Restart
  <2>1. UNCHANGED <<prices, turnover, traded>> /\ prevVol' = None
    BY <1>9 DEF Restart, world
  <2>2. VolumeOf(Ticks)' = VolumeOf(Ticks)
    BY <2>1 DEF Ticks
  <2>3. VolumeDelta' = 0 /\ VolumeDelta \in Nat
    BY <1>2, <2>1 DEF VolumeDelta
  <2> QED
    BY <1>1, <1>2, <2>1, <2>2, <2>3 DEF VolumeBounded
<1> QED
  BY <1>3, <1>4, <1>5, <1>6, <1>7, <1>8, <1>9, MarketCases

(* Candles: opened without volume, each quote added once.                  *)
LEMMA OpenKept ==
    ASSUME MarketTypes, Numbered, OpenedEmpty, AllSound, [MarketNext]_marketVars
    PROVE  OpenedEmpty'
<1> DEFINE Later == {"lock", "flush", "purge", "reset"}
<1>1. /\ \A f \in Feeder : feed[f].pc \in Later => live # NoCandle
      /\ live = NoCandle => /\ feed["bybit"].pc = "idle" => prevVol = None
                            /\ feed["bybit"].pc = "load" => feed["bybit"].tick.vol = 0
      /\ \A f \in Feeder \ {"bybit"} : feed[f].tick.vol = 0
      /\ \A f \in Feeder : Processing(f) /\ live # NoCandle /\ feed[f].tick.vol # 0 =>
                              feed[f].tick.n \notin live.seen
  BY DEF OpenedEmpty
<1>2. feed \in [Feeder -> Feeding] /\ "bybit" \in Feeder
  BY DEF MarketTypes, Feeder
<1>3. CASE UNCHANGED <<prevVol, feed, live>>
  BY <1>3 DEF OpenedEmpty, Processing
<1>4. PassTime \/ Trade \/ RollOff \/ UpsertKlines \/ Quiet => UNCHANGED <<prevVol, feed, live>>
  BY DEF PassTime, Trade, RollOff, UpsertKlines, Quiet, candles
<1>5. ASSUME NEW f \in Feeder, NEW vol \in Nat, Arrives(f, vol) PROVE OpenedEmpty'
  <2>1. PICK t \in Quote :
          /\ t.n = Cardinality(Ticks) + 1 /\ t.vol = vol /\ ~Processing(f)
          /\ Cardinality(Ticks) \in Nat
          /\ feed' = [feed EXCEPT ![f] = [pc |-> "load", tick |-> t, at |-> clock, old |-> NoCandle]]
          /\ live' = live
    BY <1>5, ArrivesStep
  <2>2. feed'[f].pc = "load" /\ feed'[f].tick = t /\ feed[f].pc = "idle"
        /\ \A g \in Feeder \ {f} : feed'[g] = feed[g]
    BY <1>2, <2>1 DEF Processing
  <2>3. \/ f = "bybit" /\ vol = VolumeDelta /\ prevVol' = turnover
        \/ f # "bybit" /\ vol = 0 /\ prevVol' = prevVol
    BY <1>5 DEF Arrives
  <2>4. live = NoCandle => vol = 0
    BY <1>1, <2>2, <2>3 DEF VolumeDelta
  <2>5. live # NoCandle => t.n \notin live.seen
    <3>1. ASSUME live # NoCandle PROVE live.seen \subseteq Numbers(Ticks) \cup {Exchange}
      <4>1. live \in Candle /\ live.time \in 0..MaxTime
        BY <3>1, NotNoCandle DEF MarketTypes
      <4>2. live.seen \subseteq Numbers(Range(prices[live.time])) \cup {Exchange}
        BY <3>1 DEF AllSound, Sound
      <4> QED
        BY <4>1, <4>2, TicksTypes DEF Numbers
    <3>2. \A s \in Ticks : s.n \in 1..Cardinality(Ticks)
      BY DEF Numbered
    <3>3. t.n \notin Numbers(Ticks) /\ t.n # Exchange
      BY <2>1, <3>2 DEF Numbers, Exchange
    <3> QED
      BY <3>1, <3>3
  <2>6. \A g \in Feeder : feed'[g].pc \in Later => live' # NoCandle
    BY <1>1, <2>1, <2>2
  <2>7. live' = NoCandle => /\ feed'["bybit"].pc = "idle" => prevVol' = None
                            /\ feed'["bybit"].pc = "load" => feed'["bybit"].tick.vol = 0
    BY <1>1, <1>2, <2>1, <2>2, <2>3, <2>4
  <2>8. \A g \in Feeder \ {"bybit"} : feed'[g].tick.vol = 0
    BY <1>1, <2>1, <2>2, <2>3
  <2>9. \A g \in Feeder : Processing(g)' /\ live' # NoCandle /\ feed'[g].tick.vol # 0 =>
                             feed'[g].tick.n \notin live'.seen
    BY <1>1, <2>1, <2>2, <2>5 DEF Processing
  <2> QED
    BY <2>6, <2>7, <2>8, <2>9 DEF OpenedEmpty
<1>6. ASSUME NEW f \in Feeder, ProcessTick(f) PROVE OpenedEmpty'
  <2>1. /\ prevVol' = prevVol /\ Processing(f) /\ feed[f].tick \in Quote
        /\ Opened(feed[f].tick, feed[f].at) \in Candle
    BY <1>6, ProcessStep
  <2>2. /\ \A g \in Feeder : feed'[g].tick = feed[g].tick
        /\ \A g \in Feeder \ {f} : feed'[g] = feed[g]
    <3>1. \/ \E l \in {"lock", "idle", "purge", "reset"} : feed' = [feed EXCEPT ![f].pc = l]
          \/ feed' = [feed EXCEPT ![f].pc = "flush", ![f].old = live]
      BY <1>6, ProcessStep
    <3> QED
      BY <1>2, <3>1 DEF Feeding
  <2>3. \A g \in Feeder \ {f} : Processing(g) => feed[g].tick.n # feed[f].tick.n
    BY <2>1 DEF Numbered
  <2>4. live' # NoCandle
    <3>1. live \in Candle => AddedTo(live, feed[f].tick) \in Candle
      BY <2>1, AddedTypes
    <3>2. feed[f].pc = "load" => live' = IF live = NoCandle THEN Opened(feed[f].tick, feed[f].at) ELSE live
      BY <1>6, ProcessStep
    <3>3. feed[f].pc # "load" => \/ live' = live \/ live' = Opened(feed[f].tick, feed[f].at)
                                 \/ live \in Candle /\ live' = AddedTo(live, feed[f].tick)
      BY <1>6, ProcessStep
    <3>4. feed[f].pc # "load" => live # NoCandle
      BY <1>1, <2>1, <1>2 DEF Processing, Feeding
    <3> QED
      BY <2>1, <3>1, <3>2, <3>3, <3>4, NotNoCandle
  <2>5. \A g \in Feeder \ {"bybit"} : feed'[g].tick.vol = 0
    BY <1>1, <2>2
  <2>6. \/ live' = live
        \/ live = NoCandle /\ feed[f].pc = "load" /\ live'.seen = {feed[f].tick.n}
        \/ live # NoCandle /\ feed'[f].pc = "idle" /\ live'.seen \subseteq live.seen \cup {feed[f].tick.n}
    <3>1. Opened(feed[f].tick, feed[f].at).seen = {feed[f].tick.n}
      BY DEF Opened
    <3>2. CASE feed[f].pc = "load"
      BY <1>6, <3>1, <3>2, ProcessStep
    <3>3. CASE feed[f].pc = "lock" /\ feed' = [feed EXCEPT ![f].pc = "idle"]
               /\ live \in Candle /\ live' = AddedTo(live, feed[f].tick)
      BY <1>2, <2>1, <3>3, AddedTypes, NotNoCandle DEF Feeding
    <3>4. CASE feed[f].pc = "reset" /\ feed' = [feed EXCEPT ![f].pc = "idle"]
               /\ live' = Opened(feed[f].tick, feed[f].at)
      BY <1>1, <1>2, <3>1, <3>4 DEF Feeding
    <3> QED
      BY <1>6, <3>2, <3>3, <3>4, ProcessStep
  <2>7. ASSUME NEW g \in Feeder, Processing(g)', feed'[g].tick.vol # 0 PROVE feed'[g].tick.n \notin live'.seen
    <3>1. Processing(g) /\ feed[g].tick.vol # 0 /\ feed'[g].tick.n = feed[g].tick.n
      BY <2>1, <2>2, <2>7 DEF Processing
    <3>2. live # NoCandle => feed[g].tick.n \notin live.seen
      BY <1>1, <3>1
    <3>3. CASE live' = live
      BY <2>4, <3>1, <3>2, <3>3
    <3>4. CASE live = NoCandle /\ feed[f].pc = "load" /\ live'.seen = {feed[f].tick.n}
      <4>1. g = "bybit"
        BY <1>1, <3>1
      <4>2. g # f
        BY <1>1, <3>1, <3>4, <4>1
      <4> QED
        BY <2>3, <3>1, <3>4, <4>2
    <3>5. CASE live # NoCandle /\ feed'[f].pc = "idle" /\ live'.seen \subseteq live.seen \cup {feed[f].tick.n}
      <4>1. g # f
        BY <2>7, <3>5 DEF Processing
      <4> QED
        BY <2>3, <3>1, <3>2, <3>5, <4>1
    <3> QED
      BY <2>6, <3>3, <3>4, <3>5
  <2> QED
    BY <2>4, <2>5, <2>7 DEF OpenedEmpty
<1>7. CASE Restart
  <2>1. live' = NoCandle /\ prevVol' = None /\ feed' = [f \in Feeder |-> Ready]
    BY <1>7 DEF Restart
  <2>2. \A f \in Feeder : feed'[f].pc = "idle" /\ feed'[f].tick.vol = 0
    BY <2>1 DEF Ready
  <2> QED
    BY <1>2, <2>1, <2>2 DEF OpenedEmpty, Processing
<1> QED
  BY <1>3, <1>4, <1>5, <1>6, <1>7, MarketCases

(* What was seen and counted stays so when quotes come.                    *)
LEMMA SoundStays ==
    ASSUME MarketTypes, Numbered, NEW c \in Candle, Sound(c), IsFiniteSet(Ticks'),
           prices' \in [0..MaxTime -> Seq(Quote)],
           \A b \in 0..MaxTime : Range(prices[b]) \subseteq Range(prices'[b])
    PROVE  Sound(c)'
<1>1. PICK b \in 0..MaxTime : b = c.time
  BY DEF Candle
<1>2. Range(prices[b]) \subseteq Range(prices'[b]) /\ Range(prices'[b]) \subseteq Quote
  BY QuotesTypes
<1>3. Range(prices'[b]) \subseteq Ticks'
  BY DEF Ticks
<1>4. IsFiniteSet(Range(prices'[b]))
  BY <1>3, FS_Subset
<1> DEFINE S == {t \in Range(prices[b]) : t.n \in c.seen}
           T == {t \in Range(prices'[b]) : t.n \in c.seen}
<1>5. S \in SUBSET T /\ T \in SUBSET Range(prices'[b]) /\ \A t \in T : t.vol \in Nat
  BY <1>2 DEF Quote
<1> HIDE DEF S, T
<1>6. VolumeOf(S) <= VolumeOf(T) /\ VolumeOf(S) \in Nat /\ VolumeOf(T) \in Nat
  <2>1. IsFiniteSet(T)
    BY <1>4, <1>5, FS_Subset
  <2> QED
    BY <1>5, <2>1, VolumeGrows
<1>7. c.volume \in Nat /\ c.volume <= VolumeOf(S) /\ c.seen \subseteq Numbers(Range(prices[b])) \cup {Exchange}
  BY <1>1 DEF Sound, SeenBy, S, Candle
<1>8. c.volume <= VolumeOf(T)
  BY ONLY <1>6, <1>7
<1>9. c.seen \subseteq Numbers(Range(prices'[b])) \cup {Exchange}
  BY <1>2, <1>7 DEF Numbers
<1>10. Sound(c)' <=> /\ c.seen \subseteq Numbers(Range(prices'[b])) \cup {Exchange}
                     /\ c.volume <= VolumeOf(T)
  BY <1>1 DEF Sound, SeenBy, Numbers, VolumeOf, T
<1> QED
  BY <1>8, <1>9, <1>10

LEMMA SoundOpened ==
    ASSUME MarketTypes, Numbered, NEW b \in 0..MaxTime, NEW t \in Range(prices[b])
    PROVE  Sound(Opened(t, b))
<1> DEFINE c == Opened(t, b)
           S == SeenBy(c)
<1>1. c.time = b /\ c.seen = {t.n} /\ c.volume = t.vol
  BY DEF Opened
<1> HIDE DEF c
<1>2. S \in SUBSET Range(prices[b]) /\ {t} \in SUBSET S
  BY <1>1 DEF SeenBy
<1>3. IsFiniteSet(S) /\ \A s \in S : s.vol \in Nat
  <2>1. IsFiniteSet(Range(prices[b])) /\ \A s \in Range(prices[b]) : s.vol \in Nat
    BY TicksTypes, FS_Subset DEF Numbered
  <2> QED
    BY <1>2, <2>1, FS_Subset
<1> HIDE DEF S
<1>4. VolumeOf({t}) <= VolumeOf(S) /\ VolumeOf({t}) = t.vol
  <2>1. VolumeOf({t}) <= VolumeOf(S)
    BY <1>2, <1>3, VolumeGrows
  <2>2. VolumeOf({} \cup {t}) = VolumeOf({}) + t.vol
    <3>1. IsFiniteSet({}) /\ t \notin {} /\ t.vol \in Nat /\ \A s \in {} : s.vol \in Nat
      BY <1>2, <1>3, FS_EmptySet
    <3> QED
      BY <3>1, VolumeAdds
  <2>3. {} \cup {t} = {t} /\ t.vol \in Nat
    BY <1>2, <1>3
  <2> QED
    BY <2>1, <2>2, <2>3, VolumeNone
<1>5. c.seen \subseteq Numbers(Range(prices[b])) \cup {Exchange}
  BY <1>1 DEF Numbers
<1>6. Sound(c)
  BY <1>1, <1>4, <1>5 DEF Sound, S
<1> QED
  BY <1>6 DEF c

LEMMA SoundAdded ==
    ASSUME MarketTypes, Numbered, NEW c \in Candle, Sound(c), NEW t \in Quote,
           t \in Range(prices[c.time]), t.vol # 0 => t.n \notin c.seen
    PROVE  Sound(AddedTo(c, t))
<1>1. PICK d : d = AddedTo(c, t)
  OBVIOUS
<1>2. /\ d.time = c.time /\ d.seen = c.seen \cup {t.n} /\ d.volume = c.volume + t.vol
      /\ c.time \in 0..MaxTime /\ c.volume \in Nat /\ t.vol \in Nat
  BY <1>1, AddedTypes
<1>3. PICK S : S = SeenBy(c)
  OBVIOUS
<1>4. PICK T : T = SeenBy(d)
  OBVIOUS
<1>5. S \in SUBSET T /\ t \in T /\ T \in SUBSET Range(prices[c.time])
  BY <1>2, <1>3, <1>4 DEF SeenBy
<1>6. IsFiniteSet(T) /\ \A s \in T : s.vol \in Nat
  <2>1. IsFiniteSet(Range(prices[c.time])) /\ \A s \in Range(prices[c.time]) : s.vol \in Nat
    BY <1>2, TicksTypes, FS_Subset DEF Numbered
  <2> QED
    BY <1>5, <2>1, FS_Subset
<1>7. c.volume <= VolumeOf(S) /\ VolumeOf(S) \in Nat /\ IsFiniteSet(S) /\ VolumeOf(S) <= VolumeOf(T)
      /\ VolumeOf(T) \in Nat
  BY <1>3, <1>5, <1>6, VolumeGrows DEF Sound
<1>8. d.volume <= VolumeOf(T)
  <2>1. CASE t.vol = 0
    BY <1>2, <1>7, <2>1
  <2>2. CASE t.vol # 0
    <3>1. t \notin S
      BY <1>3, <2>2 DEF SeenBy
    <3>2. VolumeOf(S \cup {t}) = VolumeOf(S) + t.vol
      BY <1>2, <1>5, <1>6, <1>7, <3>1, VolumeAdds
    <3>3. S \cup {t} \in SUBSET T
      BY <1>5
    <3>4. VolumeOf(S \cup {t}) <= VolumeOf(T)
      BY <1>6, <3>3, VolumeGrows
    <3> QED
      BY <1>2, <1>7, <3>2, <3>4
  <2> QED
    BY <2>1, <2>2
<1>9. d.seen \subseteq Numbers(Range(prices[d.time])) \cup {Exchange}
  BY <1>2 DEF Sound, Numbers
<1> QED
  BY <1>1, <1>4, <1>8, <1>9 DEF Sound

LEMMA SoundSupplied ==
    ASSUME MarketTypes, Numbered, NEW b \in 0..MaxTime
    PROVE  Sound(Supplied(b))
<1>1. Supplied(b).time = b /\ Supplied(b).seen = {Exchange} /\ Supplied(b).volume = 0
  BY DEF Supplied
<1>2. SeenBy(Supplied(b)) \in SUBSET Range(prices[b])
  BY <1>1 DEF SeenBy
<1>3. IsFiniteSet(Range(prices[b])) /\ \A s \in Range(prices[b]) : s.vol \in Nat
  BY TicksTypes, FS_Subset DEF Numbered
<1>4. VolumeOf(SeenBy(Supplied(b))) \in Nat
  BY <1>2, <1>3, VolumeGrows
<1> QED
  BY <1>1, <1>4 DEF Sound

LEMMA SoundSame ==
    ASSUME UNCHANGED prices, NEW c
    PROVE  Sound(c)' <=> Sound(c)
BY DEF Sound, SeenBy, Numbers, VolumeOf

LEMMA SoundKept ==
    ASSUME MarketTypes, Numbered, OpenedEmpty, AllSound, [MarketNext]_marketVars
    PROVE  AllSound'
<1>1. /\ live # NoCandle => Sound(live)
      /\ \A b \in 0..MaxTime : table[b] # NoCandle => Sound(table[b])
      /\ \A f \in Feeder : feed[f].pc = "flush" => Sound(feed[f].old)
  BY DEF AllSound
<1>2. /\ feed \in [Feeder -> Feeding] /\ live \in Candle \cup {NoCandle}
      /\ table \in [0..MaxTime -> Candle \cup {NoCandle}]
      /\ \A f \in Feeder : feed[f].pc = "flush" => feed[f].old \in Candle
  BY DEF MarketTypes
<1>3. CASE UNCHANGED <<prices, feed, live, table>>
  BY <1>1, <1>3, SoundSame DEF AllSound
<1>4. PassTime \/ Trade \/ RollOff \/ Quiet => UNCHANGED <<prices, feed, live, table>>
  BY DEF PassTime, Trade, RollOff, Quiet, candles
<1>5. ASSUME NEW f \in Feeder, NEW vol \in Nat, Arrives(f, vol) PROVE AllSound'
  <2>1. /\ prices' \in [0..MaxTime -> Seq(Quote)] /\ IsFiniteSet(Ticks')
        /\ \A b \in 0..MaxTime : Range(prices[b]) \subseteq Range(prices'[b])
        /\ UNCHANGED <<live, table>>
        /\ \A g \in Feeder : feed'[g].pc = "flush" => feed[g].pc = "flush" /\ feed'[g] = feed[g]
    <3>1. PICK t \in Quote :
            /\ feed' = [feed EXCEPT ![f] = [pc |-> "load", tick |-> t, at |-> clock, old |-> NoCandle]]
            /\ prices' \in [0..MaxTime -> Seq(Quote)] /\ IsFiniteSet(Ticks')
            /\ \A b \in 0..MaxTime : Range(prices[b]) \subseteq Range(prices'[b])
            /\ UNCHANGED <<live, table>>
      BY <1>5, ArrivesStep
    <3>2. \A g \in Feeder : feed'[g].pc = "flush" => feed[g].pc = "flush" /\ feed'[g] = feed[g]
      BY <1>2, <3>1
    <3> QED
      BY <3>1, <3>2
  <2>2. ASSUME NEW c \in Candle, Sound(c) PROVE Sound(c)'
    BY <2>1, <2>2, SoundStays
  <2>3. ASSUME live # NoCandle PROVE Sound(live)'
    <3>1. PICK c \in Candle : c = live
      BY <1>2, <2>3
    <3>2. Sound(c)'
      BY <1>1, <2>2, <2>3, <3>1
    <3> QED
      BY <2>1, <3>1, <3>2 DEF Sound, SeenBy
  <2>4. ASSUME NEW b \in 0..MaxTime, table[b] # NoCandle PROVE Sound(table[b])'
    <3>1. PICK c \in Candle : c = table[b]
      BY <1>2, <2>4
    <3>2. Sound(c)'
      BY <1>1, <2>2, <2>4, <3>1
    <3> QED
      BY <2>1, <3>1, <3>2 DEF Sound, SeenBy
  <2>5. ASSUME NEW g \in Feeder, feed'[g].pc = "flush" PROVE Sound(feed[g].old)'
    <3>1. PICK c \in Candle : c = feed[g].old
      BY <1>2, <2>1, <2>5
    <3>2. Sound(c)'
      BY <1>1, <2>1, <2>2, <2>5, <3>1
    <3>3. c = feed'[g].old
      BY <2>1, <2>5, <3>1
    <3> QED
      BY <3>2, <3>3 DEF Sound, SeenBy
  <2> QED
    BY <2>1, <2>3, <2>4, <2>5 DEF AllSound
<1>6. ASSUME NEW f \in Feeder, ProcessTick(f) PROVE AllSound'
  <2>1. /\ prices' = prices /\ Processing(f) /\ feed[f].tick \in Quote /\ feed[f].at \in 0..MaxTime
        /\ feed[f].tick \in Range(prices[feed[f].at])
    BY <1>6, ProcessStep
  <2>2. Sound(Opened(feed[f].tick, feed[f].at))
    BY <2>1, SoundOpened
  <2>3. live' # NoCandle => Sound(live')
    <3>1. CASE live \in Candle /\ live.time = feed[f].at /\ live' = AddedTo(live, feed[f].tick)
      <4>1. Sound(live) /\ (feed[f].tick.vol # 0 => feed[f].tick.n \notin live.seen)
        BY <1>1, <2>1, <3>1, NotNoCandle DEF OpenedEmpty
      <4> QED
        BY <2>1, <3>1, <4>1, SoundAdded
    <3>2. CASE live' = live \/ live' = Opened(feed[f].tick, feed[f].at)
      BY <1>1, <2>2, <3>2
    <3> QED
      BY <1>6, <3>1, <3>2, ProcessStep
  <2>4. \A b \in 0..MaxTime : table'[b] # NoCandle => Sound(table'[b])
    <3>1. CASE UNCHANGED table
      BY <1>1, <3>1
    <3>2. CASE /\ feed[f].pc = "flush" /\ feed[f].old \in Candle
               /\ table' = [table EXCEPT ![feed[f].old.time] = feed[f].old]
      <4>1. Sound(feed[f].old)
        BY <1>1, <3>2
      <4>2. \A b \in 0..MaxTime : table'[b] = table[b] \/ table'[b] = feed[f].old
        BY <1>2, <3>2
      <4> QED
        BY <1>1, <4>1, <4>2
    <3> QED
      BY <1>6, <3>1, <3>2, ProcessStep
  <2>5. \A g \in Feeder : feed'[g].pc = "flush" => Sound(feed'[g].old)
    <3>1. CASE \E l \in {"lock", "idle", "purge", "reset"} : feed' = [feed EXCEPT ![f].pc = l]
      <4>1. \A g \in Feeder : feed'[g].pc = "flush" => feed'[g] = feed[g]
        BY <1>2, <3>1 DEF Feeding
      <4> QED
        BY <1>1, <4>1
    <3>2. CASE live \in Candle /\ feed' = [feed EXCEPT ![f].pc = "flush", ![f].old = live]
      <4>1. \A g \in Feeder \ {f} : feed'[g] = feed[g]
        BY <1>2, <3>2
      <4>2. feed'[f].old = live
        BY <1>2, <3>2 DEF Feeding
      <4>3. Sound(live)
        BY <1>1, <3>2, NotNoCandle
      <4> QED
        BY <1>1, <4>1, <4>2, <4>3
    <3> QED
      BY <1>6, <3>1, <3>2, ProcessStep
  <2>6. \A c : Sound(c)' <=> Sound(c)
    BY <2>1, SoundSame
  <2>7. live' # NoCandle => Sound(live)'
    BY <2>1, <2>3 DEF Sound, SeenBy
  <2>8. \A b \in 0..MaxTime : table'[b] # NoCandle => Sound(table[b])'
    BY <2>1, <2>4 DEF Sound, SeenBy
  <2>9. \A g \in Feeder : feed'[g].pc = "flush" => Sound(feed[g].old)'
    BY <2>1, <2>5 DEF Sound, SeenBy
  <2> QED
    BY <2>7, <2>8, <2>9 DEF AllSound
<1>7. CASE UpsertKlines
  <2>1. UNCHANGED <<prices, feed, live>>
        /\ table' = [b \in DOMAIN table |-> IF b <= backfill.at THEN Supplied(b) ELSE table[b]]
    BY <1>7 DEF UpsertKlines, world
  <2>2. \A b \in 0..MaxTime : table'[b] = Supplied(b) \/ table'[b] = table[b]
    BY <1>2, <2>1
  <2>3. \A b \in 0..MaxTime : table'[b] # NoCandle => Sound(table'[b])
    BY <1>1, <2>2, SoundSupplied
  <2>4. \A b \in 0..MaxTime : table'[b] # NoCandle => Sound(table[b])'
    BY <2>1, <2>3 DEF Sound, SeenBy
  <2>5. (live # NoCandle => Sound(live))' /\ \A f \in Feeder : feed'[f].pc = "flush" => Sound(feed[f].old)'
    BY <1>1, <2>1 DEF Sound, SeenBy
  <2> QED
    BY <2>4, <2>5 DEF AllSound
<1>8. CASE Restart
  <2>1. UNCHANGED <<prices, table>> /\ live' = NoCandle /\ \A f \in Feeder : feed'[f].pc = "idle"
    BY <1>8 DEF Restart, Ready
  <2>2. \A b \in 0..MaxTime : table'[b] # NoCandle => Sound(table[b])'
    BY <1>1, <2>1 DEF Sound, SeenBy
  <2> QED
    BY <2>1, <2>2 DEF AllSound
<1> QED
  BY <1>3, <1>4, <1>5, <1>6, <1>7, <1>8, MarketCases

(* With one feed and nothing that fails, candles are whole.                *)
LEMMA CandlesAlike ==
    ASSUME NEW c \in Candle, NEW d \in Candle, c.time = d.time, c.open = d.open,
           c.close = d.close, c.seen = d.seen, c.volume = d.volume
    PROVE  c = d
BY DEF Candle

LEMMA CandleTypes ==
    ASSUME NEW s \in Seq(Quote), s # <<>>, IsFiniteSet(Range(s)), NEW b \in 0..MaxTime
    PROVE  CandleFrom(s, b) \in Candle
<1>1. PICK n : n = Len(s)
  OBVIOUS
<1>2. n \in Nat /\ n # 0 /\ \A i \in 1..n : s[i] \in Quote
  BY ONLY <1>1, s \in Seq(Quote), s # <<>>
<1>3. Head(s) \in Quote
  BY ONLY s \in Seq(Quote), s # <<>>
<1>4. Last(s) \in Quote
  BY <1>1, <1>2 DEF Last
<1>5. Range(s) \subseteq Quote
  BY QuotesTypes
<1>6. Numbers(Range(s)) \in SUBSET Int
  BY <1>5 DEF Numbers, Quote
<1>7. VolumeOf(Range(s)) \in Nat
  BY <1>5, VolumeGrows DEF Quote
<1>8. Head(s).n \in Int /\ Last(s).n \in Int
  BY <1>3, <1>4 DEF Quote
<1> QED
  BY <1>6, <1>7, <1>8 DEF CandleFrom, Candle

LEMMA CandleFirst ==
    ASSUME NEW t \in Quote, NEW b \in 0..MaxTime
    PROVE  /\ CandleFrom(Append(<<>>, t), b) = Opened(t, b)
           /\ t.vol = 0 => AddedTo(Opened(t, b), t) = Opened(t, b)
<1>1. <<>> \in Seq(Quote)
  OBVIOUS
<1>2. PICK s : s = Append(<<>>, t)
  OBVIOUS
<1>3. Range(s) = {t} /\ Head(s) = t /\ Last(s) = t
  <2>1. Range(<<>>) = {}
    BY <1>1, QuotesTypes
  <2> QED
    BY <1>1, <1>2, <2>1, QuotesAppend
<1>4. t.vol \in Nat /\ t.n \in Int
  BY DEF Quote
<1>5. VolumeOf({t}) = t.vol
  <2>1. VolumeOf({} \cup {t}) = VolumeOf({}) + t.vol
    <3>1. IsFiniteSet({}) /\ t \notin {} /\ \A q \in {} : q.vol \in Nat
      BY FS_EmptySet
    <3> QED
      BY <1>4, <3>1, VolumeAdds
  <2>2. {} \cup {t} = {t}
    OBVIOUS
  <2> QED
    BY <1>4, <2>1, <2>2, VolumeNone
<1>6. Numbers({t}) = {t.n}
  BY DEF Numbers
<1>7. CandleFrom(s, b) = Opened(t, b)
  BY <1>3, <1>5, <1>6 DEF CandleFrom, Opened
<1>8. ASSUME t.vol = 0 PROVE AddedTo(Opened(t, b), t) = Opened(t, b)
  <2>1. PICK c : c = Opened(t, b)
    OBVIOUS
  <2>2. /\ c \in Candle /\ c.time = b /\ c.open = t.n /\ c.close = t.n /\ c.seen = {t.n}
        /\ c.volume = t.vol
    BY <1>4, <2>1 DEF Opened, Candle
  <2>3. PICK d : d = AddedTo(c, t)
    OBVIOUS
  <2>4. /\ d \in Candle /\ d.time = b /\ d.open = t.n /\ d.close = t.n
        /\ d.seen = {t.n} \cup {t.n} /\ d.volume = t.vol + t.vol
    BY <2>2, <2>3, AddedTypes
  <2>5. d = c
    BY <1>8, <2>2, <2>4, CandlesAlike
  <2> QED
    BY <2>1, <2>3, <2>5
<1> QED
  BY <1>2, <1>7, <1>8

LEMMA CandleNext ==
    ASSUME NEW s \in Seq(Quote), s # <<>>, IsFiniteSet(Range(s)), NEW t \in Quote, t \notin Range(s),
           NEW b \in 0..MaxTime
    PROVE  AddedTo(CandleFrom(s, b), t) = CandleFrom(Append(s, t), b)
<1>1. PICK r : r = Append(s, t)
  OBVIOUS
<1>2. Range(r) = Range(s) \cup {t} /\ Head(r) = Head(s) /\ Last(r) = t
  BY <1>1, QuotesAppend
<1>3. t.vol \in Nat /\ \A q \in Range(s) : q.vol \in Nat
  BY QuotesTypes DEF Quote
<1>4. VolumeOf(Range(r)) = VolumeOf(Range(s)) + t.vol
  BY <1>2, <1>3, VolumeAdds
<1>5. Numbers(Range(r)) = Numbers(Range(s)) \cup {t.n}
  BY <1>2 DEF Numbers
<1>6. PICK c : c = CandleFrom(s, b)
  OBVIOUS
<1>7. c \in Candle /\ c.time = b /\ c.open = Head(s).n /\ c.seen = Numbers(Range(s))
      /\ c.volume = VolumeOf(Range(s))
  BY <1>6, CandleTypes DEF CandleFrom
<1>8. PICK d : d = CandleFrom(r, b)
  OBVIOUS
<1>9. d \in Candle
  <2>1. IsFiniteSet(Range(r)) /\ r \in Seq(Quote) /\ r # <<>>
    BY <1>1, <1>2, QuotesAppend, FS_AddElement
  <2> QED
    BY <1>8, <2>1, CandleTypes
<1>10. d.time = b /\ d.open = Head(s).n /\ d.close = t.n /\ d.seen = Numbers(Range(s)) \cup {t.n}
       /\ d.volume = VolumeOf(Range(s)) + t.vol
  BY <1>2, <1>4, <1>5, <1>8 DEF CandleFrom
<1>11. PICK a : a = AddedTo(c, t)
  OBVIOUS
<1>12. a \in Candle /\ a.time = b /\ a.open = Head(s).n /\ a.close = t.n
       /\ a.seen = Numbers(Range(s)) \cup {t.n} /\ a.volume = VolumeOf(Range(s)) + t.vol
  BY <1>7, <1>11, AddedTypes
<1>13. a = d
  BY <1>9, <1>10, <1>12, CandlesAlike
<1> QED
  BY <1>1, <1>6, <1>8, <1>11, <1>13

LEMMA WholeSame ==
    ASSUME WholeSoFar, UNCHANGED <<scenario, prices, feed, live, table>>
    PROVE  WholeSoFar'
BY DEF WholeSoFar, OneFeed, Processing, WholeWith, Whole, Void, Made, Latest, Stored

(* What a tick of the only feed does.                                      *)
LEMMA WholeArrives ==
    ASSUME MarketTypes, Numbered, NEW f \in Feeder, NEW vol \in Nat, Arrives(f, vol), Whole(prices)
    PROVE  /\ Processing(f)'
           /\ \E e \in [0..MaxTime -> Seq(Quote)], t \in Quote, a \in 0..MaxTime :
                 t = feed'[f].tick /\ a = feed'[f].at /\ WholeWith(f, e, t, a)'
<1>1. PICK t \in Quote :
        /\ t \notin Ticks
        /\ prices' = [prices EXCEPT ![clock] = Append(@, t)]
        /\ feed' = [feed EXCEPT ![f] = [pc |-> "load", tick |-> t, at |-> clock, old |-> NoCandle]]
        /\ UNCHANGED <<clock, live, table>>
  BY ArrivesStep
<1>2. PICK e \in [0..MaxTime -> Seq(Quote)] : e = prices
  BY DEF MarketTypes
<1>3. PICK a \in 0..MaxTime : a = clock
  BY DEF MarketTypes
<1>4. feed'[f].pc = "load" /\ feed'[f].tick = t /\ feed'[f].at = a
  BY <1>1, <1>3 DEF MarketTypes
<1>5. prices' = [e EXCEPT ![a] = Append(@, t)]
  BY <1>1, <1>2, <1>3
<1>6. t \notin Range(e[a])
  BY <1>1, <1>2, <1>3, TicksTypes
<1>7. Latest(prices, a)'
  <2>1. prices'[a] = Append(e[a], t) /\ e[a] \in Seq(Quote) /\ \A b \in 0..MaxTime : b # a => prices'[b] = e[b]
    BY <1>5
  <2>2. prices'[a] # <<>>
    BY <2>1, QuotesAppend
  <2>3. \A b \in 0..MaxTime : b > a => e[b] = <<>> /\ b # a
    BY <1>2, <1>3 DEF MarketTypes
  <2> QED
    BY <2>1, <2>2, <2>3 DEF Latest
<1>8. Whole(e)'
  BY <1>1, <1>2 DEF Whole, Void, Made, Latest, Stored
<1>9. WholeWith(f, e, t, a)'
  BY <1>4, <1>5, <1>6, <1>7, <1>8 DEF WholeWith
<1> QED
  BY <1>4, <1>9 DEF Processing

LEMMA WholeProcess ==
    ASSUME MarketTypes, Numbered, OpenedEmpty, NEW f \in Feeder, ProcessTick(f), "write" \notin scenario.faults,
           NEW e \in [0..MaxTime -> Seq(Quote)], NEW t \in Quote, NEW a \in 0..MaxTime,
           t = feed[f].tick, a = feed[f].at, WholeWith(f, e, t, a)
    PROVE  IF Processing(f)' THEN t = feed'[f].tick /\ a = feed'[f].at /\ WholeWith(f, e, t, a)'
           ELSE Whole(prices)'
<1>1. /\ prices = [e EXCEPT ![a] = Append(@, t)] /\ Latest(prices, a) /\ t \notin Range(e[a])
      /\ prices' = prices
  BY ProcessStep DEF WholeWith
<1>2. /\ prices[a] = Append(e[a], t) /\ e[a] \in Seq(Quote)
      /\ \A b \in 0..MaxTime : b # a => prices[b] = e[b]
      /\ \A b \in 0..MaxTime : b > a => e[b] = <<>>
  <2>1. \A b \in 0..MaxTime : b > a => prices[b] = <<>> /\ b # a
    BY <1>1 DEF Latest
  <2> QED
    BY <1>1, <2>1
<1>3. feed \in [Feeder -> Feeding] /\ table \in [0..MaxTime -> Candle \cup {NoCandle}] /\ MaxTime \in Nat
  BY MarketAssumption DEF MarketTypes
<1>4. \A m \in 0..MaxTime : Made(e, m) => live.time = m /\ live # NoCandle
  BY <1>3 DEF Made, CandleFrom, NoCandle, None
<1>5. IsFiniteSet(Range(e[a]))
  <2>1. Range(e[a]) \subseteq Range(prices[a])
    BY <1>2, QuotesAppend
  <2>2. Range(prices[a]) \subseteq Ticks
    BY TicksTypes
  <2> QED
    BY <2>1, <2>2, FS_Subset DEF Numbered
<1>6. Opened(t, a).time = a /\ Opened(t, a) # NoCandle
  BY <1>3 DEF Opened, NoCandle, None
<1>7. Latest(prices, a)'
  BY <1>1 DEF Latest
<1>8. CASE /\ feed[f].pc = "load" /\ feed' = [feed EXCEPT ![f].pc = "lock"] /\ UNCHANGED table
           /\ live' = IF live = NoCandle THEN Opened(t, a) ELSE live
  <2>1. feed'[f].pc = "lock" /\ feed'[f].tick = t /\ feed'[f].at = a
    BY <1>3, <1>8 DEF Feeding
  <2>2. Whole(e)
    BY <1>8 DEF WholeWith
  <2>3. CASE Void(e) /\ live = NoCandle
    <3>1. t.vol = 0
      <4>1. f # "bybit" => feed[f].tick.vol = 0
        BY DEF OpenedEmpty
      <4>2. f = "bybit" => feed[f].tick.vol = 0
        BY <1>8, <2>3 DEF OpenedEmpty
      <4> QED
        BY <4>1, <4>2
    <3>2. Void(e)' /\ live' = Opened(t, a)
      BY <1>8, <2>3 DEF Void
    <3>3. WholeWith(f, e, t, a)'
      BY <1>1, <1>7, <2>1, <3>1, <3>2 DEF WholeWith
    <3> QED
      BY <2>1, <3>3 DEF Processing
  <2>4. ASSUME NEW m \in 0..MaxTime, Made(e, m)
        PROVE  Processing(f)' /\ t = feed'[f].tick /\ a = feed'[f].at /\ WholeWith(f, e, t, a)'
    <3>1. live' = live
      BY <1>4, <1>8, <2>4
    <3>2. Made(e, m)'
      BY <1>8, <2>4, <3>1 DEF Made, Latest, Stored
    <3>3. WholeWith(f, e, t, a)'
      BY <1>1, <1>7, <2>1, <3>2 DEF WholeWith
    <3> QED
      BY <2>1, <3>3 DEF Processing
  <2> QED
    BY <2>2, <2>3, <2>4 DEF Whole
<1>9. CASE /\ feed[f].pc = "lock" /\ live.time = a /\ UNCHANGED table
           /\ live' = AddedTo(live, t) /\ feed' = [feed EXCEPT ![f].pc = "idle"]
  <2>1. ~Processing(f)'
    BY <1>3, <1>9 DEF Feeding, Processing
  <2>2. \/ Void(e) /\ live = Opened(t, a) /\ t.vol = 0
        \/ \E m \in 0..MaxTime : Made(e, m)
    BY <1>9 DEF WholeWith
  <2>3. CASE Void(e) /\ live = Opened(t, a) /\ t.vol = 0
    <3>1. live' = CandleFrom(prices[a], a)
      <4>1. e[a] = <<>>
        BY <2>3 DEF Void
      <4>2. CandleFrom(prices[a], a) = Opened(t, a) /\ AddedTo(Opened(t, a), t) = Opened(t, a)
        BY <1>2, <2>3, <4>1, CandleFirst
      <4>3. live' = AddedTo(live, t) /\ live = Opened(t, a)
        BY <1>9, <2>3
      <4> QED
        BY <4>2, <4>3
    <3>2. \A b \in 0..MaxTime : b < a => prices[b] = <<>>
      BY <1>2, <2>3 DEF Void
    <3>3. Made(prices, a)'
      BY <1>1, <1>7, <3>1, <3>2 DEF Made, Stored, CandleFrom, VolumeOf, Numbers
    <3> QED
      BY <2>1, <3>3 DEF Whole
  <2>4. ASSUME NEW m \in 0..MaxTime, Made(e, m) PROVE Whole(prices)'
    <3>1. m = a /\ e[a] # <<>> /\ live = CandleFrom(e[a], a)
      BY <1>4, <1>9, <2>4 DEF Made, Latest
    <3>2. live' = CandleFrom(prices[a], a)
      BY <1>1, <1>2, <1>5, <1>9, <3>1, CandleNext
    <3>3. \A b \in 0..MaxTime : b < a /\ prices[b] # <<>> => table[b] = CandleFrom(prices[b], b)
      BY <1>2, <2>4, <3>1 DEF Made, Stored
    <3>4. Stored(prices, a)'
      BY <1>1, <1>9, <3>3 DEF Stored, CandleFrom, VolumeOf, Numbers
    <3>5. Made(prices, a)'
      BY <1>1, <1>7, <3>2, <3>4 DEF Made, CandleFrom, VolumeOf, Numbers
    <3> QED
      BY <3>5 DEF Whole
  <2> QED
    BY <2>1, <2>2, <2>3, <2>4 DEF Whole
<1>10. CASE /\ feed[f].pc = "lock" /\ live.time # a /\ UNCHANGED <<live, table>>
            /\ feed' = [feed EXCEPT ![f].pc = "flush", ![f].old = live]
  <2>1. feed'[f].pc = "flush" /\ feed'[f].tick = t /\ feed'[f].at = a /\ feed'[f].old = live
    BY <1>3, <1>10 DEF Feeding
  <2>2. PICK m \in 0..MaxTime : Made(e, m)
    BY <1>6, <1>10 DEF WholeWith
  <2>3. m < a
    <3>1. e[m] # <<>> /\ m # a
      BY <1>4, <1>10, <2>2 DEF Made, Latest
    <3>2. ~(m > a)
      BY <1>2, <3>1
    <3> QED
      BY <1>3, <3>1, <3>2
  <2>4. Made(e, m)'
    BY <1>10, <2>2 DEF Made, Latest, Stored
  <2>5. WholeWith(f, e, t, a)'
    BY <1>1, <1>7, <1>10, <2>1, <2>3, <2>4 DEF WholeWith
  <2> QED
    BY <2>1, <2>5 DEF Processing
<1>11. CASE /\ feed[f].pc = "flush" /\ feed' = [feed EXCEPT ![f].pc = "purge"] /\ UNCHANGED live
            /\ table' = [table EXCEPT ![feed[f].old.time] = feed[f].old]
  <2>1. feed'[f].pc = "purge" /\ feed'[f].tick = t /\ feed'[f].at = a
    BY <1>3, <1>11 DEF Feeding
  <2>2. PICK m \in 0..MaxTime : m < a /\ Made(e, m) /\ feed[f].old = live
    BY <1>11 DEF WholeWith
  <2>3. live.time = m
    BY <1>4, <2>2
  <2>4. table'[m] = live /\ \A b \in 0..MaxTime : b < m => table'[b] = table[b]
    BY <1>3, <1>11, <2>2, <2>3
  <2>5. Made(e, m)'
    BY <1>11, <2>2, <2>4 DEF Made, Latest, Stored
  <2>6. WholeWith(f, e, t, a)'
    BY <1>1, <1>7, <1>11, <2>1, <2>2, <2>4, <2>5 DEF WholeWith
  <2> QED
    BY <2>1, <2>6 DEF Processing
<1>12. CASE /\ feed[f].pc = "purge" /\ feed' = [feed EXCEPT ![f].pc = "reset"]
            /\ UNCHANGED <<live, table>>
  <2>1. feed'[f].pc = "reset" /\ feed'[f].tick = t /\ feed'[f].at = a
    BY <1>3, <1>12 DEF Feeding
  <2>2. PICK m \in 0..MaxTime : m < a /\ Made(e, m) /\ table[m] = live
    BY <1>12 DEF WholeWith
  <2>3. Made(e, m)'
    BY <1>12, <2>2 DEF Made, Latest, Stored
  <2>4. WholeWith(f, e, t, a)'
    BY <1>1, <1>7, <1>12, <2>1, <2>2, <2>3 DEF WholeWith
  <2> QED
    BY <2>1, <2>4 DEF Processing
<1>13. CASE /\ feed[f].pc = "reset" /\ feed' = [feed EXCEPT ![f].pc = "idle"] /\ UNCHANGED table
            /\ live' = Opened(t, a)
  <2>1. ~Processing(f)'
    BY <1>3, <1>13 DEF Feeding, Processing
  <2>2. PICK m \in 0..MaxTime : m < a /\ Made(e, m) /\ table[m] = live
    BY <1>13 DEF WholeWith
  <2>3. e[a] = <<>> /\ \A b \in 0..MaxTime : b > m => e[b] = <<>>
    BY <1>3, <2>2 DEF Made, Latest
  <2>4. live' = CandleFrom(prices[a], a)
    BY <1>2, <1>13, <2>3, CandleFirst
  <2>5. ASSUME NEW b \in 0..MaxTime, b < a, prices[b] # <<>> PROVE table[b] = CandleFrom(prices[b], b)
    <3>1. prices[b] = e[b] /\ ~(b > m)
      <4>1. b # a
        BY <1>3, <2>5
      <4>2. prices[b] = e[b]
        BY <1>2, <2>5, <4>1
      <4> QED
        BY <2>3, <2>5, <4>2
    <3>2. b < m => table[b] = CandleFrom(e[b], b)
      BY <2>2, <2>5, <3>1 DEF Made, Stored
    <3>3. b = m => table[b] = CandleFrom(e[b], b)
      BY <2>2 DEF Made
    <3>4. b < m \/ b = m
      BY <1>3, <3>1
    <3> QED
      BY <3>1, <3>2, <3>3, <3>4
  <2>6. Stored(prices, a)'
    BY <1>1, <1>13, <2>5 DEF Stored, CandleFrom, VolumeOf, Numbers
  <2>7. Made(prices, a)'
    BY <1>1, <1>7, <2>4, <2>6 DEF Made, CandleFrom, VolumeOf, Numbers
  <2> QED
    BY <2>1, <2>7 DEF Whole
<1> QED
  BY <1>8, <1>9, <1>10, <1>11, <1>12, <1>13, ProcessStep

LEMMA WholeKept ==
    ASSUME MarketTypes, Numbered, OpenedEmpty, WholeSoFar, [MarketNext]_marketVars
    PROVE  WholeSoFar'
<1>1. CASE UNCHANGED <<scenario, prices, feed, live, table>>
  BY <1>1, WholeSame
<1>2. PassTime \/ Trade \/ RollOff \/ Quiet => UNCHANGED <<scenario, prices, feed, live, table>>
  BY DEF PassTime, Trade, RollOff, Quiet, candles
<1>3. ASSUME OneFeed PROVE {"restart", "write", "backfill"} \cap scenario.faults = {}
  BY <1>3 DEF OneFeed
<1>4. CASE ~OneFeed
  <2>1. scenario' = scenario
    <3>1. \A f \in Feeder, vol \in Nat : Arrives(f, vol) => scenario' = scenario
      BY DEF Arrives, Tick
    <3>2. \A f \in Feeder : ProcessTick(f) => scenario' = scenario
      BY ProcessStep
    <3>3. UpsertKlines \/ Restart => scenario' = scenario
      BY DEF UpsertKlines, Restart
    <3> QED
      BY <1>2, <3>1, <3>2, <3>3, MarketCases DEF PassTime, Trade, RollOff, Quiet
  <2> QED
    BY <1>4, <2>1 DEF WholeSoFar, OneFeed
<1>5. CASE OneFeed
  <2>1. PICK f : scenario.feeders = {f}
    <3>1. scenario.feeders \subseteq Feeder
      BY MarketAssumption DEF MarketTypes
    <3>2. IsFiniteSet(Feeder)
      <4>1. IsFiniteSet({"bybit"}) /\ IsFiniteSet({"forex"}) /\ IsFiniteSet({"initial"})
        BY FS_Singleton
      <4>2. IsFiniteSet({"bybit"} \cup {"forex"})
        BY <4>1, FS_Union
      <4>3. IsFiniteSet(({"bybit"} \cup {"forex"}) \cup {"initial"})
        BY <4>1, <4>2, FS_Union
      <4>4. Feeder = ({"bybit"} \cup {"forex"}) \cup {"initial"}
        BY DEF Feeder
      <4> QED
        BY <4>3, <4>4
    <3>3. IsFiniteSet(scenario.feeders)
      BY <3>1, <3>2, FS_Subset
    <3> QED
      BY <1>5, <3>3, FS_Singleton DEF OneFeed
  <2>2. f \in Feeder
    BY <2>1, MarketAssumption DEF MarketTypes
  <2>3. IF Processing(f)
        THEN \E e \in [0..MaxTime -> Seq(Quote)], t \in Quote, a \in 0..MaxTime :
                t = feed[f].tick /\ a = feed[f].at /\ WholeWith(f, e, t, a)
        ELSE \E e \in [0..MaxTime -> Seq(Quote)] : e = prices /\ Whole(e)
    BY <1>5, <2>1 DEF WholeSoFar
  <2>4. ASSUME scenario' = scenario,
               IF Processing(f)'
               THEN \E e \in [0..MaxTime -> Seq(Quote)], t \in Quote, a \in 0..MaxTime :
                       t = feed'[f].tick /\ a = feed'[f].at /\ WholeWith(f, e, t, a)'
               ELSE Whole(prices)' /\ prices' \in [0..MaxTime -> Seq(Quote)]
        PROVE  WholeSoFar'
    <3>1. ~Processing(f)' => (\E e \in [0..MaxTime -> Seq(Quote)] : e = prices' /\ Whole(e)')
      <4>1. PICK e : e = prices'
        OBVIOUS
      <4>2. Whole(prices)' => Whole(e)'
        BY <4>1 DEF Whole, Void, Made, Latest, Stored
      <4> QED
        BY <2>4, <4>1, <4>2
    <3> QED
      BY <2>1, <2>4, <3>1 DEF WholeSoFar
  <2>5. ASSUME NEW g \in Feeder, NEW vol \in Nat, Arrives(g, vol) PROVE WholeSoFar'
    <3>1. g = f /\ ~Processing(f) /\ scenario' = scenario
      BY <2>1, <2>5, ArrivesStep
    <3>2. Whole(prices)
      BY <2>3, <3>1
    <3> QED
      BY <2>4, <2>5, <3>1, <3>2, WholeArrives
  <2>6. ASSUME NEW g \in Feeder, ProcessTick(g) PROVE WholeSoFar'
    <3>1. g = f /\ Processing(f) /\ scenario' = scenario /\ prices' = prices
      BY <2>1, <2>6, ProcessStep
    <3>2. PICK e \in [0..MaxTime -> Seq(Quote)], t \in Quote, a \in 0..MaxTime :
             t = feed[f].tick /\ a = feed[f].at /\ WholeWith(f, e, t, a)
      BY <2>3, <3>1
    <3>3. IF Processing(f)' THEN t = feed'[f].tick /\ a = feed'[f].at /\ WholeWith(f, e, t, a)'
          ELSE Whole(prices)'
      BY <1>3, <1>5, <2>6, <3>1, <3>2, WholeProcess
    <3>4. prices' \in [0..MaxTime -> Seq(Quote)]
      BY <3>1 DEF MarketTypes
    <3> QED
      BY <2>4, <3>1, <3>3, <3>4
  <2>7. ~UpsertKlines /\ ~Restart
    BY <1>3, <1>5 DEF UpsertKlines, Restart, MayFault, MarketTypes
  <2> QED
    BY <1>1, <1>2, <2>5, <2>6, <2>7, MarketCases
<1> QED
  BY <1>4, <1>5

MarketInv == MarketTypes /\ Numbered /\ VolumeBounded /\ OpenedEmpty /\ AllSound /\ WholeSoFar

LEMMA MarketBegins == MarketInit => MarketInv
<1> SUFFICES ASSUME MarketInit PROVE MarketInv
  OBVIOUS
<1>1. /\ scenario \in Scenario /\ clock = 0 /\ turnover = 0 /\ traded = 0 /\ prevVol = None
      /\ prices = [b \in 0..MaxTime |-> <<>>] /\ live = NoCandle
      /\ table = [b \in 0..MaxTime |-> NoCandle] /\ feed = [f \in Feeder |-> Ready]
      /\ backfill.pc = "due" /\ MaxTime \in Nat
  BY MarketAssumption DEF MarketInit, NotYet
<1>2. /\ Ready \in Feeding /\ Ready.pc = "idle" /\ Ready.tick.vol = 0
  BY DEF Ready, Feeding, Quote, None
<1>3. \A f \in Feeder : feed[f] = Ready /\ feed[f].pc = "idle" /\ ~Processing(f)
  BY <1>1, <1>2 DEF Processing
<1>4. MarketTypes
  <2>1. prices \in [0..MaxTime -> Seq(Quote)] /\ \A b \in 0..MaxTime : b > clock => prices[b] = <<>>
    BY <1>1
  <2>2. feed \in [Feeder -> Feeding]
    BY <1>1, <1>2
  <2>3. /\ \A f \in Feeder : Processing(f) => /\ feed[f].at \in 0..MaxTime
                                              /\ feed[f].tick \in Range(prices[feed[f].at])
        /\ \A f \in Feeder : feed[f].pc = "flush" => feed[f].old \in Candle
    BY <1>3
  <2> QED
    BY <1>1, <2>1, <2>2, <2>3 DEF MarketTypes, None
<1>5. Ticks = {}
  <2>1. \A b \in 0..MaxTime : Range(prices[b]) = {}
    BY <1>1 DEF Range
  <2> QED
    BY <1>1, <2>1 DEF Ticks
<1>6. Numbered
  BY <1>3, <1>5, FS_EmptySet DEF Numbered
<1>7. VolumeBounded
  BY <1>1, <1>5, VolumeNone DEF VolumeBounded, VolumeDelta
<1>8. OpenedEmpty
  <2>1. "bybit" \in Feeder
    BY DEF Feeder
  <2>2. feed["bybit"].pc = "idle"
    BY <1>3, <2>1
  <2>3. \A f \in Feeder : feed[f].tick.vol = 0 /\ feed[f].pc = "idle"
    BY <1>2, <1>3
  <2> QED
    BY <1>1, <1>3, <2>2, <2>3 DEF OpenedEmpty
<1>9. AllSound
  BY <1>1, <1>3 DEF AllSound
<1>10. WholeSoFar
  <2>1. Whole(prices)
    BY <1>1 DEF Whole, Void
  <2>2. OneFeed => \A f \in scenario.feeders : f \in Feeder
    BY <1>1, MarketAssumption
  <2> QED
    BY <1>3, <1>4, <2>1, <2>2 DEF WholeSoFar, MarketTypes
<1> QED
  BY <1>4, <1>6, <1>7, <1>8, <1>9, <1>10 DEF MarketInv

LEMMA MarketKept == ASSUME MarketInv, [MarketNext]_marketVars PROVE MarketInv'
BY MarketTyped, NumbersKept, BoundKept, OpenKept, SoundKept, WholeKept DEF MarketInv

(* A candle whose quotes are all those of its interval has no more volume. *)
LEMMA SoundIsTrue ==
    ASSUME MarketTypes, Numbered, NEW c \in Candle, Sound(c)
    PROVE  /\ c.seen \subseteq Numbers(Range(prices[c.time])) \cup {Exchange}
           /\ c.volume <= VolumeOf(Range(prices[c.time]))
<1>1. c.time \in 0..MaxTime /\ c.volume \in Nat
  BY DEF Candle
<1> DEFINE R == Range(prices[c.time])
<1>2. R \subseteq Ticks /\ \A t \in R : t.vol \in Nat
  BY <1>1, TicksTypes
<1>3. IsFiniteSet(R)
  BY <1>2, FS_Subset DEF Numbered
<1>4. SeenBy(c) \subseteq R
  BY DEF SeenBy
<1>5. VolumeOf(SeenBy(c)) <= VolumeOf(R) /\ VolumeOf(SeenBy(c)) \in Nat /\ VolumeOf(R) \in Nat
  BY <1>2, <1>3, <1>4, VolumeGrows
<1> HIDE DEF R
<1>6. c.volume <= VolumeOf(SeenBy(c)) /\ c.seen \subseteq Numbers(R) \cup {Exchange}
  BY DEF Sound, R
<1>7. c.volume <= VolumeOf(R)
  BY <1>1, <1>5, <1>6
<1> QED
  BY <1>6, <1>7 DEF R

LEMMA NothingIsInvented == ASSUME MarketInv PROVE NothingInvented
<1>1. MarketTypes /\ Numbered /\ VolumeBounded /\ AllSound
  BY DEF MarketInv
<1>2. ASSUME NEW c \in {table[b] : b \in DOMAIN table} \cup {live}, c # NoCandle
      PROVE  c \in Candle /\ Sound(c)
  <2>1. CASE c = live
    BY <1>1, <1>2, <2>1 DEF MarketTypes, AllSound
  <2>2. ASSUME NEW b \in 0..MaxTime, c = table[b] PROVE c \in Candle /\ Sound(c)
    BY <1>1, <1>2, <2>2 DEF MarketTypes, AllSound
  <2> QED
    BY <1>1, <1>2, <2>1, <2>2 DEF MarketTypes
<1>3. VolumeOf(Ticks) <= traded
  <2>1. VolumeOf(Ticks) \in Nat
    BY <1>1, TicksTypes, VolumeGrows DEF Numbered
  <2>2. VolumeDelta \in Nat /\ traded \in Nat
    BY <1>1 DEF VolumeDelta, MarketTypes, None
  <2> QED
    BY <1>1, <2>1, <2>2 DEF VolumeBounded
<1>4. ASSUME NEW c \in {table[b] : b \in DOMAIN table} \cup {live}, c # NoCandle
      PROVE  /\ c.seen \subseteq Numbers(Range(prices[c.time])) \cup {Exchange}
             /\ c.volume <= VolumeOf(Range(prices[c.time]))
  BY <1>1, <1>2, <1>4, SoundIsTrue
<1> QED
  BY <1>3, <1>4 DEF NothingInvented

LEMMA CandlesAreWhole == ASSUME MarketInv PROVE CandlesWhole
<1> SUFFICES ASSUME OneFeed, ~Busy, NEW b \in DOMAIN prices, prices[b] # <<>>
             PROVE  IF \E c \in DOMAIN prices : c > b /\ prices[c] # <<>>
                    THEN table[b] = CandleOf(b) ELSE live = CandleOf(b)
  BY DEF CandlesWhole, OneFeed
<1>1. MarketTypes /\ WholeSoFar /\ DOMAIN prices = 0..MaxTime /\ MaxTime \in Nat
  BY MarketAssumption DEF MarketInv, MarketTypes
<1>2. PICK f : f \in scenario.feeders
  <2>1. Cardinality(scenario.feeders) = 1 /\ Cardinality({}) = 0
    BY FS_EmptySet DEF OneFeed
  <2>2. ASSUME scenario.feeders = {} PROVE FALSE
    <3>1. Cardinality(scenario.feeders) = Cardinality({})
      BY ONLY <2>2
    <3>2. 1 = 0
      BY ONLY <2>1, <3>1
    <3> QED
      BY <3>2
  <2> QED
    BY <2>2
<1>3. ~Processing(f)
  BY <1>2 DEF Busy, FeedAt, Processing
<1>4. Whole(prices)
  BY <1>1, <1>2, <1>3 DEF WholeSoFar
<1>5. PICK m \in 0..MaxTime : Made(prices, m)
  BY <1>1, <1>4 DEF Whole, Void
<1>6. CandleOf(b) = CandleFrom(prices[b], b)
  BY DEF CandleOf, CandleFrom
<1>7. prices[m] # <<>> /\ \A c \in 0..MaxTime : c > m => prices[c] = <<>>
  BY <1>5 DEF Made, Latest
<1>8. CASE b = m
  <2>1. ~\E c \in DOMAIN prices : c > b /\ prices[c] # <<>>
    BY <1>1, <1>7, <1>8
  <2>2. live = CandleFrom(prices[b], b)
    BY <1>5, <1>8 DEF Made
  <2> QED
    BY <1>6, <2>1, <2>2
<1>9. CASE b # m
  <2>1. ~(b > m)
    BY <1>1, <1>7
  <2>2. b < m
    BY <1>1, <1>9, <2>1
  <2>3. \E c \in DOMAIN prices : c > b /\ prices[c] # <<>>
    BY <1>1, <1>7, <2>2
  <2>4. table[b] = CandleFrom(prices[b], b)
    BY <1>1, <1>5, <2>2 DEF Made, Stored
  <2> QED
    BY <1>6, <2>3, <2>4
<1> QED
  BY <1>8, <1>9

(* ProcessTick and flushCandle: with one feed every candle is made of all  *)
(* the prices of its interval, each once; with several, and over restarts, *)
(* none has a price or a volume that its interval had not, and all the     *)
(* volumes that were fed are together no more than was traded.             *)
THEOREM CandlesAreTrue == MarketSpec => []CandlesTrue
<1>1. MarketInit => MarketInv
  BY MarketBegins
<1>2. MarketInv /\ [MarketNext]_marketVars => MarketInv'
  BY MarketKept
<1>3. MarketInv => CandlesTrue
  BY NothingIsInvented, CandlesAreWhole DEF CandlesTrue
<1> QED
  BY <1>1, <1>2, <1>3, PTL DEF MarketSpec
=============================================================================
