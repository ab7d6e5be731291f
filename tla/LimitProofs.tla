---------------------------- MODULE LimitProofs ----------------------------
(***************************************************************************)
(* Theorems about Trading where all orders are LIMIT orders, which come    *)
(* one after another and meet rows that are up to date: rows follow the    *)
(* book, locks cover what rests, and what trades has priority.             *)
(***************************************************************************)
EXTENDS TradingProofs

(* x is taken before y: a better price, or an older order of the same.     *)
Before(tm, x, y) ==
    /\ AtLeastAsGood(tm[x].side, tm[x].price, tm[y].price)
    /\ tm[x].price = tm[y].price => x < y
Sorted(tm, q) == \A i, j \in 1 .. Len(q) : i < j => Before(tm, q[i], q[j])

-----------------------------------------------------------------------------
(* Among LIMIT orders, one request after another: the queues of the book   *)

LEMMA ConcatAt ==
    ASSUME NEW S, NEW s \in Seq(S), NEW t \in Seq(S)
    PROVE  /\ s \o t \in Seq(S) /\ Len(s \o t) = Len(s) + Len(t)
           /\ \A i \in 1 .. Len(s) + Len(t) : (s \o t)[i] = IF i <= Len(s) THEN s[i] ELSE t[i - Len(s)]
<1>1. s \o t \in Seq(S) /\ Len(s \o t) = Len(s) + Len(t)
  OBVIOUS
<1>2. ASSUME NEW i \in 1 .. Len(s) + Len(t)
      PROVE  (s \o t)[i] = IF i <= Len(s) THEN s[i] ELSE t[i - Len(s)]
  OBVIOUS
<1> QED
  BY <1>1, <1>2

LEMMA InsertedAt ==
    ASSUME NEW S, NEW s \in Seq(S), NEW e \in S, NEW n \in 0 .. Len(s)
    PROVE  /\ InsertAt(s, n + 1, e) \in Seq(S) /\ Len(InsertAt(s, n + 1, e)) = Len(s) + 1
           /\ \A i \in 1 .. Len(s) + 1 :
                 InsertAt(s, n + 1, e)[i] = IF i <= n THEN s[i] ELSE IF i = n + 1 THEN e ELSE s[i - 1]
<1> DEFINE a == SubSeq(s, 1, n)
           b == SubSeq(s, n + 1, Len(s))
           m == Len(s)
<1>1. m \in Nat /\ n \in 0 .. m
  OBVIOUS
<1>2. /\ a \in Seq(S) /\ Len(a) = n /\ \A i \in 1 .. n : a[i] = s[i]
  OBVIOUS
<1>3. /\ b \in Seq(S) /\ Len(b) = m - n /\ \A i \in 1 .. m - n : b[i] = s[i + n]
  OBVIOUS
<1>4. InsertAt(s, n + 1, e) = a \o <<e>> \o b
  <2>1. (n + 1) - 1 = n
    OBVIOUS
  <2> QED
    BY <2>1 DEF InsertAt
<1> HIDE DEF a, b, m
<1>5. a \o <<e>> \in Seq(S) /\ Len(a \o <<e>>) = n + 1
      /\ \A i \in 1 .. n + 1 : (a \o <<e>>)[i] = IF i <= n THEN a[i] ELSE e
  BY <1>1, <1>2
<1> DEFINE c == a \o <<e>>
<1>6. c \in Seq(S) /\ Len(c) = n + 1 /\ \A i \in 1 .. n + 1 : c[i] = IF i <= n THEN a[i] ELSE e
  BY <1>5
<1> HIDE DEF c
<1>7. c \o b \in Seq(S) /\ Len(c \o b) = m + 1
      /\ \A i \in 1 .. m + 1 : (c \o b)[i] = IF i <= n + 1 THEN c[i] ELSE b[i - (n + 1)]
  <2>1. /\ c \o b \in Seq(S) /\ Len(c \o b) = Len(c) + Len(b)
        /\ \A i \in 1 .. Len(c) + Len(b) : (c \o b)[i] = IF i <= Len(c) THEN c[i] ELSE b[i - Len(c)]
    BY <1>3, <1>6, ConcatAt
  <2>2. Len(c) = n + 1 /\ Len(c) + Len(b) = m + 1
    BY <1>1, <1>3, <1>6
  <2> QED
    BY <2>1, <2>2
<1>8. ASSUME NEW i \in 1 .. m + 1
      PROVE  (c \o b)[i] = IF i <= n THEN s[i] ELSE IF i = n + 1 THEN e ELSE s[i - 1]
  <2>1. CASE i <= n + 1
    BY <1>1, <1>2, <1>6, <1>7, <2>1
  <2>2. CASE ~(i <= n + 1)
    <3>1. i - (n + 1) \in 1 .. m - n /\ (i - (n + 1)) + n = i - 1
      BY <1>1, <2>2
    <3>2. b[i - (n + 1)] = s[i - 1]
      BY <1>3, <3>1
    <3> QED
      BY <1>1, <1>7, <2>2, <3>2
  <2> QED
    BY <2>1, <2>2
<1>9. InsertAt(s, n + 1, e) = c \o b
  BY <1>4 DEF c
<1>10. \A i \in 1 .. m + 1 :
          (c \o b)[i] = IF i <= n THEN s[i] ELSE IF i = n + 1 THEN e ELSE s[i - 1]
  BY <1>8
<1> DEFINE d == c \o b
<1>11. /\ InsertAt(s, n + 1, e) = d /\ d \in Seq(S) /\ Len(d) = m + 1
       /\ \A i \in 1 .. m + 1 : d[i] = IF i <= n THEN s[i] ELSE IF i = n + 1 THEN e ELSE s[i - 1]
  BY <1>7, <1>9, <1>10
<1> HIDE DEF d
<1> QED
  BY <1>11 DEF m

LEMMA RemovedAt ==
    ASSUME NEW S, NEW s \in Seq(S), NEW e
    PROVE  \/ RemoveFirst(s, e) = s /\ e \notin Range(s)
           \/ \E n \in 1 .. Len(s) :
                 /\ s[n] = e
                 /\ RemoveFirst(s, e) \in Seq(S) /\ Len(RemoveFirst(s, e)) = Len(s) - 1
                 /\ \A i \in 1 .. Len(s) - 1 : RemoveFirst(s, e)[i] = IF i < n THEN s[i] ELSE s[i + 1]
<1>1. CASE \E i \in 1 .. Len(s) : s[i] = e
  <2> DEFINE I == {i \in 1 .. Len(s) : s[i] = e}
             n == Min(I)
             a == SubSeq(s, 1, n - 1)
             b == SubSeq(s, n + 1, Len(s))
             m == Len(s)
  <2>1. n \in I
    <3>1. I # {} /\ I \subseteq Nat
      BY <1>1
    <3> HIDE DEF I
    <3>2. \E x \in I : \A y \in I : ~ (<<y, x>> \in OpToRel(<, Nat))
      BY <3>1, WFMin, NatLessThanWellFounded
    <3>3. PICK x \in I : \A y \in I : ~(y < x)
      BY <3>1, <3>2 DEF OpToRel
    <3>4. \A y \in I : x <= y
      BY <3>1, <3>3
    <3> QED
      BY <3>4 DEF Min
  <2>2. n \in 1 .. m /\ s[n] = e /\ m \in Nat
    BY <2>1
  <2>3. RemoveFirst(s, e) = a \o b
    <3>1. I # {}
      BY <1>1
    <3> QED
      BY <1>1, <3>1 DEF RemoveFirst, RemoveAt, SelectInSeq
  <2> HIDE DEF n
  <2>4. a \in Seq(S) /\ Len(a) = n - 1 /\ \A i \in 1 .. n - 1 : a[i] = s[i]
    BY <2>2
  <2>5. b \in Seq(S) /\ Len(b) = m - n /\ \A i \in 1 .. m - n : b[i] = s[i + n]
    BY <2>2
  <2> HIDE DEF a, b, m
  <2>6. a \o b \in Seq(S) /\ Len(a \o b) = m - 1
        /\ \A i \in 1 .. m - 1 : (a \o b)[i] = IF i <= n - 1 THEN a[i] ELSE b[i - (n - 1)]
    <3>1. /\ a \o b \in Seq(S) /\ Len(a \o b) = Len(a) + Len(b)
          /\ \A i \in 1 .. Len(a) + Len(b) : (a \o b)[i] = IF i <= Len(a) THEN a[i] ELSE b[i - Len(a)]
      BY <2>4, <2>5, ConcatAt
    <3>2. Len(a) = n - 1 /\ Len(a) + Len(b) = m - 1
      BY <2>2, <2>4, <2>5
    <3> QED
      BY <3>1, <3>2
  <2>7. ASSUME NEW i \in 1 .. m - 1
        PROVE  (a \o b)[i] = IF i < n THEN s[i] ELSE s[i + 1]
    <3>1. CASE i < n
      BY <2>2, <2>4, <2>6, <3>1
    <3>2. CASE ~(i < n)
      <4>1. i - (n - 1) \in 1 .. m - n /\ (i - (n - 1)) + n = i + 1
        BY <2>2, <3>2
      <4>2. b[i - (n - 1)] = s[i + 1]
        BY <2>5, <4>1
      <4> QED
        BY <2>2, <2>6, <3>2, <4>2
    <3> QED
      BY <3>1, <3>2
  <2> QED
    BY <2>2, <2>3, <2>6, <2>7 DEF m
<1>2. CASE ~ \E i \in 1 .. Len(s) : s[i] = e
  BY <1>2 DEF RemoveFirst, Range
<1> QED
  BY <1>1, <1>2

LEMMA ReachType ==
    ASSUME NEW tm \in [Order -> Terms], NEW x \in Order
    PROVE  tm[x].price \in Nat /\ tm[x].side \in Side /\ tm[x].amount \in Nat /\ x \in Nat
BY DEF Terms, Order

(* An order joins behind those that are at least as good; no younger one   *)
(* rests, so the side stays sorted.                                        *)
LEMMA InsertSorted ==
    ASSUME NEW tm \in [Order -> Terms], NEW q \in Seq(Order), NEW o \in Order, Sorted(tm, q),
           \A r \in Range(q) : tm[r].side = tm[o].side /\ r < o
    PROVE  LET all == InsertAt(q, Ahead(tm, q, o) + 1, o) IN
           /\ all \in Seq(Order) /\ Sorted(tm, all)
           /\ Range(all) = Range(q) \cup {o}
<1> DEFINE m == Len(q)
           side == tm[o].side
           I == {i \in 1 .. m : AtLeastAsGood(side, tm[q[i]].price, tm[o].price)}
           n == Cardinality(I)
           all == InsertAt(q, n + 1, o)
<1>1. /\ m \in Nat /\ side \in Side /\ tm[o].price \in Nat
      /\ \A i \in 1 .. m : /\ q[i] \in Order /\ tm[q[i]].price \in Nat /\ tm[q[i]].side = side
                           /\ q[i] < o /\ q[i] \in Int /\ o \in Int
      /\ DOMAIN q = 1 .. m
  <2>1. m \in Nat /\ DOMAIN q = 1 .. m
    OBVIOUS
  <2>2. side \in Side /\ tm[o].price \in Nat /\ o \in Int
    BY ReachType
  <2>3. \A i \in 1 .. m : q[i] \in Order /\ q[i] \in Range(q)
    BY <2>1 DEF Range
  <2>4. \A x \in Order : tm[x].price \in Nat /\ x \in Int
    BY ReachType
  <2> QED
    BY <2>1, <2>2, <2>3, <2>4
<1>2. Ahead(tm, q, o) = n
  BY <1>1 DEF Ahead
<1>3. \A i, j \in 1 .. m : i < j => Before(tm, q[i], q[j])
  BY DEF Sorted
<1>4. \A i, j \in 1 .. m : j \in I /\ i < j => i \in I
  <2>1. SUFFICES ASSUME NEW i \in 1 .. m, NEW j \in 1 .. m, j \in I, i < j
                 PROVE  AtLeastAsGood(side, tm[q[i]].price, tm[o].price)
    OBVIOUS
  <2>2. AtLeastAsGood(side, tm[q[j]].price, tm[o].price)
    BY Zenon, <2>1
  <2>3. AtLeastAsGood(side, tm[q[i]].price, tm[q[j]].price)
    <3>1. Before(tm, q[i], q[j])
      BY <1>3, <2>1
    <3>2. tm[q[i]].side = side
      BY <1>1
    <3> QED
      BY Zenon, <3>1, <3>2 DEF Before
  <2>4. tm[q[i]].price \in Nat /\ tm[q[j]].price \in Nat /\ tm[o].price \in Nat /\ side \in Side
    BY <1>1
  <2> HIDE DEF side, I, m
  <2> QED
    BY <2>2, <2>3, <2>4 DEF AtLeastAsGood, Side
<1> HIDE DEF m, side
<1>5. n \in 0 .. m /\ I = 1 .. n
  <2>1. I \in SUBSET (1 .. m)
    OBVIOUS
  <2> HIDE DEF I
  <2>2. CASE I = {}
    BY <1>1, <2>2, FS_EmptySet
  <2>3. CASE I # {}
    <3>1. PICK k \in I : \A i \in I : k >= i
      <4> DEFINE F == {m - x : x \in I}
      <4>2. F # {} /\ F \subseteq Nat
        <5>1. \A x \in I : x \in 1 .. m
          BY <2>1
        <5>2. \A x \in I : m - x \in Nat
          BY <1>1, <5>1
        <5> QED
          BY <2>3, <5>2
      <4>3. \A x \in I : x \in 1 .. m /\ m - x \in F
        BY <2>1
      <4>4. \A y \in F : \E x \in I : y = m - x
        OBVIOUS
      <4> HIDE DEF F
      <4>5. \E y \in F : \A z \in F : ~ (<<z, y>> \in OpToRel(<, Nat))
        BY <4>2, WFMin, NatLessThanWellFounded
      <4>6. PICK y \in F : \A z \in F : ~(z < y)
        BY <4>2, <4>5 DEF OpToRel
      <4>7. PICK x \in I : y = m - x
        BY <4>4
      <4>8. \A z \in I : x >= z
        BY <1>1, <4>3, <4>6, <4>7
      <4> QED
        BY <4>8
    <3>2. k \in 1 .. m
      BY <2>1
    <3>3. I = 1 .. k
      <4>1. \A i \in 1 .. k : i \in 1 .. m /\ (i < k \/ i = k)
        BY <1>1, <3>2
      <4>2. 1 .. k \subseteq I
        BY <1>4, <3>2, <4>1
      <4>3. \A i \in I : i \in 1 .. k
        BY <1>1, <2>1, <3>1, <3>2
      <4> QED
        BY <4>2, <4>3
    <3>4. n = k
      BY <3>2, <3>3, FS_Interval
    <3> QED
      BY <1>1, <3>2, <3>3, <3>4
  <2> QED
    BY <2>2, <2>3
<1>6. \A i \in 1 .. m : AtLeastAsGood(side, tm[q[i]].price, tm[o].price) <=> i <= n
  <2>1. \A i \in 1 .. m : AtLeastAsGood(side, tm[q[i]].price, tm[o].price) <=> i \in I
    OBVIOUS
  <2> HIDE DEF I, n
  <2> QED
    BY <1>1, <1>5, <2>1
<1> HIDE DEF I, n
<1>7. /\ all \in Seq(Order) /\ Len(all) = m + 1
      /\ \A i \in 1 .. m + 1 : all[i] = IF i <= n THEN q[i] ELSE IF i = n + 1 THEN o ELSE q[i - 1]
  BY <1>5, InsertedAt DEF m
<1> HIDE DEF all
<1>8. \A i \in 1 .. m : /\ i <= n => Before(tm, q[i], o)
                        /\ ~(i <= n) => Before(tm, o, q[i])
  <2> SUFFICES ASSUME NEW i \in 1 .. m
               PROVE  /\ i <= n => Before(tm, q[i], o)
                      /\ ~(i <= n) => Before(tm, o, q[i])
    OBVIOUS
  <2>1. AtLeastAsGood(side, tm[q[i]].price, tm[o].price) <=> i <= n
    BY <1>6
  <2>2. /\ tm[q[i]].side = side /\ tm[o].side = side /\ q[i] < o /\ q[i] \in Int /\ o \in Int
        /\ tm[q[i]].price \in Nat /\ tm[o].price \in Nat
    BY <1>1 DEF side
  <2> QED
    BY <2>1, <2>2 DEF Before, AtLeastAsGood
<1>9. Sorted(tm, all)
  <2> SUFFICES ASSUME NEW i \in 1 .. m + 1, NEW j \in 1 .. m + 1, i < j
               PROVE  Before(tm, all[i], all[j])
    BY <1>7 DEF Sorted
  <2>1. CASE j <= n
    BY <1>1, <1>3, <1>5, <1>7, <2>1
  <2>2. CASE j = n + 1
    <3>1. i <= n /\ i \in 1 .. m
      BY <1>1, <1>5, <2>2
    <3> QED
      BY <1>7, <1>8, <2>2, <3>1, <1>5
  <2>3. CASE j > n + 1
    <3>1. j - 1 \in 1 .. m /\ ~(j - 1 <= n) /\ all[j] = q[j - 1]
      BY <1>1, <1>5, <1>7, <2>3
    <3>2. CASE i <= n
      <4>1. i \in 1 .. m /\ i < j - 1 /\ all[i] = q[i]
        BY <1>1, <1>5, <1>7, <2>3, <3>2
      <4> QED
        BY <1>3, <3>1, <4>1
    <3>3. CASE i = n + 1
      <4>1. all[i] = o
        BY <1>5, <1>7, <3>3
      <4> QED
        BY <1>8, <3>1, <4>1
    <3>4. CASE i > n + 1
      <4>1. i - 1 \in 1 .. m /\ i - 1 < j - 1 /\ all[i] = q[i - 1]
        BY <1>1, <1>5, <1>7, <3>4
      <4> QED
        BY <1>3, <3>1, <4>1
    <3> QED
      BY <1>5, <3>2, <3>3, <3>4
  <2> QED
    BY <1>5, <2>1, <2>2, <2>3
<1>10. Range(all) = Range(q) \cup {o}
  <2>1. ASSUME NEW i \in 1 .. m + 1
        PROVE  all[i] \in Range(q) \cup {o}
    <3>1. CASE i <= n
      <4>1. i \in 1 .. m /\ all[i] = q[i]
        BY <1>1, <1>5, <1>7, <3>1
      <4> QED
        BY <1>1, <4>1 DEF Range
    <3>2. CASE i = n + 1
      BY <1>5, <1>7, <3>2
    <3>3. CASE i > n + 1
      <4>1. i - 1 \in 1 .. m /\ all[i] = q[i - 1]
        BY <1>1, <1>5, <1>7, <3>3
      <4> QED
        BY <1>1, <4>1 DEF Range
    <3> QED
      BY <1>5, <3>1, <3>2, <3>3
  <2>2. o \in Range(all)
    <3>1. n + 1 \in 1 .. m + 1 /\ all[n + 1] = o
      BY <1>1, <1>5, <1>7
    <3> QED
      BY <1>7, <3>1 DEF Range
  <2>3. ASSUME NEW i \in 1 .. m
        PROVE  q[i] \in Range(all)
    <3>1. CASE i <= n
      <4>1. i \in 1 .. m + 1 /\ all[i] = q[i]
        BY <1>1, <1>7, <3>1
      <4> QED
        BY <1>7, <4>1 DEF Range
    <3>2. CASE ~(i <= n)
      <4>1. i + 1 \in 1 .. m + 1 /\ all[i + 1] = q[i]
        BY <1>1, <1>5, <1>7, <3>2
      <4> QED
        BY <1>7, <4>1 DEF Range
    <3> QED
      BY <3>1, <3>2
  <2>4. DOMAIN all = 1 .. m + 1
    BY <1>7
  <2> QED
    BY <1>1, <2>1, <2>2, <2>3, <2>4 DEF Range
<1> QED
  BY <1>2, <1>7, <1>9, <1>10 DEF all, n

(* An order leaves a sorted queue. *)
LEMMA RemoveSorted ==
    ASSUME NEW tm \in [Order -> Terms], NEW q \in Seq(Order), NEW o \in Order, Sorted(tm, q)
    PROVE  /\ RemoveFirst(q, o) \in Seq(Order) /\ Sorted(tm, RemoveFirst(q, o))
           /\ Range(RemoveFirst(q, o)) = Range(q) \ {o}
<1> DEFINE all == RemoveFirst(q, o)
           m == Len(q)
<1>1. CASE all = q /\ o \notin Range(q)
  BY <1>1
<1>2. CASE ~(all = q /\ o \notin Range(q))
  <2>1. PICK n \in 1 .. m : /\ q[n] = o
                            /\ all \in Seq(Order) /\ Len(all) = m - 1
                            /\ \A i \in 1 .. m - 1 : all[i] = IF i < n THEN q[i] ELSE q[i + 1]
    BY <1>2, RemovedAt
  <2>2. m \in Nat /\ DOMAIN q = 1 .. m /\ \A i \in 1 .. m : q[i] \in Order
    OBVIOUS
  <2>3. \A i, j \in 1 .. m : i < j => Before(tm, q[i], q[j])
    BY DEF Sorted
  <2> HIDE DEF all, m
  <2>4. \A i \in 1 .. m : i # n => q[i] # o
    <3> SUFFICES ASSUME NEW i \in 1 .. m, i # n, q[i] = o
                 PROVE  FALSE
      OBVIOUS
    <3>1. i < n \/ n < i
      BY <2>2
    <3>2. Before(tm, o, o)
      BY <2>1, <2>3, <3>1
    <3> QED
      BY <3>2, ReachType DEF Before
  <2>5. Sorted(tm, all)
    <3> SUFFICES ASSUME NEW i \in 1 .. m - 1, NEW j \in 1 .. m - 1, i < j
                 PROVE  Before(tm, all[i], all[j])
      BY <2>1 DEF Sorted
    <3>1. CASE j < n
      BY <2>1, <2>2, <2>3, <3>1
    <3>2. CASE ~(j < n)
      <4>1. all[j] = q[j + 1] /\ j + 1 \in 1 .. m
        BY <2>1, <2>2, <3>2
      <4>2. CASE i < n
        <5>1. all[i] = q[i] /\ i \in 1 .. m /\ i < j + 1
          BY <2>1, <2>2, <4>2
        <5> QED
          BY <2>3, <4>1, <5>1
      <4>3. CASE ~(i < n)
        <5>1. all[i] = q[i + 1] /\ i + 1 \in 1 .. m /\ i + 1 < j + 1
          BY <2>1, <2>2, <4>3
        <5> QED
          BY <2>3, <4>1, <5>1
      <4> QED
        BY <4>2, <4>3
    <3> QED
      BY <3>1, <3>2
  <2>6. Range(all) = Range(q) \ {o}
    <3>1. DOMAIN all = 1 .. m - 1
      BY <2>1
    <3>2. ASSUME NEW i \in 1 .. m - 1
          PROVE  all[i] \in Range(q) \ {o}
      <4>1. CASE i < n
        <5>1. all[i] = q[i] /\ i \in 1 .. m /\ i # n
          BY <2>1, <2>2, <4>1
        <5> QED
          BY <2>2, <2>4, <5>1 DEF Range
      <4>2. CASE ~(i < n)
        <5>1. all[i] = q[i + 1] /\ i + 1 \in 1 .. m /\ i + 1 # n
          BY <2>1, <2>2, <4>2
        <5> QED
          BY <2>2, <2>4, <5>1 DEF Range
      <4> QED
        BY <4>1, <4>2
    <3>3. ASSUME NEW i \in 1 .. m, q[i] # o
          PROVE  q[i] \in Range(all)
      <4>1. CASE i < n
        <5>1. i \in 1 .. m - 1 /\ all[i] = q[i]
          BY <2>1, <2>2, <4>1
        <5> QED
          BY <3>1, <5>1 DEF Range
      <4>2. CASE i > n
        <5>1. i - 1 \in 1 .. m - 1 /\ all[i - 1] = q[i]
          BY <2>1, <2>2, <4>2
        <5> QED
          BY <3>1, <5>1 DEF Range
      <4> QED
        BY <2>1, <2>2, <3>3, <4>1, <4>2
    <3> QED
      BY <2>2, <3>1, <3>2, <3>3 DEF Range
  <2> QED
    BY <2>1, <2>5, <2>6 DEF all
<1> QED
  BY <1>1, <1>2

Hit(m, mm, x) == mm[x].filled > m[x].filled
Passed(tm, m, mm, o, x) == Hit(m, mm, x) \/ Remaining(tm, mm, x) <= 0 \/ ~Crosses(tm, o, x)

(* What the incoming order o has done when it has met the first k orders   *)
(* of a sorted queue: they rest on, in order, or are filled; what was      *)
(* traded is a prefix of what the price reaches.                           *)
Taken(tm, m, o, q, k, acc) ==
    /\ \A x \in Order \ {o} : (\A j \in 1 .. k : q[j] # x) => acc.mem[x] = m[x]
    /\ \A x \in Range(acc.rest) : \E j \in 1 .. k : x = q[j]
    /\ Sorted(tm, acc.rest)
    /\ \A j \in 1 .. k : q[j] \in Range(acc.rest) \/ acc.mem[q[j]].status = "FILLED"
    /\ \A j \in 1 .. k : \/ acc.mem[q[j]] = m[q[j]] /\ q[j] \in Range(acc.rest)
                         \/ \E i \in 1 .. Len(acc.trades) : q[j] \in Parties(acc.trades[i])
    /\ \A i \in 1 .. Len(acc.trades) : \E j \in 1 .. k :
          Crosses(tm, o, q[j]) /\ acc.trades[i] = TradeOf(tm, o, q[j], acc.trades[i].amt)
    /\ Remaining(tm, acc.mem, o) > 0 \/ acc.mem[o].status = "FILLED"
    /\ \A j \in 1 .. k : Remaining(tm, acc.mem, o) > 0 => Passed(tm, m, acc.mem, o, q[j])
    /\ \A j \in 1 .. k : Hit(m, acc.mem, q[j]) =>
          Crosses(tm, o, q[j]) /\ \A i \in 1 .. j - 1 : Passed(tm, m, acc.mem, o, q[i])

LEMMA FillStatus ==
    ASSUME NEW tm \in [Order -> Terms], NEW m \in [Order -> Progress], NEW o \in Order,
           NEW qty \in Nat
    PROVE  LET mm == Fill(tm, m, o, qty) IN
           /\ mm[o].status = "FILLED" <=> mm[o].filled >= tm[o].amount \/
                                          (mm[o].filled <= 0 /\ m[o].status = "FILLED")
<1> DEFINE n == m[o].filled + qty
           e == [filled |-> n,
                 status |-> IF n >= tm[o].amount THEN "FILLED"
                            ELSE IF n > 0 THEN "PARTIAL" ELSE m[o].status]
<1>1. Fill(tm, m, o, qty) = [m EXCEPT ![o] = e]
  BY DEF Fill
<1>2. Fill(tm, m, o, qty)[o] = e
  <2> HIDE DEF e
  <2> QED
    BY <1>1
<1>3. n \in Int /\ tm[o].amount \in Nat
  BY RemainingType
<1>4. e.filled = n /\ e.status = (IF n >= tm[o].amount THEN "FILLED"
                                  ELSE IF n > 0 THEN "PARTIAL" ELSE m[o].status)
  OBVIOUS
<1> HIDE DEF n, e
<1> QED
  BY <1>2, <1>3, <1>4

LEMMA MeetTakes ==
    ASSUME NEW tm \in [Order -> Terms], NEW m \in [Order -> Progress], NEW o \in Order,
           NEW q \in Seq(Order), o \notin Range(q), Sorted(tm, q),
           \A x \in Order : m[x].filled <= tm[x].amount,
           NEW acc \in Acc, NEW k \in Nat, k + 1 \in 1 .. Len(q),
           Taken(tm, m, o, q, k, acc)
    PROVE  Taken(tm, m, o, q, k + 1, Meet(tm, o, acc, q[k + 1]))
<1> DEFINE r == q[k + 1]
           qty == Quantity(tm, o, acc, r)
           met == Fill(tm, acc.mem, r, qty)
           all == Fill(tm, met, o, qty)
           t == TradeOf(tm, o, r, qty)
           next == Meet(tm, o, acc, r)
<1>1. /\ acc.mem \in [Order -> Progress] /\ acc.trades \in Seq(Trade) /\ acc.rest \in Seq(Order)
      /\ r \in Order /\ r # o /\ r \in Range(q)
  <2>1. r \in Order /\ r \in Range(q)
    BY DEF Range
  <2> QED
    BY <2>1 DEF Acc
<1>2. \A j \in 1 .. k : q[j] \in Order /\ q[j] # o /\ q[j] # r /\ Before(tm, q[j], r)
  <2> SUFFICES ASSUME NEW j \in 1 .. k
               PROVE  q[j] \in Order /\ q[j] # o /\ q[j] # r /\ Before(tm, q[j], r)
    OBVIOUS
  <2>1. j \in 1 .. Len(q) /\ j < k + 1
    OBVIOUS
  <2>2. q[j] \in Order /\ q[j] \in Range(q)
    BY <2>1 DEF Range
  <2>3. Before(tm, q[j], r)
    BY <2>1 DEF Sorted
  <2>4. q[j] # r
    <3> SUFFICES ASSUME q[j] = r PROVE FALSE
      OBVIOUS
    <3>1. Before(tm, r, r) /\ r \in Nat
      BY <1>1, <2>3, ReachType
    <3> QED
      BY <3>1 DEF Before
  <2> QED
    BY <2>2, <2>3, <2>4
<1>3. \A j \in 1 .. k + 1 : j \in 1 .. k \/ j = k + 1
  OBVIOUS
<1>4. acc.mem[r] = m[r]
  BY <1>1, <1>2 DEF Taken
<1>5. next = IF Trades(tm, o, acc, r)
             THEN [mem |-> all, trades |-> Append(acc.trades, t),
                   rest |-> IF IsFilled(tm, met, r) THEN acc.rest ELSE Append(acc.rest, r)]
             ELSE [acc EXCEPT !.rest = Append(@, r)]
  BY DEF Meet, Trades, Quantity
<1>6. /\ Range(Append(acc.rest, r)) = Range(acc.rest) \cup {r}
      /\ Sorted(tm, Append(acc.rest, r))
  <2> DEFINE s == acc.rest
  <2>1. s \in Seq(Order) /\ \A x \in Range(s) : Before(tm, x, r)
    BY <1>1, <1>2 DEF Taken
  <2>2. \A i, j \in 1 .. Len(s) : i < j => Before(tm, s[i], s[j])
    BY DEF Taken, Sorted
  <2> HIDE DEF s
  <2>3. /\ Append(s, r) \in Seq(Order) /\ Len(Append(s, r)) = Len(s) + 1
        /\ \A i \in 1 .. Len(s) : Append(s, r)[i] = s[i]
        /\ Append(s, r)[Len(s) + 1] = r
        /\ Range(Append(s, r)) = Range(s) \cup {r}
    BY <1>1, <2>1, Appended
  <2>4. \A i \in 1 .. Len(s) : Before(tm, s[i], r)
    BY <2>1 DEF Range
  <2>5. Sorted(tm, Append(s, r))
    <3> SUFFICES ASSUME NEW i \in 1 .. Len(s) + 1, NEW j \in 1 .. Len(s) + 1, i < j
                 PROVE  Before(tm, Append(s, r)[i], Append(s, r)[j])
      BY <2>3 DEF Sorted
    <3>1. Len(s) \in Nat /\ i \in 1 .. Len(s)
      BY <2>1
    <3>2. CASE j = Len(s) + 1
      BY <2>3, <2>4, <3>1, <3>2
    <3>3. CASE j # Len(s) + 1
      <4>1. j \in 1 .. Len(s)
        BY <3>1, <3>3
      <4> QED
        BY <2>2, <2>3, <3>1, <4>1
    <3> QED
      BY <3>2, <3>3
  <2> QED
    BY <2>3, <2>5 DEF s
<1> HIDE DEF r
<1>7. CASE Trades(tm, o, acc, r)
  <2>1. /\ Remaining(tm, acc.mem, o) = tm[o].amount - acc.mem[o].filled
        /\ Remaining(tm, acc.mem, r) = tm[r].amount - acc.mem[r].filled
        /\ acc.mem[o].filled \in Int /\ acc.mem[r].filled \in Int
        /\ tm[o].amount \in Nat /\ tm[r].amount \in Nat
        /\ acc.mem[r].filled <= tm[r].amount /\ Remaining(tm, acc.mem, o) > 0
        /\ Crosses(tm, o, r)
    BY <1>1, <1>4, <1>7, RemainingType DEF Remaining, Trades
  <2>2. /\ qty \in Nat /\ qty <= tm[o].amount - acc.mem[o].filled
        /\ qty <= tm[r].amount - acc.mem[r].filled
        /\ qty = tm[o].amount - acc.mem[o].filled \/ qty = tm[r].amount - acc.mem[r].filled
    BY <2>1 DEF Quantity, Least
  <2> HIDE DEF qty
  <2>3. /\ met \in [Order -> Progress] /\ met[r].filled = acc.mem[r].filled + qty
        /\ \A x \in Order \ {r} : met[x] = acc.mem[x]
        /\ met[r].filled >= tm[r].amount => met[r].status = "FILLED"
    <3> DEFINE a == acc.mem
    <3>1. a \in [Order -> Progress] /\ r \in Order /\ qty \in Int /\ qty \in Nat
      BY <1>1, <2>2
    <3> HIDE DEF a
    <3>2. /\ Fill(tm, a, r, qty) \in [Order -> Progress]
          /\ Fill(tm, a, r, qty)[r].filled = a[r].filled + qty
          /\ \A x \in Order \ {r} : Fill(tm, a, r, qty)[x] = a[x]
      BY <3>1, FillType
    <3>3. Fill(tm, a, r, qty)[r].filled >= tm[r].amount => Fill(tm, a, r, qty)[r].status = "FILLED"
      BY <3>1, FillStatus
    <3> QED
      BY <3>2, <3>3 DEF a
  <2> HIDE DEF met
  <2>4. /\ all \in [Order -> Progress] /\ all[o].filled = met[o].filled + qty
        /\ \A x \in Order \ {o} : all[x] = met[x]
        /\ all[o].filled >= tm[o].amount => all[o].status = "FILLED"
    <3>1. qty \in Int
      BY <2>2
    <3>2. /\ all \in [Order -> Progress] /\ all[o].filled = met[o].filled + qty
          /\ \A x \in Order \ {o} : all[x] = met[x]
      <4>1. tm \in [Order -> Terms] /\ met \in [Order -> Progress] /\ o \in Order /\ qty \in Int
        BY <2>3, <3>1
      <4>2. all \in [Order -> Progress]
        BY <4>1, FillType
      <4>3. all[o].filled = met[o].filled + qty
        BY <4>1, FillType
      <4>4. \A x \in Order \ {o} : all[x] = met[x]
        BY <4>1 DEF Fill
      <4> QED
        BY <4>2, <4>3, <4>4
    <3>3. all[o].filled >= tm[o].amount => all[o].status = "FILLED"
      BY <2>2, <2>3, FillStatus
    <3> QED
      BY <3>2, <3>3
  <2> HIDE DEF all
  <2>5. /\ all[o].filled = acc.mem[o].filled + qty /\ all[r] = met[r]
        /\ all[r].filled = m[r].filled + qty
        /\ \A x \in Order \ {o, r} : all[x] = acc.mem[x]
    BY <1>1, <1>4, <2>3, <2>4
  <2>6. t \in Trade /\ Parties(t) = {o, r} /\ t.amt = qty
    <3>1. qty \in Int
      BY <2>2
    <3>2. t \in Trade
      BY <1>1, <3>1, TradeType
    <3>3. Parties(t) = {o, r} /\ ~Synthetic(t) /\ t.amt = qty
      <4>1. o \in Order /\ r \in Order
        BY <1>1
      <4> QED
        BY ONLY <4>1, PartiesOfTrade DEF t
    <3> QED
      BY <3>2, <3>3
  <2> HIDE DEF t
  <2>7. /\ next.mem = all /\ next.trades = Append(acc.trades, t)
        /\ \/ next.rest = acc.rest /\ IsFilled(tm, met, r)
           \/ next.rest = Append(acc.rest, r)
    BY <1>5, <1>7
  <2>8. /\ Len(next.trades) = Len(acc.trades) + 1 /\ next.trades[Len(acc.trades) + 1] = t
        /\ \A j \in 1 .. Len(acc.trades) : next.trades[j] = acc.trades[j]
        /\ Len(acc.trades) \in Nat
    BY <1>1, <2>6, <2>7, Appended, TradeFields
  <2>9. \A j \in 1 .. k : all[q[j]] = acc.mem[q[j]]
    BY <1>2, <2>5
  <2>10. Remaining(tm, next.mem, o) = tm[o].amount - (acc.mem[o].filled + qty)
    BY <2>5, <2>7 DEF Remaining
  <2> HIDE DEF next
  <2>11. \A x \in Order \ {o} : (\A j \in 1 .. k + 1 : q[j] # x) => next.mem[x] = m[x]
    <3> SUFFICES ASSUME NEW x \in Order \ {o}, \A j \in 1 .. k + 1 : q[j] # x
                 PROVE  all[x] = m[x]
      BY <2>7
    <3>1. x # r /\ \A j \in 1 .. k : q[j] # x
      BY DEF r
    <3> QED
      BY <2>5, <3>1 DEF Taken
  <2>12. /\ \A x \in Range(next.rest) : \E j \in 1 .. k + 1 : x = q[j]
         /\ Sorted(tm, next.rest)
    <3>1. Range(next.rest) \subseteq Range(acc.rest) \cup {r} /\ Sorted(tm, next.rest)
      BY <1>6, <2>7 DEF Taken
    <3>2. k + 1 \in 1 .. k + 1 /\ \A j \in 1 .. k : j \in 1 .. k + 1
      OBVIOUS
    <3> QED
      BY <3>1, <3>2 DEF Taken, r
  <2>13. /\ \A x \in Range(acc.rest) : x \in Range(next.rest)
         /\ r \in Range(next.rest) \/ all[r].status = "FILLED"
    <3>1. IsFilled(tm, met, r) => all[r].status = "FILLED"
      BY <2>3, <2>5 DEF IsFilled
    <3> QED
      BY <1>6, <2>7, <3>1
  <2>14. \A j \in 1 .. k + 1 : q[j] \in Range(next.rest) \/ next.mem[q[j]].status = "FILLED"
    <3> SUFFICES ASSUME NEW j \in 1 .. k + 1
                 PROVE  q[j] \in Range(next.rest) \/ all[q[j]].status = "FILLED"
      BY <2>7
    <3>1. CASE j \in 1 .. k
      BY <2>9, <2>13, <3>1 DEF Taken
    <3>2. CASE j = k + 1
      BY <2>13, <3>2 DEF r
    <3> QED
      BY <1>3, <3>1, <3>2
  <2>15. \A j \in 1 .. k + 1 : \/ next.mem[q[j]] = m[q[j]] /\ q[j] \in Range(next.rest)
                               \/ \E i \in 1 .. Len(next.trades) : q[j] \in Parties(next.trades[i])
    <3> SUFFICES ASSUME NEW j \in 1 .. k + 1
                 PROVE  \/ all[q[j]] = m[q[j]] /\ q[j] \in Range(next.rest)
                        \/ \E i \in 1 .. Len(next.trades) : q[j] \in Parties(next.trades[i])
      BY <2>7
    <3>1. CASE j \in 1 .. k
      <4>1. CASE acc.mem[q[j]] = m[q[j]] /\ q[j] \in Range(acc.rest)
        BY <2>9, <2>13, <3>1, <4>1
      <4>2. ASSUME NEW i \in 1 .. Len(acc.trades), q[j] \in Parties(acc.trades[i])
            PROVE  \E n \in 1 .. Len(next.trades) : q[j] \in Parties(next.trades[n])
        <5>1. i \in 1 .. Len(next.trades) /\ next.trades[i] = acc.trades[i]
          BY <2>8
        <5> QED
          BY <4>2, <5>1
      <4> QED
        BY <3>1, <4>1, <4>2 DEF Taken
    <3>2. CASE j = k + 1
      <4>1. Len(acc.trades) + 1 \in 1 .. Len(next.trades)
        BY <2>8
      <4>2. q[j] \in Parties(next.trades[Len(acc.trades) + 1])
        BY <2>6, <2>8, <3>2 DEF r
      <4> QED
        BY <4>1, <4>2
    <3> QED
      BY <1>3, <3>1, <3>2
  <2>16. \A i \in 1 .. Len(next.trades) : \E j \in 1 .. k + 1 :
            Crosses(tm, o, q[j]) /\ next.trades[i] = TradeOf(tm, o, q[j], next.trades[i].amt)
    <3> SUFFICES ASSUME NEW i \in 1 .. Len(next.trades)
                 PROVE  \E j \in 1 .. k + 1 :
                          Crosses(tm, o, q[j]) /\ next.trades[i] = TradeOf(tm, o, q[j], next.trades[i].amt)
      OBVIOUS
    <3>1. CASE i \in 1 .. Len(acc.trades)
      <4>1. PICK j \in 1 .. k : /\ Crosses(tm, o, q[j])
                                /\ acc.trades[i] = TradeOf(tm, o, q[j], acc.trades[i].amt)
        BY <3>1 DEF Taken
      <4>2. j \in 1 .. k + 1 /\ next.trades[i] = acc.trades[i]
        BY <2>8, <3>1
      <4> QED
        BY <4>1, <4>2
    <3>2. CASE i = Len(acc.trades) + 1
      <4>1. next.trades[i] = TradeOf(tm, o, q[k + 1], qty) /\ next.trades[i].amt = qty
        BY <2>6, <2>8, <3>2 DEF t, r
      <4>2. k + 1 \in 1 .. k + 1 /\ Crosses(tm, o, q[k + 1])
        BY <2>1 DEF r
      <4> QED
        BY <4>1, <4>2
    <3> QED
      BY <2>8, <3>1, <3>2
  <2>17. Remaining(tm, next.mem, o) > 0 \/ next.mem[o].status = "FILLED"
    BY <2>1, <2>2, <2>4, <2>5, <2>7, <2>10
  <2>18. \A j \in 1 .. k : Passed(tm, m, acc.mem, o, q[j]) /\ Passed(tm, m, next.mem, o, q[j])
    <3> SUFFICES ASSUME NEW j \in 1 .. k
                 PROVE  Passed(tm, m, acc.mem, o, q[j]) /\ Passed(tm, m, all, o, q[j])
      BY <2>7
    <3>1. Passed(tm, m, acc.mem, o, q[j])
      BY <2>1 DEF Taken
    <3> QED
      BY <2>9, <3>1 DEF Passed, Hit, Remaining
  <2>19. \A j \in 1 .. k + 1 : Remaining(tm, next.mem, o) > 0 => Passed(tm, m, next.mem, o, q[j])
    <3> SUFFICES ASSUME NEW j \in 1 .. k + 1, Remaining(tm, next.mem, o) > 0
                 PROVE  Passed(tm, m, next.mem, o, q[j])
      OBVIOUS
    <3>1. CASE j = k + 1
      <4>1. qty = tm[r].amount - acc.mem[r].filled
        BY <2>1, <2>2, <2>10
      <4>2. Remaining(tm, all, r) <= 0
        BY <1>4, <2>1, <2>5, <4>1 DEF Remaining
      <4> QED
        BY <2>7, <3>1, <4>2 DEF Passed, r
    <3> QED
      BY <1>3, <2>18, <3>1
  <2>20. \A j \in 1 .. k + 1 : Hit(m, next.mem, q[j]) =>
            Crosses(tm, o, q[j]) /\ \A i \in 1 .. j - 1 : Passed(tm, m, next.mem, o, q[i])
    <3> SUFFICES ASSUME NEW j \in 1 .. k + 1, Hit(m, next.mem, q[j])
                 PROVE  Crosses(tm, o, q[j]) /\ \A i \in 1 .. j - 1 : Passed(tm, m, next.mem, o, q[i])
      OBVIOUS
    <3>1. \A i \in 1 .. j - 1 : i \in 1 .. k
      OBVIOUS
    <3>2. Crosses(tm, o, q[j])
      <4>1. CASE j \in 1 .. k
        <5>1. Hit(m, acc.mem, q[j])
          BY <2>7, <2>9, <4>1 DEF Hit
        <5> QED
          BY <4>1, <5>1 DEF Taken
      <4>2. CASE j = k + 1
        BY <2>1, <4>2 DEF r
      <4> QED
        BY <1>3, <4>1, <4>2
    <3> QED
      BY <2>18, <3>1, <3>2
  <2>21. Taken(tm, m, o, q, k + 1, next)
    BY <2>11, <2>12, <2>14, <2>15, <2>16, <2>17, <2>19, <2>20 DEF Taken
  <2> QED
    BY <2>21 DEF next, r
<1>8. CASE ~Trades(tm, o, acc, r)
  <2>1. next.mem = acc.mem /\ next.trades = acc.trades /\ next.rest = Append(acc.rest, r)
    <3>1. next = [acc EXCEPT !.rest = Append(@, r)]
      BY <1>5, <1>8
    <3> HIDE DEF next
    <3> QED
      BY <3>1 DEF Acc
  <2>2. Range(next.rest) = Range(acc.rest) \cup {r} /\ Sorted(tm, next.rest)
    BY <1>6, <2>1
  <2>3. k + 1 \in 1 .. k + 1 /\ \A j \in 1 .. k : j \in 1 .. k + 1
    OBVIOUS
  <2>4. Remaining(tm, acc.mem, o) > 0 => ~Crosses(tm, o, r)
    BY <1>8 DEF Trades
  <2>5. ~Hit(m, acc.mem, r)
    <3>1. m[r].filled \in Int
      BY <1>1, RemainingType
    <3> QED
      BY <1>4, <3>1 DEF Hit
  <2> HIDE DEF next
  <2>6. \A x \in Order \ {o} : (\A j \in 1 .. k + 1 : q[j] # x) => next.mem[x] = m[x]
    BY <2>1, <2>3 DEF Taken
  <2>7. \A x \in Range(next.rest) : \E j \in 1 .. k + 1 : x = q[j]
    BY <2>2, <2>3 DEF Taken, r
  <2>8. \A j \in 1 .. k + 1 : q[j] \in Range(next.rest) \/ next.mem[q[j]].status = "FILLED"
    BY <1>3, <2>1, <2>2 DEF Taken, r
  <2>9. \A j \in 1 .. k + 1 : \/ next.mem[q[j]] = m[q[j]] /\ q[j] \in Range(next.rest)
                              \/ \E i \in 1 .. Len(next.trades) : q[j] \in Parties(next.trades[i])
    <3>1. \A j \in 1 .. k : \/ next.mem[q[j]] = m[q[j]] /\ q[j] \in Range(next.rest)
                            \/ \E i \in 1 .. Len(next.trades) : q[j] \in Parties(next.trades[i])
      BY <2>1, <2>2 DEF Taken
    <3>2. next.mem[q[k + 1]] = m[q[k + 1]] /\ q[k + 1] \in Range(next.rest)
      BY <1>4, <2>1, <2>2 DEF r
    <3> QED
      BY <1>3, <3>1, <3>2
  <2>10. \A i \in 1 .. Len(next.trades) : \E j \in 1 .. k + 1 :
            Crosses(tm, o, q[j]) /\ next.trades[i] = TradeOf(tm, o, q[j], next.trades[i].amt)
    BY <2>1, <2>3 DEF Taken
  <2>11. Remaining(tm, next.mem, o) > 0 \/ next.mem[o].status = "FILLED"
    BY <2>1 DEF Taken
  <2>12. \A j \in 1 .. k + 1 : Remaining(tm, next.mem, o) > 0 => Passed(tm, m, next.mem, o, q[j])
    BY <1>3, <2>1, <2>4 DEF Taken, r, Passed
  <2>13. \A j \in 1 .. k + 1 : Hit(m, next.mem, q[j]) =>
            Crosses(tm, o, q[j]) /\ \A i \in 1 .. j - 1 : Passed(tm, m, next.mem, o, q[i])
    <3> SUFFICES ASSUME NEW j \in 1 .. k + 1, Hit(m, acc.mem, q[j])
                 PROVE  Crosses(tm, o, q[j]) /\ \A i \in 1 .. j - 1 : Passed(tm, m, acc.mem, o, q[i])
      BY <2>1
    <3>1. j \in 1 .. k
      BY <1>3, <2>5 DEF r
    <3> QED
      BY <3>1 DEF Taken
  <2>14. Taken(tm, m, o, q, k + 1, next)
    BY <2>2, <2>6, <2>7, <2>8, <2>9, <2>10, <2>11, <2>12, <2>13 DEF Taken
  <2> QED
    BY <2>14 DEF next, r
<1> QED
  BY <1>7, <1>8

LEMMA MatchTakes ==
    ASSUME NEW tm \in [Order -> Terms], NEW m \in [Order -> Progress], NEW b,
           NEW o \in Order, b[Opposite(tm[o].side)] \in Seq(Order),
           o \notin Range(b[Opposite(tm[o].side)]), Sorted(tm, b[Opposite(tm[o].side)]),
           \A x \in Order : m[x].filled <= tm[x].amount,
           Remaining(tm, m, o) > 0
    PROVE  LET q == b[Opposite(tm[o].side)] IN
           Taken(tm, m, o, q, Len(q), Match(tm, m, b, o))
<1> DEFINE q == b[Opposite(tm[o].side)]
<1>2. q \in Seq(Order) /\ Len(q) \in Nat /\ o \notin Range(q) /\ Sorted(tm, q)
  OBVIOUS
<1>7. q = b[Opposite(tm[o].side)]
  OBVIOUS
<1> HIDE DEF q
<1>8. PICK h : MatchesAlong(tm, m, b, o, q, h)
  BY <1>7, MatchFold
<1>1. /\ h \in [0 .. Len(q) -> Acc] /\ h[0] = Nothing(m) /\ h[Len(q)] = Match(tm, m, b, o)
      /\ \A k \in 1 .. Len(q) : h[k] = Meet(tm, o, h[k - 1], q[k])
  BY <1>8 DEF MatchesAlong
<1> DEFINE G == {k \in Nat : k <= Len(q) => Taken(tm, m, o, q, k, h[k])}
<1>3. 0 \in G
  <2> DEFINE acc == Nothing(m)
  <2>1. acc.mem = m /\ acc.trades = <<>> /\ acc.rest = <<>>
    BY DEF Nothing
  <2> HIDE DEF acc
  <2>2. Len(acc.trades) = 0 /\ Range(acc.rest) = {} /\ Len(acc.rest) = 0
    BY <2>1 DEF Range
  <2>3. \A j \in 1 .. 0 : FALSE
    OBVIOUS
  <2>4. Taken(tm, m, o, q, 0, acc)
    BY <2>1, <2>2, <2>3 DEF Taken, Sorted
  <2> QED
    BY <1>1, <2>4 DEF acc
<1>4. \A k \in Nat : k \in G => k + 1 \in G
  <2> SUFFICES ASSUME NEW k \in Nat, k \in G, k + 1 <= Len(q)
               PROVE  Taken(tm, m, o, q, k + 1, h[k + 1])
    OBVIOUS
  <2>1. /\ k \in 0 .. Len(q) /\ k + 1 \in 1 .. Len(q) /\ (k + 1) - 1 = k
        /\ Taken(tm, m, o, q, k, h[k])
    BY <1>2
  <2>2. h[k + 1] = Meet(tm, o, h[k], q[k + 1]) /\ h[k] \in Acc
    BY <1>1, <2>1
  <2>3. Taken(tm, m, o, q, k + 1, Meet(tm, o, h[k], q[k + 1]))
    BY <1>2, <2>1, <2>2, MeetTakes
  <2> QED
    BY <2>2, <2>3
<1>5. Len(q) \in G
  <2> HIDE DEF G
  <2> QED
    BY <1>2, <1>3, <1>4, NatInduct
<1>6. Taken(tm, m, o, q, Len(q), h[Len(q)])
  BY <1>2, <1>5
<1> QED
  BY <1>1, <1>6 DEF q

-----------------------------------------------------------------------------
(* Among LIMIT orders, one request after another and no faults             *)

(* What the goroutine that serves a request is doing: the only one.        *)
Alone == \A p, q \in Proc : p # q => job[p].pc = "idle" \/ job[q].pc = "idle"
Busy == IF AllIdle THEN Idle ELSE job[CHOOSE p \in Proc : job[p].pc # "idle"]

(* The labels it passes while no update waits, and all it passes.          *)
Prompt == {"create", "match", "leg", "tail", "price", "add", "publish",
           "unlock", "save", "remove", "announce"}
Steps == {"idle", "syncRead", "syncWrite"} \cup Prompt

Plain(t) == t.user \in User /\ t.type = "LIMIT" /\ t.price \in Price /\ t.amount \in Amount
AllPlain == \A x \in Created : Plain(terms[x])
Queues == \A side \in Side : Sorted(terms, book[side])

(* Each trade is with an order of the other side whose price is reached.   *)
Reached(o, r) == AtLeastAsGood(terms[o].side, terms[o].price, terms[r].price)
Dealing(k) ==
    \A i \in 1 .. Len(k.trades) :
       \E r \in Created : /\ terms[r].side = Opposite(terms[k.order].side) /\ Reached(k.order, r)
                          /\ k.trades[i] = TradeOf(terms, k.order, r, k.trades[i].amt)
(* An order that traded rests on or is filled; the incoming one may yet    *)
(* have to be rested.                                                      *)
Fates(k) ==
    \A x \in Claims(k) :
       \/ Rests(x)
       \/ mem[x].status = "FILLED"
       \/ x = k.order /\ k.pc # "publish" /\ Remaining(terms, mem, x) > 0
Announces(k) ==
    /\ \A i \in 1 .. Len(k.out) : k.out[i].order \in Claims(k) /\ k.out[i] = UpdateFor(mem, k.out[i].order)
    /\ \A x \in Claims(k) \ {k.order} : \E i \in 1 .. Len(k.out) : k.out[i].order = x
(* A row that is right: that of a resting order is what the engine holds,  *)
(* any other is not open.                                                  *)
Good(x, v) == IF Rests(x) THEN v = mem[x] ELSE v.status \notin {"OPEN", "PARTIAL"}
Reads(k) ==
    /\ k.pc \in {"unlock", "save"} => k.seen = mem[k.order] /\ Rests(k.order)
    /\ k.pc = "remove" => Rests(k.order) /\ row[k.order].status = "CANCELLED"
    /\ k.pc = "announce" => ~Rests(k.order)
    /\ k.pc \in {"syncRead", "syncWrite"} => Good(k.order, mem[k.order])
    /\ k.pc = "syncWrite" => k.seen = mem[k.order]
Fit(k) ==
    /\ k.pc \in Steps /\ k.by = "user"
    /\ k.pc = "create" => Plain(k.what)
    /\ k.pc \in Prompt => updates = <<>>
    /\ k.pc \in {"match"} \cup Working => k.order = lastId /\ ~Rests(k.order)
    /\ k.pc \in Inside => Dealing(k) /\ Fates(k) /\ Announces(k)
    /\ Reads(k)

(* The row of an order is right, or will be: the goroutine works on the    *)
(* order or removes it, or an update of it waits.                          *)
Awaited(k, x) == x \in Claims(k) \/ (k.pc = "remove" /\ k.order = x)
Coming(x) == \E i \in 1 .. Len(updates) : updates[i].order = x
RowsGood(k) == \A x \in Created : Awaited(k, x) \/ Coming(x) \/ Good(x, row[x])
UpdatesGood == \A i \in 1 .. Len(updates) :
    Good(updates[i].order, [filled |-> updates[i].filled, status |-> updates[i].status])

(* What is left to pay of an order that rests or trades is locked; so is   *)
(* what an order that is yet to be created may cost.                       *)
Alive(k, x) == (Rests(x) /\ ~(k.pc \in {"save", "remove"} /\ k.order = x)) \/ x \in Claims(k)
OfKind(t, u, c) == t.user = u /\ LockCurrency(t) = c
Claim(k, x) == IF Alive(k, x) THEN LockFor(terms[x], terms[x].amount - settled[x]) ELSE 0
ClaimsOn(k, u, c) == [x \in Order |-> IF OfKind(terms[x], u, c) THEN Claim(k, x) ELSE 0]
Extra(k, u, c) == IF k.pc = "create" /\ OfKind(k.what, u, c) THEN LockFor(k.what, k.what.amount) ELSE 0
Locked(k) == \A u \in User, c \in Currency :
                Sum(ClaimsOn(k, u, c), Order) + Extra(k, u, c) <= lck[u][c]

(* No lock is above the balance, but for what a settlement has paid of it. *)
Spent(k, u, c) ==
    LET t == k.trades[k.at] IN
    IF k.pc \notin {"leg", "tail"} THEN 0
    ELSE (IF k.leg > 1 /\ terms[t.buy].user = u /\ c = "quote" THEN Value(t) + Fee(t, t.buy, k.order) ELSE 0)
       + (IF k.leg > 3 /\ terms[t.sell].user = u /\ c = "base" THEN t.amt ELSE 0)
Funded(k) == \A u \in User, c \in Currency : lck[u][c] <= bal[u][c] + Spent(k, u, c)

LimitInv ==
    OnlyLimits => /\ Alone /\ AllPlain /\ Queues /\ UpdatesGood
                  /\ \A k \in {Busy} : Fit(k) /\ RowsGood(k) /\ Locked(k) /\ Funded(k)
-----------------------------------------------------------------------------
(* Locks pay for what is bought                                            *)

LEMMA TimesMono ==
    ASSUME NEW a \in Int, NEW b \in Int, NEW c \in Nat, a <= b
    PROVE  a * c <= b * c /\ c * a <= c * b
OBVIOUS

LEMMA DivExact ==
    ASSUME NEW n \in Nat \ {0}, NEW a \in Int
    PROVE  (n * a) \div n = a
OBVIOUS

(* What is locked per unit of an order.                                    *)
Unit(t) == IF t.side = "BUY" THEN (t.price \div FeeScale) * (FeeScale + LockRate) ELSE 1

LEMMA WholePrice ==
    ASSUME NEW p \in Price
    PROVE  /\ p \in Nat /\ p \div FeeScale \in Nat
           /\ p = FeeScale * (p \div FeeScale)
           /\ FeeScale \in Nat \ {0} /\ LockRate \in Nat
<1>1. /\ p \in Nat /\ FeeScale \in Nat \ {0} /\ LockRate \in Nat /\ p % FeeScale = 0
  BY TradingAssumption
<1>2. p \div FeeScale \in Nat
  BY <1>1
<1>3. p = FeeScale * (p \div FeeScale) + (p % FeeScale)
  BY <1>1
<1> QED
  BY <1>1, <1>2, <1>3

LEMMA LockIsUnits ==
    ASSUME NEW t, Plain(t), t.side \in Side, NEW q \in Int
    PROVE  /\ Unit(t) \in Nat /\ LockFor(t, q) = Unit(t) * q
<1> DEFINE k == t.price \div FeeScale
           n == FeeScale
           r == FeeScale + LockRate
<1>1. /\ t.price \in Nat /\ k \in Nat /\ t.price = n * k /\ n \in Nat \ {0} /\ r \in Nat
  BY WholePrice DEF Plain
<1>2. LockFor(t, q) = IF t.side = "BUY" THEN (t.price * q * r) \div n ELSE q
  BY DEF LockFor
<1>3. Unit(t) = IF t.side = "BUY" THEN k * r ELSE 1
  BY DEF Unit
<1> HIDE DEF k, n, r
<1>4. (t.price * q * r) \div n = k * r * q
  <2>1. t.price * q * r = n * (k * r * q)
    BY <1>1
  <2>2. k * r * q \in Int
    BY <1>1
  <2> QED
    BY <1>1, <2>1, <2>2, DivExact
<1>5. k * r \in Nat
  BY <1>1
<1> QED
  BY <1>2, <1>3, <1>4, <1>5

(* A buyer whose price reaches that of the trade has locked what it pays.  *)
LEMMA LockPays ==
    ASSUME NEW b, Plain(b), b.side = "BUY", NEW t, t.price \in Price, t.amt \in Nat,
           t.price <= b.price, NEW o, NEW taker
    PROVE  Value(t) + Fee(t, o, taker) <= Unit(b) * t.amt
<1> DEFINE rate == IF o = taker THEN TakerRate ELSE MakerRate
           n == FeeScale
           k == t.price \div n
           j == b.price \div n
           r == n + LockRate
<1>1. /\ rate \in Nat /\ rate <= LockRate /\ n \in Nat \ {0} /\ LockRate \in Nat
      /\ k \in Nat /\ t.price = n * k /\ j \in Nat /\ b.price = n * j /\ t.amt \in Nat
  <2>1. rate \in Nat /\ rate <= LockRate /\ n \in Nat \ {0} /\ LockRate \in Nat
    BY TradingAssumption, RateAssumption
  <2>2. b.price \in Price
    BY DEF Plain
  <2>3. \A q \in Price : q \div n \in Nat /\ q = n * (q \div n)
    BY WholePrice
  <2>4. k \in Nat /\ t.price = n * k
    BY <2>3
  <2>5. j \in Nat /\ b.price = n * j
    BY <2>2, <2>3
  <2> HIDE DEF k, j, n, rate
  <2> QED
    BY <2>1, <2>4, <2>5
<1>2. Unit(b) = j * r
  BY DEF Unit
<1>3. Value(t) = n * k * t.amt
  BY <1>1 DEF Value
<1>4. Fee(t, o, taker) = (Value(t) * rate) \div n
  BY DEF Fee
<1>5. t.price <= b.price
  OBVIOUS
<1> HIDE DEF rate, n, k, j, r
<1> DEFINE a == t.amt
<1>6. a \in Nat /\ a = t.amt
  BY <1>1
<1> HIDE DEF a
<1>7. Fee(t, o, taker) = k * a * rate
  <2>1. Value(t) * rate = n * (k * a * rate)
    BY <1>1, <1>3, <1>6
  <2>2. k * a * rate \in Int
    BY <1>1, <1>6
  <2> QED
    BY <1>1, <1>4, <2>1, <2>2, DivExact
<1>8. k <= j
  <2> SUFFICES ASSUME k > j PROVE FALSE
    BY <1>1
  <2>1. k = j + 1 + (k - j - 1) /\ k - j - 1 \in Nat
    BY <1>1
  <2>2. n * k = n * j + n + n * (k - j - 1)
    BY <1>1, <2>1
  <2>3. n * (k - j - 1) \in Nat
    BY <1>1, <2>1
  <2> QED
    BY <1>1, <1>5, <2>2, <2>3
<1>9. Value(t) + Fee(t, o, taker) = k * (a * (n + rate))
  BY <1>1, <1>3, <1>6, <1>7
<1>10. a * (n + rate) <= a * r
  BY <1>1, <1>6, TimesMono DEF r
<1>11. /\ k * (a * (n + rate)) <= k * (a * r) /\ k * (a * r) <= j * (a * r)
  <2>1. a * (n + rate) \in Int /\ a * r \in Int /\ a * r \in Nat
    BY <1>1, <1>6 DEF r
  <2> QED
    BY <1>1, <1>8, <1>10, <2>1, TimesMono
<1>12. j * (a * r) = (j * r) * a
  BY <1>1, <1>6 DEF r
<1>13. k * (a * (n + rate)) \in Int /\ k * (a * r) \in Int /\ j * (a * r) \in Int
  BY <1>1, <1>6 DEF r
<1> QED
  BY <1>2, <1>6, <1>9, <1>11, <1>12, <1>13

-----------------------------------------------------------------------------
(* One goroutine at a time                                                 *)

LEMMA BusyIs ==
    ASSUME Alone, NEW p \in Proc, job[p].pc # "idle"
    PROVE  Busy = job[p] /\ ~AllIdle
<1> DEFINE q == CHOOSE x \in Proc : job[x].pc # "idle"
<1>1. q \in Proc /\ job[q].pc # "idle"
  OBVIOUS
<1>2. ~AllIdle
  BY DEF AllIdle
<1>3. q = p
  BY <1>1 DEF Alone
<1> QED
  BY <1>2, <1>3 DEF Busy

LEMMA BusyIsNot ==
    ASSUME AllIdle
    PROVE  Busy = Idle
BY DEF Busy

LEMMA BusyNext ==
    ASSUME JobTypes, Alone, NEW p \in Proc, NEW k \in Job, job' = [job EXCEPT ![p] = k],
           job[p].pc # "idle" \/ AllIdle, k.pc = "idle" => k = Idle
    PROVE  Alone' /\ Busy' = k
<1>1. /\ job'[p] = k /\ \A q \in Proc \ {p} : job'[q] = job[q]
  BY MoveOn
<1>2. \A q \in Proc \ {p} : job'[q].pc = "idle"
  BY <1>1 DEF Alone, AllIdle
<1>3. Alone'
  <2> SUFFICES ASSUME NEW q \in Proc, NEW r \in Proc, q # r
               PROVE  job'[q].pc = "idle" \/ job'[r].pc = "idle"
    BY DEF Alone
  <2> QED
    BY <1>2
<1>4. CASE k.pc = "idle"
  <2>1. AllIdle'
    BY <1>1, <1>2, <1>4 DEF AllIdle
  <2> QED
    BY <1>3, <1>4, <2>1 DEF Busy
<1>5. CASE k.pc # "idle"
  <2> DEFINE q == CHOOSE x \in Proc : job'[x].pc # "idle"
  <2>1. ~AllIdle'
    BY <1>1, <1>5 DEF AllIdle
  <2>2. q \in Proc /\ job'[q].pc # "idle"
    BY <1>1, <1>5
  <2>3. q = p
    BY <1>2, <2>2
  <2>4. Busy' = job'[q]
    BY <2>1 DEF Busy
  <2> QED
    BY <1>1, <1>3, <2>3, <2>4
<1> QED
  BY <1>4, <1>5

(* What the invariant says of a goroutine that serves, and of one that may *)
(* take a request.                                                         *)
Lim(k) == Fit(k) /\ RowsGood(k) /\ Locked(k) /\ Funded(k)
Common == Alone /\ AllPlain /\ Queues /\ UpdatesGood

LEMMA Serving ==
    ASSUME LimitInv, OnlyLimits, NEW p \in Proc, job[p].pc # "idle", NEW k, k = job[p]
    PROVE  Common /\ Lim(k)
<1>1. Common /\ \A b \in {Busy} : Lim(b)
  BY DEF LimitInv, Common, Lim
<1>2. Busy = k
  BY <1>1, BusyIs DEF Common
<1>3. \A b : b = Busy => Lim(b)
  BY <1>1
<1> QED
  BY <1>1, <1>2, <1>3

LEMMA Waiting ==
    ASSUME LimitInv, OnlyLimits, AllIdle, NEW k, k = Idle
    PROVE  Common /\ Lim(k)
<1>1. Common /\ \A b \in {Busy} : Lim(b)
  BY DEF LimitInv, Common, Lim
<1>2. Busy = k
  BY BusyIsNot
<1>3. \A b : b = Busy => Lim(b)
  BY <1>1
<1> QED
  BY <1>1, <1>2, <1>3

LEMMA LimitBy ==
    ASSUME JobTypes, Alone, NEW p \in Proc, NEW k \in Job, job' = [job EXCEPT ![p] = k],
           job[p].pc # "idle" \/ AllIdle, k.pc = "idle" => k = Idle,
           AllPlain', Queues', UpdatesGood', Lim(k)'
    PROVE  LimitInv'
<1>1. Alone' /\ Busy' = k
  BY BusyNext
<1>2. Fit(k)' /\ RowsGood(k)' /\ Locked(k)' /\ Funded(k)'
  BY DEF Lim
<1>3. \A b \in {k} : (Fit(b) /\ RowsGood(b) /\ Locked(b) /\ Funded(b))'
  BY <1>2
<1> QED
  BY <1>1, <1>3 DEF LimitInv

(* A goroutine that does not move. *)
LEMMA LimitStill ==
    ASSUME OnlyLimits => Common /\ \A k \in {Busy} : Lim(k)',
           UNCHANGED <<job, here>>, OnlyLimits => (AllPlain /\ Queues /\ UpdatesGood)'
    PROVE  LimitInv'
<1>1. Busy' = Busy /\ (Alone <=> Alone') /\ (OnlyLimits <=> OnlyLimits')
  BY DEF Busy, Alone, AllIdle, OnlyLimits, Orderly, Faultless, Faults
<1> SUFFICES ASSUME OnlyLimits PROVE (Alone /\ AllPlain /\ Queues /\ UpdatesGood)' /\ \A k \in {Busy'} : (Fit(k) /\ RowsGood(k) /\ Locked(k) /\ Funded(k))'
  BY <1>1 DEF LimitInv
<1>2. \A k \in {Busy} : Lim(k)'
  OBVIOUS
<1> QED
  BY <1>1, <1>2 DEF Common, Lim

-----------------------------------------------------------------------------
(* What is locked                                                          *)

LEMMA NoFaults ==
    ASSUME OnlyLimits
    PROVE  /\ Surviving /\ Faults = {} /\ here.calm /\ here.types = {"LIMIT"}
           /\ "db" \notin Faults /\ "script" \notin Faults /\ "spend" \notin Faults
           /\ "admin" \notin Faults
BY DEF OnlyLimits, Orderly, Faultless, Surviving, Faults

LEMMA OwedNat ==
    ASSUME OrderTypes, JobTypes, Shape, NEW x
    PROVE  Owed(x) \in Nat
<1>1. CASE mutex = None
  BY <1>1 DEF Owed
<1>2. CASE mutex # None
  <2>1. ShareFrom(job[mutex].trades, x, job[mutex].at) \in Nat
    BY <1>2, MutexHolder, ShareFromNat
  <2> QED
    BY <1>2, <2>1 DEF Owed
<1> QED
  BY <1>1, <1>2

LEMMA LeftToPay ==
    ASSUME TypeOK, Shape, SettledInv, Surviving, NEW x \in Order
    PROVE  terms[x].amount - settled[x] \in Nat
<1>1. mem[x].filled = settled[x] + Owed(x)
  BY DEF SettledInv
<1>2. OrderTypes /\ FundsTypes /\ JobTypes
  BY TypeParts
<1>3. Owed(x) \in Nat
  BY <1>2, OwedNat
<1>4. mem[x].filled <= terms[x].amount
  BY DEF Shape, RowsWithin
<1>5. settled[x] \in Nat /\ terms[x].amount \in Nat /\ mem[x].filled \in Int
  BY <1>2, RemainingType DEF FundsTypes, OrderTypes
<1> QED
  BY <1>1, <1>3, <1>4, <1>5

LEMMA OrdersFinite == IsFiniteSet(Order)
BY TradingAssumption, FS_Interval DEF Order

LEMMA ClaimType ==
    ASSUME TypeOK, Shape, SettledInv, Surviving, NEW k, NEW x \in Order, NEW u, NEW c
    PROVE  Claim(k, x) \in Nat /\ ClaimsOn(k, u, c)[x] \in Nat
<1>1. terms[x] \in Terms
  BY DEF TypeOK
<1>2. LockFor(terms[x], terms[x].amount - settled[x]) \in Nat
  <2>1. terms[x].amount - settled[x] \in Nat
    BY LeftToPay
  <2> QED
    BY <1>1, <2>1, LockForType
<1>3. Claim(k, x) \in Nat
  BY <1>2 DEF Claim
<1> QED
  BY <1>3 DEF ClaimsOn

LEMMA ClaimNext ==
    ASSUME NEW k, NEW x \in Order, NEW u, NEW c
    PROVE  ClaimsOn(k, u, c)'[x] =
               IF OfKind(terms'[x], u, c) /\ Alive(k, x)'
               THEN LockFor(terms'[x], terms'[x].amount - settled'[x]) ELSE 0
BY DEF ClaimsOn, Claim, OfKind, LockFor, LockCurrency

LEMMA ClaimNow ==
    ASSUME NEW k, NEW x \in Order, NEW u, NEW c
    PROVE  ClaimsOn(k, u, c)[x] =
               IF OfKind(terms[x], u, c) /\ Alive(k, x)
               THEN LockFor(terms[x], terms[x].amount - settled[x]) ELSE 0
BY DEF ClaimsOn, Claim

LEMMA ExtraNext ==
    ASSUME NEW k, NEW u, NEW c
    PROVE  Extra(k, u, c)' = Extra(k, u, c)
BY DEF Extra

(* What is claimed does not grow.                                          *)
LEMMA ClaimsShrink ==
    ASSUME TypeOK, Shape, SettledInv, Surviving,
           NEW j, NEW k, UNCHANGED <<terms, settled>>,
           \A x \in Order : Alive(k, x)' => Alive(j, x), NEW u, NEW c
    PROVE  /\ Sum(ClaimsOn(k, u, c)', Order) <= Sum(ClaimsOn(j, u, c), Order)
           /\ Sum(ClaimsOn(k, u, c)', Order) \in Nat /\ Sum(ClaimsOn(j, u, c), Order) \in Nat
<1> PICK f : f = ClaimsOn(j, u, c)
  OBVIOUS
<1> PICK g : g = ClaimsOn(k, u, c)'
  OBVIOUS
<1>1. \A x \in Order : f[x] \in Nat
  BY ClaimType
<1>2. \A x \in Order : g[x] = f[x] \/ g[x] = 0
  <2> TAKE x \in Order
  <2>1. g[x] = IF OfKind(terms[x], u, c) /\ Alive(k, x)'
               THEN LockFor(terms[x], terms[x].amount - settled[x]) ELSE 0
    BY ClaimNext
  <2>2. f[x] = IF OfKind(terms[x], u, c) /\ Alive(j, x)
               THEN LockFor(terms[x], terms[x].amount - settled[x]) ELSE 0
    BY ClaimNow
  <2>3. Alive(k, x)' => Alive(j, x)
    OBVIOUS
  <2> QED
    BY <2>1, <2>2, <2>3
<1>3. \A x \in Order : g[x] \in Int /\ f[x] \in Int /\ g[x] <= f[x]
  BY <1>1, <1>2
<1>4. Sum(g, Order) <= Sum(f, Order)
  BY <1>3, OrdersFinite, SumMonotone
<1>5. \A x \in Order : g[x] \in Nat
  BY <1>1, <1>2
<1>6. Sum(g, Order) \in Nat
  BY <1>5, OrdersFinite, SumNat
<1>7. Sum(f, Order) \in Nat
  BY <1>1, OrdersFinite, SumNat
<1> QED
  BY <1>4, <1>6, <1>7

LEMMA LockedStays ==
    ASSUME TypeOK, Shape, SettledInv, Surviving,
           NEW j, NEW k, Locked(j), UNCHANGED <<terms, lck, settled>>, k.pc # "create",
           j.pc # "create",
           \A x \in Order : Alive(k, x)' => Alive(j, x)
    PROVE  Locked(k)'
<1> SUFFICES ASSUME NEW u \in User, NEW c \in Currency
             PROVE  Sum(ClaimsOn(k, u, c)', Order) + Extra(k, u, c) <= lck[u][c]
  BY ExtraNext DEF Locked
<1> PICK m : m = Sum(ClaimsOn(j, u, c), Order)
  OBVIOUS
<1> PICK n : n = Sum(ClaimsOn(k, u, c)', Order)
  OBVIOUS
<1>1. n <= m /\ n \in Nat /\ m \in Nat
  BY ClaimsShrink
<1>2. Extra(k, u, c) = 0 /\ Extra(j, u, c) = 0
  BY DEF Extra
<1>3. m + 0 <= lck[u][c]
  BY <1>2 DEF Locked
<1>4. lck[u][c] \in Int
  BY DEF TypeOK, Account
<1> QED
  BY <1>1, <1>2, <1>3, <1>4

(* Nothing is paid yet.                                                    *)
Unspent(k) == k.pc \notin {"leg", "tail"} \/ (k.pc = "leg" /\ k.leg = 1)

LEMMA UnspentZero ==
    ASSUME NEW k, Unspent(k), NEW u, NEW c
    PROVE  Spent(k, u, c) = 0 /\ Spent(k, u, c)' = 0
BY DEF Unspent, Spent

LEMMA FundedStays ==
    ASSUME TypeOK, NEW j, NEW k, Funded(j), Unspent(j), Unspent(k), bal' = bal,
           \A u \in User, c \in Currency : lck'[u][c] <= lck[u][c] /\ lck'[u][c] \in Nat
    PROVE  Funded(k)'
<1> SUFFICES ASSUME NEW u \in User, NEW c \in Currency
             PROVE  lck'[u][c] <= bal'[u][c] + Spent(k, u, c)'
  BY DEF Funded
<1>1. lck[u][c] <= bal[u][c] + Spent(j, u, c)
  BY DEF Funded
<1>2. Spent(j, u, c) = 0 /\ Spent(k, u, c)' = 0
  BY UnspentZero
<1>3. lck[u][c] \in Nat /\ bal[u][c] \in Nat
  BY DEF TypeOK, Account
<1> QED
  BY <1>1, <1>2, <1>3

LEMMA LocksAreNat ==
    ASSUME TypeOK
    PROVE  \A u \in User, c \in Currency : lck[u][c] \in Nat /\ lck[u][c] <= lck[u][c] /\ bal[u][c] \in Nat
BY DEF TypeOK, Account

(* Nothing but a goroutine and the funds changes.                          *)
LEMMA Unturned ==
    ASSUME UNCHANGED <<terms, mem, row, lastId, book, updates>>, NEW k
    PROVE  /\ Fit(k)' <=> Fit(k)
           /\ RowsGood(k)' <=> RowsGood(k)
           /\ (AllPlain /\ Queues /\ UpdatesGood)' <=> AllPlain /\ Queues /\ UpdatesGood
           /\ \A x : Alive(k, x)' <=> Alive(k, x)
<1>1. \A x : Rests(x)' <=> Rests(x)
  BY DEF Rests
<1>2. \A x, v : Good(x, v)' <=> Good(x, v)
  BY <1>1 DEF Good
<1>3. Claims(k)' = Claims(k)
  BY DEF Claims, Parties
<1>4. RowsGood(k)' <=> RowsGood(k)
  <2>1. \A x : Awaited(k, x)' <=> Awaited(k, x)
    BY <1>3 DEF Awaited
  <2>2. \A x : Coming(x)' <=> Coming(x)
    BY DEF Coming
  <2>3. \A x : Good(x, row[x])' <=> Good(x, row[x])
    BY <1>1 DEF Good
  <2> QED
    BY <2>1, <2>2, <2>3 DEF RowsGood, Created
<1>5. AllPlain' <=> AllPlain
  BY DEF AllPlain, Created, Plain
<1>6. Queues' <=> Queues
  BY DEF Queues, Sorted, Before, AtLeastAsGood
<1>7. UpdatesGood' <=> UpdatesGood
  <2>1. \A i : Good(updates[i].order, [filled |-> updates[i].filled, status |-> updates[i].status])'
           <=> Good(updates[i].order, [filled |-> updates[i].filled, status |-> updates[i].status])
    BY <1>1 DEF Good
  <2> QED
    BY <2>1 DEF UpdatesGood
<1>8. \A x : Alive(k, x)' <=> Alive(k, x)
  BY <1>1, <1>3 DEF Alive
<1>9. Fit(k)' <=> Fit(k)
  <2>1. Dealing(k)' <=> Dealing(k)
    BY DEF Dealing, Reached, Created, TradeOf, AtLeastAsGood
  <2>2. Fates(k)' <=> Fates(k)
    BY <1>1, <1>3 DEF Fates, Remaining
  <2>3. Announces(k)' <=> Announces(k)
    BY <1>3 DEF Announces, UpdateFor
  <2>4. Reads(k)' <=> Reads(k)
    <3>1. Good(k.order, mem[k.order])' <=> Good(k.order, mem[k.order])
      BY <1>1 DEF Good
    <3> QED
      BY <1>1, <3>1 DEF Reads
  <2>5. Plain(k.what)' <=> Plain(k.what)
    BY DEF Plain
  <2> QED
    BY <1>1, <2>1, <2>2, <2>3, <2>4, <2>5 DEF Fit
<1> QED
  BY <1>4, <1>5, <1>6, <1>7, <1>8, <1>9

Calm == TypeOK /\ Shape /\ SettledInv /\ LimitInv /\ OnlyLimits

(* The goroutine at work; none is when a request comes in.                 *)
AtWork(p, j) == (job[p].pc # "idle" /\ j = job[p]) \/ (AllIdle /\ j = Idle)

LEMMA AtWorkIs ==
    ASSUME Calm, NEW p \in Proc, NEW j, AtWork(p, j)
    PROVE  Common /\ Lim(j) /\ (job[p].pc # "idle" \/ AllIdle) /\ JobTypes /\ OrderTypes /\ FundsTypes
           /\ Alone
<1>1. Common /\ Lim(j)
  BY Serving, Waiting DEF Calm, AtWork
<1>2. JobTypes /\ OrderTypes /\ FundsTypes
  BY TypeParts DEF Calm
<1>3. job[p].pc # "idle" \/ AllIdle
  BY DEF AtWork
<1> QED
  BY <1>1, <1>2, <1>3 DEF Common

LEMMA TurnsTo ==
    ASSUME Calm, NEW p \in Proc, NEW j, AtWork(p, j),
           NEW k \in Job, job' = [job EXCEPT ![p] = k], k.pc = "idle" => k = Idle,
           UNCHANGED <<terms, mem, row, lastId, book, updates>>,
           Fit(k), \A x \in Created : Awaited(j, x) => Awaited(k, x), Locked(k)', Funded(k)'
    PROVE  LimitInv'
<1>1. Common /\ Lim(j) /\ (job[p].pc # "idle" \/ AllIdle) /\ JobTypes /\ Alone
  BY AtWorkIs
<1>2. RowsGood(k)
  BY <1>1 DEF Lim, RowsGood
<1>3. Fit(k)' /\ RowsGood(k)' /\ (AllPlain /\ Queues /\ UpdatesGood)'
  BY <1>1, <1>2, Unturned DEF Common
<1>4. Lim(k)'
  BY <1>3 DEF Lim
<1>5. AllPlain' /\ Queues' /\ UpdatesGood'
  BY <1>3
<1> QED
  BY <1>1, <1>4, <1>5, LimitBy

LEMMA FreeCalm ==
    ASSUME Calm, NEW p \in Proc, Free(p)
    PROVE  AllIdle /\ updates = <<>> /\ AtWork(p, Idle)
<1>1. here.calm
  BY NoFaults DEF Calm
<1>2. AllIdle /\ updates = <<>>
  BY <1>1 DEF Free, Quiescent
<1> QED
  BY <1>2 DEF AtWork

LEMMA CancelLimit ==
    ASSUME Calm, NEW p \in Proc, NEW o \in Order, CancelOrder(p, o, "user")
    PROVE  LimitInv'
<1> PICK k : k = [Idle EXCEPT !.pc = "unlock", !.order = o, !.by = "user", !.seen = row[o]]
  OBVIOUS
<1> PICK j : j = Idle
  OBVIOUS
<1>1. AllIdle /\ updates = <<>> /\ AtWork(p, j)
  BY FreeCalm DEF CancelOrder
<1>2. Common /\ Lim(j) /\ OrderTypes /\ FundsTypes
  BY <1>1, AtWorkIs
<1>3. k \in Job /\ k.pc = "unlock" /\ k.order = o /\ k.by = "user" /\ k.seen = row[o]
  <2> PICK s : s = row[o]
    OBVIOUS
  <2>1. s \in Progress /\ k = [Idle EXCEPT !.pc = "unlock", !.order = o, !.by = "user", !.seen = s]
    BY <1>2 DEF OrderTypes
  <2>2. k \in Job /\ k.pc = "unlock" /\ k.order = o /\ k.by = "user" /\ k.seen = s
    BY <2>1, IdleType DEF Job, Idle
  <2> QED
    BY <2>2
<1>4. /\ job' = [job EXCEPT ![p] = k] /\ row[o].status \in {"OPEN", "PARTIAL"}
      /\ UNCHANGED <<redis, orders, engine, updates, history>>
  BY DEF CancelOrder
<1>5. UNCHANGED <<bal, lck, terms, mem, row, lastId, book, updates, settled>>
  BY <1>4 DEF redis, orders, engine, history
<1>6. j.pc = "idle" /\ Claims(j) = {} /\ Claims(k) = {}
  BY <1>3 DEF Idle, Claims, Inside
<1>7. o \in Created
  <2>1. o > lastId => row[o] = NoProgress
    BY DEF Calm, Shape, Numbered
  <2>2. o <= lastId
    BY <1>2, <1>4, <2>1, SituationFields DEF NoProgress, Order
  <2> QED
    BY <2>2 DEF Created, Order
<1>8. Good(o, row[o])
  <2>1. Awaited(j, o) \/ Coming(o) \/ Good(o, row[o])
    BY <1>2, <1>7 DEF Lim, RowsGood
  <2>2. ~Awaited(j, o)
    BY <1>6 DEF Awaited
  <2>3. ~Coming(o)
    BY <1>1 DEF Coming
  <2> QED
    BY <2>1, <2>2, <2>3
<1>9. Rests(o) /\ row[o] = mem[o]
  BY <1>4, <1>8 DEF Good
<1>10. Fit(k)
  <2>1. Reads(k)
    BY <1>3, <1>9 DEF Reads
  <2> QED
    BY <1>1, <1>3, <2>1 DEF Fit, Steps, Prompt, Working, Inside
<1>11. Locked(k)'
  <2>1. \A x : Alive(k, x)' <=> Alive(k, x)
    BY <1>5, Unturned
  <2>2. \A x \in Order : Alive(k, x) => Alive(j, x)
    BY <1>6 DEF Alive
  <2>3. TypeOK /\ Shape /\ SettledInv /\ Surviving
    BY NoFaults DEF Calm
  <2>4. Locked(j)
    BY <1>2 DEF Lim
  <2> QED
    BY <1>3, <1>5, <1>6, <2>1, <2>2, <2>3, <2>4, LockedStays
<1>12. Funded(k)'
  <2>1. Funded(j)
    BY <1>2 DEF Lim
  <2>2. Unspent(j) /\ Unspent(k)
    BY <1>3, <1>6 DEF Unspent
  <2>3. \A u \in User, c \in Currency : lck'[u][c] <= lck[u][c] /\ lck'[u][c] \in Nat
    BY <1>5, LocksAreNat DEF Calm
  <2> QED
    BY <1>5, <2>1, <2>2, <2>3, FundedStays DEF Calm
<1>13. \A x \in Created : Awaited(j, x) => Awaited(k, x)
  BY <1>6 DEF Awaited
<1>14. k.pc # "idle"
  BY <1>3
<1> QED
  BY <1>1, <1>3, <1>4, <1>5, <1>10, <1>11, <1>12, <1>13, <1>14, TurnsTo

LEMMA PlaceLimit ==
    ASSUME Calm, NEW p \in Proc, NEW t \in Request, PlaceOrder(p, t)
    PROVE  LimitInv'
<1> PICK k : k = [Idle EXCEPT !.pc = "create", !.what = t]
  OBVIOUS
<1> PICK j : j = Idle
  OBVIOUS
<1> PICK n : n = LockFor(t, t.amount)
  OBVIOUS
<1> PICK cur : cur = LockCurrency(t)
  OBVIOUS
<1>1. AllIdle /\ updates = <<>> /\ AtWork(p, j)
  BY FreeCalm DEF PlaceOrder
<1>2. Common /\ Lim(j) /\ OrderTypes /\ FundsTypes
  BY <1>1, AtWorkIs
<1>3. Plain(t) /\ t \in Terms
  <2>1. /\ t.user \in User /\ t.side \in Side /\ t.type \in OrderType /\ t.price \in Price \cup {0}
        /\ t.amount \in Amount /\ (t.type = "MARKET" <=> t.price = 0)
        /\ t \in [user : User, side : Side, type : OrderType, price : Price \cup {0}, amount : Amount]
    BY DEF Request
  <2>2. t.type = "LIMIT"
    BY NoFaults DEF PlaceOrder, Calm
  <2>3. t \in Terms
    BY <2>1, TradingAssumption DEF Terms, Account
  <2> QED
    BY <2>1, <2>2, <2>3 DEF Plain
<1>4. k \in Job /\ k.pc = "create" /\ k.what = t /\ k.by = "user"
  BY <1>3, IdleType DEF Job, Idle
<1>5. /\ job' = [job EXCEPT ![p] = k] /\ t.type = "LIMIT"
      /\ UNCHANGED <<bal, orders, engine, updates, history>>
  BY <1>3 DEF PlaceOrder, Plain
<1>6. /\ bal[t.user][cur] - lck[t.user][cur] >= n /\ lck' = Add(lck, t.user, cur, n)
  BY <1>5 DEF PlaceOrder
<1>7. UNCHANGED <<bal, terms, mem, row, lastId, book, updates, settled>>
  BY <1>5 DEF orders, engine, history
<1>8. j.pc = "idle" /\ Claims(j) = {} /\ Claims(k) = {}
  BY <1>4 DEF Idle, Claims, Inside
<1>9. Fit(k)
  <2>1. Reads(k)
    BY <1>4 DEF Reads
  <2> QED
    BY <1>1, <1>3, <1>4, <2>1 DEF Fit, Steps, Prompt, Working, Inside
<1>10. n \in Nat /\ cur \in Currency /\ t.user \in User
  <2>1. t.amount \in Nat
    BY <1>3, TradingAssumption DEF Plain
  <2> QED
    BY <1>3, <2>1, LockForType DEF Plain
<1>11. \A u \in User, c \in Currency :
          /\ lck[u][c] \in Nat /\ bal[u][c] \in Nat
          /\ lck'[u][c] = IF u = t.user /\ c = cur THEN lck[u][c] + n ELSE lck[u][c]
  <2>1. lck \in [Account -> [Currency -> Int]] /\ t.user \in Account /\ User \subseteq Account
    BY <1>2, <1>10 DEF FundsTypes, Account
  <2>2. /\ Add(lck, t.user, cur, n)[t.user][cur] = lck[t.user][cur] + n
        /\ \A v \in Account, d \in Currency :
              v # t.user \/ d # cur => Add(lck, t.user, cur, n)[v][d] = lck[v][d]
    BY <1>10, <2>1, AddType
  <2> QED
    BY <1>6, <2>1, <2>2, LocksAreNat DEF Calm
<1>12. Locked(k)'
  <2> SUFFICES ASSUME NEW u \in User, NEW c \in Currency
               PROVE  Sum(ClaimsOn(k, u, c)', Order) + Extra(k, u, c) <= lck'[u][c]
    BY ExtraNext DEF Locked
  <2>1. \A x \in Order : Alive(k, x)' => Alive(j, x)
    <3>1. \A x : Alive(k, x)' <=> Alive(k, x)
      BY <1>7, Unturned
    <3> QED
      BY <1>4, <1>8, <3>1 DEF Alive
  <2> PICK a : a = Sum(ClaimsOn(j, u, c), Order)
    OBVIOUS
  <2> PICK b : b = Sum(ClaimsOn(k, u, c)', Order)
    OBVIOUS
  <2>2. b <= a /\ b \in Nat /\ a \in Nat
    BY <1>7, <2>1, NoFaults, ClaimsShrink DEF Calm
  <2>3. Extra(j, u, c) = 0
    BY <1>8 DEF Extra
  <2>4. a + 0 <= lck[u][c]
    BY <1>2, <2>3 DEF Lim, Locked
  <2>5. Extra(k, u, c) = IF u = t.user /\ c = cur THEN n ELSE 0
    BY <1>4 DEF Extra, OfKind
  <2> QED
    BY <1>10, <1>11, <2>2, <2>4, <2>5
<1>13. Funded(k)'
  <2> SUFFICES ASSUME NEW u \in User, NEW c \in Currency
               PROVE  lck'[u][c] <= bal'[u][c] + Spent(k, u, c)'
    BY DEF Funded
  <2>1. Spent(j, u, c) = 0 /\ Spent(k, u, c)' = 0
    BY <1>4, <1>8, UnspentZero DEF Unspent
  <2>2. lck[u][c] <= bal[u][c] + 0
    BY <1>2, <2>1 DEF Lim, Funded
  <2> QED
    BY <1>6, <1>7, <1>10, <1>11, <2>1, <2>2
<1>14. \A x \in Created : Awaited(j, x) => Awaited(k, x)
  BY <1>8 DEF Awaited
<1>15. k.pc # "idle"
  BY <1>4
<1> QED
  BY <1>1, <1>4, <1>5, <1>7, <1>9, <1>12, <1>13, <1>14, <1>15, TurnsTo

-----------------------------------------------------------------------------
(* Settling                                                                *)

LEMMA FitInside ==
    ASSUME NEW j, NEW k, Fit(j), j.pc \in Working, k.pc \in {"leg", "tail", "price", "add"},
           k.order = j.order, k.trades = j.trades, k.out = j.out, k.by = j.by
    PROVE  Fit(k) /\ Claims(k) = Claims(j)
<1>1. Claims(k) = Claims(j)
  BY DEF Claims, Working, Inside
<1>2. j.pc \in Prompt /\ j.pc \in Inside /\ k.pc \in Prompt /\ k.pc \in Inside /\ k.pc # "publish"
      /\ k.pc \in Working
  BY DEF Fit, Steps, Prompt, Working, Inside
<1>3. Dealing(j) /\ Fates(j) /\ Announces(j)
  BY <1>2 DEF Fit
<1>4. Dealing(k)
  BY <1>3 DEF Dealing
<1>5. Fates(k)
  BY <1>1, <1>2, <1>3 DEF Fates
<1>6. Announces(k)
  BY <1>1, <1>3 DEF Announces
<1>7. Reads(k)
  BY <1>2 DEF Reads
<1>8. updates = <<>> /\ k.by = "user" /\ k.order = lastId /\ ~Rests(k.order)
  BY <1>2 DEF Fit
<1>9. k.pc \in Steps /\ k.pc # "create"
  BY <1>2 DEF Steps
<1> QED
  BY <1>1, <1>4, <1>5, <1>6, <1>7, <1>8, <1>9 DEF Fit

(* A trade of LIMIT orders: the buyer's price reaches it.                  *)
Agreed(t) ==
    /\ t \in Trade /\ t.amt \in Nat /\ t.price \in Price /\ ~Synthetic(t) /\ LegCount(t) = 4
    /\ t.buy \in Created /\ t.sell \in Created /\ t.buy \in Order /\ t.sell \in Order
    /\ t.buy # t.sell /\ Parties(t) = {t.buy, t.sell}
    /\ terms[t.buy].side = "BUY" /\ terms[t.sell].side = "SELL"
    /\ Plain(terms[t.buy]) /\ Plain(terms[t.sell])
    /\ t.price <= terms[t.buy].price

LEMMA TradeAgreed ==
    ASSUME OrderTypes, AllPlain, NEW o \in Created, NEW r \in Created, NEW t \in Trade, t.amt \in Nat,
           terms[r].side = Opposite(terms[o].side), Reached(o, r), t = TradeOf(terms, o, r, t.amt)
    PROVE  Agreed(t) /\ Parties(t) = {o, r}
<1>1. o \in Order /\ r \in Order /\ Plain(terms[o]) /\ Plain(terms[r])
  BY SituationFields DEF AllPlain
<1>2. terms[o].side \in Side /\ terms[r].side \in Side /\ terms[o].price \in Nat /\ terms[r].price \in Nat
  BY <1>1 DEF OrderTypes, Terms
<1>3. Parties(t) = {o, r} /\ ~Synthetic(t)
  BY <1>1, PartiesOfTrade
<1>4. /\ t.buy = IF terms[o].side = "BUY" THEN o ELSE r
      /\ t.sell = IF terms[o].side = "BUY" THEN r ELSE o
      /\ t.price = terms[r].price
  <2> PICK n : n = t.amt
    OBVIOUS
  <2>1. t = TradeOf(terms, o, r, n)
    OBVIOUS
  <2> QED
    BY <2>1 DEF TradeOf
<1>5. o # None /\ r # None
  BY <1>1, TradingAssumption
<1>6. LegCount(t) = 4
  BY <1>3 DEF LegCount, Synthetic
<1>7. CASE terms[o].side = "BUY"
  <2>1. t.buy = o /\ t.sell = r /\ terms[r].side = "SELL" /\ t.price = terms[r].price
    BY <1>4, <1>7 DEF Opposite
  <2>2. t.price <= terms[o].price
    BY <1>2, <1>7, <2>1 DEF Reached, AtLeastAsGood
  <2>3. o # r
    BY <1>7, <2>1
  <2> QED
    BY <1>1, <1>3, <1>6, <1>7, <2>1, <2>2, <2>3 DEF Agreed, Plain
<1>8. CASE terms[o].side # "BUY"
  <2>1. t.buy = r /\ t.sell = o /\ terms[o].side = "SELL" /\ terms[r].side = "BUY" /\ t.price = terms[r].price
    BY <1>2, <1>4, <1>8 DEF Opposite, Side
  <2>2. o # r
    BY <2>1
  <2>3. t.price <= terms[r].price
    BY <1>2, <2>1
  <2> QED
    BY <1>1, <1>3, <1>6, <2>1, <2>2, <2>3 DEF Agreed, Plain
<1> QED
  BY <1>7, <1>8

(* The trade that is being settled.                                        *)
LEMMA AtTrade ==
    ASSUME Calm, NEW p \in Proc, job[p].pc \in {"leg", "tail"}, NEW j, j = job[p],
           NEW t, t = j.trades[j.at]
    PROVE  /\ Agreed(t) /\ CurrentTrade(p) = t /\ CurrentLegs(p) = Legs(t, j.order)
           /\ t.buy \in Claims(j) /\ t.sell \in Claims(j)
           /\ j.at \in 1 .. Len(j.trades) /\ j.leg \in 1 .. 4
           /\ \A x \in {t.buy, t.sell} : settled[x] + t.amt <= terms[x].amount /\ settled[x] \in Nat
           /\ mutex = p
<1>1. OrderTypes /\ JobTypes /\ FundsTypes /\ TypeOK /\ Shape /\ SettledInv /\ Surviving
  BY TypeParts, NoFaults DEF Calm
<1>2. Common /\ Lim(j)
  BY Serving DEF Calm
<1>3. j.pc \in Paying /\ j.pc \in Inside
  BY DEF Paying, Inside
<1>4. /\ j \in Job /\ Settling(j) /\ mutex = p /\ j.order \in Created /\ j.trades \in Seq(Trade)
      /\ \A i \in 1 .. Len(j.trades) : j.trades[i] \in Trade /\ j.trades[i].amt \in Nat
  BY <1>1, <1>3, InsideFacts
<1>5. /\ j.at \in 1 .. Len(j.trades) /\ CurrentTrade(p) = t /\ t \in Trade /\ t.amt \in Nat
      /\ CurrentLegs(p) = Legs(t, j.order) /\ j.leg \in 1 .. LegCount(t)
  BY <1>1, <1>3, LegFacts
<1>6. Dealing(j)
  BY <1>2, <1>3 DEF Lim, Fit
<1>7. PICK r \in Created : /\ terms[r].side = Opposite(terms[j.order].side) /\ Reached(j.order, r)
                           /\ t = TradeOf(terms, j.order, r, t.amt)
  BY <1>5, <1>6 DEF Dealing
<1>8. Agreed(t)
  BY <1>1, <1>2, <1>4, <1>5, <1>7, TradeAgreed DEF Common
<1>9. t.buy \in Claims(j) /\ t.sell \in Claims(j)
  <2>1. t \in Range(j.trades)
    BY <1>4, <1>5 DEF Range
  <2>2. Parties(t) = {t.buy, t.sell}
    BY <1>8 DEF Agreed
  <2> QED
    BY <1>3, <2>1, <2>2 DEF Claims
<1>10. ASSUME NEW x \in {t.buy, t.sell}
       PROVE  settled[x] + t.amt <= terms[x].amount /\ settled[x] \in Nat
  <2>1. x \in Order /\ x \in Parties(t) /\ ~Synthetic(t)
    BY <1>8 DEF Agreed
  <2>2. mem[x].filled = settled[x] + ShareFrom(j.trades, x, j.at)
    <3>1. mutex # None
      BY <1>4, TradingAssumption
    <3> QED
      BY <1>1, <1>4, <2>1, <3>1 DEF SettledInv, Owed
  <2>3. ShareFrom(j.trades, x, j.at) = ShareFrom(j.trades, x, j.at + 1) + Deal(t, x)
    BY <1>4, <1>5, ShareFromStep
  <2>4. j.at + 1 \in Int
    BY <1>4, <1>5
  <2>5. ShareFrom(j.trades, x, j.at + 1) \in Nat
    BY <1>4, <2>4, ShareFromNat
  <2>6. Deal(t, x) = t.amt
    BY <2>1 DEF Deal
  <2>7. mem[x].filled <= terms[x].amount /\ settled[x] \in Nat /\ terms[x].amount \in Nat
    BY <1>1, <2>1, RemainingType DEF Shape, RowsWithin, FundsTypes, OrderTypes
  <2> QED
    BY <1>5, <2>2, <2>3, <2>5, <2>6, <2>7
<1>11. j.leg \in 1 .. 4
  BY <1>5, <1>8 DEF Agreed
<1> QED
  BY <1>4, <1>5, <1>8, <1>9, <1>10, <1>11

(* What an order that is traded has locked.                                *)
LEMMA ClaimCounts ==
    ASSUME Calm, NEW j, NEW u, NEW c, NEW x \in Order, Alive(j, x), OfKind(terms[x], u, c),
           Plain(terms[x]), terms[x].side \in Side
    PROVE  /\ Sum(ClaimsOn(j, u, c), Order) =
                Sum(ClaimsOn(j, u, c), Order \ {x}) + Unit(terms[x]) * (terms[x].amount - settled[x])
           /\ Sum(ClaimsOn(j, u, c), Order \ {x}) \in Nat
<1> PICK f : f = ClaimsOn(j, u, c)
  OBVIOUS
<1>1. \A y \in Order : f[y] \in Nat
  BY ClaimType, NoFaults DEF Calm
<1>2. Sum(f, Order) = Sum(f, Order \ {x}) + f[x]
  BY <1>1, OrdersFinite, SumRemove
<1>3. Sum(f, Order \ {x}) \in Nat
  <2>1. IsFiniteSet(Order \ {x})
    BY OrdersFinite, FS_RemoveElement
  <2> QED
    BY <1>1, <2>1, SumNat
<1>4. f[x] = LockFor(terms[x], terms[x].amount - settled[x])
  BY ClaimNow
<1>5. terms[x].amount - settled[x] \in Int
  BY LeftToPay, NoFaults DEF Calm
<1>6. f[x] = Unit(terms[x]) * (terms[x].amount - settled[x])
  BY <1>4, <1>5, LockIsUnits
<1> QED
  BY <1>2, <1>3, <1>6

LEMMA TradeIsLocked ==
    ASSUME Calm, NEW j, NEW u \in User, NEW c \in Currency, NEW x \in Order, Alive(j, x),
           OfKind(terms[x], u, c), Plain(terms[x]), terms[x].side \in Side, Locked(j), j.pc # "create",
           NEW n \in Nat, settled[x] + n <= terms[x].amount
    PROVE  Unit(terms[x]) * n <= lck[u][c]
<1> PICK a : a = Unit(terms[x])
  OBVIOUS
<1> PICK left : left = terms[x].amount - settled[x]
  OBVIOUS
<1> PICK rest : rest = Sum(ClaimsOn(j, u, c), Order \ {x})
  OBVIOUS
<1>1. a \in Nat
  BY LockIsUnits
<1>2. left \in Nat /\ n <= left
  <2>1. left \in Nat
    BY LeftToPay, NoFaults DEF Calm
  <2>2. settled[x] \in Nat /\ terms[x].amount \in Nat
    BY DEF Calm, TypeOK, Terms
  <2> QED
    BY <2>1, <2>2
<1>3. rest + a * left + Extra(j, u, c) <= lck[u][c] /\ rest \in Nat
  <2>1. Sum(ClaimsOn(j, u, c), Order) = rest + a * left /\ rest \in Nat
    BY ClaimCounts
  <2> QED
    BY <2>1 DEF Locked
<1>4. Extra(j, u, c) = 0
  BY DEF Extra
<1>5. a * n <= a * left
  BY <1>1, <1>2, TimesMono
<1>6. a * n \in Int /\ a * left \in Int /\ lck[u][c] \in Nat
  BY <1>1, <1>2, LocksAreNat DEF Calm
<1> QED
  BY <1>3, <1>4, <1>5, <1>6

(* The legs: the buyer pays and gets, then the seller.                     *)
LEMMA WhichLeg ==
    ASSUME terms \in [Order -> Terms], NEW t \in Trade, t.buy # None, t.sell # None, NEW taker,
           NEW i \in 1 .. 4, NEW l, l = Legs(t, taker)[i],
           NEW paid, paid = Value(t) + Fee(t, t.buy, taker),
           NEW gain, gain = Value(t) - Fee(t, t.sell, taker)
    PROVE  /\ i = 1 => l.user = terms[t.buy].user /\ l.cur = "quote" /\ l.delta = -paid
           /\ i = 2 => l.user = terms[t.buy].user /\ l.cur = "base" /\ l.delta = t.amt
           /\ i = 3 => l.user = terms[t.sell].user /\ l.cur = "base" /\ l.delta = -t.amt
           /\ i = 4 => l.user = terms[t.sell].user /\ l.cur = "quote" /\ l.delta = gain
<1> PICK L : L = Legs(t, taker)
  OBVIOUS
<1>1. /\ L[1] = Leg(t.buy, "quote", -(Value(t) + Fee(t, t.buy, taker)))
      /\ L[2] = Leg(t.buy, "base", t.amt)
      /\ L[3] = Leg(t.sell, "base", -t.amt)
      /\ L[4] = Leg(t.sell, "quote", Value(t) - Fee(t, t.sell, taker))
  BY LegsType
<1>2. L[1] = Leg(t.buy, "quote", -paid) /\ L[4] = Leg(t.sell, "quote", gain)
  BY <1>1
<1>3. l = L[i]
  OBVIOUS
<1>4. \A o, d, n : Leg(o, d, n).user = terms[o].user /\ Leg(o, d, n).cur = d /\ Leg(o, d, n).delta = n
  BY DEF Leg
<1>5. i = 1 => l.user = terms[t.buy].user /\ l.cur = "quote" /\ l.delta = -paid
  BY <1>2, <1>3, <1>4
<1>6. i = 2 => l.user = terms[t.buy].user /\ l.cur = "base" /\ l.delta = t.amt
  BY <1>1, <1>3, <1>4
<1>7. i = 3 => l.user = terms[t.sell].user /\ l.cur = "base" /\ l.delta = -t.amt
  BY <1>1, <1>3, <1>4
<1>8. i = 4 => l.user = terms[t.sell].user /\ l.cur = "quote" /\ l.delta = gain
  BY <1>2, <1>3, <1>4
<1> QED
  BY <1>5, <1>6, <1>7, <1>8

(* No leg is refused: what it debits was locked.                           *)
LEMMA LegGoes ==
    ASSUME Calm, NEW p \in Proc, job[p].pc = "leg", NEW l, l = CurrentLegs(p)[job[p].leg]
    PROVE  CanApply(l.user, l.cur, l.delta)
<1> PICK j : j = job[p]
  OBVIOUS
<1> PICK t : t = j.trades[j.at]
  OBVIOUS
<1>1. /\ Agreed(t) /\ CurrentLegs(p) = Legs(t, j.order)
      /\ t.buy \in Claims(j) /\ t.sell \in Claims(j) /\ j.leg \in 1 .. 4
      /\ \A x \in {t.buy, t.sell} : settled[x] + t.amt <= terms[x].amount /\ settled[x] \in Nat
  BY AtTrade
<1>2. OrderTypes /\ FundsTypes /\ TypeOK
  BY TypeParts DEF Calm
<1>3. Common /\ Lim(j)
  BY Serving DEF Calm
<1> PICK paid : paid = Value(t) + Fee(t, t.buy, j.order)
  OBVIOUS
<1> PICK gain : gain = Value(t) - Fee(t, t.sell, j.order)
  OBVIOUS
<1>4. /\ t \in Trade /\ t.amt \in Nat /\ t.buy # None /\ t.sell # None /\ t.buy \in Order /\ t.sell \in Order
      /\ terms[t.buy].side = "BUY" /\ terms[t.sell].side = "SELL"
      /\ Plain(terms[t.buy]) /\ Plain(terms[t.sell])
  BY Zenon, <1>1, TradingAssumption DEF Agreed
<1>5. /\ Value(t) \in Nat /\ Fee(t, t.sell, j.order) \in Nat /\ Fee(t, t.sell, j.order) <= Value(t)
      /\ Fee(t, t.buy, j.order) \in Nat
  BY <1>4, FeeType
<1>6. terms \in [Order -> Terms]
  BY <1>2 DEF OrderTypes
<1>11. /\ j.leg = 1 => l.user = terms[t.buy].user /\ l.cur = "quote" /\ l.delta = -paid
       /\ j.leg = 2 => l.user = terms[t.buy].user /\ l.cur = "base" /\ l.delta = t.amt
       /\ j.leg = 3 => l.user = terms[t.sell].user /\ l.cur = "base" /\ l.delta = -t.amt
       /\ j.leg = 4 => l.user = terms[t.sell].user /\ l.cur = "quote" /\ l.delta = gain
  <2>1. l = Legs(t, j.order)[j.leg]
    BY <1>1
  <2> QED
    BY ONLY <1>1, <1>4, <1>6, <2>1, WhichLeg, paid = Value(t) + Fee(t, t.buy, j.order),
            gain = Value(t) - Fee(t, t.sell, j.order)
<1>12. paid \in Nat /\ gain \in Nat
  BY <1>5
<1>7. CASE j.leg = 1
  <2>2. l.user = terms[t.buy].user /\ l.cur = "quote" /\ l.delta = -paid
    BY <1>7, <1>11
  <2> PICK u : u = terms[t.buy].user
    BY Zenon
  <2>3. u \in User /\ OfKind(terms[t.buy], u, "quote") /\ "quote" \in Currency
    BY Zenon, <1>4 DEF Plain, OfKind, LockCurrency, Currency
  <2>4. Alive(j, t.buy)
    BY Zenon, <1>1 DEF Alive
  <2>5. Unit(terms[t.buy]) * t.amt <= lck[u]["quote"]
    <3>1. Locked(j) /\ j.pc # "create" /\ terms[t.buy].side \in Side
      BY Zenon, <1>3, <1>4 DEF Lim, Side
    <3> QED
      BY Zenon, <1>1, <1>4, <2>3, <2>4, <3>1, TradeIsLocked
  <2>6. paid <= Unit(terms[t.buy]) * t.amt
    BY Zenon, <1>1, <1>4, LockPays DEF Agreed
  <2>7. lck[u]["quote"] <= bal[u]["quote"] + Spent(j, u, "quote")
    BY <1>3, <2>3 DEF Lim, Funded
  <2>8. Spent(j, u, "quote") = 0
    BY Zenon, <1>7, UnspentZero DEF Unspent
  <2>9. Unit(terms[t.buy]) \in Nat
    <3>1. terms[t.buy].side \in Side /\ Plain(terms[t.buy]) /\ 0 \in Int
      BY ONLY <1>4 DEF Side
    <3> QED
      BY <3>1, LockIsUnits
  <2> PICK b : b = Unit(terms[t.buy])
    OBVIOUS
  <2>10. b * t.amt \in Int
    BY ONLY <1>4, <2>9, b = Unit(terms[t.buy])
  <2>11. lck[u]["quote"] \in Nat /\ bal[u]["quote"] \in Nat
    BY <1>2, <2>3, LocksAreNat
  <2>12. paid <= bal[u]["quote"]
    <3> PICK a : a = b * t.amt
      BY Zenon
    <3>1. a \in Int /\ paid <= a /\ a <= lck[u]["quote"]
      BY <2>5, <2>6, <2>10
    <3> QED
      BY ONLY <1>12, <2>7, <2>8, <2>11, <3>1
  <2>13. bal[l.user][l.cur] + l.delta >= 0
    BY ONLY <1>12, <2>2, <2>11, <2>12, u = terms[t.buy].user
  <2> QED
    BY <2>13 DEF CanApply
<1>8. CASE j.leg = 2
  <2>1. l.delta = t.amt
    BY <1>8, <1>11
  <2>2. l.delta >= 0
    BY ONLY <1>4, <2>1
  <2> QED
    BY <2>2 DEF CanApply
<1>9. CASE j.leg = 3
  <2>2. l.user = terms[t.sell].user /\ l.cur = "base" /\ l.delta = -t.amt
    BY <1>9, <1>11
  <2> PICK u : u = terms[t.sell].user
    BY Zenon
  <2>3. u \in User /\ OfKind(terms[t.sell], u, "base") /\ "base" \in Currency
    BY Zenon, <1>4 DEF Plain, OfKind, LockCurrency, Currency
  <2>4. Alive(j, t.sell)
    BY Zenon, <1>1 DEF Alive
  <2>5. Unit(terms[t.sell]) * t.amt <= lck[u]["base"]
    <3>1. Locked(j) /\ j.pc # "create" /\ terms[t.sell].side \in Side
      BY Zenon, <1>3, <1>4 DEF Lim, Side
    <3> QED
      BY Zenon, <1>1, <1>4, <2>3, <2>4, <3>1, TradeIsLocked
  <2>6. Unit(terms[t.sell]) = 1
    BY Zenon, <1>4 DEF Unit
  <2>7. lck[u]["base"] <= bal[u]["base"] + Spent(j, u, "base")
    BY <1>3, <2>3 DEF Lim, Funded
  <2>8. Spent(j, u, "base") = 0
    BY <1>9 DEF Spent
  <2>11. lck[u]["base"] \in Nat /\ bal[u]["base"] \in Nat
    BY <1>2, <2>3, LocksAreNat
  <2>12. t.amt <= bal[u]["base"]
    <3>1. t.amt <= lck[u]["base"]
      BY ONLY <1>4, <2>5, <2>6
    <3> QED
      BY ONLY <1>4, <2>7, <2>8, <2>11, <3>1
  <2>13. bal[l.user][l.cur] + l.delta >= 0
    BY ONLY <1>4, <2>2, <2>11, <2>12, u = terms[t.sell].user
  <2> QED
    BY <2>13 DEF CanApply
<1>10. CASE j.leg = 4
  <2>1. l.delta = gain
    BY <1>10, <1>11
  <2> QED
    BY <1>12, <2>1 DEF CanApply
<1>13. j.leg = 1 \/ j.leg = 2 \/ j.leg = 3 \/ j.leg = 4
  BY ONLY <1>1
<1> QED
  BY <1>7, <1>8, <1>9, <1>10, <1>13, Zenon

(* What a leg moves of the funds, and what has been spent then.            *)
LEMMA LegSpends ==
    ASSUME Calm, NEW p \in Proc, job[p].pc = "leg", NEW j, j = job[p], NEW t, t = j.trades[j.at],
           NEW l, l = CurrentLegs(p)[j.leg], NEW k, k.trades = j.trades, k.at = j.at, k.order = j.order,
           k.pc \in {"leg", "tail"}, k.leg = j.leg + 1 \/ (k.leg = 4 /\ j.leg = 4),
           NEW u \in User, NEW c \in Currency, UNCHANGED terms,
           NEW new, new = (IF u = l.user /\ c = l.cur THEN bal[u][c] + l.delta ELSE bal[u][c])
    PROVE  /\ bal[u][c] + Spent(j, u, c) <= new + Spent(k, u, c)'
           /\ Spent(j, u, c) \in Int /\ Spent(k, u, c)' \in Int /\ new \in Int
<1> PICK fee : fee = Fee(t, t.buy, j.order)
  OBVIOUS
<1> PICK gain : gain = Value(t) - Fee(t, t.sell, j.order)
  OBVIOUS
<1> PICK v : v = Value(t)
  OBVIOUS
<1>1. Agreed(t) /\ CurrentLegs(p) = Legs(t, j.order) /\ j.leg \in 1 .. 4
  BY Zenon, AtTrade
<1>2. /\ t \in Trade /\ t.amt \in Nat /\ t.buy # None /\ t.sell # None
      /\ terms \in [Order -> Terms]
  BY Zenon, <1>1, TradingAssumption DEF Agreed, Calm, TypeOK
<1>3. v \in Nat /\ fee \in Nat /\ gain \in Nat
  <2>1. /\ Value(t) \in Nat /\ Fee(t, t.sell, j.order) \in Nat /\ Fee(t, t.sell, j.order) <= Value(t)
        /\ Fee(t, t.buy, j.order) \in Nat
    BY Zenon, <1>2, FeeType
  <2> QED
    BY <2>1
<1> DEFINE A(n) == IF n > 1 /\ terms[t.buy].user = u /\ c = "quote" THEN v + fee ELSE 0
           B(n) == IF n > 3 /\ terms[t.sell].user = u /\ c = "base" THEN t.amt ELSE 0
<1>4. Spent(j, u, c) = A(j.leg) + B(j.leg)
  BY Zenon DEF Spent
<1>5. Spent(k, u, c)' = A(k.leg) + B(k.leg)
  BY Zenon DEF Spent, Value, Fee
<1>6. /\ j.leg = 1 => l.user = terms[t.buy].user /\ l.cur = "quote" /\ l.delta = -(v + fee)
      /\ j.leg = 2 => l.delta = t.amt
      /\ j.leg = 3 => l.user = terms[t.sell].user /\ l.cur = "base" /\ l.delta = -t.amt
      /\ j.leg = 4 => l.delta = gain
  <2>1. l = Legs(t, j.order)[j.leg]
    BY <1>1
  <2> PICK paid : paid = Value(t) + Fee(t, t.buy, j.order)
    OBVIOUS
  <2>2. paid = v + fee
    OBVIOUS
  <2>3. /\ j.leg = 1 => l.user = terms[t.buy].user /\ l.cur = "quote" /\ l.delta = -paid
        /\ j.leg = 2 => l.user = terms[t.buy].user /\ l.cur = "base" /\ l.delta = t.amt
        /\ j.leg = 3 => l.user = terms[t.sell].user /\ l.cur = "base" /\ l.delta = -t.amt
        /\ j.leg = 4 => l.user = terms[t.sell].user /\ l.cur = "quote" /\ l.delta = gain
    BY ONLY <1>1, <1>2, <2>1, WhichLeg, paid = Value(t) + Fee(t, t.buy, j.order),
            gain = Value(t) - Fee(t, t.sell, j.order)
  <2> QED
    BY Zenon, <2>2, <2>3
<1>7. bal[u][c] \in Nat
  BY LocksAreNat DEF Calm
<1>13. t.amt \in Nat /\ new = (IF u = l.user /\ c = l.cur THEN bal[u][c] + l.delta ELSE bal[u][c])
  BY <1>2
<1> PICK m : m = j.leg
  OBVIOUS
<1> PICK n : n = k.leg
  BY Zenon
<1>8. m \in 1 .. 4 /\ (n = m + 1 \/ (n = 4 /\ m = 4))
  BY <1>1
<1>9. CASE m = 1
  BY ONLY <1>3, <1>4, <1>5, <1>6, <1>7, <1>8, <1>13, <1>9, m = j.leg, n = k.leg
<1>10. CASE m = 2
  BY ONLY <1>3, <1>4, <1>5, <1>6, <1>7, <1>8, <1>13, <1>10, m = j.leg, n = k.leg
<1>11. CASE m = 3
  BY ONLY <1>3, <1>4, <1>5, <1>6, <1>7, <1>8, <1>13, <1>11, m = j.leg, n = k.leg
<1>12. CASE m = 4
  BY ONLY <1>3, <1>4, <1>5, <1>6, <1>7, <1>8, <1>13, <1>12, m = j.leg, n = k.leg
<1> QED
  BY <1>8, <1>9, <1>10, <1>11, <1>12

LEMMA AddAt ==
    ASSUME NEW store \in [Account -> [Currency -> Int]], NEW u \in Account, NEW c \in Currency,
           NEW n \in Int, NEW v \in Account, NEW d \in Currency
    PROVE  Add(store, u, c, n)[v][d] = IF v = u /\ d = c THEN store[v][d] + n ELSE store[v][d]
BY DEF Add

LEMMA Relabelled ==
    ASSUME JobTypes, NEW p \in Proc, NEW j, j = job[p], NEW l \in Labels, NEW k, k = [j EXCEPT !.pc = l]
    PROVE  /\ k \in Job /\ k.pc = l /\ [job EXCEPT ![p].pc = l] = [job EXCEPT ![p] = k]
           /\ k.order = j.order /\ k.what = j.what /\ k.by = j.by /\ k.trades = j.trades /\ k.at = j.at
           /\ k.leg = j.leg /\ k.undo = j.undo /\ k.out = j.out /\ k.seen = j.seen
<1>1. j \in Job
  BY DEF JobTypes
<1>2. k \in Job
  BY <1>1, RelabelType
<1> QED
  BY <1>1, <1>2 DEF Job, JobTypes

LEMMA SettleLegLimit ==
    ASSUME Calm, NEW p \in Proc, SettleLeg(p)
    PROVE  LimitInv'
<1> PICK j : j = job[p]
  OBVIOUS
<1> PICK t : t = j.trades[j.at]
  OBVIOUS
<1> PICK l : l = CurrentLegs(p)[job[p].leg]
  OBVIOUS
<1>1. job[p].pc = "leg" /\ AtWork(p, j)
  BY DEF SettleLeg, AtWork
<1>2. Common /\ Lim(j) /\ JobTypes /\ OrderTypes /\ FundsTypes
  BY <1>1, AtWorkIs
<1>3. /\ bal' = Add(bal, l.user, l.cur, l.delta)
      /\ UNCHANGED <<lck, terms, mem, row, lastId, book, updates, settled>>
  BY DEF SettleLeg, ApplyLeg, orders, engine, history
<1>4. Agreed(t) /\ CurrentLegs(p) = Legs(t, j.order) /\ j.leg \in 1 .. 4
  BY <1>1, AtTrade
<1>5. PICK k \in Job : /\ job' = [job EXCEPT ![p] = k] /\ k.pc \in {"leg", "tail"}
                       /\ k.leg = j.leg + 1 \/ (k.leg = 4 /\ j.leg = 4)
                       /\ k.trades = j.trades /\ k.at = j.at /\ k.order = j.order
                       /\ k.out = j.out /\ k.by = j.by
  <2>1. j \in Job
    BY <1>2 DEF JobTypes
  <2>2. CASE j.leg = Len(CurrentLegs(p))
    <3>1. job' = [job EXCEPT ![p].pc = "tail"]
      BY <2>2 DEF SettleLeg, Goto
    <3>2. j.leg = 4
      <4>1. t \in Trade /\ LegCount(t) = 4 /\ terms \in [Order -> Terms]
        BY <1>2, <1>4 DEF Agreed, OrderTypes
      <4>2. Len(Legs(t, j.order)) = LegCount(t)
        BY <4>1, LegsType
      <4> QED
        BY <1>4, <2>2, <4>1, <4>2
    <3> PICK k : k = [j EXCEPT !.pc = "tail"]
      OBVIOUS
    <3>3. "tail" \in Labels
      BY DEF Labels
    <3>4. /\ k \in Job /\ k.pc = "tail" /\ job' = [job EXCEPT ![p] = k]
          /\ k.order = j.order /\ k.by = j.by /\ k.trades = j.trades /\ k.at = j.at
          /\ k.leg = j.leg /\ k.out = j.out
      BY <1>2, <3>1, <3>3, Relabelled
    <3> QED
      BY <3>2, <3>4
  <2>3. CASE j.leg # Len(CurrentLegs(p))
    <3>1. job' = [job EXCEPT ![p].leg = @ + 1]
      BY <2>3 DEF SettleLeg
    <3> PICK k : k = [j EXCEPT !.leg = @ + 1]
      OBVIOUS
    <3>2. /\ k \in Job /\ k.pc = j.pc /\ k.leg = j.leg + 1 /\ k.trades = j.trades /\ k.at = j.at
          /\ k.order = j.order /\ k.out = j.out /\ k.by = j.by
      BY <2>1 DEF Job
    <3>3. job' = [job EXCEPT ![p] = k]
      BY <1>2, <3>1 DEF JobTypes
    <3> QED
      BY <1>1, <3>2, <3>3
  <2> QED
    BY <2>2, <2>3
<1>6. Fit(k) /\ Claims(k) = Claims(j)
  <2>1. Fit(j) /\ j.pc \in Working
    BY <1>1, <1>2 DEF Lim, Working, Inside
  <2> QED
    BY <1>5, <2>1, FitInside
<1>7. Locked(k)'
  <2>1. \A x : Alive(k, x)' <=> Alive(k, x)
    BY <1>3, Unturned
  <2>2. \A x \in Order : Alive(k, x) => Alive(j, x)
    BY <1>1, <1>6 DEF Alive
  <2>3. TypeOK /\ Shape /\ SettledInv /\ Surviving
    BY NoFaults DEF Calm
  <2>4. Locked(j) /\ k.pc # "create" /\ j.pc # "create"
    BY <1>1, <1>2, <1>5 DEF Lim
  <2> QED
    BY <1>3, <2>1, <2>2, <2>3, <2>4, LockedStays
<1>8. Funded(k)'
  <2> SUFFICES ASSUME NEW u \in User, NEW c \in Currency
               PROVE  lck'[u][c] <= bal'[u][c] + Spent(k, u, c)'
    BY DEF Funded
  <2>1. lck[u][c] <= bal[u][c] + Spent(j, u, c) /\ lck[u][c] \in Nat /\ bal[u][c] \in Nat
    BY <1>2, LocksAreNat DEF Lim, Funded, Calm
  <2>2. l.user \in Account /\ l.cur \in Currency /\ l.delta \in Int
    <3>1. t \in Trade /\ terms \in [Order -> Terms] /\ j.leg \in 1 .. LegCount(t) /\ l = Legs(t, j.order)[j.leg]
      BY <1>2, <1>4 DEF Agreed, OrderTypes
    <3> QED
      BY Zenon, <3>1, CurrentLeg
  <2> PICK new : new = (IF u = l.user /\ c = l.cur THEN bal[u][c] + l.delta ELSE bal[u][c])
    OBVIOUS
  <2>3. bal'[u][c] = new
    <3>1. bal \in [Account -> [Currency -> Int]] /\ u \in Account
      BY <1>2 DEF FundsTypes, Account
    <3> PICK v : v = l.user
      OBVIOUS
    <3> PICK d : d = l.cur
      OBVIOUS
    <3> PICK n : n = l.delta
      OBVIOUS
    <3>2. v \in Account /\ d \in Currency /\ n \in Int
      BY <2>2
    <3>3. Add(bal, v, d, n)[u][c] = IF u = v /\ c = d THEN bal[u][c] + n ELSE bal[u][c]
      BY ONLY <3>1, <3>2, c \in Currency, AddAt
    <3>4. bal' = Add(bal, v, d, n)
      BY <1>3
    <3> QED
      BY <3>3, <3>4
  <2>4. /\ bal[u][c] + Spent(j, u, c) <= new + Spent(k, u, c)'
        /\ Spent(j, u, c) \in Int /\ Spent(k, u, c)' \in Int /\ new \in Int
    BY <1>1, <1>3, <1>5, LegSpends
  <2> QED
    BY ONLY <1>3, <2>1, <2>3, <2>4
<1>9. \A x \in Created : Awaited(j, x) => Awaited(k, x)
  BY <1>1, <1>6 DEF Awaited
<1>10. k.pc # "idle"
  BY <1>5
<1> QED
  BY <1>1, <1>3, <1>5, <1>6, <1>7, <1>8, <1>9, <1>10, TurnsTo

LEMMA NoMarketFillLimit ==
    ASSUME Calm, NEW p \in Proc, NoMarketFill(p)
    PROVE  LimitInv'
<1> PICK j : j = job[p]
  OBVIOUS
<1> PICK k : k = [j EXCEPT !.pc = "add"]
  OBVIOUS
<1>1. j.pc = "price" /\ AtWork(p, j)
  BY DEF NoMarketFill, AtWork
<1>2. Common /\ Lim(j) /\ JobTypes
  BY <1>1, AtWorkIs
<1>3. /\ job' = [job EXCEPT ![p].pc = "add"]
      /\ UNCHANGED <<bal, lck, terms, mem, row, lastId, book, updates, settled>>
  BY DEF NoMarketFill, Goto, redis, orders, engine, history
<1>4. /\ k \in Job /\ k.pc = "add" /\ job' = [job EXCEPT ![p] = k]
      /\ k.order = j.order /\ k.by = j.by /\ k.trades = j.trades /\ k.out = j.out
  <2>1. "add" \in Labels
    BY DEF Labels
  <2> QED
    BY <1>2, <1>3, <2>1, Relabelled
<1>5. Fit(k) /\ Claims(k) = Claims(j)
  <2>1. Fit(j) /\ j.pc \in Working
    BY <1>1, <1>2 DEF Lim, Working, Inside
  <2> QED
    BY Zenon, <1>4, <2>1, FitInside
<1>6. Locked(k)'
  <2>1. \A x : Alive(k, x)' <=> Alive(k, x)
    BY <1>3, Unturned
  <2>2. \A x \in Order : Alive(k, x) => Alive(j, x)
    BY <1>1, <1>5 DEF Alive
  <2>3. TypeOK /\ Shape /\ SettledInv /\ Surviving
    BY NoFaults DEF Calm
  <2>4. Locked(j) /\ k.pc # "create" /\ j.pc # "create"
    BY <1>1, <1>2, <1>4 DEF Lim
  <2> QED
    BY <1>3, <2>1, <2>2, <2>3, <2>4, LockedStays
<1>7. Funded(k)'
  <2>1. Funded(j) /\ Unspent(j) /\ Unspent(k)
    BY <1>1, <1>2, <1>4 DEF Lim, Unspent
  <2>2. \A u \in User, c \in Currency : lck'[u][c] <= lck[u][c] /\ lck'[u][c] \in Nat
    BY <1>3, LocksAreNat DEF Calm
  <2> QED
    BY <1>3, <2>1, <2>2, FundedStays DEF Calm
<1>8. \A x \in Created : Awaited(j, x) => Awaited(k, x)
  BY <1>1, <1>5 DEF Awaited
<1>9. k.pc # "idle"
  BY <1>4
<1> QED
  BY <1>1, <1>3, <1>4, <1>5, <1>6, <1>7, <1>8, <1>9, TurnsTo

LEMMA SyncReadLimit ==
    ASSUME Calm, NEW p \in Proc, SyncRead(p)
    PROVE  LimitInv'
<1> PICK j : j = job[p]
  OBVIOUS
<1> PICK s : s = mem[j.order]
  OBVIOUS
<1> PICK k : k = [j EXCEPT !.pc = "syncWrite", !.seen = s]
  OBVIOUS
<1>1. j.pc = "syncRead" /\ AtWork(p, j)
  BY DEF SyncRead, AtWork
<1>2. Common /\ Lim(j) /\ JobTypes /\ OrderTypes
  BY <1>1, AtWorkIs
<1>3. /\ job' = [job EXCEPT ![p].pc = "syncWrite", ![p].seen = s]
      /\ UNCHANGED <<bal, lck, terms, mem, row, lastId, book, updates, settled>>
  BY DEF SyncRead, redis, orders, engine, history
<1>4. j \in Job /\ s \in Progress
  <2>1. j.order \in Order
    BY <1>1, <1>2, ApartFacts DEF Apart, Calm
  <2> QED
    BY <1>2, <2>1 DEF JobTypes, OrderTypes
<1>5. /\ k \in Job /\ k.pc = "syncWrite" /\ k.seen = s /\ k.order = j.order /\ k.by = j.by
  BY <1>4 DEF Job
<1>6. job' = [job EXCEPT ![p] = k]
  BY <1>2, <1>3, <1>4 DEF JobTypes, Job
<1>7. Claims(k) = {} /\ Claims(j) = {}
  BY <1>1, <1>5 DEF Claims, Inside
<1>8. Fit(k)
  <2>1. Reads(j) /\ k.by = "user"
    BY <1>2, <1>5 DEF Lim, Fit
  <2>2. Good(k.order, mem[k.order]) /\ k.seen = mem[k.order]
    BY <1>1, <1>5, <2>1 DEF Reads
  <2>3. Reads(k)
    BY <1>5, <2>2 DEF Reads
  <2> QED
    BY <1>5, <2>1, <2>3 DEF Fit, Steps, Prompt, Working, Inside
<1>9. Locked(k)'
  <2>1. \A x : Alive(k, x)' <=> Alive(k, x)
    BY <1>3, Unturned
  <2>2. \A x \in Order : Alive(k, x) => Alive(j, x)
    BY <1>1, <1>7 DEF Alive
  <2>3. TypeOK /\ Shape /\ SettledInv /\ Surviving
    BY NoFaults DEF Calm
  <2>4. Locked(j) /\ k.pc # "create" /\ j.pc # "create"
    BY <1>1, <1>2, <1>5 DEF Lim
  <2> QED
    BY <1>3, <2>1, <2>2, <2>3, <2>4, LockedStays
<1>10. Funded(k)'
  <2>1. Funded(j) /\ Unspent(j) /\ Unspent(k)
    BY <1>1, <1>2, <1>5 DEF Lim, Unspent
  <2>2. \A u \in User, c \in Currency : lck'[u][c] <= lck[u][c] /\ lck'[u][c] \in Nat
    BY <1>3, LocksAreNat DEF Calm
  <2> QED
    BY <1>3, <2>1, <2>2, FundedStays DEF Calm
<1>11. \A x \in Created : Awaited(j, x) => Awaited(k, x)
  BY <1>1, <1>7 DEF Awaited
<1>12. k.pc # "idle"
  BY <1>5
<1> QED
  BY <1>1, <1>3, <1>5, <1>6, <1>8, <1>9, <1>10, <1>11, <1>12, TurnsTo

(* While no goroutine settles, what is filled was paid.                    *)
LEMMA MutexFree ==
    ASSUME Calm, NEW p \in Proc, NEW j, AtWork(p, j), j.pc \notin Inside
    PROVE  mutex = None /\ \A x \in Order : mem[x].filled = settled[x]
<1>1. OrderTypes /\ JobTypes /\ Alone /\ FundsTypes
  BY AtWorkIs
<1>2. mutex = None
  <2> SUFFICES ASSUME mutex # None PROVE FALSE
    OBVIOUS
  <2>1. mutex \in Proc /\ job[mutex].pc \in Inside
    BY <1>1, MutexHolder DEF Calm
  <2>2. job[mutex].pc # "idle"
    BY <2>1 DEF Inside
  <2>3. mutex = p
    BY <1>1, <2>1, <2>2 DEF AtWork, AllIdle, Alone
  <2> QED
    BY <2>1, <2>2, <2>3 DEF AtWork, AllIdle
<1>3. ASSUME NEW x \in Order PROVE mem[x].filled = settled[x]
  <2>1. mem[x].filled = settled[x] + Owed(x)
    BY NoFaults DEF Calm, SettledInv
  <2>2. Owed(x) = 0
    BY <1>2 DEF Owed
  <2>3. settled[x] \in Nat
    BY <1>1 DEF FundsTypes
  <2> QED
    BY <2>1, <2>2, <2>3
<1> QED
  BY <1>2, <1>3

LEMMA SumDrops ==
    ASSUME NEW S, IsFiniteSet(S), NEW f, NEW g, NEW x \in S, NEW d \in Int,
           \A y \in S : f[y] \in Int /\ g[y] \in Int,
           \A y \in S \ {x} : g[y] <= f[y], g[x] + d <= f[x]
    PROVE  Sum(g, S) + d <= Sum(f, S)
<1>1. Sum(g, S) - g[x] <= Sum(f, S) - f[x]
  BY SumBound
<1>2. Sum(g, S) \in Int /\ Sum(f, S) \in Int /\ f[x] \in Int /\ g[x] \in Int
  BY SumType
<1> QED
  BY <1>1, <1>2

LEMMA LowerAt ==
    ASSUME lck \in [Account -> [Currency -> Nat]], NEW u \in Account, NEW c \in Currency,
           NEW n \in Nat, NEW v \in Account, NEW d \in Currency
    PROVE  /\ Lower(u, c, n)[v][d] = IF v = u /\ d = c
                                     THEN (IF lck[v][d] > n THEN lck[v][d] - n ELSE 0) ELSE lck[v][d]
           /\ Lower(u, c, n)[v][d] \in Nat /\ Lower(u, c, n)[v][d] <= lck[v][d]
<1>1. Lower(u, c, n)[v][d] = IF v = u /\ d = c
                             THEN (IF lck[v][d] > n THEN lck[v][d] - n ELSE 0) ELSE lck[v][d]
  BY DEF Lower
<1>2. lck[v][d] \in Nat
  OBVIOUS
<1> QED
  BY <1>1, <1>2

LEMMA CancelUnlockLimit ==
    ASSUME Calm, NEW p \in Proc, CancelUnlock(p)
    PROVE  LimitInv'
<1> PICK j : j = job[p]
  OBVIOUS
<1> PICK o : o = j.order
  OBVIOUS
<1> PICK k : k = [j EXCEPT !.pc = "save"]
  OBVIOUS
<1> PICK n : n = LockFor(terms[o], terms[o].amount - j.seen.filled)
  OBVIOUS
<1>1. j.pc = "unlock" /\ AtWork(p, j)
  BY DEF CancelUnlock, AtWork
<1>2. Common /\ Lim(j) /\ JobTypes /\ OrderTypes /\ FundsTypes
  BY <1>1, AtWorkIs
<1>3. o \in Created /\ o \in Order
  BY <1>1, <1>2, ApartFacts DEF Apart, Calm
<1>4. Plain(terms[o]) /\ terms[o] \in Terms
  BY <1>2, <1>3 DEF Common, AllPlain, OrderTypes
<1>5. /\ job' = [job EXCEPT ![p].pc = "save"]
      /\ UNCHANGED <<bal, terms, mem, row, lastId, book, updates, settled>>
  BY DEF CancelUnlock, Goto, orders, engine, history
<1>6. lck' = Lower(terms[o].user, LockCurrency(terms[o]), n)
  BY <1>4, NoFaults DEF CancelUnlock, Plain, Calm
<1>7. /\ k \in Job /\ k.pc = "save" /\ job' = [job EXCEPT ![p] = k]
      /\ k.order = o /\ k.by = j.by /\ k.seen = j.seen
  <2>1. "save" \in Labels
    BY DEF Labels
  <2> QED
    BY <1>2, <1>5, <2>1, Relabelled
<1>8. j.seen = mem[o] /\ Rests(o) /\ updates = <<>> /\ j.by = "user"
  BY <1>1, <1>2 DEF Lim, Fit, Reads, Prompt
<1>9. Claims(j) = {} /\ Claims(k) = {}
  BY <1>1, <1>7 DEF Claims, Inside
<1>10. Fit(k)
  <2>1. Reads(k)
    BY <1>7, <1>8 DEF Reads
  <2> QED
    BY <1>7, <1>8, <2>1 DEF Fit, Steps, Prompt, Working, Inside
<1>11. mem[o].filled = settled[o]
  <2>1. j.pc \notin Inside
    BY <1>1 DEF Inside
  <2> QED
    BY <1>1, <1>3, <2>1, MutexFree
<1>12. n = LockFor(terms[o], terms[o].amount - settled[o]) /\ n \in Nat
  <2>1. terms[o].amount - settled[o] \in Nat
    BY <1>3, LeftToPay, NoFaults DEF Calm
  <2>2. n = LockFor(terms[o], terms[o].amount - settled[o])
    BY <1>8, <1>11
  <2> QED
    BY <1>4, <2>1, <2>2, LockForType
<1>13. terms[o].user \in User /\ terms[o].user \in Account /\ LockCurrency(terms[o]) \in Currency
  BY <1>4 DEF Plain, Account, LockCurrency, Currency
<1>14. \A u \in User, c \in Currency :
          /\ lck[u][c] \in Nat /\ lck'[u][c] \in Nat /\ lck'[u][c] <= lck[u][c]
          /\ lck'[u][c] = IF OfKind(terms[o], u, c)
                          THEN (IF lck[u][c] > n THEN lck[u][c] - n ELSE 0) ELSE lck[u][c]
  <2> TAKE u \in User, c \in Currency
  <2>1. u \in Account /\ lck \in [Account -> [Currency -> Nat]]
    BY <1>2 DEF Account, FundsTypes
  <2> PICK v : v = terms[o].user
    OBVIOUS
  <2> PICK d : d = LockCurrency(terms[o])
    BY Zenon
  <2>2. /\ Lower(v, d, n)[u][c] = IF u = v /\ c = d
                                  THEN (IF lck[u][c] > n THEN lck[u][c] - n ELSE 0) ELSE lck[u][c]
        /\ Lower(v, d, n)[u][c] \in Nat /\ Lower(v, d, n)[u][c] <= lck[u][c]
    BY <1>12, <1>13, <2>1, LowerAt
  <2>3. OfKind(terms[o], u, c) <=> u = v /\ c = d
    BY DEF OfKind
  <2>4. lck[u][c] \in Nat /\ lck' = Lower(v, d, n)
    BY <1>6, <2>1
  <2> QED
    BY ONLY <2>2, <2>3, <2>4
<1>15. \A x \in Order : Alive(k, x)' => Alive(j, x) /\ x # o
  <2>1. \A x : Alive(k, x)' <=> Alive(k, x)
    BY <1>5, Unturned
  <2>2. \A x \in Order : Alive(k, x) => Alive(j, x) /\ x # o
    BY <1>1, <1>7, <1>9 DEF Alive
  <2> QED
    BY <2>1, <2>2
<1>16. Locked(k)'
  <2> SUFFICES ASSUME NEW u \in User, NEW c \in Currency
               PROVE  Sum(ClaimsOn(k, u, c)', Order) + Extra(k, u, c) <= lck'[u][c]
    BY ExtraNext DEF Locked
  <2> PICK f : f = ClaimsOn(j, u, c)
    OBVIOUS
  <2> PICK g : g = ClaimsOn(k, u, c)'
    OBVIOUS
  <2>1. \A x \in Order : f[x] \in Nat
    BY ClaimType, NoFaults DEF Calm
  <2>2. \A x \in Order : g[x] = IF OfKind(terms[x], u, c) /\ Alive(k, x)'
                                THEN LockFor(terms[x], terms[x].amount - settled[x]) ELSE 0
    BY <1>5, ClaimNext
  <2>3. \A x \in Order : f[x] = IF OfKind(terms[x], u, c) /\ Alive(j, x)
                                THEN LockFor(terms[x], terms[x].amount - settled[x]) ELSE 0
    BY ClaimNow
  <2>4. \A x \in Order : g[x] = f[x] \/ g[x] = 0
    BY <1>15, <2>2, <2>3
  <2>5. \A x \in Order : g[x] \in Nat /\ g[x] \in Int /\ f[x] \in Int /\ g[x] <= f[x]
    BY <2>1, <2>4
  <2>6. Sum(g, Order) \in Nat /\ Sum(f, Order) \in Nat
    BY <2>1, <2>5, OrdersFinite, SumNat
  <2>7. Sum(f, Order) <= lck[u][c]
    <3>1. Extra(j, u, c) = 0
      BY <1>1 DEF Extra
    <3>2. Sum(f, Order) + 0 <= lck[u][c]
      BY <1>2, <3>1 DEF Lim, Locked
    <3> QED
      BY <2>6, <3>2
  <2>8. Extra(k, u, c) = 0
    BY <1>7 DEF Extra
  <2>9. CASE OfKind(terms[o], u, c)
    <3>1. Alive(j, o)
      BY <1>1, <1>8 DEF Alive
    <3>2. f[o] = n /\ g[o] = 0
      BY <1>3, <1>12, <1>15, <2>2, <2>3, <2>9, <3>1
    <3>3. g[o] + n <= f[o] /\ n \in Int
      BY <1>12, <3>2
    <3>4. Sum(g, Order) + n <= Sum(f, Order)
      BY ONLY <1>3, <2>5, <3>3, OrdersFinite, SumDrops
    <3>5. lck'[u][c] = IF lck[u][c] > n THEN lck[u][c] - n ELSE 0
      BY <1>14, <2>9
    <3>6. lck[u][c] \in Nat
      BY <1>14
    <3> QED
      BY ONLY <1>12, <2>6, <2>7, <2>8, <3>4, <3>5, <3>6, g = ClaimsOn(k, u, c)'
  <2>10. CASE ~OfKind(terms[o], u, c)
    <3>1. Sum(g, Order) <= Sum(f, Order)
      BY <2>5, OrdersFinite, SumMonotone
    <3>2. lck'[u][c] = lck[u][c] /\ lck[u][c] \in Nat
      BY <1>14, <2>10
    <3> QED
      BY ONLY <2>6, <2>7, <2>8, <3>1, <3>2, g = ClaimsOn(k, u, c)'
  <2> QED
    BY <2>9, <2>10
<1>17. Funded(k)'
  <2>1. Funded(j) /\ Unspent(j) /\ Unspent(k)
    BY <1>1, <1>2, <1>7 DEF Lim, Unspent
  <2>2. \A u \in User, c \in Currency : lck'[u][c] <= lck[u][c] /\ lck'[u][c] \in Nat
    BY <1>14
  <2> QED
    BY <1>5, <2>1, <2>2, FundedStays DEF Calm
<1>18. \A x \in Created : Awaited(j, x) => Awaited(k, x)
  BY <1>1, <1>9 DEF Awaited
<1>19. k.pc # "idle"
  BY <1>7
<1> QED
  BY <1>1, <1>5, <1>7, <1>10, <1>16, <1>17, <1>18, <1>19, TurnsTo

Left(x, n) == IF x > n THEN x - n ELSE 0

LEMMA UnlockAt ==
    ASSUME terms \in [Order -> Terms], NEW store \in [Account -> [Currency -> Nat]], NEW t, NEW o \in Order,
           NEW taker, terms[o].type = "LIMIT", PaidOf(t, o, taker) \in Nat,
           NEW u \in Account, NEW c \in Currency
    PROVE  UnlockParty(store, t, o, taker)[u][c] =
             IF OfKind(terms[o], u, c) THEN Left(store[u][c], PaidOf(t, o, taker)) ELSE store[u][c]
<1> PICK n : n = PaidOf(t, o, taker)
  OBVIOUS
<1> PICK v : v = terms[o].user
  OBVIOUS
<1> PICK d : d = LockCurrency(terms[o])
  OBVIOUS
<1>1. v \in Account /\ d \in Currency
  BY DEF Terms, LockCurrency, Currency
<1>2. UnlockParty(store, t, o, taker) = [store EXCEPT ![v][d] = IF @ > n THEN @ - n ELSE 0]
  BY DEF UnlockParty
<1>3. OfKind(terms[o], u, c) <=> u = v /\ c = d
  BY Zenon DEF OfKind
<1> QED
  BY <1>1, <1>2, <1>3 DEF Left

(* What settling a trade leaves locked: of the buyer's quote what it paid, *)
(* of the seller's base what it sold.                                      *)

LEMMA TailUnlocks ==
    ASSUME Calm, NEW p \in Proc, SettleTail(p), NEW j, j = job[p], NEW t, t = j.trades[j.at],
           NEW paid, paid = Value(t) + Fee(t, t.buy, j.order), NEW u \in User, NEW c \in Currency
    PROVE  /\ paid \in Nat
           /\ lck'[u][c] = IF OfKind(terms[t.buy], u, c) THEN Left(lck[u][c], paid)
                           ELSE IF OfKind(terms[t.sell], u, c) THEN Left(lck[u][c], t.amt)
                           ELSE lck[u][c]
           /\ OfKind(terms[t.buy], u, c) => c = "quote"
           /\ OfKind(terms[t.sell], u, c) => c = "base"
           /\ bal'[u][c] = bal[u][c]
<1>1. job[p].pc = "tail"
  BY DEF SettleTail
<1>2. Agreed(t) /\ CurrentTrade(p) = t
  BY Zenon, <1>1, AtTrade
<1>3. /\ t \in Trade /\ t.amt \in Nat /\ t.buy \in Order /\ t.sell \in Order /\ t.buy # t.sell
      /\ ~Synthetic(t) /\ Plain(terms[t.buy]) /\ Plain(terms[t.sell])
      /\ terms[t.buy].side = "BUY" /\ terms[t.sell].side = "SELL"
  BY <1>2 DEF Agreed
<1>4. OrderTypes /\ FundsTypes
  BY TypeParts DEF Calm
<1>5. paid \in Nat
  <2>1. Value(t) \in Nat /\ Fee(t, t.buy, j.order) \in Nat
    BY <1>3, FeeType
  <2> QED
    BY <2>1
<1> PICK one : one = UnlockParty(lck, t, t.buy, j.order)
  BY Zenon
<1>6. lck' = UnlockParty(one, t, t.sell, j.order)
  BY <1>2, <1>3 DEF SettleTail
<1>7. terms \in [Order -> Terms] /\ lck \in [Account -> [Currency -> Nat]] /\ u \in Account
  BY Zenon, <1>4 DEF OrderTypes, FundsTypes, Account
<1>8. one \in [Account -> [Currency -> Nat]]
  BY Zenon, <1>3, <1>7, UnlockType
<1>9. PaidOf(t, t.buy, j.order) = paid /\ PaidOf(t, t.sell, j.order) = t.amt
  BY Zenon, <1>3 DEF PaidOf
<1>10. terms[t.buy].type = "LIMIT" /\ terms[t.sell].type = "LIMIT"
  BY <1>3 DEF Plain
<1>17. PaidOf(t, t.buy, j.order) \in Nat /\ PaidOf(t, t.sell, j.order) \in Nat
  BY ONLY <1>3, <1>5, <1>9
<1>11. one[u][c] = IF OfKind(terms[t.buy], u, c) THEN Left(lck[u][c], paid) ELSE lck[u][c]
  <2>1. UnlockParty(lck, t, t.buy, j.order)[u][c] =
           IF OfKind(terms[t.buy], u, c) THEN Left(lck[u][c], PaidOf(t, t.buy, j.order)) ELSE lck[u][c]
    BY ONLY <1>3, <1>7, <1>10, <1>17, u \in Account, c \in Currency, UnlockAt
  <2> QED
    BY ONLY <1>9, <2>1, one = UnlockParty(lck, t, t.buy, j.order)
<1>12. lck'[u][c] = IF OfKind(terms[t.sell], u, c) THEN Left(one[u][c], t.amt) ELSE one[u][c]
  <2>1. UnlockParty(one, t, t.sell, j.order)[u][c] =
           IF OfKind(terms[t.sell], u, c) THEN Left(one[u][c], PaidOf(t, t.sell, j.order)) ELSE one[u][c]
    BY ONLY <1>3, <1>7, <1>8, <1>10, <1>17, u \in Account, c \in Currency, UnlockAt
  <2> QED
    BY ONLY <1>6, <1>9, <2>1
<1>13. /\ OfKind(terms[t.buy], u, c) => c = "quote"
       /\ OfKind(terms[t.sell], u, c) => c = "base"
  BY <1>3 DEF OfKind, LockCurrency
<1>14. bal'[u][c] = bal[u][c]
  <2> PICK n : n = TotalFee(t, j.order)
    BY Zenon
  <2>1. n \in Int
    BY <1>3, TotalFeeType
  <2>2. FeeWallet \in Account /\ u # FeeWallet /\ "quote" \in Currency
    BY TradingAssumption DEF Account, Currency
  <2>3. bal \in [Account -> [Currency -> Int]]
    BY <1>4 DEF FundsTypes
  <2>4. Add(bal, FeeWallet, "quote", n)[u][c] = IF u = FeeWallet /\ c = "quote" THEN bal[u][c] + n ELSE bal[u][c]
    BY ONLY <1>7, <2>1, <2>2, <2>3, c \in Currency, AddAt
  <2>5. bal' = Add(bal, FeeWallet, "quote", n)
    BY Zenon, <1>2 DEF SettleTail
  <2> QED
    BY <2>2, <2>4, <2>5
<1>15. OfKind(terms[t.buy], u, c) => ~OfKind(terms[t.sell], u, c)
  BY <1>13
<1>16. lck'[u][c] = IF OfKind(terms[t.buy], u, c) THEN Left(lck[u][c], paid)
                    ELSE IF OfKind(terms[t.sell], u, c) THEN Left(lck[u][c], t.amt)
                    ELSE lck[u][c]
  BY ONLY <1>11, <1>12, <1>15
<1> QED
  BY <1>5, <1>13, <1>14, <1>16

(* Settling lowers the claims of both parties by no less than their locks. *)
LEMMA TailClaims ==
    ASSUME Calm, NEW p \in Proc, SettleTail(p), NEW j, j = job[p], NEW t, t = j.trades[j.at],
           NEW k, \A x \in Order : Alive(k, x)' => Alive(j, x),
           NEW u \in User, NEW c \in Currency
    PROVE  /\ Sum(ClaimsOn(k, u, c)', Order) \in Nat /\ Sum(ClaimsOn(j, u, c), Order) \in Nat
           /\ Sum(ClaimsOn(k, u, c)', Order) <= Sum(ClaimsOn(j, u, c), Order)
           /\ \A x \in {t.buy, t.sell} : OfKind(terms[x], u, c) =>
                 /\ Unit(terms[x]) * t.amt \in Nat
                 /\ Sum(ClaimsOn(k, u, c)', Order) + Unit(terms[x]) * t.amt <= Sum(ClaimsOn(j, u, c), Order)
<1>1. job[p].pc = "tail"
  BY DEF SettleTail
<1>2. /\ Agreed(t) /\ CurrentTrade(p) = t /\ t.buy \in Claims(j) /\ t.sell \in Claims(j)
      /\ \A x \in {t.buy, t.sell} : settled[x] + t.amt <= terms[x].amount /\ settled[x] \in Nat
  BY <1>1, AtTrade
<1>3. /\ t \in Trade /\ t.amt \in Nat /\ t.buy \in Order /\ t.sell \in Order /\ Parties(t) = {t.buy, t.sell}
      /\ Plain(terms[t.buy]) /\ Plain(terms[t.sell])
      /\ terms[t.buy].side = "BUY" /\ terms[t.sell].side = "SELL"
  BY <1>2 DEF Agreed
<1>4. OrderTypes /\ FundsTypes
  BY Zenon, TypeParts DEF Calm
<1>5. terms' = terms /\ settled' = [x \in Order |-> IF x \in Parties(t) THEN settled[x] + t.amt ELSE settled[x]]
  BY <1>2 DEF SettleTail
<1> PICK f : f = ClaimsOn(j, u, c)
  OBVIOUS
<1> PICK g : g = ClaimsOn(k, u, c)'
  OBVIOUS
<1>6. \A x \in Order : f[x] \in Nat
  BY ClaimType, NoFaults DEF Calm
<1>7. \A x \in Order : g[x] = IF OfKind(terms[x], u, c) /\ Alive(k, x)'
                              THEN LockFor(terms[x], terms[x].amount - settled'[x]) ELSE 0
  BY <1>5, ClaimNext
<1>8. \A x \in Order : f[x] = IF OfKind(terms[x], u, c) /\ Alive(j, x)
                              THEN LockFor(terms[x], terms[x].amount - settled[x]) ELSE 0
  BY Zenon, ClaimNow
<1>9. \A x \in Order \ {t.buy, t.sell} : settled'[x] = settled[x]
  BY <1>3, <1>5
<1>10. \A x \in Order \ {t.buy, t.sell} : g[x] = f[x] \/ g[x] = 0
  BY <1>7, <1>8, <1>9
<1>11. ASSUME NEW x \in {t.buy, t.sell}
       PROVE  /\ g[x] \in Nat /\ Unit(terms[x]) * t.amt \in Nat /\ f[x] \in Nat /\ g[x] <= f[x]
              /\ OfKind(terms[x], u, c) => g[x] + Unit(terms[x]) * t.amt <= f[x]
  <2>1. x \in Order /\ Plain(terms[x]) /\ terms[x].side \in Side /\ Alive(j, x)
    BY Zenon, <1>2, <1>3 DEF Alive, Side
  <2>2. settled'[x] = settled[x] + t.amt /\ settled[x] \in Nat /\ settled[x] + t.amt <= terms[x].amount
    BY <1>2, <1>3, <1>5, <2>1
  <2>3. terms[x].amount \in Nat
    BY <1>4, <2>1 DEF OrderTypes, Terms
  <2> PICK a : a = Unit(terms[x])
    OBVIOUS
  <2> PICK m : m = terms[x].amount - settled[x]
    OBVIOUS
  <2> PICK n : n = terms[x].amount - settled'[x]
    OBVIOUS
  <2> PICK s : s = settled[x]
    OBVIOUS
  <2> PICK w : w = terms[x].amount
    OBVIOUS
  <2> PICK e : e = t.amt
    OBVIOUS
  <2>4. m \in Int /\ n \in Int /\ n \in Nat /\ m = n + t.amt
    <3>1. s \in Nat /\ w \in Nat /\ e \in Nat /\ s + e <= w
      BY <1>3, <2>2, <2>3
    <3>2. m = w - s /\ n = w - (s + e)
      BY <2>2
    <3> QED
      BY ONLY <3>1, <3>2, e = t.amt
  <2>5. a \in Nat /\ LockFor(terms[x], m) = a * m /\ LockFor(terms[x], n) = a * n
    <3>1. \A q \in Int : Unit(terms[x]) \in Nat /\ LockFor(terms[x], q) = Unit(terms[x]) * q
      BY <2>1, LockIsUnits
    <3> QED
      BY <2>4, <3>1
  <2>6. /\ g[x] = IF OfKind(terms[x], u, c) /\ Alive(k, x)' THEN a * n ELSE 0
        /\ f[x] = IF OfKind(terms[x], u, c) THEN a * m ELSE 0
    BY <1>7, <1>8, <2>1, <2>5
  <2>7. a * m = a * n + a * t.amt /\ a * n \in Nat /\ a * t.amt \in Nat
    BY ONLY <1>3, <2>4, <2>5
  <2> QED
    BY <1>6, <2>1, <2>6, <2>7
<1>12. \A x \in Order : g[x] \in Nat /\ g[x] \in Int /\ f[x] \in Int /\ g[x] <= f[x]
  <2> TAKE x \in Order
  <2>1. CASE x \in {t.buy, t.sell}
    BY <1>11, <2>1
  <2>2. CASE x \notin {t.buy, t.sell}
    BY <1>6, <1>10, <2>2
  <2> QED
    BY <2>1, <2>2
<1>13. Sum(g, Order) \in Nat /\ Sum(f, Order) \in Nat
  BY <1>6, <1>12, OrdersFinite, SumNat
<1>14. Sum(g, Order) <= Sum(f, Order)
  BY <1>12, OrdersFinite, SumMonotone
<1>15. ASSUME NEW x \in {t.buy, t.sell}, OfKind(terms[x], u, c)
       PROVE  Unit(terms[x]) * t.amt \in Nat /\ Sum(g, Order) + Unit(terms[x]) * t.amt <= Sum(f, Order)
  <2> PICK d : d = Unit(terms[x]) * t.amt
    BY Zenon
  <2>1. d \in Nat /\ d \in Int /\ g[x] + d <= f[x]
    BY <1>11, <1>15
  <2>2. x \in Order
    BY <1>3
  <2>3. Sum(g, Order) + d <= Sum(f, Order)
    BY ONLY <1>12, <2>1, <2>2, OrdersFinite, SumDrops
  <2> QED
    BY <2>1, <2>3
<1> QED
  BY <1>13, <1>14, <1>15

LEMMA TailSpends ==
    ASSUME NEW j, j.pc = "tail", NEW t, t = j.trades[j.at], t.amt \in Nat,
           NEW paid \in Nat, paid = Value(t) + Fee(t, t.buy, j.order),
           terms[t.buy].side = "BUY", terms[t.sell].side = "SELL", NEW u, NEW c
    PROVE  /\ Spent(j, u, c) \in Nat
           /\ OfKind(terms[t.buy], u, c) => Spent(j, u, c) <= paid
           /\ OfKind(terms[t.sell], u, c) => Spent(j, u, c) <= t.amt
           /\ ~OfKind(terms[t.buy], u, c) /\ ~OfKind(terms[t.sell], u, c) => Spent(j, u, c) = 0
<1>1. /\ OfKind(terms[t.buy], u, c) <=> terms[t.buy].user = u /\ c = "quote"
      /\ OfKind(terms[t.sell], u, c) <=> terms[t.sell].user = u /\ c = "base"
  BY DEF OfKind, LockCurrency
<1> PICK first : first = (IF j.leg > 1 /\ terms[t.buy].user = u /\ c = "quote" THEN paid ELSE 0)
  OBVIOUS
<1> PICK second : second = (IF j.leg > 3 /\ terms[t.sell].user = u /\ c = "base" THEN t.amt ELSE 0)
  OBVIOUS
<1>2. Spent(j, u, c) = first + second
  BY DEF Spent
<1>3. first \in Nat /\ second \in Nat /\ first <= paid /\ second <= t.amt
  OBVIOUS
<1>4. (c # "quote" \/ terms[t.buy].user # u => first = 0) /\ (c # "base" \/ terms[t.sell].user # u => second = 0)
  OBVIOUS
<1> QED
  BY ONLY <1>1, <1>2, <1>3, <1>4

LEMMA SettleTailLimit ==
    ASSUME Calm, NEW p \in Proc, SettleTail(p)
    PROVE  LimitInv'
<1> PICK j : j = job[p]
  OBVIOUS
<1> PICK t : t = j.trades[j.at]
  OBVIOUS
<1> PICK paid : paid = Value(t) + Fee(t, t.buy, j.order)
  OBVIOUS
<1>1. job[p].pc = "tail" /\ AtWork(p, j)
  BY DEF SettleTail, AtWork
<1>2. Common /\ Lim(j) /\ JobTypes /\ OrderTypes /\ FundsTypes
  BY <1>1, AtWorkIs
<1>3. Agreed(t) /\ CurrentTrade(p) = t /\ t.buy \in Claims(j) /\ t.sell \in Claims(j)
  BY Zenon, <1>1, AtTrade
<1>4. /\ t.amt \in Nat /\ t.price \in Price /\ ~Synthetic(t) /\ t.buy \in Order /\ t.sell \in Order
      /\ Plain(terms[t.buy]) /\ Plain(terms[t.sell])
      /\ terms[t.buy].side = "BUY" /\ terms[t.sell].side = "SELL" /\ t.price <= terms[t.buy].price
  BY Zenon, <1>3 DEF Agreed
<1>5. UNCHANGED <<terms, mem, row, lastId, book, updates>>
  BY <1>3, <1>4 DEF SettleTail, engine
<1>6. PICK k \in Job : /\ job' = [job EXCEPT ![p] = k] /\ k.pc \in {"leg", "price"} /\ k.leg = 1
                       /\ k.order = j.order /\ k.trades = j.trades /\ k.out = j.out /\ k.by = j.by
  <2> PICK l : l = IF j.at = Len(j.trades) THEN "price" ELSE "leg"
    OBVIOUS
  <2> PICK n : n = j.at + 1
    OBVIOUS
  <2> PICK k : k = [j EXCEPT !.pc = l, !.at = n, !.leg = 1]
    OBVIOUS
  <2>1. j \in Job /\ l \in {"leg", "price"} /\ n \in Nat
    <3>1. j \in Job
      BY Zenon, <1>2 DEF JobTypes
    <3> QED
      BY <3>1, JobFields
  <2>2. job' = [job EXCEPT ![p].pc = l, ![p].at = @ + 1, ![p].leg = 1]
    BY <1>3, <1>4 DEF SettleTail
  <2>3. job' = [job EXCEPT ![p] = k]
    BY <1>2, <2>1, <2>2 DEF JobTypes, Job
  <2>4. /\ k \in Job /\ k.pc = l /\ k.leg = 1 /\ k.order = j.order /\ k.trades = j.trades
        /\ k.out = j.out /\ k.by = j.by
    BY <2>1 DEF Job
  <2> QED
    BY <2>1, <2>3, <2>4
<1>7. Fit(k) /\ Claims(k) = Claims(j)
  <2>1. Fit(j) /\ j.pc \in Working
    BY <1>1, <1>2 DEF Lim, Working, Inside
  <2>2. k.pc \in {"leg", "tail", "price", "add"}
    BY <1>6
  <2> QED
    BY <1>6, <2>1, <2>2, FitInside
<1>8. \A x \in Order : Alive(k, x)' => Alive(j, x)
  <2>1. \A x : Alive(k, x)' <=> Alive(k, x)
    BY <1>5, Unturned
  <2>2. \A x \in Order : Alive(k, x) => Alive(j, x)
    BY <1>1, <1>7 DEF Alive
  <2> QED
    BY <2>1, <2>2
<1>9. Locked(k)' /\ Funded(k)'
  <2> SUFFICES ASSUME NEW u \in User, NEW c \in Currency
               PROVE  /\ Sum(ClaimsOn(k, u, c)', Order) + Extra(k, u, c) <= lck'[u][c]
                      /\ lck'[u][c] <= bal'[u][c] + Spent(k, u, c)'
    BY ExtraNext DEF Locked, Funded
  <2> DEFINE buys == OfKind(terms[t.buy], u, c)
             sells == OfKind(terms[t.sell], u, c)
  <2> PICK before : before = Sum(ClaimsOn(j, u, c), Order)
    OBVIOUS
  <2> PICK after : after = Sum(ClaimsOn(k, u, c)', Order)
    OBVIOUS
  <2> PICK spent : spent = Spent(j, u, c)
    OBVIOUS
  <2> PICK due : due = Unit(terms[t.buy]) * t.amt
    BY Zenon
  <2>1. /\ paid \in Nat /\ bal'[u][c] = bal[u][c]
        /\ lck'[u][c] = IF buys THEN Left(lck[u][c], paid)
                        ELSE IF sells THEN Left(lck[u][c], t.amt) ELSE lck[u][c]
    BY TailUnlocks
  <2>2. /\ after \in Nat /\ before \in Nat /\ after <= before
        /\ buys => due \in Nat /\ after + due <= before
        /\ sells => after + Unit(terms[t.sell]) * t.amt <= before
    BY Zenon, <1>8, TailClaims
  <2>3. paid <= due
    BY Zenon, <1>4, LockPays
  <2>4. sells => after + t.amt <= before
    <3>1. Unit(terms[t.sell]) = 1
      BY <1>4 DEF Unit
    <3>2. Unit(terms[t.sell]) * t.amt = t.amt
      BY ONLY <1>4, <3>1
    <3> QED
      BY Zenon, <2>2, <3>2
  <2>5. before <= lck[u][c] /\ lck[u][c] \in Nat /\ bal[u][c] \in Nat
    <3>1. Extra(j, u, c) = 0
      BY <1>1 DEF Extra
    <3>2. before + 0 <= lck[u][c]
      BY <1>2, <3>1 DEF Lim, Locked
    <3>3. lck[u][c] \in Nat /\ bal[u][c] \in Nat
      BY LocksAreNat DEF Calm
    <3> QED
      BY ONLY <2>2, <3>2, <3>3
  <2>6. Extra(k, u, c) = 0 /\ Spent(k, u, c)' = 0
    BY <1>6, UnspentZero DEF Extra, Unspent
  <2>7. lck[u][c] <= bal[u][c] + spent
    BY <1>2 DEF Lim, Funded
  <2>8. /\ spent \in Nat /\ (buys => spent <= paid) /\ (sells => spent <= t.amt)
        /\ ~buys /\ ~sells => spent = 0
    <3>1. j.pc = "tail" /\ t.amt \in Nat /\ paid \in Nat /\ terms[t.buy].side = "BUY" /\ terms[t.sell].side = "SELL"
      BY <1>1, <1>4, <2>1
    <3> QED
      BY ONLY <3>1, t = j.trades[j.at], paid = Value(t) + Fee(t, t.buy, j.order), spent = Spent(j, u, c), TailSpends
  <2> PICK m : m = lck[u][c]
    OBVIOUS
  <2> PICK b : b = bal[u][c]
    OBVIOUS
  <2> PICK amt : amt = t.amt
    BY Zenon
  <2>9. after <= lck'[u][c] /\ lck'[u][c] <= b
    <3>1. CASE buys
      <4>1. lck'[u][c] = IF m > paid THEN m - paid ELSE 0
        BY Zenon, <2>1, <3>1 DEF Left
      <4>2. /\ after \in Nat /\ before \in Nat /\ due \in Nat /\ after + due <= before /\ paid \in Nat
            /\ paid <= due /\ before <= m /\ m \in Nat /\ b \in Nat /\ m <= b + spent /\ spent \in Nat
            /\ spent <= paid
        BY <2>1, <2>2, <2>3, <2>5, <2>7, <2>8, <3>1
      <4> QED
        BY ONLY <4>1, <4>2
    <3>2. CASE ~buys /\ sells
      <4>1. lck'[u][c] = IF m > amt THEN m - amt ELSE 0
        BY Zenon, <2>1, <3>2 DEF Left
      <4>2. /\ after \in Nat /\ before \in Nat /\ after + amt <= before /\ amt \in Nat
            /\ before <= m /\ m \in Nat /\ b \in Nat /\ m <= b + spent /\ spent \in Nat /\ spent <= amt
        BY <1>4, <2>2, <2>4, <2>5, <2>7, <2>8, <3>2
      <4> QED
        BY ONLY <4>1, <4>2
    <3>3. CASE ~buys /\ ~sells
      <4>1. lck'[u][c] = m
        BY Zenon, <2>1, <3>3
      <4>2. /\ after \in Nat /\ before \in Nat /\ after <= before /\ before <= m /\ m \in Nat
            /\ b \in Nat /\ m <= b + spent /\ spent = 0
        BY Zenon, <2>2, <2>5, <2>7, <2>8, <3>3
      <4> QED
        BY ONLY <4>1, <4>2
    <3> QED
      BY <3>1, <3>2, <3>3
  <2>10. after + 0 = after /\ b + 0 = b
    BY <2>2, <2>5
  <2>11. Sum(ClaimsOn(k, u, c)', Order) + Extra(k, u, c) <= lck'[u][c]
    BY Zenon, <2>6, <2>9, <2>10
  <2>12. lck'[u][c] <= bal'[u][c] + Spent(k, u, c)'
    BY <2>1, <2>6, <2>9, <2>10
  <2> QED
    BY <2>11, <2>12
<1>10. \A x \in Created : Awaited(j, x) => Awaited(k, x)
  BY <1>1, <1>7 DEF Awaited
<1>11. k.pc # "idle"
  BY <1>6
<1> QED
  BY <1>1, <1>5, <1>6, <1>7, <1>9, <1>10, <1>11, TurnsTo

(* Rows and updates change, and nothing else of the orders.                *)
LEMMA Aside ==
    ASSUME UNCHANGED <<terms, mem, lastId, book>>, NEW k
    PROVE  /\ AllPlain' <=> AllPlain
           /\ Queues' <=> Queues
           /\ Claims(k)' = Claims(k)
           /\ \A x : Rests(x)' <=> Rests(x)
           /\ \A x, v : Good(x, v)' <=> Good(x, v)
           /\ \A x : Alive(k, x)' <=> Alive(k, x)
           /\ \A x : Awaited(k, x)' <=> Awaited(k, x)
<1>1. \A x : Rests(x)' <=> Rests(x)
  BY DEF Rests
<1>2. \A x, v : Good(x, v)' <=> Good(x, v)
  BY <1>1 DEF Good
<1>3. Claims(k)' = Claims(k)
  BY DEF Claims, Parties
<1>4. AllPlain' <=> AllPlain
  BY DEF AllPlain, Created, Plain
<1>5. Queues' <=> Queues
  BY DEF Queues, Sorted, Before, AtLeastAsGood
<1>6. \A x : Alive(k, x)' <=> Alive(k, x)
  BY <1>1, <1>3 DEF Alive
<1>7. \A x : Awaited(k, x)' <=> Awaited(k, x)
  BY <1>3 DEF Awaited
<1> QED
  BY <1>1, <1>2, <1>3, <1>4, <1>5, <1>6, <1>7

(* A goroutine that is neither at a price nor in a trade; nothing is paid. *)
LEMMA FundsStay ==
    ASSUME Calm, NEW j, NEW k, Locked(j), Funded(j), Unspent(j), Unspent(k),
           j.pc # "create", k.pc # "create", UNCHANGED <<bal, lck, terms, settled>>,
           \A x \in Order : Alive(k, x)' => Alive(j, x)
    PROVE  Locked(k)' /\ Funded(k)'
<1>1. Locked(k)'
  BY NoFaults, LockedStays DEF Calm
<1>2. \A u \in User, c \in Currency : lck'[u][c] <= lck[u][c] /\ lck'[u][c] \in Nat
  <2>1. lck' = lck
    OBVIOUS
  <2> QED
    BY <2>1, LocksAreNat DEF Calm
<1>3. Funded(k)'
  BY <1>2, FundedStays DEF Calm
<1> QED
  BY <1>1, <1>3

LEMMA SyncWriteLimit ==
    ASSUME Calm, NEW p \in Proc, SyncWrite(p)
    PROVE  LimitInv'
<1> PICK j : j = job[p]
  OBVIOUS
<1> PICK o : o = j.order
  OBVIOUS
<1> PICK k : k = Idle
  OBVIOUS
<1> PICK seen : seen = j.seen
  OBVIOUS
<1>1. j.pc = "syncWrite" /\ AtWork(p, j)
  BY DEF SyncWrite, AtWork
<1>2. Common /\ Lim(j) /\ JobTypes /\ OrderTypes /\ FundsTypes /\ Alone
  BY <1>1, AtWorkIs
<1>3. o \in Created /\ o \in Order
  BY <1>1, <1>2, ApartFacts DEF Apart, Calm
<1>4. /\ row' = [row EXCEPT ![o] = seen] /\ job' = [job EXCEPT ![p] = k]
      /\ UNCHANGED <<bal, lck, terms, mem, lastId, book, updates, settled>>
  BY DEF SyncWrite, Finish, redis, engine, history
<1>5. k \in Job /\ k.pc = "idle" /\ k.by = "user"
  BY IdleType DEF Idle
<1>6. Good(o, seen)
  BY <1>1, <1>2 DEF Lim, Fit, Reads
<1>7. Claims(j) = {} /\ Claims(k) = {}
  BY <1>1, <1>5 DEF Claims, Inside
<1>8. Fit(k)'
  BY <1>5 DEF Fit, Reads, Steps, Prompt, Working, Inside
<1>9. /\ AllPlain' /\ Queues' /\ \A x, v : Good(x, v)' <=> Good(x, v)
      /\ \A x : Alive(k, x)' <=> Alive(k, x)
  BY <1>2, <1>4, Aside DEF Common
<1>10. UpdatesGood'
  BY <1>2, <1>4, <1>9 DEF Common, UpdatesGood
<1>11. RowsGood(k)'
  <2> SUFFICES ASSUME NEW x \in Created', ~Coming(x)'
               PROVE  Good(x, row[x])'
    BY DEF RowsGood
  <2>1. x \in Created /\ ~Coming(x) /\ ~Awaited(j, x)
    BY <1>1, <1>4, <1>7 DEF Created, Coming, Awaited
  <2>2. Good(x, row[x])
    BY <1>2, <2>1 DEF Lim, RowsGood
  <2>3. row'[x] = IF x = o THEN seen ELSE row[x]
    <3>1. x \in Order /\ row \in [Order -> Progress]
      BY <1>2, <2>1, TradingAssumption DEF OrderTypes, Created, Order
    <3> QED
      BY <1>4, <3>1
  <2> PICK v : v = row'[x]
    OBVIOUS
  <2>4. Good(x, v)
    BY <1>6, <2>2, <2>3
  <2>5. Good(x, v)'
    BY <1>9, <2>4
  <2> QED
    BY <2>5 DEF Good
<1>12. Locked(k)' /\ Funded(k)'
  <2>1. \A x \in Order : Alive(k, x)' => Alive(j, x)
    <3>1. \A x \in Order : Alive(k, x) => Alive(j, x)
      BY <1>1, <1>7 DEF Alive
    <3> QED
      BY <1>9, <3>1
  <2>2. Locked(j) /\ Funded(j) /\ Unspent(j) /\ Unspent(k) /\ j.pc # "create" /\ k.pc # "create"
    BY <1>1, <1>2, <1>5 DEF Lim, Unspent
  <2> QED
    BY <1>4, <2>1, <2>2, FundsStay
<1>13. Lim(k)'
  BY <1>8, <1>11, <1>12 DEF Lim
<1>14. job[p].pc # "idle" /\ (k.pc = "idle" => k = Idle)
  BY <1>1
<1> QED
  BY <1>2, <1>4, <1>5, <1>9, <1>10, <1>13, <1>14, LimitBy

LEMMA CancelAnnounceLimit ==
    ASSUME Calm, NEW p \in Proc, CancelAnnounce(p)
    PROVE  LimitInv'
<1> PICK j : j = job[p]
  OBVIOUS
<1> PICK o : o = j.order
  OBVIOUS
<1> PICK k : k = Idle
  OBVIOUS
<1> PICK e : e = [order |-> o, filled |-> j.seen.filled, status |-> "CANCELLED"]
  OBVIOUS
<1>1. j.pc = "announce" /\ AtWork(p, j)
  BY DEF CancelAnnounce, AtWork
<1>2. Common /\ Lim(j) /\ JobTypes /\ OrderTypes /\ FundsTypes /\ Alone
  BY <1>1, AtWorkIs
<1>3. /\ updates' = Append(updates, e) /\ job' = [job EXCEPT ![p] = k]
      /\ UNCHANGED <<bal, lck, terms, mem, row, lastId, book, settled>>
  BY DEF CancelAnnounce, Finish, redis, orders, engine, history
<1>4. k \in Job /\ k.pc = "idle" /\ k.by = "user"
  BY IdleType DEF Idle
<1>5. ~Rests(o) /\ updates = <<>>
  BY <1>1, <1>2 DEF Lim, Fit, Reads, Prompt
<1>6. Claims(j) = {} /\ Claims(k) = {}
  BY <1>1, <1>4 DEF Claims, Inside
<1>7. Fit(k)'
  BY <1>4 DEF Fit, Reads, Steps, Prompt, Working, Inside
<1>8. /\ AllPlain' /\ Queues' /\ \A x, v : Good(x, v)' <=> Good(x, v)
      /\ \A x : Alive(k, x)' <=> Alive(k, x)
  BY <1>2, <1>3, Aside DEF Common
<1>9. UpdatesGood'
  <2>1. Len(updates') = 1 /\ updates'[1] = e
    BY <1>3, <1>5
  <2> PICK v : v = [filled |-> e.filled, status |-> e.status]
    OBVIOUS
  <2>2. Good(e.order, v)
    BY <1>5 DEF Good
  <2>3. Good(e.order, v)'
    BY <1>8, <2>2
  <2> QED
    BY <2>1, <2>3 DEF UpdatesGood, Good
<1>10. RowsGood(k)'
  <2> SUFFICES ASSUME NEW x \in Created'
               PROVE  Good(x, row[x])'
    BY DEF RowsGood
  <2>1. x \in Created /\ ~Coming(x) /\ ~Awaited(j, x)
    BY <1>1, <1>3, <1>5, <1>6 DEF Created, Coming, Awaited
  <2> PICK v : v = row[x]
    OBVIOUS
  <2>2. Good(x, v)
    BY <1>2, <2>1 DEF Lim, RowsGood
  <2>3. Good(x, v)' /\ row'[x] = v
    BY <1>3, <1>8, <2>2
  <2> QED
    BY <2>3 DEF Good
<1>11. Locked(k)' /\ Funded(k)'
  <2>1. \A x \in Order : Alive(k, x)' => Alive(j, x)
    <3>1. \A x \in Order : Alive(k, x) => Alive(j, x)
      BY <1>1, <1>6 DEF Alive
    <3> QED
      BY <1>8, <3>1
  <2>2. Locked(j) /\ Funded(j) /\ Unspent(j) /\ Unspent(k) /\ j.pc # "create" /\ k.pc # "create"
    BY <1>1, <1>2, <1>4 DEF Lim, Unspent
  <2> QED
    BY <1>3, <2>1, <2>2, FundsStay
<1>12. Lim(k)'
  BY <1>7, <1>10, <1>11 DEF Lim
<1>13. job[p].pc # "idle" /\ (k.pc = "idle" => k = Idle)
  BY <1>1
<1> QED
  BY <1>2, <1>3, <1>4, <1>8, <1>9, <1>12, <1>13, LimitBy

LEMMA CancelSaveLimit ==
    ASSUME Calm, NEW p \in Proc, CancelSave(p)
    PROVE  LimitInv'
<1> PICK j : j = job[p]
  OBVIOUS
<1> PICK o : o = j.order
  OBVIOUS
<1> PICK k : k = [j EXCEPT !.pc = "remove"]
  OBVIOUS
<1> PICK seen : seen = [j.seen EXCEPT !.status = "CANCELLED"]
  OBVIOUS
<1>1. j.pc = "save" /\ AtWork(p, j)
  BY DEF CancelSave, AtWork
<1>2. Common /\ Lim(j) /\ JobTypes /\ OrderTypes /\ FundsTypes /\ Alone
  BY <1>1, AtWorkIs
<1>3. o \in Created /\ o \in Order /\ j.seen \in Progress
  BY <1>1, <1>2, ApartFacts DEF Apart, Calm
<1>4. j.seen = mem[o] /\ Rests(o) /\ updates = <<>> /\ j.by = "user"
  BY <1>1, <1>2 DEF Lim, Fit, Reads, Prompt
<1>5. /\ row' = [row EXCEPT ![o] = seen] /\ job' = [job EXCEPT ![p].pc = "remove"]
      /\ UNCHANGED <<bal, lck, terms, mem, lastId, book, updates, settled>>
  BY <1>4 DEF CancelSave, Goto, redis, engine, history
<1>6. /\ k \in Job /\ k.pc = "remove" /\ job' = [job EXCEPT ![p] = k]
      /\ k.order = o /\ k.by = "user"
  <2>1. "remove" \in Labels
    BY DEF Labels
  <2> QED
    BY <1>2, <1>4, <1>5, <2>1, Relabelled
<1>7. seen.status = "CANCELLED"
  BY <1>3 DEF Progress
<1>8. Claims(j) = {} /\ Claims(k) = {}
  BY <1>1, <1>6 DEF Claims, Inside
<1>9. /\ AllPlain' /\ Queues' /\ \A x, v : Good(x, v)' <=> Good(x, v)
      /\ \A x : Rests(x)' <=> Rests(x)
      /\ \A x : Alive(k, x)' <=> Alive(k, x)
  BY <1>2, <1>5, Aside DEF Common
<1>10. \A x \in Order : row'[x] = IF x = o THEN seen ELSE row[x]
  BY <1>2, <1>5 DEF OrderTypes
<1>11. Fit(k)'
  <2>1. Reads(k)'
    BY <1>3, <1>4, <1>6, <1>7, <1>9, <1>10 DEF Reads
  <2>2. updates' = <<>>
    BY <1>4, <1>5
  <2> QED
    BY <1>6, <2>1, <2>2 DEF Fit, Steps, Prompt, Working, Inside
<1>12. UpdatesGood'
  BY <1>4, <1>5 DEF UpdatesGood
<1>13. RowsGood(k)'
  <2> SUFFICES ASSUME NEW x \in Created', ~Awaited(k, x)'
               PROVE  Good(x, row[x])'
    BY DEF RowsGood
  <2>1. x \in Created /\ x # o
    BY <1>5, <1>6 DEF Created, Awaited
  <2>2. ~Coming(x) /\ ~Awaited(j, x)
    BY <1>1, <1>4, <1>8 DEF Coming, Awaited
  <2> PICK v : v = row[x]
    OBVIOUS
  <2>3. Good(x, v)
    BY <1>2, <2>1, <2>2 DEF Lim, RowsGood
  <2>4. x \in Order
    BY <1>2, <2>1, TradingAssumption DEF OrderTypes, Created, Order
  <2>5. Good(x, v)' /\ row'[x] = v
    BY <1>9, <1>10, <2>1, <2>3, <2>4
  <2> QED
    BY <2>5 DEF Good
<1>14. Locked(k)' /\ Funded(k)'
  <2>1. \A x \in Order : Alive(k, x)' => Alive(j, x)
    <3>1. \A x \in Order : Alive(k, x) => Alive(j, x)
      BY <1>1, <1>6, <1>8 DEF Alive
    <3> QED
      BY <1>9, <3>1
  <2>2. Locked(j) /\ Funded(j) /\ Unspent(j) /\ Unspent(k) /\ j.pc # "create" /\ k.pc # "create"
    BY <1>1, <1>2, <1>6 DEF Lim, Unspent
  <2> QED
    BY <1>5, <2>1, <2>2, FundsStay
<1>15. Lim(k)'
  BY <1>11, <1>13, <1>14 DEF Lim
<1>16. job[p].pc # "idle" /\ k.pc # "idle"
  BY <1>1, <1>6
<1> QED
  BY <1>2, <1>6, <1>9, <1>12, <1>15, <1>16, LimitBy

LEMMA ProjectUpdateLimit ==
    ASSUME Calm, ProjectUpdate
    PROVE  LimitInv'
<1> PICK k : k = Busy
  OBVIOUS
<1> PICK u : u = Head(updates)
  OBVIOUS
<1> PICK new : new = [filled |-> u.filled, status |-> u.status]
  OBVIOUS
<1>1. Common /\ Lim(k)
  BY DEF Calm, LimitInv, Common, Lim
<1>2. OrderTypes
  BY TypeParts DEF Calm
<1>3. /\ updates # <<>> /\ updates' = Tail(updates) /\ row' = [row EXCEPT ![u.order] = new]
      /\ UNCHANGED <<bal, lck, terms, mem, lastId, book, job, settled, here>>
  BY DEF ProjectUpdate, redis, engine, history
<1>4. updates \in Seq(Update) /\ Len(updates) \in Nat \ {0} /\ u = updates[1]
  BY <1>2, <1>3 DEF OrderTypes
<1>5. Len(updates') = Len(updates) - 1 /\ \A i \in 1 .. Len(updates) - 1 : updates'[i] = updates[i + 1]
  BY <1>3, <1>4
<1>6. k.pc \notin Prompt /\ k.pc \in Steps
  BY <1>1, <1>3 DEF Lim, Fit
<1>7. k.pc \in {"idle", "syncRead", "syncWrite"}
  BY <1>6 DEF Prompt, Steps
<1>8. Claims(k) = {}
  BY <1>7 DEF Claims, Inside
<1>9. /\ AllPlain' /\ Queues' /\ \A x, v : Good(x, v)' <=> Good(x, v)
      /\ \A x : Alive(k, x)' <=> Alive(k, x)
  BY <1>1, <1>3, Aside DEF Common
<1>10. Good(u.order, new)
  BY <1>1, <1>4 DEF Common, UpdatesGood
<1>11. UpdatesGood'
  <2> SUFFICES ASSUME NEW i \in 1 .. Len(updates')
               PROVE  Good(updates[i].order, [filled |-> updates[i].filled, status |-> updates[i].status])'
    BY DEF UpdatesGood
  <2> PICK e : e = updates'[i]
    OBVIOUS
  <2> PICK v : v = [filled |-> e.filled, status |-> e.status]
    OBVIOUS
  <2>1. i \in 1 .. Len(updates) - 1 /\ i + 1 \in 1 .. Len(updates)
    BY <1>4, <1>5
  <2>2. e = updates[i + 1]
    BY <1>5, <2>1
  <2>3. Good(e.order, v)
    BY <1>1, <2>1, <2>2 DEF Common, UpdatesGood
  <2>4. Good(e.order, v)'
    BY <1>9, <2>3
  <2> QED
    BY <2>4 DEF Good
<1>12. Fit(k)'
  <2>1. Reads(k)'
    BY <1>1, <1>3, <1>7, <1>9 DEF Lim, Fit, Reads
  <2>2. k.by = "user"
    BY <1>1 DEF Lim, Fit
  <2> QED
    BY <1>7, <2>1, <2>2 DEF Fit, Steps, Prompt, Working, Inside
<1>13. RowsGood(k)'
  <2> SUFFICES ASSUME NEW x \in Created', ~Coming(x)'
               PROVE  Good(x, row[x])'
    BY DEF RowsGood
  <2>1. x \in Created /\ x \in Order /\ ~Awaited(k, x)
    BY <1>2, <1>3, <1>7, <1>8, TradingAssumption DEF Created, Awaited, OrderTypes, Order
  <2>2. u.order \in Order /\ row'[x] = IF x = u.order THEN new ELSE row[x]
    <3>1. u \in Update
      BY <1>4
    <3> QED
      BY <1>2, <1>3, <2>1, <3>1 DEF OrderTypes, Update
  <2> PICK v : v = row'[x]
    OBVIOUS
  <2>3. Good(x, v)
    <3>1. CASE x = u.order
      BY <1>10, <2>2, <3>1
    <3>2. CASE x # u.order
      <4>1. ~Coming(x)
        <5> SUFFICES ASSUME NEW i \in 1 .. Len(updates), updates[i].order = x
                     PROVE  FALSE
          BY DEF Coming
        <5>1. i # 1
          BY <1>4, <3>2
        <5> PICK n : n = i - 1
          OBVIOUS
        <5>2. n \in 1 .. Len(updates) - 1 /\ n + 1 = i
          BY <1>4, <5>1
        <5>3. updates'[n] = updates[i] /\ n \in 1 .. Len(updates')
          BY <1>5, <5>2
        <5> QED
          BY <5>3 DEF Coming
      <4> QED
        BY <1>1, <2>1, <2>2, <3>2, <4>1 DEF Lim, RowsGood
    <3> QED
      BY <3>1, <3>2
  <2>4. Good(x, v)'
    BY <1>9, <2>3
  <2> QED
    BY <2>4 DEF Good
<1>14. Locked(k)' /\ Funded(k)'
  <2>1. \A x \in Order : Alive(k, x)' => Alive(k, x)
    BY <1>9
  <2>2. Locked(k) /\ Funded(k) /\ Unspent(k) /\ k.pc # "create"
    BY <1>1, <1>7 DEF Lim, Unspent
  <2> QED
    BY <1>3, <2>1, <2>2, FundsStay
<1>15. Lim(k)'
  BY <1>12, <1>13, <1>14 DEF Lim
<1>16. \A q \in {Busy} : Lim(q)'
  BY <1>15
<1>17. UNCHANGED <<job, here>>
  BY <1>3
<1> QED
  BY <1>1, <1>9, <1>11, <1>16, <1>17, LimitStill DEF Common

LEMMA CancelRemoveLimit ==
    ASSUME Calm, NEW p \in Proc, CancelRemove(p)
    PROVE  LimitInv'
<1> PICK j : j = job[p]
  OBVIOUS
<1> PICK o : o = j.order
  OBVIOUS
<1> PICK k : k = [j EXCEPT !.pc = "announce"]
  OBVIOUS
<1> PICK s : s = terms[o].side
  OBVIOUS
<1>1. j.pc = "remove" /\ AtWork(p, j)
  BY DEF CancelRemove, AtWork
<1>2. Common /\ Lim(j) /\ JobTypes /\ OrderTypes /\ FundsTypes /\ Alone
  BY <1>1, AtWorkIs
<1>3. o \in Created /\ o \in Order
  BY <1>1, <1>2, ApartFacts DEF Apart, Calm
<1>4. Rests(o) /\ row[o].status = "CANCELLED" /\ updates = <<>> /\ j.by = "user"
  BY <1>1, <1>2 DEF Lim, Fit, Reads, Prompt
<1>5. /\ book' = RemoveOrder(terms, book, o) /\ job' = [job EXCEPT ![p].pc = "announce"]
      /\ UNCHANGED <<bal, lck, terms, mem, row, lastId, updates, settled>>
  BY DEF CancelRemove, Goto, redis, orders, history
<1>6. /\ k \in Job /\ k.pc = "announce" /\ job' = [job EXCEPT ![p] = k]
      /\ k.order = o /\ k.by = "user"
  <2>1. "announce" \in Labels
    BY DEF Labels
  <2> QED
    BY <1>2, <1>4, <1>5, <2>1, Relabelled
<1>7. s \in Side /\ terms \in [Order -> Terms] /\ book \in [Side -> Seq(Order)]
  BY <1>2, <1>3, ReachType DEF OrderTypes, BookType
<1>8. \A side \in Side : /\ book'[side] = IF side = s THEN RemoveFirst(book[side], o) ELSE book[side]
                         /\ Sorted(terms, book[side]) /\ book[side] \in Seq(Order)
  BY <1>2, <1>5, <1>7 DEF RemoveOrder, Common, Queues
<1>9. \A side \in Side : /\ Sorted(terms, book'[side])
                         /\ Range(book'[side]) = IF side = s THEN Range(book[side]) \ {o} ELSE Range(book[side])
  <2> TAKE side \in Side
  <2> PICK q : q = book[side]
    OBVIOUS
  <2>1. q \in Seq(Order) /\ Sorted(terms, q) /\ terms \in [Order -> Terms]
    BY <1>7, <1>8
  <2>2. Sorted(terms, RemoveFirst(q, o)) /\ Range(RemoveFirst(q, o)) = Range(q) \ {o}
    BY ONLY <1>3, <2>1, RemoveSorted
  <2> QED
    BY <1>8, <2>1, <2>2
<1>10. \A x : Rests(x)' <=> Rests(x) /\ x # o
  <2>1. \A side \in Side : o \in Range(book[side]) => side = s
    BY DEF Calm, Shape, BookSound
  <2>2. \A x : Rests(x)' <=> \E side \in Side : x \in Range(book'[side])
    BY DEF Rests, Range
  <2> QED
    BY <1>9, <2>1, <2>2 DEF Rests
<1>11. Queues'
  BY <1>5, <1>9 DEF Queues
<1>12. AllPlain'
  BY <1>2, <1>5 DEF Common, AllPlain, Created, Plain
<1>13. UpdatesGood'
  BY <1>4, <1>5 DEF UpdatesGood
<1>14. Claims(j) = {} /\ Claims(k) = {} /\ Claims(k)' = {}
  BY <1>1, <1>6 DEF Claims, Inside
<1>15. Fit(k)'
  <2>1. Reads(k)'
    BY <1>6, <1>10 DEF Reads
  <2>2. updates' = <<>>
    BY <1>4, <1>5
  <2> QED
    BY <1>6, <2>1, <2>2 DEF Fit, Steps, Prompt, Working, Inside
<1>16. RowsGood(k)'
  <2> SUFFICES ASSUME NEW x \in Created'
               PROVE  Good(x, row[x])'
    BY DEF RowsGood
  <2>1. x \in Created /\ ~Coming(x)
    BY <1>4, <1>5 DEF Created, Coming
  <2>2. CASE x = o
    <3>1. ~Rests(x)' /\ row'[x].status = "CANCELLED"
      BY <1>4, <1>5, <1>10, <2>2
    <3> QED
      BY <3>1 DEF Good
  <2>3. CASE x # o
    <3>1. ~Awaited(j, x)
      BY <1>14, <2>3 DEF Awaited
    <3>2. Good(x, row[x])
      BY <1>2, <2>1, <3>1 DEF Lim, RowsGood
    <3> QED
      BY <1>5, <1>10, <2>3, <3>2 DEF Good
  <2> QED
    BY <2>2, <2>3
<1>17. Locked(k)' /\ Funded(k)'
  <2>1. \A x \in Order : Alive(k, x)' => Alive(j, x)
    <3>1. \A x : Alive(k, x)' => Rests(x)'
      BY <1>14 DEF Alive
    <3> QED
      BY <1>1, <1>10, <3>1 DEF Alive
  <2>2. Locked(j) /\ Funded(j) /\ Unspent(j) /\ Unspent(k) /\ j.pc # "create" /\ k.pc # "create"
    BY <1>1, <1>2, <1>6 DEF Lim, Unspent
  <2> QED
    BY <1>5, <2>1, <2>2, FundsStay
<1>18. Lim(k)'
  BY <1>15, <1>16, <1>17 DEF Lim
<1>19. job[p].pc # "idle" /\ k.pc # "idle"
  BY <1>1, <1>6
<1> QED
  BY <1>2, <1>6, <1>11, <1>12, <1>13, <1>18, <1>19, LimitBy

LEMMA PublishUpdatesLimit ==
    ASSUME Calm, NEW p \in Proc, PublishUpdates(p)
    PROVE  LimitInv'
<1> PICK j : j = job[p]
  OBVIOUS
<1> PICK o : o = j.order
  OBVIOUS
<1> PICK k : k = [Idle EXCEPT !.pc = "syncRead", !.order = o]
  OBVIOUS
<1> PICK out : out = j.out
  OBVIOUS
<1>1. j.pc = "publish" /\ AtWork(p, j)
  BY DEF PublishUpdates, AtWork
<1>2. Common /\ Lim(j) /\ JobTypes /\ OrderTypes /\ FundsTypes /\ Alone
  BY <1>1, AtWorkIs
<1>3. j \in Job /\ Sound(j)
  BY <1>2 DEF Calm, Shape, JobsSound, JobTypes
<1>4. o \in Created /\ o \in Order /\ Created \subseteq Order /\ Claims(j) \subseteq Created
  <2>1. o \in Created
    BY <1>1, <1>3 DEF Sound
  <2>2. Created \subseteq Order
    BY <1>2, TradingAssumption DEF OrderTypes, Created, Order
  <2>3. Claims(j) \subseteq Created
    BY <1>2, <1>3, ClaimsCreated
  <2> QED
    BY <2>1, <2>2, <2>3
<1>5. updates = <<>> /\ j.by = "user" /\ Fates(j) /\ Announces(j)
  BY <1>1, <1>2 DEF Lim, Fit, Prompt, Inside
<1>6. /\ updates' = updates \o Append(out, UpdateFor(mem, o)) /\ job' = [job EXCEPT ![p] = k]
      /\ UNCHANGED <<bal, lck, terms, mem, row, lastId, book, settled>>
  BY DEF PublishUpdates, redis, orders
<1>7. out \in Seq(Update) /\ mem \in [Order -> Progress]
  BY <1>2, <1>3, JobFields DEF OrderTypes
<1>8. UpdateFor(mem, o) \in Update
  BY <1>4, <1>7 DEF UpdateFor, Update, Progress
<1>9. /\ Len(updates') = Len(out) + 1 /\ Len(out) \in Nat
      /\ \A i \in 1 .. Len(out) : updates'[i] = out[i]
      /\ updates'[Len(out) + 1] = UpdateFor(mem, o)
  <2> PICK e : e = UpdateFor(mem, o)
    OBVIOUS
  <2> PICK all : all = Append(out, e)
    OBVIOUS
  <2>1. all \in Seq(Update) /\ Len(out) \in Nat
    BY <1>7, <1>8
  <2>2. updates' = all
    BY <1>5, <1>6, <2>1
  <2>3. /\ Len(all) = Len(out) + 1 /\ all[Len(out) + 1] = e
        /\ \A i \in 1 .. Len(out) : all[i] = out[i]
    BY <1>7, <1>8, Appended
  <2> QED
    BY <2>1, <2>2, <2>3
<1>10. o \in Claims(j)
  BY <1>1 DEF Claims, Inside
<1>11. \A x \in Claims(j) : Good(x, mem[x])
  BY <1>1, <1>5 DEF Fates, Good
<1>12. k \in Job /\ k.pc = "syncRead" /\ k.order = o /\ k.by = "user"
  BY <1>4, IdleType DEF Job, Idle
<1>13. Claims(k) = {}
  BY <1>12 DEF Claims, Inside
<1>14. /\ AllPlain' /\ Queues' /\ \A x, v : Good(x, v)' <=> Good(x, v)
       /\ \A x : Alive(k, x)' <=> Alive(k, x)
  BY <1>2, <1>6, Aside DEF Common
<1>15. Fit(k)'
  <2>1. Good(o, mem[o])
    BY <1>10, <1>11
  <2> PICK v : v = mem[o]
    OBVIOUS
  <2>2. Good(o, v)' /\ mem'[o] = v
    BY <1>6, <1>14, <2>1
  <2>3. Reads(k)'
    BY <1>12, <2>2 DEF Reads
  <2> QED
    BY <1>12, <2>3 DEF Fit, Steps, Prompt, Working, Inside
<1>16. \A i \in 1 .. Len(updates') : /\ updates'[i].order \in Claims(j)
                                     /\ updates'[i] = UpdateFor(mem, updates'[i].order)
  <2> TAKE i \in 1 .. Len(updates')
  <2>1. CASE i \in 1 .. Len(out)
    BY <1>5, <1>9, <2>1 DEF Announces
  <2>2. CASE i = Len(out) + 1
    <3>1. updates'[i] = UpdateFor(mem, o)
      BY <1>9, <2>2
    <3>2. UpdateFor(mem, o).order = o
      BY DEF UpdateFor
    <3> QED
      BY <1>10, <3>1, <3>2
  <2> QED
    BY <1>9, <2>1, <2>2
<1>17. UpdatesGood'
  <2> SUFFICES ASSUME NEW i \in 1 .. Len(updates')
               PROVE  Good(updates[i].order, [filled |-> updates[i].filled, status |-> updates[i].status])'
    BY DEF UpdatesGood
  <2> PICK e : e = updates'[i]
    OBVIOUS
  <2> PICK x : x = e.order
    OBVIOUS
  <2>1. x \in Claims(j) /\ e = UpdateFor(mem, x)
    BY <1>16
  <2>2. [filled |-> e.filled, status |-> e.status] = mem[x]
    BY <1>4, <1>7, <2>1 DEF UpdateFor, Progress
  <2> PICK v : v = [filled |-> e.filled, status |-> e.status]
    OBVIOUS
  <2>3. Good(x, v)
    BY <1>11, <2>1, <2>2
  <2>4. Good(x, v)'
    BY <1>14, <2>3
  <2> QED
    BY <2>4 DEF Good
<1>18. RowsGood(k)'
  <2> SUFFICES ASSUME NEW x \in Created', ~Coming(x)'
               PROVE  Good(x, row[x])'
    BY DEF RowsGood
  <2>1. x # o
    <3>1. Len(out) + 1 \in 1 .. Len(updates')
      BY <1>9
    <3>2. updates'[Len(out) + 1].order = o
      BY <1>9 DEF UpdateFor
    <3> QED
      BY <3>1, <3>2 DEF Coming
  <2>2. x \notin Claims(j)
    <3> SUFFICES ASSUME x \in Claims(j) PROVE FALSE
      OBVIOUS
    <3>1. PICK i \in 1 .. Len(out) : out[i].order = x
      BY <1>5, <2>1 DEF Announces
    <3>2. i \in 1 .. Len(updates') /\ updates'[i].order = x
      BY <1>9, <3>1
    <3> QED
      BY <3>2 DEF Coming
  <2>3. x \in Created /\ ~Coming(x) /\ ~Awaited(j, x)
    BY <1>1, <1>5, <1>6, <2>2 DEF Created, Coming, Awaited
  <2> PICK v : v = row[x]
    OBVIOUS
  <2>4. Good(x, v)
    BY <1>2, <2>3 DEF Lim, RowsGood
  <2>5. Good(x, v)' /\ row'[x] = v
    BY <1>6, <1>14, <2>4
  <2> QED
    BY <2>5 DEF Good
<1>19. Locked(k)' /\ Funded(k)'
  <2>1. \A x \in Order : Alive(k, x)' => Alive(j, x)
    <3>1. \A x \in Order : Alive(k, x) => Rests(x)
      BY <1>13 DEF Alive
    <3>2. \A x \in Order : Rests(x) => Alive(j, x)
      BY <1>1 DEF Alive
    <3> QED
      BY <1>14, <3>1, <3>2
  <2>2. Locked(j) /\ Funded(j) /\ Unspent(j) /\ Unspent(k) /\ j.pc # "create" /\ k.pc # "create"
    BY <1>1, <1>2, <1>12 DEF Lim, Unspent
  <2> QED
    BY <1>6, <2>1, <2>2, FundsStay
<1>20. Lim(k)'
  BY <1>15, <1>18, <1>19 DEF Lim
<1>21. job[p].pc # "idle" /\ k.pc # "idle"
  BY <1>1, <1>12
<1> QED
  BY <1>2, <1>6, <1>12, <1>14, <1>17, <1>20, <1>21, LimitBy

LEMMA RestOrderLimit ==
    ASSUME Calm, NEW p \in Proc, RestOrder(p)
    PROVE  LimitInv'
<1> PICK j : j = job[p]
  OBVIOUS
<1> PICK o : o = j.order
  OBVIOUS
<1> PICK k : k = [j EXCEPT !.pc = "publish"]
  OBVIOUS
<1> PICK s : s = terms[o].side
  OBVIOUS
<1>1. j.pc = "add" /\ AtWork(p, j)
  BY DEF RestOrder, AtWork
<1>2. Common /\ Lim(j) /\ JobTypes /\ OrderTypes /\ FundsTypes /\ Alone
  BY <1>1, AtWorkIs
<1>3. j \in Job /\ Sound(j)
  BY <1>2 DEF Calm, Shape, JobsSound, JobTypes
<1>4. o \in Created /\ o \in Order /\ Created \subseteq Order /\ lastId \in Nat
  <2>1. o \in Created
    BY <1>1, <1>3 DEF Sound
  <2>2. Created \subseteq Order /\ lastId \in Nat
    BY <1>2, TradingAssumption DEF OrderTypes, Created, Order
  <2> QED
    BY <2>1, <2>2
<1>5. Plain(terms[o])
  BY <1>2, <1>4 DEF Common, AllPlain
<1>6. /\ updates = <<>> /\ j.by = "user" /\ o = lastId /\ ~Rests(o)
      /\ Dealing(j) /\ Fates(j) /\ Announces(j)
  BY <1>1, <1>2 DEF Lim, Fit, Prompt, Working, Inside
<1>7. /\ job' = [job EXCEPT ![p].pc = "publish"]
      /\ UNCHANGED <<bal, lck, terms, mem, row, lastId, updates, settled>>
      /\ book' = IF IsFilled(terms, mem, o) THEN book ELSE AddOrder(terms, book, o)
  BY <1>5 DEF RestOrder, Goto, redis, orders, history, Plain
<1>8. /\ k \in Job /\ k.pc = "publish" /\ job' = [job EXCEPT ![p] = k]
      /\ k.order = o /\ k.by = "user" /\ k.trades = j.trades /\ k.out = j.out
  <2>1. "publish" \in Labels
    BY DEF Labels
  <2>2. /\ k \in Job /\ k.pc = "publish" /\ job' = [job EXCEPT ![p] = k]
        /\ k.order = j.order /\ k.by = j.by /\ k.trades = j.trades /\ k.out = j.out
    BY <1>2, <1>7, <2>1, Relabelled
  <2> QED
    BY <1>6, <2>2
<1>9. s \in Side /\ terms \in [Order -> Terms] /\ book \in [Side -> Seq(Order)] /\ mem \in [Order -> Progress]
  BY <1>2, <1>4, ReachType DEF OrderTypes, BookType
<1>10. \A side \in Side : /\ Sorted(terms, book'[side])
                          /\ Range(book'[side]) = IF side = s /\ ~IsFilled(terms, mem, o)
                                                  THEN Range(book[side]) \cup {o} ELSE Range(book[side])
  <2> TAKE side \in Side
  <2> PICK q : q = book[side]
    OBVIOUS
  <2>1. q \in Seq(Order) /\ Sorted(terms, q) /\ terms \in [Order -> Terms]
    BY Zenon, <1>2, <1>9 DEF Common, Queues
  <2>2. CASE side = s /\ ~IsFilled(terms, mem, o)
    <3>1. \A r \in Range(q) : terms[r].side = terms[o].side /\ r < o
      <4> TAKE r \in Range(q)
      <4>1. r \in Created /\ terms[r].side = side
        BY DEF Calm, Shape, BookSound
      <4>2. r # o
        BY <1>6 DEF Rests
      <4>3. r \in 1 .. lastId /\ r # lastId /\ o = lastId
        BY <1>6, <4>1, <4>2 DEF Created
      <4>4. r < o
        BY ONLY <1>4, <4>3
      <4> QED
        BY <2>2, <4>1, <4>4
    <3> PICK all : all = InsertAt(q, Ahead(terms, q, o) + 1, o)
      OBVIOUS
    <3>2. Sorted(terms, all) /\ Range(all) = Range(q) \cup {o}
      BY ONLY <1>4, <2>1, <3>1, all = InsertAt(q, Ahead(terms, q, o) + 1, o), InsertSorted
    <3>3. book'[side] = all
      BY <1>7, <1>9, <2>2 DEF AddOrder
    <3> QED
      BY <2>2, <3>2, <3>3
  <2>3. CASE ~(side = s /\ ~IsFilled(terms, mem, o))
    <3>1. book'[side] = q
      BY <1>7, <1>9, <2>3 DEF AddOrder
    <3> QED
      BY <2>1, <2>3, <3>1
  <2> QED
    BY <2>2, <2>3
<1>11. \A x : Rests(x)' <=> Rests(x) \/ (x = o /\ ~IsFilled(terms, mem, o))
  <2>1. \A x : Rests(x)' <=> \E side \in Side : x \in Range(book'[side])
    BY DEF Rests, Range
  <2> QED
    BY <1>9, <1>10, <2>1 DEF Rests
<1>12. Queues'
  BY <1>7, <1>10 DEF Queues
<1>13. AllPlain'
  BY <1>2, <1>7 DEF Common, AllPlain, Created, Plain
<1>14. UpdatesGood'
  BY <1>6, <1>7 DEF UpdatesGood
<1>15. Claims(k) = Claims(j) /\ Claims(k)' = Claims(k) /\ o \in Claims(j)
  BY <1>1, <1>8 DEF Claims, Inside, Parties
<1>16. Dealing(k)'
  <2>1. Dealing(k)
    BY <1>6, <1>8 DEF Dealing
  <2> QED
    BY <1>7, <2>1 DEF Dealing, Reached, AtLeastAsGood, TradeOf, Opposite, Created
<1>17. Fates(k)'
  <2> SUFFICES ASSUME NEW x \in Claims(j)
               PROVE  Rests(x)' \/ mem[x].status = "FILLED"
    BY <1>7, <1>15 DEF Fates
  <2>1. CASE x = o
    <3>1. CASE IsFilled(terms, mem, o)
      <4>1. ~(Remaining(terms, mem, o) > 0)
        <5>1. mem[o].filled \in Int /\ terms[o].amount \in Int /\ mem[o].filled >= terms[o].amount
          BY <1>4, <1>9, <3>1 DEF IsFilled, Progress, Terms
        <5> QED
          BY <5>1 DEF Remaining
      <4> QED
        BY <1>6, <2>1, <4>1 DEF Fates
    <3>2. CASE ~IsFilled(terms, mem, o)
      BY <1>11, <2>1, <3>2
    <3> QED
      BY <3>1, <3>2
  <2>2. CASE x # o
    BY <1>6, <1>11, <2>2 DEF Fates
  <2> QED
    BY <2>1, <2>2
<1>18. Announces(k)'
  <2>1. Announces(k)
    BY <1>6, <1>8, <1>15 DEF Announces
  <2>2. \A x : UpdateFor(mem, x)' = UpdateFor(mem, x)
    BY <1>7 DEF UpdateFor
  <2> QED
    BY <1>7, <1>15, <2>1 DEF Announces, UpdateFor
<1>19. Fit(k)'
  <2>1. Reads(k)'
    BY <1>8 DEF Reads
  <2>2. updates' = <<>>
    BY <1>6, <1>7
  <2> QED
    BY <1>8, <1>16, <1>17, <1>18, <2>1, <2>2 DEF Fit, Steps, Prompt, Working, Inside
<1>20. RowsGood(k)'
  <2> SUFFICES ASSUME NEW x \in Created', ~Awaited(k, x)'
               PROVE  Good(x, row[x])'
    BY DEF RowsGood
  <2>1. x \in Created /\ ~Coming(x) /\ x \notin Claims(j) /\ x # o
    BY <1>6, <1>7, <1>15 DEF Created, Coming, Awaited
  <2>2. ~Awaited(j, x)
    BY <1>1, <2>1 DEF Awaited
  <2>3. Good(x, row[x])
    BY <1>2, <2>1, <2>2 DEF Lim, RowsGood
  <2> QED
    BY <1>7, <1>11, <2>1, <2>3 DEF Good
<1>21. Locked(k)' /\ Funded(k)'
  <2>1. \A x \in Order : Alive(k, x)' => Alive(j, x)
    BY <1>1, <1>11, <1>15 DEF Alive
  <2>2. Locked(j) /\ Funded(j) /\ Unspent(j) /\ Unspent(k) /\ j.pc # "create" /\ k.pc # "create"
    BY <1>1, <1>2, <1>8 DEF Lim, Unspent
  <2> QED
    BY <1>7, <2>1, <2>2, FundsStay
<1>22. Lim(k)'
  BY <1>19, <1>20, <1>21 DEF Lim
<1>23. job[p].pc # "idle" /\ k.pc # "idle"
  BY <1>1, <1>8
<1> QED
  BY <1>2, <1>8, <1>12, <1>13, <1>14, <1>22, <1>23, LimitBy

LEMMA CreateOrderLimit ==
    ASSUME Calm, NEW p \in Proc, CreateOrder(p)
    PROVE  LimitInv'
<1> PICK j : j = job[p]
  OBVIOUS
<1> PICK n : n = lastId + 1
  OBVIOUS
<1> PICK t : t = j.what
  OBVIOUS
<1> PICK k : k = [Idle EXCEPT !.pc = "match", !.order = n]
  OBVIOUS
<1>1. j.pc = "create" /\ AtWork(p, j)
  BY DEF CreateOrder, AtWork
<1>2. Common /\ Lim(j) /\ JobTypes /\ OrderTypes /\ FundsTypes /\ Alone
  BY <1>1, AtWorkIs
<1>3. /\ lastId' = n
      /\ terms' = [terms EXCEPT ![n] = t]
      /\ mem' = [mem EXCEPT ![n].status = "OPEN"]
      /\ row' = [row EXCEPT ![n].status = "OPEN"]
      /\ job' = [job EXCEPT ![p] = k]
      /\ UNCHANGED <<bal, lck, book, updates, settled>>
  BY NoFaults DEF CreateOrder, Calm, redis, engine, history
<1>4. n \in Order /\ n \in Nat /\ n > lastId /\ n \notin Created /\ lastId \in Nat
  <2>1. /\ IsFiniteSet(Creating) /\ p \in Creating /\ lastId + Cardinality(Creating) <= here.orders
    BY <1>1, CreatingFinite DEF Creating, Calm, Shape, Numbered
  <2>2. Cardinality(Creating) \in Nat /\ Cardinality(Creating \ {p}) = Cardinality(Creating) - 1
        /\ Cardinality(Creating \ {p}) \in Nat
    BY <2>1, FS_RemoveElement, FS_CardinalityType
  <2> QED
    BY <1>2, <2>1, <2>2, SituationFields DEF Order, Created
<1>5. Plain(t) /\ t \in Terms /\ t.amount \in Nat /\ j.by = "user" /\ updates = <<>>
  <2>1. j \in Job
    BY <1>2 DEF JobTypes
  <2>2. t \in Terms
    BY <2>1, JobFields
  <2> QED
    BY <1>1, <1>2, <2>2 DEF Lim, Fit, Prompt, Terms
<1>6. k \in Job /\ k.pc = "match" /\ k.order = n /\ k.by = "user" /\ k.trades = <<>>
  BY <1>4, IdleType DEF Job, Idle
<1>7. /\ \A x \in Order : terms'[x] = IF x = n THEN t ELSE terms[x]
      /\ \A x \in Order \ {n} : mem'[x] = mem[x] /\ row'[x] = row[x]
  BY <1>2, <1>3, <1>4, <1>5 DEF OrderTypes
<1>8. /\ Created' = Created \cup {n} /\ Created \subseteq Order
  BY <1>2, <1>3, <1>4, TradingAssumption DEF OrderTypes, Created, Order
<1>9. \A x : (Rests(x)' <=> Rests(x)) /\ (Rests(x) => x \in Created)
  BY <1>3 DEF Rests, Calm, Shape, BookSound
<1>10. Claims(j) = {} /\ Claims(k) = {n} /\ Claims(k)' = {n}
  <2>1. Claims(j) = {}
    BY <1>1 DEF Claims, Inside
  <2>2. Range(k.trades) = {}
    BY <1>6 DEF Range
  <2> QED
    BY <1>6, <2>1, <2>2 DEF Claims, Inside
<1>11. AllPlain'
  <2> SUFFICES ASSUME NEW x \in Created'
               PROVE  Plain(terms'[x])
    BY DEF AllPlain, Plain
  <2>1. CASE x = n
    BY <1>4, <1>5, <1>7, <2>1
  <2>2. CASE x # n
    <3>1. x \in Created /\ x \in Order
      BY <1>8, <2>2
    <3> QED
      BY <1>2, <1>7, <2>2, <3>1 DEF Common, AllPlain
  <2> QED
    BY <2>1, <2>2
<1>12. Queues'
  <2> SUFFICES ASSUME NEW side \in Side
               PROVE  Sorted(terms', book[side])
    BY <1>3 DEF Queues
  <2>1. book[side] \in Seq(Order)
    BY <1>2 DEF OrderTypes, BookType
  <2>2. \A i \in 1 .. Len(book[side]) : terms'[book[side][i]] = terms[book[side][i]]
    <3> TAKE i \in 1 .. Len(book[side])
    <3> PICK x : x = book[side][i]
      OBVIOUS
    <3>1. x \in Order /\ x \in Range(book[side])
      BY <2>1 DEF Range
    <3>2. x \in Created
      BY <1>9, <3>1 DEF Rests
    <3>3. x # n
      BY <1>4, <3>2
    <3> QED
      BY <1>7, <3>1, <3>3
  <2> QED
    BY <1>2, <2>2 DEF Common, Queues, Sorted, Before
<1>13. UpdatesGood'
  BY <1>3, <1>5 DEF UpdatesGood
<1>14. Fit(k)'
  <2>1. Reads(k)'
    BY <1>6 DEF Reads
  <2>2. updates' = <<>> /\ lastId' = n /\ ~Rests(n)'
    BY <1>3, <1>4, <1>5, <1>9
  <2> QED
    BY <1>6, <2>1, <2>2 DEF Fit, Steps, Prompt, Working, Inside
<1>15. RowsGood(k)'
  <2> SUFFICES ASSUME NEW x \in Created', ~Awaited(k, x)'
               PROVE  Good(x, row[x])'
    BY DEF RowsGood
  <2>1. x # n
    BY <1>10 DEF Awaited
  <2>2. x \in Created /\ x \in Order /\ ~Coming(x) /\ ~Awaited(j, x)
    BY <1>1, <1>5, <1>8, <1>10, <2>1 DEF Coming, Awaited
  <2>3. Good(x, row[x])
    BY <1>2, <2>2 DEF Lim, RowsGood
  <2>4. mem'[x] = mem[x] /\ row'[x] = row[x]
    BY <1>7, <2>1, <2>2
  <2> QED
    BY <1>9, <2>3, <2>4 DEF Good
<1>16. Locked(k)'
  <2> SUFFICES ASSUME NEW u \in User, NEW c \in Currency
               PROVE  Sum(ClaimsOn(k, u, c)', Order) + Extra(k, u, c) <= lck'[u][c]
    BY ExtraNext DEF Locked
  <2> PICK f : f = ClaimsOn(j, u, c)
    OBVIOUS
  <2> PICK g : g = ClaimsOn(k, u, c)'
    OBVIOUS
  <2> PICK e : e = Extra(j, u, c)
    OBVIOUS
  <2>1. \A x \in Order : f[x] \in Nat
    BY ClaimType, NoFaults DEF Calm
  <2>2. \A x \in Order : g[x] = IF OfKind(terms'[x], u, c) /\ Alive(k, x)'
                                THEN LockFor(terms'[x], terms'[x].amount - settled[x]) ELSE 0
    BY <1>3, ClaimNext
  <2>3. \A x \in Order : f[x] = IF OfKind(terms[x], u, c) /\ Alive(j, x)
                                THEN LockFor(terms[x], terms[x].amount - settled[x]) ELSE 0
    BY ClaimNow
  <2>4. \A x \in Order : (Alive(k, x)' <=> Rests(x) \/ x = n) /\ (Alive(j, x) <=> Rests(x))
    BY <1>1, <1>6, <1>9, <1>10 DEF Alive
  <2>5. \A x \in Order \ {n} : g[x] = f[x]
    BY <1>7, <2>2, <2>3, <2>4
  <2>6. f[n] = 0
    <3>1. ~Alive(j, n)
      BY <1>4, <1>9, <2>4
    <3> QED
      BY <1>4, <2>3, <3>1
  <2>7. g[n] = e /\ e \in Nat
    <3>1. settled[n] = 0 /\ terms'[n] = t /\ Alive(k, n)'
      BY <1>4, <1>7, <2>4 DEF Calm, Shape, Numbered
    <3>2. t.amount - settled[n] = t.amount
      BY <1>5, <3>1
    <3>3. g[n] = IF OfKind(t, u, c) THEN LockFor(t, t.amount) ELSE 0
      BY <1>4, <2>2, <3>1, <3>2
    <3>4. e = IF OfKind(t, u, c) THEN LockFor(t, t.amount) ELSE 0
      BY <1>1 DEF Extra
    <3>5. LockFor(t, t.amount) \in Nat
      BY <1>5, LockForType DEF Plain
    <3> QED
      BY <3>3, <3>4, <3>5
  <2> PICK d : d = -e
    OBVIOUS
  <2>8. d \in Int /\ g[n] + d <= f[n]
    BY <2>6, <2>7
  <2>9. \A x \in Order : g[x] \in Nat /\ g[x] \in Int /\ f[x] \in Int
    BY <2>1, <2>5, <2>7
  <2>10. \A x \in Order \ {n} : g[x] <= f[x]
    BY <2>5, <2>9
  <2>11. Sum(g, Order) + d <= Sum(f, Order)
    BY ONLY <1>4, <2>8, <2>9, <2>10, OrdersFinite, SumDrops
  <2>12. Sum(g, Order) \in Nat /\ Sum(f, Order) \in Nat
    BY <2>1, <2>9, OrdersFinite, SumNat
  <2>13. Sum(f, Order) + e <= lck[u][c]
    BY <1>2 DEF Lim, Locked
  <2>14. Extra(k, u, c) = 0 /\ lck'[u][c] = lck[u][c] /\ lck[u][c] \in Nat
    BY <1>3, <1>6, LocksAreNat DEF Extra, Calm
  <2> QED
    BY ONLY <2>7, <2>11, <2>12, <2>13, <2>14, d = -e, g = ClaimsOn(k, u, c)'
<1>17. Funded(k)'
  <2>1. Funded(j) /\ Unspent(j) /\ Unspent(k)
    BY <1>1, <1>2, <1>6 DEF Lim, Unspent
  <2>2. \A u \in User, c \in Currency : lck'[u][c] <= lck[u][c] /\ lck'[u][c] \in Nat
    <3>1. lck' = lck
      BY <1>3
    <3> QED
      BY <3>1, LocksAreNat DEF Calm
  <2> QED
    BY <1>3, <2>1, <2>2, FundedStays DEF Calm
<1>18. Lim(k)'
  BY <1>14, <1>15, <1>16, <1>17 DEF Lim
<1>19. job[p].pc # "idle" /\ k.pc # "idle"
  BY <1>1, <1>6
<1> QED
  BY <1>2, <1>3, <1>6, <1>11, <1>12, <1>13, <1>18, <1>19, LimitBy

LEMMA HalfOf ==
    ASSUME NEW i \in Nat \ {0}
    PROVE  /\ (2 * i - 1 + 1) \div 2 = i /\ (2 * i - 1) % 2 = 1
           /\ (2 * i + 1) \div 2 = i /\ (2 * i) % 2 = 0
OBVIOUS

(* Each party of each trade has an update.                                 *)
LEMMA UpdatesReach ==
    ASSUME NEW m, NEW trades \in Seq(Trade), AllMet(trades), NEW i \in 1 .. Len(trades),
           NEW x \in Parties(trades[i])
    PROVE  \E j \in 1 .. 2 * Len(trades) : UpdatesOf(trades, m)[j].order = x
<1> PICK n : n = Len(trades)
  OBVIOUS
<1> PICK t : t = trades[i]
  OBVIOUS
<1>1. n \in Nat /\ i \in Nat \ {0} /\ i <= n
  BY TradeFields
<1>2. x = t.buy \/ x = t.sell
  BY DEF Parties
<1> PICK s : s = UpdatesOf(trades, m)
  OBVIOUS
<1>3. \A j \in 1 .. 2 * n : (j + 1) \div 2 = i =>
         s[j] = UpdateFor(m, IF j % 2 = 1 THEN t.buy ELSE t.sell)
  BY DEF UpdatesOf
<1>4. CASE x = t.buy
  <2> PICK j : j = 2 * i - 1
    OBVIOUS
  <2>1. j \in 1 .. 2 * n
    BY <1>1
  <2>2. (j + 1) \div 2 = i /\ j % 2 = 1
    BY <1>1, HalfOf
  <2>3. s[j] = UpdateFor(m, x)
    BY <1>3, <1>4, <2>1, <2>2
  <2> QED
    BY <2>1, <2>3 DEF UpdateFor
<1>5. CASE x = t.sell
  <2> PICK j : j = 2 * i
    OBVIOUS
  <2>1. j \in 1 .. 2 * n
    BY <1>1
  <2>2. (j + 1) \div 2 = i /\ j % 2 = 0
    BY <1>1, HalfOf
  <2>3. s[j] = UpdateFor(m, x)
    BY <1>3, <1>5, <2>1, <2>2
  <2> QED
    BY <2>1, <2>3 DEF UpdateFor
<1> QED
  BY <1>2, <1>4, <1>5

(* What ProcessOrder does to the queue of the other side.                  *)
LEMMA OrderTakes ==
    ASSUME Calm, NEW p \in Proc, job[p].pc = "match", NEW o, o = job[p].order,
           NEW q, q = book[Opposite(terms[o].side)], NEW m, m = Match(terms, mem, book, o)
    PROVE  /\ Taken(terms, mem, o, q, Len(q), m) /\ Sorted(terms, q) /\ q \in Seq(Order)
           /\ m \in Acc /\ o \in Created /\ o \in Order /\ ~Rests(o)
           /\ \A x \in Range(q) : x \in Created /\ x \in Order /\ x # o /\ Rests(x)
                                  /\ terms[x].side = Opposite(terms[o].side)
           /\ Opposite(terms[o].side) \in Side
<1> PICK opp : opp = Opposite(terms[o].side)
  OBVIOUS
<1>1. FundsTypes /\ OrderTypes /\ JobTypes
  BY TypeParts DEF Calm
<1>2. /\ o \in Created /\ o \in Order /\ mem[o].filled = 0 /\ ~Rests(o)
      /\ opp \in Side /\ q \in Seq(Order) /\ o \notin Range(q) /\ m \in Acc
      /\ \A r \in Range(q) : r \in Created /\ r \in Order /\ terms[r].side = opp
  BY <1>1, MatchFacts DEF Calm
<1>3. Common
  BY Serving DEF Calm
<1>4. Sorted(terms, q)
  BY <1>2, <1>3 DEF Common, Queues
<1>5. \A x \in Order : mem[x].filled <= terms[x].amount
  BY DEF Calm, Shape, RowsWithin
<1>6. Remaining(terms, mem, o) > 0
  <2>1. terms[o].amount \in Nat \ {0}
    BY <1>2, <1>3, TradingAssumption DEF Common, AllPlain, Plain
  <2> QED
    BY <1>2, <2>1 DEF Remaining
<1>7. terms \in [Order -> Terms] /\ mem \in [Order -> Progress]
  BY <1>1 DEF OrderTypes
<1>8. Taken(terms, mem, o, q, Len(q), Match(terms, mem, book, o))
  BY ONLY <1>2, <1>4, <1>5, <1>6, <1>7, q = book[Opposite(terms[o].side)], MatchTakes
<1> QED
  BY <1>2, <1>4, <1>8 DEF Rests

LEMMA MatchOrderLimit ==
    ASSUME Calm, NEW p \in Proc, MatchOrder(p)
    PROVE  LimitInv'
<1> PICK j, o : j = job[p] /\ o = j.order
  OBVIOUS
<1> PICK opp : opp = Opposite(terms[o].side)
  OBVIOUS
<1> PICK q : q = book[opp]
  OBVIOUS
<1> PICK m : m = Match(terms, mem, book, o)
  OBVIOUS
<1> PICK trades, out, next :
      trades = m.trades /\ out = UpdatesOf(trades, m.mem) /\ next = IF trades = <<>> THEN "price" ELSE "leg"
  OBVIOUS
<1> PICK k : k = [j EXCEPT !.pc = next, !.trades = trades, !.at = 1, !.leg = 1, !.out = out]
  OBVIOUS
<1>1. j.pc = "match" /\ AtWork(p, j)
  BY DEF MatchOrder, AtWork
<1>2. Common /\ Lim(j) /\ JobTypes /\ OrderTypes /\ FundsTypes /\ Alone
  BY <1>1, AtWorkIs
<1>3. /\ Taken(terms, mem, o, q, Len(q), m) /\ q \in Seq(Order)
      /\ m \in Acc /\ o \in Created /\ o \in Order /\ ~Rests(o)
      /\ \A x \in Range(q) : x \in Created /\ x \in Order /\ x # o /\ Rests(x) /\ terms[x].side = opp
      /\ opp \in Side
  BY <1>1, OrderTakes
<1>4. /\ mem' = m.mem /\ book' = [book EXCEPT ![opp] = m.rest]
      /\ UNCHANGED <<bal, lck, terms, row, lastId, updates, settled>>
  BY DEF MatchOrder, redis, history
<1>5. m.mem \in [Order -> Progress] /\ trades \in Seq(Trade) /\ m.rest \in Seq(Order)
  BY <1>3 DEF Acc
<1>6. updates = <<>> /\ j.by = "user" /\ o = lastId
  BY Zenon, <1>1, <1>2 DEF Lim, Fit, Prompt
<1>7. /\ Len(q) \in Nat /\ Len(trades) \in Nat /\ \A i \in 1 .. Len(q) : q[i] \in Range(q)
      /\ \A x \in Range(q) : \E i \in 1 .. Len(q) : x = q[i]
  <2>1. q \in Seq(Order) /\ trades \in Seq(Trade)
    BY <1>3, <1>5
  <2>2. Len(q) \in Nat /\ \A i \in 1 .. Len(q) : q[i] \in Range(q)
    BY ONLY <2>1 DEF Range
  <2>3. \A x \in Range(q) : \E i \in 1 .. Len(q) : x = q[i]
    BY ONLY <2>1 DEF Range
  <2> QED
    BY <2>1, <2>2, <2>3, TradeFields
<1>29. /\ \A x \in Range(m.rest) : \E n \in 1 .. Len(q) : x = q[n]
       /\ \A n \in 1 .. Len(q) : \/ m.mem[q[n]] = mem[q[n]] /\ q[n] \in Range(m.rest)
                                 \/ \E i \in 1 .. Len(trades) : q[n] \in Parties(trades[i])
       /\ \A i \in 1 .. Len(trades) : \E n \in 1 .. Len(q) :
             Crosses(terms, o, q[n]) /\ trades[i] = TradeOf(terms, o, q[n], trades[i].amt)
  <2>1. Taken(terms, mem, o, q, Len(q), m) /\ trades = m.trades
    BY Zenon, <1>3
  <2> QED
    BY ONLY <2>1 DEF Taken
<1>8. ASSUME NEW i \in 1 .. Len(trades)
      PROVE  \E r \in Range(q) : /\ Crosses(terms, o, r) /\ trades[i] = TradeOf(terms, o, r, trades[i].amt)
                                 /\ Parties(trades[i]) = {o, r} /\ ~Synthetic(trades[i])
  <2>1. PICK n \in 1 .. Len(q) : Crosses(terms, o, q[n]) /\ trades[i] = TradeOf(terms, o, q[n], trades[i].amt)
    BY Zenon, <1>29
  <2> PICK r : r = q[n]
    OBVIOUS
  <2>2. r \in Range(q) /\ r \in Order
    BY <1>3, <1>7
  <2> PICK qty : qty = trades[i].amt
    OBVIOUS
  <2>3. Parties(TradeOf(terms, o, r, qty)) = {o, r} /\ ~Synthetic(TradeOf(terms, o, r, qty))
    BY ONLY <1>3, <2>2, PartiesOfTrade
  <2>4. Crosses(terms, o, r) /\ trades[i] = TradeOf(terms, o, r, qty)
    BY <2>1
  <2> QED
    BY Zenon, <2>2, <2>3, <2>4
<1>9. AllMet(trades)
  BY <1>8 DEF AllMet
<1>10. Tells(out, trades, m.mem) /\ out \in Seq(Update)
  <2> PICK after : after = m.mem
    OBVIOUS
  <2>1. after \in [Order -> Progress]
    BY <1>5
  <2>2. Tells(UpdatesOf(trades, after), trades, after)
    BY <1>5, <1>9, <2>1, UpdatesOfType
  <2> QED
    BY <2>2 DEF Tells
<1>11. /\ k \in Job /\ k.pc = next /\ k.order = o /\ k.by = "user" /\ k.trades = trades
       /\ k.leg = 1 /\ k.out = out
  <2>1. j \in Job /\ next \in Labels
    BY <1>2 DEF JobTypes, Labels
  <2>2. k \in Job
    BY Zenon, <1>5, <1>10, <2>1, StartJob
  <2>3. k.pc = next /\ k.order = j.order /\ k.by = j.by /\ k.trades = trades /\ k.leg = 1 /\ k.out = out
    BY <2>1 DEF Job
  <2> QED
    BY <1>6, <2>2, <2>3
<1>12. job' = [job EXCEPT ![p] = k]
  BY <1>2 DEF MatchOrder, JobTypes
<1>13. next \in {"price", "leg"}
  OBVIOUS
<1>14. /\ \A x : x \in Claims(k) <=> x = o \/ \E i \in 1 .. Len(trades) : x \in Parties(trades[i])
       /\ Claims(k)' = Claims(k) /\ Claims(j) = {o} \cup UNION {Parties(t) : t \in Range(j.trades)}
  <2>1. Claims(k) = {o} \cup UNION {Parties(t) : t \in Range(trades)}
    BY <1>11, <1>13 DEF Claims, Inside
  <2>2. \A t : t \in Range(trades) <=> \E i \in 1 .. Len(trades) : t = trades[i]
    BY <1>5 DEF Range
  <2>3. Claims(k)' = Claims(k)
    BY DEF Claims, Parties
  <2>4. Claims(j) = {o} \cup UNION {Parties(t) : t \in Range(j.trades)}
    BY <1>1 DEF Claims
  <2> QED
    BY <2>1, <2>2, <2>3, <2>4
<1>15. \A x \in Claims(k) : x = o \/ x \in Range(q)
  <2> SUFFICES ASSUME NEW x \in Claims(k), x # o
               PROVE  x \in Range(q)
    OBVIOUS
  <2>1. PICK i \in 1 .. Len(trades) : x \in Parties(trades[i])
    BY <1>14
  <2>2. PICK r \in Range(q) : Parties(trades[i]) = {o, r}
    BY <1>8
  <2> QED
    BY <2>1, <2>2
<1>16. /\ \A side \in Side : book'[side] = IF side = opp THEN m.rest ELSE book[side]
       /\ \A x : Rests(x)' <=> \E side \in Side : x \in Range(book'[side])
       /\ Range(m.rest) \subseteq Range(q)
  <2>1. book \in [Side -> Seq(Order)]
    BY <1>2 DEF OrderTypes, BookType
  <2>2. \A x : Rests(x)' <=> \E side \in Side : x \in Range(book'[side])
    BY Zenon DEF Rests, Range
  <2>3. \A x \in Range(m.rest) : x \in Range(q)
    <3> TAKE x \in Range(m.rest)
    <3>1. PICK n \in 1 .. Len(q) : x = q[n]
      BY Zenon, <1>29
    <3> QED
      BY <1>7, <3>1
  <2> QED
    BY <1>3, <1>4, <2>1, <2>2, <2>3
<1>17. /\ \A x : Rests(x)' => Rests(x)
       /\ \A x : Rests(x) /\ ~Rests(x)' => x \in Range(q) /\ x \notin Range(m.rest)
       /\ \A x \in Range(m.rest) : Rests(x)'
  BY <1>3, <1>16 DEF Rests
<1>18. Queues'
  <2>1. Sorted(terms, m.rest)
    BY <1>3 DEF Taken
  <2> QED
    BY Zenon, <1>2, <1>4, <1>16, <2>1 DEF Common, Queues
<1>19. AllPlain'
  BY <1>2, <1>4 DEF Common, AllPlain, Created, Plain
<1>20. UpdatesGood'
  BY <1>4, <1>6 DEF UpdatesGood
<1>21. Dealing(k)'
  <2> SUFFICES ASSUME NEW i \in 1 .. Len(trades)
               PROVE  \E r \in Created : /\ terms[r].side = opp /\ Reached(o, r)
                                         /\ trades[i] = TradeOf(terms, o, r, trades[i].amt)
    BY <1>4, <1>11 DEF Dealing, Reached, AtLeastAsGood, TradeOf, Opposite, Created
  <2>1. PICK r \in Range(q) : Crosses(terms, o, r) /\ trades[i] = TradeOf(terms, o, r, trades[i].amt)
    BY <1>8
  <2>2. r \in Created /\ terms[r].side = opp
    BY <1>3
  <2>3. terms[o].type = "LIMIT"
    BY <1>2, <1>3 DEF Common, AllPlain, Plain
  <2>4. Reached(o, r)
    BY <2>1, <2>3 DEF Crosses, Reached
  <2> QED
    BY Zenon, <2>1, <2>2, <2>4
<1>22. Fates(k)'
  <2> SUFFICES ASSUME NEW x \in Claims(k)
               PROVE  Rests(x)' \/ m.mem[x].status = "FILLED" \/ (x = o /\ Remaining(terms, m.mem, x) > 0)
    BY <1>4, <1>11, <1>13, <1>14 DEF Fates, Remaining
  <2>1. CASE x = o
    BY <1>3, <2>1 DEF Taken
  <2>2. CASE x \in Range(q)
    <3>1. PICK n \in 1 .. Len(q) : x = q[n]
      BY Zenon, <1>7, <2>2
    <3>2. x \in Range(m.rest) \/ m.mem[x].status = "FILLED"
      BY Zenon, <1>3, <3>1 DEF Taken
    <3> QED
      BY Zenon, <1>17, <3>2
  <2> QED
    BY <1>15, <2>1, <2>2
<1>23. Announces(k)'
  <2>1. ASSUME NEW n \in 1 .. Len(out)
        PROVE  out[n].order \in Claims(k) /\ out[n] = UpdateFor(m.mem, out[n].order)
    <3>1. PICK i \in 1 .. Len(trades) : \E x \in Parties(trades[i]) : out[n] = UpdateFor(m.mem, x)
      BY <1>10 DEF Tells
    <3>2. PICK x \in Parties(trades[i]) : out[n] = UpdateFor(m.mem, x)
      BY <3>1
    <3>3. out[n].order = x
      BY <3>2 DEF UpdateFor
    <3> QED
      BY <1>14, <3>2, <3>3
  <2>2. ASSUME NEW x \in Claims(k) \ {o}
        PROVE  \E n \in 1 .. Len(out) : out[n].order = x
    <3>1. PICK i \in 1 .. Len(trades) : x \in Parties(trades[i])
      BY <1>14
    <3>2. \E n \in 1 .. 2 * Len(trades) : UpdatesOf(trades, m.mem)[n].order = x
      BY ONLY Zenon, <1>5, <1>9, <3>1, UpdatesReach
    <3>3. Len(out) = 2 * Len(trades)
      BY <1>10 DEF Tells
    <3> QED
      BY <3>2, <3>3
  <2>3. \A x \in Claims(k) \ {o} : \E n \in 1 .. Len(out) : out[n].order = x
    BY <2>2
  <2>4. \A n \in 1 .. Len(out) : out[n].order \in Claims(k) /\ out[n] = UpdateFor(mem', out[n].order)
    BY <1>4, <2>1
  <2>5. k.out = out /\ k.order = o /\ Claims(k)' = Claims(k)
    BY Zenon, <1>11, <1>14
  <2>6. /\ \A n \in 1 .. Len(k.out) : k.out[n].order \in Claims(k)' /\ k.out[n] = UpdateFor(mem', k.out[n].order)
        /\ \A x \in Claims(k)' \ {k.order} : \E n \in 1 .. Len(k.out) : k.out[n].order = x
    BY <2>3, <2>4, <2>5
  <2> QED
    BY <2>6 DEF Announces, UpdateFor
<1>24. Fit(k)'
  <2>1. Reads(k)'
    BY <1>11, <1>13 DEF Reads
  <2>2. updates' = <<>> /\ lastId' = o /\ ~Rests(o)'
    BY <1>3, <1>4, <1>6, <1>17
  <2> QED
    BY <1>11, <1>13, <1>21, <1>22, <1>23, <2>1, <2>2 DEF Fit, Steps, Prompt, Working, Inside
<1>25. RowsGood(k)'
  <2> SUFFICES ASSUME NEW x \in Created', ~Awaited(k, x)'
               PROVE  Good(x, row[x])'
    BY DEF RowsGood
  <2>1. x \in Created /\ x \in Order /\ x \notin Claims(k) /\ x # o
    <3>1. x \in Created /\ x \notin Claims(k)
      BY <1>4, <1>14 DEF Created, Awaited
    <3> QED
      BY <1>2, <1>14, <3>1, TradingAssumption DEF OrderTypes, Created, Order
  <2>2. mem'[x] = mem[x] /\ (Rests(x)' <=> Rests(x))
    <3>1. CASE x \in Range(q)
      <4>1. PICK n \in 1 .. Len(q) : x = q[n]
        BY Zenon, <1>7, <3>1
      <4>2. \A i \in 1 .. Len(trades) : q[n] \notin Parties(trades[i])
        BY <1>14, <2>1, <4>1
      <4>3. m.mem[x] = mem[x] /\ x \in Range(m.rest)
        <5>1. \/ m.mem[q[n]] = mem[q[n]] /\ q[n] \in Range(m.rest)
              \/ \E i \in 1 .. Len(trades) : q[n] \in Parties(trades[i])
          BY ONLY <1>29, n \in 1 .. Len(q)
        <5> QED
          BY ONLY <4>1, <4>2, <5>1
      <4> QED
        BY Zenon, <1>4, <1>17, <4>3
    <3>2. CASE x \notin Range(q)
      <4>1. \A n \in 1 .. Len(q) : q[n] # x
        BY <1>7, <3>2
      <4>2. m.mem[x] = mem[x]
        BY Zenon, <1>3, <2>1, <4>1 DEF Taken
      <4> QED
        BY Zenon, <1>4, <1>17, <3>2, <4>2
    <3> QED
      BY <3>1, <3>2
  <2>3. x \notin Claims(j)
    <3>1. j.trades = <<>>
      BY <1>1, <1>2 DEF Calm, Shape, JobsSound, Sound
    <3>2. Range(j.trades) = {}
      BY <3>1 DEF Range
    <3> QED
      BY <1>14, <2>1, <3>2
  <2>4. ~Coming(x) /\ ~Awaited(j, x)
    BY <1>1, <1>6, <2>3 DEF Coming, Awaited
  <2>5. Good(x, row[x])
    BY <1>2, <2>1, <2>4 DEF Lim, RowsGood
  <2> QED
    BY <1>4, <2>2, <2>5 DEF Good
<1>26. Locked(k)' /\ Funded(k)'
  <2>1. \A x \in Order : Alive(k, x)' => Alive(j, x)
    <3> SUFFICES ASSUME NEW x \in Order, Rests(x)' \/ x \in Claims(k)
                 PROVE  Alive(j, x)
      BY Zenon, <1>14 DEF Alive
    <3>1. Rests(x) \/ x = o
      BY <1>3, <1>15, <1>17
    <3> QED
      BY <1>1, <1>14, <3>1 DEF Alive
  <2>2. Locked(j) /\ Funded(j) /\ Unspent(j) /\ Unspent(k) /\ j.pc # "create" /\ k.pc # "create"
    BY <1>1, <1>2, <1>11, <1>13 DEF Lim, Unspent
  <2> QED
    BY <1>4, <2>1, <2>2, FundsStay
<1>27. Lim(k)'
  BY <1>24, <1>25, <1>26 DEF Lim
<1>28. job[p].pc # "idle" /\ k.pc # "idle"
  BY <1>1, <1>11, <1>13
<1> QED
  BY <1>2, <1>11, <1>12, <1>18, <1>19, <1>20, <1>27, <1>28, LimitBy

(* No step changes what a behaviour is about.                              *)
LEMMA HereStays ==
    ASSUME Next
    PROVE  here' = here
<1>1. ASSUME NEW p \in Proc, Arrive(p)
      PROVE  here' = here
  BY <1>1 DEF Arrive, PlaceOrder, CancelUserOrder, CancelOrder, history
<1>2. ASSUME NEW p \in Proc, Serve(p)
      PROVE  here' = here
  <2>1. CASE CreateOrder(p) \/ MatchOrder(p) \/ SettleLeg(p)
    BY <2>1 DEF CreateOrder, MatchOrder, SettleLeg, history
  <2>2. CASE LegFails(p) \/ UndoLeg(p) \/ SettleTail(p)
    BY <2>2 DEF LegFails, UndoLeg, SettleTail, history
  <2>3. CASE FillAtMarket(p) \/ NoMarketFill(p) \/ RestOrder(p) \/ PublishUpdates(p)
    BY <2>3 DEF FillAtMarket, NoMarketFill, RestOrder, PublishUpdates, history
  <2>4. CASE SyncRead(p) \/ SyncWrite(p) \/ RollbackTrades(p) \/ FailOrder(p)
    BY <2>4 DEF SyncRead, SyncWrite, RollbackTrades, FailOrder, history
  <2>5. CASE CancelUnlock(p) \/ CancelSave(p) \/ CancelRemove(p) \/ CancelAnnounce(p)
    BY <2>5 DEF CancelUnlock, CancelSave, CancelRemove, CancelAnnounce, history
  <2> QED
    BY <1>2, <2>1, <2>2, <2>3, <2>4, <2>5 DEF Serve
<1>3. ProjectUpdate \/ Others \/ Restart => here' = here
  BY DEF ProjectUpdate, Others, OtherDebit, Restart, history
<1> QED
  BY Zenon, <1>1, <1>2, <1>3 DEF Next

(* A limit order's settlement does not fail, so nothing is rolled back.    *)
LEMMA ServeLimit ==
    ASSUME Calm, NEW p \in Proc, Serve(p)
    PROVE  LimitInv'
<1> PICK j : j = job[p]
  OBVIOUS
<1>1. j.pc # "idle" => j.pc \in Steps /\ Common /\ OrderTypes
  <2>1. j.pc # "idle" => AtWork(p, j)
    BY DEF AtWork
  <2> QED
    BY <2>1, AtWorkIs DEF Lim, Fit
<1>2. CASE LegFails(p)
  <2>1. job[p].pc = "leg"
    BY <1>2 DEF LegFails
  <2> PICK l : l = CurrentLegs(p)[job[p].leg]
    OBVIOUS
  <2>2. ~CanApply(l.user, l.cur, l.delta)
    BY <1>2, NoFaults DEF LegFails, Calm
  <2> QED
    BY <2>1, <2>2, LegGoes
<1>3. CASE FillAtMarket(p)
  <2> PICK o : o = j.order
    OBVIOUS
  <2>1. j.pc = "price" /\ terms[o].type = "MARKET"
    BY <1>3 DEF FillAtMarket
  <2>2. o \in Created
    BY <2>1 DEF Calm, Shape, JobsSound, Sound
  <2>3. Plain(terms[o])
    BY <1>1, <2>1, <2>2 DEF Common, AllPlain
  <2> QED
    BY <2>1, <2>3 DEF Plain
<1>4. CASE UndoLeg(p) \/ RollbackTrades(p) \/ FailOrder(p)
  BY <1>1, <1>4 DEF UndoLeg, RollbackTrades, FailOrder, Steps, Prompt
<1> QED
  BY <1>2, <1>3, <1>4, CreateOrderLimit, MatchOrderLimit, SettleLegLimit, SettleTailLimit,
     NoMarketFillLimit, RestOrderLimit, PublishUpdatesLimit, SyncReadLimit, SyncWriteLimit,
     CancelUnlockLimit, CancelSaveLimit, CancelRemoveLimit, CancelAnnounceLimit DEF Serve

LEMMA NextLimit ==
    ASSUME TypeOK, Shape, SettledInv, LimitInv, [Next]_vars
    PROVE  LimitInv'
<1>1. here' = here
  <2>1. CASE UNCHANGED vars
    BY <2>1 DEF vars, history
  <2>2. CASE Next
    BY <2>2, HereStays
  <2> QED
    BY <2>1, <2>2
<1>2. CASE ~OnlyLimits
  BY <1>1, <1>2 DEF LimitInv, OnlyLimits, Orderly, Faultless, Faults
<1>3. CASE OnlyLimits
  <2>1. Calm
    BY <1>3 DEF Calm
  <2>2. ASSUME NEW p \in Proc, Arrive(p)
        PROVE  LimitInv'
    <3>1. "admin" \notin Faults
      BY <1>3, NoFaults
    <3> QED
      BY <2>1, <2>2, <3>1, PlaceLimit, CancelLimit DEF Arrive, CancelUserOrder
  <2>3. ASSUME NEW p \in Proc, Serve(p)
        PROVE  LimitInv'
    BY <2>1, <2>3, ServeLimit
  <2>4. CASE ProjectUpdate
    BY <2>1, <2>4, ProjectUpdateLimit
  <2>5. ~Others /\ ~Restart
    BY <1>3, NoFaults DEF Others, OtherDebit, Restart, OnlyLimits, Orderly, Faultless
  <2>6. CASE UNCHANGED vars
    <3> PICK k : k = Busy
      OBVIOUS
    <3>1. /\ UNCHANGED <<terms, mem, row, lastId, book, updates, job, here>>
          /\ UNCHANGED <<bal, lck, settled>>
      BY <2>6 DEF vars, redis, orders, engine, history
    <3>2. Common /\ Lim(k)
      BY <1>3 DEF LimitInv, Common, Lim
    <3>3. /\ Fit(k)' /\ RowsGood(k)' /\ (AllPlain /\ Queues /\ UpdatesGood)'
          /\ \A x : Alive(k, x)' <=> Alive(k, x)
      BY <3>1, <3>2, Unturned DEF Common, Lim
    <3>4. Locked(k)' /\ Funded(k)'
      BY <3>1, <3>2, <3>3 DEF Lim, Locked, Funded, ClaimsOn, Claim, OfKind, Extra, Spent, Alive,
                              Value, Fee, LockFor, LockCurrency
    <3>5. \A q \in {Busy} : Lim(q)'
      BY <3>3, <3>4 DEF Lim
    <3> QED
      BY <3>1, <3>2, <3>3, <3>5, LimitStill
  <2> QED
    BY <2>2, <2>3, <2>4, <2>5, <2>6 DEF Next
<1> QED
  BY <1>2, <1>3

LEMMA InitLimit == Init => LimitInv
<1> SUFFICES ASSUME Init
             PROVE  LimitInv
  OBVIOUS
<1> PICK k : k = Idle
  OBVIOUS
<1>1. AllIdle /\ Alone /\ Busy = k
  <2>1. \A p \in Proc : job[p].pc = "idle"
    BY IdleType DEF Init
  <2> QED
    BY <2>1 DEF AllIdle, Alone, Busy
<1>2. /\ lastId = 0 /\ updates = <<>> /\ book = EmptyBook /\ Created = {}
      /\ \A u \in User, c \in Currency : lck[u][c] = 0 /\ bal[u][c] \in Nat
  <2>1. here.funds \in [Currency -> Nat]
    BY SituationAssumption DEF Init
  <2>2. \A u \in User, c \in Currency : lck[u][c] = 0 /\ bal[u][c] = here.funds[c]
    BY TradingAssumption DEF Init, Account
  <2>3. lastId = 0 /\ updates = <<>> /\ book = EmptyBook
    BY DEF Init
  <2>4. Created = {}
    BY <2>3 DEF Created
  <2>5. \A u \in User, c \in Currency : lck[u][c] = 0 /\ bal[u][c] \in Nat
    BY <2>1, <2>2
  <2> QED
    BY <2>3, <2>4, <2>5
<1>3. k.pc = "idle" /\ k.by = "user"
  BY DEF Idle
<1>4. AllPlain /\ UpdatesGood /\ RowsGood(k)
  BY <1>2 DEF AllPlain, UpdatesGood, RowsGood
<1>5. \A side \in Side : book[side] = <<>> /\ Range(book[side]) = {}
  <2>1. \A side \in Side : book[side] = <<>>
    BY <1>2 DEF EmptyBook
  <2>2. Range(<<>>) = {}
    BY DEF Range
  <2> QED
    BY <2>1, <2>2
<1>6. Queues
  BY <1>5 DEF Queues, Sorted
<1>7. Fit(k)
  BY <1>3 DEF Fit, Reads, Steps, Prompt, Working, Inside
<1>8. Locked(k)
  <2> SUFFICES ASSUME NEW u \in User, NEW c \in Currency
               PROVE  Sum(ClaimsOn(k, u, c), Order) + Extra(k, u, c) <= lck[u][c]
    BY DEF Locked
  <2> PICK f : f = ClaimsOn(k, u, c)
    OBVIOUS
  <2>1. \A x : ~Alive(k, x)
    BY <1>3, <1>5 DEF Alive, Claims, Inside, Rests
  <2>2. \A x \in Order : f[x] = 0
    BY <2>1, ClaimNow
  <2>3. Sum(f, Order) = 0
    BY <2>2, OrdersFinite, SumZero
  <2>4. Extra(k, u, c) = 0
    BY <1>3 DEF Extra
  <2> QED
    BY <1>2, <2>3, <2>4
<1>9. Funded(k)
  <2>1. \A u, c : Spent(k, u, c) = 0
    BY <1>3 DEF Spent
  <2> QED
    BY <1>2, <2>1 DEF Funded
<1> QED
  BY <1>1, <1>4, <1>6, <1>7, <1>8, <1>9 DEF LimitInv

LEMMA LimitAlways == Spec => []LimitInv
BY InitLimit, NextLimit, Shapely, SettledAlways, PTL DEF Spec

LEMMA RestsIs == \A x : x \in Resting <=> Rests(x)
<1>1. \A x : x \in Resting <=> x \in Range(book["BUY"]) \/ x \in Range(book["SELL"])
  BY DEF Resting, Bids, Asks, Range
<1> QED
  BY <1>1 DEF Rests, Side

(* Among LIMIT orders, with nothing under way, the rows of resting orders  *)
(* are what the engine holds, and every row that can be cancelled is an    *)
(* order that rests: whatever was matched, settled, rested and cancelled,  *)
(* by events of the order and by what the handlers write themselves.       *)
THEOREM TableFollowsBook == Spec => []RowsFollowBook
<1>1. TypeOK /\ Shape /\ LimitInv => RowsFollowBook
  <2> SUFFICES ASSUME TypeOK, Shape, LimitInv, OnlyLimits, Quiescent
               PROVE  /\ \A o \in Resting : row[o] = mem[o]
                      /\ \A o \in OpenRows : o \in Resting
    BY DEF RowsFollowBook
  <2> PICK k : k = Idle
    OBVIOUS
  <2>1. AllIdle /\ updates = <<>> /\ k.pc = "idle"
    BY DEF Quiescent, Idle
  <2>2. RowsGood(k)
    BY <2>1, Waiting DEF Lim
  <2>3. \A x : ~Coming(x) /\ ~Awaited(k, x)
    BY <2>1 DEF Coming, Awaited, Claims, Inside
  <2>4. \A x \in Created : Good(x, row[x])
    BY <2>2, <2>3 DEF RowsGood
  <2>5. \A x : Rests(x) => x \in Created
    BY DEF Rests, Shape, BookSound
  <2> QED
    BY <2>4, <2>5, RestsIs DEF Good, OpenRows, Created
<1> QED
  BY <1>1, Shapely, LimitAlways, PTL

(* Among LIMIT orders, between requests, what a customer has locked covers *)
(* whatever of the orders still rests, at their own prices and with the    *)
(* allowance for fees, and the balance covers what is locked: neither      *)
(* settling at better prices nor cancelling releases another order's lock. *)
THEOREM LocksCoverOrders == Spec => []RestingIsBacked
<1>1. TypeOK /\ Shape /\ SettledInv /\ LimitInv /\ FilledIsSettled => RestingIsBacked
  <2> SUFFICES ASSUME TypeOK, Shape, SettledInv, LimitInv, FilledIsSettled, OnlyLimits, Quiescent,
                      NEW u \in User, NEW c \in Currency
               PROVE  Needs(u, c) <= lck[u][c] /\ lck[u][c] <= bal[u][c]
    BY DEF RestingIsBacked
  <2> PICK k : k = Idle
    OBVIOUS
  <2> PICK g : g = ClaimsOn(k, u, c)
    OBVIOUS
  <2> PICK f : f = [o \in Order |-> LockFor(terms[o], Remaining(terms, mem, o))]
    OBVIOUS
  <2>1. AllIdle /\ k.pc = "idle" /\ Surviving
    BY NoFaults DEF Quiescent, Idle
  <2>2. Locked(k) /\ Funded(k)
    BY <2>1, Waiting DEF Lim
  <2>3. Extra(k, u, c) = 0 /\ Spent(k, u, c) = 0
    BY <2>1 DEF Extra, Spent
  <2>4. \A x \in Order : mem[x].filled = settled[x]
    <3>1. mutex = None
      BY <2>1, TypeParts DEF AllIdle, Shape, OneInside, OrderTypes, Inside
    <3> QED
      BY <2>1, <3>1 DEF FilledIsSettled
  <2>5. \A x : Alive(k, x) <=> x \in Resting
    BY <2>1, RestsIs DEF Alive, Claims, Inside
  <2>6. \A x \in Order : g[x] \in Nat
    BY <2>1, ClaimType
  <2>7. \A x \in Order : g[x] = IF x \in RestingOf(u, c) THEN f[x] ELSE 0
    <3> TAKE x \in Order
    <3>1. g[x] = IF OfKind(terms[x], u, c) /\ Alive(k, x)
                 THEN LockFor(terms[x], terms[x].amount - settled[x]) ELSE 0
      BY ClaimNow
    <3>2. f[x] = LockFor(terms[x], terms[x].amount - settled[x])
      BY <2>4 DEF Remaining
    <3> QED
      BY <2>5, <3>1, <3>2 DEF RestingOf, OfKind
  <2>8. RestingOf(u, c) \in SUBSET Order
    <3>1. \A x : Rests(x) => x \in Order
      BY TypeParts, TradingAssumption DEF Rests, Shape, BookSound, OrderTypes, Created, Order
    <3> QED
      BY <3>1, RestsIs DEF RestingOf
  <2>9. \A x \in RestingOf(u, c) : f[x] \in Int
    BY <2>6, <2>7, <2>8
  <2>10. Sum(f, RestingOf(u, c)) = Sum(g, Order)
    BY <2>7, <2>8, <2>9, OrdersFinite, SumFilter
  <2>11. Sum(g, Order) \in Nat
    BY <2>6, OrdersFinite, SumNat
  <2>12. Sum(g, Order) + 0 <= lck[u][c] /\ lck[u][c] <= bal[u][c] + 0
    BY <2>2, <2>3 DEF Locked, Funded
  <2>13. lck[u][c] \in Nat /\ bal[u][c] \in Nat
    BY LocksAreNat
  <2>14. Needs(u, c) = Sum(g, Order)
    BY <2>10 DEF Needs
  <2> QED
    BY ONLY <2>11, <2>12, <2>13, <2>14
<1> QED
  BY <1>1, Shapely, SettledAlways, LimitAlways, FilledAsSettled, PTL

(* The orders of a queue an order hits are the best of it.                 *)
LEMMA HitsBest ==
    ASSUME Calm, NEW p \in Proc, MatchOrder(p),
           NEW o, o = job[p].order, NEW opp, opp = Opposite(terms[o].side),
           NEW r \in Range(book[opp]), mem'[r].filled > mem[r].filled,
           NEW s \in Range(book[opp]), ~(mem'[s].filled > mem[s].filled),
           Remaining(terms, mem', s) > 0
    PROVE  /\ AtLeastAsGood(opp, terms[r].price, terms[s].price)
           /\ terms[r].price = terms[s].price => r < s
<1> PICK q : q = book[opp]
  OBVIOUS
<1> PICK m : m = Match(terms, mem, book, o)
  OBVIOUS
<1>1. job[p].pc = "match" /\ mem' = m.mem
  BY DEF MatchOrder
<1>2. /\ Taken(terms, mem, o, q, Len(q), m) /\ Sorted(terms, q) /\ q \in Seq(Order)
      /\ o \in Created /\ o \in Order
      /\ \A x \in Range(q) : x \in Created /\ x \in Order /\ terms[x].side = opp
      /\ opp \in Side
  BY Zenon, <1>1, OrderTakes
<1>3. PICK i \in 1 .. Len(q) : r = q[i]
  BY <1>2 DEF Range
<1>4. PICK j \in 1 .. Len(q) : s = q[j]
  BY <1>2 DEF Range
<1>5. i # j
  BY Zenon, <1>3, <1>4
<1>6. /\ Crosses(terms, o, r) /\ \A n \in 1 .. i - 1 : Passed(terms, mem, m.mem, o, q[n])
  <2>1. Hit(mem, m.mem, q[i])
    BY Zenon, <1>1, <1>3 DEF Hit
  <2> QED
    BY Zenon, <1>2, <1>3, <2>1 DEF Taken
<1>7. /\ terms[o].type = "LIMIT" /\ terms[o].price \in Nat /\ terms[o].side \in Side
      /\ terms[r].price \in Nat /\ terms[s].price \in Nat /\ terms[r].side = opp /\ terms[s].side = opp
  <2>1. Common /\ OrderTypes
    BY <1>1, Serving, TypeParts DEF Calm
  <2> QED
    BY <1>2, <2>1, ReachType DEF Common, AllPlain, Plain, OrderTypes
<1>8. ~(j < i)
  <2> SUFFICES ASSUME j < i PROVE FALSE
    BY Zenon
  <2>1. Passed(terms, mem, m.mem, o, s)
    <3>1. j \in 1 .. i - 1
      OBVIOUS
    <3> QED
      BY <1>4, <1>6, <3>1
  <2>2. ~Crosses(terms, o, s)
    <3>1. ~Hit(mem, m.mem, s) /\ ~(Remaining(terms, m.mem, s) <= 0)
      <4>1. Remaining(terms, m.mem, s) > 0
        BY <1>1 DEF Remaining
      <4>2. Remaining(terms, m.mem, s) \in Int
        <5>1. m.mem \in [Order -> Progress] /\ terms \in [Order -> Terms] /\ s \in Order
          <6>1. m \in Acc /\ terms \in [Order -> Terms]
            BY Zenon, <1>1, OrderTakes, TypeParts DEF Calm, OrderTypes
          <6> QED
            BY <1>2, <6>1 DEF Acc
        <5> QED
          BY <5>1, RemainingType
      <4> QED
        BY <1>1, <4>1, <4>2 DEF Hit
    <3> QED
      BY <2>1, <3>1 DEF Passed
  <2>3. AtLeastAsGood(opp, terms[s].price, terms[r].price)
    BY Zenon, <1>2, <1>3, <1>4, <1>7 DEF Sorted, Before
  <2> QED
    BY <1>6, <1>7, <2>2, <2>3 DEF Crosses, AtLeastAsGood, Opposite, Side
<1>9. Before(terms, r, s)
  <2>1. i < j
    BY <1>5, <1>8
  <2> QED
    BY <1>2, <1>3, <1>4, <2>1 DEF Sorted
<1> QED
  BY <1>7, <1>9 DEF Before

LEMMA NextTakesBest ==
    ASSUME TypeOK, Shape, SettledInv, LimitInv, [Next]_vars
    PROVE  OnlyLimits => TakesBest
<1> SUFFICES ASSUME OnlyLimits, NEW p \in Proc, job[p].pc = "match", job'[p].pc # "match",
                    NEW o, o = job[p].order, NEW opp, opp = Opposite(terms[o].side),
                    NEW r \in Range(book[opp]), mem'[r].filled > mem[r].filled,
                    NEW s \in Range(book[opp]), ~(mem'[s].filled > mem[s].filled),
                    Remaining(terms, mem', s) > 0
             PROVE  /\ AtLeastAsGood(opp, terms[r].price, terms[s].price)
                    /\ terms[r].price = terms[s].price => r < s
  <2> SUFFICES ASSUME OnlyLimits, NEW p \in Proc, job[p].pc = "match", job'[p].pc # "match"
               PROVE  LET side == Opposite(terms[job[p].order].side)
                          was(s) == {s[i] : i \in DOMAIN s}
                          hit == {r \in was(book[side]) : mem'[r].filled > mem[r].filled}
                          left == {r \in was(book[side]) : Remaining(terms, mem', r) > 0} IN
                      \A r \in hit, s \in left \ hit :
                         /\ AtLeastAsGood(side, terms[r].price, terms[s].price)
                         /\ terms[r].price = terms[s].price => r < s
    BY Zenon DEF TakesBest
  <2> DEFINE opp == Opposite(terms[job[p].order].side)
             all == {book[opp][i] : i \in DOMAIN book[opp]}
  <2>1. all = Range(book[opp])
    BY DEF Range
  <2>2. \A r \in Range(book[opp]), s \in Range(book[opp]) :
           (mem'[r].filled > mem[r].filled /\ ~(mem'[s].filled > mem[s].filled)
              /\ Remaining(terms, mem', s) > 0)
           => /\ AtLeastAsGood(opp, terms[r].price, terms[s].price)
              /\ terms[r].price = terms[s].price => r < s
    BY Zenon
  <2>3. \A r \in {x \in all : mem'[x].filled > mem[x].filled},
           s \in {x \in all : Remaining(terms, mem', x) > 0} \ {x \in all : mem'[x].filled > mem[x].filled} :
           /\ AtLeastAsGood(opp, terms[r].price, terms[s].price)
           /\ terms[r].price = terms[s].price => r < s
    BY ONLY <2>1, <2>2
  <2> QED
    BY ONLY <2>3
<1>1. Calm
  BY DEF Calm
<1>2. \A q \in Proc : q # p => job[q].pc = "idle"
  BY DEF LimitInv, Alone
<1>3. ASSUME NEW q \in Proc, Arrive(q)
      PROVE  FALSE
  <2>1. Free(q)
    BY <1>3 DEF Arrive, PlaceOrder, CancelOrder, CancelUserOrder
  <2>2. AllIdle
    BY Zenon, <1>1, <2>1, FreeCalm
  <2> QED
    BY Zenon, <2>2 DEF AllIdle
<1>4. ASSUME NEW q \in Proc, Serve(q)
      PROVE  MatchOrder(p)
  <2>1. job[q].pc # "idle"
    BY <1>4 DEF Serve, CreateOrder, MatchOrder, SettleLeg, LegFails, UndoLeg, SettleTail, FillAtMarket,
                NoMarketFill, RestOrder, PublishUpdates, SyncRead, SyncWrite, RollbackTrades, FailOrder,
                CancelUnlock, CancelSave, CancelRemove, CancelAnnounce
  <2>2. q = p
    BY <1>2, <2>1
  <2> QED
    BY Zenon, <1>4, <2>2 DEF Serve, CreateOrder, SettleLeg, LegFails, UndoLeg, SettleTail, FillAtMarket,
                NoMarketFill, RestOrder, PublishUpdates, SyncRead, SyncWrite, RollbackTrades, FailOrder,
                CancelUnlock, CancelSave, CancelRemove, CancelAnnounce
<1>5. ProjectUpdate \/ UNCHANGED vars => job' = job
  BY DEF ProjectUpdate, vars
<1>6. ~Others /\ ~Restart
  BY NoFaults DEF Others, OtherDebit, Restart, OnlyLimits, Orderly, Faultless
<1>7. MatchOrder(p)
  BY <1>3, <1>4, <1>5, <1>6 DEF Next
<1> QED
  BY Zenon, <1>1, <1>7, HitsBest

(* Among LIMIT orders, what trades is what price-time priority selects: an *)
(* order that is left with something to trade, and of which nothing was    *)
(* taken, is no better than one that traded, and not older at its price.   *)
THEOREM BestTradesFirst == Spec => TradesBest
<1>1. TypeOK /\ Shape /\ SettledInv /\ LimitInv /\ [Next]_vars => [OnlyLimits => TakesBest]_vars
  BY NextTakesBest
<1> QED
  BY <1>1, Shapely, SettledAlways, LimitAlways, PTL DEF Spec, TradesBest

=============================================================================
