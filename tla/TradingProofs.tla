--------------------------- MODULE TradingProofs ---------------------------
(***************************************************************************)
(* Theorems about Trading.                                                 *)
(***************************************************************************)
EXTENDS TradingProps, TotalsProofs

-----------------------------------------------------------------------------
(* Sequences *)

LEMMA Concat ==
    ASSUME NEW S, NEW s \in Seq(S), NEW t \in Seq(S)
    PROVE  /\ s \o t \in Seq(S)
           /\ Range(s \o t) \subseteq Range(s) \cup Range(t)
<1>1. s \o t \in Seq(S) /\ Len(s \o t) = Len(s) + Len(t)
  OBVIOUS
<1>2. ASSUME NEW i \in 1 .. Len(s) + Len(t)
      PROVE  (s \o t)[i] \in Range(s) \cup Range(t)
  <2>1. (s \o t)[i] = IF i <= Len(s) THEN s[i] ELSE t[i - Len(s)]
    OBVIOUS
  <2>2. CASE i <= Len(s)
    BY <2>1, <2>2 DEF Range
  <2>3. CASE ~(i <= Len(s))
    <3>1. i - Len(s) \in 1 .. Len(t)
      BY <2>3
    <3> QED
      BY <2>1, <2>3, <3>1 DEF Range
  <2> QED
    BY <2>2, <2>3
<1>3. DOMAIN (s \o t) = 1 .. Len(s) + Len(t)
  BY <1>1
<1> QED
  BY <1>1, <1>2, <1>3 DEF Range

LEMMA Part ==
    ASSUME NEW S, NEW s \in Seq(S), NEW m \in Nat, NEW n \in Nat, 1 <= m, n <= Len(s)
    PROVE  /\ SubSeq(s, m, n) \in Seq(S)
           /\ Range(SubSeq(s, m, n)) \subseteq Range(s)
<1> DEFINE t == SubSeq(s, m, n)
           k == IF m <= n THEN n - m + 1 ELSE 0
<1>1. t = [i \in 1 .. k |-> s[i + m - 1]] /\ k \in Nat
  BY DEF SubSeq
<1>2. \A i \in 1 .. k : i + m - 1 \in 1 .. Len(s)
  OBVIOUS
<1>3. \A i \in 1 .. k : s[i + m - 1] \in S /\ s[i + m - 1] \in Range(s)
  BY <1>2 DEF Range
<1> HIDE DEF t, k
<1>4. t \in Seq(S)
  <2>1. t \in [1 .. k -> S] /\ k \in Nat
    BY <1>1, <1>3
  <2> QED
    BY <2>1
<1>5. DOMAIN t = 1 .. k /\ \A i \in 1 .. k : t[i] \in Range(s)
  BY <1>1, <1>3
<1>6. Range(t) \subseteq Range(s)
  BY <1>5 DEF Range
<1> QED
  BY <1>4, <1>6 DEF t

LEMMA Inserted ==
    ASSUME NEW S, NEW s \in Seq(S), NEW e \in S, NEW n \in 0 .. Len(s)
    PROVE  /\ InsertAt(s, n + 1, e) \in Seq(S)
           /\ Range(InsertAt(s, n + 1, e)) \subseteq Range(s) \cup {e}
<1> DEFINE a == SubSeq(s, 1, n)
           b == SubSeq(s, n + 1, Len(s))
<1>1. a \in Seq(S) /\ Range(a) \subseteq Range(s)
  BY Part
<1>2. b \in Seq(S) /\ Range(b) \subseteq Range(s)
  BY Part
<1>3. <<e>> \in Seq(S) /\ Range(<<e>>) = {e}
  BY DEF Range
<1>4. InsertAt(s, n + 1, e) = a \o <<e>> \o b
  <2>1. (n + 1) - 1 = n
    OBVIOUS
  <2> QED
    BY <2>1 DEF InsertAt
<1> HIDE DEF a, b
<1>5. a \o <<e>> \in Seq(S) /\ Range(a \o <<e>>) \subseteq Range(s) \cup {e}
  BY <1>1, <1>3, Concat
<1>6. a \o <<e>> \o b \in Seq(S) /\ Range(a \o <<e>> \o b) \subseteq Range(s) \cup {e}
  BY <1>2, <1>5, Concat
<1> QED
  BY <1>4, <1>6

LEMMA Removed ==
    ASSUME NEW S, NEW s \in Seq(S), NEW e
    PROVE  /\ RemoveFirst(s, e) \in Seq(S)
           /\ Range(RemoveFirst(s, e)) \subseteq Range(s)
<1>1. CASE \E i \in 1 .. Len(s) : s[i] = e
  <2> DEFINE I == {i \in 1 .. Len(s) : s[i] = e}
             n == Min(I)
             a == SubSeq(s, 1, n - 1)
             b == SubSeq(s, n + 1, Len(s))
  <2>1. n \in I
    <3>1. I # {} /\ I \subseteq Nat
      BY <1>1
    <3> HIDE DEF I
    <3>2. \E x \in I : \A y \in I : ~ (<<y, x>> \in OpToRel(<, Nat))
      BY <3>1, WFMin, NatLessThanWellFounded
    <3>3. PICK x \in I : \A y \in I : ~(y < x)
      BY <3>1, <3>2 DEF OpToRel
    <3>4. \A y \in I : x <= y
      BY <3>1, <3>3
    <3> QED
      BY <3>4 DEF Min
  <2>2. n \in 1 .. Len(s)
    BY <2>1
  <2>3. RemoveFirst(s, e) = a \o b
    <3>1. I # {}
      BY <1>1
    <3> QED
      BY <1>1, <3>1 DEF RemoveFirst, RemoveAt, SelectInSeq
  <2> HIDE DEF n
  <2>4. a \in Seq(S) /\ Range(a) \subseteq Range(s)
    BY <2>2, Part
  <2>5. b \in Seq(S) /\ Range(b) \subseteq Range(s)
    BY <2>2, Part
  <2> HIDE DEF a, b
  <2> QED
    BY <2>3, <2>4, <2>5, Concat
<1>2. CASE ~ \E i \in 1 .. Len(s) : s[i] = e
  BY <1>2 DEF RemoveFirst
<1> QED
  BY <1>1, <1>2

LEMMA Appended ==
    ASSUME NEW S, NEW s \in Seq(S), NEW e \in S
    PROVE  /\ Append(s, e) \in Seq(S) /\ Len(Append(s, e)) = Len(s) + 1
           /\ \A i \in 1 .. Len(s) : Append(s, e)[i] = s[i]
           /\ Append(s, e)[Len(s) + 1] = e
           /\ Range(Append(s, e)) = Range(s) \cup {e}
<1>1. /\ Append(s, e) \in Seq(S) /\ Len(Append(s, e)) = Len(s) + 1
      /\ \A i \in 1 .. Len(s) : Append(s, e)[i] = s[i]
      /\ Append(s, e)[Len(s) + 1] = e
  OBVIOUS
<1> HIDE DEF Append
<1>2. DOMAIN Append(s, e) = 1 .. Len(s) + 1 /\ DOMAIN s = 1 .. Len(s) /\ Len(s) \in Nat
  BY <1>1
<1>3. \A i \in 1 .. Len(s) + 1 : i \in 1 .. Len(s) \/ i = Len(s) + 1
  BY <1>2
<1>4. Range(Append(s, e)) \subseteq Range(s) \cup {e}
  BY <1>1, <1>2, <1>3 DEF Range
<1>5. e \in Range(Append(s, e))
  BY <1>1, <1>2 DEF Range
<1>6. Range(s) \subseteq Range(Append(s, e))
  <2>1. \A i \in 1 .. Len(s) : i \in 1 .. Len(s) + 1
    BY <1>2
  <2> QED
    BY <1>1, <1>2, <2>1 DEF Range
<1> QED
  BY <1>1, <1>4, <1>5, <1>6

-----------------------------------------------------------------------------
(* FoldLeft: after k elements of the sequence, the fold of the first k. *)

LEMMA MaxOf ==
    ASSUME NEW n \in Nat, NEW s \in SUBSET (1 .. n), s # {}
    PROVE  Max(s) \in s
<1> DEFINE F == {n - x : x \in s}
<1>1. F # {} /\ F \subseteq Nat
  <2>1. \A x \in s : x \in 1 .. n
    OBVIOUS
  <2>2. \A x \in s : n - x \in Nat
    BY <2>1
  <2> QED
    BY <2>2
<1>2. \A x \in s : x \in 1 .. n /\ n - x \in F
  OBVIOUS
<1>3. \A y \in F : \E x \in s : y = n - x
  OBVIOUS
<1> HIDE DEF F
<1>4. \E y \in F : \A z \in F : ~ (<<z, y>> \in OpToRel(<, Nat))
  BY <1>1, WFMin, NatLessThanWellFounded
<1>5. PICK y \in F : \A z \in F : ~(z < y)
  BY <1>1, <1>4 DEF OpToRel
<1>6. PICK x \in s : y = n - x
  BY <1>3
<1>7. \A z \in s : x >= z
  BY <1>2, <1>5, <1>6
<1> QED
  BY <1>7 DEF Max

LEMMA MaxOfFirst ==
    ASSUME NEW n \in Nat, NEW k \in 1 .. n
    PROVE  Max(1 .. k) = k /\ (1 .. k) \ {k} = 1 .. k - 1
<1>1. Max(1 .. k) \in 1 .. k
  <2>1. 1 .. k # {} /\ 1 .. k \in SUBSET (1 .. n)
    OBVIOUS
  <2> QED
    BY <2>1, MaxOf
<1>2. \A x \in 1 .. k : (\A y \in 1 .. k : x >= y) <=> x = k
  OBVIOUS
<1>3. \E x \in 1 .. k : \A y \in 1 .. k : x >= y
  BY <1>2
<1>4. \A y \in 1 .. k : Max(1 .. k) >= y
  BY <1>3 DEF Max
<1> QED
  BY <1>1, <1>2, <1>4

(* The function of subsets that a fold chooses, along the first k elements. *)
FoldsBy(n, A, base, step, it) ==
    /\ it[{}] = base
    /\ \A s \in SUBSET (1 .. n) : s # {} /\ it[s \ {Max(s)}] \in A =>
           it[s] = step[Max(s)][it[s \ {Max(s)}]]

StepsTo(n, A, base, step, a) ==
    \E h \in [0 .. n -> A] : /\ h[0] = base /\ h[n] = a
                             /\ \A k \in 1 .. n : h[k] = step[k][h[k - 1]]

LEMMA FoldAlong ==
    ASSUME NEW n \in Nat, NEW A, NEW base \in A, NEW step \in [1 .. n -> [A -> A]], NEW it,
           FoldsBy(n, A, base, step, it)
    PROVE  StepsTo(n, A, base, step, it[1 .. n])
<1> DEFINE h == [k \in 0 .. n |-> it[1 .. k]]
           G == {k \in Nat : k <= n => h[k] \in A}
<1>1. h[0] = base
  <2>1. 1 .. 0 = {} /\ 0 \in 0 .. n
    OBVIOUS
  <2> QED
    BY <2>1 DEF FoldsBy
<1>2. ASSUME NEW k \in 1 .. n, h[k - 1] \in A
      PROVE  h[k] = step[k][h[k - 1]]
  <2>1. Max(1 .. k) = k /\ (1 .. k) \ {k} = 1 .. k - 1
    BY MaxOfFirst
  <2>2. 1 .. k \in SUBSET (1 .. n) /\ 1 .. k # {}
    <3>1. 1 \in 1 .. k /\ \A y \in 1 .. k : y \in 1 .. n
      OBVIOUS
    <3> QED
      BY <3>1
  <2>3. k \in 0 .. n /\ k - 1 \in 0 .. n
    OBVIOUS
  <2>4. h[k] = it[1 .. k] /\ h[k - 1] = it[1 .. k - 1]
    BY <2>3
  <2> HIDE DEF h
  <2>5. it[(1 .. k) \ {Max(1 .. k)}] = h[k - 1]
    BY <2>1, <2>4
  <2>6. it[1 .. k] = step[Max(1 .. k)][it[(1 .. k) \ {Max(1 .. k)}]]
    BY <2>2, <2>5, <1>2 DEF FoldsBy
  <2> QED
    BY <2>1, <2>4, <2>5, <2>6
<1> HIDE DEF h
<1>3. 0 \in G
  BY <1>1
<1>4. \A k \in Nat : k \in G => k + 1 \in G
  <2> SUFFICES ASSUME NEW k \in Nat, k \in G, k + 1 <= n
               PROVE  h[k + 1] \in A
    OBVIOUS
  <2>1. h[k] \in A /\ k + 1 \in 1 .. n /\ (k + 1) - 1 = k
    OBVIOUS
  <2>2. h[k + 1] = step[k + 1][h[k]]
    BY <1>2, <2>1
  <2> QED
    BY <2>1, <2>2
<1>5. \A k \in 0 .. n : h[k] \in A
  <2>1. Nat \subseteq G
    <3> HIDE DEF G
    <3> QED
      BY <1>3, <1>4, NatInduct
  <2> QED
    BY <2>1
<1>6. h \in [0 .. n -> A] /\ h[n] = it[1 .. n]
  <2>1. h = [k \in 0 .. n |-> h[k]]
    BY DEF h
  <2>2. n \in 0 .. n
    OBVIOUS
  <2> QED
    BY <1>5, <2>1, <2>2 DEF h
<1>7. \A k \in 1 .. n : h[k] = step[k][h[k - 1]]
  <2>1. \A k \in 1 .. n : k - 1 \in 0 .. n
    OBVIOUS
  <2> QED
    BY <1>2, <1>5, <2>1
<1> QED
  BY <1>1, <1>6, <1>7 DEF StepsTo

-----------------------------------------------------------------------------
(* The order book *)

Acc == [mem : [Order -> Progress], trades : Seq(Trade), rest : Seq(Order)]

LEMMA FillType ==
    ASSUME NEW tm \in [Order -> Terms], NEW m \in [Order -> Progress], NEW o \in Order,
           NEW qty \in Int
    PROVE  /\ Fill(tm, m, o, qty) \in [Order -> Progress]
           /\ Fill(tm, m, o, qty)[o].filled = m[o].filled + qty
           /\ \A x \in Order \ {o} : Fill(tm, m, o, qty)[x] = m[x]
<1> DEFINE n == m[o].filled + qty
           e == [filled |-> n,
                 status |-> IF n >= tm[o].amount THEN "FILLED"
                            ELSE IF n > 0 THEN "PARTIAL" ELSE m[o].status]
<1>1. m[o] \in Progress /\ n \in Int
  BY DEF Progress
<1>2. e \in Progress /\ e.filled = n
  BY <1>1 DEF Progress, Status
<1>3. Fill(tm, m, o, qty) = [m EXCEPT ![o] = e]
  BY DEF Fill
<1> HIDE DEF e
<1> QED
  BY <1>2, <1>3

LEMMA RemainingType ==
    ASSUME NEW tm \in [Order -> Terms], NEW m \in [Order -> Progress], NEW o \in Order
    PROVE  Remaining(tm, m, o) \in Int /\ m[o].filled \in Int /\ tm[o].amount \in Nat
<1>1. tm[o] \in Terms /\ m[o] \in Progress
  OBVIOUS
<1> QED
  BY <1>1 DEF Remaining, Terms, Progress

LEMMA TradeType ==
    ASSUME NEW tm \in [Order -> Terms], NEW o \in Order, NEW r \in Order, NEW qty \in Int
    PROVE  TradeOf(tm, o, r, qty) \in Trade
<1>1. tm[r] \in Terms
  OBVIOUS
<1> QED
  BY <1>1 DEF TradeOf, Trade, Terms

Quantity(tm, o, acc, r) == Least(Remaining(tm, acc.mem, o), Remaining(tm, acc.mem, r))
Trades(tm, o, acc, r) == Remaining(tm, acc.mem, o) > 0 /\ Crosses(tm, o, r)

LEMMA MeetType ==
    ASSUME NEW tm \in [Order -> Terms], NEW o \in Order, NEW r \in Order, NEW acc \in Acc
    PROVE  Meet(tm, o, acc, r) \in Acc
<1> DEFINE qty == Quantity(tm, o, acc, r)
           met == Fill(tm, acc.mem, r, qty)
           t == TradeOf(tm, o, r, qty)
<1>1. /\ acc.mem \in [Order -> Progress] /\ acc.trades \in Seq(Trade) /\ acc.rest \in Seq(Order)
      /\ acc = [mem |-> acc.mem, trades |-> acc.trades, rest |-> acc.rest]
  BY DEF Acc
<1>2. qty \in Int
  BY <1>1, RemainingType DEF Quantity, Least
<1>3. met \in [Order -> Progress] /\ Fill(tm, met, o, qty) \in [Order -> Progress]
  <2>1. met \in [Order -> Progress]
    BY <1>1, <1>2, FillType
  <2> HIDE DEF met, qty
  <2> QED
    BY <1>2, <2>1, FillType
<1>4. t \in Trade
  BY <1>2, TradeType
<1>5. Append(acc.rest, r) \in Seq(Order) /\ Append(acc.trades, t) \in Seq(Trade)
  <2> HIDE DEF t
  <2> QED
    BY <1>1, <1>4, Appended
<1>6. Meet(tm, o, acc, r) =
        IF Trades(tm, o, acc, r)
        THEN [mem |-> Fill(tm, met, o, qty), trades |-> Append(acc.trades, t),
              rest |-> IF IsFilled(tm, met, r) THEN acc.rest ELSE Append(acc.rest, r)]
        ELSE [acc EXCEPT !.rest = Append(@, r)]
  BY DEF Meet, Trades, Quantity
<1> HIDE DEF qty, met, t
<1>7. CASE Trades(tm, o, acc, r)
  <2> DEFINE rest == IF IsFilled(tm, met, r) THEN acc.rest ELSE Append(acc.rest, r)
  <2>1. rest \in Seq(Order)
    BY <1>1, <1>5
  <2>2. Meet(tm, o, acc, r) = [mem |-> Fill(tm, met, o, qty), trades |-> Append(acc.trades, t),
                               rest |-> rest]
    BY <1>6, <1>7
  <2> HIDE DEF rest
  <2> QED
    BY <1>3, <1>5, <2>1, <2>2 DEF Acc
<1>8. CASE ~Trades(tm, o, acc, r)
  <2>1. Meet(tm, o, acc, r) = [mem |-> acc.mem, trades |-> acc.trades, rest |-> Append(acc.rest, r)]
    BY <1>1, <1>6, <1>8
  <2> QED
    BY <1>1, <1>5, <2>1 DEF Acc
<1> QED
  BY <1>7, <1>8

Nothing(m) == [mem |-> m, trades |-> <<>>, rest |-> <<>>]

(* Match meets the orders of the opposite side, one after another. *)
MatchesAlong(tm, m, b, o, q, h) ==
    /\ h \in [0 .. Len(q) -> Acc] /\ h[0] = Nothing(m) /\ h[Len(q)] = Match(tm, m, b, o)
    /\ \A k \in 1 .. Len(q) : h[k] = Meet(tm, o, h[k - 1], q[k])

LEMMA MatchFold ==
    ASSUME NEW tm \in [Order -> Terms], NEW m \in [Order -> Progress], NEW b,
           NEW o \in Order, b[Opposite(tm[o].side)] \in Seq(Order)
    PROVE  \E h : MatchesAlong(tm, m, b, o, b[Opposite(tm[o].side)], h)
<1> DEFINE q == b[Opposite(tm[o].side)]
           S == DOMAIN q
           base == Nothing(m)
           pick == [s \in SUBSET S |-> Max(s)]
           step == [k \in S |-> [acc \in Acc |-> Meet(tm, o, acc, q[k])]]
           Folds(g) == g = [s \in SUBSET S |-> IF s = {} THEN base
                               ELSE Meet(tm, o, g[s \ {Max(s)}], q[Max(s)])]
           it == CHOOSE g : Folds(g)
<1>9. Match(tm, m, b, o) = it[S]
  BY DEF Match, FoldLeft, MapThenFoldSet, Nothing
<1>15. q \in Seq(Order) /\ Len(q) \in Nat /\ S = 1 .. Len(q)
  OBVIOUS
<1> HIDE DEF q
<1>1. base \in Acc
  BY DEF Acc, Nothing
<1>2. \A k \in S : q[k] \in Order
  BY <1>15
<1>3. step \in [S -> [Acc -> Acc]]
  BY <1>2, MeetType
<1>4. \A s \in SUBSET S : s # {} => Max(s) \in s
  BY <1>15, MaxOf
<1>5. \E g \in [SUBSET S -> Acc] : FoldsTo(S, pick, base, step, g)
  <2>1. IsFiniteSet(S)
    BY <1>15, FS_Interval
  <2>2. \A s \in SUBSET S : s # {} => pick[s] \in s
    BY <1>4
  <2> HIDE DEF S, pick, base, step
  <2> QED
    BY <1>1, <1>3, <2>1, <2>2, FoldExists
<1>6. PICK g \in [SUBSET S -> Acc] : FoldsTo(S, pick, base, step, g)
  BY <1>5
<1>7. Folds(g)
  <2>1. \A s \in SUBSET S : s # {} =>
           step[pick[s]][g[s \ {pick[s]}]] = Meet(tm, o, g[s \ {Max(s)}], q[Max(s)])
    <3> SUFFICES ASSUME NEW s \in SUBSET S, s # {}
                 PROVE  step[pick[s]][g[s \ {pick[s]}]] = Meet(tm, o, g[s \ {Max(s)}], q[Max(s)])
      OBVIOUS
    <3>1. pick[s] = Max(s) /\ Max(s) \in S /\ s \ {Max(s)} \in SUBSET S
      BY <1>4
    <3>2. g[s \ {Max(s)}] \in Acc
      BY <3>1
    <3> QED
      BY <3>1, <3>2
  <2>2. g = [s \in SUBSET S |-> IF s = {} THEN base ELSE step[pick[s]][g[s \ {pick[s]}]]]
    BY <1>6 DEF FoldsTo
  <2> HIDE DEF S, pick, base, step
  <2> QED
    BY <2>1, <2>2
<1>8. Folds(it)
  <2> HIDE DEF Folds
  <2> QED
    BY <1>7
<1>10. /\ it[{}] = base
       /\ \A s \in SUBSET S : s # {} => it[s] = Meet(tm, o, it[s \ {Max(s)}], q[Max(s)])
  <2> HIDE DEF it, S, base
  <2>1. {} \in SUBSET S
    OBVIOUS
  <2> QED
    BY <1>8, <2>1
<1>11. \A s \in SUBSET S : s # {} /\ it[s \ {Max(s)}] \in Acc =>
          it[s] = step[Max(s)][it[s \ {Max(s)}]]
  <2> HIDE DEF it, base
  <2>1. \A s \in SUBSET S : s # {} => Max(s) \in S
    BY <1>4
  <2> HIDE DEF S
  <2> QED
    BY <1>10, <2>1
<1>12. \E h \in [0 .. Len(q) -> Acc] :
          /\ h[0] = base /\ h[Len(q)] = it[1 .. Len(q)]
          /\ \A k \in 1 .. Len(q) : h[k] = step[k][h[k - 1]]
  <2> DEFINE n == Len(q)
  <2> HIDE DEF it, base, step
  <2>1. \A s \in SUBSET (1 .. n) : s # {} /\ it[s \ {Max(s)}] \in Acc =>
           it[s] = step[Max(s)][it[s \ {Max(s)}]]
    BY <1>11, <1>15
  <2>2. FoldsBy(n, Acc, base, step, it)
    BY <1>10, <2>1 DEF FoldsBy
  <2>3. n \in Nat /\ step \in [1 .. n -> [Acc -> Acc]]
    BY <1>3, <1>15
  <2> HIDE DEF n
  <2>4. StepsTo(n, Acc, base, step, it[1 .. n])
    BY <1>1, <2>2, <2>3, FoldAlong
  <2> QED
    BY <2>4 DEF n, StepsTo
<1>13. PICK h \in [0 .. Len(q) -> Acc] :
          /\ h[0] = base /\ h[Len(q)] = it[1 .. Len(q)]
          /\ \A k \in 1 .. Len(q) : h[k] = step[k][h[k - 1]]
  BY <1>12
<1>14. \A k \in 1 .. Len(q) : h[k] = Meet(tm, o, h[k - 1], q[k])
  <2>1. \A k \in 1 .. Len(q) : k - 1 \in 0 .. Len(q) /\ h[k - 1] \in Acc
    BY <1>15
  <2> QED
    BY <1>13, <1>15, <2>1
<1> HIDE DEF it
<1>16. h[Len(q)] = Match(tm, m, b, o)
  BY <1>9, <1>13, <1>15
<1>17. MatchesAlong(tm, m, b, o, q, h)
  BY <1>13, <1>14, <1>16 DEF MatchesAlong
<1> QED
  BY <1>17 DEF q

(* What is traded of an order. *)
Deal(t, x) == IF ~Synthetic(t) /\ x \in Parties(t) THEN t.amt ELSE 0
ShareOf(trades, x) == Sum([i \in 1 .. Len(trades) |-> Deal(trades[i], x)], 1 .. Len(trades))

LEMMA TradeFields ==
    ASSUME NEW trades \in Seq(Trade)
    PROVE  /\ Len(trades) \in Nat /\ IsFiniteSet(1 .. Len(trades))
           /\ \A i \in 1 .. Len(trades) : trades[i] \in Trade /\ trades[i].amt \in Int
<1>1. \A i \in 1 .. Len(trades) : trades[i] \in Trade
  OBVIOUS
<1>2. Len(trades) \in Nat
  OBVIOUS
<1>3. \A i \in 1 .. Len(trades) : trades[i].amt \in Int
  BY <1>1 DEF Trade
<1>4. IsFiniteSet(1 .. Len(trades))
  BY <1>2, FS_Interval
<1> QED
  BY <1>1, <1>2, <1>3, <1>4

(* A sum over a sequence and one more element. *)
LEMMA SumOneMore ==
    ASSUME NEW n \in Nat, NEW f, NEW g, \A i \in 1 .. n : f[i] \in Int /\ g[i] = f[i],
           g[n + 1] \in Int
    PROVE  Sum(g, 1 .. n + 1) = Sum(f, 1 .. n) + g[n + 1]
<1>1. IsFiniteSet(1 .. n)
  BY FS_Interval
<1>2. Sum(g, 1 .. n) = Sum(f, 1 .. n)
  BY <1>1, SumSame
<1>3. n + 1 \notin 1 .. n /\ (1 .. n) \cup {n + 1} = 1 .. n + 1
  OBVIOUS
<1>4. \A i \in 1 .. n : g[i] \in Int
  OBVIOUS
<1>5. Sum(g, (1 .. n) \cup {n + 1}) = Sum(g, 1 .. n) + g[n + 1]
  <2> DEFINE S == 1 .. n
             x == n + 1
  <2>1. x \notin S /\ IsFiniteSet(S) /\ g[x] \in Int /\ \A i \in S : g[i] \in Int
    BY <1>1, <1>3, <1>4
  <2> HIDE DEF S, x
  <2>2. Sum(g, S \cup {x}) = Sum(g, S) + g[x]
    BY <2>1, SumAdd
  <2> QED
    BY <2>2 DEF S, x
<1> QED
  BY <1>2, <1>3, <1>5

LEMMA ShareAppend ==
    ASSUME NEW trades \in Seq(Trade), NEW t \in Trade, NEW x
    PROVE  /\ ShareOf(trades, x) \in Int
           /\ ShareOf(Append(trades, t), x) = ShareOf(trades, x) + Deal(t, x)
<1> DEFINE n == Len(trades)
           all == Append(trades, t)
           f == [i \in 1 .. n |-> Deal(trades[i], x)]
           g == [i \in 1 .. n + 1 |-> Deal(all[i], x)]
<1>1. /\ n \in Nat /\ IsFiniteSet(1 .. n) /\ t.amt \in Int
      /\ \A i \in 1 .. n : trades[i].amt \in Int
  BY TradeFields DEF Trade
<1>2. /\ Len(all) = n + 1 /\ all[n + 1] = t
      /\ \A i \in 1 .. n : all[i] = trades[i]
  BY Appended
<1> HIDE DEF n, all
<1>3. \A i \in 1 .. n : f[i] \in Int /\ g[i] = f[i]
  <2>1. \A i \in 1 .. n : i \in 1 .. n + 1
    BY <1>1
  <2> QED
    BY <1>1, <1>2, <2>1 DEF Deal
<1>4. g[n + 1] = Deal(t, x) /\ Deal(t, x) \in Int
  <2>1. n + 1 \in 1 .. n + 1
    BY <1>1
  <2> QED
    BY <1>1, <1>2, <2>1 DEF Deal
<1>5. Sum(f, 1 .. n) \in Int
  <2> HIDE DEF f, g
  <2> QED
    BY <1>1, <1>3, SumType
<1>6. Sum(g, 1 .. n + 1) = Sum(f, 1 .. n) + g[n + 1]
  <2>1. g[n + 1] \in Int
    BY <1>1, <1>4
  <2> HIDE DEF f, g
  <2> QED
    BY <1>1, <1>3, <2>1, SumOneMore
<1>7. ShareOf(trades, x) = Sum(f, 1 .. n)
  BY DEF ShareOf, n
<1>8. ShareOf(all, x) = Sum(g, 1 .. n + 1)
  BY <1>2 DEF ShareOf
<1> QED
  BY <1>4, <1>5, <1>6, <1>7, <1>8 DEF all

(* What holds of the match of o with the orders of R, at every order met. *)
Matched(tm, m, o, R, acc) ==
    /\ \A x \in Order \ (R \cup {o}) : acc.mem[x] = m[x]
    /\ \A x \in Order : /\ acc.mem[x].filled = m[x].filled + ShareOf(acc.trades, x)
                        /\ acc.mem[x].filled <= tm[x].amount
    /\ \A i \in 1 .. Len(acc.trades) :
          /\ acc.trades[i].amt \in Nat
          /\ \E r \in R : acc.trades[i] = TradeOf(tm, o, r, acc.trades[i].amt)
    /\ Range(acc.rest) \subseteq R
    /\ Remaining(tm, acc.mem, o) > 0 => \A r \in Range(acc.rest) : ~Crosses(tm, o, r)

LEMMA PartiesOfTrade ==
    ASSUME NEW tm, NEW o \in Order, NEW r \in Order, NEW qty
    PROVE  /\ Parties(TradeOf(tm, o, r, qty)) = {o, r}
           /\ ~Synthetic(TradeOf(tm, o, r, qty))
           /\ TradeOf(tm, o, r, qty).amt = qty
<1>1. o # None /\ r # None
  BY TradingAssumption
<1> QED
  BY <1>1 DEF Parties, Synthetic, TradeOf

LEMMA MeetKeeps ==
    ASSUME NEW tm \in [Order -> Terms], NEW m \in [Order -> Progress], NEW o \in Order,
           NEW R \in SUBSET Order, o \notin R, NEW acc \in Acc, NEW r \in R,
           Matched(tm, m, o, R, acc)
    PROVE  Matched(tm, m, o, R, Meet(tm, o, acc, r))
<1> DEFINE qty == Quantity(tm, o, acc, r)
           met == Fill(tm, acc.mem, r, qty)
           all == Fill(tm, met, o, qty)
           t == TradeOf(tm, o, r, qty)
           next == Meet(tm, o, acc, r)
<1>1. /\ acc.mem \in [Order -> Progress] /\ acc.trades \in Seq(Trade) /\ acc.rest \in Seq(Order)
      /\ r \in Order /\ r # o
  BY DEF Acc
<1>2. next = IF Trades(tm, o, acc, r)
             THEN [mem |-> all, trades |-> Append(acc.trades, t),
                   rest |-> IF IsFilled(tm, met, r) THEN acc.rest ELSE Append(acc.rest, r)]
             ELSE [acc EXCEPT !.rest = Append(@, r)]
  BY DEF Meet, Trades, Quantity
<1>3. Range(Append(acc.rest, r)) = Range(acc.rest) \cup {r}
  BY <1>1, Appended
<1>4. CASE Trades(tm, o, acc, r)
  <2>1. /\ Remaining(tm, acc.mem, o) = tm[o].amount - acc.mem[o].filled
        /\ Remaining(tm, acc.mem, r) = tm[r].amount - acc.mem[r].filled
        /\ acc.mem[o].filled \in Int /\ acc.mem[r].filled \in Int
        /\ tm[o].amount \in Nat /\ tm[r].amount \in Nat
        /\ acc.mem[r].filled <= tm[r].amount /\ Remaining(tm, acc.mem, o) > 0
    BY <1>1, <1>4, RemainingType DEF Remaining, Trades, Matched
  <2>2. /\ qty \in Nat /\ qty <= tm[o].amount - acc.mem[o].filled
        /\ qty <= tm[r].amount - acc.mem[r].filled
        /\ qty = tm[o].amount - acc.mem[o].filled \/ qty = tm[r].amount - acc.mem[r].filled
    BY <2>1 DEF Quantity, Least
  <2> HIDE DEF qty
  <2>3. /\ met \in [Order -> Progress] /\ met[r].filled = acc.mem[r].filled + qty
        /\ \A x \in Order \ {r} : met[x] = acc.mem[x]
    <3> DEFINE a == acc.mem
    <3>1. a \in [Order -> Progress] /\ r \in Order /\ qty \in Int
      BY <1>1, <2>2
    <3> HIDE DEF a
    <3>2. /\ Fill(tm, a, r, qty) \in [Order -> Progress]
          /\ Fill(tm, a, r, qty)[r].filled = a[r].filled + qty
          /\ \A x \in Order \ {r} : Fill(tm, a, r, qty)[x] = a[x]
      BY <3>1, FillType
    <3> QED
      BY <3>2 DEF a
  <2> HIDE DEF met
  <2>4. /\ all \in [Order -> Progress] /\ all[o].filled = met[o].filled + qty
        /\ \A x \in Order \ {o} : all[x] = met[x]
    BY <2>2, <2>3, FillType
  <2> HIDE DEF all
  <2>5. /\ all[o].filled = acc.mem[o].filled + qty /\ all[r].filled = acc.mem[r].filled + qty
        /\ \A x \in Order \ {o, r} : all[x] = acc.mem[x]
    BY <1>1, <2>3, <2>4
  <2>6. t \in Trade /\ Parties(t) = {o, r} /\ ~Synthetic(t) /\ t.amt = qty
    <3>1. qty \in Int
      BY <2>2
    <3>2. t \in Trade
      BY <1>1, <3>1, TradeType
    <3>3. Parties(t) = {o, r} /\ ~Synthetic(t) /\ t.amt = qty
      BY <1>1, PartiesOfTrade
    <3> QED
      BY <3>2, <3>3
  <2> HIDE DEF t
  <2>7. /\ next.mem = all /\ next.trades = Append(acc.trades, t)
        /\ next.rest = acc.rest \/ next.rest = Append(acc.rest, r)
        /\ IsFilled(tm, met, r) => next.rest = acc.rest
    BY <1>2, <1>4
  <2> HIDE DEF next
  <2>8. \A x \in Order \ (R \cup {o}) : next.mem[x] = m[x]
    BY <2>5, <2>7 DEF Matched
  <2>9. ASSUME NEW x \in Order
        PROVE  /\ next.mem[x].filled = m[x].filled + ShareOf(next.trades, x)
               /\ next.mem[x].filled <= tm[x].amount
    <3>1. /\ acc.mem[x].filled = m[x].filled + ShareOf(acc.trades, x)
          /\ acc.mem[x].filled <= tm[x].amount
      BY DEF Matched
    <3>2. /\ ShareOf(acc.trades, x) \in Int
          /\ ShareOf(next.trades, x) = ShareOf(acc.trades, x) + IF x \in {o, r} THEN qty ELSE 0
      BY <1>1, <2>6, <2>7, ShareAppend DEF Deal
    <3>3. m[x].filled \in Int /\ acc.mem[x].filled \in Int /\ tm[x].amount \in Nat
      BY <1>1, RemainingType
    <3>4. CASE x \in {o, r}
      <4>1. next.mem[x].filled = acc.mem[x].filled + qty
        BY <2>5, <2>7, <3>4
      <4>2. ShareOf(next.trades, x) = ShareOf(acc.trades, x) + qty
        BY <3>2, <3>4
      <4>3. qty <= tm[x].amount - acc.mem[x].filled
        BY <2>2, <3>4
      <4> QED
        BY <2>2, <3>1, <3>2, <3>3, <4>1, <4>2, <4>3
    <3>5. CASE x \notin {o, r}
      <4>1. next.mem[x] = acc.mem[x]
        BY <2>5, <2>7, <3>5
      <4>2. ShareOf(next.trades, x) = ShareOf(acc.trades, x)
        BY <3>2, <3>5
      <4> QED
        BY <3>1, <4>1, <4>2
    <3> QED
      BY <3>4, <3>5
  <2>10. ASSUME NEW i \in 1 .. Len(next.trades)
         PROVE  /\ next.trades[i].amt \in Nat
                /\ \E s \in R : next.trades[i] = TradeOf(tm, o, s, next.trades[i].amt)
    <3>1. /\ Len(next.trades) = Len(acc.trades) + 1 /\ next.trades[Len(acc.trades) + 1] = t
          /\ \A j \in 1 .. Len(acc.trades) : next.trades[j] = acc.trades[j]
          /\ Len(acc.trades) \in Nat
      BY <1>1, <2>6, <2>7, Appended, TradeFields
    <3>2. CASE i \in 1 .. Len(acc.trades)
      BY <3>1, <3>2 DEF Matched
    <3>3. CASE i = Len(acc.trades) + 1
      <4>1. next.trades[i] = TradeOf(tm, o, r, qty)
        BY <3>1, <3>3 DEF t
      <4> QED
        BY <2>2, <2>6, <3>1, <3>3, <4>1
    <3> QED
      BY <3>1, <3>2, <3>3
  <2>11. Range(next.rest) \subseteq R
    <3>1. Range(acc.rest) \subseteq R
      BY DEF Matched
    <3>2. Range(next.rest) \subseteq Range(acc.rest) \cup {r}
      BY <1>3, <2>7
    <3> QED
      BY <3>1, <3>2
  <2>12. ASSUME Remaining(tm, next.mem, o) > 0
         PROVE  \A s \in Range(next.rest) : ~Crosses(tm, o, s)
    <3>1. tm[o].amount - (acc.mem[o].filled + qty) > 0
      BY <2>5, <2>7, <2>12 DEF Remaining
    <3>2. qty = tm[r].amount - acc.mem[r].filled
      BY <2>1, <2>2, <3>1
    <3>3. IsFilled(tm, met, r)
      <4>1. met[r].filled = tm[r].amount
        BY <2>1, <2>2, <2>3, <3>2
      <4> QED
        BY <2>1, <4>1 DEF IsFilled
    <3> QED
      BY <2>1, <2>7, <3>3 DEF Matched
  <2> QED
    BY <2>8, <2>9, <2>10, <2>11, <2>12 DEF Matched, next
<1>5. CASE ~Trades(tm, o, acc, r)
  <2>1. next.mem = acc.mem /\ next.trades = acc.trades /\ next.rest = Append(acc.rest, r)
    <3>1. acc = [mem |-> acc.mem, trades |-> acc.trades, rest |-> acc.rest]
      BY DEF Acc
    <3>2. [acc EXCEPT !.rest = Append(@, r)]
            = [mem |-> acc.mem, trades |-> acc.trades, rest |-> Append(acc.rest, r)]
      BY <3>1
    <3> QED
      BY <1>2, <1>5, <3>2
  <2>2. Range(next.rest) \subseteq R
    BY <1>3, <2>1 DEF Matched
  <2>3. ASSUME Remaining(tm, acc.mem, o) > 0
        PROVE  \A s \in Range(next.rest) : ~Crosses(tm, o, s)
    BY <1>3, <1>5, <2>1, <2>3 DEF Trades, Matched
  <2> HIDE DEF next
  <2>4. /\ \A x \in Order \ (R \cup {o}) : next.mem[x] = m[x]
        /\ \A x \in Order : /\ next.mem[x].filled = m[x].filled + ShareOf(next.trades, x)
                            /\ next.mem[x].filled <= tm[x].amount
    BY <2>1 DEF Matched
  <2>5. \A i \in 1 .. Len(next.trades) :
          /\ next.trades[i].amt \in Nat
          /\ \E s \in R : next.trades[i] = TradeOf(tm, o, s, next.trades[i].amt)
    BY <2>1 DEF Matched
  <2>6. Remaining(tm, next.mem, o) > 0 => \A s \in Range(next.rest) : ~Crosses(tm, o, s)
    BY <2>1, <2>3
  <2> QED
    BY <2>2, <2>4, <2>5, <2>6 DEF Matched, next
<1> QED
  BY <1>4, <1>5

LEMMA MatchKeeps ==
    ASSUME NEW tm \in [Order -> Terms], NEW m \in [Order -> Progress], NEW b,
           NEW o \in Order, b[Opposite(tm[o].side)] \in Seq(Order),
           o \notin Range(b[Opposite(tm[o].side)]),
           \A x \in Order : m[x].filled <= tm[x].amount
    PROVE  /\ Match(tm, m, b, o) \in Acc
           /\ Matched(tm, m, o, Range(b[Opposite(tm[o].side)]), Match(tm, m, b, o))
<1> DEFINE q == b[Opposite(tm[o].side)]
           R == Range(q)
<1>8. PICK h : MatchesAlong(tm, m, b, o, q, h)
  BY MatchFold
<1>1. /\ h \in [0 .. Len(q) -> Acc] /\ h[0] = Nothing(m) /\ h[Len(q)] = Match(tm, m, b, o)
      /\ \A k \in 1 .. Len(q) : h[k] = Meet(tm, o, h[k - 1], q[k])
  BY <1>8 DEF MatchesAlong
<1>2. q \in Seq(Order) /\ Len(q) \in Nat
  OBVIOUS
<1> HIDE DEF q
<1>3. R \in SUBSET Order /\ o \notin R /\ \A k \in 1 .. Len(q) : q[k] \in R
  BY <1>2 DEF Range, q
<1> HIDE DEF R
<1> DEFINE G == {k \in Nat : k <= Len(q) => Matched(tm, m, o, R, h[k])}
<1>4. 0 \in G
  <2> DEFINE acc == Nothing(m)
  <2>1. acc.mem = m /\ acc.trades = <<>> /\ acc.rest = <<>>
    BY DEF Nothing
  <2> HIDE DEF acc
  <2>2. \A x \in Order : ShareOf(acc.trades, x) = 0
    <3>1. Len(acc.trades) = 0 /\ 1 .. 0 = {}
      BY <2>1
    <3> QED
      BY <3>1, SumEmpty DEF ShareOf
  <2>3. \A x \in Order : m[x].filled \in Int
    BY RemainingType
  <2>4. Len(acc.trades) = 0 /\ Range(acc.rest) = {}
    BY <2>1 DEF Range
  <2>5. Matched(tm, m, o, R, acc)
    <3>1. \A x \in Order : /\ acc.mem[x].filled = m[x].filled + ShareOf(acc.trades, x)
                           /\ acc.mem[x].filled <= tm[x].amount
      BY <2>1, <2>2, <2>3
    <3>2. \A i \in 1 .. Len(acc.trades) : FALSE
      BY <2>4
    <3> QED
      BY <2>1, <2>4, <3>1, <3>2 DEF Matched
  <2> QED
    BY <1>1, <2>5 DEF acc
<1>5. \A k \in Nat : k \in G => k + 1 \in G
  <2> SUFFICES ASSUME NEW k \in Nat, k \in G, k + 1 <= Len(q)
               PROVE  Matched(tm, m, o, R, h[k + 1])
    OBVIOUS
  <2>1. /\ k \in 0 .. Len(q) /\ k + 1 \in 1 .. Len(q) /\ (k + 1) - 1 = k
        /\ Matched(tm, m, o, R, h[k])
    BY <1>2
  <2>2. h[k + 1] = Meet(tm, o, h[k], q[k + 1]) /\ h[k] \in Acc /\ q[k + 1] \in R
    BY <1>1, <1>3, <2>1
  <2>3. Matched(tm, m, o, R, Meet(tm, o, h[k], q[k + 1]))
    BY <1>3, <2>1, <2>2, MeetKeeps
  <2> QED
    BY <2>2, <2>3
<1>6. Len(q) \in G
  <2> HIDE DEF G
  <2> QED
    BY <1>2, <1>4, <1>5, NatInduct
<1>7. Matched(tm, m, o, R, h[Len(q)]) /\ h[Len(q)] \in Acc
  BY <1>1, <1>2, <1>6
<1> QED
  BY <1>1, <1>7 DEF R, q

BookType == [Side -> Seq(Order)]

Joins(tm, b, o, next) ==
    /\ next \in BookType
    /\ \A side \in Side : \A r \in Range(next[side]) :
          r \in Range(b[side]) \/ (r = o /\ side = tm[o].side)

LEMMA AddJoins ==
    ASSUME NEW tm \in [Order -> Terms], NEW b \in BookType, NEW o \in Order
    PROVE  Joins(tm, b, o, AddOrder(tm, b, o))
<1> DEFINE own == tm[o].side
           q == b[own]
           n == Ahead(tm, q, o)
           all == InsertAt(q, n + 1, o)
<1>1. own \in Side /\ q \in Seq(Order)
  BY DEF Terms, BookType
<1>2. AddOrder(tm, b, o) = [b EXCEPT ![own] = all]
  BY DEF AddOrder
<1> HIDE DEF own, q
<1>3. n \in 0 .. Len(q)
  <2> DEFINE I == {i \in DOMAIN q : AtLeastAsGood(tm[o].side, tm[q[i]].price, tm[o].price)}
  <2>1. IsFiniteSet(1 .. Len(q)) /\ Cardinality(1 .. Len(q)) = Len(q) /\ Len(q) \in Nat
    <3>1. Len(q) \in Nat
      BY <1>1
    <3> QED
      BY <3>1, FS_Interval
  <2>2. I \in SUBSET (1 .. Len(q))
    BY <1>1
  <2>3. n = Cardinality(I)
    BY DEF Ahead
  <2> HIDE DEF I, n
  <2>4. Cardinality(I) \in Nat /\ Cardinality(I) <= Len(q)
    BY <2>1, <2>2, FS_Subset, FS_CardinalityType
  <2> QED
    BY <2>1, <2>3, <2>4
<1>4. all \in Seq(Order) /\ Range(all) \subseteq Range(q) \cup {o}
  <2> HIDE DEF n
  <2> QED
    BY <1>1, <1>3, Inserted
<1> HIDE DEF all
<1>5. AddOrder(tm, b, o) \in BookType
  BY <1>1, <1>2, <1>4 DEF BookType
<1>6. \A side \in Side : AddOrder(tm, b, o)[side] = IF side = own THEN all ELSE b[side]
  BY <1>1, <1>2 DEF BookType
<1> QED
  BY <1>4, <1>5, <1>6 DEF own, q, Joins

LEMMA AddKeeps ==
    ASSUME NEW tm \in [Order -> Terms], NEW b \in BookType, NEW o \in Order
    PROVE  /\ AddOrder(tm, b, o) \in BookType
           /\ \A side \in Side : \A r \in Range(AddOrder(tm, b, o)[side]) :
                 r \in Range(b[side]) \/ (r = o /\ side = tm[o].side)
<1>1. Joins(tm, b, o, AddOrder(tm, b, o))
  BY AddJoins
<1> QED
  BY <1>1 DEF Joins

LEMMA RemoveKeeps ==
    ASSUME NEW tm \in [Order -> Terms], NEW b \in BookType, NEW o \in Order
    PROVE  /\ RemoveOrder(tm, b, o) \in BookType
           /\ \A side \in Side : Range(RemoveOrder(tm, b, o)[side]) \subseteq Range(b[side])
<1> DEFINE own == tm[o].side
           all == RemoveFirst(b[own], o)
<1>1. own \in Side /\ b[own] \in Seq(Order)
  BY DEF Terms, BookType
<1>2. RemoveOrder(tm, b, o) = [b EXCEPT ![own] = all]
  BY DEF RemoveOrder
<1> HIDE DEF own
<1>3. all \in Seq(Order) /\ Range(all) \subseteq Range(b[own])
  BY <1>1, Removed
<1> HIDE DEF all
<1>4. RemoveOrder(tm, b, o) \in BookType
  BY <1>1, <1>2, <1>3 DEF BookType
<1>5. \A side \in Side : RemoveOrder(tm, b, o)[side] = IF side = own THEN all ELSE b[side]
  BY <1>1, <1>2 DEF BookType
<1> QED
  BY <1>3, <1>4, <1>5

(* LoadOpenOrders adds one order after another. *)
LEMMA LoadFold ==
    ASSUME terms \in [Order -> Terms], NEW q \in Seq(Order)
    PROVE  \E h \in [0 .. Len(q) -> BookType] :
               /\ h[0] = EmptyBook /\ h[Len(q)] = LoadOpenOrders(q)
               /\ \A k \in 1 .. Len(q) : h[k] = AddOrder(terms, h[k - 1], q[k])
<1> DEFINE S == DOMAIN q
           base == EmptyBook
           pick == [s \in SUBSET S |-> Max(s)]
           step == [k \in S |-> [acc \in BookType |-> AddOrder(terms, acc, q[k])]]
           Folds(g) == g = [s \in SUBSET S |-> IF s = {} THEN base
                               ELSE AddOrder(terms, g[s \ {Max(s)}], q[Max(s)])]
           it == CHOOSE g : Folds(g)
<1>1. LoadOpenOrders(q) = it[S]
  BY DEF FoldLeft, MapThenFoldSet, LoadOpenOrders
<1>2. Len(q) \in Nat /\ S = 1 .. Len(q)
  OBVIOUS
<1>3. base \in BookType
  BY DEF EmptyBook, BookType
<1>4. step \in [S -> [BookType -> BookType]]
  BY <1>2, AddKeeps
<1>5. \A s \in SUBSET S : s # {} => Max(s) \in s
  BY <1>2, MaxOf
<1>6. PICK g \in [SUBSET S -> BookType] : FoldsTo(S, pick, base, step, g)
  <2>1. \E g \in [SUBSET S -> BookType] : FoldsTo(S, pick, base, step, g)
    <3>1. IsFiniteSet(S)
      BY <1>2, FS_Interval
    <3>2. \A s \in SUBSET S : s # {} => pick[s] \in s
      BY <1>5
    <3> DEFINE A == BookType
    <3> HIDE DEF S, pick, base, step, A
    <3>3. \E g \in [SUBSET S -> A] : FoldsTo(S, pick, base, step, g)
      BY <1>3, <1>4, <3>1, <3>2, FoldExists DEF A
    <3> QED
      BY <3>3 DEF A
  <2> QED
    BY <2>1
<1>7. Folds(g)
  <2>1. \A s \in SUBSET S : s # {} =>
           step[pick[s]][g[s \ {pick[s]}]] = AddOrder(terms, g[s \ {Max(s)}], q[Max(s)])
    <3> SUFFICES ASSUME NEW s \in SUBSET S, s # {}
                 PROVE  step[pick[s]][g[s \ {pick[s]}]] = AddOrder(terms, g[s \ {Max(s)}], q[Max(s)])
      OBVIOUS
    <3>1. pick[s] = Max(s) /\ Max(s) \in S /\ s \ {Max(s)} \in SUBSET S
      BY <1>5
    <3>2. g[s \ {Max(s)}] \in BookType
      BY <3>1
    <3> QED
      BY <3>1, <3>2
  <2>2. g = [s \in SUBSET S |-> IF s = {} THEN base ELSE step[pick[s]][g[s \ {pick[s]}]]]
    BY <1>6 DEF FoldsTo
  <2> HIDE DEF S, pick, base, step
  <2> QED
    BY <2>1, <2>2
<1>8. Folds(it)
  <2> HIDE DEF Folds
  <2> QED
    BY <1>7
<1>9. /\ it[{}] = base
      /\ \A s \in SUBSET S : s # {} => it[s] = AddOrder(terms, it[s \ {Max(s)}], q[Max(s)])
  <2> HIDE DEF it, S, base
  <2>1. {} \in SUBSET S
    OBVIOUS
  <2> QED
    BY <1>8, <2>1
<1>10. \A s \in SUBSET S : s # {} /\ it[s \ {Max(s)}] \in BookType =>
          it[s] = step[Max(s)][it[s \ {Max(s)}]]
  <2> HIDE DEF it, base
  <2>1. \A s \in SUBSET S : s # {} => Max(s) \in S
    BY <1>5
  <2> HIDE DEF S
  <2> QED
    BY <1>9, <2>1
<1>11. StepsTo(Len(q), BookType, base, step, it[1 .. Len(q)])
  <2> DEFINE n == Len(q)
             A == BookType
  <2> HIDE DEF it, base, step, A
  <2>1. \A s \in SUBSET (1 .. n) : s # {} /\ it[s \ {Max(s)}] \in A =>
           it[s] = step[Max(s)][it[s \ {Max(s)}]]
    BY <1>2, <1>10 DEF A
  <2>2. FoldsBy(n, A, base, step, it)
    BY <1>9, <2>1 DEF FoldsBy
  <2>3. n \in Nat /\ base \in A /\ step \in [1 .. n -> [A -> A]]
    BY <1>2, <1>3, <1>4 DEF A
  <2> HIDE DEF n
  <2>4. StepsTo(n, A, base, step, it[1 .. n])
    BY <2>2, <2>3, FoldAlong
  <2> QED
    BY <2>4 DEF n, A
<1>12. PICK h \in [0 .. Len(q) -> BookType] :
          /\ h[0] = base /\ h[Len(q)] = it[1 .. Len(q)]
          /\ \A k \in 1 .. Len(q) : h[k] = step[k][h[k - 1]]
  <2> HIDE DEF it, base, step
  <2> QED
    BY <1>11 DEF StepsTo
<1>13. \A k \in 1 .. Len(q) : h[k] = AddOrder(terms, h[k - 1], q[k])
  <2>1. \A k \in 1 .. Len(q) : k - 1 \in 0 .. Len(q) /\ h[k - 1] \in BookType
    BY <1>2
  <2> QED
    BY <1>2, <1>12, <2>1
<1> HIDE DEF it
<1>14. h[Len(q)] = LoadOpenOrders(q)
  BY <1>1, <1>2, <1>12
<1> QED
  BY <1>12, <1>13, <1>14

LEMMA LoadKeeps ==
    ASSUME terms \in [Order -> Terms], NEW q \in Seq(Order)
    PROVE  /\ LoadOpenOrders(q) \in BookType
           /\ \A side \in Side : \A r \in Range(LoadOpenOrders(q)[side]) :
                 r \in Range(q) /\ terms[r].side = side
<1>1. PICK h \in [0 .. Len(q) -> BookType] :
         /\ h[0] = EmptyBook /\ h[Len(q)] = LoadOpenOrders(q)
         /\ \A k \in 1 .. Len(q) : h[k] = AddOrder(terms, h[k - 1], q[k])
  BY LoadFold
<1> DEFINE Good(b) == \A side \in Side : \A r \in Range(b[side]) :
                         r \in Range(q) /\ terms[r].side = side
           G == {k \in Nat : k <= Len(q) => Good(h[k])}
<1>2. Len(q) \in Nat /\ \A k \in 1 .. Len(q) : q[k] \in Order /\ q[k] \in Range(q)
  BY DEF Range
<1>3. 0 \in G
  BY <1>1 DEF EmptyBook, Range
<1>4. \A k \in Nat : k \in G => k + 1 \in G
  <2> SUFFICES ASSUME NEW k \in Nat, k \in G
               PROVE  k + 1 \in G
    OBVIOUS
  <2> SUFFICES ASSUME k + 1 <= Len(q)
               PROVE  Good(h[k + 1])
    <3>1. k + 1 \in Nat
      OBVIOUS
    <3> HIDE DEF Good
    <3> QED
      BY <3>1
  <2>1. k \in 0 .. Len(q) /\ k + 1 \in 1 .. Len(q) /\ (k + 1) - 1 = k /\ Good(h[k])
    BY <1>2
  <2> HIDE DEF G
  <2>2. h[k + 1] = AddOrder(terms, h[k], q[k + 1]) /\ h[k] \in BookType
    BY <1>1, <2>1
  <2> DEFINE b == h[k]
             c == h[k + 1]
             e == q[k + 1]
  <2>3. e \in Order /\ e \in Range(q) /\ b \in BookType /\ c = AddOrder(terms, b, e) /\ Good(b)
    BY <1>2, <2>1, <2>2
  <2> HIDE DEF b, c, e
  <2>7. e \in Order /\ b \in BookType
    BY <2>3
  <2>8. Joins(terms, b, e, AddOrder(terms, b, e))
    BY <2>7, AddJoins
  <2>6. \A side \in Side : \A r \in Range(AddOrder(terms, b, e)[side]) :
           r \in Range(b[side]) \/ (r = e /\ side = terms[e].side)
    BY <2>8 DEF Joins
  <2>4. \A side \in Side : \A r \in Range(c[side]) :
           r \in Range(b[side]) \/ (r = e /\ side = terms[e].side)
    BY <2>3, <2>6
  <2>5. Good(c)
    BY <2>3, <2>4
  <2> QED
    BY <2>5 DEF c
<1>5. Len(q) \in G
  <2> HIDE DEF G
  <2> QED
    BY <1>2, <1>3, <1>4, NatInduct
<1> QED
  BY <1>1, <1>2, <1>5

-----------------------------------------------------------------------------
(* Rolling back *)

UndoAcc == [mem : [Order -> Progress], book : BookType]

LEMMA RevertType ==
    ASSUME NEW m \in [Order -> Progress], NEW o \in Order, NEW qty \in Int
    PROVE  /\ Revert(m, o, qty) \in [Order -> Progress]
           /\ Revert(m, o, qty)[o].filled = m[o].filled - qty
           /\ \A x \in Order \ {o} : Revert(m, o, qty)[x] = m[x]
<1> DEFINE e == [filled |-> m[o].filled - qty, status |-> StatusAfter(m[o].filled - qty)]
<1>1. m[o].filled - qty \in Int
  BY DEF Progress
<1>2. e \in Progress /\ e.filled = m[o].filled - qty
  BY <1>1 DEF Progress, Status, StatusAfter
<1>3. Revert(m, o, qty) = [m EXCEPT ![o] = e]
  BY DEF Revert
<1> HIDE DEF e
<1> QED
  BY <1>2, <1>3

RestingOrder(t, o) == IF terms[o].side = "BUY" THEN t.sell ELSE t.buy

UndoneOnce(acc, t, o, r, next) ==
    /\ next \in UndoAcc
    /\ r # o => next.mem[r].filled = acc.mem[r].filled - t.amt
    /\ \A x \in Order \ {o, r} : next.mem[x] = acc.mem[x]
    /\ \A side \in Side : \A x \in Range(next.book[side]) :
          x \in Range(acc.book[side]) \/ (x = r /\ side = terms[r].side)

LEMMA UnmatchKeeps ==
    ASSUME terms \in [Order -> Terms], NEW acc \in UndoAcc, NEW t \in Trade, ~Synthetic(t),
           NEW o \in Order
    PROVE  UndoneOnce(acc, t, o, RestingOrder(t, o), Unmatch(acc, t, o))
<1> DEFINE r == RestingOrder(t, o)
           next == Unmatch(acc, t, o)
           one == Revert(acc.mem, o, t.amt)
           both == Revert(one, r, t.amt)
<1>1. r \in Order /\ t.amt \in Int
  BY DEF RestingOrder, Trade, Synthetic
<1>2. acc.mem \in [Order -> Progress] /\ acc.book \in BookType
  BY DEF UndoAcc
<1>3. next = [mem |-> both,
              book |-> IF both[r].status = "OPEN" THEN AddOrder(terms, acc.book, r) ELSE acc.book]
  BY DEF Unmatch, RestingOrder
<1> HIDE DEF r
<1>4. /\ one \in [Order -> Progress]
      /\ \A x \in Order \ {o} : one[x] = acc.mem[x]
  <2> DEFINE a == acc.mem
  <2>1. a \in [Order -> Progress]
    BY <1>2
  <2> HIDE DEF a
  <2>2. /\ Revert(a, o, t.amt) \in [Order -> Progress]
        /\ \A x \in Order \ {o} : Revert(a, o, t.amt)[x] = a[x]
    BY <1>1, <2>1, RevertType
  <2> QED
    BY <2>2 DEF a
<1> HIDE DEF one
<1>5. /\ both \in [Order -> Progress] /\ both[r].filled = one[r].filled - t.amt
      /\ \A x \in Order \ {r} : both[x] = one[x]
  BY <1>1, <1>4, RevertType
<1> HIDE DEF both
<1>6. /\ AddOrder(terms, acc.book, r) \in BookType
      /\ \A side \in Side : \A x \in Range(AddOrder(terms, acc.book, r)[side]) :
            x \in Range(acc.book[side]) \/ (x = r /\ side = terms[r].side)
  <2> DEFINE b == acc.book
  <2>1. b \in BookType
    BY <1>2
  <2> HIDE DEF b
  <2>2. Joins(terms, b, r, AddOrder(terms, b, r))
    BY <1>1, <2>1, AddJoins
  <2> QED
    BY <2>2 DEF Joins, b
<1>7. next.mem = both /\ next \in UndoAcc
  BY <1>2, <1>3, <1>5, <1>6 DEF UndoAcc
<1>8. \A side \in Side : \A x \in Range(next.book[side]) :
         x \in Range(acc.book[side]) \/ (x = r /\ side = terms[r].side)
  BY <1>3, <1>6
<1> HIDE DEF next
<1>9. r # o => next.mem[r].filled = acc.mem[r].filled - t.amt
  BY <1>1, <1>4, <1>5, <1>7
<1>10. \A x \in Order \ {o, r} : next.mem[x] = acc.mem[x]
  BY <1>1, <1>4, <1>5, <1>7
<1>11. UndoneOnce(acc, t, o, r, next)
  BY <1>7, <1>8, <1>9, <1>10 DEF UndoneOnce
<1> QED
  BY <1>11 DEF next, r

LEMMA UndoType ==
    ASSUME terms \in [Order -> Terms], NEW acc \in UndoAcc, NEW t \in Trade, NEW o \in Order
    PROVE  (IF Synthetic(t) THEN acc ELSE Unmatch(acc, t, o)) \in UndoAcc
BY UnmatchKeeps DEF UndoneOnce

(* rollbackTrades undoes one trade after another. *)
LEMMA UnmatchedFold ==
    ASSUME terms \in [Order -> Terms], mem \in [Order -> Progress], book \in BookType,
           NEW q \in Seq(Trade), NEW o \in Order
    PROVE  \E h \in [0 .. Len(q) -> UndoAcc] :
               /\ h[0] = [mem |-> mem, book |-> book] /\ h[Len(q)] = Unmatched(q, o)
               /\ \A k \in 1 .. Len(q) : h[k] = (IF Synthetic(q[k]) THEN h[k - 1] ELSE Unmatch(h[k - 1], q[k], o))
<1> DEFINE S == DOMAIN q
           base == [mem |-> mem, book |-> book]
           pick == [s \in SUBSET S |-> Max(s)]
           step == [k \in S |-> [acc \in UndoAcc |-> (IF Synthetic(q[k]) THEN acc ELSE Unmatch(acc, q[k], o))]]
           Folds(g) == g = [s \in SUBSET S |-> IF s = {} THEN base
                               ELSE (IF Synthetic(q[Max(s)]) THEN g[s \ {Max(s)}] ELSE Unmatch(g[s \ {Max(s)}], q[Max(s)], o))]
           it == CHOOSE g : Folds(g)
<1>1. Unmatched(q, o) = it[S]
  BY DEF FoldLeft, MapThenFoldSet, Unmatched
<1>2. Len(q) \in Nat /\ S = 1 .. Len(q)
  OBVIOUS
<1>3. base \in UndoAcc
  BY DEF UndoAcc
<1>4. step \in [S -> [UndoAcc -> UndoAcc]]
  <2>1. \A k \in S : q[k] \in Trade
    BY <1>2
  <2> QED
    BY <2>1, UndoType
<1>5. \A s \in SUBSET S : s # {} => Max(s) \in s
  BY <1>2, MaxOf
<1>6. PICK g \in [SUBSET S -> UndoAcc] : FoldsTo(S, pick, base, step, g)
  <2>1. \E g \in [SUBSET S -> UndoAcc] : FoldsTo(S, pick, base, step, g)
    <3>1. IsFiniteSet(S)
      BY <1>2, FS_Interval
    <3>2. \A s \in SUBSET S : s # {} => pick[s] \in s
      BY <1>5
    <3> DEFINE A == UndoAcc
    <3> HIDE DEF S, pick, base, step, A
    <3>3. \E g \in [SUBSET S -> A] : FoldsTo(S, pick, base, step, g)
      BY <1>3, <1>4, <3>1, <3>2, FoldExists DEF A
    <3> QED
      BY <3>3 DEF A
  <2> QED
    BY <2>1
<1>7. Folds(g)
  <2>1. \A s \in SUBSET S : s # {} =>
           step[pick[s]][g[s \ {pick[s]}]] = (IF Synthetic(q[Max(s)]) THEN g[s \ {Max(s)}] ELSE Unmatch(g[s \ {Max(s)}], q[Max(s)], o))
    <3> SUFFICES ASSUME NEW s \in SUBSET S, s # {}
                 PROVE  step[pick[s]][g[s \ {pick[s]}]] = (IF Synthetic(q[Max(s)]) THEN g[s \ {Max(s)}] ELSE Unmatch(g[s \ {Max(s)}], q[Max(s)], o))
      OBVIOUS
    <3>1. pick[s] = Max(s) /\ Max(s) \in S /\ s \ {Max(s)} \in SUBSET S
      BY <1>5
    <3>2. g[s \ {Max(s)}] \in UndoAcc
      BY <3>1
    <3> QED
      BY <3>1, <3>2
  <2>2. g = [s \in SUBSET S |-> IF s = {} THEN base ELSE step[pick[s]][g[s \ {pick[s]}]]]
    BY <1>6 DEF FoldsTo
  <2> HIDE DEF S, pick, base, step
  <2> QED
    BY <2>1, <2>2
<1>8. Folds(it)
  <2> HIDE DEF Folds
  <2> QED
    BY <1>7
<1>9. /\ it[{}] = base
      /\ \A s \in SUBSET S : s # {} => it[s] = (IF Synthetic(q[Max(s)]) THEN it[s \ {Max(s)}] ELSE Unmatch(it[s \ {Max(s)}], q[Max(s)], o))
  <2> HIDE DEF it, S, base
  <2>1. {} \in SUBSET S
    OBVIOUS
  <2> QED
    BY <1>8, <2>1
<1>10. \A s \in SUBSET S : s # {} /\ it[s \ {Max(s)}] \in UndoAcc =>
          it[s] = step[Max(s)][it[s \ {Max(s)}]]
  <2> HIDE DEF it, base
  <2>1. \A s \in SUBSET S : s # {} => Max(s) \in S
    BY <1>5
  <2> HIDE DEF S
  <2> QED
    BY <1>9, <2>1
<1>11. StepsTo(Len(q), UndoAcc, base, step, it[1 .. Len(q)])
  <2> DEFINE n == Len(q)
             A == UndoAcc
  <2> HIDE DEF it, base, step, A
  <2>1. \A s \in SUBSET (1 .. n) : s # {} /\ it[s \ {Max(s)}] \in A =>
           it[s] = step[Max(s)][it[s \ {Max(s)}]]
    BY <1>2, <1>10 DEF A
  <2>2. FoldsBy(n, A, base, step, it)
    BY <1>9, <2>1 DEF FoldsBy
  <2>3. n \in Nat /\ base \in A /\ step \in [1 .. n -> [A -> A]]
    BY <1>2, <1>3, <1>4 DEF A
  <2> HIDE DEF n
  <2>4. StepsTo(n, A, base, step, it[1 .. n])
    BY <2>2, <2>3, FoldAlong
  <2> QED
    BY <2>4 DEF n, A
<1>12. PICK h \in [0 .. Len(q) -> UndoAcc] :
          /\ h[0] = base /\ h[Len(q)] = it[1 .. Len(q)]
          /\ \A k \in 1 .. Len(q) : h[k] = step[k][h[k - 1]]
  <2> HIDE DEF it, base, step
  <2> QED
    BY <1>11 DEF StepsTo
<1>13. \A k \in 1 .. Len(q) : h[k] = (IF Synthetic(q[k]) THEN h[k - 1] ELSE Unmatch(h[k - 1], q[k], o))
  <2>1. \A k \in 1 .. Len(q) : k - 1 \in 0 .. Len(q) /\ h[k - 1] \in UndoAcc
    BY <1>2
  <2> QED
    BY <1>2, <1>12, <2>1
<1> HIDE DEF it
<1>14. h[Len(q)] = Unmatched(q, o)
  BY <1>1, <1>2, <1>12
<1> QED
  BY <1>12, <1>13, <1>14

(* What is left of it from the j-th trade on. *)
FromAt(trades, x, j) == [i \in 1 .. Len(trades) |-> IF i >= j THEN Deal(trades[i], x) ELSE 0]
ShareFrom(trades, x, j) == Sum(FromAt(trades, x, j), 1 .. Len(trades))

LEMMA DealType ==
    ASSUME NEW t \in Trade, NEW x
    PROVE  Deal(t, x) \in Int
BY DEF Deal, Trade

LEMMA ShareFromType ==
    ASSUME NEW trades \in Seq(Trade), NEW x, NEW j \in Int
    PROVE  /\ \A i \in 1 .. Len(trades) : FromAt(trades, x, j)[i] \in Int
           /\ ShareFrom(trades, x, j) \in Int
<1>1. \A i \in 1 .. Len(trades) : FromAt(trades, x, j)[i] \in Int
  BY TradeFields, DealType DEF FromAt
<1> QED
  BY <1>1, TradeFields, SumType DEF ShareFrom

LEMMA ShareFromStep ==
    ASSUME NEW trades \in Seq(Trade), NEW x, NEW j \in 1 .. Len(trades)
    PROVE  ShareFrom(trades, x, j) = ShareFrom(trades, x, j + 1) + Deal(trades[j], x)
<1> DEFINE S == 1 .. Len(trades)
           f == FromAt(trades, x, j + 1)
           g == FromAt(trades, x, j)
<1>1. IsFiniteSet(S) /\ \A i \in S : f[i] \in Int /\ g[i] \in Int
  BY TradeFields, ShareFromType
<1>2. f[j] = 0 /\ g[j] = Deal(trades[j], x)
  BY DEF FromAt
<1>3. \A i \in S \ {j} : g[i] = f[i]
  BY DEF FromAt
<1>4. Sum(f, S) \in Int
  BY <1>1, SumType
<1>5. j \in S /\ g[j] \in Int
  BY <1>1
<1>6. Sum(g, S) = Sum(f, S) - f[j] + g[j]
  <2> DEFINE y == j
  <2>1. y \in S /\ \A i \in S \ {y} : g[i] = f[i]
    BY <1>3
  <2> HIDE DEF S, f, g, y
  <2>2. Sum(g, S) = Sum(f, S) - f[y] + g[y]
    BY <1>1, <2>1, SumChange
  <2> QED
    BY <2>2 DEF y
<1> HIDE DEF S, f, g
<1>7. Sum(g, S) = Sum(f, S) + g[j]
  BY <1>2, <1>4, <1>5, <1>6
<1> QED
  BY <1>2, <1>7 DEF ShareFrom, S, f, g

LEMMA ShareFromEnd ==
    ASSUME NEW trades \in Seq(Trade), NEW x, NEW j \in Int, j > Len(trades)
    PROVE  ShareFrom(trades, x, j) = 0
<1>1. \A i \in 1 .. Len(trades) : FromAt(trades, x, j)[i] = 0
  BY TradeFields DEF FromAt
<1> QED
  BY <1>1, TradeFields, SumZero DEF ShareFrom

LEMMA ShareFromFirst ==
    ASSUME NEW trades \in Seq(Trade), NEW x
    PROVE  ShareFrom(trades, x, 1) = ShareOf(trades, x)
<1> DEFINE f == [i \in 1 .. Len(trades) |-> Deal(trades[i], x)]
<1>1. \A i \in 1 .. Len(trades) :
         FromAt(trades, x, 1)[i] \in Int /\ FromAt(trades, x, 1)[i] = f[i]
  <2>1. \A i \in 1 .. Len(trades) : FromAt(trades, x, 1)[i] \in Int
    BY ShareFromType
  <2>2. \A i \in 1 .. Len(trades) : FromAt(trades, x, 1)[i] = f[i]
    BY DEF FromAt
  <2> QED
    BY <2>1, <2>2
<1>2. Sum(FromAt(trades, x, 1), 1 .. Len(trades)) = Sum(f, 1 .. Len(trades))
  <2> HIDE DEF f
  <2> QED
    BY <1>1, TradeFields, SumSame
<1> QED
  BY <1>2 DEF ShareFrom, ShareOf

(* A trade that a match of o has made: with an order of the other side. *)
MetBy(o, t) == \E r \in Order \ {o} : t = TradeOf(terms, o, r, t.amt)

LEMMA MetTrade ==
    ASSUME NEW o \in Order, NEW t, MetBy(o, t)
    PROVE  /\ RestingOrder(t, o) \in Order \ {o} /\ Parties(t) = {o, RestingOrder(t, o)}
           /\ ~Synthetic(t)
<1>1. PICK r \in Order \ {o} : t = TradeOf(terms, o, r, t.amt)
  BY DEF MetBy
<1>2. Parties(t) = {o, r} /\ ~Synthetic(t)
  BY <1>1, PartiesOfTrade
<1>3. RestingOrder(t, o) = r
  BY <1>1 DEF RestingOrder, TradeOf
<1> QED
  BY <1>2, <1>3

(* After the trades before the j-th are undone. *)
UndoneTo(trades, o, from, j, acc) ==
    /\ \A x \in Order \ {o} :
          acc.mem[x].filled = mem[x].filled - ShareFrom(trades, x, from) + ShareFrom(trades, x, j)
    /\ \A x \in Order \ {o} :
          (\A i \in from .. Len(trades) : x \notin Parties(trades[i])) => acc.mem[x] = mem[x]
    /\ \A side \in Side : \A r \in Range(acc.book[side]) :
          \/ r \in Range(book[side])
          \/ /\ terms[r].side = side
             /\ \E i \in from .. Len(trades) : ~Synthetic(trades[i]) /\ r \in Parties(trades[i]) \ {o}

LEMMA UndoOne ==
    ASSUME terms \in [Order -> Terms], mem \in [Order -> Progress], book \in BookType,
           NEW trades \in Seq(Trade), NEW o \in Order, NEW from \in 1 .. Len(trades),
           NEW j \in from .. Len(trades), NEW acc \in UndoAcc, NEW next,
           Synthetic(trades[j]) \/ MetBy(o, trades[j]),
           next = IF Synthetic(trades[j]) THEN acc ELSE Unmatch(acc, trades[j], o),
           UndoneTo(trades, o, from, j, acc)
    PROVE  UndoneTo(trades, o, from, j + 1, next)
<1> DEFINE t == trades[j]
<1>1. Len(trades) \in Nat /\ j \in 1 .. Len(trades) /\ t \in Trade
  BY TradeFields
<1>2. \A x : /\ ShareFrom(trades, x, j) = ShareFrom(trades, x, j + 1) + Deal(t, x)
             /\ ShareFrom(trades, x, j) \in Int /\ ShareFrom(trades, x, j + 1) \in Int
             /\ ShareFrom(trades, x, from) \in Int /\ Deal(t, x) \in Int
  BY <1>1, ShareFromStep, ShareFromType, DealType
<1> HIDE DEF t
<1>3. \A x \in Order : acc.mem[x].filled \in Int /\ mem[x].filled \in Int
  BY DEF UndoAcc, Progress
<1>4. CASE Synthetic(t)
  <2>1. next = acc
    BY <1>4 DEF t
  <2>2. \A x : Deal(t, x) = 0
    BY <1>4 DEF Deal
  <2>3. \A x : ShareFrom(trades, x, j + 1) = ShareFrom(trades, x, j)
    BY <1>2, <2>2
  <2> QED
    BY <2>1, <2>3 DEF UndoneTo
<1>5. CASE ~Synthetic(t)
  <2> DEFINE r == RestingOrder(t, o)
  <2>1. r \in Order /\ r # o /\ Parties(t) = {o, r}
    BY <1>5, MetTrade DEF t
  <2>2. next = Unmatch(acc, t, o)
    BY <1>5 DEF t
  <2>3. /\ next.mem[r].filled = acc.mem[r].filled - t.amt
        /\ \A x \in Order \ {o, r} : next.mem[x] = acc.mem[x]
        /\ \A side \in Side : \A x \in Range(next.book[side]) :
              x \in Range(acc.book[side]) \/ (x = r /\ side = terms[r].side)
    <3>1. UndoneOnce(acc, t, o, r, next)
      BY <1>1, <1>5, <2>2, UnmatchKeeps
    <3> HIDE DEF r
    <3> QED
      BY <2>1, <3>1 DEF UndoneOnce
  <2> HIDE DEF r
  <2>4. Deal(t, r) = t.amt /\ \A x \in Order \ {o, r} : Deal(t, x) = 0
    BY <1>5, <2>1 DEF Deal
  <2>5. ASSUME NEW x \in Order \ {o}
        PROVE  next.mem[x].filled
                 = mem[x].filled - ShareFrom(trades, x, from) + ShareFrom(trades, x, j + 1)
    <3>1. acc.mem[x].filled = mem[x].filled - ShareFrom(trades, x, from) + ShareFrom(trades, x, j)
      BY DEF UndoneTo
    <3>2. next.mem[x].filled = acc.mem[x].filled - Deal(t, x)
      BY <1>3, <2>1, <2>3, <2>4
    <3> QED
      BY <1>2, <1>3, <3>1, <3>2
  <2>6. ASSUME NEW x \in Order \ {o}, \A i \in from .. Len(trades) : x \notin Parties(trades[i])
        PROVE  next.mem[x] = mem[x]
    <3>1. x # r
      BY <1>1, <2>1, <2>6 DEF t
    <3>2. acc.mem[x] = mem[x]
      BY <2>6 DEF UndoneTo
    <3> QED
      BY <2>3, <3>1, <3>2
  <2>7. ASSUME NEW side \in Side, NEW x \in Range(next.book[side])
        PROVE  \/ x \in Range(book[side])
               \/ /\ terms[x].side = side
                  /\ \E i \in from .. Len(trades) :
                        ~Synthetic(trades[i]) /\ x \in Parties(trades[i]) \ {o}
    <3>1. CASE x \in Range(acc.book[side])
      BY <3>1 DEF UndoneTo
    <3>2. CASE x = r /\ side = terms[r].side
      BY <1>5, <2>1, <3>2 DEF t
    <3> QED
      BY <2>3, <3>1, <3>2
  <2> QED
    BY <2>5, <2>6, <2>7 DEF UndoneTo
<1> QED
  BY <1>4, <1>5

LEMMA UnmatchedKeeps ==
    ASSUME terms \in [Order -> Terms], mem \in [Order -> Progress], book \in BookType,
           NEW trades \in Seq(Trade), NEW o \in Order, NEW from \in 1 .. Len(trades),
           \A i \in from .. Len(trades) : Synthetic(trades[i]) \/ MetBy(o, trades[i])
    PROVE  LET all == Unmatched(SubSeq(trades, from, Len(trades)), o) IN
           /\ all \in UndoAcc
           /\ UndoneTo(trades, o, from, Len(trades) + 1, all)
<1> DEFINE q == SubSeq(trades, from, Len(trades))
           n == Len(trades) - from + 1
<1>1. Len(trades) \in Nat /\ n \in Nat /\ n = Len(trades) - from + 1
  BY TradeFields
<1>2. q \in Seq(Trade) /\ Len(q) = n /\ \A k \in 1 .. n : q[k] = trades[from + k - 1]
  <2>1. q = [i \in 1 .. n |-> trades[i + from - 1]]
    BY <1>1 DEF SubSeq
  <2>2. \A k \in 1 .. n : k + from - 1 = from + k - 1 /\ k + from - 1 \in 1 .. Len(trades)
    BY <1>1
  <2>3. q \in Seq(Trade)
    BY <1>1, Part
  <2> HIDE DEF q, n
  <2>4. Len(q) = n /\ \A k \in 1 .. n : q[k] = trades[k + from - 1]
    BY <1>1, <2>1, <2>3
  <2> QED
    BY <2>2, <2>3, <2>4
<1> HIDE DEF q, n
<1>3. PICK h \in [0 .. Len(q) -> UndoAcc] :
         /\ h[0] = [mem |-> mem, book |-> book] /\ h[Len(q)] = Unmatched(q, o)
         /\ \A k \in 1 .. Len(q) :
               h[k] = (IF Synthetic(q[k]) THEN h[k - 1] ELSE Unmatch(h[k - 1], q[k], o))
  BY <1>2, UnmatchedFold
<1> DEFINE G == {k \in Nat : k <= n => UndoneTo(trades, o, from, from + k, h[k])}
<1>4. 0 \in G
  <2> DEFINE acc == [mem |-> mem, book |-> book]
  <2>1. \A x \in Order : mem[x].filled \in Int /\ ShareFrom(trades, x, from) \in Int
    BY ShareFromType DEF Progress
  <2>2. UndoneTo(trades, o, from, from, acc)
    BY <2>1 DEF UndoneTo
  <2>3. from + 0 = from
    OBVIOUS
  <2> HIDE DEF acc
  <2> QED
    BY <1>3, <2>2, <2>3 DEF acc
<1>5. \A k \in Nat : k \in G => k + 1 \in G
  <2> SUFFICES ASSUME NEW k \in Nat, k \in G, k + 1 <= n
               PROVE  UndoneTo(trades, o, from, from + (k + 1), h[k + 1])
    OBVIOUS
  <2> DEFINE j == from + k
             acc == h[k]
             next == h[k + 1]
  <2>1. /\ k \in 0 .. n /\ k + 1 \in 1 .. n /\ (k + 1) - 1 = k /\ from + (k + 1) - 1 = j
        /\ j \in from .. Len(trades) /\ from + (k + 1) = j + 1
    BY <1>1
  <2>8. acc \in UndoAcc
    BY <1>2, <2>1
  <2>9. UndoneTo(trades, o, from, j, acc)
    <3>1. k <= n
      BY <2>1
    <3> QED
      BY <3>1
  <2>2. acc \in UndoAcc /\ UndoneTo(trades, o, from, j, acc)
    BY <2>8, <2>9
  <2>3. q[k + 1] = trades[j]
    BY <1>2, <2>1
  <2>4. next = IF Synthetic(q[k + 1]) THEN acc ELSE Unmatch(acc, q[k + 1], o)
    BY <1>2, <1>3, <2>1
  <2> HIDE DEF acc, next, j
  <2>5. next = IF Synthetic(trades[j]) THEN acc ELSE Unmatch(acc, trades[j], o)
    BY <2>3, <2>4
  <2>6. Synthetic(trades[j]) \/ MetBy(o, trades[j])
    BY <2>1
  <2>7. UndoneTo(trades, o, from, j + 1, next)
    BY <2>1, <2>2, <2>5, <2>6, UndoOne
  <2> QED
    BY <2>1, <2>7 DEF next
<1>6. n \in G
  <2> HIDE DEF G
  <2> QED
    BY <1>1, <1>4, <1>5, NatInduct
<1>7. UndoneTo(trades, o, from, from + n, h[n]) /\ h[n] \in UndoAcc
  BY <1>1, <1>2, <1>6
<1>8. from + n = Len(trades) + 1
  BY <1>1
<1> QED
  BY <1>2, <1>3, <1>7, <1>8 DEF q

-----------------------------------------------------------------------------
(* The invariant *)

Inside == {"leg", "undo", "tail", "price", "rollback", "add", "publish"}
Paying == {"leg", "undo", "tail", "rollback"}
Created == 1 .. lastId

Rests(r) == \E side \in Side : r \in Range(book[side])

(* The orders a goroutine works on, from the row on. *)
Claims(k) == IF k.pc \in Inside \cup {"match"}
             THEN {k.order} \cup UNION {Parties(t) : t \in Range(k.trades)} ELSE {}

Within(u) == u.order \in Created /\ u.filled <= terms[u.order].amount

(* A trade with a resting order; what is left of a MARKET order, filled at *)
(* the market price.                                                       *)
Meeting(o, t) == \E r \in Created : /\ terms[r].side = Opposite(terms[o].side)
                                    /\ terms[r].type = "LIMIT"
                                    /\ t = TradeOf(terms, o, r, t.amt)
Filling(o, t) == /\ t.buy = IF terms[o].side = "BUY" THEN o ELSE None
                 /\ t.sell = IF terms[o].side = "SELL" THEN o ELSE None
LegCount(t) == (IF t.buy = None THEN 0 ELSE 2) + (IF t.sell = None THEN 0 ELSE 2)

(* A goroutine inside the mutex. *)
Settling(k) ==
    LET n == Len(k.trades) IN
    /\ \A i \in 1 .. n :
          /\ k.trades[i].amt \in Nat
          /\ \/ Meeting(k.order, k.trades[i])
             \/ Filling(k.order, k.trades[i]) /\ i = n /\ k.pc \in Paying \cup {"publish"}
    /\ k.at \in 1 .. n + 1
    /\ k.pc \in {"price", "add", "publish"} => k.at = n + 1
    /\ k.pc \in Paying => k.at <= n /\ k.leg \in 1 .. LegCount(k.trades[k.at])
    /\ k.pc = "undo" => k.undo \in 1 .. k.leg - 1
    /\ k.pc \in Paying \cup {"price"} => mem[k.order].filled = ShareOf(k.trades, k.order)
    /\ k.pc \in Paying => \A i \in 1 .. n : Synthetic(k.trades[i]) =>
          k.trades[i].amt = Remaining(terms, mem, k.order)

Sound(k) ==
    /\ k.pc \notin {"idle", "create"} => /\ k.order \in Created
                                         /\ k.seen.filled <= terms[k.order].amount
    /\ \A i \in 1 .. Len(k.out) : Within(k.out[i])
    /\ k.pc = "match" => k.trades = <<>> /\ mem[k.order].filled = 0 /\ ~Rests(k.order)
    /\ k.pc \in Inside => Settling(k)

Creating == {q \in Proc : job[q].pc = "create"}
Numbered ==
    /\ lastId + Cardinality(Creating) <= here.orders
    /\ \A x \in Order : x > lastId => /\ mem[x] = NoProgress /\ row[x] = NoProgress
                                      /\ terms[x] = NoTerms /\ settled[x] = 0
RowsWithin ==
    /\ \A x \in Order : mem[x].filled <= terms[x].amount /\ row[x].filled <= terms[x].amount
    /\ \A i \in 1 .. Len(updates) : Within(updates[i])
BookSound == \A side \in Side : \A r \in Range(book[side]) :
                r \in Created /\ terms[r].side = side /\ terms[r].type = "LIMIT"
OneInside == \A p \in Proc : job[p].pc \in Inside <=> mutex = p
JobsSound == \A p \in Proc : Sound(job[p])
Exclusive == \A p \in Proc, q \in Proc :
                p # q /\ job[p].pc = "match" => job[p].order \notin Claims(job[q])

Shape == Numbered /\ RowsWithin /\ BookSound /\ OneInside /\ JobsSound /\ Exclusive

-----------------------------------------------------------------------------
(* Types *)

FundsTypes ==
    /\ bal \in [Account -> [Currency -> Nat]] /\ lck \in [Account -> [Currency -> Nat]]
    /\ settled \in [Order -> Nat] /\ outside \in [Currency -> Int]
    /\ posted \in [Account -> [Currency -> Int]]
OrderTypes ==
    /\ terms \in [Order -> Terms] /\ mem \in [Order -> Progress] /\ row \in [Order -> Progress]
    /\ lastId \in 0 .. MaxOrders
    /\ book \in BookType /\ mutex \in Proc \cup {None}
    /\ updates \in Seq(Update)
    /\ here \in Situation
JobTypes == job \in [Proc -> Job]

LEMMA TypeParts == TypeOK <=> FundsTypes /\ OrderTypes /\ JobTypes
BY DEF TypeOK, FundsTypes, OrderTypes, JobTypes, BookType

LEMMA TypePartsNext == TypeOK' <=> FundsTypes' /\ OrderTypes' /\ JobTypes'
BY TypeParts, PTL

LEMMA IdleType == Idle \in Job /\ Idle.pc = "idle" /\ Idle.trades = <<>> /\ Idle.out = <<>>
<1>1. <<>> \in Seq(Trade) /\ <<>> \in Seq(Update)
  OBVIOUS
<1>2. NoTerms \in Terms
  BY TradingAssumption DEF NoTerms, Terms, Account, Side, OrderType
<1>3. NoProgress \in Progress
  BY DEF NoProgress, Progress, Status
<1> QED
  BY <1>1, <1>2, <1>3 DEF Idle, Job

(* The fields of a goroutine. *)
LEMMA JobFields ==
    ASSUME NEW k \in Job
    PROVE  /\ k.order \in Order \cup {None} /\ k.what \in Terms /\ k.trades \in Seq(Trade)
           /\ k.at \in Nat /\ k.leg \in Nat /\ k.undo \in Nat
           /\ k.out \in Seq(Update) /\ k.seen \in Progress
BY DEF Job

(* A goroutine goes on to another label. *)
Labels == {"idle", "create", "match", "leg", "undo", "tail", "price", "rollback", "add",
           "publish", "syncRead", "syncWrite", "failed",
           "unlock", "save", "remove", "announce"}

LEMMA MoveOn ==
    ASSUME JobTypes, NEW p \in Proc, NEW k \in Job, job' = [job EXCEPT ![p] = k]
    PROVE  JobTypes' /\ job'[p] = k /\ \A q \in Proc \ {p} : job'[q] = job[q]
BY DEF JobTypes

LEMMA RelabelType ==
    ASSUME NEW k \in Job, NEW l \in Labels
    PROVE  [k EXCEPT !.pc = l] \in Job
BY DEF Job, Labels

Move == [user : Account, cur : Currency, delta : Int]

LEMMA FeeType ==
    ASSUME NEW t \in Trade, NEW o, NEW taker
    PROVE  /\ Value(t) \in Int /\ Fee(t, o, taker) \in Int
           /\ t.amt \in Nat => /\ Value(t) \in Nat /\ Fee(t, o, taker) \in Nat
                               /\ Fee(t, o, taker) <= Value(t)
<1> DEFINE rate == IF o = taker THEN TakerRate ELSE MakerRate
           v == Value(t)
<1>1. rate \in 0 .. FeeScale /\ FeeScale \in Nat \ {0}
  BY TradingAssumption
<1>2. t.price \in Nat /\ t.amt \in Int
  BY DEF Trade
<1>3. v \in Int /\ (t.amt \in Nat => v \in Nat)
  BY <1>2 DEF Value
<1>4. Fee(t, o, taker) = (v * rate) \div FeeScale
  BY DEF Fee
<1> HIDE DEF rate, v
<1>5. v * rate \in Int
  BY <1>1, <1>3
<1>6. (v * rate) \div FeeScale \in Int
  BY <1>1, <1>5
<1>7. ASSUME t.amt \in Nat
      PROVE  (v * rate) \div FeeScale \in Nat /\ (v * rate) \div FeeScale <= v
  <2>1. v \in Nat
    BY <1>3, <1>7
  <2>2. v * rate \in Nat /\ v * rate <= v * FeeScale
    BY <1>1, <2>1
  <2> DEFINE a == v * rate
             d == a \div FeeScale
  <2>3. a \in Nat /\ a <= v * FeeScale
    BY <2>2
  <2> HIDE DEF a
  <2>4. d \in Int /\ FeeScale * d <= a /\ a < FeeScale * (d + 1)
    BY <1>1, <2>3
  <2> HIDE DEF d
  <2>5. FeeScale * d <= FeeScale * v
    BY <1>1, <2>1, <2>3, <2>4
  <2>6. d <= v
    BY <1>1, <2>1, <2>4, <2>5
  <2>7. d >= 0
    <3>1. FeeScale * (d + 1) > 0
      BY <1>1, <2>3, <2>4
    <3> QED
      BY <1>1, <2>4, <3>1
  <2> QED
    BY <2>4, <2>6, <2>7 DEF a, d
<1> QED
  BY <1>3, <1>4, <1>6, <1>7 DEF v

LEMMA LegType ==
    ASSUME terms \in [Order -> Terms], NEW o \in Order, NEW c \in Currency, NEW n \in Int
    PROVE  /\ Leg(o, c, n) \in Move
           /\ Leg(o, c, n).user = terms[o].user /\ Leg(o, c, n).cur = c /\ Leg(o, c, n).delta = n
BY DEF Leg, Move, Terms

(* The legs of a trade: the buyer's two, then the seller's. *)
LEMMA LegsType ==
    ASSUME terms \in [Order -> Terms], NEW t \in Trade, NEW taker
    PROVE  /\ Legs(t, taker) \in Seq(Move) /\ Len(Legs(t, taker)) = LegCount(t)
           /\ t.buy # None =>
                /\ Legs(t, taker)[1] = Leg(t.buy, "quote", -(Value(t) + Fee(t, t.buy, taker)))
                /\ Legs(t, taker)[2] = Leg(t.buy, "base", t.amt)
           /\ t.buy # None /\ t.sell # None =>
                /\ Legs(t, taker)[3] = Leg(t.sell, "base", -t.amt)
                /\ Legs(t, taker)[4] = Leg(t.sell, "quote", Value(t) - Fee(t, t.sell, taker))
           /\ t.buy = None /\ t.sell # None =>
                /\ Legs(t, taker)[1] = Leg(t.sell, "base", -t.amt)
                /\ Legs(t, taker)[2] = Leg(t.sell, "quote", Value(t) - Fee(t, t.sell, taker))
<1> DEFINE a == Leg(t.buy, "quote", -(Value(t) + Fee(t, t.buy, taker)))
           b == Leg(t.buy, "base", t.amt)
           c == Leg(t.sell, "base", -t.amt)
           d == Leg(t.sell, "quote", Value(t) - Fee(t, t.sell, taker))
<1>1. /\ t.buy \in Order \cup {None} /\ t.sell \in Order \cup {None} /\ t.amt \in Int
      /\ Value(t) \in Int /\ Fee(t, t.buy, taker) \in Int /\ Fee(t, t.sell, taker) \in Int
      /\ "quote" \in Currency /\ "base" \in Currency
  BY FeeType DEF Trade, Currency
<1>2. -(Value(t) + Fee(t, t.buy, taker)) \in Int /\ -t.amt \in Int
      /\ Value(t) - Fee(t, t.sell, taker) \in Int
  BY <1>1
<1>3. t.buy # None => a \in Move /\ b \in Move
  BY <1>1, <1>2, LegType
<1>4. t.sell # None => c \in Move /\ d \in Move
  BY <1>1, <1>2, LegType
<1>5. Legs(t, taker) = (IF t.buy = None THEN <<>> ELSE <<a, b>>)
                       \o (IF t.sell = None THEN <<>> ELSE <<c, d>>)
  BY DEF Legs, BuyLegs, SellLegs
<1> HIDE DEF a, b, c, d
<1>6. CASE t.buy # None /\ t.sell # None
  <2>1. <<a, b>> \in Seq(Move) /\ <<c, d>> \in Seq(Move)
    BY <1>3, <1>4, <1>6
  <2> DEFINE s == <<a, b>> \o <<c, d>>
  <2>2. s \in Seq(Move) /\ Len(s) = 4 /\ s[1] = a /\ s[2] = b /\ s[3] = c /\ s[4] = d
    BY <2>1
  <2>3. Legs(t, taker) = s
    BY <1>5, <1>6
  <2>4. LegCount(t) = 4
    BY <1>6 DEF LegCount
  <2> HIDE DEF s
  <2> QED
    BY <1>6, <2>2, <2>3, <2>4 DEF a, b, c, d
<1>7. CASE t.buy # None /\ t.sell = None
  <2>1. <<a, b>> \in Seq(Move)
    BY <1>3, <1>7
  <2> DEFINE s == <<a, b>> \o <<>>
  <2>2. s \in Seq(Move) /\ Len(s) = 2 /\ s[1] = a /\ s[2] = b
    BY <2>1
  <2>3. Legs(t, taker) = s
    BY <1>5, <1>7
  <2>4. LegCount(t) = 2
    BY <1>7 DEF LegCount
  <2> HIDE DEF s
  <2> QED
    BY <1>7, <2>2, <2>3, <2>4 DEF a, b, c, d
<1>8. CASE t.buy = None /\ t.sell # None
  <2>1. <<c, d>> \in Seq(Move)
    BY <1>4, <1>8
  <2> DEFINE s == <<>> \o <<c, d>>
  <2>2. s \in Seq(Move) /\ Len(s) = 2 /\ s[1] = c /\ s[2] = d
    BY <2>1
  <2>3. Legs(t, taker) = s
    BY <1>5, <1>8
  <2>4. LegCount(t) = 2
    BY <1>8 DEF LegCount
  <2> HIDE DEF s
  <2> QED
    BY <1>8, <2>2, <2>3, <2>4 DEF a, b, c, d
<1>9. CASE t.buy = None /\ t.sell = None
  <2>1. Legs(t, taker) = <<>> \o <<>>
    BY <1>5, <1>9
  <2>2. LegCount(t) = 0
    BY <1>9 DEF LegCount
  <2> QED
    BY <1>9, <2>1, <2>2
<1> QED
  BY <1>1, <1>6, <1>7, <1>8, <1>9

LEMMA CurrentLeg ==
    ASSUME terms \in [Order -> Terms], NEW t \in Trade, NEW taker, NEW j \in 1 .. LegCount(t)
    PROVE  /\ Legs(t, taker)[j] \in Move /\ Legs(t, taker)[j].user \in Account
           /\ Legs(t, taker)[j].cur \in Currency /\ Legs(t, taker)[j].delta \in Int
<1>1. Legs(t, taker) \in Seq(Move) /\ Len(Legs(t, taker)) = LegCount(t)
  BY LegsType
<1>2. Legs(t, taker)[j] \in Move
  BY <1>1
<1> QED
  BY <1>2 DEF Move

LEMMA TotalFeeType ==
    ASSUME NEW t \in Trade, NEW taker
    PROVE  TotalFee(t, taker) \in Int /\ (t.amt \in Nat => TotalFee(t, taker) \in Nat)
BY FeeType DEF TotalFee

(* What is published of balances is a number for every account. *)
LEMMA NetType ==
    ASSUME terms \in [Order -> Terms], NEW t \in Trade, NEW taker, NEW u, NEW c
    PROVE  Net(t, taker, u, c) \in Int
<1> DEFINE moves == Movements(t, taker)
           f == [j \in DOMAIN moves |-> moves[j].delta]
           S == {j \in DOMAIN moves : moves[j].user = u /\ moves[j].cur = c}
<1>1. moves \in Seq(Move)
  <2> DEFINE e == [user |-> FeeWallet, cur |-> "quote", delta |-> TotalFee(t, taker)]
             s == Legs(t, taker)
  <2>1. e \in Move
    BY TotalFeeType DEF Move, Account, Currency
  <2>2. s \in Seq(Move)
    BY LegsType
  <2>3. moves = Append(s, e)
    BY DEF Movements
  <2> HIDE DEF e, s, moves
  <2> QED
    BY <2>1, <2>2, <2>3, Appended
<1>2. Net(t, taker, u, c) = Sum(f, S)
  BY DEF Net
<1> HIDE DEF moves
<1>3. DOMAIN moves = 1 .. Len(moves) /\ Len(moves) \in Nat
  BY <1>1
<1>4. \A j \in DOMAIN moves : moves[j].delta \in Int
  <2>1. \A j \in DOMAIN moves : moves[j] \in Move
    BY <1>1
  <2> QED
    BY <2>1 DEF Move
<1>5. IsFiniteSet(DOMAIN moves)
  BY <1>3, FS_Interval
<1>6. IsFiniteSet(S) /\ \A j \in S : f[j] \in Int
  BY <1>4, <1>5, FS_Subset
<1> HIDE DEF S, f
<1> QED
  BY <1>2, <1>6, SumType

LEMMA SettleType ==
    ASSUME terms \in [Order -> Terms], NEW trades \in Seq(Trade), NEW taker,
           NEW store \in [Account -> [Currency -> Int]]
    PROVE  Settle(store, trades, taker) \in [Account -> [Currency -> Int]]
<1>1. ASSUME NEW u \in Account, NEW c \in Currency
      PROVE  store[u][c] + Sum([i \in DOMAIN trades |-> Net(trades[i], taker, u, c)], DOMAIN trades)
               \in Int
  <2> DEFINE f == [i \in DOMAIN trades |-> Net(trades[i], taker, u, c)]
  <2>1. IsFiniteSet(DOMAIN trades) /\ \A i \in DOMAIN trades : trades[i] \in Trade
    BY TradeFields
  <2>2. \A i \in DOMAIN trades : f[i] \in Int
    BY <2>1, NetType
  <2> HIDE DEF f
  <2>3. Sum(f, DOMAIN trades) \in Int
    BY <2>1, <2>2, SumType
  <2>4. store[u][c] \in Int
    OBVIOUS
  <2> QED
    BY <2>3, <2>4 DEF f
<1> QED
  BY <1>1 DEF Settle

LEMMA AddType ==
    ASSUME NEW store \in [Account -> [Currency -> Int]], NEW u \in Account, NEW c \in Currency,
           NEW n \in Int
    PROVE  /\ Add(store, u, c, n) \in [Account -> [Currency -> Int]]
           /\ Add(store, u, c, n)[u][c] = store[u][c] + n
           /\ \A v \in Account, d \in Currency :
                 v # u \/ d # c => Add(store, u, c, n)[v][d] = store[v][d]
           /\ store \in [Account -> [Currency -> Nat]] /\ store[u][c] + n \in Nat =>
                 Add(store, u, c, n) \in [Account -> [Currency -> Nat]]
<1>1. Add(store, u, c, n) = [store EXCEPT ![u] = [store[u] EXCEPT ![c] = store[u][c] + n]]
  BY DEF Add
<1> QED
  BY <1>1

-----------------------------------------------------------------------------
(* What a step of one goroutine leaves of the invariant to all others *)

OrdersStay == lastId <= lastId' /\ lastId' \in Nat /\ \A x \in Created : terms'[x] = terms[x]

(* Nothing that another goroutine relies on changes. *)
LeavesOthers(p, k) ==
    /\ OrdersStay
    /\ job'[p] = k /\ \A q \in Proc \ {p} : job'[q] = job[q]
    /\ \A x \in Created : \/ mem'[x].filled = mem[x].filled
                          \/ x \in Claims(job[p]) \/ Rests(x)
    /\ (\E q \in Proc \ {p} : job[q].pc \in Inside) =>
          \A x \in Created : mem'[x].filled = mem[x].filled
    /\ \A x \in Created : Rests(x)' => Rests(x) \/ x \in Claims(job[p])
    /\ \A x \in Created : x \in Claims(k) => x \in Claims(job[p]) \/ Rests(x)
    /\ k.pc = "match" => \/ k.order \notin Created
                         \/ job[p].pc = "match" /\ k.order = job[p].order

LEMMA PartiesCreated ==
    ASSUME OrderTypes, NEW k \in Job, k.order \in Created, NEW i \in 1 .. Len(k.trades),
           Meeting(k.order, k.trades[i]) \/ Filling(k.order, k.trades[i])
    PROVE  Parties(k.trades[i]) \subseteq Created
<1>1. k.order \in Order /\ Created \subseteq Order
  BY TradingAssumption DEF OrderTypes, Created, Order
<1>2. CASE Meeting(k.order, k.trades[i])
  BY <1>1, <1>2, PartiesOfTrade DEF Meeting
<1>3. CASE Filling(k.order, k.trades[i])
  BY <1>1, <1>3 DEF Filling, Parties
<1> QED
  BY <1>2, <1>3

(* The orders a goroutine works on exist. *)
LEMMA ClaimsCreated ==
    ASSUME OrderTypes, NEW k \in Job, Sound(k)
    PROVE  Claims(k) \subseteq Created
<1>1. CASE k.pc \in Inside
  <2>1. k.order \in Created /\ Settling(k)
    BY <1>1 DEF Sound, Inside
  <2>2. \A i \in 1 .. Len(k.trades) : Parties(k.trades[i]) \subseteq Created
    BY <2>1, PartiesCreated DEF Settling
  <2>3. \A t \in Range(k.trades) : Parties(t) \subseteq Created
    BY <2>2, JobFields DEF Range
  <2> QED
    BY <2>1, <2>3 DEF Claims
<1>2. CASE k.pc = "match"
  BY <1>2 DEF Claims, Sound, Range
<1>3. CASE k.pc \notin Inside \cup {"match"}
  BY <1>3 DEF Claims
<1> QED
  BY <1>1, <1>2, <1>3

LEMMA SettlingStays ==
    ASSUME OrderTypes, OrderTypes', NEW k \in Job, k.order \in Created, Settling(k), OrdersStay,
           mem'[k.order].filled = mem[k.order].filled
    PROVE  Settling(k)'
<1>1. Created \subseteq Created' /\ terms'[k.order] = terms[k.order]
  BY DEF OrdersStay, Created, OrderTypes
<1>2. \A t : Meeting(k.order, t) => Meeting(k.order, t)'
  BY <1>1 DEF Meeting, OrdersStay, TradeOf
<1>3. \A t : Filling(k.order, t) => Filling(k.order, t)'
  BY <1>1 DEF Filling
<1>4. Remaining(terms, mem, k.order)' = Remaining(terms, mem, k.order)
  BY <1>1 DEF Remaining
<1> QED
  BY <1>2, <1>3, <1>4 DEF Settling

LEMMA OtherStays ==
    ASSUME OrderTypes, OrderTypes', JobTypes, Shape, NEW p \in Proc, NEW k, LeavesOthers(p, k),
           NEW q \in Proc \ {p}
    PROVE  Sound(job[q])'
<1> PICK l : l = job[q]
  OBVIOUS
<1>1. l \in Job /\ Sound(l) /\ job'[q] = l
  BY DEF JobTypes, Shape, JobsSound, LeavesOthers
<1>2. OrdersStay
  BY DEF LeavesOthers
<1>3. Created \subseteq Created' /\ \A x \in Created : terms'[x] = terms[x]
  BY <1>2 DEF OrdersStay, Created, OrderTypes
<1>4. l.pc = "match" => l.order \in Created /\ l.order \notin Claims(job[p])
  BY <1>1 DEF Sound, Shape, Exclusive
<1>5. l.pc \in Inside => l.order \in Created /\ mem'[l.order].filled = mem[l.order].filled
  <2>1. ASSUME l.pc \in Inside
        PROVE  l.order \in Created
    BY <1>1, <2>1 DEF Sound, Inside
  <2> QED
    BY <2>1 DEF LeavesOthers
<1>6. l.pc = "match" => /\ l.trades = <<>> /\ mem'[l.order].filled = 0
                        /\ ~Rests(l.order)'
  <2>1. ASSUME l.pc = "match"
        PROVE  mem'[l.order].filled = 0 /\ ~Rests(l.order)' /\ l.trades = <<>>
    <3>1. ~Rests(l.order) /\ mem[l.order].filled = 0 /\ l.trades = <<>>
      BY <1>1, <2>1 DEF Sound
    <3>2. l.order \in Created /\ l.order \notin Claims(job[p])
      BY <1>4, <2>1
    <3> QED
      BY <3>1, <3>2 DEF LeavesOthers
  <2> QED
    BY <2>1
<1>7. l.pc \in Inside => Settling(l)'
  <2>1. ASSUME l.pc \in Inside
        PROVE  Settling(l)'
    <3>1. Settling(l)
      BY <1>1, <2>1 DEF Sound
    <3> QED
      BY <1>1, <1>2, <1>5, <2>1, <3>1, SettlingStays
  <2> QED
    BY <2>1
<1>8. l.pc \notin {"idle", "create"} => l.order \in Created' /\ l.seen.filled <= terms'[l.order].amount
  BY <1>1, <1>3 DEF Sound
<1>9. \A i \in 1 .. Len(l.out) : Within(l.out[i])'
  BY <1>1, <1>3 DEF Sound, Within
<1>10. Sound(l)'
  BY <1>6, <1>7, <1>8, <1>9 DEF Sound
<1>11. Sound(job[q])' <=> Sound(l)'
  BY <1>1 DEF Sound, Settling
<1> QED
  BY <1>10, <1>11

LEMMA OthersStay ==
    ASSUME OrderTypes, OrderTypes', JobTypes, JobTypes', Shape, NEW p \in Proc, NEW k,
           LeavesOthers(p, k), Sound(k)'
    PROVE  JobsSound' /\ Exclusive'
<1>1. ASSUME NEW q \in Proc
      PROVE  Sound(job[q])'
  <2>1. CASE q = p
    <3>1. job'[p] = k
      BY DEF LeavesOthers
    <3>2. Sound(job[p])' <=> Sound(k)'
      BY <3>1 DEF Sound, Settling
    <3> QED
      BY <2>1, <3>2
  <2> QED
    BY <2>1, OtherStays
<1>2. ASSUME NEW a \in Proc, NEW b \in Proc, a # b, job'[a].pc = "match"
      PROVE  job'[a].order \notin Claims(job'[b])
  <2>1. \A q \in Proc : job[q] \in Job /\ Sound(job[q])
    BY DEF JobTypes, Shape, JobsSound
  <2>2. CASE a = p
    <3>1. job'[a] = k /\ job'[b] = job[b]
      BY <1>2, <2>2 DEF LeavesOthers
    <3>2. k.order \notin Created \/ (job[p].pc = "match" /\ k.order = job[p].order)
      BY <1>2, <3>1 DEF LeavesOthers
    <3>3. Claims(job[b]) \subseteq Created
      BY <2>1, ClaimsCreated
    <3> QED
      BY <1>2, <2>2, <3>1, <3>2, <3>3 DEF Shape, Exclusive
  <2>3. CASE a # p
    <3>1. job'[a] = job[a] /\ job[a].pc = "match"
      BY <1>2, <2>3 DEF LeavesOthers
    <3>2. job[a].order \in Created /\ ~Rests(job[a].order) /\ job[a].order \notin Claims(job[p])
      BY <2>1, <2>3, <3>1 DEF Sound, Shape, Exclusive
    <3>3. CASE b = p
      <4>1. job'[b] = k
        BY <3>3 DEF LeavesOthers
      <4> QED
        BY <3>1, <3>2, <4>1 DEF LeavesOthers
    <3>4. CASE b # p
      <4>1. job'[b] = job[b]
        BY <3>4 DEF LeavesOthers
      <4> QED
        BY <1>2, <3>1, <4>1 DEF Shape, Exclusive
    <3> QED
      BY <3>3, <3>4
  <2> QED
    BY <2>2, <2>3
<1>3. Exclusive'
  <2>1. \A a \in Proc, b \in Proc : a # b /\ job'[a].pc = "match" => job'[a].order \notin Claims(job'[b])
    BY <1>2
  <2>2. \A b \in Proc : Claims(job[b])' = Claims(job'[b])
    BY DEF Claims
  <2> QED
    BY <2>1, <2>2 DEF Exclusive
<1> QED
  BY <1>1, <1>3 DEF JobsSound

-----------------------------------------------------------------------------
(* A step of one goroutine *)

LEMMA CreatingFinite ==
    /\ IsFiniteSet(Creating) /\ Cardinality(Creating) \in Nat
    /\ \A T : T \subseteq Creating => IsFiniteSet(T) /\ Cardinality(T) \in Nat
                                      /\ Cardinality(T) <= Cardinality(Creating)
<1>1. IsFiniteSet(Proc) /\ Creating \subseteq Proc
  BY TradingAssumption DEF Creating
<1>2. IsFiniteSet(Creating)
  BY <1>1, FS_Subset
<1> QED
  BY <1>2, FS_Subset, FS_CardinalityType

LEMMA SituationFields ==
    ASSUME OrderTypes
    PROVE  here.orders \in Nat /\ here.orders <= MaxOrders /\ MaxOrders \in Nat
           /\ lastId \in Nat /\ lastId <= MaxOrders /\ Created \subseteq Order
BY SituationAssumption, TradingAssumption DEF OrderTypes, Created, Order

(* The rest is as it was: no order is created, and no other goroutine      *)
(* comes to create one.                                                    *)
LEMMA Moved ==
    ASSUME OrderTypes, OrderTypes', JobTypes, JobTypes', Shape,
           NEW p \in Proc, NEW k \in Job, job' = [job EXCEPT ![p] = k],
           UNCHANGED <<terms, lastId, here>>,
           RowsWithin', BookSound', OneInside', Sound(k)', k.pc # "create", LeavesOthers(p, k),
           \A x \in Order : x > lastId =>
               mem'[x] = NoProgress /\ row'[x] = NoProgress /\ settled'[x] = 0
    PROVE  Shape'
<1>1. job'[p] = k /\ \A q \in Proc \ {p} : job'[q] = job[q]
  BY DEF JobTypes
<1>2. JobsSound' /\ Exclusive'
  BY OthersStay
<1>3. Creating' \subseteq Creating
  BY <1>1 DEF Creating
<1>4. Cardinality(Creating') \in Nat /\ Cardinality(Creating') <= Cardinality(Creating)
      /\ Cardinality(Creating) \in Nat
  BY <1>3, CreatingFinite
<1>5. lastId' + Cardinality(Creating') <= here'.orders
  <2>1. lastId + Cardinality(Creating) <= here.orders
    BY DEF Shape, Numbered
  <2> QED
    BY <1>4, <2>1, SituationFields
<1>6. \A x \in Order : x > lastId => terms'[x] = NoTerms
  BY DEF Shape, Numbered
<1>7. Numbered'
  BY <1>5, <1>6 DEF Numbered
<1> QED
  BY <1>2, <1>7 DEF Shape

(* Nothing but a goroutine and the funds changes. *)
Quiet == /\ UNCHANGED <<terms, mem, row, lastId, book, mutex, updates, here>>
         /\ \A x \in Order : x > lastId => settled'[x] = settled[x]

LEMMA QuietTypes ==
    ASSUME OrderTypes, Quiet
    PROVE  OrderTypes' /\ OrdersStay /\ Created' = Created
           /\ (\A x : Rests(x)' <=> Rests(x)) /\ lastId \in Nat
BY TradingAssumption DEF OrderTypes, Quiet, OrdersStay, Created, Rests

LEMMA QuietSound ==
    ASSUME UNCHANGED <<terms, mem, lastId, book>>, NEW k
    PROVE  Sound(k)' <=> Sound(k)
<1>1. Created' = Created /\ terms' = terms /\ mem' = mem
  BY DEF Created
<1>2. \A t : Meeting(k.order, t)' <=> Meeting(k.order, t)
  BY <1>1 DEF Meeting
<1>3. \A t : Filling(k.order, t)' <=> Filling(k.order, t)
  BY <1>1 DEF Filling
<1>4. \A u : Within(u)' <=> Within(u)
  BY <1>1 DEF Within
<1>5. Settling(k)' <=> Settling(k)
  BY <1>1, <1>2, <1>3 DEF Settling
<1>6. Rests(k.order)' <=> Rests(k.order)
  BY DEF Rests
<1> QED
  BY <1>1, <1>4, <1>5, <1>6 DEF Sound

LEMMA QuietMove ==
    ASSUME OrderTypes, JobTypes, Shape, Quiet,
           NEW p \in Proc, NEW k \in Job, job' = [job EXCEPT ![p] = k],
           Sound(k), Claims(k) \subseteq Claims(job[p]), k.pc \notin {"match", "create"},
           k.pc \in Inside <=> job[p].pc \in Inside
    PROVE  OrderTypes' /\ JobTypes' /\ Shape'
<1>1. OrderTypes' /\ OrdersStay /\ Created' = Created /\ \A x : Rests(x)' <=> Rests(x)
  BY QuietTypes
<1>2. JobTypes' /\ job'[p] = k /\ \A q \in Proc \ {p} : job'[q] = job[q]
  BY MoveOn
<1>3. mem' = mem /\ row' = row /\ terms' = terms /\ lastId' = lastId /\ book' = book
      /\ mutex' = mutex /\ updates' = updates /\ here' = here
  BY DEF Quiet
<1>4. Sound(k)'
  BY QuietSound DEF Quiet
<1>5. LeavesOthers(p, k)
  BY <1>1, <1>2, <1>3 DEF LeavesOthers
<1>6. RowsWithin'
  <2>1. RowsWithin
    BY DEF Shape
  <2> QED
    BY <1>1, <1>3, <2>1 DEF RowsWithin, Within
<1>7. BookSound'
  <2>1. BookSound
    BY DEF Shape
  <2> QED
    BY <1>1, <1>3, <2>1 DEF BookSound
<1>8. OneInside'
  <2>1. OneInside
    BY DEF Shape
  <2> QED
    BY <1>2, <1>3, <2>1 DEF OneInside
<1>9. \A x \in Order : x > lastId =>
         mem'[x] = NoProgress /\ row'[x] = NoProgress /\ settled'[x] = 0
  BY <1>3 DEF Shape, Numbered, Quiet
<1>10. Shape'
  BY <1>1, <1>2, <1>3, <1>4, <1>5, <1>6, <1>7, <1>8, <1>9, Moved
<1> QED
  BY <1>1, <1>2, <1>10

-----------------------------------------------------------------------------
(* Settling: one leg after another *)

LEMMA InsideFacts ==
    ASSUME OrderTypes, JobTypes, Shape, NEW p \in Proc, job[p].pc \in Inside
    PROVE  /\ job[p] \in Job /\ Sound(job[p]) /\ Settling(job[p]) /\ mutex = p
           /\ job[p].order \in Created /\ job[p].order \in Order
           /\ job[p].trades \in Seq(Trade) /\ Len(job[p].trades) \in Nat
           /\ \A i \in 1 .. Len(job[p].trades) : job[p].trades[i] \in Trade /\ job[p].trades[i].amt \in Nat
<1>1. job[p] \in Job /\ Sound(job[p]) /\ mutex = p
  BY DEF JobTypes, Shape, JobsSound, OneInside
<1>2. Settling(job[p]) /\ job[p].order \in Created
  BY <1>1 DEF Sound, Inside
<1>3. job[p].order \in Order
  BY <1>2, SituationFields
<1>4. job[p].trades \in Seq(Trade) /\ Len(job[p].trades) \in Nat
  BY <1>1, JobFields
<1>5. \A i \in 1 .. Len(job[p].trades) : job[p].trades[i] \in Trade
  BY <1>4
<1> QED
  BY <1>1, <1>2, <1>3, <1>4, <1>5 DEF Settling

LEMMA SettlesOn ==
    ASSUME NEW k \in Job, Sound(k), k.pc \in Paying, NEW l \in Job,
           l.order = k.order /\ l.trades = k.trades /\ l.at = k.at /\ l.out = k.out /\ l.seen = k.seen,
           l.pc \in Paying, l.leg \in 1 .. LegCount(l.trades[l.at]),
           l.pc = "undo" => l.undo \in 1 .. l.leg - 1
    PROVE  Sound(l) /\ Claims(l) \subseteq Claims(k)
<1>1. Paying \subseteq Inside /\ "match" \notin Paying
  BY DEF Paying, Inside
<1>2. k.pc \notin {"idle", "create"} /\ l.pc \notin {"idle", "create", "match", "price", "add", "publish"}
  BY DEF Paying
<1>3. Settling(k)
  BY <1>1 DEF Sound
<1>4. Settling(l)
  BY <1>2, <1>3 DEF Settling
<1>5. Sound(l)
  BY <1>2, <1>4 DEF Sound
<1>6. Claims(l) = Claims(k)
  BY Zenon, <1>1 DEF Claims
<1> QED
  BY <1>5, <1>6

(* The leg a goroutine is at, and the one it undoes. *)
LEMMA LegFacts ==
    ASSUME OrderTypes, JobTypes, Shape, NEW p \in Proc, job[p].pc \in Paying
    PROVE  /\ job[p].at \in 1 .. Len(job[p].trades)
           /\ CurrentTrade(p) = job[p].trades[job[p].at]
           /\ CurrentTrade(p) \in Trade /\ CurrentTrade(p).amt \in Nat
           /\ CurrentLegs(p) = Legs(CurrentTrade(p), job[p].order)
           /\ Len(CurrentLegs(p)) = LegCount(CurrentTrade(p))
           /\ job[p].leg \in 1 .. LegCount(CurrentTrade(p)) /\ LegCount(CurrentTrade(p)) \in Nat
           /\ \A j \in 1 .. LegCount(CurrentTrade(p)) :
                 /\ CurrentLegs(p)[j].user \in Account /\ CurrentLegs(p)[j].cur \in Currency
                 /\ CurrentLegs(p)[j].delta \in Int
           /\ job[p].pc = "undo" => job[p].undo \in 1 .. job[p].leg - 1
<1>1. job[p].pc \in Inside
  BY DEF Paying, Inside
<1>2. /\ Settling(job[p]) /\ job[p].trades \in Seq(Trade) /\ Len(job[p].trades) \in Nat
      /\ \A i \in 1 .. Len(job[p].trades) : job[p].trades[i] \in Trade /\ job[p].trades[i].amt \in Nat
  BY <1>1, InsideFacts
<1>3. /\ job[p].at \in 1 .. Len(job[p].trades)
      /\ job[p].leg \in 1 .. LegCount(job[p].trades[job[p].at])
      /\ job[p].pc = "undo" => job[p].undo \in 1 .. job[p].leg - 1
  BY <1>2 DEF Settling
<1>4. CurrentTrade(p) = job[p].trades[job[p].at]
  BY DEF CurrentTrade
<1>5. CurrentTrade(p) \in Trade /\ CurrentTrade(p).amt \in Nat
  BY <1>2, <1>3, <1>4
<1>6. CurrentLegs(p) = Legs(CurrentTrade(p), job[p].order)
  BY DEF CurrentLegs
<1>7. terms \in [Order -> Terms]
  BY DEF OrderTypes
<1>8. Len(CurrentLegs(p)) = LegCount(CurrentTrade(p))
  BY <1>5, <1>6, <1>7, LegsType
<1>9. \A j \in 1 .. LegCount(CurrentTrade(p)) :
         /\ CurrentLegs(p)[j].user \in Account /\ CurrentLegs(p)[j].cur \in Currency
         /\ CurrentLegs(p)[j].delta \in Int
  BY <1>5, <1>6, <1>7, CurrentLeg
<1>10. LegCount(CurrentTrade(p)) \in Nat
  BY DEF LegCount
<1> QED
  BY <1>3, <1>4, <1>5, <1>6, <1>8, <1>9, <1>10

LEMMA ApplyType ==
    ASSUME bal \in [Account -> [Currency -> Nat]], NEW u \in Account, NEW c \in Currency,
           NEW n \in Int, CanApply(u, c, n)
    PROVE  Add(bal, u, c, n) \in [Account -> [Currency -> Nat]]
<1>1. bal[u][c] \in Nat
  OBVIOUS
<1>2. bal[u][c] + n \in Nat
  BY <1>1 DEF CanApply
<1>3. bal \in [Account -> [Currency -> Int]]
  OBVIOUS
<1> QED
  BY <1>2, <1>3, AddType

LEMMA SettleLegKeeps ==
    ASSUME TypeOK, Shape, NEW p \in Proc, SettleLeg(p)
    PROVE  TypeOK' /\ Shape'
<1>1. FundsTypes /\ OrderTypes /\ JobTypes
  BY TypeParts
<1>2. job[p].pc = "leg" /\ job[p].pc \in Paying /\ job[p].pc \in Inside
  BY DEF SettleLeg, Paying, Inside
<1> DEFINE l == CurrentLegs(p)[job[p].leg]
           n == LegCount(CurrentTrade(p))
<1>3. /\ l.user \in Account /\ l.cur \in Currency /\ l.delta \in Int
      /\ job[p].leg \in 1 .. n /\ n \in Nat /\ Len(CurrentLegs(p)) = n
      /\ CurrentTrade(p) = job[p].trades[job[p].at]
  BY <1>1, <1>2, LegFacts
<1>4. FundsTypes'
  <2>1. bal' = Add(bal, l.user, l.cur, l.delta) /\ CanApply(l.user, l.cur, l.delta)
    BY DEF SettleLeg, ApplyLeg
  <2> HIDE DEF l
  <2>2. bal' \in [Account -> [Currency -> Nat]]
    BY <1>1, <1>3, <2>1, ApplyType DEF FundsTypes
  <2> QED
    BY <1>1, <2>2 DEF FundsTypes, SettleLeg, history
<1>5. Quiet
  BY DEF SettleLeg, Quiet, orders, engine, history
<1>6. PICK k : k = IF job[p].leg = n THEN [job[p] EXCEPT !.pc = "tail"]
                   ELSE [job[p] EXCEPT !.leg = job[p].leg + 1]
  OBVIOUS
<1>7. job' = [job EXCEPT ![p] = k]
  <2>1. job' = IF job[p].leg = n THEN [job EXCEPT ![p] = [job[p] EXCEPT !.pc = "tail"]]
               ELSE [job EXCEPT ![p] = [job[p] EXCEPT !.leg = job[p].leg + 1]]
    BY <1>1, <1>3 DEF SettleLeg, Goto, JobTypes
  <2> QED
    BY <1>6, <2>1
<1>8. job[p] \in Job /\ Sound(job[p])
  BY <1>1, <1>2, InsideFacts
<1>9. /\ k \in Job /\ k.order = job[p].order /\ k.trades = job[p].trades /\ k.at = job[p].at
      /\ k.out = job[p].out /\ k.seen = job[p].seen /\ k.pc \in {"leg", "tail"} /\ k.leg \in 1 .. n
  <2> HIDE DEF n
  <2>1. CASE job[p].leg = n
    <3>1. k = [job[p] EXCEPT !.pc = "tail"] /\ job[p].leg \in 1 .. n
      BY <1>3, <1>6, <2>1
    <3> QED
      BY <1>8, <3>1 DEF Job
  <2>2. CASE job[p].leg # n
    <3>1. k = [job[p] EXCEPT !.leg = job[p].leg + 1] /\ job[p].leg + 1 \in 1 .. n /\ job[p].leg + 1 \in Nat
      BY <1>3, <1>6, <2>2
    <3> QED
      BY <1>2, <1>8, <3>1 DEF Job
  <2> QED
    BY <2>1, <2>2
<1>10. k.pc \in Paying /\ k.pc # "undo" /\ k.pc \in Inside /\ k.pc \notin {"match", "create"}
  BY <1>9 DEF Paying, Inside
<1>11. Sound(k) /\ Claims(k) \subseteq Claims(job[p])
  BY <1>2, <1>3, <1>8, <1>9, <1>10, SettlesOn
<1>12. OrderTypes' /\ JobTypes' /\ Shape'
  BY <1>1, <1>2, <1>5, <1>7, <1>9, <1>10, <1>11, QuietMove
<1> QED
  BY <1>4, <1>12, TypePartsNext

LEMMA LegFailsKeeps ==
    ASSUME TypeOK, Shape, NEW p \in Proc, LegFails(p)
    PROVE  TypeOK' /\ Shape'
<1>1. FundsTypes /\ OrderTypes /\ JobTypes
  BY TypeParts
<1>2. job[p].pc = "leg" /\ job[p].pc \in Paying /\ job[p].pc \in Inside
  BY DEF LegFails, Paying, Inside
<1> DEFINE l == CurrentLegs(p)[job[p].leg]
           n == LegCount(CurrentTrade(p))
<1>3. /\ l.user \in Account /\ l.cur \in Currency /\ l.delta \in Int
      /\ job[p].leg \in 1 .. n /\ n \in Nat /\ CurrentTrade(p) = job[p].trades[job[p].at]
  BY <1>1, <1>2, LegFacts
<1>4. FundsTypes'
  <2>1. bal' = bal \/ (bal' = Add(bal, l.user, l.cur, l.delta) /\ CanApply(l.user, l.cur, l.delta))
    BY DEF LegFails, ApplyLeg
  <2> HIDE DEF l
  <2>2. bal' \in [Account -> [Currency -> Nat]]
    BY <1>1, <1>3, <2>1, ApplyType DEF FundsTypes
  <2> QED
    BY <1>1, <2>2 DEF FundsTypes, LegFails, history
<1>5. Quiet
  BY DEF LegFails, Quiet, orders, engine, history
<1>6. PICK k : k = [job[p] EXCEPT !.pc = IF job[p].leg = 1 THEN "rollback" ELSE "undo", !.undo = 1]
  OBVIOUS
<1>7. job' = [job EXCEPT ![p] = k]
  BY <1>1, <1>6 DEF LegFails, JobTypes
<1>8. job[p] \in Job /\ Sound(job[p])
  BY <1>1, <1>2, InsideFacts
<1>9. /\ k \in Job /\ k.order = job[p].order /\ k.trades = job[p].trades /\ k.at = job[p].at
      /\ k.out = job[p].out /\ k.seen = job[p].seen /\ k.leg = job[p].leg /\ k.undo = 1
      /\ k.pc = IF job[p].leg = 1 THEN "rollback" ELSE "undo"
  BY <1>6, <1>8 DEF Job
<1>10. k.pc \in Paying /\ k.pc \in Inside /\ k.pc \notin {"match", "create"}
  BY <1>9 DEF Paying, Inside
<1>11. k.pc = "undo" => k.undo \in 1 .. k.leg - 1
  BY <1>3, <1>9
<1>12. Sound(k) /\ Claims(k) \subseteq Claims(job[p])
  BY <1>2, <1>3, <1>8, <1>9, <1>10, <1>11, SettlesOn
<1>13. OrderTypes' /\ JobTypes' /\ Shape'
  BY <1>1, <1>2, <1>5, <1>7, <1>9, <1>10, <1>12, QuietMove
<1> QED
  BY <1>4, <1>13, TypePartsNext

LEMMA UndoLegKeeps ==
    ASSUME TypeOK, Shape, NEW p \in Proc, UndoLeg(p)
    PROVE  TypeOK' /\ Shape'
<1>1. FundsTypes /\ OrderTypes /\ JobTypes
  BY TypeParts
<1>2. job[p].pc = "undo" /\ job[p].pc \in Paying /\ job[p].pc \in Inside
  BY DEF UndoLeg, Paying, Inside
<1> DEFINE l == CurrentLegs(p)[job[p].undo]
           n == LegCount(CurrentTrade(p))
<1>3. /\ job[p].leg \in 1 .. n /\ n \in Nat /\ CurrentTrade(p) = job[p].trades[job[p].at]
      /\ job[p].undo \in 1 .. job[p].leg - 1
  BY <1>1, <1>2, LegFacts
<1>4. l.user \in Account /\ l.cur \in Currency /\ l.delta \in Int
  <2>1. job[p].undo \in 1 .. n
    BY <1>3
  <2> QED
    BY <1>1, <1>2, <2>1, LegFacts
<1>5. FundsTypes'
  <2>1. \/ bal' = bal
        \/ /\ bal' = Add(bal, l.user, l.cur, -l.delta)
           /\ CanApply(l.user, l.cur, -l.delta)
    <3>1. ASSUME ApplyLeg([l EXCEPT !.delta = -@])
          PROVE  bal' = Add(bal, l.user, l.cur, -l.delta)
      <4>2. l \in Move
        <5>1. job[p].undo \in 1 .. n
          BY <1>3
        <5>2. terms \in [Order -> Terms] /\ CurrentTrade(p) \in Trade
              /\ CurrentLegs(p) = Legs(CurrentTrade(p), job[p].order)
          BY <1>1, <1>2, LegFacts DEF OrderTypes
        <5> QED
          BY <5>1, <5>2, CurrentLeg
      <4> HIDE DEF l
      <4> QED
        BY <3>1, <4>2 DEF ApplyLeg, Move
    <3> QED
      BY <3>1 DEF UndoLeg
  <2> HIDE DEF l
  <2>2. -l.delta \in Int
    BY <1>4
  <2>3. bal' \in [Account -> [Currency -> Nat]]
    BY <1>1, <1>4, <2>1, <2>2, ApplyType DEF FundsTypes
  <2> QED
    BY <1>1, <2>3 DEF FundsTypes, UndoLeg, history
<1>6. Quiet
  BY DEF UndoLeg, Quiet, orders, engine, history
<1>7. job[p] \in Job /\ Sound(job[p])
  BY <1>1, <1>2, InsideFacts
<1>8. PICK k : k = IF job[p].undo + 1 = job[p].leg THEN [job[p] EXCEPT !.pc = "rollback"]
                   ELSE [job[p] EXCEPT !.undo = job[p].undo + 1]
  OBVIOUS
<1>9. job' = [job EXCEPT ![p] = k]
  <2>1. job' = IF job[p].undo + 1 = job[p].leg THEN [job EXCEPT ![p] = [job[p] EXCEPT !.pc = "rollback"]]
               ELSE [job EXCEPT ![p] = [job[p] EXCEPT !.undo = job[p].undo + 1]]
    BY <1>1 DEF UndoLeg, Goto, JobTypes
  <2> QED
    BY <1>8, <2>1
<1>10. /\ k \in Job /\ k.order = job[p].order /\ k.trades = job[p].trades /\ k.at = job[p].at
       /\ k.out = job[p].out /\ k.seen = job[p].seen /\ k.leg = job[p].leg
       /\ k.pc \in {"undo", "rollback"} /\ (k.pc = "undo" => k.undo \in 1 .. k.leg - 1)
  <2> HIDE DEF n
  <2>1. CASE job[p].undo + 1 = job[p].leg
    <3>1. k = [job[p] EXCEPT !.pc = "rollback"]
      BY <1>8, <2>1
    <3> QED
      BY <1>7, <3>1 DEF Job
  <2>2. CASE job[p].undo + 1 # job[p].leg
    <3>1. /\ k = [job[p] EXCEPT !.undo = job[p].undo + 1]
          /\ job[p].undo + 1 \in 1 .. job[p].leg - 1 /\ job[p].undo + 1 \in Nat
      BY <1>3, <1>8, <2>2
    <3> QED
      BY <1>2, <1>7, <3>1 DEF Job
  <2> QED
    BY <2>1, <2>2
<1>11. k.pc \in Paying /\ k.pc \in Inside /\ k.pc \notin {"match", "create"}
  BY <1>10 DEF Paying, Inside
<1>12. Sound(k) /\ Claims(k) \subseteq Claims(job[p])
  BY <1>2, <1>3, <1>7, <1>10, <1>11, SettlesOn
<1>13. OrderTypes' /\ JobTypes' /\ Shape'
  BY <1>1, <1>2, <1>6, <1>9, <1>10, <1>11, <1>12, QuietMove
<1> QED
  BY <1>5, <1>13, TypePartsNext

LEMMA NoMarketFillKeeps ==
    ASSUME TypeOK, Shape, NEW p \in Proc, NoMarketFill(p)
    PROVE  TypeOK' /\ Shape'
<1>1. FundsTypes /\ OrderTypes /\ JobTypes
  BY TypeParts
<1>2. job[p].pc = "price" /\ job[p].pc \in Inside
  BY DEF NoMarketFill, Inside
<1>3. FundsTypes'
  BY <1>1 DEF FundsTypes, NoMarketFill, redis, history
<1>4. Quiet
  BY DEF NoMarketFill, Quiet, orders, engine, history
<1>5. job[p] \in Job /\ Sound(job[p]) /\ Settling(job[p])
  BY <1>1, <1>2, InsideFacts
<1>6. PICK k : k = [job[p] EXCEPT !.pc = "add"]
  OBVIOUS
<1>7. job' = [job EXCEPT ![p] = k]
  BY <1>1, <1>6 DEF NoMarketFill, Goto, JobTypes
<1>8. /\ k \in Job /\ k.order = job[p].order /\ k.trades = job[p].trades /\ k.at = job[p].at
      /\ k.out = job[p].out /\ k.seen = job[p].seen /\ k.pc = "add"
  BY <1>5, <1>6 DEF Job
<1>9. Settling(k)
  BY <1>2, <1>5, <1>8 DEF Settling, Paying
<1>10. Sound(k)
  BY <1>2, <1>5, <1>8, <1>9 DEF Sound
<1>11. Claims(k) = Claims(job[p])
  BY <1>2, <1>8 DEF Claims, Inside
<1>12. k.pc \in Inside /\ k.pc \notin {"match", "create"}
  BY <1>8 DEF Inside
<1>13. OrderTypes' /\ JobTypes' /\ Shape'
  BY <1>1, <1>2, <1>4, <1>7, <1>8, <1>10, <1>11, <1>12, QuietMove
<1> QED
  BY <1>3, <1>13, TypePartsNext

LEMMA MeetingFacts ==
    ASSUME OrderTypes, NEW o \in Created, NEW t, Meeting(o, t)
    PROVE  /\ ~Synthetic(t) /\ o \in Parties(t) /\ Parties(t) \subseteq Created
           /\ LegCount(t) = 4
<1>1. PICK r \in Created : t = TradeOf(terms, o, r, t.amt)
  BY DEF Meeting
<1>2. o \in Order /\ r \in Order
  BY SituationFields
<1>3. Parties(t) = {o, r} /\ ~Synthetic(t)
  BY <1>1, <1>2, PartiesOfTrade
<1> QED
  BY <1>3 DEF LegCount, Synthetic

LEMMA FillingFacts ==
    ASSUME OrderTypes, NEW o \in Created, NEW t, Filling(o, t)
    PROVE  Synthetic(t) /\ Parties(t) = {o} /\ LegCount(t) = 2
<1>1. o \in Order /\ o # None
  BY SituationFields, TradingAssumption
<1>2. terms[o].side = "BUY" \/ terms[o].side = "SELL"
  BY <1>1 DEF OrderTypes, Terms, Side
<1> QED
  BY <1>1, <1>2 DEF Filling, Synthetic, Parties, LegCount

LEMMA FillAtMarketKeeps ==
    ASSUME TypeOK, Shape, NEW p \in Proc, FillAtMarket(p)
    PROVE  TypeOK' /\ Shape'
<1>1. FundsTypes /\ OrderTypes /\ JobTypes
  BY TypeParts
<1>2. job[p].pc = "price" /\ job[p].pc \in Inside
  BY DEF FillAtMarket, Inside
<1>3. FundsTypes'
  BY <1>1 DEF FundsTypes, FillAtMarket, redis, history
<1>4. Quiet
  BY DEF FillAtMarket, Quiet, orders, engine, history
<1> DEFINE o == job[p].order
           left == Remaining(terms, mem, o)
           trades == job[p].trades
           n == Len(trades)
<1>5. /\ job[p] \in Job /\ Sound(job[p]) /\ Settling(job[p]) /\ o \in Created /\ o \in Order
      /\ trades \in Seq(Trade) /\ n \in Nat
  BY <1>1, <1>2, InsideFacts
<1>6. PICK price \in MarketPrice \ {0} :
         job' = [job EXCEPT ![p].pc = "leg", ![p].leg = 1, ![p].at = n + 1,
                     ![p].trades = Append(@, [buy  |-> IF terms[o].side = "BUY" THEN o ELSE None,
                                              sell |-> IF terms[o].side = "SELL" THEN o ELSE None,
                                              price |-> price, amt |-> left])]
  BY DEF FillAtMarket
<1>7. PICK t : t = [buy  |-> IF terms[o].side = "BUY" THEN o ELSE None,
                    sell |-> IF terms[o].side = "SELL" THEN o ELSE None,
                    price |-> price, amt |-> left]
  OBVIOUS
<1>8. left \in Nat /\ left > 0
  <2>1. left \in Int
    BY <1>1, <1>5, RemainingType DEF OrderTypes
  <2> QED
    BY <2>1 DEF FillAtMarket
<1>9. t \in Trade /\ t.amt = left /\ Filling(o, t)
  <2>1. price \in Nat
    BY <1>1, SituationAssumption, TradingAssumption DEF OrderTypes, MarketPrice
  <2> HIDE DEF o, left
  <2> QED
    BY <1>5, <1>7, <1>8, <2>1 DEF Trade, Filling
<1>10. PICK all : all = Append(trades, t)
  OBVIOUS
<1>11. /\ all \in Seq(Trade) /\ Len(all) = n + 1 /\ all[n + 1] = t
       /\ \A i \in 1 .. n : all[i] = trades[i]
       /\ Range(all) = Range(trades) \cup {t}
  BY <1>5, <1>9, <1>10, Appended
<1>12. PICK k : k = [job[p] EXCEPT !.pc = "leg", !.leg = 1, !.at = n + 1, !.trades = all]
  OBVIOUS
<1>13. job' = [job EXCEPT ![p] = k]
  BY <1>1, <1>6, <1>7, <1>10, <1>12 DEF JobTypes
<1>14. /\ k \in Job /\ k.order = o /\ k.trades = all /\ k.at = n + 1 /\ k.leg = 1
       /\ k.out = job[p].out /\ k.seen = job[p].seen /\ k.pc = "leg"
  <2>1. n + 1 \in Nat /\ 1 \in Nat
    BY <1>5
  <2> HIDE DEF n
  <2> QED
    BY <1>5, <1>11, <1>12, <2>1 DEF Job
<1>15. \A i \in 1 .. n : trades[i].amt \in Nat /\ Meeting(o, trades[i])
  BY <1>2, <1>5 DEF Settling, Paying
<1>16. Synthetic(t) /\ Parties(t) = {o} /\ LegCount(t) = 2
  BY <1>1, <1>5, <1>9, FillingFacts
<1>17. mem[o].filled = ShareOf(all, o)
  <2>1. mem[o].filled = ShareOf(trades, o)
    BY <1>2, <1>5 DEF Settling
  <2>2. ShareOf(all, o) = ShareOf(trades, o) + Deal(t, o) /\ ShareOf(trades, o) \in Int
    BY <1>5, <1>9, <1>10, ShareAppend
  <2>3. Deal(t, o) = 0
    BY <1>16 DEF Deal
  <2> QED
    BY <2>1, <2>2, <2>3
<1> HIDE DEF n, trades, left
<1>18. Settling(k)
  <2>1. \A i \in 1 .. n + 1 : i \in 1 .. n \/ i = n + 1
    BY <1>5
  <2>2. \A i \in 1 .. n + 1 :
          /\ all[i].amt \in Nat
          /\ Meeting(o, all[i]) \/ (Filling(o, all[i]) /\ i = n + 1)
    BY <1>8, <1>9, <1>11, <1>15, <2>1
  <2>3. \A i \in 1 .. n + 1 : Synthetic(all[i]) => all[i].amt = left
    <3>1. \A i \in 1 .. n : ~Synthetic(all[i])
      BY <1>1, <1>5, <1>11, <1>15, MeetingFacts
    <3> QED
      BY <1>9, <1>11, <2>1, <3>1
  <2>4. n + 1 \in 1 .. (n + 1) + 1 /\ 1 \in 1 .. LegCount(all[n + 1]) /\ n + 1 <= n + 1
    BY <1>5, <1>11, <1>16
  <2>5. k.pc \in Paying /\ k.pc \notin {"price", "add", "publish", "undo"}
    BY <1>14 DEF Paying
  <2> HIDE DEF o
  <2> QED
    BY <1>11, <1>14, <1>17, <2>2, <2>3, <2>4, <2>5 DEF Settling, left, o
<1>19. Sound(k)
  <2>1. k.pc # "match" /\ job[p].pc \notin {"idle", "create"}
    BY <1>2, <1>14
  <2> QED
    BY <1>5, <1>14, <1>18, <2>1 DEF Sound
<1>20. Claims(k) \subseteq Claims(job[p])
  <2>1. Claims(job[p]) = {o} \cup UNION {Parties(x) : x \in Range(trades)}
    BY <1>2 DEF Claims, trades
  <2>2. Claims(k) = {o} \cup UNION {Parties(x) : x \in Range(all)}
    BY <1>14 DEF Claims, Inside
  <2> QED
    BY <1>11, <1>16, <2>1, <2>2
<1>21. k.pc \in Inside /\ k.pc \notin {"match", "create"}
  BY <1>14 DEF Inside
<1>22. OrderTypes' /\ JobTypes' /\ Shape'
  BY <1>1, <1>2, <1>4, <1>13, <1>14, <1>19, <1>20, <1>21, QuietMove
<1> QED
  BY <1>3, <1>22, TypePartsNext

(* What is sound stays so while the orders it relies on do. *)
LEMMA SoundStays ==
    ASSUME OrderTypes, OrderTypes', NEW k \in Job, Sound(k), OrdersStay, k.pc # "match",
           k.pc \in Inside => mem'[k.order].filled = mem[k.order].filled
    PROVE  Sound(k)'
<1>1. Created \subseteq Created' /\ \A x \in Created : terms'[x] = terms[x]
  BY DEF OrdersStay, Created, OrderTypes
<1>2. k.pc \in Inside => k.order \in Created
  BY DEF Sound, Inside
<1>3. k.pc \in Inside => Settling(k)'
  BY <1>2, SettlingStays DEF Sound
<1>4. k.pc \notin {"idle", "create"} => k.order \in Created' /\ k.seen.filled <= terms'[k.order].amount
  BY <1>1 DEF Sound
<1>5. \A i \in 1 .. Len(k.out) : Within(k.out[i])'
  BY <1>1 DEF Sound, Within
<1> QED
  BY <1>3, <1>4, <1>5 DEF Sound

LEMMA UnlockType ==
    ASSUME terms \in [Order -> Terms], NEW store \in [Account -> [Currency -> Nat]],
           NEW t \in Trade, t.amt \in Nat, NEW o \in Order, NEW taker
    PROVE  UnlockParty(store, t, o, taker) \in [Account -> [Currency -> Nat]]
<1> DEFINE u == terms[o].user
           c == LockCurrency(terms[o])
           n == PaidOf(t, o, taker)
           left == IF store[u][c] > n THEN store[u][c] - n ELSE 0
<1>1. u \in Account /\ c \in Currency
  BY DEF Terms, LockCurrency, Currency
<1>2. n \in Nat
  BY FeeType DEF PaidOf
<1>3. UnlockParty(store, t, o, taker) =
         IF terms[o].type # "LIMIT" THEN store ELSE [store EXCEPT ![u] = [store[u] EXCEPT ![c] = left]]
  BY DEF UnlockParty
<1> HIDE DEF n, u, c
<1>4. left \in Nat
  BY <1>1, <1>2
<1> HIDE DEF left
<1> QED
  BY <1>1, <1>3, <1>4

LEMMA SettleTailFunds ==
    ASSUME TypeOK, Shape, NEW p \in Proc, SettleTail(p)
    PROVE  /\ FundsTypes'
           /\ \A x \in Order : x > lastId => settled'[x] = settled[x]
<1>1. FundsTypes /\ OrderTypes /\ JobTypes
  BY TypeParts
<1>2. job[p].pc = "tail" /\ job[p].pc \in Paying /\ job[p].pc \in Inside
  BY DEF SettleTail, Paying, Inside
<1>3. PICK t : t = CurrentTrade(p)
  OBVIOUS
<1> DEFINE o == job[p].order
<1>4. o \in Created /\ o \in Order /\ job[p] \in Job /\ Settling(job[p]) /\ job[p].trades \in Seq(Trade)
  BY <1>1, <1>2, InsideFacts
<1>5. t \in Trade /\ t.amt \in Nat /\ job[p].at \in 1 .. Len(job[p].trades) /\ t = job[p].trades[job[p].at]
  BY <1>1, <1>2, <1>3, LegFacts
<1>6. Meeting(o, t) \/ Filling(o, t)
  BY <1>4, <1>5 DEF Settling
<1>7. Parties(t) \subseteq Created
  BY <1>1, <1>4, <1>6, MeetingFacts, FillingFacts
<1>8. t.price \in Nat /\ t.amt \in Int /\ Value(t) \in Int
  BY <1>5, FeeType DEF Trade
<1>9. bal' \in [Account -> [Currency -> Nat]]
  <2>1. bal' = Add(bal, FeeWallet, "quote", TotalFee(t, o))
    BY <1>3 DEF SettleTail
  <2>2. TotalFee(t, o) \in Nat
    BY <1>5, TotalFeeType
  <2>3. FeeWallet \in Account /\ "quote" \in Currency
    BY DEF Account, Currency
  <2>4. CanApply(FeeWallet, "quote", TotalFee(t, o))
    BY <2>2 DEF CanApply
  <2> QED
    BY <1>1, <2>1, <2>2, <2>3, <2>4, ApplyType DEF FundsTypes
<1>10. lck' \in [Account -> [Currency -> Nat]]
  <2>1. lck' = IF Synthetic(t) THEN lck
               ELSE UnlockParty(UnlockParty(lck, t, t.buy, o), t, t.sell, o)
    BY <1>3 DEF SettleTail
  <2>2. CASE Synthetic(t)
    BY <1>1, <2>1, <2>2 DEF FundsTypes
  <2>3. CASE ~Synthetic(t)
    <3>1. t.buy \in Order /\ t.sell \in Order
      BY <1>5, <2>3 DEF Synthetic, Trade
    <3>2. UnlockParty(lck, t, t.buy, o) \in [Account -> [Currency -> Nat]]
      BY <1>1, <1>5, <3>1, UnlockType DEF FundsTypes, OrderTypes
    <3>3. UnlockParty(UnlockParty(lck, t, t.buy, o), t, t.sell, o) \in [Account -> [Currency -> Nat]]
      BY <1>1, <1>5, <3>1, <3>2, UnlockType DEF OrderTypes
    <3> QED
      BY <2>1, <2>3, <3>3
  <2> QED
    BY <2>2, <2>3
<1>11. settled' = [x \in Order |-> IF x \in Parties(t) THEN settled[x] + t.amt ELSE settled[x]]
  BY <1>3 DEF SettleTail
<1>12. settled' \in [Order -> Nat]
  BY <1>1, <1>5, <1>11 DEF FundsTypes
<1>13. outside' \in [Currency -> Int]
  <2>1. \/ outside' = outside
        \/ outside' = [outside EXCEPT !.base = @ + t.amt, !.quote = @ - Value(t)]
        \/ outside' = [outside EXCEPT !.base = @ - t.amt, !.quote = @ + Value(t)]
    BY <1>3 DEF SettleTail
  <2>2. /\ outside["base"] \in Int /\ outside["quote"] \in Int
        /\ "base" \in Currency /\ "quote" \in Currency /\ outside \in [Currency -> Int]
    BY <1>1 DEF FundsTypes, Currency
  <2>3. \A a, b \in Int : [outside EXCEPT !["base"] = a, !["quote"] = b] \in [Currency -> Int]
    BY <2>2
  <2>4. /\ outside["base"] + t.amt \in Int /\ outside["base"] - t.amt \in Int
        /\ outside["quote"] + Value(t) \in Int /\ outside["quote"] - Value(t) \in Int
    BY <1>8, <2>2
  <2> QED
    BY <2>1, <2>2, <2>3, <2>4
<1>14. \A x \in Order : x > lastId => settled'[x] = settled[x]
  <2>1. \A x \in Order : x > lastId => x \notin Created
    BY <1>1 DEF Created, OrderTypes
  <2> QED
    BY <1>7, <1>11, <2>1
<1>15. posted' = posted
  BY DEF SettleTail
<1> QED
  BY <1>1, <1>9, <1>10, <1>12, <1>13, <1>14, <1>15 DEF FundsTypes

LEMMA SettleTailKeeps ==
    ASSUME TypeOK, Shape, NEW p \in Proc, SettleTail(p)
    PROVE  TypeOK' /\ Shape'
<1>1. FundsTypes /\ OrderTypes /\ JobTypes
  BY TypeParts
<1>2. job[p].pc = "tail" /\ job[p].pc \in Paying /\ job[p].pc \in Inside
  BY DEF SettleTail, Paying, Inside
<1>3. FundsTypes' /\ \A x \in Order : x > lastId => settled'[x] = settled[x]
  BY SettleTailFunds
<1> PICK o, trades, n, at :
       o = job[p].order /\ trades = job[p].trades /\ n = Len(trades) /\ at = job[p].at
  OBVIOUS
<1>4. /\ o \in Created /\ o \in Order /\ job[p] \in Job /\ Sound(job[p]) /\ Settling(job[p])
      /\ mutex = p /\ trades \in Seq(Trade) /\ n \in Nat
      /\ \A i \in 1 .. n : trades[i] \in Trade
  BY <1>1, <1>2, InsideFacts
<1>5. PICK t : t = CurrentTrade(p)
  OBVIOUS
<1>6. t \in Trade /\ t.amt \in Nat /\ at \in 1 .. n /\ t = trades[at]
  BY <1>1, <1>2, <1>5, LegFacts
<1>7. \A i \in 1 .. n : /\ trades[i].amt \in Nat
                        /\ \/ Meeting(o, trades[i])
                           \/ Filling(o, trades[i]) /\ i = n
  BY <1>4 DEF Settling
<1>8. \A i \in 1 .. n : LegCount(trades[i]) \in {2, 4}
  BY <1>1, <1>4, <1>7, MeetingFacts, FillingFacts
<1>9. PICK k : k = [job[p] EXCEPT !.pc = IF Synthetic(t) THEN "publish"
                                         ELSE IF at = n THEN "price" ELSE "leg",
                                  !.at = at + 1, !.leg = 1]
  OBVIOUS
<1>10. job' = [job EXCEPT ![p] = k]
  BY <1>1, <1>5, <1>9 DEF SettleTail, JobTypes
<1>11. /\ k \in Job /\ k.order = o /\ k.trades = trades /\ k.at = at + 1 /\ k.leg = 1
       /\ k.out = job[p].out /\ k.seen = job[p].seen
       /\ k.pc = IF Synthetic(t) THEN "publish" ELSE IF at = n THEN "price" ELSE "leg"
  <2>1. at + 1 \in Nat /\ 1 \in Nat
    BY <1>6
  <2> QED
    BY <1>4, <1>9, <2>1 DEF Job
<1>12. Claims(k) = Claims(job[p])
  BY <1>2, <1>11 DEF Claims, Inside
<1>13. k.pc \in Inside /\ k.pc \notin {"match", "create", "idle"}
  BY <1>11 DEF Inside
<1>14. CASE Synthetic(t)
  <2>1. mem' = Fill(terms, mem, o, t.amt)
    BY <1>5, <1>14 DEF SettleTail
  <2>2. Filling(o, t) /\ at = n
    BY <1>1, <1>4, <1>6, <1>7, <1>14, MeetingFacts
  <2>3. t.amt = Remaining(terms, mem, o)
    BY <1>2, <1>4, <1>6, <1>14 DEF Settling
  <2>4. /\ mem' \in [Order -> Progress] /\ mem'[o].filled = mem[o].filled + t.amt
        /\ \A x \in Order \ {o} : mem'[x] = mem[x]
    <3>1. terms \in [Order -> Terms] /\ mem \in [Order -> Progress] /\ o \in Order /\ t.amt \in Int
      BY <1>1, <1>4, <1>6 DEF OrderTypes
    <3> QED
      BY ONLY <2>1, <3>1, FillType
  <2>5. mem'[o].filled <= terms[o].amount
    <3>1. mem[o].filled \in Int /\ terms[o].amount \in Nat
      BY <1>1, <1>4, RemainingType DEF OrderTypes
    <3> QED
      BY <2>3, <2>4, <3>1 DEF Remaining
  <2>6. UNCHANGED <<terms, row, lastId, book, mutex, updates, here>>
    BY DEF SettleTail, engine
  <2>7. OrderTypes' /\ JobTypes' /\ job'[p] = k /\ \A q \in Proc \ {p} : job'[q] = job[q]
    BY <1>1, <1>10, <1>11, <2>4, <2>6, MoveOn DEF OrderTypes
  <2>8. /\ Created' = Created /\ OrdersStay
        /\ \A x : Rests(x)' <=> Rests(x)
    BY <1>1, <2>6 DEF Created, OrdersStay, Rests, OrderTypes
  <2>9. RowsWithin'
    BY <1>1, <2>4, <2>5, <2>6, <2>8 DEF Shape, RowsWithin, Within
  <2>10. BookSound'
    BY <2>6, <2>8 DEF Shape, BookSound
  <2>11. OneInside'
    BY <1>2, <1>13, <2>6, <2>7 DEF Shape, OneInside
  <2>12. k.pc = "publish"
    BY <1>11, <1>14
  <2>13. Settling(k)'
    <3>1. \A x : Meeting(o, x)' <=> Meeting(o, x)
      BY <2>6, <2>8 DEF Meeting
    <3>2. \A x : Filling(o, x)' <=> Filling(o, x)
      BY <2>6 DEF Filling
    <3>3. k.pc \in Paying \cup {"publish"} /\ k.pc \notin Paying \cup {"price", "undo"}
      BY <2>12 DEF Paying
    <3>4. k.at \in 1 .. n + 1 /\ k.at = n + 1
      BY <1>4, <1>11, <2>2
    <3>5. \A i \in 1 .. n : /\ k.trades[i].amt \in Nat
                        /\ \/ Meeting(o, k.trades[i])'
                           \/ Filling(o, k.trades[i])' /\ i = n
      BY <1>7, <1>11, <3>1, <3>2
    <3> QED
      BY <1>11, <3>3, <3>4, <3>5 DEF Settling
  <2>14. Sound(k)'
    <3>1. k.pc \notin {"match", "idle", "create"} /\ job[p].pc \notin {"idle", "create"}
      BY <1>2, <2>12
    <3>2. k.order \in Created' /\ k.seen.filled <= terms'[k.order].amount
      BY <1>4, <1>11, <2>6, <2>8, <3>1 DEF Sound
    <3>3. \A i \in 1 .. Len(k.out) : Within(k.out[i])'
      BY <1>4, <1>11, <2>6, <2>8 DEF Sound, Within
    <3> QED
      BY <2>13, <3>1, <3>2, <3>3 DEF Sound
  <2>15. LeavesOthers(p, k)
    <3>1. o \in Claims(job[p])
      BY <1>2 DEF Claims
    <3>2. ~ \E q \in Proc \ {p} : job[q].pc \in Inside
      BY <1>4 DEF Shape, OneInside
    <3>3. \A x \in Created : mem'[x].filled = mem[x].filled \/ x \in Claims(job[p])
      BY <1>1, <2>4, <3>1, SituationFields
    <3> QED
      BY <1>12, <1>13, <2>7, <2>8, <3>2, <3>3 DEF LeavesOthers
  <2>16. \A x \in Order : x > lastId =>
            mem'[x] = NoProgress /\ row'[x] = NoProgress /\ settled'[x] = 0
    <3>1. \A x \in Order : x > lastId => x # o
      BY <1>1, <1>4 DEF Created, OrderTypes
    <3> QED
      BY <1>3, <2>4, <2>6, <3>1 DEF Shape, Numbered
  <2>17. Shape'
    BY <1>1, <1>10, <1>11, <1>13, <2>6, <2>7, <2>9, <2>10, <2>11, <2>14, <2>15, <2>16, Moved
  <2> QED
    BY <1>3, <2>7, <2>17, TypePartsNext
<1>15. CASE ~Synthetic(t)
  <2>1. Quiet
    BY <1>3, <1>5, <1>15 DEF SettleTail, Quiet, engine
  <2>2. k.pc = IF at = n THEN "price" ELSE "leg"
    BY <1>11, <1>15
  <2>3. at = n => \A i \in 1 .. n : Meeting(o, trades[i])
    BY <1>1, <1>4, <1>6, <1>7, <1>15, FillingFacts
  <2>4. \A i \in 1 .. n : Synthetic(trades[i]) => trades[i].amt = Remaining(terms, mem, o)
    BY <1>2, <1>4 DEF Settling
  <2>5. mem[o].filled = ShareOf(trades, o)
    BY <1>2, <1>4 DEF Settling
  <2>6. at + 1 \in 1 .. n + 1 /\ (at # n => at + 1 \in 1 .. n /\ 1 \in 1 .. LegCount(trades[at + 1]))
        /\ (at = n => at + 1 = n + 1)
    <3>1. at + 1 \in 1 .. n + 1 /\ (at # n => at + 1 \in 1 .. n)
      BY <1>4, <1>6
    <3>2. \A i \in 1 .. n : 1 \in 1 .. LegCount(trades[i])
      BY <1>8
    <3> QED
      BY <3>1, <3>2
  <2>7. k.pc \notin {"undo", "add", "publish"} /\ (k.pc \in Paying <=> at # n) /\ (k.pc = "price" <=> at = n)
    BY <2>2 DEF Paying
  <2>8. Settling(k)
    <3>1. \A i \in 1 .. n : /\ k.trades[i].amt \in Nat
                            /\ \/ Meeting(k.order, k.trades[i])
                               \/ Filling(k.order, k.trades[i]) /\ i = n /\ k.pc \in Paying
      BY <1>7, <1>11, <2>3, <2>7
    <3>2. k.at \in 1 .. n + 1 /\ (k.pc = "price" => k.at = n + 1)
          /\ (k.pc \in Paying => k.at \in 1 .. n /\ k.leg \in 1 .. LegCount(k.trades[k.at]))
      BY <1>11, <2>6, <2>7
    <3>3. k.pc \in Paying => k.at <= n
      BY <1>4, <3>2
    <3> QED
      BY <1>11, <2>4, <2>5, <2>7, <3>1, <3>2, <3>3 DEF Settling
  <2>9. Sound(k)
    <3>1. k.pc \notin {"match", "idle", "create"} /\ job[p].pc \notin {"idle", "create"}
      BY <1>2, <1>13
    <3> QED
      BY <1>4, <1>11, <2>8, <3>1 DEF Sound
  <2>10. OrderTypes' /\ JobTypes' /\ Shape'
    BY <1>1, <1>2, <1>10, <1>11, <1>12, <1>13, <2>1, <2>9, QuietMove
  <2> QED
    BY <1>3, <2>10, TypePartsNext
<1> QED
  BY <1>14, <1>15

-----------------------------------------------------------------------------
(* Outside the mutex *)

Apart == {"idle", "syncRead", "syncWrite", "failed", "unlock", "save", "remove", "announce"}

LEMMA ApartSound ==
    ASSUME NEW k \in Job, k.pc \in Apart,
           k.pc # "idle" => k.order \in Created /\ k.seen.filled <= terms[k.order].amount,
           \A i \in 1 .. Len(k.out) : Within(k.out[i])
    PROVE  Sound(k) /\ Claims(k) = {} /\ k.pc \notin Inside \cup {"match", "create"}
<1>1. k.pc \notin Inside \cup {"match", "create"}
  BY DEF Apart, Inside
<1> QED
  BY <1>1 DEF Sound, Claims

LEMMA IdleApart ==
    Idle.pc \in Apart /\ Sound(Idle) /\ Claims(Idle) = {} /\ Idle.pc \notin Inside \cup {"match", "create"}
<1>1. Idle \in Job /\ Idle.pc \in Apart /\ Idle.pc = "idle" /\ \A i \in 1 .. Len(Idle.out) : FALSE
  BY IdleType DEF Apart
<1> QED
  BY <1>1, ApartSound

(* What happens apart from matching and settling: rows and events are      *)
(* written, orders leave the book.                                         *)
LEMMA ApartMove ==
    ASSUME OrderTypes, OrderTypes', JobTypes, Shape,
           NEW p \in Proc, NEW k \in Job, job' = [job EXCEPT ![p] = k],
           UNCHANGED <<terms, lastId, mutex, settled, here>>,
           \A x \in Order : mem'[x].filled = mem[x].filled,
           \A x \in Order : x > lastId => mem'[x] = NoProgress /\ row'[x] = NoProgress,
           \A side \in Side : Range(book'[side]) \subseteq Range(book[side]),
           RowsWithin', job[p].pc \in Apart, k.pc \in Apart, Sound(k)
    PROVE  JobTypes' /\ Shape'
<1>1. JobTypes' /\ job'[p] = k /\ \A q \in Proc \ {p} : job'[q] = job[q]
  BY MoveOn
<1>2. Created' = Created /\ OrdersStay /\ Created \subseteq Order
  BY SituationFields DEF Created, OrdersStay, OrderTypes
<1>3. k.pc \notin Inside \cup {"match", "create"} /\ job[p].pc \notin Inside
  BY DEF Apart, Inside
<1>4. Claims(k) = {}
  BY <1>3 DEF Claims
<1>5. Sound(k)'
  BY <1>2, <1>3, SoundStays
<1>6. \A x : Rests(x)' => Rests(x)
  BY DEF Rests
<1>7. LeavesOthers(p, k)
  BY <1>1, <1>2, <1>3, <1>4, <1>6 DEF LeavesOthers
<1>8. BookSound'
  <2>1. BookSound
    BY DEF Shape
  <2> QED
    BY <1>2, <2>1 DEF BookSound
<1>9. OneInside'
  <2>1. OneInside
    BY DEF Shape
  <2> QED
    BY <1>1, <1>3, <2>1 DEF OneInside
<1>10. \A x \in Order : x > lastId => settled'[x] = 0
  BY DEF Shape, Numbered
<1>11. Shape'
  BY <1>1, <1>3, <1>5, <1>7, <1>8, <1>9, <1>10, Moved
<1> QED
  BY <1>1, <1>11

LEMMA ApartFacts ==
    ASSUME OrderTypes, JobTypes, Shape, NEW p \in Proc, job[p].pc \in Apart
    PROVE  /\ job[p] \in Job /\ Sound(job[p])
           /\ job[p].seen \in Progress
           /\ job[p].pc # "idle" => /\ job[p].order \in Created /\ job[p].order \in Order
                                    /\ job[p].order <= lastId
                                    /\ job[p].seen.filled <= terms[job[p].order].amount
           /\ \A i \in 1 .. Len(job[p].out) : Within(job[p].out[i])
<1>1. job[p] \in Job /\ Sound(job[p])
  BY DEF JobTypes, Shape, JobsSound
<1>2. job[p].pc # "idle" => job[p].order \in Created /\ job[p].seen.filled <= terms[job[p].order].amount
  BY <1>1 DEF Sound, Apart
<1>3. job[p].order \in Created => job[p].order \in Order /\ job[p].order <= lastId
  BY SituationFields DEF Created
<1> QED
  BY <1>1, <1>2, <1>3, JobFields DEF Sound

(* A row is written. *)
LEMMA RowType ==
    ASSUME OrderTypes, Shape, NEW o \in Created, NEW e \in Progress, e.filled <= terms[o].amount,
           row' = [row EXCEPT ![o] = e]
    PROVE  /\ row' \in [Order -> Progress]
           /\ \A x \in Order : row'[x].filled <= terms[x].amount
           /\ \A x \in Order : x > lastId => row'[x] = NoProgress
<1>1. o \in Order /\ o <= lastId /\ row \in [Order -> Progress] /\ lastId \in Nat
  BY SituationFields DEF Created, OrderTypes
<1>2. \A x \in Order : row[x].filled <= terms[x].amount
  BY DEF Shape, RowsWithin
<1>3. \A x \in Order : x > lastId => row[x] = NoProgress /\ x # o
  BY <1>1 DEF Shape, Numbered, Order
<1> QED
  BY <1>1, <1>2, <1>3

LEMMA SyncReadKeeps ==
    ASSUME TypeOK, Shape, NEW p \in Proc, SyncRead(p)
    PROVE  TypeOK' /\ Shape'
<1>1. FundsTypes /\ OrderTypes /\ JobTypes
  BY TypeParts
<1>2. job[p].pc = "syncRead" /\ job[p].pc \in Apart
  BY DEF SyncRead, Apart
<1>3. FundsTypes'
  BY <1>1 DEF FundsTypes, SyncRead, redis, history
<1>4. Quiet
  BY DEF SyncRead, Quiet, orders, engine, history
<1>5. /\ job[p] \in Job /\ job[p].order \in Created /\ job[p].order \in Order
      /\ \A i \in 1 .. Len(job[p].out) : Within(job[p].out[i])
  BY <1>1, <1>2, ApartFacts
<1>6. PICK k : k = [job[p] EXCEPT !.pc = "syncWrite", !.seen = mem[job[p].order]]
  OBVIOUS
<1>7. job' = [job EXCEPT ![p] = k]
  BY <1>1, <1>6 DEF SyncRead, JobTypes
<1>8. mem[job[p].order] \in Progress /\ mem[job[p].order].filled <= terms[job[p].order].amount
  BY <1>1, <1>5 DEF OrderTypes, Shape, RowsWithin
<1>9. /\ k \in Job /\ k.order = job[p].order /\ k.out = job[p].out /\ k.pc = "syncWrite"
      /\ k.seen = mem[job[p].order]
  BY <1>5, <1>6, <1>8 DEF Job
<1>10. Sound(k) /\ Claims(k) = {} /\ k.pc \notin Inside \cup {"match", "create"}
  <2>1. k.pc \in Apart
    BY <1>9 DEF Apart
  <2> QED
    BY <1>5, <1>8, <1>9, <2>1, ApartSound
<1>11. job[p].pc \notin Inside
  BY <1>2 DEF Inside
<1>12. OrderTypes' /\ JobTypes' /\ Shape'
  BY <1>1, <1>4, <1>7, <1>9, <1>10, <1>11, QuietMove
<1> QED
  BY <1>3, <1>12, TypePartsNext

LEMMA SyncWriteKeeps ==
    ASSUME TypeOK, Shape, NEW p \in Proc, SyncWrite(p)
    PROVE  TypeOK' /\ Shape'
<1>1. FundsTypes /\ OrderTypes /\ JobTypes
  BY TypeParts
<1>2. job[p].pc = "syncWrite" /\ job[p].pc \in Apart
  BY DEF SyncWrite, Apart
<1>3. FundsTypes'
  BY <1>1 DEF FundsTypes, SyncWrite, redis, history
<1>4. PICK k : k = Idle
  OBVIOUS
<1>5. k \in Job /\ k.pc \in Apart /\ Sound(k)
  BY <1>4, IdleType, IdleApart
<1>6. job' = [job EXCEPT ![p] = k] /\ row' = [row EXCEPT ![job[p].order] = job[p].seen]
  BY <1>4 DEF SyncWrite, Finish
<1>7. UNCHANGED <<terms, mem, lastId, book, mutex, updates, settled, here>>
  BY DEF SyncWrite, engine, history
<1>8. /\ row' \in [Order -> Progress]
      /\ \A x \in Order : row'[x].filled <= terms[x].amount
      /\ \A x \in Order : x > lastId => row'[x] = NoProgress
  BY <1>1, <1>2, <1>6, ApartFacts, RowType
<1>9. OrderTypes'
  BY <1>1, <1>7, <1>8 DEF OrderTypes
<1>10. RowsWithin'
  BY <1>7, <1>8 DEF Shape, RowsWithin, Within, Created
<1>11. /\ \A x \in Order : mem'[x].filled = mem[x].filled
       /\ \A x \in Order : x > lastId => mem'[x] = NoProgress /\ row'[x] = NoProgress
       /\ \A side \in Side : Range(book'[side]) \subseteq Range(book[side])
  BY <1>7, <1>8 DEF Shape, Numbered
<1>12. JobTypes' /\ Shape'
  BY <1>1, <1>2, <1>5, <1>6, <1>7, <1>9, <1>10, <1>11, ApartMove
<1> QED
  BY <1>3, <1>9, <1>12, TypePartsNext

LEMMA FailOrderKeeps ==
    ASSUME TypeOK, Shape, NEW p \in Proc, FailOrder(p)
    PROVE  TypeOK' /\ Shape'
<1>1. FundsTypes /\ OrderTypes /\ JobTypes
  BY TypeParts
<1>2. job[p].pc = "failed" /\ job[p].pc \in Apart
  BY DEF FailOrder, Apart
<1>3. FundsTypes'
  BY <1>1 DEF FundsTypes, FailOrder, redis, history
<1>4. PICK k : k = Idle
  OBVIOUS
<1>5. k \in Job /\ k.pc \in Apart /\ Sound(k)
  BY <1>4, IdleType, IdleApart
<1> PICK o : o = job[p].order
  OBVIOUS
<1>6. o \in Created /\ o \in Order /\ o <= lastId
  BY <1>1, <1>2, ApartFacts
<1>7. PICK e : e = [filled |-> mem[o].filled, status |-> "CANCELLED"]
  OBVIOUS
<1>8. mem[o] \in Progress /\ e \in Progress /\ e.filled = mem[o].filled /\ e.filled <= terms[o].amount
  <2>1. mem[o] \in Progress /\ mem[o].filled <= terms[o].amount
    BY <1>1, <1>6 DEF OrderTypes, Shape, RowsWithin
  <2> QED
    BY <1>7, <2>1 DEF Progress, Status
<1>9. mem' = [mem EXCEPT ![o] = e]
  <2>1. mem' = [mem EXCEPT ![o] = [mem[o] EXCEPT !.status = "CANCELLED"]]
    BY DEF FailOrder
  <2>2. [mem[o] EXCEPT !.status = "CANCELLED"] = e
    BY <1>7, <1>8 DEF Progress
  <2> QED
    BY <2>1, <2>2
<1>10. /\ mem' \in [Order -> Progress] /\ mem'[o] = e
       /\ \A x \in Order \ {o} : mem'[x] = mem[x]
  BY <1>1, <1>6, <1>8, <1>9 DEF OrderTypes
<1>11. job' = [job EXCEPT ![p] = k] /\ row' = [row EXCEPT ![o] = e]
  BY <1>4, <1>10 DEF FailOrder, Finish
<1>12. UNCHANGED <<terms, lastId, book, mutex, updates, settled, here>>
  BY DEF FailOrder, engine, history
<1>13. /\ row' \in [Order -> Progress]
       /\ \A x \in Order : row'[x].filled <= terms[x].amount
       /\ \A x \in Order : x > lastId => row'[x] = NoProgress
  BY <1>1, <1>6, <1>8, <1>11, RowType
<1>14. OrderTypes'
  BY <1>1, <1>10, <1>12, <1>13 DEF OrderTypes
<1>15. \A x \in Order : mem'[x].filled = mem[x].filled
  BY <1>8, <1>10
<1>16. RowsWithin'
  BY <1>12, <1>13, <1>15 DEF Shape, RowsWithin, Within, Created
<1>17. \A x \in Order : x > lastId => mem'[x] = NoProgress /\ row'[x] = NoProgress
  <2>1. \A x \in Order : x > lastId => x # o
    BY <1>1, <1>6, SituationFields DEF Order
  <2> QED
    BY <1>10, <1>13, <2>1 DEF Shape, Numbered
<1>18. \A side \in Side : Range(book'[side]) \subseteq Range(book[side])
  BY <1>12
<1>19. JobTypes' /\ Shape'
  BY <1>1, <1>2, <1>5, <1>11, <1>12, <1>14, <1>15, <1>16, <1>17, <1>18, ApartMove
<1> QED
  BY <1>3, <1>14, <1>19, TypePartsNext

LEMMA CancelKeeps ==
    ASSUME TypeOK, Shape, NEW p \in Proc, NEW o \in Order, NEW by \in {"user", "admin"},
           CancelOrder(p, o, by)
    PROVE  TypeOK' /\ Shape'
<1>1. FundsTypes /\ OrderTypes /\ JobTypes
  BY TypeParts
<1>2. job[p].pc = "idle" /\ job[p].pc \notin Inside
  BY DEF CancelOrder, Free, Inside
<1>3. FundsTypes'
  BY <1>1 DEF FundsTypes, CancelOrder, redis, history
<1>4. Quiet
  BY DEF CancelOrder, Quiet, orders, engine, history
<1>5. row[o] \in Progress /\ row[o].filled <= terms[o].amount
  BY <1>1 DEF OrderTypes, Shape, RowsWithin
<1>6. o \in Created
  <2>1. o <= lastId
    <3>1. row[o].status # "NONE"
      BY DEF CancelOrder
    <3>2. row[o] # NoProgress
      BY <3>1 DEF NoProgress
    <3> QED
      BY <1>1, <3>2, SituationFields DEF Shape, Numbered, Order
  <2> QED
    BY <1>1, <2>1, SituationFields DEF Created, Order
<1>7. PICK k : k = [Idle EXCEPT !.pc = "unlock", !.order = o, !.by = by, !.seen = row[o]]
  OBVIOUS
<1>8. job' = [job EXCEPT ![p] = k]
  BY <1>1, <1>7 DEF CancelOrder, JobTypes
<1>9. k \in Job /\ k.order = o /\ k.seen = row[o] /\ k.pc = "unlock" /\ k.out = <<>>
  BY <1>5, <1>7, IdleType DEF Job
<1>10. Sound(k) /\ Claims(k) = {} /\ k.pc \notin Inside \cup {"match", "create"}
  <2>1. k.pc \in Apart /\ \A i \in 1 .. Len(k.out) : FALSE
    BY <1>9 DEF Apart
  <2> QED
    BY <1>5, <1>6, <1>9, <2>1, ApartSound
<1>11. OrderTypes' /\ JobTypes' /\ Shape'
  BY <1>1, <1>2, <1>4, <1>8, <1>9, <1>10, QuietMove
<1> QED
  BY <1>3, <1>11, TypePartsNext

LEMMA LockForType ==
    ASSUME NEW t \in Terms, NEW n \in Int
    PROVE  LockCurrency(t) \in Currency /\ LockFor(t, n) \in Int /\ (n >= 0 => LockFor(t, n) \in Nat)
<1>1. t.price \in Nat /\ FeeScale \in Nat \ {0} /\ LockRate \in Nat
  BY TradingAssumption DEF Terms
<1> DEFINE a == t.price * n * (FeeScale + LockRate)
           price == t.price
           both == FeeScale + LockRate
<1>2. price \in Nat /\ both \in Nat
  BY <1>1
<1> HIDE DEF price, both
<1>3. price * n \in Int /\ (n >= 0 => price * n \in Nat)
  BY <1>2
<1>4. a \in Int /\ (n >= 0 => a \in Nat)
  <2> DEFINE b == price * n
  <2>1. b \in Int /\ (n >= 0 => b \in Nat)
    BY <1>3
  <2>2. a = b * both
    BY DEF price, both
  <2> HIDE DEF b
  <2> QED
    BY <1>2, <2>1, <2>2
<1>5. LockFor(t, n) = IF t.side = "BUY" THEN a \div FeeScale ELSE n
  BY DEF LockFor
<1> HIDE DEF a
<1>6. a \div FeeScale \in Int /\ (n >= 0 => a \div FeeScale \in Nat)
  <2>1. a \div FeeScale \in Int /\ FeeScale * (a \div FeeScale + 1) > a
    BY <1>1, <1>4
  <2> DEFINE d == a \div FeeScale
  <2>2. d \in Int /\ FeeScale * (d + 1) > a
    BY <2>1
  <2> HIDE DEF d
  <2>3. n >= 0 => d >= 0
    BY <1>1, <1>4, <2>2
  <2> QED
    BY <2>2, <2>3 DEF d
<1>7. LockCurrency(t) \in Currency
  BY DEF LockCurrency, Currency
<1> QED
  BY <1>5, <1>6, <1>7

LEMMA CancelUnlockKeeps ==
    ASSUME TypeOK, Shape, NEW p \in Proc, CancelUnlock(p)
    PROVE  TypeOK' /\ Shape'
<1>1. FundsTypes /\ OrderTypes /\ JobTypes
  BY TypeParts
<1>2. job[p].pc = "unlock" /\ job[p].pc \in Apart /\ job[p].pc \notin Inside
  BY DEF CancelUnlock, Apart, Inside
<1>3. /\ job[p] \in Job /\ job[p].order \in Created /\ job[p].order \in Order
      /\ job[p].seen \in Progress /\ job[p].seen.filled <= terms[job[p].order].amount
      /\ \A i \in 1 .. Len(job[p].out) : Within(job[p].out[i])
  BY <1>1, <1>2, ApartFacts
<1>4. lck' \in [Account -> [Currency -> Nat]]
  <2> DEFINE t == terms[job[p].order]
             c == LockCurrency(t)
             n == LockFor(t, t.amount - job[p].seen.filled)
             u == t.user
             left == IF lck[u][c] > n THEN lck[u][c] - n ELSE 0
  <2>1. t \in Terms /\ u \in Account /\ t.amount - job[p].seen.filled \in Nat
    <3>1. t \in Terms
      BY <1>1, <1>3 DEF OrderTypes
    <3> HIDE DEF t
    <3> QED
      BY <1>3, <3>1 DEF Terms, Progress, t
  <2>2. c \in Currency /\ n \in Nat
    <3> HIDE DEF t
    <3> QED
      BY <2>1, LockForType
  <2>3. \/ lck' = [lck EXCEPT ![u] = [lck[u] EXCEPT ![c] = left]]
        \/ lck' = lck
    BY DEF CancelUnlock, Lower
  <2> HIDE DEF u, c, n
  <2>4. left \in Nat
    BY <1>1, <2>1, <2>2 DEF FundsTypes
  <2> HIDE DEF left
  <2> QED
    BY <1>1, <2>1, <2>2, <2>3, <2>4 DEF FundsTypes
<1>5. FundsTypes'
  BY <1>1, <1>4 DEF FundsTypes, CancelUnlock, history
<1>6. Quiet
  BY DEF CancelUnlock, Quiet, orders, engine, history
<1>7. PICK k : k = [job[p] EXCEPT !.pc = "save"]
  OBVIOUS
<1>8. job' = [job EXCEPT ![p] = k]
  BY <1>1, <1>7 DEF CancelUnlock, Goto, JobTypes
<1>9. /\ k \in Job /\ k.order = job[p].order /\ k.out = job[p].out /\ k.pc = "save"
      /\ k.seen = job[p].seen
  BY <1>3, <1>7 DEF Job
<1>10. Sound(k) /\ Claims(k) = {} /\ k.pc \notin Inside \cup {"match", "create"}
  <2>1. k.pc \in Apart
    BY <1>9 DEF Apart
  <2> QED
    BY <1>3, <1>9, <2>1, ApartSound
<1>11. OrderTypes' /\ JobTypes' /\ Shape'
  BY <1>1, <1>2, <1>6, <1>8, <1>9, <1>10, QuietMove
<1> QED
  BY <1>5, <1>11, TypePartsNext

LEMMA CancelSaveKeeps ==
    ASSUME TypeOK, Shape, NEW p \in Proc, CancelSave(p)
    PROVE  TypeOK' /\ Shape'
<1>1. FundsTypes /\ OrderTypes /\ JobTypes
  BY TypeParts
<1>2. job[p].pc = "save" /\ job[p].pc \in Apart
  BY DEF CancelSave, Apart
<1>3. FundsTypes'
  BY <1>1 DEF FundsTypes, CancelSave, redis, history
<1>4. /\ job[p] \in Job /\ job[p].order \in Created /\ job[p].order \in Order
      /\ job[p].seen \in Progress /\ job[p].seen.filled <= terms[job[p].order].amount
      /\ \A i \in 1 .. Len(job[p].out) : Within(job[p].out[i])
  BY <1>1, <1>2, ApartFacts
<1>5. PICK k : k = IF job[p].by = "user" THEN [job[p] EXCEPT !.pc = "remove"] ELSE Idle
  OBVIOUS
<1>6. job' = [job EXCEPT ![p] = k]
  BY <1>1, <1>5 DEF CancelSave, Goto, Finish, JobTypes
<1>7. k \in Job /\ k.pc \in Apart /\ Sound(k)
  <2>1. CASE job[p].by = "user"
    <3>1. /\ k \in Job /\ k.order = job[p].order /\ k.out = job[p].out /\ k.pc = "remove"
          /\ k.seen = job[p].seen
      BY <1>4, <1>5, <2>1 DEF Job
    <3>2. k.pc \in Apart
      BY <3>1 DEF Apart
    <3> QED
      BY <1>4, <3>1, <3>2, ApartSound
  <2>2. CASE job[p].by # "user"
    BY <1>5, <2>2, IdleType, IdleApart
  <2> QED
    BY <2>1, <2>2
<1>8. PICK e : e = [job[p].seen EXCEPT !.status = "CANCELLED"]
  OBVIOUS
<1>9. e \in Progress /\ e.filled = job[p].seen.filled
  BY <1>4, <1>8 DEF Progress, Status
<1>10. row' = [row EXCEPT ![job[p].order] = e]
  BY <1>8 DEF CancelSave
<1>11. UNCHANGED <<terms, mem, lastId, book, mutex, updates, settled, here>>
  BY DEF CancelSave, engine, history
<1>12. /\ row' \in [Order -> Progress]
       /\ \A x \in Order : row'[x].filled <= terms[x].amount
       /\ \A x \in Order : x > lastId => row'[x] = NoProgress
  BY <1>1, <1>4, <1>9, <1>10, RowType
<1>13. OrderTypes'
  BY <1>1, <1>11, <1>12 DEF OrderTypes
<1>14. RowsWithin'
  BY <1>11, <1>12 DEF Shape, RowsWithin, Within, Created
<1>15. /\ \A x \in Order : mem'[x].filled = mem[x].filled
       /\ \A x \in Order : x > lastId => mem'[x] = NoProgress /\ row'[x] = NoProgress
       /\ \A side \in Side : Range(book'[side]) \subseteq Range(book[side])
  BY <1>11, <1>12 DEF Shape, Numbered
<1>16. JobTypes' /\ Shape'
  BY <1>1, <1>2, <1>6, <1>7, <1>11, <1>13, <1>14, <1>15, ApartMove
<1> QED
  BY <1>3, <1>13, <1>16, TypePartsNext

LEMMA CancelRemoveKeeps ==
    ASSUME TypeOK, Shape, NEW p \in Proc, CancelRemove(p)
    PROVE  TypeOK' /\ Shape'
<1>1. FundsTypes /\ OrderTypes /\ JobTypes
  BY TypeParts
<1>2. job[p].pc = "remove" /\ job[p].pc \in Apart
  BY DEF CancelRemove, Apart
<1>3. FundsTypes'
  BY <1>1 DEF FundsTypes, CancelRemove, redis, history
<1>4. /\ job[p] \in Job /\ job[p].order \in Created /\ job[p].order \in Order
      /\ job[p].seen.filled <= terms[job[p].order].amount
      /\ \A i \in 1 .. Len(job[p].out) : Within(job[p].out[i])
  BY <1>1, <1>2, ApartFacts
<1>5. PICK k : k = [job[p] EXCEPT !.pc = "announce"]
  OBVIOUS
<1>6. job' = [job EXCEPT ![p] = k]
  BY <1>1, <1>5 DEF CancelRemove, Goto, JobTypes
<1>7. k \in Job /\ k.pc \in Apart /\ Sound(k)
  <2>1. /\ k \in Job /\ k.order = job[p].order /\ k.out = job[p].out /\ k.pc = "announce"
        /\ k.seen = job[p].seen
    BY <1>4, <1>5 DEF Job
  <2>2. k.pc \in Apart
    BY <2>1 DEF Apart
  <2> QED
    BY <1>4, <2>1, <2>2, ApartSound
<1>8. UNCHANGED <<terms, mem, row, lastId, mutex, updates, settled, here>>
  BY DEF CancelRemove, orders, history
<1>9. book' \in BookType /\ \A side \in Side : Range(book'[side]) \subseteq Range(book[side])
  BY <1>1, <1>4, RemoveKeeps DEF CancelRemove, OrderTypes
<1>10. OrderTypes'
  BY <1>1, <1>8, <1>9 DEF OrderTypes
<1>11. RowsWithin'
  BY <1>8 DEF Shape, RowsWithin, Within, Created
<1>12. /\ \A x \in Order : mem'[x].filled = mem[x].filled
       /\ \A x \in Order : x > lastId => mem'[x] = NoProgress /\ row'[x] = NoProgress
  BY <1>8 DEF Shape, Numbered
<1>13. JobTypes' /\ Shape'
  BY <1>1, <1>2, <1>6, <1>7, <1>8, <1>9, <1>10, <1>11, <1>12, ApartMove
<1> QED
  BY <1>3, <1>10, <1>13, TypePartsNext

LEMMA CancelAnnounceKeeps ==
    ASSUME TypeOK, Shape, NEW p \in Proc, CancelAnnounce(p)
    PROVE  TypeOK' /\ Shape'
<1>1. FundsTypes /\ OrderTypes /\ JobTypes
  BY TypeParts
<1>2. job[p].pc = "announce" /\ job[p].pc \in Apart
  BY DEF CancelAnnounce, Apart
<1>3. FundsTypes'
  BY <1>1 DEF FundsTypes, CancelAnnounce, redis, history
<1>4. /\ job[p].order \in Created /\ job[p].order \in Order /\ job[p].seen \in Progress
      /\ job[p].seen.filled <= terms[job[p].order].amount
  BY <1>1, <1>2, ApartFacts
<1>5. PICK k : k = Idle
  OBVIOUS
<1>6. k \in Job /\ k.pc \in Apart /\ Sound(k)
  BY <1>5, IdleType, IdleApart
<1>7. PICK u : u = [order |-> job[p].order, filled |-> job[p].seen.filled, status |-> "CANCELLED"]
  OBVIOUS
<1>8. u \in Update /\ Within(u)
  BY <1>4, <1>7 DEF Update, Within, Progress, Status
<1>9. job' = [job EXCEPT ![p] = k] /\ updates' = Append(updates, u)
  BY <1>5, <1>7 DEF CancelAnnounce, Finish
<1>10. UNCHANGED <<terms, mem, row, lastId, book, mutex, settled, here>>
  BY DEF CancelAnnounce, orders, engine, history
<1>11. updates \in Seq(Update) /\ Len(updates) \in Nat
  BY <1>1 DEF OrderTypes
<1>12. /\ updates' \in Seq(Update) /\ Len(updates') = Len(updates) + 1
       /\ \A i \in 1 .. Len(updates) : updates'[i] = updates[i]
       /\ updates'[Len(updates) + 1] = u
  BY <1>8, <1>9, <1>11, Appended
<1>13. OrderTypes'
  BY <1>1, <1>10, <1>12 DEF OrderTypes
<1>14. RowsWithin'
  <2>1. \A i \in 1 .. Len(updates') : i \in 1 .. Len(updates) \/ i = Len(updates) + 1
    BY <1>11, <1>12
  <2>2. \A i \in 1 .. Len(updates') : Within(updates'[i])
    BY <1>8, <1>12, <2>1 DEF Shape, RowsWithin
  <2> QED
    BY <1>10, <2>2 DEF Shape, RowsWithin, Within, Created
<1>15. /\ \A x \in Order : mem'[x].filled = mem[x].filled
       /\ \A x \in Order : x > lastId => mem'[x] = NoProgress /\ row'[x] = NoProgress
       /\ \A side \in Side : Range(book'[side]) \subseteq Range(book[side])
  BY <1>10 DEF Shape, Numbered
<1>16. JobTypes' /\ Shape'
  BY <1>1, <1>2, <1>6, <1>9, <1>10, <1>13, <1>14, <1>15, ApartMove
<1> QED
  BY <1>3, <1>13, <1>16, TypePartsNext

-----------------------------------------------------------------------------
(* Orders come in *)

LEMMA PlaceOrderKeeps ==
    ASSUME TypeOK, Shape, NEW p \in Proc, NEW t \in Request, PlaceOrder(p, t)
    PROVE  TypeOK' /\ Shape'
<1>1. FundsTypes /\ OrderTypes /\ JobTypes
  BY TypeParts
<1>2. job[p].pc = "idle" /\ job[p].pc \notin Inside /\ p \notin Creating
  BY DEF PlaceOrder, Free, Inside, Creating
<1>3. t \in Terms /\ t.amount \in Nat /\ t.user \in Account
  <2>1. t \in [user : User, side : Side, type : OrderType, price : Price \cup {0}, amount : Amount]
    BY DEF Request
  <2>2. User \subseteq Account /\ Price \cup {0} \subseteq Nat /\ Amount \subseteq Nat
    BY TradingAssumption DEF Account
  <2> QED
    BY <2>1, <2>2 DEF Terms
<1>4. lck' \in [Account -> [Currency -> Nat]]
  <2> DEFINE c == LockCurrency(t)
             n == LockFor(t, t.amount)
  <2>1. c \in Currency /\ n \in Nat
    BY <1>3, LockForType
  <2>2. lck' = Add(lck, t.user, c, n) \/ lck' = lck
    BY DEF PlaceOrder
  <2> HIDE DEF c, n
  <2>3. lck \in [Account -> [Currency -> Nat]] /\ lck \in [Account -> [Currency -> Int]]
        /\ lck[t.user][c] + n \in Nat /\ n \in Int
    BY <1>1, <1>3, <2>1 DEF FundsTypes
  <2>4. Add(lck, t.user, c, n) \in [Account -> [Currency -> Nat]]
    BY <1>3, <2>1, <2>3, AddType
  <2> QED
    BY <2>2, <2>3, <2>4
<1>5. FundsTypes'
  BY <1>1, <1>4 DEF FundsTypes, PlaceOrder, history
<1>6. UNCHANGED <<terms, mem, row, lastId, book, mutex, updates, settled, here>>
  BY DEF PlaceOrder, orders, engine, history
<1>7. OrderTypes' /\ OrdersStay /\ Created' = Created /\ \A x : Rests(x)' <=> Rests(x)
  BY <1>1, <1>6, QuietTypes DEF Quiet
<1>8. PICK k : k = [Idle EXCEPT !.pc = "create", !.what = t]
  OBVIOUS
<1>9. job' = [job EXCEPT ![p] = k]
  BY <1>1, <1>8 DEF PlaceOrder, JobTypes
<1>10. k \in Job /\ k.pc = "create" /\ k.out = <<>>
  BY <1>3, <1>8, IdleType DEF Job
<1>11. k.pc \notin Inside /\ k.pc # "match"
  BY <1>10 DEF Inside
<1>12. JobTypes' /\ job'[p] = k /\ \A q \in Proc \ {p} : job'[q] = job[q]
  BY <1>1, <1>9, <1>10, MoveOn
<1>13. Sound(k)
  <2>1. \A i \in 1 .. Len(k.out) : FALSE
    BY <1>10
  <2> QED
    BY <1>10, <1>11, <2>1 DEF Sound
<1>14. Sound(k)'
  BY <1>6, <1>13, QuietSound
<1>15. LeavesOthers(p, k)
  <2>1. Claims(k) = {}
    BY <1>10, <1>11 DEF Claims
  <2> QED
    BY <1>6, <1>7, <1>11, <1>12, <2>1 DEF LeavesOthers
<1>16. JobsSound' /\ Exclusive'
  BY <1>1, <1>7, <1>12, <1>14, <1>15, OthersStay
<1>17. RowsWithin' /\ BookSound'
  <2>1. RowsWithin /\ BookSound
    BY DEF Shape
  <2> QED
    BY <1>6, <1>7, <2>1 DEF RowsWithin, Within, BookSound
<1>18. OneInside'
  <2>1. OneInside
    BY DEF Shape
  <2> QED
    BY <1>2, <1>6, <1>11, <1>12, <2>1 DEF OneInside
<1>19. Numbered'
  <2>1. Creating' = Creating \cup {p}
    BY <1>10, <1>12 DEF Creating
  <2>2. IsFiniteSet(Creating) /\ Cardinality(Creating) \in Nat
    BY CreatingFinite
  <2>3. Cardinality(Creating') = Cardinality(Creating) + 1
    BY <1>2, <2>1, <2>2, FS_AddElement
  <2>4. lastId + Cardinality(Creating) < here.orders
    BY DEF PlaceOrder, Creating
  <2>5. lastId' + Cardinality(Creating') <= here'.orders
    BY <1>1, <1>6, <2>2, <2>3, <2>4, SituationFields
  <2> QED
    BY <1>6, <2>5 DEF Shape, Numbered
<1> QED
  BY <1>5, <1>7, <1>12, <1>16, <1>17, <1>18, <1>19, TypePartsNext DEF Shape

LEMMA CreateOrderKeeps ==
    ASSUME TypeOK, Shape, NEW p \in Proc, CreateOrder(p)
    PROVE  TypeOK' /\ Shape'
<1>1. FundsTypes /\ OrderTypes /\ JobTypes
  BY TypeParts
<1>2. job[p].pc = "create" /\ job[p].pc \notin Inside /\ p \in Creating /\ job[p] \in Job
  BY <1>1 DEF CreateOrder, Inside, Creating, JobTypes
<1>3. FundsTypes'
  BY <1>1 DEF FundsTypes, CreateOrder, redis, history
<1>4. CASE Finish(p) /\ UNCHANGED orders
  <2>1. Quiet
    BY <1>4 DEF CreateOrder, Quiet, orders, engine, history
  <2>2. PICK k : k = Idle
    OBVIOUS
  <2>3. job' = [job EXCEPT ![p] = k]
    BY <1>4, <2>2 DEF Finish
  <2>4. k \in Job /\ Sound(k) /\ Claims(k) = {} /\ k.pc \notin Inside \cup {"match", "create"}
    BY <2>2, IdleType, IdleApart
  <2>5. OrderTypes' /\ JobTypes' /\ Shape'
    BY <1>1, <1>2, <2>1, <2>3, <2>4, QuietMove
  <2> QED
    BY <1>3, <2>5, TypePartsNext
<1>5. CASE /\ lastId' = lastId + 1
           /\ terms' = [terms EXCEPT ![lastId'] = job[p].what]
           /\ mem' = [mem EXCEPT ![lastId'].status = "OPEN"]
           /\ row' = [row EXCEPT ![lastId'].status = "OPEN"]
           /\ job' = [job EXCEPT ![p] = [Idle EXCEPT !.pc = "match", !.order = lastId']]
  <2>1. /\ IsFiniteSet(Creating) /\ Cardinality(Creating) \in Nat
        /\ Cardinality(Creating \ {p}) = Cardinality(Creating) - 1
        /\ Cardinality(Creating \ {p}) \in Nat
    BY <1>2, CreatingFinite, FS_RemoveElement, FS_CardinalityType
  <2>2. lastId + Cardinality(Creating) <= here.orders
    BY DEF Shape, Numbered
  <2> PICK x, k, w, e :
         /\ x = lastId + 1
         /\ k = [Idle EXCEPT !.pc = "match", !.order = x]
         /\ w = job[p].what
         /\ e = [filled |-> 0, status |-> "OPEN"]
    OBVIOUS
  <2>3. x \in Order /\ x \notin Created /\ x > lastId /\ x \in Nat /\ lastId \in Nat
    BY <1>1, <2>1, <2>2, SituationFields DEF Order, Created
  <2>4. w \in Terms /\ w.amount \in Nat /\ e \in Progress /\ e.filled = 0
    BY <1>2, JobFields DEF Terms, Progress, Status
  <2>5. /\ lastId' = x /\ terms' = [terms EXCEPT ![x] = w]
        /\ mem' = [mem EXCEPT ![x] = e] /\ row' = [row EXCEPT ![x] = e]
        /\ job' = [job EXCEPT ![p] = k]
    <3>1. mem[x] = NoProgress /\ row[x] = NoProgress
      BY <2>3 DEF Shape, Numbered
    <3>2. [NoProgress EXCEPT !.status = "OPEN"] = e
      BY DEF NoProgress
    <3>3. lastId' = x
      BY <1>5
    <3>4. /\ mem' = [mem EXCEPT ![x] = [mem[x] EXCEPT !.status = "OPEN"]]
          /\ row' = [row EXCEPT ![x] = [row[x] EXCEPT !.status = "OPEN"]]
      BY <1>5, <3>3
    <3> QED
      BY <1>5, <3>1, <3>2, <3>3, <3>4
  <2>6. /\ terms' \in [Order -> Terms] /\ terms'[x] = w
        /\ mem' \in [Order -> Progress] /\ mem'[x] = e
        /\ row' \in [Order -> Progress] /\ row'[x] = e
        /\ \A y \in Order \ {x} : terms'[y] = terms[y] /\ mem'[y] = mem[y] /\ row'[y] = row[y]
    BY <1>1, <2>3, <2>4, <2>5 DEF OrderTypes
  <2>7. UNCHANGED <<book, mutex, updates, settled, here>>
    BY DEF CreateOrder, engine, history
  <2>8. OrderTypes'
    BY <1>1, <2>3, <2>5, <2>6, <2>7, TradingAssumption DEF OrderTypes, Order
  <2>9. k \in Job /\ k.pc = "match" /\ k.order = x /\ k.trades = <<>> /\ k.out = <<>> /\ k.seen = NoProgress
    BY <2>3, IdleType DEF Job, Idle
  <2>10. k.pc \notin Inside /\ k.pc # "create"
    BY <2>9 DEF Inside
  <2>11. JobTypes' /\ job'[p] = k /\ \A q \in Proc \ {p} : job'[q] = job[q]
    BY <1>1, <2>5, <2>9, MoveOn
  <2>12. /\ Created' = Created \cup {x} /\ Created \subseteq Order
         /\ OrdersStay
    <3>1. Created' = Created \cup {x} /\ Created \subseteq Order /\ x \notin Created
      BY <1>1, <2>3, <2>5, SituationFields DEF Created
    <3> QED
      BY <2>3, <2>5, <2>6, <3>1 DEF OrdersStay
  <2>13. \A r : Rests(r)' <=> Rests(r)
    BY <2>7 DEF Rests
  <2>14. ~Rests(x)
    BY <2>3 DEF Rests, Shape, BookSound
  <2>15. Sound(k)'
    <3>1. \A i \in 1 .. Len(k.out) : FALSE
      BY <2>9
    <3>2. x \in Created' /\ k.seen.filled <= terms'[x].amount /\ mem'[x].filled = 0
      BY <2>4, <2>6, <2>9, <2>12 DEF NoProgress
    <3> QED
      BY <2>9, <2>10, <2>13, <2>14, <3>1, <3>2 DEF Sound
  <2>16. LeavesOthers(p, k)
    <3>1. \A y \in Created : y # x /\ y \in Order
      BY <2>3, <2>12
    <3>2. Claims(k) = {x}
      <4>1. Range(k.trades) = {}
        BY <2>9 DEF Range
      <4> QED
        BY <2>9, <4>1 DEF Claims
    <3> QED
      BY <2>3, <2>6, <2>9, <2>11, <2>12, <2>13, <3>1, <3>2 DEF LeavesOthers
  <2>17. JobsSound' /\ Exclusive'
    BY <1>1, <2>8, <2>11, <2>15, <2>16, OthersStay
  <2>18. RowsWithin'
    <3>1. \A y \in Order : mem'[y].filled <= terms'[y].amount /\ row'[y].filled <= terms'[y].amount
      BY <2>4, <2>6 DEF Shape, RowsWithin
    <3>2. \A i \in 1 .. Len(updates) : Within(updates[i])'
      BY <2>7, <2>12 DEF Shape, RowsWithin, Within, OrdersStay
    <3> QED
      BY <2>7, <3>1, <3>2 DEF RowsWithin, Within
  <2>19. BookSound'
    BY <2>7, <2>12 DEF Shape, BookSound, OrdersStay
  <2>20. OneInside'
    BY <1>2, <2>7, <2>10, <2>11 DEF Shape, OneInside
  <2>21. Numbered'
    <3>1. Creating' = Creating \ {p}
      BY <2>10, <2>11 DEF Creating
    <3>2. lastId' + Cardinality(Creating') <= here'.orders
      BY <1>1, <2>1, <2>2, <2>5, <2>7, <3>1, SituationFields
    <3>3. \A y \in Order : y > x => y > lastId /\ y # x
      BY <2>3 DEF Order
    <3> QED
      BY <2>5, <2>6, <2>7, <3>2, <3>3 DEF Shape, Numbered
  <2> QED
    BY <1>3, <2>8, <2>11, <2>17, <2>18, <2>19, <2>20, <2>21, TypePartsNext DEF Shape
<1> QED
  BY <1>4, <1>5 DEF CreateOrder

-----------------------------------------------------------------------------
(* Matching, resting, publishing *)

AllMet(trades) == \A i \in 1 .. Len(trades) : ~Synthetic(trades[i])
Tells(out, trades, m) ==
    /\ out \in Seq(Update) /\ Len(out) = 2 * Len(trades)
    /\ \A j \in 1 .. 2 * Len(trades) : \E i \in 1 .. Len(trades) :
          \E x \in Parties(trades[i]) : x \in Order /\ out[j] = UpdateFor(m, x)

LEMMA UpdatesOfType ==
    ASSUME NEW m \in [Order -> Progress], NEW trades \in Seq(Trade), AllMet(trades)
    PROVE  Tells(UpdatesOf(trades, m), trades, m)
<1> DEFINE n == Len(trades)
           s == UpdatesOf(trades, m)
<1>1. n \in Nat /\ \A i \in 1 .. n : trades[i] \in Trade
  BY TradeFields
<1>2. s = [j \in 1 .. 2 * n |-> LET t == trades[(j + 1) \div 2] IN
                                UpdateFor(m, IF j % 2 = 1 THEN t.buy ELSE t.sell)]
  BY DEF UpdatesOf
<1> HIDE DEF n
<1>3. ASSUME NEW j \in 1 .. 2 * n
      PROVE  \E i \in 1 .. n : \E x \in Parties(trades[i]) : x \in Order /\ s[j] = UpdateFor(m, x)
  <2>1. PICK i : i = (j + 1) \div 2
    OBVIOUS
  <2>2. i \in 1 .. n
    BY <1>1, <2>1
  <2>3. PICK t : t = trades[i]
    OBVIOUS
  <2>4. PICK x : x = IF j % 2 = 1 THEN t.buy ELSE t.sell
    OBVIOUS
  <2>5. s[j] = UpdateFor(m, x)
    BY <1>2, <2>1, <2>3, <2>4
  <2>6. t.buy \in Order /\ t.sell \in Order /\ x \in Parties(t)
    <3>1. t \in Trade /\ ~Synthetic(t)
      BY <1>1, <2>2, <2>3 DEF n, AllMet
    <3>2. None \notin Order
      BY TradingAssumption
    <3> QED
      BY <2>4, <3>1, <3>2 DEF Trade, Synthetic, Parties
  <2>7. x \in Order
    BY <2>4, <2>6
  <2> QED
    BY <2>2, <2>3, <2>5, <2>6, <2>7
<1>4. \A x \in Order : UpdateFor(m, x) \in Update
  BY DEF UpdateFor, Update, Progress
<1>5. \A j \in 1 .. 2 * n : s[j] \in Update
  BY <1>3, <1>4
<1>6. 2 * n \in Nat
  BY <1>1
<1>7. s \in [1 .. 2 * n -> Update]
  BY <1>2, <1>5
<1> HIDE DEF s
<1>8. s \in Seq(Update) /\ Len(s) = 2 * n
  <2> DEFINE d == 2 * n
  <2>1. d \in Nat /\ s \in [1 .. d -> Update]
    BY <1>6, <1>7
  <2> HIDE DEF d
  <2>2. s \in Seq(Update) /\ Len(s) = d
    BY <2>1
  <2> QED
    BY <2>2 DEF d
<1> QED
  BY <1>3, <1>8 DEF s, n, Tells

(* What ProcessOrder finds, and what matching makes of it. *)
LEMMA StartJob ==
    ASSUME NEW j \in Job, NEW l \in Labels, NEW trades \in Seq(Trade), NEW out \in Seq(Update)
    PROVE  [j EXCEPT !.pc = l, !.trades = trades, !.at = 1, !.leg = 1, !.out = out] \in Job
BY DEF Job, Labels

LEMMA MatchFacts ==
    ASSUME OrderTypes, JobTypes, Shape, NEW p \in Proc, job[p].pc = "match",
           NEW o, o = job[p].order, NEW opp, opp = Opposite(terms[o].side),
           NEW R, R = Range(book[opp]), NEW m, m = Match(terms, mem, book, o)
    PROVE  /\ job[p] \in Job /\ Sound(job[p]) /\ o \in Created /\ o \in Order /\ Created \subseteq Order
           /\ mem[o].filled = 0 /\ ~Rests(o) /\ job[p].seen.filled <= terms[o].amount
           /\ \A r \in R : r \in Created /\ r \in Order /\ terms[r].side = opp /\ terms[r].type = "LIMIT"
           /\ opp \in Side /\ book[opp] \in Seq(Order) /\ o \notin R
           /\ m \in Acc /\ Matched(terms, mem, o, R, m)
<1>1. /\ job[p] \in Job /\ Sound(job[p]) /\ o \in Created /\ o \in Order /\ Created \subseteq Order
      /\ mem[o].filled = 0 /\ ~Rests(o) /\ job[p].seen.filled <= terms[o].amount
  <2>1. job[p] \in Job /\ Sound(job[p])
    BY DEF JobTypes, Shape, JobsSound
  <2>2. o \in Created /\ mem[o].filled = 0 /\ ~Rests(o) /\ job[p].seen.filled <= terms[o].amount
    BY <2>1 DEF Sound
  <2> QED
    BY <2>1, <2>2, SituationFields
<1>2. /\ opp \in Side /\ opp = Opposite(terms[o].side) /\ book[opp] \in Seq(Order)
      /\ o \notin R /\ \A r \in R : r \in Created /\ r \in Order /\ terms[r].side = opp /\ terms[r].type = "LIMIT"
  <2>1. opp \in Side
    BY DEF Opposite, Side
  <2>2. \A r \in R : r \in Created /\ terms[r].side = opp /\ terms[r].type = "LIMIT"
    BY <2>1 DEF Shape, BookSound
  <2> QED
    BY <1>1, <2>1, <2>2 DEF Rests, OrderTypes, BookType
<1>3. m \in Acc /\ Matched(terms, mem, o, R, m)
  <2>1. \A x \in Order : mem[x].filled <= terms[x].amount
    BY DEF Shape, RowsWithin
  <2> QED
    BY <1>1, <1>2, <2>1, MatchKeeps DEF OrderTypes
<1> QED
  BY <1>1, <1>2, <1>3

LEMMA MatchOrderKeeps ==
    ASSUME TypeOK, Shape, NEW p \in Proc, MatchOrder(p)
    PROVE  TypeOK' /\ Shape'
<1>1. FundsTypes /\ OrderTypes /\ JobTypes
  BY TypeParts
<1>2. job[p].pc = "match" /\ mutex = None /\ job[p].pc \notin Inside
  BY DEF MatchOrder, Inside
<1>3. FundsTypes'
  BY <1>1 DEF FundsTypes, MatchOrder, redis, history
<1> PICK o, m, opp, R :
      /\ o = job[p].order /\ m = Match(terms, mem, book, o)
      /\ opp = Opposite(terms[o].side) /\ R = Range(book[opp])
  OBVIOUS
<1>4. /\ job[p] \in Job /\ Sound(job[p]) /\ o \in Created /\ o \in Order /\ Created \subseteq Order
      /\ mem[o].filled = 0 /\ ~Rests(o) /\ job[p].seen.filled <= terms[o].amount
      /\ \A r \in R : r \in Created /\ r \in Order /\ terms[r].side = opp /\ terms[r].type = "LIMIT"
  BY <1>1, <1>2, MatchFacts
<1>5. opp \in Side /\ book[opp] \in Seq(Order) /\ o \notin R
  BY <1>1, <1>2, MatchFacts
<1>6. m \in Acc /\ Matched(terms, mem, o, R, m)
  BY <1>1, <1>2, MatchFacts
<1>7. /\ mutex' = p /\ mem' = m.mem /\ book' = [book EXCEPT ![opp] = m.rest]
      /\ UNCHANGED <<terms, row, lastId, updates, settled, here>>
  BY DEF MatchOrder, history
<1>8. m.mem \in [Order -> Progress] /\ m.trades \in Seq(Trade) /\ m.rest \in Seq(Order)
  BY <1>6 DEF Acc
<1> PICK trades, n : trades = m.trades /\ n = Len(trades)
  OBVIOUS
<1>9. /\ trades \in Seq(Trade) /\ n \in Nat
      /\ \A i \in 1 .. n : trades[i].amt \in Nat /\ Meeting(o, trades[i])
                           /\ \E r \in R : trades[i] = TradeOf(terms, o, r, trades[i].amt)
  <2>1. \A i \in 1 .. n : trades[i].amt \in Nat
                          /\ \E r \in R : trades[i] = TradeOf(terms, o, r, trades[i].amt)
    BY <1>6 DEF Matched
  <2> QED
    BY <1>4, <1>8, <2>1, TradeFields DEF Meeting
<1>10. \A i \in 1 .. n : /\ ~Synthetic(trades[i]) /\ Parties(trades[i]) \subseteq {o} \cup R
                         /\ LegCount(trades[i]) = 4
  <2>1. ASSUME NEW i \in 1 .. n
        PROVE  Parties(trades[i]) \subseteq {o} \cup R
    <3>1. PICK r \in R : trades[i] = TradeOf(terms, o, r, trades[i].amt)
      BY <1>9
    <3> QED
      BY <1>4, <1>5, <3>1, PartiesOfTrade
  <2> QED
    BY <1>1, <1>4, <1>9, <2>1, MeetingFacts
<1>11. OrderTypes'
  <2>1. book' \in BookType
    BY <1>1, <1>5, <1>7, <1>8 DEF OrderTypes, BookType
  <2> QED
    BY <1>1, <1>7, <1>8, <2>1 DEF OrderTypes
<1> PICK out : out = UpdatesOf(trades, m.mem)
  OBVIOUS
<1>12. /\ out \in Seq(Update) /\ Len(out) = 2 * n
       /\ \A j \in 1 .. 2 * n : Within(out[j])
  <2>1. /\ out \in Seq(Update) /\ Len(out) = 2 * n
        /\ \A j \in 1 .. 2 * n : \E i \in 1 .. n :
              \E x \in Parties(trades[i]) : x \in Order /\ out[j] = UpdateFor(m.mem, x)
    <3> PICK after : after = m.mem
      OBVIOUS
    <3>1. after \in [Order -> Progress]
      BY <1>8
    <3>2. trades \in Seq(Trade) /\ AllMet(trades)
      BY <1>9, <1>10 DEF AllMet
    <3>3. Tells(UpdatesOf(trades, after), trades, after)
      BY <3>1, <3>2, UpdatesOfType
    <3> QED
      BY <3>3 DEF Tells
  <2>2. \A x \in {o} \cup R : x \in Created /\ x \in Order
    BY <1>4, <1>5
  <2>3. \A x \in Order : m.mem[x].filled <= terms[x].amount
    BY <1>6 DEF Matched
  <2>4. \A x \in Created : Within(UpdateFor(m.mem, x))
    BY <1>4, <2>3 DEF Within, UpdateFor
  <2> QED
    BY <1>10, <2>1, <2>2, <2>4
<1> PICK next : next = IF m.trades = <<>> THEN "price" ELSE "leg"
  OBVIOUS
<1>13. PICK k : k = [job[p] EXCEPT !.pc = next, !.trades = trades, !.at = 1, !.leg = 1, !.out = out]
  OBVIOUS
<1>14. job' = [job EXCEPT ![p] = k]
  BY <1>1, <1>13 DEF MatchOrder, JobTypes
<1>15. /\ k \in Job /\ k.order = o /\ k.trades = trades /\ k.at = 1 /\ k.leg = 1
       /\ k.out = out /\ k.seen = job[p].seen /\ k.pc = IF m.trades = <<>> THEN "price" ELSE "leg"
  <2>1. out \in Seq(Update) /\ 1 \in Nat /\ next \in {"price", "leg"}
    BY <1>12
  <2>2. /\ k \in Job /\ k.order = job[p].order /\ k.trades = trades /\ k.at = 1 /\ k.leg = 1
        /\ k.out = out /\ k.seen = job[p].seen /\ k.pc = next
    <3>1. job[p] \in Job /\ trades \in Seq(Trade)
      BY <1>4, <1>9
    <3>2. next \in {"leg", "price"} /\ 1 \in Nat /\ out \in Seq(Update)
      BY <2>1
    <3>3. /\ k.order = job[p].order /\ k.trades = trades /\ k.at = 1 /\ k.leg = 1
          /\ k.out = out /\ k.seen = job[p].seen /\ k.pc = next
      BY <1>13, <3>1 DEF Job
    <3>4. k \in Job
      <4> PICK j : j = job[p]
        OBVIOUS
      <4>1. j \in Job /\ trades \in Seq(Trade) /\ out \in Seq(Update) /\ next \in Labels
        BY <3>1, <3>2 DEF Labels
      <4>2. [j EXCEPT !.pc = next, !.trades = trades, !.at = 1, !.leg = 1, !.out = out] \in Job
        BY Zenon, <4>1, StartJob
      <4> QED
        BY <1>13, <4>2
    <3> QED
      BY <3>3, <3>4
  <2> QED
    BY <2>2
<1>16. k.pc \in Inside /\ k.pc \notin {"match", "create", "idle", "undo", "add", "publish"}
       /\ (k.pc \in Paying <=> n # 0) /\ (k.pc = "price" <=> n = 0)
  <2>1. m.trades = <<>> <=> n = 0
    BY <1>8
  <2> QED
    BY <1>15, <2>1 DEF Inside, Paying
<1>17. JobTypes' /\ job'[p] = k /\ \A q \in Proc \ {p} : job'[q] = job[q]
  BY <1>1, <1>14, <1>15, MoveOn
<1>18. Created' = Created /\ OrdersStay
  BY <1>1, <1>7, SituationFields DEF Created, OrdersStay
<1>19. ShareOf(trades, o) = mem'[o].filled
  <2>1. m.mem[o].filled = mem[o].filled + ShareOf(trades, o)
    BY <1>4, <1>6 DEF Matched
  <2>2. ShareOf(trades, o) \in Int
    <3> DEFINE f == [i \in 1 .. n |-> Deal(trades[i], o)]
    <3>1. \A i \in 1 .. n : f[i] \in Int
      BY <1>9, TradeFields, DealType
    <3> HIDE DEF f
    <3>2. Sum(f, 1 .. n) \in Int
      BY <1>9, <3>1, TradeFields, SumType
    <3> QED
      BY <3>2 DEF ShareOf, f
  <2> QED
    BY <1>4, <1>7, <2>1, <2>2
<1>20. Settling(k)'
  <2>1. \A i \in 1 .. n : Meeting(o, trades[i])'
    BY <1>7, <1>9, <1>18 DEF Meeting
  <2>2. 1 \in 1 .. n + 1 /\ (n # 0 => 1 <= n /\ 1 \in 1 .. n) /\ (n = 0 => 1 = n + 1)
    BY <1>9
  <2>3. n # 0 => LegCount(trades[1]) = 4 /\ 1 \in 1 .. 4
    BY <1>10, <2>2
  <2>4. \A i \in 1 .. Len(k.trades) : /\ k.trades[i].amt \in Nat /\ Meeting(k.order, k.trades[i])'
                                      /\ ~Synthetic(k.trades[i])
    BY <1>9, <1>10, <1>15, <2>1
  <2>5. /\ k.at \in 1 .. Len(k.trades) + 1 /\ (k.pc = "price" => k.at = Len(k.trades) + 1)
        /\ (k.pc \in Paying => k.at <= Len(k.trades) /\ k.leg \in 1 .. LegCount(k.trades[k.at]))
    BY <1>15, <1>16, <2>2, <2>3
  <2>6. mem'[k.order].filled = ShareOf(k.trades, k.order)
    BY <1>15, <1>19
  <2> QED
    BY <1>16, <2>4, <2>5, <2>6 DEF Settling
<1>21. Sound(k)'
  <2>1. \A j \in 1 .. Len(k.out) : Within(k.out[j])'
    BY <1>7, <1>12, <1>15, <1>18, Zenon DEF Within
  <2> QED
    BY <1>4, <1>7, <1>15, <1>16, <1>18, <1>20, <2>1 DEF Sound
<1>22. \A r \in R : Rests(r)
  BY <1>5 DEF Rests
<1>23. Range(m.rest) \subseteq R
  BY <1>6 DEF Matched
<1>24. \A side \in Side : Range(book'[side]) \subseteq Range(book[side])
  BY Zenon, <1>1, <1>5, <1>7, <1>23 DEF OrderTypes, BookType
<1>25. \A x \in Order \ (R \cup {o}) : mem'[x] = mem[x]
  BY <1>6, <1>7 DEF Matched
<1>26. \A q \in Proc : job[q].pc \notin Inside
  <2>1. None \notin Proc
    BY TradingAssumption
  <2> QED
    BY <1>2, <2>1 DEF Shape, OneInside
<1>27. LeavesOthers(p, k)
  <2>1. Claims(job[p]) = {o}
    <3>1. Range(job[p].trades) = {}
      BY <1>2, <1>4 DEF Sound, Range
    <3> QED
      BY <1>2, <3>1 DEF Claims
  <2>2. Claims(k) \subseteq {o} \cup R
    <3>1. \A t \in Range(trades) : Parties(t) \subseteq {o} \cup R
      <4>1. DOMAIN trades = 1 .. n
        BY <1>9
      <4> QED
        BY <1>10, <4>1 DEF Range
    <3> QED
      BY <1>15, <3>1 DEF Claims
  <2>3. \A x \in Created : mem'[x].filled = mem[x].filled \/ x \in Claims(job[p]) \/ Rests(x)
    BY <1>4, <1>22, <1>25, <2>1
  <2>4. \A x \in Created : Rests(x)' => Rests(x)
    BY <1>24 DEF Rests
  <2>5. \A x \in Created : x \in Claims(k) => x \in Claims(job[p]) \/ Rests(x)
    BY <1>22, <2>1, <2>2
  <2> QED
    BY <1>16, <1>17, <1>18, <1>26, <2>3, <2>4, <2>5 DEF LeavesOthers
<1>28. RowsWithin'
  <2>1. \A x \in Order : m.mem[x].filled <= terms[x].amount
    BY <1>6 DEF Matched
  <2> QED
    BY <1>7, <1>18, <2>1 DEF Shape, RowsWithin, Within
<1>29. BookSound'
  <2>1. BookSound
    BY DEF Shape
  <2> QED
    BY <1>7, <1>18, <1>24, <2>1 DEF BookSound
<1>30. OneInside'
  BY <1>7, <1>16, <1>17, <1>26 DEF OneInside
<1>31. \A x \in Order : x > lastId =>
          mem'[x] = NoProgress /\ row'[x] = NoProgress /\ settled'[x] = 0
  <2>1. \A x \in Order : x > lastId => x \notin Created
    BY <1>1, SituationFields DEF Created, Order
  <2>2. \A x \in Order : x > lastId => mem'[x] = mem[x]
    BY <1>4, <1>5, <1>25, <2>1
  <2> QED
    BY <1>7, <2>2 DEF Shape, Numbered
<1>32. Shape'
  BY <1>1, <1>7, <1>11, <1>14, <1>15, <1>16, <1>17, <1>21, <1>27, <1>28, <1>29, <1>30, <1>31, Moved
<1> QED
  BY <1>3, <1>11, <1>17, <1>32, TypePartsNext

LEMMA RestOrderKeeps ==
    ASSUME TypeOK, Shape, NEW p \in Proc, RestOrder(p)
    PROVE  TypeOK' /\ Shape'
<1>1. FundsTypes /\ OrderTypes /\ JobTypes
  BY TypeParts
<1>2. job[p].pc = "add" /\ job[p].pc \in Inside
  BY DEF RestOrder, Inside
<1>3. FundsTypes'
  BY <1>1 DEF FundsTypes, RestOrder, redis, history
<1> PICK o : o = job[p].order
  OBVIOUS
<1>4. /\ job[p] \in Job /\ Sound(job[p]) /\ Settling(job[p]) /\ o \in Created /\ o \in Order
      /\ mutex = p
  BY <1>1, <1>2, InsideFacts
<1>5. UNCHANGED <<terms, mem, row, lastId, mutex, updates, settled, here>>
  BY DEF RestOrder, orders, history
<1>6. /\ book' \in BookType
      /\ \A side \in Side : \A r \in Range(book'[side]) :
            \/ r \in Range(book[side])
            \/ r = o /\ side = terms[o].side /\ terms[o].type = "LIMIT"
  <2>1. book' = book \/ (terms[o].type = "LIMIT" /\ book' = AddOrder(terms, book, o))
    BY DEF RestOrder
  <2>2. /\ AddOrder(terms, book, o) \in BookType
        /\ \A side \in Side : \A r \in Range(AddOrder(terms, book, o)[side]) :
              r \in Range(book[side]) \/ (r = o /\ side = terms[o].side)
    <3> PICK b, tm : b = book /\ tm = terms
      OBVIOUS
    <3>1. tm \in [Order -> Terms] /\ b \in BookType /\ o \in Order
      BY <1>1, <1>4 DEF OrderTypes
    <3>2. Joins(tm, b, o, AddOrder(tm, b, o))
      BY <3>1, AddJoins
    <3> QED
      BY <3>2 DEF Joins
  <2> QED
    BY <1>1, <2>1, <2>2 DEF OrderTypes
<1>7. PICK k : k = [job[p] EXCEPT !.pc = "publish"]
  OBVIOUS
<1>8. job' = [job EXCEPT ![p] = k]
  BY <1>1, <1>7 DEF RestOrder, Goto, JobTypes
<1>9. /\ k \in Job /\ k.order = o /\ k.trades = job[p].trades /\ k.at = job[p].at
      /\ k.out = job[p].out /\ k.seen = job[p].seen /\ k.pc = "publish"
  BY <1>4, <1>7 DEF Job
<1>10. k.pc \in Inside /\ k.pc \notin {"match", "create"}
  BY <1>9 DEF Inside
<1>11. Settling(k)
  BY <1>2, <1>4, <1>9 DEF Settling, Paying
<1>12. Sound(k)
  BY <1>2, <1>4, <1>9, <1>11 DEF Sound
<1>13. Claims(k) = Claims(job[p]) /\ o \in Claims(job[p])
  BY <1>2, <1>9 DEF Claims, Inside
<1>14. OrderTypes' /\ JobTypes' /\ job'[p] = k /\ \A q \in Proc \ {p} : job'[q] = job[q]
  BY <1>1, <1>5, <1>6, <1>8, <1>9, MoveOn DEF OrderTypes
<1>15. Created' = Created /\ OrdersStay
  BY <1>1, <1>5, SituationFields DEF Created, OrdersStay
<1>16. Sound(k)'
  BY <1>1, <1>5, <1>9, <1>10, <1>12, <1>14, <1>15, SoundStays
<1>17. \A x : Rests(x)' => Rests(x) \/ x = o
  BY <1>6 DEF Rests
<1>18. LeavesOthers(p, k)
  BY <1>5, <1>10, <1>13, <1>14, <1>15, <1>17 DEF LeavesOthers
<1>19. RowsWithin'
  BY <1>5, <1>15 DEF Shape, RowsWithin, Within
<1>20. BookSound'
  <2>1. BookSound
    BY DEF Shape
  <2> QED
    BY <1>4, <1>5, <1>6, <1>15, <2>1 DEF BookSound
<1>21. OneInside'
  <2>1. OneInside
    BY DEF Shape
  <2> QED
    BY <1>2, <1>5, <1>10, <1>14, <2>1 DEF OneInside
<1>22. \A x \in Order : x > lastId =>
          mem'[x] = NoProgress /\ row'[x] = NoProgress /\ settled'[x] = 0
  BY <1>5 DEF Shape, Numbered
<1>23. Shape'
  BY <1>1, <1>5, <1>8, <1>9, <1>10, <1>14, <1>16, <1>18, <1>19, <1>20, <1>21, <1>22, Moved
<1> QED
  BY <1>3, <1>14, <1>23, TypePartsNext

LEMMA PublishUpdatesKeeps ==
    ASSUME TypeOK, Shape, NEW p \in Proc, PublishUpdates(p)
    PROVE  TypeOK' /\ Shape'
<1>1. FundsTypes /\ OrderTypes /\ JobTypes
  BY TypeParts
<1>2. job[p].pc = "publish" /\ job[p].pc \in Inside
  BY DEF PublishUpdates, Inside
<1> PICK o, trades, out : o = job[p].order /\ trades = job[p].trades /\ out = job[p].out
  OBVIOUS
<1>3. /\ job[p] \in Job /\ Sound(job[p]) /\ Settling(job[p]) /\ o \in Created /\ o \in Order
      /\ mutex = p /\ trades \in Seq(Trade)
  BY <1>1, <1>2, InsideFacts
<1>4. out \in Seq(Update) /\ \A i \in 1 .. Len(out) : Within(out[i])
  BY <1>3, JobFields DEF Sound
<1>5. FundsTypes'
  <2>1. posted' = Settle(posted, trades, o)
    BY DEF PublishUpdates
  <2>2. posted' \in [Account -> [Currency -> Int]]
    BY <1>1, <1>3, <2>1, SettleType DEF FundsTypes, OrderTypes
  <2> QED
    BY <1>1, <2>2 DEF FundsTypes, PublishUpdates, redis
<1>6. UNCHANGED <<terms, mem, row, lastId, book, settled, here>> /\ mutex' = None
  BY DEF PublishUpdates, orders
<1>7. PICK k : k = [Idle EXCEPT !.pc = "syncRead", !.order = o]
  OBVIOUS
<1>8. job' = [job EXCEPT ![p] = k]
  BY <1>1, <1>7 DEF PublishUpdates, JobTypes
<1>9. k \in Job /\ k.order = o /\ k.pc = "syncRead" /\ k.out = <<>> /\ k.seen = NoProgress
  BY <1>3, <1>7, IdleType DEF Job, Idle
<1>10. Sound(k) /\ Claims(k) = {} /\ k.pc \notin Inside \cup {"match", "create"}
  <2>1. k.pc \in Apart /\ \A i \in 1 .. Len(k.out) : FALSE
    BY <1>9 DEF Apart
  <2>2. k.seen.filled <= terms[o].amount
    BY <1>1, <1>3, <1>9 DEF NoProgress, OrderTypes, Terms
  <2> QED
    BY <1>3, <1>9, <2>1, <2>2, ApartSound
<1> PICK u : u = UpdateFor(mem, o)
  OBVIOUS
<1>11. u \in Update /\ Within(u)
  <2>1. mem[o] \in Progress /\ mem[o].filled <= terms[o].amount
    BY <1>1, <1>3 DEF OrderTypes, Shape, RowsWithin
  <2> QED
    BY <1>3, <2>1 DEF UpdateFor, Update, Progress, Within
<1>12. updates \in Seq(Update) /\ updates' = updates \o Append(out, u)
  BY <1>1 DEF PublishUpdates, OrderTypes
<1>13. Append(out, u) \in Seq(Update) /\ Range(Append(out, u)) = Range(out) \cup {u}
  BY <1>4, <1>11, Appended
<1>14. updates' \in Seq(Update) /\ Range(updates') \subseteq Range(updates) \cup Range(out) \cup {u}
  <2> PICK more : more = Append(out, u)
    OBVIOUS
  <2>1. more \in Seq(Update) /\ Range(more) = Range(out) \cup {u}
    BY <1>13
  <2>2. updates \o more \in Seq(Update) /\ Range(updates \o more) \subseteq Range(updates) \cup Range(more)
    BY <1>12, <2>1, Concat
  <2> QED
    BY <1>12, <2>1, <2>2
<1>15. OrderTypes'
  BY <1>1, <1>6, <1>14 DEF OrderTypes
<1>16. Created' = Created /\ OrdersStay
  BY <1>1, <1>6, SituationFields DEF Created, OrdersStay
<1>17. JobTypes' /\ job'[p] = k /\ \A q \in Proc \ {p} : job'[q] = job[q]
  BY <1>1, <1>8, <1>9, MoveOn
<1>18. Sound(k)'
  BY <1>6, <1>10, QuietSound
<1>19. LeavesOthers(p, k)
  <2>1. \A x : Rests(x)' <=> Rests(x)
    BY <1>6 DEF Rests
  <2> QED
    BY <1>6, <1>10, <1>16, <1>17, <2>1 DEF LeavesOthers
<1>20. RowsWithin'
  <2>1. \A v \in Range(updates') : Within(v)
    <3>1. \A v \in Range(updates) : Within(v)
      BY <1>12 DEF Shape, RowsWithin, Range
    <3>2. \A v \in Range(out) : Within(v)
      BY <1>4 DEF Range
    <3> QED
      BY <1>11, <1>14, <3>1, <3>2
  <2>2. \A i \in 1 .. Len(updates') : Within(updates'[i])
    BY <1>14, <2>1 DEF Range
  <2> QED
    BY <1>6, <1>16, <2>2 DEF Shape, RowsWithin, Within
<1>21. BookSound'
  <2>1. BookSound
    BY DEF Shape
  <2> QED
    BY <1>6, <1>16, <2>1 DEF BookSound
<1>22. OneInside'
  <2>1. OneInside /\ None \notin Proc
    BY TradingAssumption DEF Shape
  <2> QED
    BY <1>3, <1>6, <1>10, <1>17, <2>1 DEF OneInside
<1>23. \A x \in Order : x > lastId =>
          mem'[x] = NoProgress /\ row'[x] = NoProgress /\ settled'[x] = 0
  BY <1>6 DEF Shape, Numbered
<1>24. Shape'
  BY <1>1, <1>6, <1>8, <1>9, <1>10, <1>15, <1>17, <1>18, <1>19, <1>20, <1>21, <1>22, <1>23, Moved
<1> QED
  BY <1>5, <1>15, <1>17, <1>24, TypePartsNext

LEMMA ShareFromNat ==
    ASSUME NEW trades \in Seq(Trade), \A i \in 1 .. Len(trades) : trades[i].amt \in Nat,
           NEW x, NEW j \in Int
    PROVE  ShareFrom(trades, x, j) \in Nat
<1>1. \A i \in 1 .. Len(trades) : FromAt(trades, x, j)[i] \in Nat
  BY TradeFields DEF FromAt, Deal
<1> QED
  BY <1>1, TradeFields, SumNat DEF ShareFrom

(* What was paid of an order is what was traded of it before the trade     *)
(* that failed.                                                            *)
LEMMA PaidIs ==
    ASSUME NEW trades \in Seq(Trade), NEW o, NEW at \in 1 .. Len(trades),
           \A i \in 1 .. at - 1 : o \in Parties(trades[i]) /\ ~Synthetic(trades[i]),
           \A i \in 1 .. Len(trades) : trades[i].amt \in Nat
    PROVE  LET paid == Sum([i \in DOMAIN trades |-> trades[i].amt], 1 .. at - 1) IN
           /\ paid = ShareOf(trades, o) - ShareFrom(trades, o, at)
           /\ paid \in Int /\ paid <= ShareOf(trades, o)
<1> DEFINE f == [i \in DOMAIN trades |-> trades[i].amt]
           G == {j \in Nat : j <= at - 1 =>
                    Sum(f, 1 .. j) \in Int
                    /\ Sum(f, 1 .. j) = ShareFrom(trades, o, 1) - ShareFrom(trades, o, j + 1)}
<1>1. Len(trades) \in Nat /\ DOMAIN trades = 1 .. Len(trades)
  BY TradeFields
<1>2. \A j \in Int : ShareFrom(trades, o, j) \in Int
  BY ShareFromType
<1>3. \A i \in 1 .. at - 1 : f[i] = Deal(trades[i], o) /\ f[i] \in Nat /\ i \in 1 .. Len(trades)
  BY <1>1 DEF Deal
<1> HIDE DEF f
<1>4. 0 \in G
  <2>1. 1 .. 0 = {} /\ Sum(f, {}) = 0
    BY SumEmpty
  <2>2. Sum(f, 1 .. 0) = 0
    BY <2>1
  <2> QED
    BY <1>2, <2>2
<1>5. \A j \in Nat : j \in G => j + 1 \in G
  <2> SUFFICES ASSUME NEW j \in Nat, j \in G, j + 1 <= at - 1
               PROVE  /\ Sum(f, 1 .. j + 1) \in Int
                      /\ Sum(f, 1 .. j + 1) = ShareFrom(trades, o, 1) - ShareFrom(trades, o, (j + 1) + 1)
    OBVIOUS
  <2>1. /\ Sum(f, 1 .. j) \in Int
        /\ Sum(f, 1 .. j) = ShareFrom(trades, o, 1) - ShareFrom(trades, o, j + 1)
    OBVIOUS
  <2> HIDE DEF G
  <2>2. j + 1 \in 1 .. at - 1 /\ j + 1 \in 1 .. Len(trades)
    BY <1>1
  <2>3. \A i \in 1 .. j : i \in 1 .. at - 1
    BY <2>2
  <2>4. f[j + 1] \in Int /\ \A i \in 1 .. j : f[i] \in Int /\ f[i] = f[i]
    BY <1>3, <2>2, <2>3
  <2>5. Sum(f, 1 .. j + 1) = Sum(f, 1 .. j) + f[j + 1]
    BY <2>4, SumOneMore
  <2> DEFINE y == j + 1
  <2>6. ShareFrom(trades, o, y) = ShareFrom(trades, o, y + 1) + Deal(trades[y], o)
    <3>1. y \in 1 .. Len(trades)
      BY <2>2
    <3> HIDE DEF y
    <3> QED
      BY <3>1, ShareFromStep
  <2>7. f[y] = Deal(trades[y], o) /\ f[y] \in Int
    BY <1>3, <2>2, <2>4
  <2>8. /\ ShareFrom(trades, o, 1) \in Int /\ ShareFrom(trades, o, y) \in Int
        /\ ShareFrom(trades, o, y + 1) \in Int
    BY <1>2
  <2>9. Sum(f, 1 .. j + 1) = Sum(f, 1 .. j) + f[y]
    BY <2>5
  <2>10. Sum(f, 1 .. j) = ShareFrom(trades, o, 1) - ShareFrom(trades, o, y)
    BY <2>1
  <2>11. Sum(f, 1 .. j + 1) = ShareFrom(trades, o, 1) - ShareFrom(trades, o, y + 1)
    <3> HIDE DEF y
    <3> QED
      BY <2>1, <2>6, <2>7, <2>8, <2>9, <2>10
  <2> QED
    BY <2>8, <2>11
<1>6. at - 1 \in Nat /\ (at - 1) + 1 = at /\ at - 1 <= at - 1
  OBVIOUS
<1>7. /\ Sum(f, 1 .. at - 1) \in Int
      /\ Sum(f, 1 .. at - 1) = ShareFrom(trades, o, 1) - ShareFrom(trades, o, at)
  <2> DEFINE y == at - 1
  <2>1. y \in Nat /\ y + 1 = at /\ y <= at - 1
    BY <1>6
  <2>2. y \in G
    <3> HIDE DEF G, y
    <3> QED
      BY <1>4, <1>5, <2>1, NatInduct
  <2>3. /\ Sum(f, 1 .. y) \in Int
        /\ Sum(f, 1 .. y) = ShareFrom(trades, o, 1) - ShareFrom(trades, o, y + 1)
    <3> HIDE DEF y
    <3> QED
      BY <2>1, <2>2
  <2> QED
    BY <2>1, <2>3
<1>8. ShareFrom(trades, o, 1) = ShareOf(trades, o)
  BY ShareFromFirst
<1>9. ShareFrom(trades, o, at) \in Nat
  BY ShareFromNat
<1> QED
  BY <1>2, <1>7, <1>8, <1>9 DEF f

(* What comes back to the book: resting orders the trades were made with. *)
Returned(k) ==
    \A side \in Side : \A r \in Range(book'[side]) :
        \/ r \in Range(book[side])
        \/ /\ r \in Created /\ r \in Claims(k)
           /\ terms[r].side = side /\ terms[r].type = "LIMIT"
           /\ \E i \in 1 .. Len(k.trades) :
                 Meeting(k.order, k.trades[i]) /\ r \in Parties(k.trades[i]) \ {k.order}

(* What is un-filled, and what comes back. *)
LEMMA RollbackFacts ==
    ASSUME OrderTypes, JobTypes, Shape, NEW p \in Proc, RollbackTrades(p),
           NEW o, o = job[p].order, NEW trades, trades = job[p].trades,
           NEW n, n = Len(trades), NEW at, at = job[p].at
    PROVE  /\ o \in Created /\ o \in Order /\ mutex = p /\ trades \in Seq(Trade)
           /\ \A i \in 1 .. n : Meeting(o, trades[i]) \/ (Filling(o, trades[i]) /\ i = n)
           /\ mem' \in [Order -> Progress] /\ book' \in BookType
           /\ \A x \in Order : /\ mem'[x].filled = mem[x].filled - ShareFrom(trades, x, at)
                               /\ ShareFrom(trades, x, at) \in Nat
           /\ \A x \in Order : mem'[x] = mem[x] \/ (x \in Claims(job[p]) /\ x \in Created)
           /\ Returned(job[p])
<1>1. OrderTypes /\ JobTypes
  OBVIOUS
<1>2. job[p].pc = "rollback" /\ job[p].pc \in Inside /\ job[p].pc \in Paying
  BY DEF RollbackTrades, Inside, Paying
<1>3. mem \in [Order -> Progress]
  BY DEF OrderTypes
<1>4. /\ job[p] \in Job /\ Sound(job[p]) /\ Settling(job[p]) /\ o \in Created /\ o \in Order
      /\ mutex = p /\ trades \in Seq(Trade) /\ n \in Nat /\ at \in 1 .. n
      /\ \A i \in 1 .. n : trades[i] \in Trade /\ trades[i].amt \in Nat
  BY <1>1, <1>2, InsideFacts, LegFacts
<1>5. \A i \in 1 .. n : Meeting(o, trades[i]) \/ (Filling(o, trades[i]) /\ i = n)
  BY <1>4 DEF Settling
<1>6. \A i \in 1 .. n : /\ Parties(trades[i]) \subseteq Created
                        /\ Synthetic(trades[i]) \/ (MetBy(o, trades[i]) /\ Meeting(o, trades[i]))
  <2>1. ASSUME NEW i \in 1 .. n, Meeting(o, trades[i])
        PROVE  MetBy(o, trades[i])
    <3>1. PICK r \in Created : /\ terms[r].side = Opposite(terms[o].side)
                               /\ trades[i] = TradeOf(terms, o, r, trades[i].amt)
      BY <2>1 DEF Meeting
    <3>2. r # o /\ r \in Order
      BY <1>1, <3>1, SituationFields DEF Opposite
    <3> QED
      BY <3>1, <3>2 DEF MetBy
  <2>2. \A i \in 1 .. n : Meeting(o, trades[i]) => Parties(trades[i]) \subseteq Created
    BY <1>1, <1>4, MeetingFacts
  <2>3. \A i \in 1 .. n : Filling(o, trades[i]) => Synthetic(trades[i]) /\ Parties(trades[i]) \subseteq Created
    BY <1>1, <1>4, FillingFacts
  <2> QED
    BY <1>5, <2>1, <2>2, <2>3
<1> PICK paid : paid = Sum([i \in DOMAIN trades |-> trades[i].amt], 1 .. at - 1)
  OBVIOUS
<1> PICK all : all = Unmatched(SubSeq(trades, at, Len(trades)), o)
  OBVIOUS
<1>7. all \in UndoAcc /\ UndoneTo(trades, o, at, Len(trades) + 1, all)
  <2>1. terms \in [Order -> Terms] /\ mem \in [Order -> Progress] /\ book \in BookType
    BY <1>1 DEF OrderTypes
  <2>2. at \in 1 .. Len(trades) /\ \A i \in at .. Len(trades) : Synthetic(trades[i]) \/ MetBy(o, trades[i])
    BY <1>4, <1>6
  <2> QED
    BY <1>4, <2>1, <2>2, UnmatchedKeeps
<1>8. all.mem \in [Order -> Progress] /\ all.book \in BookType
  BY <1>7 DEF UndoAcc
<1>9. paid \in Int /\ paid = ShareOf(trades, o) - ShareFrom(trades, o, at)
  <2>1. \A i \in 1 .. at - 1 : i \in 1 .. n /\ i # n
    BY <1>4
  <2>2. \A i \in 1 .. at - 1 : o \in Parties(trades[i]) /\ ~Synthetic(trades[i])
    BY <1>1, <1>4, <1>5, <2>1, MeetingFacts
  <2> QED
    BY <1>4, <2>2, PaidIs
<1>10. mem[o].filled = ShareOf(trades, o)
  BY <1>2, <1>4 DEF Settling
<1>11. /\ mem' = [all.mem EXCEPT ![o] = [filled |-> paid, status |-> StatusAfter(paid)]]
       /\ book' = all.book /\ mutex' = None
       /\ UNCHANGED <<terms, row, lastId, updates, settled, here>>
  BY DEF RollbackTrades, history
<1> PICK e : e = [filled |-> paid, status |-> StatusAfter(paid)]
  OBVIOUS
<1>12. e \in Progress /\ e.filled = paid
  BY <1>9 DEF Progress, Status, StatusAfter
<1>13. /\ mem' \in [Order -> Progress] /\ mem'[o] = e
       /\ \A x \in Order \ {o} : mem'[x] = all.mem[x]
  BY <1>4, <1>8, <1>11, <1>12
<1>14. \A x \in Order : /\ mem'[x].filled = mem[x].filled - ShareFrom(trades, x, at)
                        /\ ShareFrom(trades, x, at) \in Nat
  <2>0. \A x \in Order : mem[x].filled \in Int
    BY <1>3 DEF Progress
  <2>1. \A x \in Order : mem[x].filled \in Int /\ ShareFrom(trades, x, at) \in Nat
    <3>1. trades \in Seq(Trade) /\ at \in Int /\ \A i \in 1 .. Len(trades) : trades[i].amt \in Nat
      BY <1>4
    <3>2. \A x \in Order : ShareFrom(trades, x, at) \in Nat
      BY <3>1, ShareFromNat
    <3> QED
      BY <2>0, <3>2
  <2>2. mem'[o].filled = mem[o].filled - ShareFrom(trades, o, at)
    BY <1>9, <1>10, <1>12, <1>13
  <2>3. ASSUME NEW x \in Order \ {o}
        PROVE  mem'[x].filled = mem[x].filled - ShareFrom(trades, x, at)
    <3>1. all.mem[x].filled = mem[x].filled - ShareFrom(trades, x, at) + ShareFrom(trades, x, Len(trades) + 1)
      BY <1>7 DEF UndoneTo
    <3>2. ShareFrom(trades, x, Len(trades) + 1) = 0
      BY <1>4, ShareFromEnd
    <3> QED
      BY <1>13, <2>1, <3>1, <3>2
  <2> QED
    BY <2>1, <2>2, <2>3
<1>15. \A i \in 1 .. n : Parties(trades[i]) \subseteq Claims(job[p])
  <2>1. \A i \in 1 .. n : trades[i] \in Range(trades)
    BY <1>4 DEF Range
  <2> QED
    BY <1>2, <2>1 DEF Claims
<1>16. \A x \in Order : mem'[x] = mem[x] \/ (x \in Claims(job[p]) /\ x \in Created)
  <2>1. \A x \in Order \ {o} : (\A i \in at .. Len(trades) : x \notin Parties(trades[i])) => all.mem[x] = mem[x]
    BY <1>7 DEF UndoneTo
  <2>2. \A i \in at .. Len(trades) : i \in 1 .. n
    BY <1>4
  <2>3. o \in Claims(job[p])
    BY <1>2 DEF Claims
  <2> QED
    BY <1>4, <1>6, <1>13, <1>15, <2>1, <2>2, <2>3
<1>17. \A side \in Side : \A r \in Range(book'[side]) :
          \/ r \in Range(book[side])
          \/ /\ r \in Created /\ r \in Claims(job[p])
             /\ terms[r].side = side /\ terms[r].type = "LIMIT"
             /\ \E i \in 1 .. n : Meeting(o, trades[i]) /\ r \in Parties(trades[i]) \ {o}
  <2>1. ASSUME NEW side \in Side, NEW r \in Range(book'[side]), r \notin Range(book[side])
        PROVE  /\ r \in Created /\ r \in Claims(job[p])
               /\ terms[r].side = side /\ terms[r].type = "LIMIT"
               /\ \E i \in 1 .. n : Meeting(o, trades[i]) /\ r \in Parties(trades[i]) \ {o}
    <3>1. PICK i \in at .. Len(trades) :
             terms[r].side = side /\ ~Synthetic(trades[i]) /\ r \in Parties(trades[i]) \ {o}
      <4>1. r \in Range(all.book[side])
        BY <1>11, <2>1
      <4>2. \A s \in Side : \A x \in Range(all.book[s]) :
              \/ x \in Range(book[s])
              \/ /\ terms[x].side = s
                 /\ \E i \in at .. Len(trades) : ~Synthetic(trades[i]) /\ x \in Parties(trades[i]) \ {o}
        BY <1>7 DEF UndoneTo
      <4> QED
        BY <2>1, <4>1, <4>2
    <3>2. i \in 1 .. n
      BY <1>4
    <3>3. Meeting(o, trades[i])
      BY <1>6, <3>1, <3>2
    <3>4. PICK x \in Created : terms[x].type = "LIMIT" /\ trades[i] = TradeOf(terms, o, x, trades[i].amt)
      BY <3>3 DEF Meeting
    <3>5. x \in Order
      BY <1>1, SituationFields
    <3>6. r = x
      BY <1>4, <3>1, <3>4, <3>5, PartiesOfTrade
    <3> QED
      BY <1>15, <3>1, <3>2, <3>3, <3>4, <3>6
  <2> QED
    BY <2>1
<1>18. book' \in BookType
  BY <1>8, <1>11
<1>19. Returned(job[p])
  BY <1>17 DEF Returned
<1> QED
  BY <1>4, <1>5, <1>13, <1>14, <1>16, <1>18, <1>19

LEMMA RollbackTradesKeeps ==
    ASSUME TypeOK, Shape, NEW p \in Proc, RollbackTrades(p)
    PROVE  TypeOK' /\ Shape'
<1>1. FundsTypes /\ OrderTypes /\ JobTypes
  BY TypeParts
<1>2. job[p].pc = "rollback" /\ job[p].pc \in Inside
  BY DEF RollbackTrades, Inside
<1>3. FundsTypes'
  BY <1>1 DEF FundsTypes, RollbackTrades, redis, history
<1> PICK o, trades, n, at :
      o = job[p].order /\ trades = job[p].trades /\ n = Len(trades) /\ at = job[p].at
  OBVIOUS
<1>4. o \in Created /\ o \in Order /\ mutex = p /\ mem' \in [Order -> Progress] /\ book' \in BookType
  BY <1>1, RollbackFacts
<1>5. mutex' = None /\ UNCHANGED <<terms, row, lastId, updates, settled, here>>
  BY DEF RollbackTrades, history
<1>6. OrderTypes'
  BY <1>1, <1>4, <1>5 DEF OrderTypes
<1>7. \A x \in Order : mem'[x].filled <= terms[x].amount
  <2>1. \A x \in Order : /\ mem[x].filled <= terms[x].amount
                         /\ mem[x].filled \in Int /\ terms[x].amount \in Nat
    BY <1>1, RemainingType DEF Shape, RowsWithin, OrderTypes
  <2>2. \A x \in Order : /\ mem'[x].filled = mem[x].filled - ShareFrom(trades, x, at)
                         /\ ShareFrom(trades, x, at) \in Nat
    BY <1>1, RollbackFacts
  <2> QED
    BY <2>1, <2>2
<1>8. \A x \in Order : mem'[x] = mem[x] \/ (x \in Claims(job[p]) /\ x \in Created)
  BY <1>1, RollbackFacts
<1>9. \A side \in Side : \A r \in Range(book'[side]) :
          \/ r \in Range(book[side])
          \/ r \in Created /\ r \in Claims(job[p]) /\ terms[r].side = side /\ terms[r].type = "LIMIT"
  <2>1. Returned(job[p])
    BY <1>1, RollbackFacts
  <2> QED
    BY <2>1 DEF Returned
<1>10. PICK k : k = [Idle EXCEPT !.pc = "failed", !.order = o]
  OBVIOUS
<1>11. job' = [job EXCEPT ![p] = k]
  BY <1>1, <1>10 DEF RollbackTrades, JobTypes
<1>12. k \in Job /\ k.order = o /\ k.pc = "failed" /\ k.out = <<>> /\ k.seen = NoProgress
  BY <1>4, <1>10, IdleType DEF Job, Idle
<1>13. Sound(k) /\ Claims(k) = {} /\ k.pc \notin Inside \cup {"match", "create"}
  <2>1. k.pc \in Apart /\ \A i \in 1 .. Len(k.out) : FALSE
    BY <1>12 DEF Apart
  <2>2. k.seen.filled <= terms[o].amount
    BY <1>1, <1>4, <1>12 DEF NoProgress, OrderTypes, Terms
  <2> QED
    BY <1>4, <1>12, <2>1, <2>2, ApartSound
<1>14. Created' = Created /\ OrdersStay /\ Created \subseteq Order
  BY <1>1, <1>5, SituationFields DEF Created, OrdersStay
<1>15. JobTypes' /\ job'[p] = k /\ \A q \in Proc \ {p} : job'[q] = job[q]
  BY <1>1, <1>11, <1>12, MoveOn
<1>16. Sound(k)'
  BY <1>1, <1>6, <1>12, <1>13, <1>14, SoundStays
<1>17. LeavesOthers(p, k)
  <2>1. \A x \in Created : mem'[x].filled = mem[x].filled \/ x \in Claims(job[p])
    BY <1>8, <1>14
  <2>2. ~ \E q \in Proc \ {p} : job[q].pc \in Inside
    BY <1>4 DEF Shape, OneInside
  <2>3. \A x \in Created : Rests(x)' => Rests(x) \/ x \in Claims(job[p])
    BY <1>9 DEF Rests
  <2> QED
    BY <1>13, <1>14, <1>15, <2>1, <2>2, <2>3 DEF LeavesOthers
<1>18. RowsWithin'
  BY <1>5, <1>7, <1>14 DEF Shape, RowsWithin, Within
<1>19. BookSound'
  <2>1. BookSound
    BY DEF Shape
  <2> QED
    BY <1>5, <1>9, <1>14, <2>1 DEF BookSound
<1>20. OneInside'
  <2>1. OneInside /\ None \notin Proc
    BY TradingAssumption DEF Shape
  <2> QED
    BY <1>4, <1>5, <1>13, <1>15, <2>1 DEF OneInside
<1>21. \A x \in Order : x > lastId =>
          mem'[x] = NoProgress /\ row'[x] = NoProgress /\ settled'[x] = 0
  <2>1. \A x \in Order : x > lastId => x \notin Created
    BY <1>1, SituationFields DEF Created, Order
  <2> QED
    BY <1>5, <1>8, <2>1 DEF Shape, Numbered
<1>22. Shape'
  BY <1>1, <1>5, <1>6, <1>11, <1>12, <1>13, <1>15, <1>16, <1>17, <1>18, <1>19, <1>20, <1>21, Moved
<1> QED
  BY <1>3, <1>6, <1>15, <1>22, TypePartsNext

-----------------------------------------------------------------------------
(* Background *)

(* Goroutines that do not move stay sound while the orders they rely on    *)
(* do.                                                                     *)
LEMMA AtRest ==
    ASSUME Shape, UNCHANGED <<terms, mem, lastId, book, mutex, job, settled, here>>,
           RowsWithin', \A x \in Order : x > lastId => row'[x] = NoProgress
    PROVE  Shape'
<1>1. Created' = Created /\ Creating' = Creating
  BY DEF Created, Creating
<1>2. \A k : Claims(k)' = Claims(k)
  BY DEF Claims
<1>3. JobsSound'
  <2>1. ASSUME NEW q \in Proc
        PROVE  Sound(job[q])'
    <3> PICK l : l = job[q]
      OBVIOUS
    <3>1. Sound(l)
      BY DEF Shape, JobsSound
    <3>2. Sound(l)'
      BY <3>1, QuietSound
    <3>3. Sound(job[q])' <=> Sound(l)'
      BY DEF Sound, Settling
    <3> QED
      BY <3>2, <3>3
  <2> QED
    BY <2>1 DEF JobsSound
<1>4. Exclusive'
  <2>1. \A q \in Proc : Claims(job[q])' = Claims(job[q])
    BY DEF Claims
  <2> QED
    BY <2>1 DEF Shape, Exclusive
<1>5. BookSound' /\ OneInside' /\ Numbered'
  BY <1>1 DEF Shape, BookSound, OneInside, Numbered
<1> QED
  BY <1>3, <1>4, <1>5 DEF Shape

LEMMA ProjectUpdateKeeps ==
    ASSUME TypeOK, Shape, ProjectUpdate
    PROVE  TypeOK' /\ Shape'
<1>1. FundsTypes /\ OrderTypes /\ JobTypes
  BY TypeParts
<1>2. FundsTypes' /\ JobTypes'
  BY <1>1 DEF FundsTypes, JobTypes, ProjectUpdate, redis, history
<1> PICK u : u = Head(updates)
  OBVIOUS
<1>3. updates \in Seq(Update) /\ updates # <<>> /\ updates' = Tail(updates)
  BY <1>1 DEF ProjectUpdate, OrderTypes
<1>4. u \in Update /\ Within(u)
  <2>1. u = updates[1] /\ 1 \in 1 .. Len(updates)
    BY <1>3
  <2> QED
    BY <1>3, <2>1 DEF Shape, RowsWithin
<1>5. updates' \in Seq(Update) /\ \A i \in 1 .. Len(updates') : Within(updates'[i])
  <2>1. /\ updates' \in Seq(Update) /\ Len(updates') = Len(updates) - 1
        /\ \A i \in 1 .. Len(updates') : updates'[i] = updates[i + 1] /\ i + 1 \in 1 .. Len(updates)
    BY <1>3
  <2> QED
    BY <2>1 DEF Shape, RowsWithin
<1>6. UNCHANGED <<terms, mem, lastId, book, mutex, job, settled, here>>
  BY DEF ProjectUpdate, engine, history
<1> PICK o, e : o = u.order /\ e = [filled |-> u.filled, status |-> u.status]
  OBVIOUS
<1>7. o \in Created /\ e \in Progress /\ e.filled <= terms[o].amount
  BY <1>4 DEF Update, Progress, Within
<1>8. row' = [row EXCEPT ![o] = e]
  BY DEF ProjectUpdate
<1>9. /\ row' \in [Order -> Progress]
      /\ \A x \in Order : row'[x].filled <= terms[x].amount
      /\ \A x \in Order : x > lastId => row'[x] = NoProgress
  BY <1>1, <1>7, <1>8, RowType
<1>10. OrderTypes'
  BY <1>1, <1>5, <1>6, <1>9 DEF OrderTypes
<1>11. RowsWithin'
  BY <1>5, <1>6, <1>9 DEF Shape, RowsWithin, Within, Created
<1>12. Shape'
  BY <1>6, <1>9, <1>11, AtRest
<1> QED
  BY <1>2, <1>10, <1>12, TypePartsNext

LEMMA OtherDebitKeeps ==
    ASSUME TypeOK, Shape, NEW u \in User, NEW c \in Currency, NEW n \in Amount, OtherDebit(u, c, n)
    PROVE  TypeOK' /\ Shape'
<1>1. FundsTypes /\ OrderTypes /\ JobTypes
  BY TypeParts
<1>2. u \in Account /\ n \in Nat /\ -n \in Int
  BY TradingAssumption DEF Account
<1>3. bal' \in [Account -> [Currency -> Nat]]
  <2> PICK d : d = -n
    OBVIOUS
  <2>1. d \in Int /\ CanApply(u, c, d) /\ bal' = Add(bal, u, c, d)
    BY <1>2 DEF OtherDebit
  <2> QED
    BY <1>1, <1>2, <2>1, ApplyType DEF FundsTypes
<1>4. posted' \in [Account -> [Currency -> Int]]
  <2> PICK d : d = -n
    OBVIOUS
  <2>1. d \in Int /\ posted' = Add(posted, u, c, d) /\ posted \in [Account -> [Currency -> Int]]
    BY <1>1, <1>2 DEF OtherDebit, FundsTypes
  <2>2. Add(posted, u, c, d) \in [Account -> [Currency -> Int]]
    BY <1>2, <2>1, AddType
  <2> QED
    BY <2>1, <2>2
<1>5. outside' \in [Currency -> Int]
  BY <1>1, <1>2 DEF OtherDebit, FundsTypes
<1>6. FundsTypes'
  BY <1>1, <1>3, <1>4, <1>5 DEF OtherDebit, FundsTypes
<1>7. UNCHANGED <<terms, mem, row, lastId, book, mutex, updates, job, settled, here>>
  BY DEF OtherDebit, orders, engine
<1>8. OrderTypes' /\ JobTypes'
  BY <1>1, <1>7 DEF OrderTypes, JobTypes
<1>9. RowsWithin' /\ \A x \in Order : x > lastId => row'[x] = NoProgress
  BY <1>7 DEF Shape, Numbered, RowsWithin, Within, Created
<1>10. Shape'
  BY <1>7, <1>9, AtRest
<1> QED
  BY <1>6, <1>8, <1>10, TypePartsNext

LEMMA RestartKeeps ==
    ASSUME TypeOK, Shape, Restart
    PROVE  TypeOK' /\ Shape'
<1>1. FundsTypes /\ OrderTypes /\ JobTypes
  BY TypeParts
<1>2. FundsTypes'
  BY <1>1 DEF FundsTypes, Restart, redis, history
<1>3. PICK s \in SetToSeqs(OpenRows) : book' = LoadOpenOrders(s)
  BY DEF Restart
<1>4. OpenRows \subseteq Created /\ Created \subseteq Order /\ \A r \in OpenRows : terms[r].type = "LIMIT"
  BY <1>1, SituationFields DEF OpenRows, Created
<1>5. IsFiniteSet(OpenRows) /\ Cardinality(OpenRows) \in Nat
  <2>1. IsFiniteSet(Created)
    BY <1>1, SituationFields, FS_Interval DEF Created
  <2> QED
    BY <1>4, <2>1, FS_Subset, FS_CardinalityType
<1>6. s \in Seq(Order) /\ Range(s) \subseteq OpenRows
  <2> PICK n : n = Cardinality(OpenRows)
    OBVIOUS
  <2>1. s \in [1 .. n -> OpenRows] /\ n \in Nat
    BY <1>5 DEF SetToSeqs
  <2>2. s \in Seq(OpenRows) /\ DOMAIN s = 1 .. n
    BY <2>1
  <2>3. \A i \in 1 .. n : s[i] \in OpenRows
    BY <2>1
  <2>4. s \in [1 .. n -> Order]
    BY <1>4, <2>1
  <2>5. s \in Seq(Order)
    BY <2>1, <2>4
  <2> QED
    BY <2>2, <2>3, <2>5 DEF Range
<1>7. /\ book' \in BookType
      /\ \A side \in Side : \A r \in Range(book'[side]) : r \in Range(s) /\ terms[r].side = side
  <2>1. terms \in [Order -> Terms]
    BY <1>1 DEF OrderTypes
  <2>2. s \in Seq(Order)
    BY <1>6
  <2>3. /\ LoadOpenOrders(s) \in BookType
        /\ \A side \in Side : \A r \in Range(LoadOpenOrders(s)[side]) : r \in Range(s) /\ terms[r].side = side
    BY <2>1, <2>2, LoadKeeps
  <2> QED
    BY <1>3, <2>3
<1>8. /\ mem' = row /\ mutex' = None /\ job' = [q \in Proc |-> Idle]
      /\ UNCHANGED <<terms, row, lastId, updates, settled, here>>
  BY DEF Restart, history
<1>9. OrderTypes'
  BY <1>1, <1>7, <1>8 DEF OrderTypes
<1>10. JobTypes' /\ \A q \in Proc : job'[q] = Idle
  BY <1>8, IdleType DEF JobTypes
<1>11. Created' = Created
  BY <1>8 DEF Created
<1>12. Numbered'
  <2>1. Creating' = {}
    BY <1>10, IdleType DEF Creating
  <2>2. Cardinality(Creating') = 0
    BY <2>1, FS_EmptySet
  <2>3. lastId + Cardinality(Creating) <= here.orders /\ Cardinality(Creating) \in Nat
    BY CreatingFinite DEF Shape, Numbered
  <2>4. lastId' + Cardinality(Creating') <= here'.orders
    BY <1>1, <1>8, <2>2, <2>3, SituationFields
  <2> QED
    BY <1>8, <2>4 DEF Shape, Numbered
<1>13. RowsWithin'
  BY <1>8, <1>11 DEF Shape, RowsWithin, Within
<1>14. BookSound'
  BY <1>4, <1>6, <1>7, <1>8, <1>11 DEF BookSound
<1>15. OneInside'
  BY <1>8, <1>10, IdleType, IdleApart, TradingAssumption DEF OneInside
<1>16. JobsSound' /\ Exclusive'
  <2>1. \A i \in 1 .. Len(Idle.out) : FALSE
    BY IdleType
  <2>2. ASSUME NEW q \in Proc
        PROVE  Sound(job[q])'
    BY <1>10, <2>1, IdleType, IdleApart DEF Sound
  <2>3. Exclusive'
    BY <1>10, IdleType DEF Exclusive
  <2> QED
    BY <2>2, <2>3 DEF JobsSound
<1> QED
  BY <1>2, <1>9, <1>10, <1>12, <1>13, <1>14, <1>15, <1>16, TypePartsNext DEF Shape

-----------------------------------------------------------------------------
(* The invariant holds in every behaviour *)

LEMMA ArriveKeeps ==
    ASSUME TypeOK, Shape, NEW p \in Proc, Arrive(p)
    PROVE  TypeOK' /\ Shape'
<1>1. CASE \E t \in Request : PlaceOrder(p, t)
  BY <1>1, PlaceOrderKeeps
<1>2. CASE \E o \in Order : CancelOrder(p, o, "user") \/ CancelUserOrder(p, o)
  BY <1>2, CancelKeeps DEF CancelUserOrder
<1> QED
  BY <1>1, <1>2 DEF Arrive

LEMMA ServeKeeps ==
    ASSUME TypeOK, Shape, NEW p \in Proc, Serve(p)
    PROVE  TypeOK' /\ Shape'
BY CreateOrderKeeps, MatchOrderKeeps, SettleLegKeeps, LegFailsKeeps, UndoLegKeeps, SettleTailKeeps,
   FillAtMarketKeeps, NoMarketFillKeeps, RestOrderKeeps, PublishUpdatesKeeps, SyncReadKeeps,
   SyncWriteKeeps, RollbackTradesKeeps, FailOrderKeeps, CancelUnlockKeeps, CancelSaveKeeps,
   CancelRemoveKeeps, CancelAnnounceKeeps DEF Serve

LEMMA InitShape == Init => TypeOK /\ Shape
<1> SUFFICES ASSUME Init
             PROVE  TypeOK /\ Shape
  OBVIOUS
<1>1. /\ here \in Situation /\ here.funds \in [Currency -> Nat] /\ here.orders \in Nat
      /\ MaxOrders \in Nat /\ IsFiniteSet(Proc) /\ None \notin Proc
  BY SituationAssumption, TradingAssumption DEF Init
<1>2. NoTerms \in Terms /\ NoTerms.amount = 0 /\ NoProgress \in Progress /\ NoProgress.filled = 0
  BY TradingAssumption DEF NoTerms, Terms, Account, Side, OrderType, NoProgress, Progress, Status
<1>3. FundsTypes
  <2>1. bal \in [Account -> [Currency -> Nat]]
    BY <1>1 DEF Init
  <2>2. lck \in [Account -> [Currency -> Nat]] /\ settled \in [Order -> Nat] /\ outside \in [Currency -> Int]
    BY DEF Init
  <2>3. posted \in [Account -> [Currency -> Int]]
    BY <2>1 DEF Init
  <2> QED
    BY <2>1, <2>2, <2>3 DEF FundsTypes
<1>4. \A side \in Side : book[side] = <<>>
  BY DEF Init, EmptyBook
<1>5. OrderTypes
  <2>1. book \in BookType
    BY DEF Init, EmptyBook, BookType
  <2>2. updates \in Seq(Update)
    BY DEF Init
  <2>3. lastId \in 0 .. MaxOrders
    BY <1>1 DEF Init
  <2> QED
    BY <1>1, <1>2, <2>1, <2>2, <2>3 DEF Init, OrderTypes
<1>6. JobTypes /\ \A q \in Proc : job[q] = Idle
  BY IdleType DEF Init, JobTypes
<1>7. Numbered
  <2>1. Creating = {}
    BY <1>6, IdleType DEF Creating
  <2>2. Cardinality(Creating) = 0
    BY <2>1, FS_EmptySet
  <2>3. lastId + Cardinality(Creating) <= here.orders
    BY <1>1, <2>2 DEF Init
  <2> QED
    BY <2>3 DEF Init, Numbered
<1>8. RowsWithin
  BY <1>2 DEF Init, RowsWithin
<1>9. BookSound
  BY <1>4 DEF BookSound, Range
<1>10. OneInside
  BY <1>1, <1>6, IdleApart DEF Init, OneInside
<1>11. JobsSound /\ Exclusive
  BY <1>6, IdleType, IdleApart DEF JobsSound, Exclusive
<1> QED
  BY <1>3, <1>5, <1>6, <1>7, <1>8, <1>9, <1>10, <1>11, TypeParts DEF Shape

LEMMA NextShape == TypeOK /\ Shape /\ [Next]_vars => TypeOK' /\ Shape'
<1> SUFFICES ASSUME TypeOK, Shape, [Next]_vars
             PROVE  TypeOK' /\ Shape'
  OBVIOUS
<1>1. CASE \E p \in Proc : Arrive(p) \/ Serve(p)
  BY <1>1, ArriveKeeps, ServeKeeps
<1>2. CASE ProjectUpdate
  BY <1>2, ProjectUpdateKeeps
<1>3. CASE Others
  BY <1>3, OtherDebitKeeps DEF Others
<1>4. CASE Restart
  BY <1>4, RestartKeeps
<1>5. CASE UNCHANGED vars
  <2>1. UNCHANGED <<bal, lck, terms, mem, row, lastId, book, mutex, updates, job, settled, posted, outside, here>>
    BY <1>5 DEF vars, redis, orders, engine, history
  <2>2. TypeOK'
    BY <2>1 DEF TypeOK
  <2>3. RowsWithin' /\ \A x \in Order : x > lastId => row'[x] = NoProgress
    BY <2>1 DEF Shape, Numbered, RowsWithin, Within, Created
  <2>4. Shape'
    BY <2>1, <2>3, AtRest
  <2> QED
    BY <2>2, <2>4
<1> QED
  BY <1>1, <1>2, <1>3, <1>4, <1>5 DEF Next

LEMMA Shapely == Spec => [](TypeOK /\ Shape)
BY InitShape, NextShape, PTL DEF Spec

(* All variables keep their types: whatever is placed, matched, settled,   *)
(* rolled back, cancelled or lost in a restart, no balance and no lock is  *)
(* ever below zero.                                                        *)
THEOREM TypeCorrect == Spec => []TypeOK
BY Shapely, PTL

(* Neither an order in memory nor its row nor an event about it is ever    *)
(* filled beyond its amount; and one goroutine at a time is inside the     *)
(* pair's mutex.                                                           *)
THEOREM WithinAmounts == Spec => [](RowsWithin /\ OneInside)
<1>1. Shape => RowsWithin /\ OneInside
  BY DEF Shape
<1> QED
  BY <1>1, Shapely, PTL

-----------------------------------------------------------------------------
(* What a step outside the mutex leaves alone *)

Unmoved == UNCHANGED <<bal, mutex, settled, posted, outside, here>>

LEMMA ArriveFrame ==
    ASSUME NEW p \in Proc, Arrive(p)
    PROVE  /\ job[p].pc = "idle" /\ Unmoved /\ UNCHANGED <<terms, mem, lastId, book>>
           /\ \E k : job' = [job EXCEPT ![p] = k]
<1>1. CASE \E t \in Request : PlaceOrder(p, t)
  <2>1. PICK t \in Request : PlaceOrder(p, t)
    BY <1>1
  <2> QED
    BY <2>1, Zenon DEF PlaceOrder, Free, Unmoved, orders, engine, history
<1>2. CASE \E o \in Order, by \in {"user", "admin"} : CancelOrder(p, o, by)
  <2>1. PICK o \in Order, by \in {"user", "admin"} : CancelOrder(p, o, by)
    BY <1>2
  <2> QED
    BY <2>1, Zenon DEF CancelOrder, Free, Unmoved, redis, orders, engine, history
<1> QED
  BY <1>1, <1>2 DEF Arrive, CancelUserOrder

LEMMA OutsideFrame ==
    ASSUME JobTypes, NEW p \in Proc,
           \/ Arrive(p) \/ CreateOrder(p) \/ SyncRead(p) \/ SyncWrite(p) \/ FailOrder(p)
           \/ CancelUnlock(p) \/ CancelSave(p) \/ CancelRemove(p) \/ CancelAnnounce(p)
    PROVE  /\ job[p].pc \notin Inside /\ Unmoved
           /\ job[p].pc # "create" => UNCHANGED <<terms, lastId>>
           /\ job[p].pc \notin {"create", "failed"} => UNCHANGED mem
           /\ job[p].pc # "remove" => UNCHANGED book
           /\ \E k : job' = [job EXCEPT ![p] = k]
<1>1. job \in [Proc -> Job]
  BY DEF JobTypes
<1>2. CASE Arrive(p)
  BY <1>2, ArriveFrame DEF Inside
<1>3. CASE CreateOrder(p)
  BY <1>3 DEF CreateOrder, Finish, Inside, Unmoved, redis, engine, history
<1>4. CASE SyncRead(p)
  <2>1. job' = [job EXCEPT ![p] = [job[p] EXCEPT !.pc = "syncWrite", !.seen = mem[job[p].order]]]
    BY <1>1, <1>4 DEF SyncRead
  <2> QED
    BY <1>4, <2>1, Zenon DEF SyncRead, Inside, Unmoved, redis, orders, engine, history
<1>5. CASE SyncWrite(p)
  BY <1>5 DEF SyncWrite, Finish, Inside, Unmoved, redis, engine, history
<1>6. CASE FailOrder(p)
  BY <1>6 DEF FailOrder, Finish, Inside, Unmoved, redis, engine, history
<1>7. CASE CancelUnlock(p)
  <2>1. job' = [job EXCEPT ![p] = [job[p] EXCEPT !.pc = "save"]]
    BY <1>1, <1>7 DEF CancelUnlock, Goto
  <2> QED
    BY <1>7, <2>1, Zenon DEF CancelUnlock, Inside, Unmoved, orders, engine, history
<1>8. CASE CancelSave(p)
  <2>1. \/ job' = [job EXCEPT ![p] = [job[p] EXCEPT !.pc = "remove"]]
        \/ job' = [job EXCEPT ![p] = Idle]
    BY <1>1, <1>8 DEF CancelSave, Goto, Finish
  <2> QED
    BY <1>8, <2>1, Zenon DEF CancelSave, Inside, Unmoved, redis, engine, history
<1>9. CASE CancelRemove(p)
  <2>1. job' = [job EXCEPT ![p] = [job[p] EXCEPT !.pc = "announce"]]
    BY <1>1, <1>9 DEF CancelRemove, Goto
  <2> QED
    BY <1>9, <2>1, Zenon DEF CancelRemove, Inside, Unmoved, redis, orders, history
<1>10. CASE CancelAnnounce(p)
  BY <1>10 DEF CancelAnnounce, Finish, Inside, Unmoved, redis, orders, engine, history
<1> QED
  BY <1>2, <1>3, <1>4, <1>5, <1>6, <1>7, <1>8, <1>9, <1>10

-----------------------------------------------------------------------------
(* What is filled is settled, or owed by the goroutine inside the mutex    *)

Owed(x) == IF mutex = None THEN 0 ELSE ShareFrom(job[mutex].trades, x, job[mutex].at)
SettledInv == Surviving => \A x \in Order : mem[x].filled = settled[x] + Owed(x)

(* Nothing is filled, paid for or owed. *)
Steady ==
    /\ \A x \in Order : mem'[x].filled = mem[x].filled
    /\ UNCHANGED <<settled, mutex, here>>
    /\ \A q \in Proc : job[q].pc \in Inside =>
          job'[q].trades = job[q].trades /\ job'[q].at = job[q].at

LEMMA MutexHolder ==
    ASSUME OrderTypes, JobTypes, Shape, mutex # None
    PROVE  /\ mutex \in Proc /\ job[mutex].pc \in Inside /\ Settling(job[mutex])
           /\ job[mutex].trades \in Seq(Trade) /\ job[mutex].at \in Nat
           /\ \A i \in 1 .. Len(job[mutex].trades) : job[mutex].trades[i].amt \in Nat
<1>1. mutex \in Proc
  BY DEF OrderTypes
<1>2. job[mutex].pc \in Inside
  BY <1>1 DEF Shape, OneInside
<1>3. job[mutex] \in Job
  BY <1>1 DEF JobTypes
<1> QED
  BY <1>1, <1>2, <1>3, InsideFacts, JobFields

LEMMA SteadyKeeps ==
    ASSUME OrderTypes, JobTypes, Shape, SettledInv, Steady
    PROVE  SettledInv'
<1> SUFFICES ASSUME Surviving', NEW x \in Order
             PROVE  mem'[x].filled = settled'[x] + Owed(x)'
  BY DEF SettledInv
<1>1. here' = here /\ settled' = settled /\ mutex' = mutex /\ mem'[x].filled = mem[x].filled
  BY DEF Steady
<1>2. mem[x].filled = settled[x] + Owed(x)
  BY <1>1 DEF SettledInv, Surviving, Faults
<1>3. Owed(x)' = Owed(x)
  <2>1. CASE mutex = None
    BY <1>1, <2>1 DEF Owed
  <2>2. CASE mutex # None
    <3>1. job'[mutex].trades = job[mutex].trades /\ job'[mutex].at = job[mutex].at
      BY <2>2, MutexHolder DEF Steady
    <3> QED
      BY <1>1, <2>2, <3>1 DEF Owed
  <2> QED
    BY <2>1, <2>2
<1> QED
  BY <1>1, <1>2, <1>3

(* A goroutine moves on with the same trades, or is outside the mutex. *)
LEMMA SteadyMove ==
    ASSUME JobTypes, NEW p \in Proc, NEW k, job' = [job EXCEPT ![p] = k],
           \/ job[p].pc \notin Inside
           \/ k.trades = job[p].trades /\ k.at = job[p].at,
           \A x \in Order : mem'[x].filled = mem[x].filled,
           UNCHANGED <<settled, mutex, here>>
    PROVE  Steady
<1>1. job'[p] = k /\ \A q \in Proc \ {p} : job'[q] = job[q]
  BY DEF JobTypes
<1> QED
  BY <1>1 DEF Steady

LEMMA SteadyGoto ==
    ASSUME JobTypes, NEW p \in Proc, NEW l, NEW n, NEW m,
           \/ job' = [job EXCEPT ![p].pc = l]
           \/ job' = [job EXCEPT ![p].leg = n]
           \/ job' = [job EXCEPT ![p].undo = n]
           \/ job' = [job EXCEPT ![p].pc = l, ![p].undo = n]
           \/ job' = [job EXCEPT ![p].pc = l, ![p].seen = m],
           UNCHANGED <<mem, settled, mutex, here>>
    PROVE  Steady
<1>1. job[p] \in Job
  BY DEF JobTypes
<1>2. PICK k : /\ job' = [job EXCEPT ![p] = k]
               /\ k.trades = job[p].trades /\ k.at = job[p].at
  BY <1>1 DEF JobTypes, Job
<1> QED
  BY <1>2, SteadyMove

LEMMA CreateSettled ==
    ASSUME TypeOK, Shape, SettledInv, NEW p \in Proc, CreateOrder(p)
    PROVE  SettledInv'
<1>1. FundsTypes /\ OrderTypes /\ JobTypes
  BY TypeParts
<1>2. job[p].pc \notin Inside
  BY DEF CreateOrder, Inside
<1>3. UNCHANGED <<settled, mutex, here>>
  BY DEF CreateOrder, engine, history
<1>4. \A x \in Order : mem'[x].filled = mem[x].filled
  <2>1. mem \in [Order -> Progress]
    BY <1>1 DEF OrderTypes
  <2>2. mem' = mem \/ \E y : mem' = [mem EXCEPT ![y].status = "OPEN"]
    BY DEF CreateOrder, orders
  <2> QED
    BY <2>1, <2>2 DEF Progress
<1>5. PICK k : job' = [job EXCEPT ![p] = k]
  BY DEF CreateOrder, Finish
<1>6. Steady
  BY <1>1, <1>2, <1>3, <1>4, <1>5, SteadyMove
<1> QED
  BY <1>1, <1>6, SteadyKeeps

LEMMA FailSettled ==
    ASSUME TypeOK, Shape, SettledInv, NEW p \in Proc, FailOrder(p)
    PROVE  SettledInv'
<1>1. FundsTypes /\ OrderTypes /\ JobTypes
  BY TypeParts
<1>2. job[p].pc \notin Inside
  BY DEF FailOrder, Inside
<1>3. UNCHANGED <<settled, mutex, here>>
  BY DEF FailOrder, engine, history
<1>4. \A x \in Order : mem'[x].filled = mem[x].filled
  <2>1. mem \in [Order -> Progress]
    BY <1>1 DEF OrderTypes
  <2>2. \E y : mem' = [mem EXCEPT ![y].status = "CANCELLED"]
    BY DEF FailOrder
  <2> QED
    BY <2>1, <2>2 DEF Progress
<1>5. PICK k : job' = [job EXCEPT ![p] = k]
  BY DEF FailOrder, Finish
<1>6. Steady
  BY <1>1, <1>2, <1>3, <1>4, <1>5, SteadyMove
<1> QED
  BY <1>1, <1>6, SteadyKeeps

(* The other steps fill nothing and pay for nothing. *)
LEMMA OtherSettled ==
    ASSUME TypeOK, Shape, SettledInv, NEW p \in Proc,
           \/ Arrive(p)
           \/ SettleLeg(p) \/ LegFails(p) \/ UndoLeg(p) \/ NoMarketFill(p) \/ RestOrder(p)
           \/ SyncRead(p) \/ SyncWrite(p)
           \/ CancelUnlock(p) \/ CancelSave(p) \/ CancelRemove(p) \/ CancelAnnounce(p)
    PROVE  SettledInv'
<1>1. FundsTypes /\ OrderTypes /\ JobTypes
  BY TypeParts
<1>2. CASE SettleLeg(p) \/ LegFails(p) \/ UndoLeg(p) \/ NoMarketFill(p) \/ RestOrder(p)
  <2>1. UNCHANGED <<mem, settled, mutex, here>>
    BY <1>2 DEF SettleLeg, LegFails, UndoLeg, NoMarketFill, RestOrder, orders, engine, history
  <2>2. CASE NoMarketFill(p) \/ RestOrder(p)
    <3>1. \E l : job' = [job EXCEPT ![p].pc = l]
      BY <2>2 DEF NoMarketFill, RestOrder, Goto
    <3>2. Steady
      BY <1>1, <2>1, <3>1, SteadyGoto
    <3> QED
      BY <1>1, <3>2, SteadyKeeps
  <2>3. CASE SettleLeg(p) \/ LegFails(p) \/ UndoLeg(p)
    <3>1. \E l, n : \/ job' = [job EXCEPT ![p].pc = l]
                    \/ job' = [job EXCEPT ![p].leg = n]
                    \/ job' = [job EXCEPT ![p].undo = n]
                    \/ job' = [job EXCEPT ![p].pc = l, ![p].undo = n]
      BY <2>3, Zenon DEF SettleLeg, LegFails, UndoLeg, Goto
    <3>2. Steady
      BY <1>1, <2>1, <3>1, SteadyGoto
    <3> QED
      BY <1>1, <3>2, SteadyKeeps
  <2> QED
    BY <1>2, <2>2, <2>3
<1>3. CASE \/ Arrive(p) \/ SyncRead(p) \/ SyncWrite(p) \/ CancelUnlock(p)
           \/ CancelSave(p) \/ CancelRemove(p) \/ CancelAnnounce(p)
  <2>1. UNCHANGED <<mem, settled, mutex, here>>
    <3>1. job[p].pc \notin {"create", "failed"}
      <4>1. CASE Arrive(p)
        BY <4>1, ArriveFrame
      <4>2. CASE ~Arrive(p)
        BY <1>3, <4>2 DEF SyncRead, SyncWrite, CancelUnlock, CancelSave, CancelRemove, CancelAnnounce
      <4> QED
        BY <4>1, <4>2
    <3> QED
      BY <1>1, <1>3, <3>1, OutsideFrame DEF Unmoved
  <2>2. job[p].pc \notin Inside
    BY <1>1, <1>3, OutsideFrame
  <2>3. \E k : job' = [job EXCEPT ![p] = k]
    BY <1>1, <1>3, OutsideFrame
  <2>4. Steady
    BY <1>1, <2>1, <2>2, <2>3, SteadyMove
  <2> QED
    BY <1>1, <2>4, SteadyKeeps
<1> QED
  BY <1>2, <1>3

(* The goroutine inside the mutex afterwards is p. *)
LEMMA SettledBy ==
    ASSUME NEW p, p # None, mutex' = p, NEW trades, NEW at,
           job'[p].trades = trades /\ job'[p].at = at,
           Surviving => \A x \in Order : mem'[x].filled = settled'[x] + ShareFrom(trades, x, at),
           UNCHANGED here
    PROVE  SettledInv'
BY DEF SettledInv, Owed, Surviving, Faults

LEMMA SettledByNone ==
    ASSUME mutex' = None,
           Surviving => \A x \in Order : mem'[x].filled = settled'[x],
           UNCHANGED here, settled' \in [Order -> Nat]
    PROVE  SettledInv'
BY DEF SettledInv, Owed, Surviving, Faults

LEMMA MatchSettled ==
    ASSUME TypeOK, Shape, SettledInv, NEW p \in Proc, MatchOrder(p)
    PROVE  SettledInv'
<1>1. FundsTypes /\ OrderTypes /\ JobTypes
  BY TypeParts
<1>2. job[p].pc = "match" /\ mutex = None
  BY DEF MatchOrder
<1> PICK o, m, opp, R, trades :
      /\ o = job[p].order /\ m = Match(terms, mem, book, o) /\ trades = m.trades
      /\ opp = Opposite(terms[o].side) /\ R = Range(book[opp])
  OBVIOUS
<1>3. /\ job[p] \in Job /\ m \in Acc /\ Matched(terms, mem, o, R, m)
  BY <1>1, <1>2, MatchFacts
<1>4. trades \in Seq(Trade)
  BY <1>3 DEF Acc
<1>5. mutex' = p /\ mem' = m.mem /\ UNCHANGED <<settled, here>>
  BY DEF MatchOrder, history
<1>6. \A x \in Order : m.mem[x].filled = mem[x].filled + ShareOf(trades, x)
  BY <1>3 DEF Matched
<1>7. job'[p].trades = trades /\ job'[p].at = 1
  BY <1>1, <1>3 DEF MatchOrder, JobTypes, Job
<1>8. Surviving => \A x \in Order : mem[x].filled = settled[x]
  BY <1>1, <1>2 DEF SettledInv, Owed, FundsTypes
<1>9. \A x \in Order : ShareFrom(trades, x, 1) = ShareOf(trades, x)
  BY <1>4, ShareFromFirst
<1>10. Surviving => \A x \in Order : mem'[x].filled = settled'[x] + ShareFrom(trades, x, 1)
  BY <1>5, <1>6, <1>8, <1>9
<1>11. p # None
  BY TradingAssumption
<1> QED
  BY <1>5, <1>7, <1>10, <1>11, SettledBy

LEMMA SettleTailSettled ==
    ASSUME TypeOK, Shape, SettledInv, NEW p \in Proc, SettleTail(p)
    PROVE  SettledInv'
<1>1. FundsTypes /\ OrderTypes /\ JobTypes
  BY TypeParts
<1>2. job[p].pc = "tail" /\ job[p].pc \in Paying /\ job[p].pc \in Inside
  BY DEF SettleTail, Paying, Inside
<1> PICK o, trades, n, at, t :
       /\ o = job[p].order /\ trades = job[p].trades /\ n = Len(trades) /\ at = job[p].at
       /\ t = CurrentTrade(p)
  OBVIOUS
<1>3. /\ o \in Created /\ o \in Order /\ job[p] \in Job /\ Settling(job[p])
      /\ mutex = p /\ trades \in Seq(Trade) /\ n \in Nat
      /\ \A i \in 1 .. n : trades[i].amt \in Nat
  BY <1>1, <1>2, InsideFacts
<1>4. t \in Trade /\ t.amt \in Nat /\ at \in 1 .. n /\ t = trades[at]
  BY <1>1, <1>2, LegFacts
<1>5. Meeting(o, t) \/ (Filling(o, t) /\ at = n)
  BY <1>3, <1>4 DEF Settling
<1>6. /\ mutex' = mutex /\ here' = here
      /\ settled' = [x \in Order |-> IF x \in Parties(t) THEN settled[x] + t.amt ELSE settled[x]]
      /\ mem' = IF Synthetic(t) THEN Fill(terms, mem, o, t.amt) ELSE mem
  BY DEF SettleTail, engine
<1>7. job'[p].trades = trades /\ job'[p].at = at + 1
  BY <1>1, <1>3 DEF SettleTail, JobTypes, Job
<1>8. p # None
  BY TradingAssumption
<1>9. \A x \in Order : ShareFrom(trades, x, at) = ShareFrom(trades, x, at + 1) + Deal(t, x)
  BY <1>3, <1>4, ShareFromStep
<1>10. \A x \in Order : ShareFrom(trades, x, at + 1) \in Nat
  <2>1. at + 1 \in Int /\ \A i \in 1 .. Len(trades) : trades[i].amt \in Nat
    BY <1>3, <1>4
  <2> QED
    BY <1>3, <2>1, ShareFromNat
<1>11. Surviving => \A x \in Order : mem[x].filled = settled[x] + ShareFrom(trades, x, at)
  BY <1>3, <1>8 DEF SettledInv, Owed
<1>12. \A x \in Order : settled[x] \in Nat /\ mem[x].filled \in Int
  BY <1>1 DEF FundsTypes, OrderTypes, Progress
<1>13. PICK m : /\ m = Fill(terms, mem, o, t.amt)
                /\ m \in [Order -> Progress] /\ m[o].filled = mem[o].filled + t.amt
                /\ \A x \in Order \ {o} : m[x] = mem[x]
  <2>1. t.amt \in Int /\ terms \in [Order -> Terms] /\ mem \in [Order -> Progress]
    BY <1>1, <1>4 DEF OrderTypes
  <2> QED
    BY <1>3, <2>1, FillType
<1>14. \A x \in Order : mem'[x].filled - mem[x].filled = settled'[x] - settled[x] - Deal(t, x)
  <2>1. CASE ~Synthetic(t)
    <3>1. \A x \in Order : mem'[x].filled = mem[x].filled
      BY <1>6, <2>1
    <3>2. \A x \in Order : settled'[x] = settled[x] + Deal(t, x) /\ Deal(t, x) \in Int
      BY <1>4, <1>6, <1>12, <2>1 DEF Deal
    <3> QED
      BY <1>12, <3>1, <3>2
  <2>2. CASE Synthetic(t)
    <3>1. Parties(t) = {o}
      BY <1>1, <1>3, <1>5, <2>2, MeetingFacts, FillingFacts
    <3>2. /\ mem'[o].filled = mem[o].filled + t.amt
          /\ \A x \in Order \ {o} : mem'[x] = mem[x]
      BY <1>3, <1>6, <1>13, <2>2
    <3>3. \A x \in Order : Deal(t, x) = 0
      BY <2>2 DEF Deal
    <3>4. settled'[o] = settled[o] + t.amt /\ \A x \in Order \ {o} : settled'[x] = settled[x]
      BY <1>3, <1>6, <3>1
    <3> QED
      BY <1>4, <1>12, <3>2, <3>3, <3>4
  <2> QED
    BY <2>1, <2>2
<1>15. Surviving => \A x \in Order : mem'[x].filled = settled'[x] + ShareFrom(trades, x, at + 1)
  <2>1. \A x \in Order : settled'[x] \in Int /\ Deal(t, x) \in Int /\ mem'[x].filled \in Int
    <3>1. \A x \in Order : settled'[x] \in Int /\ Deal(t, x) \in Int
      BY <1>4, <1>6, <1>12, DealType
    <3>2. mem' \in [Order -> Progress]
      BY <1>1, <1>6, <1>13 DEF OrderTypes
    <3> QED
      BY <3>1, <3>2 DEF Progress
  <2> SUFFICES ASSUME Surviving, NEW x \in Order
               PROVE  mem'[x].filled = settled'[x] + ShareFrom(trades, x, at + 1)
    OBVIOUS
  <2> PICK a, b, d, r : /\ a = mem'[x].filled /\ b = settled'[x] /\ d = Deal(t, x)
                        /\ r = ShareFrom(trades, x, at + 1)
    OBVIOUS
  <2> PICK f, s : f = mem[x].filled /\ s = settled[x]
    OBVIOUS
  <2>2. a \in Int /\ b \in Int /\ d \in Int /\ r \in Int
    BY <1>10, <2>1
  <2>3. f \in Int /\ s \in Int
    BY <1>12
  <2>4. a - f = b - s - d
    BY <1>14
  <2>5. f = s + (r + d)
    BY <1>9, <1>11
  <2>6. a = b + r
    BY ONLY <2>2, <2>3, <2>4, <2>5
  <2> QED
    BY <2>6
<1> QED
  BY <1>3, <1>6, <1>7, <1>8, <1>15, SettledBy

LEMMA FillAtMarketSettled ==
    ASSUME TypeOK, Shape, SettledInv, NEW p \in Proc, FillAtMarket(p)
    PROVE  SettledInv'
<1>1. FundsTypes /\ OrderTypes /\ JobTypes
  BY TypeParts
<1>2. job[p].pc = "price" /\ job[p].pc \in Inside
  BY DEF FillAtMarket, Inside
<1> PICK o, trades, n : o = job[p].order /\ trades = job[p].trades /\ n = Len(trades)
  OBVIOUS
<1>3. /\ o \in Created /\ o \in Order /\ job[p] \in Job /\ Settling(job[p])
      /\ mutex = p /\ trades \in Seq(Trade) /\ n \in Nat
  BY <1>1, <1>2, InsideFacts
<1>4. job[p].at = n + 1
  BY <1>2, <1>3 DEF Settling
<1>5. PICK price, t :
         /\ price \in MarketPrice \ {0}
         /\ t = [buy  |-> IF terms[o].side = "BUY" THEN o ELSE None,
                 sell |-> IF terms[o].side = "SELL" THEN o ELSE None,
                 price |-> price, amt |-> Remaining(terms, mem, o)]
         /\ job' = [job EXCEPT ![p].pc = "leg", ![p].leg = 1, ![p].at = n + 1,
                               ![p].trades = Append(@, t)]
  BY DEF FillAtMarket
<1>6. t \in Trade /\ Synthetic(t)
  <2>1. price \in Nat
    <3>1. here \in Situation
      BY <1>1 DEF OrderTypes
    <3> QED
      BY <1>5, <3>1, TradingAssumption, SituationAssumption DEF MarketPrice
  <2>2. Remaining(terms, mem, o) \in Int
    BY <1>1, <1>3, RemainingType DEF OrderTypes
  <2>3. terms[o].side = "BUY" \/ terms[o].side = "SELL"
    BY <1>1, <1>3 DEF OrderTypes, Terms, Side
  <2> QED
    BY <1>3, <1>5, <2>1, <2>2, <2>3 DEF Trade, Synthetic
<1> PICK all, last : all = Append(trades, t) /\ last = n + 1
  OBVIOUS
<1>7. /\ all \in Seq(Trade) /\ Len(all) = last /\ all[last] = t
      /\ last \in 1 .. Len(all) /\ last + 1 \in Int /\ last + 1 > Len(all)
  <2>1. all \in Seq(Trade) /\ Len(all) = last /\ all[last] = t
    BY <1>3, <1>6, Appended
  <2> QED
    BY <1>3, <2>1
<1>8. job'[p].trades = all /\ job'[p].at = last
  BY <1>1, <1>3, <1>5 DEF JobTypes, Job
<1>9. \A x \in Order : ShareFrom(all, x, last) = 0
  <2>1. \A x \in Order : Deal(t, x) = 0
    BY <1>6 DEF Deal
  <2>2. \A x \in Order : ShareFrom(all, x, last + 1) = 0
    BY <1>7, ShareFromEnd
  <2>3. \A x \in Order : ShareFrom(all, x, last) = ShareFrom(all, x, last + 1) + Deal(all[last], x)
    BY <1>7, ShareFromStep
  <2> QED
    BY <1>7, <2>1, <2>2, <2>3
<1>10. \A x \in Order : ShareFrom(trades, x, n + 1) = 0
  BY <1>3, ShareFromEnd
<1>11. p # None
  BY TradingAssumption
<1>12. Surviving => \A x \in Order : mem[x].filled = settled[x] + ShareFrom(trades, x, n + 1)
  BY <1>3, <1>4, <1>11 DEF SettledInv, Owed
<1>13. UNCHANGED <<mem, settled, mutex, here>>
  BY DEF FillAtMarket, orders, engine, history
<1>14. Surviving => \A x \in Order : mem'[x].filled = settled'[x] + ShareFrom(all, x, last)
  BY <1>9, <1>10, <1>12, <1>13
<1>15. p # None /\ mutex' = p /\ here' = here /\ job'[p].trades = all /\ job'[p].at = last
  BY <1>3, <1>8, <1>11, <1>13
<1> QED
  BY <1>14, <1>15, SettledBy

LEMMA PublishSettled ==
    ASSUME TypeOK, Shape, SettledInv, NEW p \in Proc, PublishUpdates(p)
    PROVE  SettledInv'
<1>1. FundsTypes /\ OrderTypes /\ JobTypes
  BY TypeParts
<1>2. job[p].pc = "publish" /\ job[p].pc \in Inside
  BY DEF PublishUpdates, Inside
<1> PICK trades, n : trades = job[p].trades /\ n = Len(trades)
  OBVIOUS
<1>3. Settling(job[p]) /\ mutex = p /\ trades \in Seq(Trade) /\ n \in Nat
  BY <1>1, <1>2, InsideFacts
<1>4. job[p].at = n + 1
  BY <1>2, <1>3 DEF Settling
<1>5. \A x \in Order : ShareFrom(trades, x, n + 1) = 0
  BY <1>3, ShareFromEnd
<1>6. p # None
  BY TradingAssumption
<1>7. Surviving => \A x \in Order : mem[x].filled = settled[x] + ShareFrom(trades, x, n + 1)
  BY <1>3, <1>4, <1>6 DEF SettledInv, Owed
<1>8. mutex' = None /\ UNCHANGED <<mem, settled, here>>
  BY DEF PublishUpdates, orders
<1>9. settled \in [Order -> Nat]
  BY <1>1 DEF FundsTypes
<1>10. Surviving => \A x \in Order : mem'[x].filled = settled'[x]
  BY <1>5, <1>7, <1>8, <1>9
<1> QED
  BY <1>8, <1>9, <1>10, SettledByNone

LEMMA RollbackSettled ==
    ASSUME TypeOK, Shape, SettledInv, NEW p \in Proc, RollbackTrades(p)
    PROVE  SettledInv'
<1>1. FundsTypes /\ OrderTypes /\ JobTypes
  BY TypeParts
<1> PICK o, trades, n, at :
       o = job[p].order /\ trades = job[p].trades /\ n = Len(trades) /\ at = job[p].at
  OBVIOUS
<1>2. /\ mutex = p
      /\ \A x \in Order : /\ mem'[x].filled = mem[x].filled - ShareFrom(trades, x, at)
                          /\ ShareFrom(trades, x, at) \in Nat
  BY <1>1, RollbackFacts
<1>3. p # None
  BY TradingAssumption
<1>4. Surviving => \A x \in Order : mem[x].filled = settled[x] + ShareFrom(trades, x, at)
  BY <1>2, <1>3 DEF SettledInv, Owed
<1>5. mutex' = None /\ UNCHANGED <<settled, here>>
  BY DEF RollbackTrades, history
<1>6. settled \in [Order -> Nat]
  BY <1>1 DEF FundsTypes
<1>7. Surviving => \A x \in Order : mem'[x].filled = settled'[x]
  BY <1>2, <1>4, <1>5, <1>6
<1> QED
  BY <1>5, <1>6, <1>7, SettledByNone

LEMMA NextSettled == TypeOK /\ Shape /\ SettledInv /\ [Next]_vars => SettledInv'
<1> SUFFICES ASSUME TypeOK, Shape, SettledInv, [Next]_vars
             PROVE  SettledInv'
  OBVIOUS
<1>1. FundsTypes /\ OrderTypes /\ JobTypes
  BY TypeParts
<1>2. ASSUME NEW p \in Proc, Arrive(p) \/ Serve(p)
      PROVE  SettledInv'
  BY <1>2, OtherSettled, CreateSettled, MatchSettled, SettleTailSettled, FillAtMarketSettled,
     PublishSettled, RollbackSettled, FailSettled DEF Serve
<1>3. ASSUME ProjectUpdate \/ Others \/ UNCHANGED vars
      PROVE  SettledInv'
  <2>1. UNCHANGED <<mem, settled, mutex, here, job>>
    BY <1>3 DEF ProjectUpdate, Others, OtherDebit, vars, orders, engine, history
  <2>2. Steady
    BY <2>1 DEF Steady
  <2> QED
    BY <1>1, <2>2, SteadyKeeps
<1>4. ASSUME Restart
      PROVE  SettledInv'
  BY <1>4 DEF Restart, SettledInv, Surviving, Faults, history
<1> QED
  BY <1>2, <1>3, <1>4 DEF Next

LEMMA InitSettled == Init => SettledInv
BY TradingAssumption DEF Init, SettledInv, Owed, NoProgress

LEMMA SettledAlways == Spec => []SettledInv
BY InitSettled, NextSettled, Shapely, PTL DEF Spec

(* Once the mutex is free, an order is filled by exactly what was paid,    *)
(* however settling failed, and no order is paid for beyond its amount,    *)
(* short of a restart.                                                     *)
THEOREM FilledAsSettled == Spec => []FilledIsSettled
<1>1. TypeOK /\ Shape /\ SettledInv => FilledIsSettled
  <2> SUFFICES ASSUME TypeOK, Shape, SettledInv, Surviving
               PROVE  /\ mutex = None => \A o \in Order : mem[o].filled = settled[o]
                      /\ \A o \in Order : settled[o] <= terms[o].amount
    BY DEF FilledIsSettled, NeverOverfilled
  <2>1. FundsTypes /\ OrderTypes /\ JobTypes
    BY TypeParts
  <2>2. \A o \in Order : /\ settled[o] \in Nat /\ mem[o].filled \in Int /\ terms[o].amount \in Nat
                         /\ mem[o].filled <= terms[o].amount
    BY <2>1 DEF FundsTypes, OrderTypes, Progress, Terms, Shape, RowsWithin
  <2>3. \A o \in Order : Owed(o) \in Nat /\ (mutex = None => Owed(o) = 0)
    BY <2>1, MutexHolder, ShareFromNat DEF Owed
  <2> QED
    BY <2>2, <2>3 DEF SettledInv
<1> QED
  BY <1>1, Shapely, SettledAlways, PTL

-----------------------------------------------------------------------------
(* No bid reaches an ask                                                   *)

(* The order does not reach the other, of the other side. *)
Clear(o, r) == IF terms[o].side = "BUY" THEN terms[o].price < terms[r].price
                                        ELSE terms[r].price < terms[o].price
Sides == \A b \in Range(book["BUY"]), a \in Range(book["SELL"]) : terms[b].price < terms[a].price

(* While a goroutine may still rest or roll back: the resting orders it    *)
(* traded with do not reach its own side, and what is left of its own      *)
(* LIMIT order does not reach the other side.                              *)
Working == Inside \ {"publish"}
Standing(k) ==
    /\ \A i \in 1 .. Len(k.trades) : \A r \in Parties(k.trades[i]) \ {k.order} :
          \A s \in Range(book[terms[k.order].side]) : Clear(r, s)
    /\ terms[k.order].type = "LIMIT" /\ Remaining(terms, mem, k.order) > 0 =>
          \A r \in Range(book[Opposite(terms[k.order].side)]) : Clear(k.order, r)
StandingAll == \A p \in Proc : job[p].pc \in Working => Standing(job[p])
UncrossedInv == Surviving => Sides /\ StandingAll

(* The book only shrinks, and no goroutine is given new trades with        *)
(* resting orders.                                                         *)
Shrinks ==
    /\ OrdersStay /\ UNCHANGED here
    /\ \A side \in Side : Range(book'[side]) \subseteq Range(book[side])
    /\ \A p \in Proc : job'[p].pc \in Working =>
          /\ job[p].pc \in Working /\ job'[p].order = job[p].order
          /\ mem'[job[p].order].filled = mem[job[p].order].filled
          /\ \A i \in 1 .. Len(job'[p].trades) :
                \/ Parties(job'[p].trades[i]) \subseteq {job[p].order}
                \/ i \in 1 .. Len(job[p].trades) /\ job'[p].trades[i] = job[p].trades[i]

LEMMA StandingFacts ==
    ASSUME OrderTypes, JobTypes, Shape, NEW p \in Proc, job[p].pc \in Working
    PROVE  /\ job[p].order \in Created
           /\ \A i \in 1 .. Len(job[p].trades) : Parties(job[p].trades[i]) \subseteq Created
<1>1. job[p].pc \in Inside
  BY DEF Working
<1>2. Settling(job[p]) /\ job[p].order \in Created
  BY <1>1, InsideFacts
<1>3. \A i \in 1 .. Len(job[p].trades) :
         Meeting(job[p].order, job[p].trades[i]) \/ Filling(job[p].order, job[p].trades[i])
  BY <1>2 DEF Settling
<1>4. \A i \in 1 .. Len(job[p].trades) : Parties(job[p].trades[i]) \subseteq Created
  <2>1. \A t : Meeting(job[p].order, t) => Parties(t) \subseteq Created
    BY <1>2, MeetingFacts
  <2>2. \A t : Filling(job[p].order, t) => Parties(t) \subseteq Created
    BY <1>2, FillingFacts
  <2> QED
    BY <1>3, <2>1, <2>2
<1> QED
  BY <1>2, <1>4

LEMMA ShrinksKeeps ==
    ASSUME OrderTypes, JobTypes, Shape, UncrossedInv, Shrinks
    PROVE  UncrossedInv'
<1> SUFFICES ASSUME Surviving'
             PROVE  Sides' /\ StandingAll'
  BY DEF UncrossedInv
<1>1. Sides /\ StandingAll
  BY DEF UncrossedInv, Surviving, Faults, Shrinks
<1>2. \A side \in Side : /\ Range(book'[side]) \subseteq Range(book[side])
                         /\ \A r \in Range(book[side]) : r \in Created
  BY DEF Shrinks, Shape, BookSound
<1>3. \A x \in Created : terms'[x] = terms[x]
  BY DEF Shrinks, OrdersStay
<1>4. Sides'
  <2>1. "BUY" \in Side /\ "SELL" \in Side
    BY DEF Side
  <2> QED
    BY <1>1, <1>2, <1>3, <2>1 DEF Sides
<1>5. ASSUME NEW p \in Proc, job'[p].pc \in Working
      PROVE  Standing(job[p])'
  <2> PICK o, trades : o = job[p].order /\ trades = job[p].trades
    OBVIOUS
  <2>1. /\ job[p].pc \in Working /\ job'[p].order = o
        /\ mem'[o].filled = mem[o].filled
        /\ \A i \in 1 .. Len(job'[p].trades) :
              \/ Parties(job'[p].trades[i]) \subseteq {o}
              \/ i \in 1 .. Len(trades) /\ job'[p].trades[i] = trades[i]
    BY <1>5 DEF Shrinks
  <2>2. Standing(job[p])
    BY <1>1, <2>1 DEF StandingAll
  <2>3. o \in Created /\ \A i \in 1 .. Len(trades) : Parties(trades[i]) \subseteq Created
    BY <2>1, StandingFacts
  <2>4. /\ terms'[o] = terms[o] /\ o \in Order
        /\ terms[o].side \in Side /\ Opposite(terms[o].side) \in Side
    BY <1>3, <2>3, SituationFields DEF OrderTypes, Terms, Opposite, Side
  <2>5. \A x \in Created, y \in Created : Clear(x, y) => Clear(x, y)'
    BY <1>3 DEF Clear
  <2>6. \A i \in 1 .. Len(job'[p].trades) : \A r \in Parties(job'[p].trades[i]) \ {o} :
           \A s \in Range(book'[terms'[o].side]) : Clear(r, s)'
    <3> SUFFICES ASSUME NEW i \in 1 .. Len(job'[p].trades), NEW r \in Parties(job'[p].trades[i]) \ {o},
                        NEW s \in Range(book'[terms'[o].side])
                 PROVE  Clear(r, s)'
      OBVIOUS
    <3>1. i \in 1 .. Len(trades) /\ r \in Parties(trades[i]) \ {o}
      BY <2>1
    <3>2. s \in Range(book[terms[o].side]) /\ s \in Created
      BY <1>2, <2>4
    <3>3. Clear(r, s)
      BY <2>2, <3>1, <3>2 DEF Standing
    <3> QED
      BY <2>3, <2>5, <3>1, <3>2, <3>3
  <2>7. terms'[o].type = "LIMIT" /\ Remaining(terms', mem', o) > 0 =>
           \A r \in Range(book'[Opposite(terms'[o].side)]) : Clear(o, r)'
    <3> SUFFICES ASSUME terms'[o].type = "LIMIT", Remaining(terms', mem', o) > 0,
                        NEW r \in Range(book'[Opposite(terms'[o].side)])
                 PROVE  Clear(o, r)'
      OBVIOUS
    <3>1. r \in Range(book[Opposite(terms[o].side)]) /\ r \in Created
      BY <1>2, <2>4
    <3>2. terms[o].type = "LIMIT" /\ Remaining(terms, mem, o) > 0
      BY <2>1, <2>4 DEF Remaining
    <3>3. Clear(o, r)
      BY <2>2, <3>1, <3>2 DEF Standing
    <3> QED
      BY <2>3, <2>5, <3>1, <3>3
  <2> QED
    BY <2>1, <2>6, <2>7 DEF Standing
<1> QED
  BY <1>4, <1>5 DEF StandingAll

(* Orders that do not reach the other side join one side of the book. *)
LEMMA JoinsClear ==
    ASSUME Sides, terms' = terms, NEW side \in Side,
           \A s \in Side : \A r \in Range(book'[s]) :
              \/ r \in Range(book[s])
              \/ /\ s = side /\ terms[r].side = side
                 /\ \A x \in Range(book[Opposite(side)]) : Clear(r, x)
    PROVE  Sides'
<1> SUFFICES ASSUME NEW b \in Range(book'["BUY"]), NEW a \in Range(book'["SELL"])
             PROVE  terms[b].price < terms[a].price
  BY DEF Sides
<1>1. "BUY" \in Side /\ "SELL" \in Side /\ Opposite("BUY") = "SELL" /\ Opposite("SELL") = "BUY"
  BY DEF Side, Opposite
<1>2. CASE b \in Range(book["BUY"]) /\ a \in Range(book["SELL"])
  BY <1>2 DEF Sides
<1>3. CASE b \notin Range(book["BUY"])
  <2>1. side = "BUY" /\ terms[b].side = "BUY" /\ \A x \in Range(book["SELL"]) : Clear(b, x)
    BY <1>1, <1>3
  <2>2. a \in Range(book["SELL"])
    BY <1>1, <2>1
  <2> QED
    BY <2>1, <2>2 DEF Clear
<1>4. CASE a \notin Range(book["SELL"])
  <2>1. side = "SELL" /\ terms[a].side = "SELL" /\ \A x \in Range(book["BUY"]) : Clear(a, x)
    BY <1>1, <1>4
  <2>2. b \in Range(book["BUY"])
    BY <1>1, <2>1
  <2> QED
    BY <2>1, <2>2 DEF Clear
<1> QED
  BY <1>2, <1>3, <1>4

LEMMA MeetingParty ==
    ASSUME OrderTypes, NEW o \in Created, NEW t, Meeting(o, t), NEW r \in Parties(t) \ {o}
    PROVE  r \in Created /\ terms[r].side = Opposite(terms[o].side)
<1>1. PICK x \in Created : terms[x].side = Opposite(terms[o].side) /\ t = TradeOf(terms, o, x, t.amt)
  BY DEF Meeting
<1>2. o \in Order /\ x \in Order
  BY SituationFields
<1>3. Parties(t) = {o, x}
  BY <1>1, <1>2, PartiesOfTrade
<1> QED
  BY <1>1, <1>3

(* The only goroutine inside the mutex. *)
LEMMA OnlyOne ==
    ASSUME OrderTypes, Shape, NEW p \in Proc, mutex \in {p, None}, NEW k,
           job'[p] = k /\ \A q \in Proc \ {p} : job'[q] = job[q],
           k.pc \in Working => Standing(k)'
    PROVE  StandingAll'
<1>1. \A q \in Proc \ {p} : job[q].pc \notin Inside
  BY TradingAssumption DEF Shape, OneInside
<1>2. \A q \in Proc \ {p} : job'[q].pc \notin Working
  BY <1>1 DEF Working
<1> QED
  BY <1>2 DEF StandingAll

LEMMA MatchUncrossed ==
    ASSUME TypeOK, Shape, UncrossedInv, NEW p \in Proc, MatchOrder(p)
    PROVE  UncrossedInv'
<1>1. FundsTypes /\ OrderTypes /\ JobTypes
  BY TypeParts
<1>2. job[p].pc = "match" /\ mutex = None
  BY DEF MatchOrder
<1> PICK o, m, opp, R, trades :
      /\ o = job[p].order /\ m = Match(terms, mem, book, o) /\ trades = m.trades
      /\ opp = Opposite(terms[o].side) /\ R = Range(book[opp])
  OBVIOUS
<1>3. /\ job[p] \in Job /\ o \in Created /\ o \in Order
      /\ \A r \in R : r \in Order /\ terms[r].side = opp
      /\ opp \in Side /\ m \in Acc /\ Matched(terms, mem, o, R, m)
  BY <1>1, <1>2, MatchFacts
<1>4. /\ mem' = m.mem /\ book' = [book EXCEPT ![opp] = m.rest]
      /\ UNCHANGED <<terms, here>>
  BY DEF MatchOrder, history
<1>5. PICK k : job' = [job EXCEPT ![p] = k] /\ k.trades = trades /\ k.order = o
  <2>1. PICK l : l = [job[p] EXCEPT !.pc = IF m.trades = <<>> THEN "price" ELSE "leg",
                                    !.trades = m.trades, !.at = 1, !.leg = 1,
                                    !.out = UpdatesOf(m.trades, m.mem)]
    OBVIOUS
  <2>2. job' = [job EXCEPT ![p] = l]
    BY <1>1, <2>1 DEF MatchOrder, JobTypes
  <2>3. l.trades = trades /\ l.order = o
    BY <1>3, <2>1 DEF Job
  <2> QED
    BY <2>2, <2>3
<1>6. job'[p] = k /\ \A q \in Proc \ {p} : job'[q] = job[q]
  BY <1>1, <1>5 DEF JobTypes
<1>7. Range(m.rest) \subseteq R
  BY <1>3 DEF Matched
<1> PICK side : side = terms[o].side
  OBVIOUS
<1>8. side \in Side /\ side # opp /\ opp = Opposite(side)
  BY <1>1, <1>3 DEF OrderTypes, Terms, Side, Opposite
<1>9. book'[side] = book[side] /\ book'[opp] = m.rest
  BY <1>1, <1>3, <1>4, <1>8 DEF OrderTypes, BookType
<1> SUFFICES ASSUME Surviving'
             PROVE  Sides' /\ StandingAll'
  BY DEF UncrossedInv
<1>10. Sides
  BY <1>4 DEF UncrossedInv, Surviving, Faults
<1>11. Sides'
  <2>1. \A s \in Side : Range(book'[s]) \subseteq Range(book[s])
    <3>1. \A s \in Side : s = side \/ s = opp
      BY <1>3, <1>8 DEF Side
    <3> QED
      BY <1>7, <1>9, <3>1
  <2>2. "BUY" \in Side /\ "SELL" \in Side
    BY DEF Side
  <2> QED
    BY <1>4, <1>10, <2>1, <2>2 DEF Sides
<1>12. \A i \in 1 .. Len(trades) : \A r \in Parties(trades[i]) \ {o} :
          \A s \in Range(book[side]) : Clear(r, s)
  <2> SUFFICES ASSUME NEW i \in 1 .. Len(trades), NEW r \in Parties(trades[i]) \ {o},
                      NEW s \in Range(book[side])
               PROVE  Clear(r, s)
    BY Zenon
  <2>1. PICK x \in R : trades[i] = TradeOf(terms, o, x, trades[i].amt)
    BY <1>3 DEF Matched
  <2>2. r = x
    BY <1>3, <2>1, PartiesOfTrade
  <2>3. r \in Range(book[opp]) /\ terms[r].side = opp
    BY <1>3, <2>2
  <2>4. CASE side = "BUY"
    BY <1>8, <1>10, <2>3, <2>4 DEF Opposite, Sides, Clear
  <2>5. CASE side = "SELL"
    BY <1>8, <1>10, <2>3, <2>5 DEF Opposite, Sides, Clear
  <2> QED
    BY <1>8, <2>4, <2>5 DEF Side
<1>13. terms[o].type = "LIMIT" /\ Remaining(terms, m.mem, o) > 0 =>
          \A r \in Range(m.rest) : Clear(o, r)
  <2> SUFFICES ASSUME terms[o].type = "LIMIT", Remaining(terms, m.mem, o) > 0,
                      NEW r \in Range(m.rest)
               PROVE  Clear(o, r)
    BY Zenon
  <2>1. ~Crosses(terms, o, r) /\ r \in Order
    BY <1>3, <1>7 DEF Matched
  <2>2. terms[o].price \in Nat /\ terms[r].price \in Nat
    BY Zenon, <1>1, <1>3, <2>1 DEF OrderTypes, Terms
  <2> QED
    BY <1>8, <2>1, <2>2 DEF Crosses, AtLeastAsGood, Clear, Side
<1>14. Standing(k)'
  BY <1>4, <1>5, <1>8, <1>9, <1>12, <1>13 DEF Standing, Clear
<1>15. StandingAll'
  BY <1>1, <1>2, <1>6, <1>14, OnlyOne
<1> QED
  BY <1>11, <1>15

LEMMA RestUncrossed ==
    ASSUME TypeOK, Shape, UncrossedInv, NEW p \in Proc, RestOrder(p)
    PROVE  UncrossedInv'
<1>1. FundsTypes /\ OrderTypes /\ JobTypes
  BY TypeParts
<1>2. job[p].pc = "add" /\ job[p].pc \in Inside /\ job[p].pc \in Working
  BY DEF RestOrder, Inside, Working
<1> PICK o, side : o = job[p].order /\ side = terms[o].side
  OBVIOUS
<1>3. job[p] \in Job /\ o \in Created /\ o \in Order /\ mutex = p
  BY <1>1, <1>2, InsideFacts
<1>4. terms' = terms /\ here' = here
  BY DEF RestOrder, orders, history
<1> SUFFICES ASSUME Surviving'
             PROVE  Sides' /\ StandingAll'
  BY DEF UncrossedInv
<1>5. Sides /\ Standing(job[p])
  BY <1>2, <1>4 DEF UncrossedInv, Surviving, Faults, StandingAll
<1>6. side \in Side /\ terms[o].amount \in Nat /\ mem[o].filled \in Int
  BY <1>1, <1>3 DEF OrderTypes, Terms, Progress
<1>7. Sides'
  <2>1. CASE IsFilled(terms, mem, o) \/ terms[o].type # "LIMIT"
    <3>1. book' = book
      BY <2>1 DEF RestOrder
    <3> QED
      BY <1>4, <1>5, <3>1 DEF Sides
  <2>2. CASE ~(IsFilled(terms, mem, o) \/ terms[o].type # "LIMIT")
    <3>1. book' = AddOrder(terms, book, o)
      BY <2>2 DEF RestOrder
    <3>2. \A s \in Side : \A r \in Range(book'[s]) : r \in Range(book[s]) \/ (r = o /\ s = side)
      <4> PICK b, tm : b = book /\ tm = terms
        OBVIOUS
      <4>1. tm \in [Order -> Terms] /\ b \in BookType /\ o \in Order
        BY <1>1, <1>3 DEF OrderTypes
      <4>2. Joins(tm, b, o, AddOrder(tm, b, o))
        BY <4>1, AddJoins
      <4> QED
        BY <3>1, <4>2 DEF Joins
    <3>3. terms[o].type = "LIMIT" /\ Remaining(terms, mem, o) > 0
      BY <1>6, <2>2 DEF IsFilled, Remaining
    <3>4. \A r \in Range(book[Opposite(side)]) : Clear(o, r)
      BY <1>5, <3>3 DEF Standing
    <3> QED
      BY <1>4, <1>5, <1>6, <3>2, <3>4, JoinsClear
  <2> QED
    BY <2>1, <2>2
<1>8. PICK k : job' = [job EXCEPT ![p] = k] /\ k.pc = "publish"
  <2>1. PICK l : l = [job[p] EXCEPT !.pc = "publish"]
    OBVIOUS
  <2>2. job' = [job EXCEPT ![p] = l]
    BY <1>1, <2>1 DEF RestOrder, Goto, JobTypes
  <2>3. l.pc = "publish"
    BY <1>3, <2>1 DEF Job
  <2> QED
    BY <2>2, <2>3
<1>9. job'[p] = k /\ (\A q \in Proc \ {p} : job'[q] = job[q]) /\ k.pc \notin Working
  BY <1>1, <1>8 DEF JobTypes, Working
<1>10. StandingAll'
  BY <1>1, <1>3, <1>9, OnlyOne
<1> QED
  BY <1>7, <1>10

LEMMA RollbackUncrossed ==
    ASSUME TypeOK, Shape, UncrossedInv, NEW p \in Proc, RollbackTrades(p)
    PROVE  UncrossedInv'
<1>1. FundsTypes /\ OrderTypes /\ JobTypes
  BY TypeParts
<1>2. job[p].pc = "rollback" /\ job[p].pc \in Inside /\ job[p].pc \in Working
  BY DEF RollbackTrades, Inside, Working
<1> PICK o, trades, n, at :
       o = job[p].order /\ trades = job[p].trades /\ n = Len(trades) /\ at = job[p].at
  OBVIOUS
<1>3. /\ o \in Created /\ o \in Order /\ mutex = p
      /\ \A s \in Side : \A r \in Range(book'[s]) :
            \/ r \in Range(book[s])
            \/ /\ terms[r].side = s
               /\ \E i \in 1 .. n : Meeting(o, trades[i]) /\ r \in Parties(trades[i]) \ {o}
  <2>1. o \in Created /\ o \in Order /\ mutex = p /\ Returned(job[p])
    BY <1>1, RollbackFacts
  <2> QED
    BY <2>1 DEF Returned
<1>4. terms' = terms /\ here' = here
  BY DEF RollbackTrades, history
<1> SUFFICES ASSUME Surviving'
             PROVE  Sides' /\ StandingAll'
  BY DEF UncrossedInv
<1>5. Sides /\ Standing(job[p])
  BY <1>2, <1>4 DEF UncrossedInv, Surviving, Faults, StandingAll
<1> PICK opp : opp = Opposite(terms[o].side)
  OBVIOUS
<1>6. opp \in Side /\ Opposite(opp) = terms[o].side
  BY <1>1, <1>3 DEF OrderTypes, Terms, Opposite, Side
<1>7. Sides'
  <2>1. \A s \in Side : \A r \in Range(book'[s]) :
            \/ r \in Range(book[s])
            \/ /\ s = opp /\ terms[r].side = opp
               /\ \A x \in Range(book[Opposite(opp)]) : Clear(r, x)
    <3> SUFFICES ASSUME NEW s \in Side, NEW r \in Range(book'[s]), r \notin Range(book[s])
                 PROVE  /\ s = opp /\ terms[r].side = opp
                        /\ \A x \in Range(book[Opposite(opp)]) : Clear(r, x)
      OBVIOUS
    <3>1. PICK i \in 1 .. n : Meeting(o, trades[i]) /\ r \in Parties(trades[i]) \ {o}
      BY <1>3
    <3>2. terms[r].side = opp /\ terms[r].side = s
      BY <1>1, <1>3, <3>1, MeetingParty
    <3>3. \A x \in Range(book[terms[o].side]) : Clear(r, x)
      BY <1>5, <3>1 DEF Standing
    <3> QED
      BY <1>6, <3>2, <3>3
  <2> QED
    BY <1>4, <1>5, <1>6, <2>1, JoinsClear
<1>8. PICK k : job' = [job EXCEPT ![p] = k] /\ k.pc = "failed"
  <2>1. [Idle EXCEPT !.pc = "failed", !.order = o].pc = "failed"
    BY DEF Idle
  <2> QED
    BY <2>1 DEF RollbackTrades
<1>9. job'[p] = k /\ (\A q \in Proc \ {p} : job'[q] = job[q]) /\ k.pc \notin Working
  BY <1>1, <1>8 DEF JobTypes, Working, Inside
<1>10. StandingAll'
  BY <1>1, <1>3, <1>9, OnlyOne
<1> QED
  BY <1>7, <1>10

LEMMA ShrinksMove ==
    ASSUME OrderTypes, JobTypes, Shape, NEW p \in Proc, NEW k,
           job'[p] = k, \A q \in Proc \ {p} : job'[q] = job[q],
           k.pc \in Working => /\ job[p].pc \in Working /\ k.order = job[p].order
                               /\ k.trades = job[p].trades,
           OrdersStay, UNCHANGED here,
           \A x \in Order : mem'[x].filled = mem[x].filled,
           \A side \in Side : Range(book'[side]) \subseteq Range(book[side])
    PROVE  Shrinks
<1>1. \A q \in Proc : job'[q].pc \in Working =>
         /\ job[q].pc \in Working /\ job'[q].order = job[q].order /\ job'[q].trades = job[q].trades
  OBVIOUS
<1>2. \A q \in Proc : job[q].pc \in Working => job[q].order \in Order
  BY StandingFacts, SituationFields
<1> QED
  BY <1>1, <1>2 DEF Shrinks

LEMMA TermsStay ==
    ASSUME OrderTypes, UNCHANGED <<terms, lastId>>
    PROVE  OrdersStay
BY SituationFields DEF OrdersStay

LEMMA CreateStays ==
    ASSUME OrderTypes, NEW p \in Proc, CreateOrder(p)
    PROVE  OrdersStay
<1>1. \/ terms' = terms /\ lastId' = lastId
      \/ \E t : lastId' = lastId + 1 /\ terms' = [terms EXCEPT ![lastId + 1] = t]
  BY DEF CreateOrder, orders
<1>2. lastId \in Nat /\ terms \in [Order -> Terms] /\ Created \subseteq Order
  BY SituationFields DEF OrderTypes
<1>3. \A x \in Created : x # lastId + 1
  BY <1>2 DEF Created
<1> QED
  BY <1>1, <1>2, <1>3 DEF OrdersStay

(* The other steps: the book does not grow, and what trades does not       *)
(* change.                                                                 *)
LEMMA OutsideUncrossed ==
    ASSUME TypeOK, Shape, UncrossedInv, NEW p \in Proc,
           \/ Arrive(p) \/ CreateOrder(p) \/ PublishUpdates(p) \/ SyncRead(p) \/ SyncWrite(p)
           \/ FailOrder(p) \/ CancelUnlock(p) \/ CancelSave(p) \/ CancelRemove(p) \/ CancelAnnounce(p)
    PROVE  UncrossedInv'
<1>1. FundsTypes /\ OrderTypes /\ JobTypes
  BY TypeParts
<1>2. OrdersStay
  <2>1. CASE CreateOrder(p)
    BY <1>1, <2>1, CreateStays
  <2>2. CASE ~CreateOrder(p)
    <3>1. UNCHANGED <<terms, lastId>>
      <4>1. CASE PublishUpdates(p)
        BY <4>1 DEF PublishUpdates, orders
      <4>2. CASE ~PublishUpdates(p)
        <5>1. job[p].pc # "create"
          <6>1. CASE Arrive(p)
            BY <6>1, ArriveFrame
          <6>2. CASE ~Arrive(p)
            BY <2>2, <4>2, <6>2 DEF SyncRead, SyncWrite, FailOrder, CancelUnlock, CancelSave,
                                    CancelRemove, CancelAnnounce
          <6> QED
            BY <6>1, <6>2
        <5> QED
          BY <1>1, <4>2, <5>1, OutsideFrame
      <4> QED
        BY <4>1, <4>2
    <3> QED
      BY <1>1, <3>1, TermsStay
  <2> QED
    BY <2>1, <2>2
<1>3. here' = here
  <2>1. CASE PublishUpdates(p)
    BY <2>1 DEF PublishUpdates
  <2>2. CASE ~PublishUpdates(p)
    BY <1>1, <2>2, OutsideFrame DEF Unmoved
  <2> QED
    BY <2>1, <2>2
<1>4. \A side \in Side : Range(book'[side]) \subseteq Range(book[side])
  <2>1. CASE job[p].pc = "remove"
    <3>1. CancelRemove(p)
      <4>1. ~Arrive(p)
        BY <2>1, ArriveFrame
      <4> QED
        BY <2>1, <4>1 DEF CreateOrder, PublishUpdates, SyncRead, SyncWrite, FailOrder, CancelUnlock,
                          CancelSave, CancelAnnounce
    <3>2. job[p].pc \in Apart /\ job[p].pc # "idle"
      BY <2>1 DEF Apart
    <3> PICK o : o = job[p].order
      OBVIOUS
    <3>3. o \in Order /\ book' = RemoveOrder(terms, book, o)
      BY <1>1, <3>1, <3>2, ApartFacts DEF CancelRemove
    <3>4. terms \in [Order -> Terms] /\ book \in BookType
      BY <1>1 DEF OrderTypes
    <3>5. \A side \in Side : Range(RemoveOrder(terms, book, o)[side]) \subseteq Range(book[side])
      BY <3>3, <3>4, RemoveKeeps
    <3> QED
      BY <3>3, <3>5
  <2>2. CASE job[p].pc # "remove"
    <3>1. book' = book
      <4>1. CASE PublishUpdates(p)
        BY <4>1 DEF PublishUpdates
      <4>2. CASE ~PublishUpdates(p)
        BY <1>1, <2>2, <4>2, OutsideFrame
      <4> QED
        BY <4>1, <4>2
    <3> QED
      BY <3>1
  <2> QED
    BY <2>1, <2>2
<1>5. \A x \in Order : mem'[x].filled = mem[x].filled
  <2>1. mem \in [Order -> Progress]
    BY <1>1 DEF OrderTypes
  <2>2. CASE CreateOrder(p) \/ FailOrder(p) \/ PublishUpdates(p)
    <3>1. \/ mem' = mem
          \/ \E y : mem' = [mem EXCEPT ![y].status = "OPEN"] \/ mem' = [mem EXCEPT ![y].status = "CANCELLED"]
      BY <2>2, Zenon DEF CreateOrder, FailOrder, PublishUpdates, orders
    <3> QED
      BY <2>1, <3>1 DEF Progress
  <2>3. CASE ~(CreateOrder(p) \/ FailOrder(p) \/ PublishUpdates(p))
    <3>1. job[p].pc \notin {"create", "failed"}
      <4>1. CASE Arrive(p)
        BY <4>1, ArriveFrame
      <4>2. CASE ~Arrive(p)
        BY <2>3, <4>2 DEF SyncRead, SyncWrite, CancelUnlock, CancelSave, CancelRemove, CancelAnnounce
      <4> QED
        BY <4>1, <4>2
    <3> QED
      BY <1>1, <2>3, <3>1, OutsideFrame
  <2> QED
    BY <2>2, <2>3
<1>6. job'[p].pc \notin Working /\ \A q \in Proc \ {p} : job'[q] = job[q]
  <2>1. job \in [Proc -> Job]
    BY <1>1 DEF JobTypes
  <2>2. CASE Arrive(p)
    <3>1. CASE \E t \in Request : PlaceOrder(p, t)
      <4>1. PICK t \in Request : PlaceOrder(p, t)
        BY <3>1
      <4>2. job' = [job EXCEPT ![p] = [Idle EXCEPT !.pc = "create", !.what = t]]
        BY <4>1 DEF PlaceOrder
      <4>3. [Idle EXCEPT !.pc = "create", !.what = t].pc = "create"
        BY DEF Idle
      <4> QED
        BY <2>1, <4>2, <4>3 DEF Working, Inside
    <3>2. CASE \E o \in Order, by \in {"user", "admin"} : CancelOrder(p, o, by)
      <4>1. PICK o \in Order, by \in {"user", "admin"} : CancelOrder(p, o, by)
        BY <3>2
      <4>2. job' = [job EXCEPT ![p] = [Idle EXCEPT !.pc = "unlock", !.order = o, !.by = by, !.seen = row[o]]]
        BY <4>1 DEF CancelOrder
      <4>3. [Idle EXCEPT !.pc = "unlock", !.order = o, !.by = by, !.seen = row[o]].pc = "unlock"
        BY DEF Idle
      <4> QED
        BY <2>1, <4>2, <4>3 DEF Working, Inside
    <3> QED
      BY <2>2, <3>1, <3>2 DEF Arrive, CancelUserOrder
  <2>3. CASE CreateOrder(p)
    <3>1. PICK o : job' = [job EXCEPT ![p] = [Idle EXCEPT !.pc = "match", !.order = o]] \/ job' = [job EXCEPT ![p] = Idle]
      BY <2>3 DEF CreateOrder, Finish
    <3>2. [Idle EXCEPT !.pc = "match", !.order = o].pc = "match" /\ Idle.pc = "idle"
      BY DEF Idle
    <3> QED
      BY <2>1, <3>1, <3>2 DEF Working, Inside
  <2>4. CASE PublishUpdates(p)
    <3>1. PICK o : job' = [job EXCEPT ![p] = [Idle EXCEPT !.pc = "syncRead", !.order = o]]
      BY <2>4 DEF PublishUpdates
    <3>2. [Idle EXCEPT !.pc = "syncRead", !.order = o].pc = "syncRead"
      BY DEF Idle
    <3> QED
      BY <2>1, <3>1, <3>2 DEF Working, Inside
  <2>5. CASE SyncWrite(p) \/ FailOrder(p) \/ CancelAnnounce(p)
    <3>1. job' = [job EXCEPT ![p] = Idle]
      BY <2>5 DEF SyncWrite, FailOrder, CancelAnnounce, Finish
    <3> QED
      BY <2>1, <3>1, IdleType DEF Working, Inside
  <2>6. CASE SyncRead(p)
    <3>1. job' = [job EXCEPT ![p] = [job[p] EXCEPT !.pc = "syncWrite", !.seen = mem[job[p].order]]]
      BY <2>1, <2>6 DEF SyncRead
    <3>2. [job[p] EXCEPT !.pc = "syncWrite", !.seen = mem[job[p].order]].pc = "syncWrite"
      BY <2>1 DEF Job
    <3> QED
      BY <2>1, <3>1, <3>2 DEF Working, Inside
  <2>7. CASE CancelUnlock(p) \/ CancelSave(p) \/ CancelRemove(p)
    <3>1. \/ \E l \in {"save", "remove", "announce"} : job' = [job EXCEPT ![p].pc = l]
          \/ job' = [job EXCEPT ![p] = Idle]
      BY <2>7 DEF CancelUnlock, CancelSave, CancelRemove, Goto, Finish
    <3> QED
      BY <2>1, <3>1, IdleType DEF Working, Inside, Job
  <2> QED
    BY <2>2, <2>3, <2>4, <2>5, <2>6, <2>7
<1>7. Shrinks
  BY <1>1, <1>2, <1>3, <1>4, <1>5, <1>6, ShrinksMove
<1> QED
  BY <1>1, <1>7, ShrinksKeeps

LEMMA InsideUncrossed ==
    ASSUME TypeOK, Shape, UncrossedInv, NEW p \in Proc,
           SettleLeg(p) \/ LegFails(p) \/ UndoLeg(p) \/ NoMarketFill(p)
    PROVE  UncrossedInv'
<1>1. FundsTypes /\ OrderTypes /\ JobTypes
  BY TypeParts
<1>2. UNCHANGED <<terms, lastId, mem, book, here>>
  BY DEF SettleLeg, LegFails, UndoLeg, NoMarketFill, orders, engine, history
<1>3. OrdersStay
  BY <1>1, <1>2, TermsStay
<1>4. job[p].pc \in Working
  BY DEF SettleLeg, LegFails, UndoLeg, NoMarketFill, Working, Inside
<1>5. \E l, n : \/ job' = [job EXCEPT ![p].pc = l]
                \/ job' = [job EXCEPT ![p].leg = n]
                \/ job' = [job EXCEPT ![p].undo = n]
                \/ job' = [job EXCEPT ![p].pc = l, ![p].undo = n]
  BY DEF SettleLeg, LegFails, UndoLeg, NoMarketFill, Goto
<1>6. PICK k : /\ job' = [job EXCEPT ![p] = k]
               /\ k.trades = job[p].trades /\ k.order = job[p].order
  <2>1. job[p] \in Job
    BY <1>1 DEF JobTypes
  <2> QED
    BY <1>1, <1>5, <2>1 DEF JobTypes, Job
<1>7. job'[p] = k /\ \A q \in Proc \ {p} : job'[q] = job[q]
  BY <1>1, <1>6 DEF JobTypes
<1>8. Shrinks
  BY <1>1, <1>2, <1>3, <1>4, <1>6, <1>7, ShrinksMove
<1> QED
  BY <1>1, <1>8, ShrinksKeeps

LEMMA FillAtMarketUncrossed ==
    ASSUME TypeOK, Shape, UncrossedInv, NEW p \in Proc, FillAtMarket(p)
    PROVE  UncrossedInv'
<1>1. FundsTypes /\ OrderTypes /\ JobTypes
  BY TypeParts
<1>2. job[p].pc = "price" /\ job[p].pc \in Inside /\ job[p].pc \in Working
  BY DEF FillAtMarket, Inside, Working
<1> PICK o, trades : o = job[p].order /\ trades = job[p].trades
  OBVIOUS
<1>3. o \in Created /\ o \in Order /\ job[p] \in Job /\ trades \in Seq(Trade)
  BY <1>1, <1>2, InsideFacts
<1>4. UNCHANGED <<terms, lastId, mem, book, here>>
  BY DEF FillAtMarket, orders, engine, history
<1>5. OrdersStay
  BY <1>1, <1>4, TermsStay
<1>6. PICK t : /\ Parties(t) \subseteq {o}
               /\ \E n : job' = [job EXCEPT ![p].pc = "leg", ![p].leg = 1, ![p].at = n,
                                            ![p].trades = Append(@, t)]
  <2>1. \A price, qty :
           Parties([buy  |-> IF terms[o].side = "BUY" THEN o ELSE None,
                    sell |-> IF terms[o].side = "SELL" THEN o ELSE None,
                    price |-> price, amt |-> qty]) \subseteq {o}
    BY DEF Parties
  <2> QED
    BY <2>1 DEF FillAtMarket
<1>7. /\ job'[p].trades = Append(trades, t) /\ job'[p].order = o
      /\ \A q \in Proc \ {p} : job'[q] = job[q]
  BY <1>1, <1>3, <1>6 DEF JobTypes, Job
<1>8. \A i \in 1 .. Len(Append(trades, t)) :
         \/ Parties(Append(trades, t)[i]) \subseteq {o}
         \/ i \in 1 .. Len(trades) /\ Append(trades, t)[i] = trades[i]
  BY <1>3, <1>6
<1>9. Shrinks
  BY <1>2, <1>4, <1>5, <1>7, <1>8 DEF Shrinks
<1> QED
  BY <1>1, <1>9, ShrinksKeeps

LEMMA SettleTailUncrossed ==
    ASSUME TypeOK, Shape, UncrossedInv, NEW p \in Proc, SettleTail(p)
    PROVE  UncrossedInv'
<1>1. FundsTypes /\ OrderTypes /\ JobTypes
  BY TypeParts
<1>2. job[p].pc = "tail" /\ job[p].pc \in Inside /\ job[p].pc \in Working
  BY DEF SettleTail, Inside, Working
<1>3. job[p] \in Job /\ mutex = p
  BY <1>1, <1>2, InsideFacts
<1>4. UNCHANGED <<terms, lastId, book, here>>
  BY DEF SettleTail, engine
<1>5. PICK t : t = CurrentTrade(p)
  OBVIOUS
<1>6. PICK k : k = [job[p] EXCEPT !.pc = IF Synthetic(t) THEN "publish"
                                         ELSE IF job[p].at = Len(job[p].trades) THEN "price" ELSE "leg",
                                  !.at = job[p].at + 1, !.leg = 1]
  OBVIOUS
<1>7. job' = [job EXCEPT ![p] = k]
  BY <1>1, <1>5, <1>6 DEF SettleTail, JobTypes
<1>8. k.trades = job[p].trades /\ k.order = job[p].order /\ (Synthetic(t) => k.pc = "publish")
  BY <1>3, <1>6 DEF Job
<1>9. CASE ~Synthetic(t)
  <2>1. mem' = mem
    BY <1>5, <1>9 DEF SettleTail
  <2>2. OrdersStay
    BY <1>1, <1>4, TermsStay
  <2>3. job'[p] = k /\ \A q \in Proc \ {p} : job'[q] = job[q]
    BY <1>1, <1>7 DEF JobTypes
  <2>4. Shrinks
    BY <1>1, <1>2, <1>4, <1>8, <2>1, <2>2, <2>3, ShrinksMove
  <2> QED
    BY <1>1, <2>4, ShrinksKeeps
<1>10. CASE Synthetic(t)
  <2> SUFFICES ASSUME Surviving'
               PROVE  Sides' /\ StandingAll'
    BY DEF UncrossedInv
  <2>1. Sides
    BY <1>4 DEF UncrossedInv, Surviving, Faults
  <2>2. Sides'
    BY <1>4, <2>1 DEF Sides
  <2>3. job'[p] = k /\ (\A q \in Proc \ {p} : job'[q] = job[q]) /\ k.pc \notin Working
    BY <1>1, <1>7, <1>8, <1>10 DEF JobTypes, Working
  <2>4. StandingAll'
    BY <1>1, <1>3, <2>3, OnlyOne
  <2> QED
    BY <2>2, <2>4
<1> QED
  BY <1>9, <1>10

LEMMA NextUncrossed == TypeOK /\ Shape /\ UncrossedInv /\ [Next]_vars => UncrossedInv'
<1> SUFFICES ASSUME TypeOK, Shape, UncrossedInv, [Next]_vars
             PROVE  UncrossedInv'
  OBVIOUS
<1>1. FundsTypes /\ OrderTypes /\ JobTypes
  BY TypeParts
<1>2. ASSUME NEW p \in Proc, Arrive(p) \/ Serve(p)
      PROVE  UncrossedInv'
  BY <1>2, OutsideUncrossed, InsideUncrossed, MatchUncrossed, SettleTailUncrossed,
     FillAtMarketUncrossed, RestUncrossed, RollbackUncrossed DEF Serve
<1>3. ASSUME ProjectUpdate \/ Others \/ UNCHANGED vars
      PROVE  UncrossedInv'
  <2>1. UNCHANGED <<terms, lastId, mem, book, here, job>>
    BY <1>3 DEF ProjectUpdate, Others, OtherDebit, vars, orders, engine, history
  <2>2. OrdersStay
    BY <1>1, <2>1, TermsStay
  <2>3. Shrinks
    BY <2>1, <2>2 DEF Shrinks
  <2> QED
    BY <1>1, <2>3, ShrinksKeeps
<1>4. ASSUME Restart
      PROVE  UncrossedInv'
  BY <1>4 DEF Restart, UncrossedInv, Surviving, Faults, history
<1> QED
  BY <1>2, <1>3, <1>4 DEF Next

LEMMA InitUncrossed == Init => UncrossedInv
<1> SUFFICES ASSUME Init
             PROVE  Sides /\ StandingAll
  BY DEF UncrossedInv
<1>1. book["BUY"] = <<>> /\ book["SELL"] = <<>>
  BY DEF Init, EmptyBook, Side
<1>2. \A p \in Proc : job[p].pc \notin Working
  BY IdleType DEF Init, Working, Inside
<1>3. Range(<<>>) = {}
  BY DEF Range
<1> QED
  BY <1>1, <1>2, <1>3 DEF Sides, StandingAll

(* Two orders that could trade never both rest: whatever was rested,       *)
(* rolled back, cancelled or failed, also beside other goroutines, short   *)
(* of a restart.                                                           *)
THEOREM NothingLeftToTrade == Spec => []BookUncrossed
<1>1. UncrossedInv => BookUncrossed
  BY DEF UncrossedInv, BookUncrossed, Sides, Bids, Asks, Range
<1>2. Spec => []UncrossedInv
  BY InitUncrossed, NextUncrossed, Shapely, PTL DEF Spec
<1> QED
  BY <1>1, <1>2, PTL

-----------------------------------------------------------------------------
(* Trading neither creates nor destroys money                              *)

(* What the first n legs of the buyer and of the seller move, and what the *)
(* first n legs of a trade move, in a currency.                            *)
Bought(t, taker, n, c) ==
    IF t.buy = None THEN 0
    ELSE IF c = "quote" THEN (IF n >= 1 THEN -(Value(t) + Fee(t, t.buy, taker)) ELSE 0)
    ELSE (IF n >= 2 THEN t.amt ELSE 0)
Sold(t, taker, n, c) ==
    IF t.sell = None THEN 0
    ELSE IF c = "quote" THEN (IF n >= 2 THEN Value(t) - Fee(t, t.sell, taker) ELSE 0)
    ELSE (IF n >= 1 THEN -t.amt ELSE 0)
Flow(t, taker, n, c) ==
    Bought(t, taker, n, c) + Sold(t, taker, IF t.buy = None THEN n ELSE n - 2, c)

MovedBy(l, c) == IF l.cur = c THEN l.delta ELSE 0

LEMMA FlowType ==
    ASSUME NEW t \in Trade, NEW taker, NEW n \in Int, NEW c
    PROVE  Flow(t, taker, n, c) \in Int
<1>1. /\ t.amt \in Int /\ Value(t) \in Int
      /\ Fee(t, t.buy, taker) \in Int /\ Fee(t, t.sell, taker) \in Int
  BY FeeType DEF Trade
<1>2. Bought(t, taker, n, c) \in Int
  BY <1>1 DEF Bought
<1>3. \A m : Sold(t, taker, m, c) \in Int
  BY <1>1 DEF Sold
<1> QED
  BY <1>2, <1>3 DEF Flow

LEMMA FlowStart ==
    ASSUME NEW t, NEW taker, NEW c
    PROVE  Flow(t, taker, 0, c) = 0
BY DEF Flow, Bought, Sold

LEMMA FlowStep ==
    ASSUME terms \in [Order -> Terms], NEW t \in Trade, NEW taker, NEW c \in Currency,
           NEW j \in 1 .. LegCount(t)
    PROVE  Flow(t, taker, j, c) = Flow(t, taker, j - 1, c) + MovedBy(Legs(t, taker)[j], c)
<1> PICK v, fb, fs : v = Value(t) /\ fb = Fee(t, t.buy, taker) /\ fs = Fee(t, t.sell, taker)
  OBVIOUS
<1>1. t.amt \in Int /\ v \in Int /\ fb \in Int /\ fs \in Int
  BY FeeType DEF Trade
<1>2. t.buy \in Order \cup {None} /\ t.sell \in Order \cup {None}
  BY DEF Trade
<1>3. c = "base" \/ c = "quote"
  BY DEF Currency
<1> PICK legs : legs = Legs(t, taker)
  OBVIOUS
<1>4. CASE t.buy # None /\ t.sell # None
  <2>1. j \in 1 .. 4
    BY <1>4 DEF LegCount
  <2>2. /\ legs[1].cur = "quote" /\ legs[1].delta = -(v + fb)
        /\ legs[2].cur = "base"  /\ legs[2].delta = t.amt
        /\ legs[3].cur = "base"  /\ legs[3].delta = -t.amt
        /\ legs[4].cur = "quote" /\ legs[4].delta = v - fs
    <3>1. /\ legs[1] = Leg(t.buy, "quote", -(v + fb)) /\ legs[2] = Leg(t.buy, "base", t.amt)
          /\ legs[3] = Leg(t.sell, "base", -t.amt) /\ legs[4] = Leg(t.sell, "quote", v - fs)
      BY <1>4, LegsType
    <3> QED
      BY <3>1 DEF Leg
  <2>3. \A n \in Int : Flow(t, taker, n, c) =
           (IF c = "quote" THEN (IF n >= 1 THEN -(v + fb) ELSE 0) ELSE (IF n >= 2 THEN t.amt ELSE 0))
         + (IF c = "quote" THEN (IF n - 2 >= 2 THEN v - fs ELSE 0) ELSE (IF n - 2 >= 1 THEN -t.amt ELSE 0))
    BY <1>4 DEF Flow, Bought, Sold
  <2>4. j \in Int /\ j - 1 \in Int
    BY <2>1
  <2>5. /\ j = 1 => MovedBy(legs[j], c) = IF c = "quote" THEN -(v + fb) ELSE 0
        /\ j = 2 => MovedBy(legs[j], c) = IF c = "base" THEN t.amt ELSE 0
        /\ j = 3 => MovedBy(legs[j], c) = IF c = "base" THEN -t.amt ELSE 0
        /\ j = 4 => MovedBy(legs[j], c) = IF c = "quote" THEN v - fs ELSE 0
    BY <2>2 DEF MovedBy
  <2>6. j = 1 \/ j = 2 \/ j = 3 \/ j = 4
    BY <2>1
  <2> QED
    BY <1>1, <1>3, <2>3, <2>4, <2>5, <2>6
<1>5. CASE t.buy # None /\ t.sell = None
  <2>1. j \in 1 .. 2
    BY <1>5 DEF LegCount
  <2>2. /\ legs[1].cur = "quote" /\ legs[1].delta = -(v + fb)
        /\ legs[2].cur = "base"  /\ legs[2].delta = t.amt
    <3>1. legs[1] = Leg(t.buy, "quote", -(v + fb)) /\ legs[2] = Leg(t.buy, "base", t.amt)
      BY <1>5, LegsType
    <3> QED
      BY <3>1 DEF Leg
  <2>3. \A n \in Int : Flow(t, taker, n, c) =
           IF c = "quote" THEN (IF n >= 1 THEN -(v + fb) ELSE 0) ELSE (IF n >= 2 THEN t.amt ELSE 0)
    BY <1>1, <1>5 DEF Flow, Bought, Sold
  <2>4. j \in Int /\ j - 1 \in Int
    BY <2>1
  <2>5. /\ j = 1 => MovedBy(legs[j], c) = IF c = "quote" THEN -(v + fb) ELSE 0
        /\ j = 2 => MovedBy(legs[j], c) = IF c = "base" THEN t.amt ELSE 0
    BY <2>2 DEF MovedBy
  <2>6. j = 1 \/ j = 2
    BY <2>1
  <2> QED
    BY <1>1, <1>3, <2>3, <2>4, <2>5, <2>6
<1>6. CASE t.buy = None /\ t.sell # None
  <2>1. j \in 1 .. 2
    BY <1>6 DEF LegCount
  <2>2. /\ legs[1].cur = "base"  /\ legs[1].delta = -t.amt
        /\ legs[2].cur = "quote" /\ legs[2].delta = v - fs
    <3>1. legs[1] = Leg(t.sell, "base", -t.amt) /\ legs[2] = Leg(t.sell, "quote", v - fs)
      BY <1>6, LegsType
    <3> QED
      BY <3>1 DEF Leg
  <2>3. \A n \in Int : Flow(t, taker, n, c) =
           IF c = "quote" THEN (IF n >= 2 THEN v - fs ELSE 0) ELSE (IF n >= 1 THEN -t.amt ELSE 0)
    BY <1>1, <1>6 DEF Flow, Bought, Sold
  <2>4. j \in Int /\ j - 1 \in Int
    BY <2>1
  <2>5. /\ j = 1 => MovedBy(legs[j], c) = IF c = "base" THEN -t.amt ELSE 0
        /\ j = 2 => MovedBy(legs[j], c) = IF c = "quote" THEN v - fs ELSE 0
    BY <2>2 DEF MovedBy
  <2>6. j = 1 \/ j = 2
    BY <2>1
  <2> QED
    BY <1>1, <1>3, <2>3, <2>4, <2>5, <2>6
<1>7. CASE t.buy = None /\ t.sell = None
  BY <1>7 DEF LegCount
<1> QED
  BY <1>4, <1>5, <1>6, <1>7

(* What a whole trade moves: the fees are missing, and what a synthetic    *)
(* counterparty gives and takes.                                           *)
LEMMA FlowAll ==
    ASSUME NEW t \in Trade, NEW taker, t.buy # None \/ t.sell # None
    PROVE  /\ Flow(t, taker, LegCount(t), "base") =
                 IF ~Synthetic(t) THEN 0 ELSE IF t.buy = None THEN -t.amt ELSE t.amt
           /\ Flow(t, taker, LegCount(t), "quote") + TotalFee(t, taker) =
                 IF ~Synthetic(t) THEN 0 ELSE IF t.buy = None THEN Value(t) ELSE -Value(t)
<1> PICK v, fb, fs : v = Value(t) /\ fb = Fee(t, t.buy, taker) /\ fs = Fee(t, t.sell, taker)
  OBVIOUS
<1>1. t.amt \in Int /\ v \in Int /\ fb \in Int /\ fs \in Int
  BY FeeType DEF Trade
<1>2. CASE t.buy # None /\ t.sell # None
  BY <1>1, <1>2 DEF LegCount, Flow, Bought, Sold, Synthetic, TotalFee
<1>3. CASE t.buy # None /\ t.sell = None
  BY <1>1, <1>3 DEF LegCount, Flow, Bought, Sold, Synthetic, TotalFee
<1>4. CASE t.buy = None /\ t.sell # None
  BY <1>1, <1>4 DEF LegCount, Flow, Bought, Sold, Synthetic, TotalFee
<1> QED
  BY <1>2, <1>3, <1>4

(* What all accounts hold. *)
Held(store, c) == Sum([a \in Account |-> store[a][c]], Account)

LEMMA HeldType ==
    ASSUME NEW store \in [Account -> [Currency -> Int]], NEW c \in Currency
    PROVE  Held(store, c) \in Int /\ IsFiniteSet(Account)
<1>1. IsFiniteSet(Account)
  BY TradingAssumption, FS_AddElement DEF Account
<1> DEFINE f == [a \in Account |-> store[a][c]]
<1>2. \A a \in Account : f[a] \in Int
  OBVIOUS
<1> HIDE DEF f
<1>3. Sum(f, Account) \in Int
  BY <1>1, <1>2, SumType
<1> QED
  BY <1>1, <1>3 DEF Held, f

LEMMA HeldAdd ==
    ASSUME NEW store \in [Account -> [Currency -> Int]], NEW u \in Account, NEW d \in Currency,
           NEW n \in Int, NEW c \in Currency
    PROVE  Held(Add(store, u, d, n), c) = Held(store, c) + (IF c = d THEN n ELSE 0)
<1> DEFINE all == Add(store, u, d, n)
           f == [a \in Account |-> store[a][c]]
           g == [a \in Account |-> all[a][c]]
<1>1. /\ all \in [Account -> [Currency -> Int]] /\ all[u][d] = store[u][d] + n
      /\ \A v \in Account, e \in Currency : v # u \/ e # d => all[v][e] = store[v][e]
  BY AddType
<1> HIDE DEF all
<1>2. \A a \in Account : f[a] \in Int /\ g[a] \in Int
  BY <1>1
<1>3. \A a \in Account \ {u} : g[a] = f[a]
  BY <1>1
<1>4. g[u] = f[u] + (IF c = d THEN n ELSE 0)
  BY <1>1
<1> HIDE DEF f, g
<1>5. Sum(g, Account) = Sum(f, Account) - f[u] + g[u]
  BY <1>2, <1>3, HeldType, SumChange
<1>6. Sum(f, Account) \in Int
  BY <1>2, HeldType, SumType
<1>7. f[u] \in Int /\ g[u] \in Int
  BY <1>2
<1>8. Sum(g, Account) = Sum(f, Account) + (IF c = d THEN n ELSE 0)
  BY <1>4, <1>5, <1>6, <1>7
<1> QED
  BY <1>8 DEF Held, f, g, all

(* What the goroutine inside the mutex has moved and will move back or     *)
(* balance; and the buyer can still give back what it was given.           *)
Outstanding(k, c) ==
    LET t == k.trades[k.at] IN
    IF k.pc = "leg" THEN Flow(t, k.order, k.leg - 1, c)
    ELSE IF k.pc = "tail" THEN Flow(t, k.order, LegCount(t), c)
    ELSE IF k.pc = "undo" THEN Flow(t, k.order, k.leg - 1, c) - Flow(t, k.order, k.undo - 1, c)
    ELSE 0
Backed(k) ==
    LET t == k.trades[k.at] IN
    (k.pc = "leg" /\ k.leg = 3) \/ k.pc = "undo" =>
        k.leg = 3 /\ bal[terms[t.buy].user]["base"] >= t.amt

Due(c) == IF mutex = None THEN 0 ELSE Outstanding(job[mutex], c)
Endowment(c) == Cardinality(User) * here.funds[c]
Balanced == \A c \in Currency : Held(bal, c) + outside[c] = Endowment(c) + Due(c)
MoneyInv == Faultless => Balanced /\ (mutex # None => Backed(job[mutex]))

(* Nothing is outstanding. *)
Flat(k) == k.pc \notin {"leg", "tail", "undo"} \/ (k.pc = "leg" /\ k.leg = 1)

LEMMA FlatZero ==
    ASSUME NEW k, Flat(k)
    PROVE  (\A c : Outstanding(k, c) = 0) /\ Backed(k) /\ Backed(k)'
<1>1. Backed(k) /\ Backed(k)'
  BY DEF Flat, Backed
<1>2. \A c : Outstanding(k, c) = 0
  <2>1. CASE k.pc \notin {"leg", "tail", "undo"}
    BY <2>1 DEF Outstanding
  <2>2. CASE k.pc = "leg" /\ k.leg = 1
    <3>1. k.leg - 1 = 0
      BY <2>2
    <3>2. \A c : Outstanding(k, c) = Flow(k.trades[k.at], k.order, 0, c)
      BY <2>2, <3>1 DEF Outstanding
    <3> QED
      BY <3>2, FlowStart
  <2> QED
    BY <2>1, <2>2 DEF Flat
<1> QED
  BY <1>1, <1>2

LEMMA EndowmentType ==
    ASSUME OrderTypes, NEW c \in Currency
    PROVE  Endowment(c) \in Int
<1>1. Cardinality(User) \in Nat
  BY TradingAssumption, FS_CardinalityType
<1>2. here.funds \in [Currency -> Nat]
  BY SituationAssumption DEF OrderTypes
<1>3. here.funds[c] \in Nat
  BY <1>2
<1> PICK n, m : n = Cardinality(User) /\ m = here.funds[c]
  OBVIOUS
<1>4. n * m \in Int
  BY <1>1, <1>3
<1> QED
  BY <1>4 DEF Endowment

(* No money moves, and nothing is outstanding before and after. *)
LEMMA FlatKeeps ==
    ASSUME OrderTypes, MoneyInv, UNCHANGED <<bal, outside, here>>,
           mutex = None \/ Flat(job[mutex]),
           mutex' = None \/ Flat(job'[mutex'])
    PROVE  MoneyInv'
<1> SUFFICES ASSUME Faultless
             PROVE  Balanced' /\ (mutex' # None => Backed(job[mutex])')
  BY DEF MoneyInv, Faultless
<1>1. \A c \in Currency : Due(c) = 0
  BY FlatZero DEF Due
<1>2. \A c \in Currency : Due(c)' = 0
  <2>1. CASE mutex' = None
    BY <2>1 DEF Due
  <2>2. CASE mutex' # None
    <3> PICK k : k = job'[mutex']
      OBVIOUS
    <3>1. \A c : Outstanding(k, c) = 0
      BY <2>2, FlatZero
    <3>2. \A c : Due(c)' = Outstanding(k, c)
      BY <2>2 DEF Due, Outstanding, Flow, Bought, Sold, Value, Fee, LegCount
    <3> QED
      BY <3>1, <3>2
  <2> QED
    BY <2>1, <2>2
<1>3. mutex' # None => Backed(job[mutex])'
  <2> SUFFICES ASSUME mutex' # None
               PROVE  Backed(job[mutex])'
    OBVIOUS
  <2> PICK k : k = job'[mutex']
    OBVIOUS
  <2>1. Flat(k)
    OBVIOUS
  <2> QED
    BY <2>1 DEF Flat, Backed
<1>4. Balanced
  BY DEF MoneyInv
<1>5. \A c \in Currency : Held(bal, c)' = Held(bal, c) /\ Endowment(c)' = Endowment(c)
  BY DEF Held, Endowment
<1>6. Balanced'
  BY <1>1, <1>2, <1>4, <1>5 DEF Balanced
<1> QED
  BY <1>3, <1>6

(* A trade that comes to its third leg is one with a resting order. *)
LEMMA ThirdLeg ==
    ASSUME OrderTypes, JobTypes, Shape, NEW p \in Proc, job[p].pc \in Paying, job[p].leg >= 3
    PROVE  /\ CurrentTrade(p).buy # None /\ CurrentTrade(p).sell # None
           /\ LegCount(CurrentTrade(p)) = 4 /\ job[p].leg \in {3, 4}
           /\ CurrentTrade(p).buy \in Created /\ CurrentTrade(p).buy \in Order
           /\ terms[CurrentTrade(p).buy].user \in Account
<1>1. /\ CurrentTrade(p) = job[p].trades[job[p].at] /\ job[p].at \in 1 .. Len(job[p].trades)
      /\ job[p].leg \in 1 .. LegCount(CurrentTrade(p))
  BY LegFacts
<1>2. CurrentTrade(p).buy # None /\ CurrentTrade(p).sell # None
      /\ LegCount(CurrentTrade(p)) = 4 /\ job[p].leg \in {3, 4}
  BY <1>1 DEF LegCount
<1>3. job[p].pc \in Working
  BY DEF Paying, Working, Inside
<1>4. Parties(CurrentTrade(p)) \subseteq Created
  BY <1>1, <1>3, StandingFacts
<1>5. CurrentTrade(p).buy \in Created
  BY <1>2, <1>4 DEF Parties
<1>6. CurrentTrade(p).buy \in Order
  BY <1>5, SituationFields
<1>7. terms[CurrentTrade(p).buy].user \in Account
  BY <1>6 DEF OrderTypes, Terms
<1> QED
  BY <1>2, <1>5, <1>6, <1>7

(* No money moves, and the goroutine inside the mutex stays where it is. *)
LEMMA AsideKeeps ==
    ASSUME OrderTypes, JobTypes, Shape, MoneyInv, UNCHANGED <<bal, outside, here, mutex>>, OrdersStay,
           mutex # None => job'[mutex] = job[mutex]
    PROVE  MoneyInv'
<1> SUFFICES ASSUME Faultless
             PROVE  Balanced' /\ (mutex' # None => Backed(job[mutex])')
  BY DEF MoneyInv, Faultless
<1>1. Balanced /\ (mutex # None => Backed(job[mutex]))
  BY DEF MoneyInv
<1>2. \A c \in Currency : Due(c)' = Due(c)
  <2>1. CASE mutex = None
    BY <2>1 DEF Due
  <2>2. CASE mutex # None
    <3> PICK k : k = job[mutex]
      OBVIOUS
    <3>1. job'[mutex'] = k
      BY Zenon, <2>2
    <3>2. \A c : Due(c) = Outstanding(k, c) /\ Due(c)' = Outstanding(k, c)
      BY <2>2, <3>1 DEF Due, Outstanding, Flow, Bought, Sold, Value, Fee, LegCount
    <3> QED
      BY <3>2
  <2> QED
    BY <2>1, <2>2
<1>3. \A c \in Currency : Held(bal, c)' = Held(bal, c) /\ Endowment(c)' = Endowment(c)
  BY DEF Held, Endowment
<1>4. Balanced'
  BY <1>1, <1>2, <1>3 DEF Balanced
<1>5. ASSUME mutex # None
      PROVE  Backed(job[mutex])'
  <2> PICK p, k, t : p = mutex /\ k = job[p] /\ t = k.trades[k.at]
    OBVIOUS
  <2>1. p \in Proc /\ job'[mutex'] = k /\ Backed(k)
    BY Zenon, <1>1, <1>5, MutexHolder
  <2>2. CASE ~((k.pc = "leg" /\ k.leg = 3) \/ k.pc = "undo")
    BY Zenon, <2>1, <2>2 DEF Backed
  <2>3. CASE (k.pc = "leg" /\ k.leg = 3) \/ k.pc = "undo"
    <3>1. k.leg = 3 /\ bal[terms[t.buy].user]["base"] >= t.amt
      BY <2>1, <2>3 DEF Backed
    <3>2. job[p].pc \in Paying /\ job[p].leg >= 3
      BY <2>3, <3>1 DEF Paying
    <3>3. t.buy \in Created
      BY <2>1, <3>2, ThirdLeg DEF CurrentTrade
    <3>4. terms'[t.buy] = terms[t.buy]
      BY <3>3 DEF OrdersStay
    <3> QED
      BY Zenon, <2>1, <3>1, <3>4 DEF Backed
  <2> QED
    BY <2>2, <2>3
<1> QED
  BY <1>4, <1>5

LEMMA MoneyBy ==
    ASSUME NEW p, p # None, mutex' = p, NEW k, job'[p] = k, UNCHANGED here,
           Faultless => /\ \A c \in Currency : Held(bal', c) + outside'[c] = Endowment(c) + Outstanding(k, c)
                        /\ Backed(k)'
    PROVE  MoneyInv'
<1> SUFFICES ASSUME Faultless
             PROVE  Balanced' /\ (mutex' # None => Backed(job[mutex])')
  BY DEF MoneyInv, Faultless
<1>1. \A c \in Currency : Held(bal, c)' = Held(bal', c) /\ Endowment(c)' = Endowment(c)
  BY DEF Held, Endowment
<1>2. \A c \in Currency : Due(c)' = Outstanding(k, c)
  BY DEF Due, Outstanding, Flow, Bought, Sold, Value, Fee, LegCount
<1>3. Balanced'
  BY <1>1, <1>2 DEF Balanced
<1>4. Backed(job[mutex])'
  BY DEF Backed
<1> QED
  BY <1>3, <1>4

LEMMA MoneyOf ==
    ASSUME NEW p, p # None, mutex = p, MoneyInv, Faultless
    PROVE  /\ \A c \in Currency : Held(bal, c) + outside[c] = Endowment(c) + Outstanding(job[p], c)
           /\ Backed(job[p])
BY DEF MoneyInv, Balanced, Due

LEMMA SettleLegMoney ==
    ASSUME TypeOK, Shape, MoneyInv, NEW p \in Proc, SettleLeg(p)
    PROVE  MoneyInv'
<1>1. FundsTypes /\ OrderTypes /\ JobTypes
  BY TypeParts
<1>2. job[p].pc = "leg" /\ job[p].pc \in Paying /\ job[p].pc \in Inside
  BY DEF SettleLeg, Paying, Inside
<1> PICK o, t, j, n, l : /\ o = job[p].order /\ t = CurrentTrade(p) /\ j = job[p].leg
                         /\ n = LegCount(t) /\ l = CurrentLegs(p)[j]
  OBVIOUS
<1>3. /\ t \in Trade /\ t.amt \in Nat /\ j \in 1 .. n /\ n \in Nat /\ t = job[p].trades[job[p].at]
      /\ CurrentLegs(p) = Legs(t, o) /\ Len(CurrentLegs(p)) = n
      /\ l.user \in Account /\ l.cur \in Currency /\ l.delta \in Int
  BY <1>1, <1>2, LegFacts
<1>4. job[p] \in Job /\ mutex = p /\ p # None
  BY <1>1, <1>2, InsideFacts, TradingAssumption
<1>5. /\ bal' = Add(bal, l.user, l.cur, l.delta)
      /\ UNCHANGED <<outside, here, mutex, terms>>
  BY DEF SettleLeg, ApplyLeg, orders, engine, history
<1>6. PICK k : k = IF j = n THEN [job[p] EXCEPT !.pc = "tail"] ELSE [job[p] EXCEPT !.leg = j + 1]
  OBVIOUS
<1>7. job' = [job EXCEPT ![p] = k]
  <2>1. job' = IF j = n THEN [job EXCEPT ![p] = [job[p] EXCEPT !.pc = "tail"]]
               ELSE [job EXCEPT ![p] = [job[p] EXCEPT !.leg = j + 1]]
    BY <1>1, <1>3, Zenon DEF SettleLeg, Goto, JobTypes
  <2> QED
    BY <1>6, <2>1
<1>8. /\ k.order = o /\ k.trades[k.at] = t
      /\ k.pc = (IF j = n THEN "tail" ELSE "leg") /\ k.leg = (IF j = n THEN j ELSE j + 1)
  BY <1>2, <1>3, <1>4, <1>6 DEF Job
<1>9. job'[p] = k
  BY <1>1, <1>7 DEF JobTypes
<1>10. ASSUME Faultless, NEW c \in Currency
       PROVE  Held(bal', c) + outside'[c] = Endowment(c) + Outstanding(k, c)
  <2>1. Held(bal, c) + outside[c] = Endowment(c) + Outstanding(job[p], c)
    BY <1>4, <1>10, MoneyOf
  <2>2. Outstanding(job[p], c) = Flow(t, o, j - 1, c)
    BY <1>2, <1>3 DEF Outstanding
  <2>3. Outstanding(k, c) = Flow(t, o, j, c)
    <3>1. CASE j = n
      BY <1>8, <3>1 DEF Outstanding
    <3>2. CASE j # n
      <4>1. k.leg - 1 = j
        <5>1. j \in Int
          BY <1>3
        <5>2. k.leg = j + 1
          BY <1>8, <3>2
        <5> QED
          BY <5>1, <5>2
      <4> QED
        BY <1>8, <3>2, <4>1 DEF Outstanding
    <3> QED
      BY <3>1, <3>2
  <2>4. Flow(t, o, j, c) = Flow(t, o, j - 1, c) + MovedBy(l, c)
    BY <1>1, <1>3, FlowStep DEF OrderTypes
  <2>5. Held(bal', c) = Held(bal, c) + MovedBy(l, c)
    <3>1. bal \in [Account -> [Currency -> Int]]
      BY <1>1 DEF FundsTypes
    <3> PICK u, d, q : u = l.user /\ d = l.cur /\ q = l.delta
      OBVIOUS
    <3>2. u \in Account /\ d \in Currency /\ q \in Int /\ bal' = Add(bal, u, d, q)
      BY <1>3, <1>5, Zenon
    <3>3. Held(bal', c) = Held(bal, c) + (IF c = d THEN q ELSE 0)
      BY <3>1, <3>2, HeldAdd
    <3> QED
      BY <3>3 DEF MovedBy
  <2>6. Held(bal, c) \in Int /\ outside[c] \in Int /\ Endowment(c) \in Int
        /\ Flow(t, o, j - 1, c) \in Int /\ MovedBy(l, c) \in Int
    <3>1. bal \in [Account -> [Currency -> Int]] /\ j - 1 \in Int
      BY <1>1, <1>3 DEF FundsTypes
    <3>2. Held(bal, c) \in Int /\ Endowment(c) \in Int /\ Flow(t, o, j - 1, c) \in Int
      BY Zenon, <1>1, <1>3, <3>1, HeldType, EndowmentType, FlowType
    <3>3. outside[c] \in Int /\ MovedBy(l, c) \in Int
      BY <1>1, <1>3 DEF FundsTypes, MovedBy
    <3> QED
      BY <3>2, <3>3
  <2> PICK h, f, d, e, x : /\ h = Held(bal, c) /\ f = Flow(t, o, j - 1, c) /\ d = MovedBy(l, c)
                           /\ e = Endowment(c) /\ x = outside[c]
    OBVIOUS
  <2>7. h \in Int /\ f \in Int /\ d \in Int /\ e \in Int /\ x \in Int /\ h + x = e + f
    BY <2>1, <2>2, <2>6
  <2>8. h + d + x = e + (f + d)
    BY ONLY <2>7
  <2> QED
    BY <1>5, <2>3, <2>4, <2>5, <2>8
<1>11. Backed(k)'
  <2>1. CASE ~(k.pc = "leg" /\ k.leg = 3)
    BY <1>8, <2>1 DEF Backed
  <2>2. CASE k.pc = "leg" /\ k.leg = 3
    <3>1. j = 2 /\ n > 2
      BY <1>3, <1>8, <2>2
    <3>2. t.buy # None /\ t.buy \in Order
      BY <1>3, <3>1 DEF LegCount, Trade
    <3>3. l.user = terms[t.buy].user /\ l.cur = "base" /\ l.delta = t.amt
      <4>1. l = Leg(t.buy, "base", t.amt)
        BY <1>1, <1>3, <3>1, <3>2, LegsType DEF OrderTypes
      <4> QED
        BY <4>1 DEF Leg
    <3> PICK u, a : u = l.user /\ a = t.amt
      OBVIOUS
    <3>4. /\ u \in Account /\ a \in Nat /\ a \in Int /\ "base" \in Currency
          /\ bal' = Add(bal, u, "base", a)
      BY <1>3, <1>5, <3>3, Zenon DEF Currency
    <3>5. bal \in [Account -> [Currency -> Int]] /\ bal[u]["base"] \in Nat
      BY <1>1, <3>4 DEF FundsTypes
    <3>6. bal'[u]["base"] = bal[u]["base"] + a
      BY <3>4, <3>5, AddType
    <3>7. bal'[u]["base"] >= a
      BY <3>4, <3>5, <3>6
    <3>8. terms'[t.buy].user = u
      BY <1>5, <3>3
    <3> QED
      BY <1>8, <2>2, <3>7, <3>8 DEF Backed
  <2> QED
    BY <2>1, <2>2
<1> QED
  BY <1>4, <1>5, <1>9, <1>10, <1>11, MoneyBy

LEMMA LegFailsMoney ==
    ASSUME TypeOK, Shape, MoneyInv, NEW p \in Proc, LegFails(p)
    PROVE  MoneyInv'
<1>1. FundsTypes /\ OrderTypes /\ JobTypes
  BY TypeParts
<1>2. job[p].pc = "leg" /\ job[p].pc \in Paying /\ job[p].pc \in Inside
  BY DEF LegFails, Paying, Inside
<1> PICK o, t, j, n, l : /\ o = job[p].order /\ t = CurrentTrade(p) /\ j = job[p].leg
                         /\ n = LegCount(t) /\ l = CurrentLegs(p)[j]
  OBVIOUS
<1>3. /\ t \in Trade /\ t.amt \in Nat /\ j \in 1 .. n /\ n \in Nat /\ t = job[p].trades[job[p].at]
      /\ CurrentLegs(p) = Legs(t, o)
      /\ l.user \in Account /\ l.cur \in Currency /\ l.delta \in Int
  BY <1>1, <1>2, LegFacts
<1>4. job[p] \in Job /\ mutex = p /\ p # None
  BY <1>1, <1>2, InsideFacts, TradingAssumption
<1>5. UNCHANGED <<outside, here, mutex, terms>>
  BY DEF LegFails, orders, engine, history
<1>6. PICK k : k = [job[p] EXCEPT !.pc = IF j = 1 THEN "rollback" ELSE "undo", !.undo = 1]
  OBVIOUS
<1>7. job' = [job EXCEPT ![p] = k]
  BY <1>1, <1>6 DEF LegFails, JobTypes
<1>8. /\ k.order = o /\ k.trades[k.at] = t /\ k.leg = j /\ k.undo = 1
      /\ k.pc = (IF j = 1 THEN "rollback" ELSE "undo")
  BY <1>3, <1>4, <1>6 DEF Job
<1>9. job'[p] = k
  BY <1>1, <1>7 DEF JobTypes
<1>10. Faultless => bal' = bal /\ ~CanApply(l.user, l.cur, l.delta)
  BY DEF LegFails, Faultless, Faults
<1>11. ASSUME Faultless
       PROVE  j = 1 \/ j = 3
  <2>1. l.delta < 0
    <3>1. ~(l.delta >= 0)
      BY <1>10, <1>11 DEF CanApply
    <3> QED
      BY <1>3, <3>1
  <2>2. CASE t.buy # None
    <3>1. j # 2
      <4>1. j = 2 => l = Leg(t.buy, "base", t.amt)
        BY <1>1, <1>3, <2>2, LegsType DEF OrderTypes
      <4> QED
        BY <1>3, <2>1, <4>1 DEF Leg
    <3>2. j # 4
      <4>1. ASSUME j = 4
            PROVE  FALSE
        <5>1. t.sell # None
          BY <1>3, <2>2, <4>1 DEF LegCount
        <5>2. l = Leg(t.sell, "quote", Value(t) - Fee(t, t.sell, o))
          BY <1>1, <1>3, <2>2, <4>1, <5>1, LegsType DEF OrderTypes
        <5>3. l.delta = Value(t) - Fee(t, t.sell, o)
          BY <5>2 DEF Leg
        <5>4. Value(t) \in Nat /\ Fee(t, t.sell, o) \in Nat /\ Fee(t, t.sell, o) <= Value(t)
          BY <1>3, FeeType
        <5> QED
          BY <2>1, <5>3, <5>4
      <4> QED
        BY <4>1
    <3>3. n <= 4
      BY DEF LegCount
    <3> QED
      BY <1>3, <3>1, <3>2, <3>3
  <2>3. CASE t.buy = None
    <3>1. n <= 2
      BY <2>3 DEF LegCount
    <3>2. j # 2
      <4>1. ASSUME j = 2
            PROVE  FALSE
        <5>1. t.sell # None
          BY <1>3, <2>3, <4>1 DEF LegCount
        <5>2. l = Leg(t.sell, "quote", Value(t) - Fee(t, t.sell, o))
          BY <1>1, <1>3, <2>3, <4>1, <5>1, LegsType DEF OrderTypes
        <5>3. l.delta = Value(t) - Fee(t, t.sell, o)
          BY <5>2 DEF Leg
        <5>4. Value(t) \in Nat /\ Fee(t, t.sell, o) \in Nat /\ Fee(t, t.sell, o) <= Value(t)
          BY <1>3, FeeType
        <5> QED
          BY <2>1, <5>3, <5>4
      <4> QED
        BY <4>1
    <3> QED
      BY <1>3, <3>1, <3>2
  <2> QED
    BY <2>2, <2>3
<1>12. ASSUME Faultless, NEW c \in Currency
       PROVE  Held(bal', c) + outside'[c] = Endowment(c) + Outstanding(k, c)
  <2>1. Held(bal, c) + outside[c] = Endowment(c) + Outstanding(job[p], c)
    BY <1>4, <1>12, MoneyOf
  <2>2. Outstanding(job[p], c) = Flow(t, o, j - 1, c)
    BY <1>2, <1>3 DEF Outstanding
  <2>3. Flow(t, o, 0, c) = 0
    BY FlowStart
  <2>4. CASE j = 1
    <3>1. j - 1 = 0
      BY <2>4
    <3>2. Outstanding(k, c) = 0
      BY <1>8, <2>4 DEF Outstanding
    <3> QED
      BY <1>5, <1>10, <1>12, <2>1, <2>2, <2>3, <3>1, <3>2
  <2>5. CASE j # 1
    <3>1. k.undo - 1 = 0
      BY <1>8
    <3>2. Outstanding(k, c) = Flow(t, o, j - 1, c) - Flow(t, o, 0, c)
      BY <1>8, <2>5, <3>1 DEF Outstanding
    <3>3. Flow(t, o, j - 1, c) \in Int
      BY <1>3, FlowType
    <3>4. Outstanding(k, c) = Flow(t, o, j - 1, c)
      BY <2>3, <3>2, <3>3
    <3> QED
      BY <1>5, <1>10, <1>12, <2>1, <2>2, <3>4
  <2> QED
    BY <2>4, <2>5
<1>13. Faultless => Backed(k)'
  <2> SUFFICES ASSUME Faultless, k.pc = "undo"
               PROVE  k.leg = 3 /\ bal'[terms'[t.buy].user]["base"] >= t.amt
    BY <1>8 DEF Backed
  <2>1. j = 3
    BY <1>8, <1>11
  <2>2. Backed(job[p])
    BY Zenon, <1>4, MoneyOf
  <2>3. bal[terms[t.buy].user]["base"] >= t.amt
    BY <1>2, <1>3, <2>1, <2>2 DEF Backed
  <2> QED
    BY <1>5, <1>8, <1>10, <2>1, <2>3
<1> QED
  BY <1>4, <1>5, <1>9, <1>12, <1>13, MoneyBy

LEMMA AddElsewhere ==
    ASSUME NEW store \in [Account -> [Currency -> Int]], NEW u \in Account, NEW d \in Currency,
           NEW n \in Int
    PROVE  \A e \in Currency : e # d => Add(store, u, d, n)[u][e] = store[u][e]
BY AddType

LEMMA UndoLegMoney ==
    ASSUME TypeOK, Shape, MoneyInv, NEW p \in Proc, UndoLeg(p)
    PROVE  MoneyInv'
<1>1. FundsTypes /\ OrderTypes /\ JobTypes
  BY TypeParts
<1>2. job[p].pc = "undo" /\ job[p].pc \in Paying /\ job[p].pc \in Inside
  BY DEF UndoLeg, Paying, Inside
<1> PICK o, t, i, l : o = job[p].order /\ t = CurrentTrade(p) /\ i = job[p].undo /\ l = CurrentLegs(p)[i]
  OBVIOUS
<1>3. /\ t \in Trade /\ t.amt \in Nat /\ t = job[p].trades[job[p].at]
      /\ CurrentLegs(p) = Legs(t, o) /\ job[p].leg \in 1 .. LegCount(t) /\ LegCount(t) \in Nat
      /\ i \in 1 .. job[p].leg - 1
  BY <1>1, <1>2, LegFacts
<1>4. job[p] \in Job /\ mutex = p /\ p # None
  BY <1>1, <1>2, InsideFacts, TradingAssumption
<1>5. UNCHANGED <<outside, here, mutex, terms>>
  BY DEF UndoLeg, orders, engine, history
<1> SUFFICES ASSUME Faultless
             PROVE  MoneyInv'
  BY Zenon, <1>5 DEF MoneyInv, Faultless
<1>6. job[p].leg = 3 /\ bal[terms[t.buy].user]["base"] >= t.amt
  BY <1>2, <1>3, <1>4, MoneyOf DEF Backed
<1>7. /\ t.buy # None /\ t.sell # None /\ LegCount(t) = 4 /\ t.buy \in Order
      /\ terms[t.buy].user \in Account
  BY <1>1, <1>2, <1>6, ThirdLeg
<1>8. i \in {1, 2}
  BY <1>3, <1>6
<1> PICK u, d, q, w, f : /\ u = terms[t.buy].user /\ d = l.cur /\ q = l.delta
                         /\ w = Value(t) /\ f = Fee(t, t.buy, o)
  OBVIOUS
<1>9. w \in Nat /\ f \in Nat
  BY <1>3, FeeType
<1>10. /\ l.user = u
       /\ i = 1 => d = "quote" /\ q = -(w + f)
       /\ i = 2 => d = "base" /\ q = t.amt
  <2>1. /\ i = 1 => l = Leg(t.buy, "quote", -(w + f))
        /\ i = 2 => l = Leg(t.buy, "base", t.amt)
    BY <1>1, <1>3, <1>7, LegsType DEF OrderTypes
  <2>2. /\ Leg(t.buy, "quote", -(w + f)).user = u /\ Leg(t.buy, "quote", -(w + f)).cur = "quote"
        /\ Leg(t.buy, "quote", -(w + f)).delta = -(w + f)
        /\ Leg(t.buy, "base", t.amt).user = u /\ Leg(t.buy, "base", t.amt).cur = "base"
        /\ Leg(t.buy, "base", t.amt).delta = t.amt
    BY DEF Leg
  <2> QED
    BY Zenon, <1>8, <2>1, <2>2
<1>11. d \in Currency /\ q \in Int /\ -q \in Int
  <2>1. d \in Currency
    BY <1>8, <1>10 DEF Currency
  <2>2. q \in Int
    BY <1>3, <1>8, <1>9, <1>10
  <2> QED
    BY <2>1, <2>2
<1>12. bal \in [Account -> [Currency -> Int]] /\ \A a \in Account, c \in Currency : bal[a][c] \in Nat
  BY <1>1 DEF FundsTypes
<1>13. CanApply(u, d, -q)
  <2>1. CASE i = 1
    <3>1. -q >= 0
      BY <1>9, <1>10, <2>1
    <3> QED
      BY <3>1 DEF CanApply
  <2>2. CASE i = 2
    <3> PICK b, a : b = bal[u]["base"] /\ a = t.amt
      OBVIOUS
    <3>1. b \in Nat /\ a \in Nat /\ b >= a
      BY <1>3, <1>6, <1>7, <1>12, Zenon DEF Currency
    <3>2. b + (-a) >= 0
      BY <3>1
    <3> QED
      BY <1>10, <2>2, <3>2 DEF CanApply
  <2> QED
    BY <1>8, <2>1, <2>2
<1>14. bal' = Add(bal, u, d, -q)
  <2>1. ApplyLeg([l EXCEPT !.delta = -@])
    BY Zenon, <1>10, <1>13 DEF UndoLeg, Faultless, Faults
  <2>2. l \in Move
    <3>1. i \in 1 .. LegCount(t)
      BY <1>7, <1>8
    <3> QED
      BY <1>1, <1>3, <3>1, CurrentLeg DEF OrderTypes
  <2> QED
    BY <1>10, <2>1, <2>2 DEF ApplyLeg, Move
<1>15. PICK k : k = IF i = 2 THEN [job[p] EXCEPT !.pc = "rollback"] ELSE [job[p] EXCEPT !.undo = 2]
  OBVIOUS
<1>16. job' = [job EXCEPT ![p] = k]
  <2>1. job' = IF i + 1 = job[p].leg THEN [job EXCEPT ![p] = [job[p] EXCEPT !.pc = "rollback"]]
               ELSE [job EXCEPT ![p] = [job[p] EXCEPT !.undo = i + 1]]
    BY <1>1 DEF UndoLeg, Goto, JobTypes
  <2>2. CASE i = 1
    <3>1. i + 1 # job[p].leg /\ i + 1 = 2
      BY <1>6, <2>2
    <3> QED
      BY <1>15, <2>1, <2>2, <3>1
  <2>3. CASE i = 2
    <3>1. i + 1 = job[p].leg
      BY <1>6, <2>3
    <3> QED
      BY <1>15, <2>1, <2>3, <3>1
  <2> QED
    BY <1>8, <2>2, <2>3
<1>17. /\ k.order = o /\ k.trades[k.at] = t /\ k.leg = 3
       /\ i = 2 => k.pc = "rollback"
       /\ i = 1 => k.pc = "undo" /\ k.undo = 2
  BY <1>2, <1>3, <1>4, <1>6, <1>8, <1>15 DEF Job
<1>18. job'[p] = k
  BY <1>1, <1>16 DEF JobTypes
<1>19. ASSUME NEW c \in Currency
       PROVE  Held(bal', c) + outside'[c] = Endowment(c) + Outstanding(k, c)
  <2>1. Held(bal, c) + outside[c] = Endowment(c) + Outstanding(job[p], c)
    BY <1>4, MoneyOf
  <2>2. Outstanding(job[p], c) = Flow(t, o, 2, c) - Flow(t, o, i - 1, c)
    <3>1. job[p].leg - 1 = 2
      BY <1>6
    <3> QED
      BY <1>2, <1>3, <3>1 DEF Outstanding
  <2>3. Outstanding(k, c) = Flow(t, o, 2, c) - Flow(t, o, i, c)
    <3>1. CASE i = 1
      <4>1. k.leg - 1 = 2 /\ k.undo - 1 = 1
        BY <1>17, <3>1
      <4> QED
        BY <1>17, <3>1, <4>1 DEF Outstanding
    <3>2. CASE i = 2
      <4>1. Outstanding(k, c) = 0
        BY <1>17, <3>2 DEF Outstanding
      <4>2. Flow(t, o, 2, c) \in Int
        BY <1>3, FlowType
      <4> QED
        BY <3>2, <4>1, <4>2
    <3> QED
      BY <1>8, <3>1, <3>2
  <2> PICK m : m = MovedBy(l, c)
    BY Zenon
  <2>4. Flow(t, o, i, c) = Flow(t, o, i - 1, c) + m
    <3>1. i \in 1 .. LegCount(t)
      BY <1>7, <1>8
    <3>2. terms \in [Order -> Terms] /\ t \in Trade
      BY <1>1, <1>3 DEF OrderTypes
    <3>3. Flow(t, o, i, c) = Flow(t, o, i - 1, c) + MovedBy(Legs(t, o)[i], c)
      BY <3>1, <3>2, FlowStep
    <3>4. m = MovedBy(Legs(t, o)[i], c)
      BY <1>3, Zenon
    <3> QED
      BY <3>3, <3>4
  <2>5. m = IF d = c THEN q ELSE 0
    BY DEF MovedBy
  <2>6. m \in Int
    BY <1>11, <2>5
  <2>7. Held(bal', c) = Held(bal, c) - m
    <3>1. u \in Account
      BY <1>7
    <3>2. Held(bal', c) = Held(bal, c) + (IF c = d THEN -q ELSE 0)
      BY <1>11, <1>12, <1>14, <3>1, HeldAdd
    <3>3. Held(bal, c) \in Int
      BY <1>12, HeldType
    <3> QED
      BY <1>11, <2>5, <3>2, <3>3
  <2>8. /\ Held(bal, c) \in Int /\ outside[c] \in Int /\ Endowment(c) \in Int
        /\ Flow(t, o, 2, c) \in Int /\ Flow(t, o, i - 1, c) \in Int
    <3>1. i - 1 \in Int /\ 2 \in Int
      BY <1>8
    <3>2. Held(bal, c) \in Int /\ Endowment(c) \in Int
      BY Zenon, <1>1, <1>12, HeldType, EndowmentType
    <3>3. Flow(t, o, 2, c) \in Int /\ Flow(t, o, i - 1, c) \in Int
      BY <1>3, <3>1, FlowType
    <3>4. outside[c] \in Int
      BY <1>1 DEF FundsTypes
    <3> QED
      BY <3>2, <3>3, <3>4
  <2> PICK h, g, all, e, x : /\ h = Held(bal, c) /\ g = Flow(t, o, i - 1, c) /\ all = Flow(t, o, 2, c)
                             /\ e = Endowment(c) /\ x = outside[c]
    OBVIOUS
  <2>9. /\ h \in Int /\ g \in Int /\ all \in Int /\ e \in Int /\ x \in Int /\ m \in Int
        /\ h + x = e + (all - g)
    BY <2>1, <2>2, <2>6, <2>8
  <2>10. h - m + x = e + (all - (g + m))
    BY ONLY <2>9
  <2> QED
    BY <1>5, <2>3, <2>4, <2>7, <2>10
<1>20. Backed(k)'
  <2> SUFFICES ASSUME k.pc = "undo"
               PROVE  bal'[terms'[t.buy].user]["base"] >= t.amt
    BY <1>8, <1>17 DEF Backed
  <2>1. i = 1
    BY <1>8, <1>17
  <2>2. d = "quote" /\ "base" \in Currency /\ "base" # d
    BY <1>10, <2>1 DEF Currency
  <2> PICK m : m = -q
    OBVIOUS
  <2>3. bal'[u]["base"] = bal[u]["base"]
    <3>1. u \in Account /\ m \in Int /\ bal' = Add(bal, u, d, m)
      BY <1>7, <1>11, <1>14
    <3>2. bal \in [Account -> [Currency -> Int]] /\ d \in Currency
      BY <1>11, <1>12
    <3>3. \A e \in Currency : e # d => Add(bal, u, d, m)[u][e] = bal[u][e]
      BY <3>1, <3>2, AddElsewhere
    <3> QED
      BY <2>2, <3>1, <3>3
  <2> QED
    BY <1>5, <1>6, <2>3
<1> QED
  BY <1>4, <1>5, <1>18, <1>19, <1>20, MoneyBy

LEMMA SettleTailMoney ==
    ASSUME TypeOK, Shape, MoneyInv, NEW p \in Proc, SettleTail(p)
    PROVE  MoneyInv'
<1>1. FundsTypes /\ OrderTypes /\ JobTypes
  BY TypeParts
<1>2. job[p].pc = "tail" /\ job[p].pc \in Paying /\ job[p].pc \in Inside
  BY DEF SettleTail, Paying, Inside
<1> PICK o, t, at, n : /\ o = job[p].order /\ t = CurrentTrade(p)
                       /\ at = job[p].at /\ n = LegCount(t)
  OBVIOUS
<1>3. /\ t \in Trade /\ t.amt \in Nat /\ t = job[p].trades[at] /\ n \in Nat /\ job[p].leg \in 1 .. n
  BY <1>1, <1>2, LegFacts
<1>4. job[p] \in Job /\ mutex = p /\ p # None
  BY <1>1, <1>2, InsideFacts, TradingAssumption
<1>5. t.buy # None \/ t.sell # None
  <2>1. n # 0
    BY <1>3
  <2> QED
    BY <2>1 DEF LegCount
<1> PICK v, fee : v = Value(t) /\ fee = TotalFee(t, o)
  OBVIOUS
<1>6. /\ UNCHANGED <<here, mutex, terms>> /\ bal' = Add(bal, FeeWallet, "quote", fee)
      /\ outside' = IF ~Synthetic(t) THEN outside
                    ELSE IF t.buy = None
                         THEN [outside EXCEPT !.base = @ + t.amt, !.quote = @ - v]
                         ELSE [outside EXCEPT !.base = @ - t.amt, !.quote = @ + v]
  BY DEF SettleTail, engine
<1>7. PICK k : k = [job[p] EXCEPT !.pc = IF Synthetic(t) THEN "publish"
                                         ELSE IF at = Len(job[p].trades) THEN "price" ELSE "leg",
                                  !.at = at + 1, !.leg = 1]
  OBVIOUS
<1>8. job' = [job EXCEPT ![p] = k]
  BY <1>1, <1>7 DEF SettleTail, JobTypes
<1>9. job'[p] = k
  BY <1>1, <1>8 DEF JobTypes
<1>10. Flat(k)
  <2>1. k.leg = 1 /\ k.pc \in {"publish", "price", "leg"}
    BY <1>4, <1>7 DEF Job
  <2> QED
    BY <2>1 DEF Flat
<1>11. v \in Int /\ fee \in Int /\ t.amt \in Int
  <2>1. Fee(t, t.buy, o) \in Int /\ Fee(t, t.sell, o) \in Int /\ v \in Int
    BY <1>3, FeeType
  <2> QED
    BY <1>3, <2>1 DEF TotalFee
<1>12. bal \in [Account -> [Currency -> Int]] /\ outside \in [Currency -> Int]
       /\ FeeWallet \in Account /\ "quote" \in Currency /\ "base" \in Currency
  BY <1>1 DEF FundsTypes, Account, Currency
<1>13. /\ Flow(t, o, n, "base") = IF ~Synthetic(t) THEN 0 ELSE IF t.buy = None THEN -t.amt ELSE t.amt
       /\ Flow(t, o, n, "quote") + fee = IF ~Synthetic(t) THEN 0 ELSE IF t.buy = None THEN v ELSE -v
  BY <1>3, <1>5, FlowAll
<1>14. /\ outside'["base"] = outside["base"]
            + (IF ~Synthetic(t) THEN 0 ELSE IF t.buy = None THEN t.amt ELSE -t.amt)
       /\ outside'["quote"] = outside["quote"]
            + (IF ~Synthetic(t) THEN 0 ELSE IF t.buy = None THEN -v ELSE v)
  <2>1. CASE ~Synthetic(t)
    <3>1. outside["base"] \in Int /\ outside["quote"] \in Int
      BY <1>12
    <3> QED
      BY <1>6, <2>1, <3>1
  <2>2. CASE Synthetic(t) /\ t.buy = None
    BY <1>6, <1>11, <1>12, <2>2
  <2>3. CASE Synthetic(t) /\ t.buy # None
    BY <1>6, <1>11, <1>12, <2>3
  <2> QED
    BY <2>1, <2>2, <2>3
<1>15. ASSUME Faultless, NEW c \in Currency
       PROVE  Held(bal', c) + outside'[c] = Endowment(c) + Outstanding(k, c)
  <2>1. Held(bal, c) + outside[c] = Endowment(c) + Outstanding(job[p], c)
    BY <1>4, <1>15, MoneyOf
  <2>2. Outstanding(job[p], c) = Flow(t, o, n, c)
    BY <1>2, <1>3 DEF Outstanding
  <2>3. Outstanding(k, c) = 0
    BY <1>10, FlatZero
  <2>4. Held(bal', c) = Held(bal, c) + (IF c = "quote" THEN fee ELSE 0)
    BY <1>6, <1>11, <1>12, HeldAdd
  <2>5. /\ Held(bal, c) \in Int /\ outside[c] \in Int /\ Endowment(c) \in Int /\ Flow(t, o, n, c) \in Int
    <3>1. Held(bal, c) \in Int /\ Endowment(c) \in Int
      BY <1>1, <1>12, HeldType, EndowmentType
    <3>2. Flow(t, o, n, c) \in Int
      BY <1>3, FlowType
    <3>3. outside[c] \in Int
      BY <1>12
    <3> QED
      BY <3>1, <3>2, <3>3
  <2> PICK h, g, e, x, y : /\ h = Held(bal, c) /\ g = Flow(t, o, n, c) /\ e = Endowment(c)
                           /\ x = outside[c] /\ y = outside'[c]
    OBVIOUS
  <2>6. h \in Int /\ g \in Int /\ e \in Int /\ x \in Int /\ h + x = e + g
    BY <2>1, <2>2, <2>5
  <2>7. y = x - g - (IF c = "quote" THEN fee ELSE 0)
    <3>1. CASE c = "base"
      <4> PICK z : z = IF ~Synthetic(t) THEN 0 ELSE IF t.buy = None THEN t.amt ELSE -t.amt
        OBVIOUS
      <4>1. z \in Int /\ y = x + z /\ g = -z
        BY <1>11, <1>13, <1>14, <3>1
      <4>2. y = x - g - 0
        BY ONLY <2>6, <4>1
      <4> QED
        BY <3>1, <4>2
    <3>2. CASE c = "quote"
      <4> PICK z : z = IF ~Synthetic(t) THEN 0 ELSE IF t.buy = None THEN -v ELSE v
        OBVIOUS
      <4>1. z \in Int /\ y = x + z /\ g + fee = -z
        BY <1>11, <1>13, <1>14, <3>2
      <4>2. y = x - g - fee
        BY ONLY <1>11, <2>6, <4>1
      <4> QED
        BY <3>2, <4>2
    <3> QED
      BY <3>1, <3>2 DEF Currency
  <2> PICK b : b = IF c = "quote" THEN fee ELSE 0
    OBVIOUS
  <2>8. b \in Int /\ y = x - g - b
    BY <1>11, <2>7
  <2>9. h + b + y = e + 0
    BY ONLY <2>6, <2>8
  <2> QED
    BY <2>3, <2>4, <2>9
<1>16. Backed(k)'
  BY <1>10, FlatZero
<1> QED
  BY <1>4, <1>6, <1>9, <1>15, <1>16, MoneyBy

(* The steps inside the mutex that move no money. *)
LEMMA InsideMoney ==
    ASSUME TypeOK, Shape, MoneyInv, NEW p \in Proc,
           \/ MatchOrder(p) \/ FillAtMarket(p) \/ NoMarketFill(p) \/ RestOrder(p)
           \/ PublishUpdates(p) \/ RollbackTrades(p)
    PROVE  MoneyInv'
<1>1. OrderTypes /\ JobTypes
  BY Zenon, TypeParts
<1>2. UNCHANGED <<bal, outside, here>>
  BY DEF MatchOrder, FillAtMarket, NoMarketFill, RestOrder, PublishUpdates, RollbackTrades, redis, history
<1>3. job \in [Proc -> Job]
  BY <1>1 DEF JobTypes
<1>4. CASE MatchOrder(p)
  <2>1. mutex = None /\ mutex' = p
    BY Zenon, <1>4 DEF MatchOrder
  <2>2. PICK m : job' = [job EXCEPT ![p].pc = IF m.trades = <<>> THEN "price" ELSE "leg",
                                    ![p].trades = m.trades, ![p].at = 1, ![p].leg = 1,
                                    ![p].out = UpdatesOf(m.trades, m.mem)]
    BY <1>4 DEF MatchOrder
  <2>3. job'[p].pc \in {"price", "leg"} /\ job'[p].leg = 1
    BY <1>3, <2>2 DEF Job
  <2>4. Flat(job'[p])
    BY <2>3 DEF Flat
  <2> QED
    BY <1>1, <1>2, <2>1, <2>4, FlatKeeps
<1>5. CASE FillAtMarket(p) \/ NoMarketFill(p) \/ RestOrder(p)
  <2>1. job[p].pc \in Inside /\ Flat(job[p])
    BY Zenon, <1>5 DEF FillAtMarket, NoMarketFill, RestOrder, Inside, Flat
  <2>2. mutex = p /\ mutex' = p
    <3>1. mutex = p
      BY <1>1, <2>1, InsideFacts
    <3> QED
      BY <1>5, <3>1 DEF FillAtMarket, NoMarketFill, RestOrder, engine
  <2>3. Flat(job'[p])
    <3>1. CASE FillAtMarket(p)
      <4>1. PICK t : \E n : job' = [job EXCEPT ![p].pc = "leg", ![p].leg = 1, ![p].at = n,
                                               ![p].trades = Append(@, t)]
        BY <3>1 DEF FillAtMarket
      <4>2. job'[p].leg = 1 /\ job'[p].pc = "leg"
        BY <1>3, <4>1 DEF Job
      <4> QED
        BY Zenon, <4>2 DEF Flat
    <3>2. CASE NoMarketFill(p) \/ RestOrder(p)
      <4>1. \E l \in {"add", "publish"} : job' = [job EXCEPT ![p].pc = l]
        BY <3>2 DEF NoMarketFill, RestOrder, Goto
      <4>2. job'[p].pc \in {"add", "publish"}
        BY <1>3, <4>1 DEF Job
      <4> QED
        BY <4>2 DEF Flat
    <3> QED
      BY <1>5, <3>1, <3>2
  <2> QED
    BY Zenon, <1>1, <1>2, <2>1, <2>2, <2>3, FlatKeeps
<1>6. CASE PublishUpdates(p) \/ RollbackTrades(p)
  <2>1. job[p].pc \in Inside /\ Flat(job[p]) /\ mutex' = None
    BY <1>6 DEF PublishUpdates, RollbackTrades, Inside, Flat
  <2>2. mutex = p
    BY <1>1, <2>1, InsideFacts
  <2> QED
    BY Zenon, <1>1, <1>2, <2>1, <2>2, FlatKeeps
<1> QED
  BY <1>4, <1>5, <1>6

(* And the steps outside it. *)
LEMMA OutsideMoney ==
    ASSUME TypeOK, Shape, MoneyInv, NEW p \in Proc,
           \/ Arrive(p) \/ CreateOrder(p) \/ SyncRead(p) \/ SyncWrite(p) \/ FailOrder(p)
           \/ CancelUnlock(p) \/ CancelSave(p) \/ CancelRemove(p) \/ CancelAnnounce(p)
    PROVE  MoneyInv'
<1>1. OrderTypes /\ JobTypes
  BY TypeParts
<1>2. UNCHANGED <<bal, outside, here, mutex>>
  BY <1>1, OutsideFrame DEF Unmoved
<1>3. job[p].pc \notin Inside
  BY <1>1, OutsideFrame
<1>4. mutex # p
  BY <1>3 DEF Shape, OneInside
<1>5. OrdersStay
  <2>1. CASE CreateOrder(p)
    BY <1>1, <2>1, CreateStays
  <2>2. CASE ~CreateOrder(p)
    <3>1. job[p].pc # "create"
      <4>1. CASE Arrive(p)
        BY <4>1, ArriveFrame
      <4>2. CASE ~Arrive(p)
        BY <2>2, <4>2 DEF SyncRead, SyncWrite, FailOrder, CancelUnlock, CancelSave, CancelRemove,
                          CancelAnnounce
      <4> QED
        BY <4>1, <4>2
    <3>2. UNCHANGED <<terms, lastId>>
      BY <1>1, <3>1, OutsideFrame
    <3> QED
      BY <1>1, <3>2, TermsStay
  <2> QED
    BY <2>1, <2>2
<1>6. \A q \in Proc \ {p} : job'[q] = job[q]
  <2>1. job \in [Proc -> Job]
    BY <1>1 DEF JobTypes
  <2>2. PICK k : job' = [job EXCEPT ![p] = k]
    BY <1>1, OutsideFrame
  <2> QED
    BY <2>1, <2>2
<1>7. mutex # None => job'[mutex] = job[mutex]
  <2>1. mutex # None => mutex \in Proc
    BY <1>1 DEF OrderTypes
  <2> QED
    BY <1>4, <1>6, <2>1
<1> QED
  BY <1>1, <1>2, <1>5, <1>7, AsideKeeps

LEMMA NextMoney == TypeOK /\ Shape /\ MoneyInv /\ [Next]_vars => MoneyInv'
<1> SUFFICES ASSUME TypeOK, Shape, MoneyInv, [Next]_vars
             PROVE  MoneyInv'
  OBVIOUS
<1>1. OrderTypes /\ JobTypes
  BY TypeParts
<1>2. ASSUME NEW p \in Proc, Arrive(p) \/ Serve(p)
      PROVE  MoneyInv'
  BY <1>2, OutsideMoney, InsideMoney, SettleLegMoney, LegFailsMoney, UndoLegMoney, SettleTailMoney DEF Serve
<1>3. ASSUME ProjectUpdate \/ UNCHANGED vars
      PROVE  MoneyInv'
  <2>1. UNCHANGED <<bal, outside, here, mutex, terms, lastId, job>>
    BY <1>3 DEF ProjectUpdate, vars, redis, orders, engine, history
  <2>2. OrdersStay
    BY <1>1, <2>1, TermsStay
  <2> QED
    BY <1>1, <2>1, <2>2, AsideKeeps
<1>4. ASSUME Others \/ Restart
      PROVE  MoneyInv'
  <2>1. ~Faultless /\ here' = here
    BY <1>4 DEF Others, OtherDebit, Restart, Faultless, Faults, history
  <2> QED
    BY <2>1 DEF MoneyInv, Faultless
<1> QED
  BY <1>2, <1>3, <1>4 DEF Next

LEMMA InitMoney == Init => MoneyInv
<1> SUFFICES ASSUME Init, NEW c \in Currency
             PROVE  Held(bal, c) + outside[c] = Endowment(c) + Due(c) /\ mutex = None
  BY DEF MoneyInv, Balanced, Init
<1>1. mutex = None /\ outside[c] = 0 /\ Due(c) = 0
  BY DEF Init, Due
<1>2. here.funds[c] \in Int /\ IsFiniteSet(User) /\ FeeWallet \notin User
  <2>1. here.funds \in [Currency -> Nat]
    BY SituationAssumption DEF Init
  <2> QED
    BY <2>1, TradingAssumption
<1> DEFINE f == [a \in Account |-> bal[a][c]]
<1>3. (\A a \in User : f[a] = here.funds[c]) /\ f[FeeWallet] = 0
  BY <1>2 DEF Init, Account
<1> HIDE DEF f
<1> PICK m, n : m = here.funds[c] /\ n = Cardinality(User)
  OBVIOUS
<1>4. m \in Int /\ n \in Nat
  BY <1>2, FS_CardinalityType
<1>5. Sum(f, User) = n * m
  BY <1>2, <1>3, <1>4, SumConstant
<1>6. Sum(f, Account) = Sum(f, User) + f[FeeWallet]
  <2>1. (\A a \in User : f[a] \in Int) /\ f[FeeWallet] \in Int
    BY <1>3, <1>4
  <2> QED
    BY <1>2, <2>1, SumAdd DEF Account
<1>7. n * m \in Int
  BY <1>4
<1>8. Held(bal, c) = n * m
  BY <1>3, <1>5, <1>6, <1>7 DEF Held, f
<1> QED
  BY <1>1, <1>7, <1>8 DEF Endowment

(* Faults aside, trading neither creates nor destroys money: with no       *)
(* settlement under way, what customers, the platform and the outside hold *)
(* is what the customers started with, whatever was matched, paid for,     *)
(* refused, undone and rolled back; and, whatever fails, no balance and no *)
(* lock is below zero.                                                     *)
THEOREM MoneyIsKept == Spec => []FundsConserved
<1>1. TypeOK /\ Shape /\ MoneyInv => FundsConserved
  <2> SUFFICES ASSUME TypeOK, MoneyInv, Faultless, mutex = None, NEW c \in Currency
               PROVE  Held(bal, c) + outside[c] = Endowment(c)
    BY DEF FundsConserved, MoneyStays, Held, Endowment
  <2>1. Held(bal, c) + outside[c] = Endowment(c) + 0
    BY DEF MoneyInv, Balanced, Due
  <2>2. Endowment(c) \in Int
    BY TypeParts, EndowmentType
  <2> QED
    BY <2>1, <2>2
<1>2. Spec => []MoneyInv
  BY InitMoney, NextMoney, Shapely, PTL DEF Spec
<1> QED
  BY <1>1, <1>2, Shapely, PTL

=============================================================================
