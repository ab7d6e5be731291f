---------------------------- MODULE FuturesProofs ----------------------------
(***************************************************************************)
(* Theorems about Futures for all values of its constants.                 *)
(***************************************************************************)
EXTENDS FuturesProps, TotalsProofs

USE DEF bus

-----------------------------------------------------------------------------
(* Types of the values the steps compute *)

LEMMA DivNat == ASSUME NEW a \in Nat, NEW b \in Nat, b > 0 PROVE a \div b \in Nat
OBVIOUS

LEMMA DivInt == ASSUME NEW a \in Int, NEW b \in Nat, b > 0 PROVE a \div b \in Int
OBVIOUS

LEMMA NoRowType == NoRow \in Row /\ NoRow.status = "NONE" /\ NoRow.margin = 0
<1>1. AnyUser \in User
  BY PositionAssumption DEF AnyUser
<1> QED
  BY <1>1 DEF NoRow, Row, Side

LEMMA IdleType == Idle \in Job /\ Idle.pc = "idle" /\ Idle.kind = "none" /\ Idle.pos = None
BY NoRowType DEF Idle, Job, Label, Kind

LEMMA LargerType ==
    ASSUME NEW x \in Int, NEW y \in Int
    PROVE  Larger(x, y) \in Int /\ Larger(x, y) >= y /\ Larger(x, y) >= x
BY DEF Larger

LEMMA FeeType == ASSUME NEW n \in Nat PROVE Fee(n) \in Nat
<1>1. n * FeeRate \in Nat
  BY DEF FeeRate
<1> QED
  BY <1>1, DivNat DEF Fee, Basis

LEMMA TimesNat == ASSUME NEW a \in Nat, NEW b \in Nat PROVE a * b \in Nat
OBVIOUS

LEMMA OpenFeeType == ASSUME NEW r \in Row PROVE OpenFee(r) \in Nat
<1>1. r.size \in Nat /\ r.entry \in Nat
  BY DEF Row
<1>2. r.size * r.entry \in Nat
  BY <1>1, TimesNat
<1> QED
  BY <1>2, FeeType DEF OpenFee

LEMMA LiquidationPriceType ==
    ASSUME NEW side \in Side, NEW entry \in Nat, NEW lev \in Leverage
    PROVE  CalcLiquidationPrice(side, entry, lev) \in Int
<1>1. lev \in Nat /\ lev > 0
  BY NumberAssumption
<1>2. entry \div lev \in Int
  BY <1>1, DivInt
<1>3. (entry * Maintenance) \div Basis \in Int
  BY DivInt DEF Maintenance, Basis
<1> QED
  BY <1>2, <1>3 DEF CalcLiquidationPrice

LEMMA ProfitType ==
    ASSUME NEW r \in Row, NEW mark \in Nat
    PROVE  CalcUnrealizedPnL(r, mark) \in Int
BY DEF CalcUnrealizedPnL, Row

LEMMA NewRowType ==
    ASSUME NEW u \in User, NEW side \in Side, NEW size \in Size, NEW lev \in Leverage,
           NEW tp \in Trigger, NEW sl \in Trigger, price \in Nat
    PROVE  NewRow(u, side, size, lev, tp, sl) \in Row
<1>1. size \in Nat /\ lev \in Nat /\ lev > 0 /\ tp \in Nat /\ sl \in Nat
  BY NumberAssumption
<1>2. (size * price) \div lev \in Nat
  BY <1>1, TimesNat, DivNat
<1>3. CalcLiquidationPrice(side, price, lev) \in Int
  BY LiquidationPriceType
<1> QED
  BY <1>1, <1>2, <1>3 DEF NewRow, Row

-----------------------------------------------------------------------------
(* Types of the goroutines and of the funds *)

HasNewRow == {"check", "lock", "fee", "create"}
NeedsRow == {"announce", "tx", "unlock", "apply", "report"}

LEMMA GotoType ==
    ASSUME JobTypes, NEW w \in Worker, NEW l \in Label, Goto(w, l),
           l \in HasNewRow => job[w].row.status = "OPEN",
           l \in NeedsRow => job[w].pos \in Position
    PROVE  JobTypes'
<1>1. job' \in [Worker -> Job]
  BY DEF Goto, JobTypes, Job
<1>2. \A v \in Worker : /\ job'[v].pos = job[v].pos /\ job'[v].row = job[v].row
                        /\ job'[v].pc = IF v = w THEN l ELSE job[v].pc
  BY DEF Goto, JobTypes, Job
<1> QED
  BY <1>1, <1>2 DEF JobTypes, HasNewRow, NeedsRow

LEMMA FinishType ==
    ASSUME JobTypes, NEW w \in Worker, Finish(w)
    PROVE  JobTypes'
<1>1. job' \in [Worker -> Job]
  BY IdleType DEF Finish, JobTypes
<1>2. \A v \in Worker : job'[v] = IF v = w THEN Idle ELSE job[v]
  BY DEF Finish, JobTypes
<1> QED
  BY <1>1, <1>2, IdleType DEF JobTypes

LEMMA BeginType ==
    ASSUME JobTypes, NEW w \in Worker, NEW j \in Job, job' = [job EXCEPT ![w] = j],
           j.pc \in HasNewRow => j.row.status = "OPEN",
           j.pc \in NeedsRow => j.pos \in Position
    PROVE  JobTypes'
<1>1. job' \in [Worker -> Job]
  BY DEF JobTypes
<1>2. \A v \in Worker : job'[v] = IF v = w THEN j ELSE job[v]
  BY DEF JobTypes
<1> QED
  BY <1>1, <1>2 DEF JobTypes, HasNewRow, NeedsRow

LEMMA JobRowType ==
    ASSUME JobTypes, NEW w \in Worker
    PROVE  /\ job[w] \in Job /\ job[w].row \in Row
           /\ job[w].row.user \in User /\ job[w].row.margin \in Nat
           /\ job[w].price \in Nat /\ job[w].delta \in Int
           /\ OpenFee(job[w].row) \in Nat
<1>1. job[w] \in Job
  BY DEF JobTypes
<1>2. job[w].row \in Row /\ job[w].price \in Nat /\ job[w].delta \in Int
  BY <1>1 DEF Job
<1> QED
  BY <1>1, <1>2, OpenFeeType DEF Row

LEMMA LockTypes ==
    ASSUME FundsTypes, NEW u \in User, NEW n \in Nat, Lock(u, n) \/ Unlock(u, n)
    PROVE  FundsTypes'
<1>1. lck[u] + n \in Nat /\ Larger(lck[u] - n, 0) \in Nat
  BY DEF FundsTypes, Larger
<1> QED
  BY <1>1 DEF FundsTypes, Lock, Unlock

LEMMA AddTypes ==
    ASSUME FundsTypes, NEW u \in User, NEW n \in Int, bal[u] + n >= 0, Add(u, n)
    PROVE  FundsTypes'
<1>1. bal[u] + n \in Nat /\ posted[u] + n \in Int
  BY DEF FundsTypes
<1> QED
  BY <1>1 DEF FundsTypes, Add

LEMMA DeductTypes ==
    ASSUME FundsTypes, NEW u \in User, NEW n \in Nat, Deduct(u, n)
    PROVE  FundsTypes'
<1>1. -n \in Int /\ bal[u] + (-n) >= 0
  BY DEF Deduct, CanDeduct, FundsTypes
<1> QED
  BY <1>1, AddTypes DEF Deduct

LEMMA FundsSame == ASSUME FundsTypes, UNCHANGED wallet PROVE FundsTypes'
BY DEF FundsTypes, wallet

LEMMA WorkerTypes == Proc \subseteq Worker /\ Engine \in Worker /\ Funder \in Worker
BY DEF Worker

-----------------------------------------------------------------------------
(* What the projector may still be given, now or after a restart *)

Entries == {events[i] : i \in DOMAIN events} \cup {uncommitted[i] : i \in DOMAIN uncommitted}

LEMMA EntriesTyped == ASSUME RowTypes PROVE Entries \subseteq Event
BY DEF RowTypes, Entries

LEMMA RecentElement ==
    ASSUME NEW s \in Seq(Event), NEW e \in Event
    PROVE  /\ Recent(Append(s, e)) \in Seq(Event)
           /\ \A i \in DOMAIN Recent(Append(s, e)) :
                 (\E j \in DOMAIN s : Recent(Append(s, e))[i] = s[j]) \/ Recent(Append(s, e))[i] = e
<1> DEFINE a == Append(s, e)
<1>1. /\ a \in Seq(Event) /\ a # <<>>
      /\ \A i \in DOMAIN a : (i \in DOMAIN s /\ a[i] = s[i]) \/ a[i] = e
  BY AppendElement
<1> HIDE DEF a
<1>2. /\ Tail(a) \in Seq(Event)
      /\ \A i \in DOMAIN Tail(a) : i + 1 \in DOMAIN a /\ Tail(a)[i] = a[i + 1]
  BY <1>1, HeadElement
<1>3. CASE Recent(a) = a
  BY <1>1, <1>3 DEF a
<1>4. CASE Recent(a) = Tail(a)
  BY <1>1, <1>2, <1>4 DEF a
<1> QED
  BY <1>3, <1>4 DEF Recent, a

(* Reading moves an entry from one sequence to the other; a restart moves  *)
(* some back.                                                              *)
BusRuns == UNCHANGED bus \/ ReadEvent \/ \E k \in 0 .. Len(uncommitted) : ReadOnAfter(k)
Told(e) == events' = Append(events, e) /\ UNCHANGED uncommitted

LEMMA ReadElement ==
    ASSUME RowTypes, ReadEvent
    PROVE  /\ events' \in Seq(Event) /\ uncommitted' \in Seq(Event) /\ Entries' \subseteq Entries
           /\ Head(events) \in Event /\ Head(events) \in Entries
           /\ Head(events) = events[1] /\ 1 \in DOMAIN events
<1> DEFINE e == Head(events)
<1>1. events \in Seq(Event) /\ uncommitted \in Seq(Event) /\ events # <<>> /\ events' = Tail(events)
  BY DEF RowTypes, ReadEvent
<1>2. /\ e \in Event /\ e = events[1] /\ 1 \in DOMAIN events /\ events' \in Seq(Event)
      /\ \A i \in DOMAIN events' : i + 1 \in DOMAIN events /\ events'[i] = events[i + 1]
  BY <1>1, HeadElement
<1>3. uncommitted' = Recent(Append(uncommitted, e))
  BY DEF ReadEvent
<1> HIDE DEF e
<1>4. /\ uncommitted' \in Seq(Event)
      /\ \A i \in DOMAIN uncommitted' :
            (\E j \in DOMAIN uncommitted : uncommitted'[i] = uncommitted[j]) \/ uncommitted'[i] = e
  BY <1>1, <1>2, <1>3, RecentElement
<1>5. e \in Entries
  BY <1>2 DEF Entries
<1>6. \A i \in DOMAIN events' : events'[i] \in Entries
  BY <1>2 DEF Entries
<1>7. \A i \in DOMAIN uncommitted' : uncommitted'[i] \in Entries
  BY <1>4, <1>5 DEF Entries
<1>8. Entries' \subseteq Entries
  BY <1>6, <1>7 DEF Entries
<1> QED
  BY <1>2, <1>4, <1>5, <1>8 DEF e

LEMMA BackElement ==
    ASSUME RowTypes, NEW k \in 0 .. Len(uncommitted), ReadOnAfter(k)
    PROVE  events' \in Seq(Event) /\ uncommitted' \in Seq(Event) /\ Entries' \subseteq Entries
<1> DEFINE t == SubSeq(uncommitted, k + 1, Len(uncommitted))
<1>1. events \in Seq(Event) /\ uncommitted \in Seq(Event)
  BY DEF RowTypes
<1>2. /\ t \in Seq(Event)
      /\ \A i \in DOMAIN t : k + i \in DOMAIN uncommitted /\ t[i] = uncommitted[k + i]
  BY <1>1, SuffixElement
<1>3. events' = t \o events /\ uncommitted' = <<>>
  BY DEF ReadOnAfter
<1> HIDE DEF t
<1>4. /\ events' \in Seq(Event)
      /\ \A i \in DOMAIN events' :
            \/ i \in DOMAIN t /\ events'[i] = t[i]
            \/ i - Len(t) \in DOMAIN events /\ events'[i] = events[i - Len(t)]
  BY <1>1, <1>2, <1>3, JoinElement
<1>5. \A i \in DOMAIN events' : events'[i] \in Entries
  BY <1>2, <1>4 DEF Entries
<1>6. Entries' \subseteq Entries
  BY <1>3, <1>5 DEF Entries
<1> QED
  BY <1>3, <1>4, <1>6

LEMMA FewerEntries ==
    ASSUME RowTypes, BusRuns
    PROVE  events' \in Seq(Event) /\ uncommitted' \in Seq(Event) /\ Entries' \subseteq Entries
<1>1. CASE UNCHANGED bus
  BY <1>1 DEF RowTypes, Entries
<1> QED
  BY <1>1, ReadElement, BackElement DEF BusRuns

LEMMA OneEntryMore ==
    ASSUME RowTypes, NEW e \in Event, Told(e)
    PROVE  /\ events' \in Seq(Event) /\ uncommitted' \in Seq(Event)
           /\ Entries' \subseteq Entries \cup {e}
<1>1. events \in Seq(Event) /\ uncommitted \in Seq(Event)
  BY DEF RowTypes
<1>2. events' = Append(events, e) /\ uncommitted' = uncommitted
  BY DEF Told
<1>3. \A i \in DOMAIN events' : (i \in DOMAIN events /\ events'[i] = events[i]) \/ events'[i] = e
  BY <1>1, <1>2, AppendElement
<1> QED
  BY <1>1, <1>2, <1>3, AppendElement DEF Entries

-----------------------------------------------------------------------------
(* Each group of actions preserves the types *)

LEMMA OpeningTypes ==
    ASSUME TypeOK, NEW p \in Proc,
           \/ CheckBalance(p) \/ LockMargin(p) \/ DeductFee(p) \/ CreateRow(p)
           \/ RefundFee(p) \/ UndoLock(p) \/ AnnounceOpen(p)
    PROVE  TypeOK'
<1> DEFINE r == job[p].row
<1> USE WorkerTypes DEF Label, HasNewRow, NeedsRow
<1>1. JobTypes /\ FundsTypes /\ RowTypes /\ p \in Worker
  BY DEF TypeOK
<1>2. r \in Row /\ r.user \in User /\ r.margin \in Nat /\ OpenFee(r) \in Nat
  BY <1>1, JobRowType
<1> HIDE DEF r
<1>3. \A l \in Label : /\ Goto(p, l)
                       /\ l \notin NeedsRow
                       /\ l \in HasNewRow => job[p].pc \in HasNewRow
                       => JobTypes'
  <2>1. job[p].pc \in HasNewRow => job[p].row.status = "OPEN"
    BY <1>1 DEF JobTypes
  <2> QED
    BY <1>1, <2>1, GotoType
<1>4. Finish(p) => JobTypes'
  BY <1>1, FinishType
<1>5. Lock(r.user, r.margin) \/ Unlock(r.user, r.margin) \/ UNCHANGED wallet
        \/ Deduct(r.user, OpenFee(r)) \/ Add(r.user, OpenFee(r)) => FundsTypes'
  <2>1. bal[r.user] + OpenFee(r) >= 0
    BY <1>1, <1>2 DEF FundsTypes
  <2> QED
    BY <1>1, <1>2, <2>1, LockTypes, DeductTypes, AddTypes, FundsSame
<1>6. CASE CheckBalance(p)
  <2>1. JobTypes'
    BY <1>3, <1>4, <1>6 DEF CheckBalance
  <2>2. FundsTypes'
    BY <1>5, <1>6 DEF CheckBalance
  <2> QED
    BY <1>6, <2>1, <2>2 DEF CheckBalance, TypeOK, RowTypes, TaskTypes, HistoryTypes, tasks, history
<1>7. CASE LockMargin(p)
  <2>1. JobTypes'
    BY <1>3, <1>4, <1>7 DEF LockMargin
  <2>2. FundsTypes'
    BY <1>5, <1>7 DEF LockMargin, Fails, r
  <2> QED
    BY <1>7, <2>1, <2>2 DEF LockMargin, TypeOK, RowTypes, TaskTypes, HistoryTypes, tasks, history
<1>8. CASE DeductFee(p)
  <2>1. JobTypes'
    BY <1>3, <1>8 DEF DeductFee
  <2>2. FundsTypes'
    BY <1>5, <1>8 DEF DeductFee, Fails, r
  <2> QED
    BY <1>8, <2>1, <2>2 DEF DeductFee, TypeOK, RowTypes, TaskTypes, HistoryTypes, tasks, history
<1>9. CASE CreateRow(p)
  <2>1. ASSUME NEW x \in Position, pos' = [pos EXCEPT ![x] = r],
               job' = [job EXCEPT ![p].pc = "announce", ![p].pos = x]
        PROVE  RowTypes' /\ JobTypes'
    <3>1. pos' \in [Position -> Row]
      BY <1>1, <1>2, <2>1 DEF RowTypes
    <3>2. [job[p] EXCEPT !.pc = "announce", !.pos = x] \in Job
      BY <1>1, JobRowType DEF Job
    <3>3. job' = [job EXCEPT ![p] = [job[p] EXCEPT !.pc = "announce", !.pos = x]]
      BY <1>1, <2>1 DEF JobTypes
    <3>4. /\ [job[p] EXCEPT !.pc = "announce", !.pos = x].pos = x
          /\ [job[p] EXCEPT !.pc = "announce", !.pos = x].pc = "announce"
      BY <1>1, JobRowType DEF Job
    <3>5. JobTypes'
      BY <1>1, <3>2, <3>3, <3>4, BeginType
    <3> QED
      BY <1>1, <1>9, <3>1, <3>5 DEF RowTypes, CreateRow
  <2>2. JobTypes' /\ RowTypes'
    BY <1>1, <1>3, <1>9, <2>1 DEF CreateRow, RowTypes, r
  <2> QED
    BY <1>1, <1>9, <2>2, FundsSame DEF CreateRow, TypeOK, TaskTypes, HistoryTypes, tasks, history
<1>10. CASE RefundFee(p)
  <2>1. JobTypes'
    BY <1>3, <1>10 DEF RefundFee
  <2>2. FundsTypes'
    BY <1>5, <1>10 DEF RefundFee, Fails, r
  <2> QED
    BY <1>10, <2>1, <2>2 DEF RefundFee, TypeOK, RowTypes, TaskTypes, HistoryTypes, tasks, history
<1>11. CASE UndoLock(p)
  <2>1. JobTypes'
    BY <1>4, <1>11 DEF UndoLock
  <2>2. FundsTypes'
    BY <1>5, <1>11 DEF UndoLock, Fails, r
  <2> QED
    BY <1>11, <2>1, <2>2 DEF UndoLock, TypeOK, RowTypes, TaskTypes, HistoryTypes, tasks, history
<1>12. CASE AnnounceOpen(p)
  <2>1. JobTypes'
    BY <1>4, <1>12 DEF AnnounceOpen
  <2>2. job[p].pos \in Position
    BY <1>1, <1>12 DEF AnnounceOpen, JobTypes
  <2>3. [pos |-> job[p].pos, status |-> "OPEN", pnl |-> 0] \in Event
    BY <2>2 DEF Event
  <2>4. RowTypes'
    BY <1>1, <1>12, <2>3, AppendElement DEF AnnounceOpen, Publish, RowTypes
  <2> QED
    BY <1>1, <1>12, <2>1, <2>4, FundsSame DEF AnnounceOpen, TypeOK, TaskTypes, HistoryTypes, tasks, history
<1> QED
  BY <1>6, <1>7, <1>8, <1>9, <1>10, <1>11, <1>12

(* The transaction of a closing. *)
LEMMA CloseRowTypes ==
    ASSUME TypeOK, NEW w \in Worker, NEW x \in Position,
           NEW kind \in {"user", "auto", "liq"}, NEW status \in {"CLOSED", "LIQUIDATED"},
           NEW pnl \in Int, NEW delta \in Int, CloseRow(w, x, kind, status, pnl, delta)
    PROVE  TypeOK'
<1>1. pos \in [Position -> Row] /\ JobTypes
  BY DEF TypeOK, RowTypes
<1>2. pos' \in [Position -> Row]
  BY <1>1 DEF CloseRow, Row
<1>3. RowTypes'
  BY <1>2 DEF CloseRow, TypeOK, RowTypes
<1> DEFINE j == [Idle EXCEPT !.pc = "unlock", !.kind = kind, !.pos = x,
                             !.row = pos'[x], !.delta = delta]
<1>4. j \in Job /\ j.pos = x /\ j.pc = "unlock"
  BY <1>2, IdleType DEF Job, Label, Kind
<1>5. job' = [job EXCEPT ![w] = j]
  BY DEF CloseRow
<1> HIDE DEF j
<1>6. JobTypes'
  BY <1>1, <1>4, <1>5, BeginType DEF HasNewRow
<1>7. HistoryTypes'
  BY DEF CloseRow, TypeOK, HistoryTypes
<1> QED
  BY <1>3, <1>6, <1>7, FundsSame DEF CloseRow, TypeOK, TaskTypes, tasks

LEMMA ArriveTypes ==
    ASSUME TypeOK, NEW p \in Proc, Arrive(p)
    PROVE  TypeOK'
<1> USE WorkerTypes
<1>1. ASSUME NEW u \in User, NEW side \in Side, NEW size \in Size, NEW lev \in Leverage,
             NEW tp \in Trigger, NEW sl \in Trigger, OpenPosition(p, u, side, size, lev, tp, sl)
      PROVE  TypeOK'
  <2> DEFINE j == [Idle EXCEPT !.pc = "check", !.kind = "open",
                               !.row = NewRow(u, side, size, lev, tp, sl)]
  <2>1. NewRow(u, side, size, lev, tp, sl) \in Row
    BY NewRowType DEF TypeOK
  <2>2. j \in Job /\ j.pc = "check" /\ j.row.status = "OPEN"
    BY <2>1, IdleType DEF Job, Label, Kind, NewRow
  <2>3. job' = [job EXCEPT ![p] = j]
    BY <1>1 DEF OpenPosition
  <2> HIDE DEF j
  <2>4. JobTypes'
    BY <2>2, <2>3, BeginType DEF TypeOK, HasNewRow, NeedsRow
  <2> QED
    BY <1>1, <2>4, FundsSame DEF OpenPosition, TypeOK, RowTypes, TaskTypes, HistoryTypes, tasks
<1>2. ASSUME NEW x \in Position, ClosePosition(p, x)
      PROVE  TypeOK'
  <2> DEFINE net == CalcUnrealizedPnL(pos[x], price) - Fee(pos[x].size * price)
  <2>1. pos[x] \in Row /\ pos[x].size \in Nat /\ pos[x].margin \in Nat /\ price \in Nat
    BY DEF TypeOK, RowTypes, Row
  <2>2. net \in Int
    BY <2>1, ProfitType, TimesNat, FeeType
  <2> HIDE DEF net
  <2>3. OpenFee(pos[x]) \in Nat
    BY <2>1, OpenFeeType
  <2>4. net - OpenFee(pos[x]) \in Int /\ Larger(net, -pos[x].margin) \in Int
    <3>1. net - OpenFee(pos[x]) \in Int
      BY <2>2, <2>3
    <3>2. -pos[x].margin \in Int
      BY <2>1
    <3> QED
      BY <2>2, <3>1, <3>2, LargerType
  <2>5. CloseRow(p, x, "user", "CLOSED", net - OpenFee(pos[x]), Larger(net, -pos[x].margin))
    BY <1>2 DEF ClosePosition, net
  <2> QED
    BY <2>4, <2>5, CloseRowTypes
<1> QED
  BY <1>1, <1>2 DEF Arrive

LEMMA SettlingTypes ==
    ASSUME TypeOK, NEW w \in Worker, Settling(w)
    PROVE  TypeOK'
<1> DEFINE r == job[w].row
<1> USE DEF Label, HasNewRow, NeedsRow
<1>1. JobTypes /\ FundsTypes /\ RowTypes
  BY DEF TypeOK
<1>2. r \in Row /\ r.user \in User /\ r.margin \in Nat /\ job[w].delta \in Int /\ r.pnl \in Int
  BY <1>1, JobRowType DEF Row
<1>3. job[w].pc \in {"unlock", "apply", "report"} => job[w].pos \in Position
  BY <1>1 DEF JobTypes
<1>4. CASE SettleUnlock(w)
  <2>1. JobTypes'
    BY <1>1, <1>3, <1>4, GotoType DEF SettleUnlock
  <2>2. FundsTypes'
    BY <1>1, <1>2, <1>4, LockTypes, FundsSame DEF SettleUnlock, Fails
  <2> QED
    BY <1>4, <2>1, <2>2 DEF SettleUnlock, TypeOK, RowTypes, TaskTypes, HistoryTypes, tasks, history
<1>5. CASE SettleApply(w)
  <2> DEFINE d == job[w].delta
  <2> HIDE DEF r, d
  <2>1. JobTypes'
    BY <1>1, <1>3, <1>5, GotoType DEF SettleApply
  <2>2. d \in Int /\ bal[r.user] \in Nat
    BY <1>1, <1>2 DEF FundsTypes, d
  <2>3. d >= 0 /\ Add(r.user, d) => FundsTypes'
    BY <1>1, <1>2, <2>2, AddTypes
  <2>4. d < 0 /\ CanDeduct(r.user, -d) /\ Add(r.user, d) => FundsTypes'
    <3>1. CanDeduct(r.user, -d) => bal[r.user] + d >= 0
      BY <2>2 DEF CanDeduct
    <3> QED
      BY <1>1, <1>2, <2>2, <3>1, AddTypes
  <2>5. d < 0 /\ Deduct(r.user, -d) => FundsTypes'
    <3>1. -(-d) = d
      BY <2>2
    <3> QED
      BY <2>4, <3>1 DEF Deduct
  <2>6. \/ d >= 0 /\ Add(r.user, d)
        \/ d < 0 /\ Deduct(r.user, -d)
        \/ UNCHANGED wallet
        \/ (d < 0 => CanDeduct(r.user, -d)) /\ Add(r.user, d)
    BY <1>5 DEF SettleApply, Fails, r, d
  <2>7. FundsTypes'
    BY <1>1, <2>2, <2>3, <2>4, <2>5, <2>6, FundsSame
  <2>8. moved' \in [Position -> Int]
    <3> DEFINE change == bal'[r.user] - bal[r.user]
    <3>1. change \in Int
      BY <1>2, <2>2, <2>7 DEF FundsTypes
    <3>2. moved \in [Position -> Int]
      BY DEF TypeOK, HistoryTypes
    <3>3. moved' = moved \/ moved' = [moved EXCEPT ![job[w].pos] = @ + change]
      BY <1>5 DEF SettleApply, r
    <3> HIDE DEF change
    <3> QED
      BY <3>1, <3>2, <3>3
  <2> QED
    BY <1>5, <2>1, <2>7, <2>8 DEF SettleApply, TypeOK, RowTypes, TaskTypes, HistoryTypes, tasks
<1>6. CASE ReportClose(w)
  <2>1. JobTypes'
    BY <1>1, <1>6, FinishType DEF ReportClose
  <2>2. [pos |-> job[w].pos, status |-> "CLOSED", pnl |-> r.pnl] \in Event
    BY <1>2, <1>3, <1>6 DEF ReportClose, Event
  <2>3. RowTypes'
    BY <1>1, <1>6, <2>2, AppendElement DEF ReportClose, Publish, RowTypes
  <2> QED
    BY <1>1, <1>6, <2>1, <2>3, FundsSame DEF ReportClose, TypeOK, TaskTypes, HistoryTypes, tasks, history
<1>7. CASE ReportBalance(w)
  <2>1. JobTypes'
    BY <1>1, <1>7, FinishType DEF ReportBalance
  <2>2. FundsTypes'
    BY <1>1, <1>2, <1>7 DEF ReportBalance, FundsTypes
  <2> QED
    BY <1>7, <2>1, <2>2 DEF ReportBalance, TypeOK, RowTypes, TaskTypes, HistoryTypes, tasks, history
<1> QED
  BY <1>4, <1>5, <1>6, <1>7 DEF Settling

LEMMA EngineTypes ==
    ASSUME TypeOK, EngineStep
    PROVE  TypeOK'
<1> DEFINE x == job[Engine].pos
           j == job[Engine]
<1> USE WorkerTypes
<1>1. JobTypes /\ FundsTypes /\ RowTypes /\ scan \in Scan /\ price \in Nat
  BY DEF TypeOK, TaskTypes
<1>2. j.price \in Nat /\ (j.pc = "tx" => x \in Position)
  BY <1>1, JobRowType DEF JobTypes
<1>3. \A y \in Position : /\ pos[y] \in Row /\ pos[y].margin \in Nat /\ -pos[y].margin \in Int
                          /\ OpenFee(pos[y]) \in Nat
  <2>1. ASSUME NEW y \in Position
        PROVE  pos[y] \in Row /\ pos[y].margin \in Nat
    BY <1>1 DEF RowTypes, Row
  <2> QED
    BY <2>1, OpenFeeType
<1>4. CASE EngineCheck
  <2>1. scan' \in Scan
    <3>1. \A y \in Position : pos[y].tp \in Nat /\ pos[y].sl \in Nat
      BY <1>3 DEF Row
    <3>2. [y \in Position |-> IF IsOpen(y) THEN pos[y].tp ELSE 0] \in [Position -> Nat]
      BY <3>1
    <3>3. [y \in Position |-> IF IsOpen(y) THEN pos[y].sl ELSE 0] \in [Position -> Nat]
      BY <3>1
    <3> QED
      BY <1>4, <3>2, <3>3 DEF EngineCheck, OpenRows, Scan
  <2> QED
    BY <1>1, <1>4, <2>1, FundsSame DEF EngineCheck, TypeOK, RowTypes, JobTypes, TaskTypes, HistoryTypes, history
<1>5. ASSUME NEW y \in Position, EngineVisit(y)
      PROVE  TypeOK'
  <2>1. scan' \in Scan
    BY <1>1, <1>5 DEF EngineVisit, Scan
  <2>2. ASSUME NEW kind \in {"auto", "liq"},
               job' = [job EXCEPT ![Engine] = [Idle EXCEPT !.pc = "tx", !.kind = kind, !.pos = y, !.price = price]]
        PROVE  JobTypes'
    <3> DEFINE k == [Idle EXCEPT !.pc = "tx", !.kind = kind, !.pos = y, !.price = price]
    <3>1. k \in Job /\ k.pos = y /\ k.pc = "tx"
      BY <1>1, IdleType DEF Job, Label, Kind
    <3>2. job' = [job EXCEPT ![Engine] = k]
      BY <2>2
    <3> HIDE DEF k
    <3> QED
      BY <1>1, <3>1, <3>2, BeginType DEF HasNewRow
  <2>3. JobTypes'
    <3>1. CASE UNCHANGED job
      BY <1>1, <3>1 DEF JobTypes
    <3> QED
      BY <1>5, <2>2, <3>1 DEF EngineVisit
  <2> QED
    BY <1>1, <1>5, <2>1, <2>3, FundsSame DEF EngineVisit, TypeOK, RowTypes, TaskTypes, HistoryTypes, history
<1>6. CASE AutoClose
  <2> DEFINE pnl == Larger(CalcUnrealizedPnL(pos[x], j.price), -pos[x].margin)
  <2>1. x \in Position
    BY <1>2, <1>6 DEF AutoClose
  <2>2. pnl \in Int
    BY <1>2, <1>3, <2>1, ProfitType, LargerType
  <2>3. CloseRow(Engine, x, "auto", "CLOSED", pnl - OpenFee(pos[x]), pnl)
    BY <1>6 DEF AutoClose
  <2> HIDE DEF pnl
  <2>4. pnl - OpenFee(pos[x]) \in Int
    BY <1>3, <2>1, <2>2
  <2> HIDE DEF x
  <2> QED
    BY <2>1, <2>2, <2>3, <2>4, CloseRowTypes
<1>7. CASE Liquidate
  <2>1. x \in Position
    BY <1>2, <1>7 DEF Liquidate
  <2>2. CloseRow(Engine, x, "liq", "LIQUIDATED", -pos[x].margin, -pos[x].margin)
    BY <1>7 DEF Liquidate
  <2> HIDE DEF x
  <2> QED
    BY <1>3, <2>1, <2>2, CloseRowTypes
<1>8. CASE SparePosition
  <2>1. JobTypes'
    BY <1>1, <1>8, FinishType DEF SparePosition
  <2> QED
    BY <1>1, <1>8, <2>1, FundsSame DEF SparePosition, TypeOK, RowTypes, TaskTypes, HistoryTypes, tasks, history
<1> QED
  BY <1>4, <1>5, <1>6, <1>7, <1>8, SettlingTypes DEF EngineStep

LEMMA FunderTypes ==
    ASSUME TypeOK, FunderStep
    PROVE  TypeOK'
<1> USE WorkerTypes
<1>1. JobTypes /\ FundsTypes /\ RowTypes /\ fund \in FundTask /\ price \in Nat
  BY DEF TypeOK, TaskTypes
<1>2. fund.mark \in Nat /\ fund.rate \in Int /\ fund.n \in Nat
  BY <1>1 DEF FundTask
<1>3. ASSUME NEW index \in Index \cup {price}, Settle(index)
      PROVE  TypeOK'
  <2>1. index \in Nat /\ index > 0
    BY <1>1, <1>3, NumberAssumption DEF Settle
  <2>2. ((price - index) * Basis) \div index \in Int
    <3>1. (price - index) * Basis \in Int
      BY <1>1, <2>1 DEF Basis
    <3> QED
      BY <2>1, <3>1, DivInt
  <2>3. FundingRate(price, index) \in Int
    BY <2>2, LargerType DEF FundingRate, MaxFundingRate
  <2>4. fund' \in FundTask
    BY <1>1, <1>2, <1>3, <2>3 DEF Settle, FundTask, OpenRows
  <2> QED
    BY <1>1, <1>3, <2>4, FundsSame DEF Settle, TypeOK, RowTypes, JobTypes, TaskTypes, HistoryTypes, history
<1>4. ASSUME NEW x \in Position, ApplyPayment(x)
      PROVE  TypeOK'
  <2> DEFINE amount == FundingAmount(x)
  <2>1. pos[x] \in Row /\ pos[x].size \in Nat
    BY <1>1 DEF RowTypes, Row
  <2>2. amount \in Int
    <3>1. SignedRate(x) \in Int
      BY <1>2 DEF SignedRate
    <3>2. SignedRate(x) * pos[x].size * fund.mark \in Int
      BY <1>2, <2>1, <3>1
    <3> QED
      BY <3>2, DivInt DEF FundingAmount, Basis
  <2>3. fund' \in FundTask
    BY <1>1, <1>4 DEF ApplyPayment, FundTask
  <2>4. CASE UNCHANGED <<payments, job>>
    BY <1>1, <1>4, <2>3, <2>4, FundsSame DEF ApplyPayment, TypeOK, RowTypes, JobTypes, TaskTypes, HistoryTypes, history
  <2>5. CASE ~UNCHANGED <<payments, job>>
    <3> DEFINE k == [Idle EXCEPT !.pc = "apply", !.kind = "funding", !.pos = x, !.row = pos[x],
                                 !.delta = amount]
    <3>1. job' = [job EXCEPT ![Funder] = k] /\ payments' = [payments EXCEPT ![x][fund.n] = amount]
      BY <1>4, <2>5 DEF ApplyPayment
    <3> HIDE DEF amount
    <3>2. k \in Job /\ k.pos = x /\ k.pc = "apply"
      BY <2>1, <2>2, IdleType DEF Job, Label, Kind
    <3> HIDE DEF k
    <3>3. JobTypes'
      BY <1>1, <3>1, <3>2, BeginType DEF HasNewRow
    <3>4. payments' \in [Position -> [1 .. MaxSettlements -> Int]]
      BY <2>2, <3>1 DEF TypeOK, TaskTypes
    <3> QED
      BY <1>1, <1>4, <2>3, <3>3, <3>4, FundsSame DEF ApplyPayment, TypeOK, RowTypes, TaskTypes, HistoryTypes, history
  <2> QED
    BY <2>4, <2>5
<1> QED
  BY <1>3, <1>4, SettlingTypes DEF FunderStep

LEMMA WorldTypes ==
    ASSUME TypeOK,
           \/ ProjectPosition \/ LoseEvent \/ PriceMoves \/ Restart
           \/ \E u \in User : OtherDebit(u)
           \/ \E x \in Position, tp, sl \in Trigger : UpdateTPSL(x, tp, sl)
    PROVE  TypeOK'
<1>1. JobTypes /\ FundsTypes /\ RowTypes
  BY DEF TypeOK
<1>2. CASE ProjectPosition
  <2>1. Head(events) \in Event /\ events' \in Seq(Event) /\ uncommitted' \in Seq(Event)
    BY <1>1, <1>2, ReadElement DEF ProjectPosition
  <2>2. RowTypes'
    <3> DEFINE e == Head(events)
    <3>1. e.pos \in Position /\ e.status \in {"OPEN", "CLOSED"} /\ e.pnl \in Int
      BY <2>1 DEF Event
    <3>2. pos' = [pos EXCEPT ![e.pos] = [@ EXCEPT !.status = e.status, !.pnl = e.pnl]]
      BY <1>1, <1>2 DEF ProjectPosition, RowTypes
    <3> HIDE DEF e
    <3>3. pos' \in [Position -> Row]
      BY <1>1, <3>1, <3>2 DEF RowTypes, Row
    <3> QED
      BY <2>1, <3>3 DEF RowTypes
  <2> QED
    BY <1>1, <1>2, <2>2, FundsSame DEF ProjectPosition, TypeOK, JobTypes, TaskTypes, HistoryTypes, tasks, history
<1>3. CASE LoseEvent
  <2>1. RowTypes'
    BY <1>1, <1>3, ReadElement DEF LoseEvent, RowTypes
  <2> QED
    BY <1>1, <1>3, <2>1, FundsSame DEF LoseEvent, TypeOK, JobTypes, TaskTypes, HistoryTypes, tasks, history
<1>4. CASE PriceMoves
  <2>1. price' \in Nat
    BY <1>4, NumberAssumption DEF PriceMoves
  <2> QED
    BY <1>1, <1>4, <2>1, FundsSame DEF PriceMoves, TypeOK, RowTypes, JobTypes, TaskTypes, HistoryTypes, tasks, history
<1>5. CASE Restart
  <2>1. JobTypes'
    BY <1>5, IdleType DEF Restart, JobTypes
  <2>2. scan' \in Scan /\ fund' \in FundTask
    BY <1>5 DEF Restart, ScanDone, Scan, FundTask, TypeOK, TaskTypes
  <2>3. RowTypes'
    BY <1>1, <1>5, BackElement DEF Restart, RowTypes
  <2> QED
    BY <1>1, <1>5, <2>1, <2>2, <2>3, FundsSame DEF Restart, TypeOK, RowTypes, TaskTypes, HistoryTypes, history
<1>6. ASSUME NEW u \in User, OtherDebit(u)
      PROVE  TypeOK'
  <2>1. PICK left \in {InitBal \div 2, 0} : Add(u, left - bal[u])
    BY <1>6 DEF OtherDebit
  <2>2. left \in Nat /\ bal[u] \in Nat
    BY <1>1, NumberAssumption, DivNat DEF FundsTypes
  <2>3. left - bal[u] \in Int /\ bal[u] + (left - bal[u]) >= 0
    BY <2>2
  <2>4. FundsTypes'
    BY <1>1, <2>1, <2>3, AddTypes
  <2> QED
    BY <1>1, <1>6, <2>4 DEF OtherDebit, TypeOK, RowTypes, JobTypes, TaskTypes, HistoryTypes, tasks, history
<1>7. ASSUME NEW x \in Position, NEW tp \in Trigger, NEW sl \in Trigger, UpdateTPSL(x, tp, sl)
      PROVE  TypeOK'
  <2>1. tp \in Nat /\ sl \in Nat
    BY NumberAssumption
  <2>2. pos' = [pos EXCEPT ![x] = [@ EXCEPT !.tp = tp, !.sl = sl]]
    BY <1>1, <1>7 DEF UpdateTPSL, RowTypes
  <2>3. pos' \in [Position -> Row]
    BY <1>1, <2>1, <2>2 DEF RowTypes, Row
  <2>4. RowTypes'
    BY <1>1, <1>7, <2>3 DEF UpdateTPSL, RowTypes
  <2> QED
    BY <1>1, <1>7, <2>4, FundsSame DEF UpdateTPSL, TypeOK, JobTypes, TaskTypes, HistoryTypes, tasks, history
<1> QED
  BY <1>2, <1>3, <1>4, <1>5, <1>6, <1>7

LEMMA TypeInit == ASSUME Init PROVE TypeOK
<1>1. price \in Nat
  BY NumberAssumption DEF Init
<1>2. FundsTypes /\ RowTypes /\ HistoryTypes
  BY NoRowType, NumberAssumption DEF Init, FundsTypes, RowTypes, HistoryTypes
<1>3. JobTypes
  BY IdleType DEF Init, JobTypes
<1>4. TaskTypes
  BY DEF Init, TaskTypes, Scan, ScanDone, FundTask
<1> QED
  BY <1>1, <1>2, <1>3, <1>4 DEF TypeOK

LEMMA TypeStep ==
    ASSUME TypeOK, [Next]_vars
    PROVE  TypeOK'
<1>1. CASE UNCHANGED vars
  BY <1>1 DEF vars, wallet, tasks, history, TypeOK, FundsTypes, RowTypes, JobTypes, TaskTypes, HistoryTypes
<1>2. ASSUME NEW p \in Proc, Arrive(p) \/ Serve(p)
      PROVE  TypeOK'
  BY <1>2, ArriveTypes, OpeningTypes, SettlingTypes, WorkerTypes DEF Serve
<1> QED
  BY <1>1, <1>2, EngineTypes, FunderTypes, WorldTypes DEF Next

(* Every variable keeps its type, whatever fails and however requests,     *)
(* engine, funding and projector interleave: no balance and no lock of a   *)
(* user is ever negative, and nobody settles a row that was not found.     *)
THEOREM TypeCorrect == Spec => []TypeOK
<1>1. Init => TypeOK
  BY TypeInit
<1>2. TypeOK /\ [Next]_vars => TypeOK'
  BY TypeStep
<1> QED
  BY <1>1, <1>2, PTL DEF Spec

-----------------------------------------------------------------------------
(* Closing, when the projector keeps up *)

(* Only rows that were never closed are open or may still be opened, and   *)
(* an opening that is still to be told is of a row that is open: only its  *)
(* OPEN event could open a closed row again.                               *)
OpenedOnce ==
    /\ \A x \in Position : pos[x].status \in {"NONE", "OPEN"} => closings[x] = 0
    /\ KeepsUp

(* The one goroutine that closed x and has not settled it yet. *)
Due(w, x) == /\ job[w].pc \in {"unlock", "apply"}
             /\ job[w].kind # "funding"
             /\ job[w].pos = x

(* What a closing has still to take is at most the margin, nothing was     *)
(* moved before, and nobody else is settling the same row.                 *)
SettledByOne ==
    /\ \A x \in Position : closings[x] = 0 => moved[x] = 0
    /\ \A w \in Worker, x \in Position :
          Due(w, x) => closings[x] = 1 /\ moved[x] = 0 /\ job[w].delta >= -pos[x].margin
    /\ \A v, w \in Worker, x \in Position : Due(v, x) /\ Due(w, x) => v = w

CloseInv == TypeOK /\ OpenedOnce /\ SettledOnce /\ SettledByOne /\ LossCapped

(* Most steps announce and settle nothing new. *)
NothingToTell ==
    \A p \in Proc : job'[p].pc = "announce" => job[p].pc = "announce" /\ job'[p].pos = job[p].pos
NothingToSettle ==
    \A w \in Worker, x \in Position : Due(w, x)' => Due(w, x) /\ job'[w].delta = job[w].delta
JobQuiet == NothingToTell /\ NothingToSettle

LEMMA GotoQuiet ==
    ASSUME JobTypes, NEW w \in Worker, NEW l \in Label, Goto(w, l), l # "announce",
           l \in {"unlock", "apply"} => job[w].pc \in {"unlock", "apply"}
    PROVE  JobQuiet
<1>1. \A v \in Worker : /\ job'[v].pc = IF v = w THEN l ELSE job[v].pc
                        /\ job'[v].pos = job[v].pos /\ job'[v].kind = job[v].kind
                        /\ job'[v].delta = job[v].delta
  BY DEF Goto, JobTypes, Job
<1> QED
  BY <1>1, WorkerTypes DEF JobQuiet, NothingToTell, NothingToSettle, Due

LEMMA FinishQuiet ==
    ASSUME JobTypes, NEW w \in Worker, Finish(w)
    PROVE  JobQuiet
<1>1. \A v \in Worker : job'[v] = IF v = w THEN Idle ELSE job[v]
  BY DEF Finish, JobTypes
<1> QED
  BY <1>1, IdleType, WorkerTypes DEF JobQuiet, NothingToTell, NothingToSettle, Due

LEMMA BeginQuiet ==
    ASSUME JobTypes, NEW w \in Worker, NEW j \in Job, job' = [job EXCEPT ![w] = j],
           j.pc \notin {"announce", "unlock"}, j.pc = "apply" => j.kind = "funding"
    PROVE  JobQuiet
<1>1. \A v \in Worker : job'[v] = IF v = w THEN j ELSE job[v]
  BY DEF JobTypes
<1> QED
  BY <1>1, WorkerTypes DEF JobQuiet, NothingToTell, NothingToSettle, Due

LEMMA SameQuiet == ASSUME UNCHANGED job PROVE JobQuiet
BY DEF JobQuiet, NothingToTell, NothingToSettle, Due

(* Steps that neither create, close nor settle a row. *)
LEMMA QuietKeeps ==
    ASSUME CloseInv, TypeOK', KeepsUp', JobQuiet, UNCHANGED <<closings, moved>>,
           \A x \in Position :
              /\ pos'[x].margin = pos[x].margin
              /\ pos'[x].status \in {"NONE", "OPEN"} => pos[x].status \in {"NONE", "OPEN"}
    PROVE  CloseInv'
<1>2. OpenedOnce'
  BY DEF CloseInv, OpenedOnce
<1>3. SettledByOne'
  BY DEF CloseInv, SettledByOne, JobQuiet, NothingToSettle
<1> QED
  BY <1>2, <1>3 DEF CloseInv, SettledOnce, LossCapped

(* The row of a new position is open and was never closed. *)
LEMMA CreateKeeps ==
    ASSUME CloseInv, TypeOK', KeepsUp', NEW p \in Proc, CreateRow(p)
    PROVE  CloseInv'
<1> USE WorkerTypes
<1>1. JobTypes /\ RowTypes
  BY DEF CloseInv, TypeOK
<1>2. job[p].row \in Row /\ job[p].row.margin \in Nat /\ job[p].row.status = "OPEN"
  BY <1>1, JobRowType DEF JobTypes, CreateRow
<1>3. CASE Goto(p, "refund") /\ UNCHANGED pos
  <2>1. JobQuiet
    BY <1>1, <1>3, GotoQuiet DEF Label
  <2> QED
    BY <1>3, <2>1, QuietKeeps DEF CreateRow, history
<1>4. ASSUME NEW x \in Position, pos[x].status = "NONE", pos' = [pos EXCEPT ![x] = job[p].row],
             job' = [job EXCEPT ![p].pc = "announce", ![p].pos = x]
      PROVE  CloseInv'
  <2>1. /\ pos'[x] = job[p].row
        /\ \A y \in Position \ {x} : pos'[y] = pos[y]
    BY <1>1, <1>4 DEF RowTypes
  <2>2. \A v \in Worker :
           /\ job'[v].pc = IF v = p THEN "announce" ELSE job[v].pc
           /\ job'[v].pos = IF v = p THEN x ELSE job[v].pos
           /\ job'[v].kind = job[v].kind /\ job'[v].delta = job[v].delta
    BY <1>1, <1>4 DEF JobTypes, Job
  <2>3. NothingToSettle
    BY <2>2 DEF NothingToSettle, Due
  <2>4. UNCHANGED <<closings, moved>>
    BY <1>4 DEF CreateRow, history
  <2>5. closings[x] = 0 /\ moved[x] = 0
    BY <1>4 DEF CloseInv, OpenedOnce, SettledByOne
  <2>7. OpenedOnce'
    BY <2>1, <2>4, <2>5 DEF CloseInv, OpenedOnce
  <2>8. \A v \in Worker : ~Due(v, x)
    BY <2>5 DEF CloseInv, SettledByOne
  <2>9. SettledByOne'
    BY <2>1, <2>3, <2>4, <2>8 DEF CloseInv, SettledByOne, NothingToSettle
  <2>10. LossCapped'
    BY <1>2, <2>1, <2>4, <2>5 DEF CloseInv, LossCapped
  <2> QED
    BY <2>4, <2>7, <2>9, <2>10 DEF CloseInv, SettledOnce
<1> QED
  BY <1>3, <1>4 DEF CreateRow

(* A closing finds the row open, so it is the first. *)
LEMMA CloseRowKeeps ==
    ASSUME CloseInv, TypeOK', KeepsUp', NEW w \in Worker, NEW x \in Position, IsOpen(x),
           NEW kind \in {"user", "auto", "liq"}, NEW status \in {"CLOSED", "LIQUIDATED"},
           NEW pnl \in Int, NEW delta \in Int, delta >= -pos[x].margin,
           CloseRow(w, x, kind, status, pnl, delta)
    PROVE  CloseInv'
<1> USE WorkerTypes
<1>1. JobTypes /\ RowTypes /\ closings \in [Position -> Nat]
  BY DEF CloseInv, TypeOK, HistoryTypes
<1>2. /\ pos'[x].status = status /\ pos'[x].margin = pos[x].margin
      /\ \A y \in Position \ {x} : pos'[y] = pos[y]
  BY <1>1 DEF CloseRow, RowTypes, Row
<1>3. closings[x] = 0 /\ moved[x] = 0
  BY DEF CloseInv, OpenedOnce, SettledByOne, IsOpen
<1>4. closings'[x] = 1 /\ \A y \in Position \ {x} : closings'[y] = closings[y]
  BY <1>1, <1>3 DEF CloseRow
<1>5. UNCHANGED moved
  BY DEF CloseRow
<1>6. /\ job'[w].pc = "unlock" /\ job'[w].pos = x /\ job'[w].delta = delta
      /\ \A v \in Worker \ {w} : job'[v] = job[v]
  BY <1>1, IdleType DEF CloseRow, JobTypes, Job
<1>8. OpenedOnce'
  BY <1>2, <1>4 DEF CloseInv, OpenedOnce
<1>9. \A v \in Worker : ~Due(v, x)
  BY <1>3 DEF CloseInv, SettledByOne
<1>10. \A v \in Worker, y \in Position : Due(v, y)' => IF v = w THEN y = x ELSE y # x /\ Due(v, y)
  BY <1>6, <1>9 DEF Due
<1>11. SettledByOne'
  <2>1. \A y \in Position : closings'[y] = 0 => moved'[y] = 0
    BY <1>4, <1>5 DEF CloseInv, SettledByOne
  <2>2. ASSUME NEW v \in Worker, NEW y \in Position, Due(v, y)'
        PROVE  closings'[y] = 1 /\ moved'[y] = 0 /\ job'[v].delta >= -pos'[y].margin
    <3>1. CASE v = w
      BY <1>2, <1>3, <1>4, <1>5, <1>6, <1>10, <2>2, <3>1
    <3>2. CASE v # w
      BY <1>2, <1>4, <1>5, <1>6, <1>10, <2>2, <3>2 DEF CloseInv, SettledByOne
    <3> QED
      BY <3>1, <3>2
  <2>3. \A u, v \in Worker, y \in Position : Due(u, y)' /\ Due(v, y)' => u = v
    BY <1>10 DEF CloseInv, SettledByOne
  <2> QED
    BY <2>1, <2>2, <2>3 DEF SettledByOne
<1>12. SettledOnce' /\ LossCapped'
  BY <1>2, <1>4, <1>5 DEF CloseInv, SettledOnce, LossCapped
<1> QED
  BY <1>8, <1>11, <1>12 DEF CloseInv

(* The wallet adds what is due or nothing. *)
LEMMA MovesDelta ==
    ASSUME JobTypes, FundsTypes, NEW w \in Worker, SettleApply(w)
    PROVE  LET u == job[w].row.user IN bal'[u] - bal[u] \in {0, job[w].delta}
<1> DEFINE u == job[w].row.user
           d == job[w].delta
<1>1. u \in User /\ d \in Int
  BY JobRowType
<1>2. Add(u, d) \/ Deduct(u, -d) \/ UNCHANGED wallet
  BY DEF SettleApply, Fails
<1>3. Add(u, d) => bal'[u] = bal[u] + d
  BY <1>1 DEF Add, FundsTypes
<1>4. Deduct(u, -d) => bal'[u] = bal[u] + (-(-d))
  BY <1>1 DEF Deduct, Add, FundsTypes
<1>5. bal[u] \in Int
  BY <1>1 DEF FundsTypes
<1> HIDE DEF u, d
<1>6. bal'[u] - bal[u] \in {0, d}
  BY <1>1, <1>2, <1>3, <1>4, <1>5 DEF wallet
<1> QED
  BY <1>6 DEF u, d

(* The wallet moves what is due, or nothing, and only once. *)
LEMMA ApplyKeeps ==
    ASSUME CloseInv, TypeOK', KeepsUp', NEW w \in Worker, SettleApply(w)
    PROVE  CloseInv'
<1> DEFINE u == job[w].row.user
           d == job[w].delta
           x == job[w].pos
<1>1. JobTypes /\ FundsTypes /\ moved \in [Position -> Int] /\ RowTypes
  BY DEF CloseInv, TypeOK, HistoryTypes
<1>2. u \in User /\ d \in Int /\ x \in Position /\ job[w].pc = "apply"
  BY <1>1, JobRowType DEF JobTypes, SettleApply
<1>3. UNCHANGED <<pos, closings>> /\ Goto(w, "report")
  BY DEF SettleApply
<1>4. JobQuiet
  BY <1>1, <1>3, GotoQuiet DEF Label
<1>5. CASE job[w].kind = "funding"
  <2>1. UNCHANGED moved
    BY <1>5 DEF SettleApply
  <2> QED
    BY <1>3, <1>4, <2>1, QuietKeeps
<1>6. CASE job[w].kind # "funding"
  <2>1. Due(w, x)
    BY <1>2, <1>6 DEF Due
  <2>2. closings[x] = 1 /\ moved[x] = 0 /\ d >= -pos[x].margin
    BY <1>2, <2>1 DEF CloseInv, SettledByOne
  <2>3. bal'[u] - bal[u] \in {0, d}
    BY <1>1, <1>2, MovesDelta
  <2>4. moved'[x] \in {0, d} /\ \A y \in Position \ {x} : moved'[y] = moved[y]
    <3> DEFINE change == bal'[u] - bal[u]
    <3>1. moved' = [moved EXCEPT ![x] = @ + change]
      BY <1>6 DEF SettleApply
    <3>2. change \in {0, d}
      BY <2>3
    <3> HIDE DEF change, x, d
    <3> QED
      BY <1>1, <1>2, <2>2, <3>1, <3>2
  <2>5. pos[x].margin \in Nat
    BY <1>1, <1>2 DEF RowTypes, Row
  <2>6. LossCapped'
    <3>1. \A y \in Position : moved'[y] >= -pos[y].margin
      <4> HIDE DEF x, d
      <4> QED
        BY <1>2, <2>2, <2>4, <2>5 DEF CloseInv, LossCapped
    <3> QED
      BY <1>3, <3>1 DEF LossCapped
  <2>7. \A v \in Worker, y \in Position : Due(v, y)' => y # x
    <3>1. job'[w].pc = "report"
      BY <1>1, <1>3 DEF Goto, JobTypes, Job
    <3>2. \A v \in Worker : Due(v, x) => v = w
      BY <1>2, <2>1 DEF CloseInv, SettledByOne
    <3> QED
      BY <1>4, <3>1, <3>2 DEF JobQuiet, NothingToSettle, Due
  <2>8. SettledByOne'
    <3> HIDE DEF x, d
    <3> QED
      BY <1>2, <1>3, <1>4, <2>2, <2>4, <2>7 DEF CloseInv, SettledByOne, JobQuiet, NothingToSettle
  <2>9. OpenedOnce'
    BY <1>3 DEF CloseInv, OpenedOnce
  <2> QED
    BY <1>3, <2>6, <2>8, <2>9 DEF CloseInv, SettledOnce
<1> QED
  BY <1>5, <1>6

LEMMA SettlingKeeps ==
    ASSUME CloseInv, TypeOK', KeepsUp', NEW w \in Worker, Settling(w)
    PROVE  CloseInv'
<1>1. JobTypes /\ RowTypes
  BY DEF CloseInv, TypeOK
<1>2. CASE SettleUnlock(w)
  <2>1. JobQuiet
    BY <1>1, <1>2, GotoQuiet DEF SettleUnlock, Label
  <2> QED
    BY <1>2, <2>1, QuietKeeps DEF SettleUnlock, history
<1>3. CASE ReportClose(w)
  <2>1. JobQuiet
    BY <1>1, <1>3, FinishQuiet DEF ReportClose
  <2> QED
    BY <1>3, <2>1, QuietKeeps DEF ReportClose, history
<1>4. CASE ReportBalance(w)
  <2>1. JobQuiet
    BY <1>1, <1>4, FinishQuiet DEF ReportBalance
  <2> QED
    BY <1>4, <2>1, QuietKeeps DEF ReportBalance, history
<1> QED
  BY <1>2, <1>3, <1>4, ApplyKeeps DEF Settling

LEMMA OpeningKeeps ==
    ASSUME CloseInv, TypeOK', KeepsUp', NEW p \in Proc,
           \/ CheckBalance(p) \/ LockMargin(p) \/ DeductFee(p) \/ CreateRow(p)
           \/ RefundFee(p) \/ UndoLock(p) \/ AnnounceOpen(p)
    PROVE  CloseInv'
<1> USE WorkerTypes
<1>1. JobTypes /\ RowTypes
  BY DEF CloseInv, TypeOK
<1>2. CASE CheckBalance(p) \/ LockMargin(p) \/ DeductFee(p) \/ RefundFee(p) \/ UndoLock(p)
  <2>1. Finish(p) \/ \E l \in {"lock", "fee", "create", "undo"} : Goto(p, l)
    BY <1>2 DEF CheckBalance, LockMargin, DeductFee, RefundFee, UndoLock
  <2>2. JobQuiet
    BY <1>1, <2>1, FinishQuiet, GotoQuiet DEF Label
  <2>3. UNCHANGED <<pos, closings, moved>>
    BY <1>2 DEF CheckBalance, LockMargin, DeductFee, RefundFee, UndoLock, history
  <2> QED
    BY <2>2, <2>3, QuietKeeps
<1>3. CASE AnnounceOpen(p)
  <2>1. JobQuiet
    BY <1>1, <1>3, FinishQuiet DEF AnnounceOpen
  <2> QED
    BY <1>3, <2>1, QuietKeeps DEF AnnounceOpen, history
<1> QED
  BY <1>2, <1>3, CreateKeeps

LEMMA ArriveKeeps ==
    ASSUME CloseInv, TypeOK', KeepsUp', NEW p \in Proc, Arrive(p)
    PROVE  CloseInv'
<1> USE WorkerTypes
<1>1. JobTypes /\ RowTypes /\ price \in Nat
  BY DEF CloseInv, TypeOK
<1>2. ASSUME NEW u \in User, NEW side \in Side, NEW size \in Size, NEW lev \in Leverage,
             NEW tp \in Trigger, NEW sl \in Trigger, OpenPosition(p, u, side, size, lev, tp, sl)
      PROVE  CloseInv'
  <2> DEFINE j == [Idle EXCEPT !.pc = "check", !.kind = "open",
                               !.row = NewRow(u, side, size, lev, tp, sl)]
  <2>1. NewRow(u, side, size, lev, tp, sl) \in Row
    BY <1>1, NewRowType
  <2>2. j \in Job /\ j.pc = "check"
    BY <2>1, IdleType DEF Job, Label, Kind
  <2>3. job' = [job EXCEPT ![p] = j]
    BY <1>2 DEF OpenPosition
  <2> HIDE DEF j
  <2>4. JobQuiet
    BY <1>1, <2>2, <2>3, BeginQuiet
  <2> QED
    BY <1>2, <2>4, QuietKeeps DEF OpenPosition
<1>3. ASSUME NEW x \in Position, ClosePosition(p, x)
      PROVE  CloseInv'
  <2> DEFINE net == CalcUnrealizedPnL(pos[x], price) - Fee(pos[x].size * price)
  <2>1. pos[x] \in Row /\ pos[x].size \in Nat /\ pos[x].margin \in Nat
    BY <1>1 DEF RowTypes, Row
  <2>2. net \in Int
    BY <1>1, <2>1, ProfitType, TimesNat, FeeType
  <2> HIDE DEF net
  <2>3. OpenFee(pos[x]) \in Nat
    BY <2>1, OpenFeeType
  <2>4. net - OpenFee(pos[x]) \in Int
    BY <2>2, <2>3
  <2>5. -pos[x].margin \in Int
    BY <2>1
  <2>6. Larger(net, -pos[x].margin) \in Int /\ Larger(net, -pos[x].margin) >= -pos[x].margin
    BY <2>2, <2>5, LargerType
  <2>7. IsOpen(x) /\ CloseRow(p, x, "user", "CLOSED", net - OpenFee(pos[x]), Larger(net, -pos[x].margin))
    BY <1>3 DEF ClosePosition, net
  <2> QED
    BY <2>4, <2>6, <2>7, CloseRowKeeps
<1> QED
  BY <1>2, <1>3 DEF Arrive

LEMMA EngineKeeps ==
    ASSUME CloseInv, TypeOK', KeepsUp', EngineStep
    PROVE  CloseInv'
<1> DEFINE x == job[Engine].pos
<1> USE WorkerTypes
<1>1. JobTypes /\ RowTypes /\ price \in Nat
  BY DEF CloseInv, TypeOK
<1>2. job[Engine].price \in Nat /\ (job[Engine].pc = "tx" => x \in Position)
  BY <1>1, JobRowType DEF JobTypes
<1>3. \A y \in Position : /\ pos[y] \in Row /\ -pos[y].margin \in Int
                          /\ -pos[y].margin >= -pos[y].margin /\ OpenFee(pos[y]) \in Nat
  <2>1. ASSUME NEW y \in Position
        PROVE  pos[y] \in Row /\ pos[y].margin \in Nat
    BY <1>1 DEF RowTypes, Row
  <2> QED
    BY <2>1, OpenFeeType
<1>4. CASE EngineCheck
  BY <1>4, SameQuiet, QuietKeeps DEF EngineCheck, history
<1>5. ASSUME NEW y \in Position, EngineVisit(y)
      PROVE  CloseInv'
  <2>1. ASSUME NEW kind \in {"auto", "liq"},
               job' = [job EXCEPT ![Engine] = [Idle EXCEPT !.pc = "tx", !.kind = kind, !.pos = y, !.price = price]]
        PROVE  JobQuiet
    <3> DEFINE k == [Idle EXCEPT !.pc = "tx", !.kind = kind, !.pos = y, !.price = price]
    <3>1. k \in Job /\ k.pc = "tx"
      BY <1>1, IdleType DEF Job, Label, Kind
    <3>2. job' = [job EXCEPT ![Engine] = k]
      BY <2>1
    <3> HIDE DEF k
    <3> QED
      BY <1>1, <3>1, <3>2, BeginQuiet
  <2>2. JobQuiet
    BY <1>5, <2>1, SameQuiet DEF EngineVisit
  <2> QED
    BY <1>5, <2>2, QuietKeeps DEF EngineVisit, history
<1>6. CASE AutoClose
  <2> DEFINE pnl == Larger(CalcUnrealizedPnL(pos[x], job[Engine].price), -pos[x].margin)
  <2>1. x \in Position
    BY <1>2, <1>6 DEF AutoClose
  <2>2. pnl \in Int /\ pnl >= -pos[x].margin
    BY <1>2, <1>3, <2>1, ProfitType, LargerType
  <2>3. IsOpen(x) /\ CloseRow(Engine, x, "auto", "CLOSED", pnl - OpenFee(pos[x]), pnl)
    BY <1>6 DEF AutoClose
  <2> HIDE DEF pnl
  <2>4. pnl - OpenFee(pos[x]) \in Int
    BY <1>3, <2>1, <2>2
  <2> HIDE DEF x
  <2> QED
    BY <2>1, <2>2, <2>3, <2>4, CloseRowKeeps
<1>7. CASE Liquidate
  <2>1. x \in Position
    BY <1>2, <1>7 DEF Liquidate
  <2>2. IsOpen(x) /\ CloseRow(Engine, x, "liq", "LIQUIDATED", -pos[x].margin, -pos[x].margin)
    BY <1>7 DEF Liquidate
  <2> HIDE DEF x
  <2> QED
    BY <1>3, <2>1, <2>2, CloseRowKeeps
<1>8. CASE SparePosition
  <2>1. JobQuiet
    BY <1>1, <1>8, FinishQuiet DEF SparePosition
  <2> QED
    BY <1>8, <2>1, QuietKeeps DEF SparePosition, history
<1> QED
  BY <1>4, <1>5, <1>6, <1>7, <1>8, SettlingKeeps DEF EngineStep

LEMMA FunderKeeps ==
    ASSUME CloseInv, TypeOK', KeepsUp', FunderStep
    PROVE  CloseInv'
<1> USE WorkerTypes
<1>1. JobTypes
  BY DEF CloseInv, TypeOK
<1>2. ASSUME NEW index \in Index \cup {price}, Settle(index)
      PROVE  CloseInv'
  BY <1>2, SameQuiet, QuietKeeps DEF Settle, history
<1>3. ASSUME NEW x \in Position, ApplyPayment(x)
      PROVE  CloseInv'
  <2>1. JobQuiet
    <3> DEFINE k == [Idle EXCEPT !.pc = "apply", !.kind = "funding", !.pos = x, !.row = pos[x],
                                 !.delta = FundingAmount(x)]
    <3>1. CASE job' = [job EXCEPT ![Funder] = k]
      <4>1. k.pc = "apply" /\ k.kind = "funding"
        BY IdleType DEF Job
      <4>2. \A v \in Worker : job'[v] = IF v = Funder THEN k ELSE job[v]
        BY <1>1, <3>1 DEF JobTypes
      <4> HIDE DEF k
      <4> QED
        BY <4>1, <4>2 DEF JobQuiet, NothingToTell, NothingToSettle, Due
    <3> QED
      BY <1>3, <3>1, SameQuiet DEF ApplyPayment
  <2> QED
    BY <1>3, <2>1, QuietKeeps DEF ApplyPayment, history
<1> QED
  BY <1>2, <1>3, SettlingKeeps DEF FunderStep

LEMMA WorldKeeps ==
    ASSUME CloseInv, TypeOK', KeepsUp',
           \/ ProjectPosition \/ LoseEvent \/ PriceMoves \/ Restart
           \/ \E u \in User : OtherDebit(u)
           \/ \E x \in Position, tp, sl \in Trigger : UpdateTPSL(x, tp, sl)
    PROVE  CloseInv'
<1>1. RowTypes
  BY DEF CloseInv, TypeOK
<1>2. CASE ProjectPosition
  <2> DEFINE e == Head(events)
  <2>1. e \in Event /\ e \in Entries /\ e = events[1] /\ 1 \in DOMAIN events /\ e.pos \in Position
    BY <1>1, <1>2, ReadElement DEF ProjectPosition, Event
  <2>2. e.status = "OPEN" => pos[e.pos].status = "OPEN"
    BY <2>1 DEF CloseInv, OpenedOnce, KeepsUp, Announcing, OpenRows, IsOpen
  <2>3. e.status \in {"OPEN", "CLOSED"}
    BY <2>1 DEF Event
  <2>4. pos' = [pos EXCEPT ![e.pos] = [@ EXCEPT !.status = e.status, !.pnl = e.pnl]]
    BY <1>1, <1>2 DEF ProjectPosition, RowTypes
  <2> HIDE DEF e
  <2>5. \A y \in Position :
           /\ pos'[y].margin = pos[y].margin
           /\ pos'[y].status \in {"NONE", "OPEN"} => pos[y].status \in {"NONE", "OPEN"}
    BY <1>1, <2>1, <2>2, <2>3, <2>4 DEF RowTypes, Row
  <2> QED
    BY <1>2, <2>5, SameQuiet, QuietKeeps DEF ProjectPosition, history
<1>3. CASE LoseEvent
  BY <1>3, SameQuiet, QuietKeeps DEF LoseEvent, history
<1>4. CASE PriceMoves
  BY <1>4, SameQuiet, QuietKeeps DEF PriceMoves, history
<1>5. CASE Restart
  <2>1. \A v \in Worker : job'[v].pc = "idle"
    BY <1>5, IdleType DEF Restart
  <2>2. JobQuiet
    BY <2>1, WorkerTypes DEF JobQuiet, NothingToTell, NothingToSettle, Due
  <2> QED
    BY <1>5, <2>2, QuietKeeps DEF Restart, history
<1>6. ASSUME NEW u \in User, OtherDebit(u)
      PROVE  CloseInv'
  BY <1>6, SameQuiet, QuietKeeps DEF OtherDebit, history
<1>7. ASSUME NEW x \in Position, NEW tp \in Trigger, NEW sl \in Trigger, UpdateTPSL(x, tp, sl)
      PROVE  CloseInv'
  <2>1. \A y \in Position : pos'[y].margin = pos[y].margin /\ pos'[y].status = pos[y].status
    BY <1>1, <1>7 DEF UpdateTPSL, RowTypes, Row
  <2> QED
    BY <1>7, <2>1, SameQuiet, QuietKeeps DEF UpdateTPSL, history
<1> QED
  BY <1>2, <1>3, <1>4, <1>5, <1>6, <1>7

LEMMA CloseInit == ASSUME Init PROVE CloseInv
<1>1. \A x \in Position : closings[x] = 0 /\ moved[x] = 0 /\ pos[x].margin = 0
  BY NoRowType DEF Init
<1>2. \A w \in Worker : job[w].pc = "idle"
  BY IdleType DEF Init
<1>3. Announcing = {}
  BY <1>2, WorkerTypes DEF Init, Announcing
<1> QED
  BY <1>1, <1>2, <1>3, TypeInit DEF CloseInv, OpenedOnce, KeepsUp, SettledOnce, SettledByOne, Due, LossCapped

LEMMA CloseStep ==
    ASSUME CloseInv, [Next /\ KeepsUp']_vars
    PROVE  CloseInv'
<1>1. TypeOK'
  BY TypeStep DEF CloseInv
<1>2. CASE UNCHANGED vars
  BY <1>1, <1>2 DEF vars, wallet, tasks, history, CloseInv, OpenedOnce, KeepsUp, Announcing, OpenRows, IsOpen,
                    SettledOnce, SettledByOne, Due, LossCapped
<1>3. ASSUME NEW p \in Proc, Arrive(p) \/ Serve(p), KeepsUp'
      PROVE  CloseInv'
  BY <1>1, <1>3, ArriveKeeps, OpeningKeeps, SettlingKeeps, WorkerTypes DEF Serve
<1> QED
  BY <1>1, <1>2, <1>3, EngineKeeps, FunderKeeps, WorldKeeps DEF Next

(* As long as nobody closes a position before the event that announces it  *)
(* was projected, and no restart gives that event again afterwards, a      *)
(* position is closed and settled at most once, by user, administrator,    *)
(* trigger or liquidation, in any interleaving and after any failure.      *)
(* Both conditions are needed: Spec and RedeliverySpec allow a second      *)
(* closing.                                                                *)
THEOREM ClosedOnce == PromptSpec => []SettledOnce
<1>1. Init => CloseInv
  BY CloseInit
<1>2. CloseInv /\ [Next /\ KeepsUp']_vars => CloseInv'
  BY CloseStep
<1>3. CloseInv => SettledOnce
  BY DEF CloseInv
<1> QED
  BY <1>1, <1>2, <1>3, PTL DEF PromptSpec

(* Under the same conditions no closing, nor all closings of a position     *)
(* together, takes more than the margin, whatever price moves between the  *)
(* check, the transaction and the settlement.                              *)
THEOREM LossIsCapped == PromptSpec => []LossCapped
<1>1. Init => CloseInv
  BY CloseInit
<1>2. CloseInv /\ [Next /\ KeepsUp']_vars => CloseInv'
  BY CloseStep
<1>3. CloseInv => LossCapped
  BY DEF CloseInv
<1> QED
  BY <1>1, <1>2, <1>3, PTL DEF PromptSpec

-----------------------------------------------------------------------------
(* What a closing moves and what its row says *)

Outcome(r) == IF r.status = "LIQUIDATED" THEN r.pnl ELSE Larger(r.pnl + OpenFee(r), -r.margin)
IsClosed(x) == pos[x].status \in {"CLOSED", "LIQUIDATED"}

(* A closing by a user, from its transaction to its event. *)
Reporting(w, x) == /\ job[w].pc \in {"unlock", "apply", "report"}
                   /\ job[w].kind = "user"
                   /\ job[w].pos = x

(* The profit in a row, in the job that closed it and in its event are the *)
(* same, and it is what the job has to settle.                             *)
StoredInv ==
    /\ SettlesAsStored
    /\ \A w \in Worker, x \in Position : Due(w, x) => IsClosed(x) /\ job[w].delta = Outcome(pos[x])
    /\ \A w \in Worker, x \in Position :
          Reporting(w, x) => pos[x].status = "CLOSED" /\ job[w].row.pnl = pos[x].pnl
    /\ \A e \in Entries : e.status = "CLOSED" =>
          pos[e.pos].status = "CLOSED" /\ e.pnl = pos[e.pos].pnl

NothingToReport ==
    \A w \in Worker, x \in Position :
       Reporting(w, x)' => Reporting(w, x) /\ job'[w].row = job[w].row

NoNewClosing == \A e \in Entries' : e.status = "CLOSED" => e \in Entries

SameRow(x) == /\ pos'[x].status = pos[x].status /\ pos'[x].pnl = pos[x].pnl
              /\ pos'[x].size = pos[x].size /\ pos'[x].entry = pos[x].entry
              /\ pos'[x].margin = pos[x].margin

LEMMA GotoReports ==
    ASSUME JobTypes, NEW w \in Worker, NEW l \in Label, Goto(w, l),
           l \in {"unlock", "apply", "report"} => job[w].pc \in {"unlock", "apply", "report"}
    PROVE  NothingToReport
<1>1. \A v \in Worker : /\ job'[v].pc = IF v = w THEN l ELSE job[v].pc
                        /\ job'[v].pos = job[v].pos /\ job'[v].kind = job[v].kind
                        /\ job'[v].row = job[v].row
  BY DEF Goto, JobTypes, Job
<1> QED
  BY <1>1 DEF NothingToReport, Reporting

LEMMA FinishReports ==
    ASSUME JobTypes, NEW w \in Worker, Finish(w)
    PROVE  NothingToReport
<1>1. \A v \in Worker : job'[v] = IF v = w THEN Idle ELSE job[v]
  BY DEF Finish, JobTypes
<1> QED
  BY <1>1, IdleType DEF NothingToReport, Reporting

LEMMA BeginReports ==
    ASSUME JobTypes, NEW w \in Worker, NEW j, job' = [job EXCEPT ![w] = j], j.kind # "user"
    PROVE  NothingToReport
<1>1. \A v \in Worker : job'[v] = IF v = w THEN j ELSE job[v]
  BY DEF JobTypes
<1> QED
  BY <1>1 DEF NothingToReport, Reporting

LEMMA SameReports == ASSUME UNCHANGED job PROVE NothingToReport
BY DEF NothingToReport, Reporting

LEMMA FewerClosings ==
    ASSUME RowTypes, BusRuns \/ \E e \in Event : Told(e) /\ e.status = "OPEN"
    PROVE  NoNewClosing
<1>1. CASE BusRuns
  BY <1>1, FewerEntries DEF NoNewClosing
<1>2. ASSUME NEW e \in Event, Told(e), e.status = "OPEN"
      PROVE  NoNewClosing
  BY <1>2, OneEntryMore DEF NoNewClosing
<1> QED
  BY <1>1, <1>2

(* Steps that close, settle and report nothing. *)
LEMMA StoredKeeps ==
    ASSUME RowTypes, StoredInv, NothingToSettle, NothingToReport, NoNewClosing, UNCHANGED moved,
           \A x \in Position : SameRow(x) \/ (IsOpen(x) /\ IsOpen(x)')
    PROVE  StoredInv'
<1>1. \A x \in Position : SameRow(x) => Outcome(pos'[x]) = Outcome(pos[x])
  BY DEF SameRow, Outcome, OpenFee
<1>2. \A x \in Position : IsClosed(x) => SameRow(x)
  BY DEF IsClosed, IsOpen
<1>3. \A x \in Position : IsClosed(x)' => SameRow(x) /\ IsClosed(x)
  BY DEF IsClosed, IsOpen, SameRow
<1>4. SettlesAsStored'
  <2>1. \A x \in Position : IsClosed(x) => moved[x] \in {0, Outcome(pos[x])}
    BY DEF StoredInv, SettlesAsStored, Outcome, IsClosed
  <2>2. \A x \in Position : IsClosed(x)' => moved'[x] \in {0, Outcome(pos'[x])}
    BY <1>1, <1>3, <2>1
  <2> QED
    BY <2>2 DEF SettlesAsStored, Outcome, IsClosed
<1>5. \A w \in Worker, x \in Position : Due(w, x)' => IsClosed(x)' /\ job'[w].delta = Outcome(pos'[x])
  BY <1>1, <1>2 DEF StoredInv, NothingToSettle, IsClosed, SameRow
<1>6. \A w \in Worker, x \in Position :
         Reporting(w, x)' => pos'[x].status = "CLOSED" /\ job'[w].row.pnl = pos'[x].pnl
  BY <1>2 DEF StoredInv, NothingToReport, IsClosed, SameRow
<1>7. \A e \in Entries' : e.status = "CLOSED" =>
         pos'[e.pos].status = "CLOSED" /\ e.pnl = pos'[e.pos].pnl
  <2>1. ASSUME NEW e \in Entries, e.status = "CLOSED"
        PROVE  pos'[e.pos].status = "CLOSED" /\ e.pnl = pos'[e.pos].pnl
    <3>1. e.pos \in Position
      BY EntriesTyped DEF Event
    <3> QED
      BY <1>2, <2>1, <3>1 DEF StoredInv, IsClosed, SameRow
  <2> QED
    BY <2>1 DEF NoNewClosing
<1> QED
  BY <1>4, <1>5, <1>6, <1>7 DEF StoredInv

LEMMA CreateStores ==
    ASSUME TypeOK, StoredInv, NEW p \in Proc, CreateRow(p)
    PROVE  StoredInv'
<1> USE WorkerTypes
<1>1. JobTypes /\ RowTypes
  BY DEF TypeOK
<1>2. UNCHANGED <<bus, moved>> /\ job[p].pc = "create" /\ job[p].row.status = "OPEN"
  BY <1>1 DEF CreateRow, history, JobTypes
<1>3. CASE Goto(p, "refund") /\ UNCHANGED pos
  <2>1. NothingToSettle /\ NothingToReport
    BY <1>1, <1>3, GotoQuiet, GotoReports DEF Label, JobQuiet
  <2> QED
    BY <1>1, <1>2, <1>3, <2>1, FewerClosings, StoredKeeps DEF SameRow, BusRuns
<1>4. ASSUME NEW x \in Position, pos[x].status = "NONE", pos' = [pos EXCEPT ![x] = job[p].row],
             job' = [job EXCEPT ![p].pc = "announce", ![p].pos = x]
      PROVE  StoredInv'
  <2>1. pos'[x].status = "OPEN" /\ \A y \in Position \ {x} : pos'[y] = pos[y]
    BY <1>1, <1>2, <1>4 DEF RowTypes
  <2>2. \A v \in Worker : IF v = p THEN job'[v].pc = "announce" ELSE job'[v] = job[v]
    BY <1>1, <1>4 DEF JobTypes, Job
  <2>3. /\ \A v \in Worker, y \in Position : Due(v, y)' => v # p /\ Due(v, y)
        /\ \A v \in Worker, y \in Position : Reporting(v, y)' => v # p /\ Reporting(v, y)
    BY <2>2 DEF Due, Reporting
  <2>4. SettlesAsStored'
    BY <1>2, <2>1 DEF StoredInv, SettlesAsStored, OpenFee
  <2>5. \A v \in Worker, y \in Position : Due(v, y)' => IsClosed(y)' /\ job'[v].delta = Outcome(pos'[y])
    <3>1. \A v \in Worker : ~Due(v, x)
      BY <1>4 DEF StoredInv, IsClosed
    <3> QED
      BY <2>1, <2>2, <2>3, <3>1 DEF StoredInv, IsClosed
  <2>6. \A v \in Worker, y \in Position :
           Reporting(v, y)' => pos'[y].status = "CLOSED" /\ job'[v].row.pnl = pos'[y].pnl
    <3>1. \A v \in Worker : ~Reporting(v, x)
      BY <1>4 DEF StoredInv
    <3> QED
      BY <2>1, <2>2, <2>3, <3>1 DEF StoredInv
  <2>7. \A e \in Entries' : e.status = "CLOSED" =>
           pos'[e.pos].status = "CLOSED" /\ e.pnl = pos'[e.pos].pnl
    <3>1. ASSUME NEW e \in Entries, e.status = "CLOSED"
          PROVE  e.pos \in Position \ {x}
      BY <1>1, <1>4, <3>1, EntriesTyped DEF StoredInv, Event
    <3>2. Entries' = Entries
      BY <1>2 DEF Entries
    <3> QED
      BY <2>1, <3>1, <3>2 DEF StoredInv
  <2> QED
    BY <2>4, <2>5, <2>6, <2>7 DEF StoredInv
<1> QED
  BY <1>3, <1>4 DEF CreateRow

(* The transaction of a closing leaves the due to the job. *)
LEMMA CloseRowStores ==
    ASSUME TypeOK, CloseInv, StoredInv, NEW w \in Worker, NEW x \in Position, IsOpen(x),
           NEW kind \in {"user", "auto", "liq"}, NEW status \in {"CLOSED", "LIQUIDATED"},
           kind = "user" => status = "CLOSED",
           NEW pnl \in Int, NEW delta \in Int,
           delta = IF status = "LIQUIDATED" THEN pnl
                   ELSE Larger(pnl + OpenFee(pos[x]), -pos[x].margin),
           CloseRow(w, x, kind, status, pnl, delta)
    PROVE  StoredInv'
<1>1. JobTypes /\ RowTypes
  BY DEF TypeOK
<1>2. /\ pos'[x].status = status /\ pos'[x].pnl = pnl
      /\ pos'[x].margin = pos[x].margin /\ OpenFee(pos'[x]) = OpenFee(pos[x])
      /\ \A y \in Position \ {x} : pos'[y] = pos[y]
  BY <1>1 DEF CloseRow, RowTypes, Row, OpenFee
<1>3. UNCHANGED <<bus, moved>> /\ moved[x] = 0
  BY DEF CloseRow, CloseInv, OpenedOnce, SettledByOne, IsOpen
<1>4. /\ job'[w].pc = "unlock" /\ job'[w].pos = x /\ job'[w].kind = kind
      /\ job'[w].delta = delta /\ job'[w].row = pos'[x]
      /\ \A v \in Worker \ {w} : job'[v] = job[v]
  BY <1>1, IdleType DEF CloseRow, JobTypes, Job
<1>5. \A v \in Worker : ~Due(v, x) /\ ~Reporting(v, x)
  BY DEF StoredInv, IsClosed, IsOpen
<1>6. \A v \in Worker \ {w}, y \in Position :
         (Due(v, y)' => y # x /\ Due(v, y)) /\ (Reporting(v, y)' => y # x /\ Reporting(v, y))
  BY <1>4, <1>5 DEF Due, Reporting
<1>7. \A y \in Position : (Due(w, y)' => y = x) /\ (Reporting(w, y)' => y = x /\ kind = "user")
  BY <1>4 DEF Due, Reporting
<1>8. Outcome(pos'[x]) = delta
  BY <1>2 DEF Outcome
<1>9. SettlesAsStored'
  <2>1. \A y \in Position : IsClosed(y) => moved[y] \in {0, Outcome(pos[y])}
    BY DEF StoredInv, SettlesAsStored, Outcome, IsClosed
  <2>2. \A y \in Position : IsClosed(y)' => moved'[y] \in {0, Outcome(pos'[y])}
    BY <1>2, <1>3, <2>1 DEF IsClosed
  <2> QED
    BY <2>2 DEF SettlesAsStored, Outcome, IsClosed
<1>10. \A v \in Worker, y \in Position : Due(v, y)' => IsClosed(y)' /\ job'[v].delta = Outcome(pos'[y])
  BY <1>2, <1>4, <1>6, <1>7, <1>8 DEF StoredInv, IsClosed
<1>11. \A v \in Worker, y \in Position :
          Reporting(v, y)' => pos'[y].status = "CLOSED" /\ job'[v].row.pnl = pos'[y].pnl
  BY <1>2, <1>4, <1>6, <1>7 DEF StoredInv
<1>12. \A e \in Entries' : e.status = "CLOSED" =>
          pos'[e.pos].status = "CLOSED" /\ e.pnl = pos'[e.pos].pnl
  <2>1. ASSUME NEW e \in Entries, e.status = "CLOSED"
        PROVE  e.pos \in Position \ {x}
    BY <1>1, <2>1, EntriesTyped DEF StoredInv, Event, IsOpen
  <2>2. Entries' = Entries
    BY <1>3 DEF Entries
  <2> QED
    BY <1>2, <2>1, <2>2 DEF StoredInv
<1> QED
  BY <1>9, <1>10, <1>11, <1>12 DEF StoredInv

(* The wallet moves what is due or nothing. *)
LEMMA ApplyStores ==
    ASSUME TypeOK, CloseInv, StoredInv, NEW w \in Worker, SettleApply(w)
    PROVE  StoredInv'
<1> DEFINE u == job[w].row.user
           d == job[w].delta
           x == job[w].pos
<1>1. JobTypes /\ FundsTypes /\ moved \in [Position -> Int] /\ RowTypes
  BY DEF TypeOK, HistoryTypes
<1>2. u \in User /\ d \in Int /\ x \in Position /\ job[w].pc = "apply"
  BY <1>1, JobRowType DEF JobTypes, SettleApply
<1>3. UNCHANGED <<pos, bus>> /\ Goto(w, "report")
  BY DEF SettleApply
<1>4. NothingToSettle /\ NothingToReport /\ NoNewClosing
  BY <1>1, <1>2, <1>3, GotoQuiet, GotoReports, FewerClosings DEF Label, JobQuiet, BusRuns
<1>5. CASE job[w].kind = "funding"
  <2>1. UNCHANGED moved
    BY <1>5 DEF SettleApply
  <2> QED
    BY <1>1, <1>3, <1>4, <2>1, StoredKeeps DEF SameRow
<1>6. CASE job[w].kind # "funding"
  <2>1. Due(w, x)
    BY <1>2, <1>6 DEF Due
  <2>2. moved[x] = 0 /\ d = Outcome(pos[x])
    BY <1>2, <2>1 DEF CloseInv, SettledByOne, StoredInv
  <2>3. bal'[u] - bal[u] \in {0, d}
    BY <1>1, <1>2, MovesDelta
  <2>4. moved'[x] \in {0, d} /\ \A y \in Position \ {x} : moved'[y] = moved[y]
    <3> DEFINE change == bal'[u] - bal[u]
    <3>1. moved' = [moved EXCEPT ![x] = @ + change]
      BY <1>6 DEF SettleApply
    <3>2. change \in {0, d}
      BY <2>3
    <3> HIDE DEF change, x, d
    <3> QED
      BY <1>1, <1>2, <2>2, <3>1, <3>2
  <2>5. SettlesAsStored'
    <3>1. \A y \in Position : IsClosed(y) => moved[y] \in {0, Outcome(pos[y])}
      BY DEF StoredInv, SettlesAsStored, Outcome, IsClosed
    <3> HIDE DEF x, d
    <3>2. \A y \in Position : IsClosed(y) => moved'[y] \in {0, Outcome(pos[y])}
      BY <2>2, <2>4, <3>1
    <3>3. \A y \in Position : IsClosed(y)' => moved'[y] \in {0, Outcome(pos'[y])}
      BY <1>3, <3>2 DEF IsClosed
    <3> QED
      BY <3>3 DEF SettlesAsStored, Outcome, IsClosed
  <2>6. \A v \in Worker, y \in Position :
           Due(v, y)' => IsClosed(y)' /\ job'[v].delta = Outcome(pos'[y])
    BY <1>3, <1>4 DEF StoredInv, NothingToSettle, IsClosed
  <2>7. \A v \in Worker, y \in Position :
           Reporting(v, y)' => pos'[y].status = "CLOSED" /\ job'[v].row.pnl = pos'[y].pnl
    BY <1>3, <1>4 DEF StoredInv, NothingToReport
  <2>8. \A e \in Entries' : e.status = "CLOSED" =>
           pos'[e.pos].status = "CLOSED" /\ e.pnl = pos'[e.pos].pnl
    BY <1>3, <1>4 DEF StoredInv, NoNewClosing
  <2> QED
    BY <2>5, <2>6, <2>7, <2>8 DEF StoredInv
<1> QED
  BY <1>5, <1>6

LEMMA SettlingStores ==
    ASSUME TypeOK, CloseInv, StoredInv, NEW w \in Worker, Settling(w)
    PROVE  StoredInv'
<1>1. JobTypes /\ RowTypes
  BY DEF TypeOK
<1>2. CASE SettleUnlock(w)
  <2>1. NothingToSettle /\ NothingToReport
    BY <1>1, <1>2, GotoQuiet, GotoReports DEF SettleUnlock, Label, JobQuiet
  <2> QED
    BY <1>1, <1>2, <2>1, FewerClosings, StoredKeeps DEF SettleUnlock, history, SameRow, BusRuns
<1>3. CASE ReportClose(w)
  <2> DEFINE e == [pos |-> job[w].pos, status |-> "CLOSED", pnl |-> job[w].row.pnl]
  <2>1. NothingToSettle /\ NothingToReport
    BY <1>1, <1>3, FinishQuiet, FinishReports DEF ReportClose, JobQuiet
  <2>2. UNCHANGED <<pos, moved>>
    BY <1>3 DEF ReportClose, history
  <2>3. CASE UNCHANGED bus
    BY <1>1, <2>1, <2>2, <2>3, FewerClosings, StoredKeeps DEF BusRuns, SameRow
  <2>4. CASE Told(e)
    <3>1. job[w].pos \in Position /\ Reporting(w, job[w].pos)
      BY <1>1, <1>3 DEF ReportClose, JobTypes, Reporting
    <3>2. pos[e.pos].status = "CLOSED" /\ e.pnl = pos[e.pos].pnl
      BY <3>1 DEF StoredInv
    <3>3. e \in Event
      BY <1>1, <3>1, JobRowType DEF Event, Row
    <3> HIDE DEF e
    <3>4. \A d \in Entries' : d.status = "CLOSED" =>
             pos'[d.pos].status = "CLOSED" /\ d.pnl = pos'[d.pos].pnl
      BY <1>1, <2>2, <2>4, <3>2, <3>3, OneEntryMore DEF StoredInv
    <3>5. SettlesAsStored'
      BY <2>2 DEF StoredInv, SettlesAsStored, OpenFee
    <3>6. \A v \in Worker, x \in Position : Due(v, x)' => IsClosed(x)' /\ job'[v].delta = Outcome(pos'[x])
      BY <2>1, <2>2 DEF StoredInv, NothingToSettle, IsClosed
    <3>7. \A v \in Worker, x \in Position :
             Reporting(v, x)' => pos'[x].status = "CLOSED" /\ job'[v].row.pnl = pos'[x].pnl
      BY <2>1, <2>2 DEF StoredInv, NothingToReport
    <3> QED
      BY <3>4, <3>5, <3>6, <3>7 DEF StoredInv
  <2> QED
    BY <1>3, <2>3, <2>4 DEF ReportClose, Publish, Told
<1>4. CASE ReportBalance(w)
  <2>1. NothingToSettle /\ NothingToReport
    BY <1>1, <1>4, FinishQuiet, FinishReports DEF ReportBalance, JobQuiet
  <2> QED
    BY <1>1, <1>4, <2>1, FewerClosings, StoredKeeps DEF ReportBalance, history, SameRow, BusRuns
<1> QED
  BY <1>2, <1>3, <1>4, ApplyStores DEF Settling

LEMMA OpeningStores ==
    ASSUME TypeOK, StoredInv, NEW p \in Proc,
           \/ CheckBalance(p) \/ LockMargin(p) \/ DeductFee(p) \/ CreateRow(p)
           \/ RefundFee(p) \/ UndoLock(p) \/ AnnounceOpen(p)
    PROVE  StoredInv'
<1> USE WorkerTypes
<1>1. JobTypes /\ RowTypes
  BY DEF TypeOK
<1>2. CASE CheckBalance(p) \/ LockMargin(p) \/ DeductFee(p) \/ RefundFee(p) \/ UndoLock(p)
  <2>1. Finish(p) \/ \E l \in {"lock", "fee", "create", "undo"} : Goto(p, l)
    BY <1>2 DEF CheckBalance, LockMargin, DeductFee, RefundFee, UndoLock
  <2>2. NothingToSettle /\ NothingToReport
    BY <1>1, <2>1, FinishQuiet, GotoQuiet, FinishReports, GotoReports DEF Label, JobQuiet
  <2>3. UNCHANGED <<pos, bus, moved>>
    BY <1>2 DEF CheckBalance, LockMargin, DeductFee, RefundFee, UndoLock, history
  <2> QED
    BY <1>1, <2>2, <2>3, FewerClosings, StoredKeeps DEF SameRow, BusRuns
<1>3. CASE AnnounceOpen(p)
  <2>1. NothingToSettle /\ NothingToReport
    BY <1>1, <1>3, FinishQuiet, FinishReports DEF AnnounceOpen, JobQuiet
  <2>2. NoNewClosing
    <3>1. job[p].pos \in Position
      BY <1>1, <1>3 DEF AnnounceOpen, JobTypes
    <3>2. [pos |-> job[p].pos, status |-> "OPEN", pnl |-> 0] \in Event
      BY <3>1 DEF Event
    <3> QED
      BY <1>1, <1>3, <3>2, FewerClosings DEF AnnounceOpen, Publish, BusRuns, Told
  <2> QED
    BY <1>1, <1>3, <2>1, <2>2, StoredKeeps DEF AnnounceOpen, history, SameRow
<1> QED
  BY <1>2, <1>3, CreateStores

(* A user's closing stores the profit after both fees and settles what is  *)
(* left of it after the closing fee.                                       *)
LEMMA ArriveStores ==
    ASSUME TypeOK, CloseInv, StoredInv, NEW p \in Proc, Arrive(p)
    PROVE  StoredInv'
<1> USE WorkerTypes
<1>1. JobTypes /\ RowTypes /\ price \in Nat
  BY DEF TypeOK
<1>2. ASSUME NEW u \in User, NEW side \in Side, NEW size \in Size, NEW lev \in Leverage,
             NEW tp \in Trigger, NEW sl \in Trigger, OpenPosition(p, u, side, size, lev, tp, sl)
      PROVE  StoredInv'
  <2> DEFINE j == [Idle EXCEPT !.pc = "check", !.kind = "open",
                               !.row = NewRow(u, side, size, lev, tp, sl)]
  <2>1. NewRow(u, side, size, lev, tp, sl) \in Row
    BY <1>1, NewRowType
  <2>2. j \in Job /\ j.pc = "check" /\ j.kind = "open"
    BY <2>1, IdleType DEF Job, Label, Kind
  <2>3. job' = [job EXCEPT ![p] = j]
    BY <1>2 DEF OpenPosition
  <2> HIDE DEF j
  <2>4. NothingToSettle /\ NothingToReport
    BY <1>1, <2>2, <2>3, BeginQuiet, BeginReports DEF JobQuiet
  <2> QED
    BY <1>1, <1>2, <2>4, FewerClosings, StoredKeeps DEF OpenPosition, SameRow, BusRuns
<1>3. ASSUME NEW x \in Position, ClosePosition(p, x)
      PROVE  StoredInv'
  <2> DEFINE net == CalcUnrealizedPnL(pos[x], price) - Fee(pos[x].size * price)
             pnl == net - OpenFee(pos[x])
             delta == Larger(net, -pos[x].margin)
  <2>1. pos[x] \in Row /\ pos[x].size \in Nat /\ pos[x].margin \in Nat
    BY <1>1 DEF RowTypes, Row
  <2>2. IsOpen(x) /\ CloseRow(p, x, "user", "CLOSED", pnl, delta)
    BY <1>3 DEF ClosePosition
  <2>3. net \in Int
    BY <1>1, <2>1, ProfitType, TimesNat, FeeType
  <2> HIDE DEF net
  <2>4. OpenFee(pos[x]) \in Nat /\ -pos[x].margin \in Int
    BY <2>1, OpenFeeType
  <2>5. pnl \in Int /\ delta \in Int /\ pnl + OpenFee(pos[x]) = net
    <3>1. delta \in Int
      BY <2>3, <2>4, LargerType
    <3>2. pnl \in Int /\ pnl + OpenFee(pos[x]) = net
      BY <2>3, <2>4
    <3> QED
      BY <3>1, <3>2
  <2>6. delta = Larger(pnl + OpenFee(pos[x]), -pos[x].margin)
    BY <2>5
  <2> HIDE DEF pnl, delta
  <2> QED
    BY <2>2, <2>5, <2>6, CloseRowStores
<1> QED
  BY <1>2, <1>3 DEF Arrive

(* A trigger settles what it stores before the opening fee, a liquidation  *)
(* the margin.                                                             *)
LEMMA EngineStores ==
    ASSUME TypeOK, CloseInv, StoredInv, EngineStep
    PROVE  StoredInv'
<1> DEFINE x == job[Engine].pos
<1> USE WorkerTypes
<1>1. JobTypes /\ RowTypes /\ price \in Nat
  BY DEF TypeOK
<1>2. job[Engine].price \in Nat /\ (job[Engine].pc = "tx" => x \in Position)
  BY <1>1, JobRowType DEF JobTypes
<1>3. \A y \in Position : pos[y] \in Row /\ -pos[y].margin \in Int /\ OpenFee(pos[y]) \in Nat
  <2>1. ASSUME NEW y \in Position
        PROVE  pos[y] \in Row /\ pos[y].margin \in Nat
    BY <1>1 DEF RowTypes, Row
  <2> QED
    BY <2>1, OpenFeeType
<1>4. CASE EngineCheck
  BY <1>1, <1>4, SameQuiet, SameReports, FewerClosings, StoredKeeps
  DEF EngineCheck, history, SameRow, JobQuiet, BusRuns
<1>5. ASSUME NEW y \in Position, EngineVisit(y)
      PROVE  StoredInv'
  <2>1. ASSUME NEW kind \in {"auto", "liq"},
               job' = [job EXCEPT ![Engine] = [Idle EXCEPT !.pc = "tx", !.kind = kind, !.pos = y, !.price = price]]
        PROVE  NothingToSettle /\ NothingToReport
    <3> DEFINE k == [Idle EXCEPT !.pc = "tx", !.kind = kind, !.pos = y, !.price = price]
    <3>1. k \in Job /\ k.pc = "tx" /\ k.kind # "user"
      BY <1>1, IdleType DEF Job, Label, Kind
    <3>2. job' = [job EXCEPT ![Engine] = k]
      BY <2>1
    <3> HIDE DEF k
    <3> QED
      BY <1>1, <3>1, <3>2, BeginQuiet, BeginReports DEF JobQuiet
  <2>2. NothingToSettle /\ NothingToReport
    BY <1>5, <2>1, SameQuiet, SameReports DEF EngineVisit, JobQuiet
  <2> QED
    BY <1>1, <1>5, <2>2, FewerClosings, StoredKeeps DEF EngineVisit, history, SameRow, BusRuns
<1>6. CASE AutoClose
  <2> DEFINE pnl == Larger(CalcUnrealizedPnL(pos[x], job[Engine].price), -pos[x].margin)
  <2>1. x \in Position
    BY <1>2, <1>6 DEF AutoClose
  <2>2. pnl \in Int /\ pnl >= -pos[x].margin
    BY <1>2, <1>3, <2>1, ProfitType, LargerType
  <2>3. IsOpen(x) /\ CloseRow(Engine, x, "auto", "CLOSED", pnl - OpenFee(pos[x]), pnl)
    BY <1>6 DEF AutoClose
  <2> HIDE DEF pnl, x
  <2>4. pnl - OpenFee(pos[x]) \in Int /\ (pnl - OpenFee(pos[x])) + OpenFee(pos[x]) = pnl
    BY <1>3, <2>1, <2>2
  <2>5. pnl = Larger((pnl - OpenFee(pos[x])) + OpenFee(pos[x]), -pos[x].margin)
    BY <1>3, <2>1, <2>2, <2>4 DEF Larger
  <2> QED
    BY <2>1, <2>2, <2>3, <2>4, <2>5, CloseRowStores
<1>7. CASE Liquidate
  <2>1. x \in Position
    BY <1>2, <1>7 DEF Liquidate
  <2>2. IsOpen(x) /\ CloseRow(Engine, x, "liq", "LIQUIDATED", -pos[x].margin, -pos[x].margin)
    BY <1>7 DEF Liquidate
  <2> HIDE DEF x
  <2> QED
    BY <1>3, <2>1, <2>2, CloseRowStores
<1>8. CASE SparePosition
  <2>1. NothingToSettle /\ NothingToReport
    BY <1>1, <1>8, FinishQuiet, FinishReports DEF SparePosition, JobQuiet
  <2> QED
    BY <1>1, <1>8, <2>1, FewerClosings, StoredKeeps DEF SparePosition, history, SameRow, BusRuns
<1> QED
  BY <1>4, <1>5, <1>6, <1>7, <1>8, SettlingStores DEF EngineStep

LEMMA FunderStores ==
    ASSUME TypeOK, CloseInv, StoredInv, FunderStep
    PROVE  StoredInv'
<1> USE WorkerTypes
<1>1. JobTypes /\ RowTypes
  BY DEF TypeOK
<1>2. ASSUME NEW index \in Index \cup {price}, Settle(index)
      PROVE  StoredInv'
  BY <1>1, <1>2, SameQuiet, SameReports, FewerClosings, StoredKeeps DEF Settle, history, SameRow, JobQuiet, BusRuns
<1>3. ASSUME NEW x \in Position, ApplyPayment(x)
      PROVE  StoredInv'
  <2>1. NothingToSettle /\ NothingToReport
    <3> DEFINE k == [Idle EXCEPT !.pc = "apply", !.kind = "funding", !.pos = x, !.row = pos[x],
                                 !.delta = FundingAmount(x)]
    <3>1. CASE job' = [job EXCEPT ![Funder] = k]
      <4>1. k.kind = "funding"
        BY IdleType DEF Job
      <4>2. \A v \in Worker : job'[v] = IF v = Funder THEN k ELSE job[v]
        BY <1>1, <3>1 DEF JobTypes
      <4> HIDE DEF k
      <4> QED
        BY <4>1, <4>2 DEF NothingToSettle, Due, NothingToReport, Reporting
    <3> QED
      BY <1>3, <3>1, SameQuiet, SameReports DEF ApplyPayment, JobQuiet
  <2> QED
    BY <1>1, <1>3, <2>1, FewerClosings, StoredKeeps DEF ApplyPayment, history, SameRow, BusRuns
<1> QED
  BY <1>2, <1>3, SettlingStores DEF FunderStep

(* The projector writes what the row says already, unless it is open.      *)
LEMMA WorldStores ==
    ASSUME TypeOK, CloseInv, StoredInv,
           \/ ProjectPosition \/ LoseEvent \/ PriceMoves \/ Restart
           \/ \E u \in User : OtherDebit(u)
           \/ \E x \in Position, tp, sl \in Trigger : UpdateTPSL(x, tp, sl)
    PROVE  StoredInv'
<1>1. RowTypes
  BY DEF TypeOK
<1>2. CASE ProjectPosition
  <2> DEFINE e == Head(events)
  <2>1. e \in Event /\ e \in Entries /\ e = events[1] /\ 1 \in DOMAIN events /\ e.pos \in Position
    BY <1>1, <1>2, ReadElement DEF ProjectPosition, Event
  <2>2. e.status = "OPEN" => IsOpen(e.pos)
    BY <2>1 DEF CloseInv, OpenedOnce, KeepsUp, Announcing, OpenRows, IsOpen
  <2>3. e.status = "CLOSED" => pos[e.pos].status = "CLOSED" /\ e.pnl = pos[e.pos].pnl
    BY <2>1 DEF StoredInv
  <2>4. e.status \in {"OPEN", "CLOSED"}
    BY <2>1 DEF Event
  <2>5. pos' = [pos EXCEPT ![e.pos] = [@ EXCEPT !.status = e.status, !.pnl = e.pnl]]
    BY <1>1, <1>2 DEF ProjectPosition, RowTypes
  <2> HIDE DEF e
  <2>6. \A y \in Position : SameRow(y) \/ (IsOpen(y) /\ IsOpen(y)')
    BY <1>1, <2>1, <2>2, <2>3, <2>4, <2>5 DEF RowTypes, Row, SameRow, IsOpen
  <2> QED
    BY <1>1, <1>2, <2>6, SameQuiet, SameReports, FewerClosings, StoredKeeps
    DEF ProjectPosition, history, JobQuiet, BusRuns
<1>3. CASE LoseEvent
  BY <1>1, <1>3, SameQuiet, SameReports, FewerClosings, StoredKeeps DEF LoseEvent, history, SameRow, JobQuiet, BusRuns
<1>4. CASE PriceMoves
  BY <1>1, <1>4, SameQuiet, SameReports, FewerClosings, StoredKeeps DEF PriceMoves, history, SameRow, JobQuiet, BusRuns
<1>5. CASE Restart
  <2>1. \A v \in Worker : job'[v].pc = "idle"
    BY <1>5, IdleType DEF Restart
  <2>2. NothingToSettle /\ NothingToReport
    BY <2>1 DEF NothingToSettle, Due, NothingToReport, Reporting
  <2> QED
    BY <1>1, <1>5, <2>2, FewerClosings, StoredKeeps DEF Restart, history, SameRow, BusRuns
<1>6. ASSUME NEW u \in User, OtherDebit(u)
      PROVE  StoredInv'
  BY <1>1, <1>6, SameQuiet, SameReports, FewerClosings, StoredKeeps DEF OtherDebit, history, SameRow, JobQuiet, BusRuns
<1>7. ASSUME NEW x \in Position, NEW tp \in Trigger, NEW sl \in Trigger, UpdateTPSL(x, tp, sl)
      PROVE  StoredInv'
  <2>1. pos' = [pos EXCEPT ![x] = [@ EXCEPT !.tp = tp, !.sl = sl]]
    BY <1>1, <1>7 DEF UpdateTPSL, RowTypes, Row
  <2>2. SameRow(x)
    BY <1>1, <2>1 DEF RowTypes, Row, SameRow
  <2>3. \A y \in Position \ {x} : SameRow(y)
    BY <1>1, <2>1 DEF RowTypes, SameRow
  <2> QED
    BY <1>1, <1>7, <2>2, <2>3, SameQuiet, SameReports, FewerClosings, StoredKeeps DEF UpdateTPSL, history, JobQuiet, BusRuns
<1> QED
  BY <1>2, <1>3, <1>4, <1>5, <1>6, <1>7

LEMMA StoredInit == ASSUME Init PROVE StoredInv
<1>1. \A x \in Position : pos[x].status = "NONE"
  BY NoRowType DEF Init
<1>2. \A w \in Worker : job[w].pc = "idle"
  BY IdleType DEF Init
<1>3. Entries = {}
  BY DEF Init, Entries
<1> QED
  BY <1>1, <1>2, <1>3 DEF StoredInv, SettlesAsStored, Due, Reporting

LEMMA StoredStep ==
    ASSUME CloseInv, StoredInv, [Next /\ KeepsUp']_vars
    PROVE  StoredInv'
<1>1. TypeOK /\ RowTypes
  BY DEF CloseInv, TypeOK
<1>2. CASE UNCHANGED vars
  <2>1. UNCHANGED <<pos, bus, job, moved>>
    BY <1>2 DEF vars, history
  <2> QED
    BY <1>1, <2>1, SameQuiet, SameReports, FewerClosings, StoredKeeps DEF SameRow, JobQuiet, BusRuns
<1>3. ASSUME NEW p \in Proc, Arrive(p) \/ Serve(p)
      PROVE  StoredInv'
  BY <1>1, <1>3, ArriveStores, OpeningStores, SettlingStores, WorkerTypes DEF Serve
<1> QED
  BY <1>1, <1>2, <1>3, EngineStores, FunderStores, WorldStores DEF Next

(* Under the conditions of ClosedOnce, the profit a closed row stores is   *)
(* what closing it moved, or nothing was moved: whoever closed it, at any  *)
(* price, and whatever event was projected into the row afterwards, the    *)
(* first time or again after a restart.                                    *)
THEOREM ClosingAsStored == PromptSpec => []SettlesAsStored
<1>1. Init => CloseInv /\ StoredInv
  BY CloseInit, StoredInit
<1>2. (CloseInv /\ StoredInv) /\ [Next /\ KeepsUp']_vars => (CloseInv /\ StoredInv)'
  BY CloseStep, StoredStep
<1>3. CloseInv /\ StoredInv => SettlesAsStored
  BY DEF StoredInv
<1> QED
  BY <1>1, <1>2, <1>3, PTL DEF PromptSpec

-----------------------------------------------------------------------------
(* The lock behind the margins *)

(* What position x and worker w keep locked of user u. *)
OwedAt(x, u) == IF IsOpen(x) /\ pos[x].user = u THEN pos[x].margin ELSE 0
OwedBy(w, u) == IF Holding(w) /\ job[w].row.user = u THEN job[w].row.margin ELSE 0

Held == {"fee", "create", "refund", "undo", "unlock"}

LEMMA WorkersFinite == IsFiniteSet(Worker)
<1>1. IsFiniteSet({Engine} \cup {Funder})
  BY FS_Singleton, FS_Union
<1>2. IsFiniteSet(Proc)
  BY WorkerAssumption
<1> QED
  BY <1>1, <1>2, FS_Union DEF Worker

LEMMA OwedTypes ==
    ASSUME RowTypes, JobTypes, NEW u \in User
    PROVE  /\ \A x \in Position : OwedAt(x, u) \in Nat
           /\ \A w \in Worker : OwedBy(w, u) \in Nat
<1>1. \A x \in Position : pos[x].margin \in Nat
  BY DEF RowTypes, Row
<1>2. \A w \in Worker : job[w].row.margin \in Nat
  BY JobRowType
<1> QED
  BY <1>1, <1>2 DEF OwedAt, OwedBy

LEMMA MarginIsOwed ==
    ASSUME RowTypes, NEW u \in User
    PROVE  /\ MarginOf(u) = Sum([x \in Position |-> OwedAt(x, u)], Position)
           /\ MarginOf(u) \in Nat
<1> DEFINE f == [x \in Position |-> pos[x].margin]
           g == [x \in Position |-> OwedAt(x, u)]
           T == {x \in Position : IsOpen(x) /\ pos[x].user = u}
<1>1. \A x \in Position : f[x] \in Nat /\ g[x] \in Nat /\ g[x] = IF x \in T THEN f[x] ELSE 0
  BY DEF RowTypes, Row, OwedAt
<1>2. T \in SUBSET Position /\ \A x \in T : f[x] \in Int
  BY <1>1
<1>3. MarginOf(u) = Sum(f, T)
  BY DEF MarginOf
<1> HIDE DEF f, g, T
<1>4. Sum(f, T) = Sum(g, Position)
  BY <1>1, <1>2, SumFilter, PositionAssumption
<1>5. Sum(g, Position) \in Nat
  BY <1>1, SumNat, PositionAssumption
<1> QED
  BY <1>3, <1>4, <1>5 DEF g

LEMMA HeldIsOwed ==
    ASSUME JobTypes, NEW u \in User
    PROVE  /\ HeldBy(u) = Sum([w \in Worker |-> OwedBy(w, u)], Worker)
           /\ HeldBy(u) \in Nat
<1> DEFINE f == [w \in Worker |-> job[w].row.margin]
           g == [w \in Worker |-> OwedBy(w, u)]
           T == {w \in Worker : Holding(w) /\ job[w].row.user = u}
<1>1. \A w \in Worker : f[w] \in Nat /\ g[w] \in Nat /\ g[w] = IF w \in T THEN f[w] ELSE 0
  BY JobRowType DEF OwedBy
<1>2. T \in SUBSET Worker /\ \A w \in T : f[w] \in Int
  BY <1>1
<1>3. HeldBy(u) = Sum(f, T)
  BY DEF HeldBy
<1> HIDE DEF f, g, T
<1>4. Sum(f, T) = Sum(g, Worker)
  BY <1>1, <1>2, SumFilter, WorkersFinite
<1>5. Sum(g, Worker) \in Nat
  BY <1>1, SumNat, WorkersFinite
<1> QED
  BY <1>3, <1>4, <1>5 DEF g

MarginsAreOwed ==
    \A u \in User :
       /\ MarginOf(u) = Sum([x \in Position |-> OwedAt(x, u)], Position)
       /\ HeldBy(u) = Sum([w \in Worker |-> OwedBy(w, u)], Worker)
       /\ MarginOf(u) \in Nat /\ HeldBy(u) \in Nat
       /\ \A x \in Position : OwedAt(x, u) \in Nat
       /\ \A w \in Worker : OwedBy(w, u) \in Nat
LEMMA Owed == RowTypes /\ JobTypes => MarginsAreOwed
BY MarginIsOwed, HeldIsOwed, OwedTypes DEF MarginsAreOwed

LEMMA OwedNext == (RowTypes /\ JobTypes)' => MarginsAreOwed'
BY Owed, PTL

(* Steps after which nobody owes more, or only one row or one worker does. *)
RowsFall == \A x \in Position, u \in User : OwedAt(x, u)' <= OwedAt(x, u)
JobsFall == \A w \in Worker, u \in User : OwedBy(w, u)' <= OwedBy(w, u)
RowsFallBut(x) == \A y \in Position \ {x}, u \in User : OwedAt(y, u)' <= OwedAt(y, u)
JobsFallBut(w) == \A v \in Worker \ {w}, u \in User : OwedBy(v, u)' <= OwedBy(v, u)

LEMMA RowsBound ==
    ASSUME MarginsAreOwed, MarginsAreOwed', NEW u \in User
    PROVE  /\ RowsFall => MarginOf(u)' <= MarginOf(u)
           /\ \A x \in Position :
                 RowsFallBut(x) => MarginOf(u)' - OwedAt(x, u)' <= MarginOf(u) - OwedAt(x, u)
<1> DEFINE f == [y \in Position |-> OwedAt(y, u)]
           g == [y \in Position |-> OwedAt(y, u)']
<1>1. \A y \in Position : /\ f[y] = OwedAt(y, u) /\ g[y] = OwedAt(y, u)'
                          /\ f[y] \in Int /\ g[y] \in Int
  <2>1. \A y \in Position : OwedAt(y, u) \in Nat /\ OwedAt(y, u)' \in Nat
    BY DEF MarginsAreOwed
  <2> QED
    BY <2>1
<1>2. MarginOf(u) = Sum(f, Position) /\ MarginOf(u)' = Sum(g, Position)
  BY DEF MarginsAreOwed
<1> HIDE DEF f, g
<1>3. RowsFall => MarginOf(u)' <= MarginOf(u)
  BY <1>1, <1>2, SumMonotone, PositionAssumption DEF RowsFall
<1>4. ASSUME NEW x \in Position, RowsFallBut(x)
      PROVE  MarginOf(u)' - OwedAt(x, u)' <= MarginOf(u) - OwedAt(x, u)
  <2>1. \A y \in Position \ {x} : g[y] <= f[y]
    BY <1>1, <1>4 DEF RowsFallBut
  <2>2. Sum(g, Position) - g[x] <= Sum(f, Position) - f[x]
    BY <1>1, <2>1, SumBound, PositionAssumption
  <2> QED
    BY <1>1, <1>2, <2>2
<1> QED
  BY <1>3, <1>4

LEMMA JobsBound ==
    ASSUME MarginsAreOwed, MarginsAreOwed', NEW u \in User
    PROVE  /\ JobsFall => HeldBy(u)' <= HeldBy(u)
           /\ \A w \in Worker :
                 JobsFallBut(w) => HeldBy(u)' - OwedBy(w, u)' <= HeldBy(u) - OwedBy(w, u)
<1> DEFINE f == [v \in Worker |-> OwedBy(v, u)]
           g == [v \in Worker |-> OwedBy(v, u)']
<1>1. \A v \in Worker : /\ f[v] = OwedBy(v, u) /\ g[v] = OwedBy(v, u)'
                        /\ f[v] \in Int /\ g[v] \in Int
  <2>1. \A v \in Worker : OwedBy(v, u) \in Nat /\ OwedBy(v, u)' \in Nat
    BY DEF MarginsAreOwed
  <2> QED
    BY <2>1
<1>2. HeldBy(u) = Sum(f, Worker) /\ HeldBy(u)' = Sum(g, Worker)
  BY DEF MarginsAreOwed
<1> HIDE DEF f, g
<1>3. JobsFall => HeldBy(u)' <= HeldBy(u)
  BY <1>1, <1>2, SumMonotone, WorkersFinite DEF JobsFall
<1>4. ASSUME NEW w \in Worker, JobsFallBut(w)
      PROVE  HeldBy(u)' - OwedBy(w, u)' <= HeldBy(u) - OwedBy(w, u)
  <2>1. \A v \in Worker \ {w} : g[v] <= f[v]
    BY <1>1, <1>4 DEF JobsFallBut
  <2>2. Sum(g, Worker) - g[w] <= Sum(f, Worker) - f[w]
    BY <1>1, <2>1, SumBound, WorkersFinite
  <2> QED
    BY <1>1, <1>2, <2>2
<1> QED
  BY <1>3, <1>4

(* Steps that make nobody owe more and no lock smaller. *)
LocksGrow == \A u \in User : lck'[u] >= lck[u]

LEMMA QuietLocks ==
    ASSUME TypeOK, TypeOK', MarginLocked, RowsFall, JobsFall, LocksGrow
    PROVE  MarginLocked'
<1>1. MarginsAreOwed /\ MarginsAreOwed'
  BY Owed, OwedNext DEF TypeOK
<1>2. SUFFICES ASSUME NEW u \in User
               PROVE  MarginOf(u)' + HeldBy(u)' <= lck'[u]
  BY DEF MarginLocked
<1>3. /\ MarginOf(u) \in Nat /\ HeldBy(u) \in Nat /\ MarginOf(u)' \in Nat /\ HeldBy(u)' \in Nat
      /\ lck[u] \in Nat /\ lck'[u] \in Nat
  BY <1>1 DEF MarginsAreOwed, TypeOK, FundsTypes
<1>4. MarginOf(u)' <= MarginOf(u) /\ HeldBy(u)' <= HeldBy(u)
  BY <1>1, RowsBound, JobsBound
<1> QED
  BY <1>3, <1>4 DEF MarginLocked, LocksGrow

(* Steps at which worker w takes over what it locks, or gives it up.       *)
LEMMA WorkerLocks ==
    ASSUME TypeOK, TypeOK', MarginLocked, RowsFall, NEW w \in Worker, JobsFallBut(w),
           \A u \in User : OwedBy(w, u)' - OwedBy(w, u) <= lck'[u] - lck[u]
    PROVE  MarginLocked'
<1>1. MarginsAreOwed /\ MarginsAreOwed'
  BY Owed, OwedNext DEF TypeOK
<1>2. SUFFICES ASSUME NEW u \in User
               PROVE  MarginOf(u)' + HeldBy(u)' <= lck'[u]
  BY DEF MarginLocked
<1>3. /\ MarginOf(u) \in Nat /\ HeldBy(u) \in Nat /\ MarginOf(u)' \in Nat /\ HeldBy(u)' \in Nat
      /\ lck[u] \in Nat /\ lck'[u] \in Nat /\ OwedBy(w, u) \in Nat /\ OwedBy(w, u)' \in Nat
  BY <1>1 DEF MarginsAreOwed, TypeOK, FundsTypes
<1>4. /\ MarginOf(u)' <= MarginOf(u)
      /\ HeldBy(u)' - OwedBy(w, u)' <= HeldBy(u) - OwedBy(w, u)
  BY <1>1, RowsBound, JobsBound
<1>5. OwedBy(w, u)' - OwedBy(w, u) <= lck'[u] - lck[u]
  OBVIOUS
<1>6. MarginOf(u) + HeldBy(u) <= lck[u]
  BY DEF MarginLocked
<1> QED
  BY <1>3, <1>4, <1>5, <1>6

(* Steps at which what is owed passes between worker w and position x. *)
LEMMA HandoverLocks ==
    ASSUME TypeOK, TypeOK', MarginLocked, UNCHANGED lck,
           NEW w \in Worker, JobsFallBut(w), NEW x \in Position, RowsFallBut(x),
           \A u \in User : OwedBy(w, u)' + OwedAt(x, u)' <= OwedBy(w, u) + OwedAt(x, u)
    PROVE  MarginLocked'
<1>1. MarginsAreOwed /\ MarginsAreOwed'
  BY Owed, OwedNext DEF TypeOK
<1>2. SUFFICES ASSUME NEW u \in User
               PROVE  MarginOf(u)' + HeldBy(u)' <= lck'[u]
  BY DEF MarginLocked
<1>3. /\ MarginOf(u) \in Nat /\ HeldBy(u) \in Nat /\ MarginOf(u)' \in Nat /\ HeldBy(u)' \in Nat
      /\ lck[u] \in Nat /\ OwedBy(w, u) \in Nat /\ OwedBy(w, u)' \in Nat
      /\ OwedAt(x, u) \in Nat /\ OwedAt(x, u)' \in Nat
  BY <1>1 DEF MarginsAreOwed, TypeOK, FundsTypes
<1>4. /\ MarginOf(u)' - OwedAt(x, u)' <= MarginOf(u) - OwedAt(x, u)
      /\ HeldBy(u)' - OwedBy(w, u)' <= HeldBy(u) - OwedBy(w, u)
  BY <1>1, RowsBound, JobsBound
<1>5. OwedBy(w, u)' + OwedAt(x, u)' <= OwedBy(w, u) + OwedAt(x, u)
  OBVIOUS
<1>6. MarginOf(u) + HeldBy(u) <= lck[u]
  BY DEF MarginLocked
<1> QED
  BY <1>3, <1>4, <1>5, <1>6

-----------------------------------------------------------------------------
(* What the steps of the goroutines do to it *)

LEMMA HeldTypes ==
    ASSUME JobTypes
    PROVE  \A v \in Worker, u \in User : OwedBy(v, u) \in Nat
BY JobRowType DEF OwedBy

LEMMA GotoOwes ==
    ASSUME JobTypes, NEW w \in Worker, NEW l \in Label, Goto(w, l), l \in Held => Holding(w)
    PROVE  JobsFall
<1>1. \A v \in Worker : job'[v].pc = (IF v = w THEN l ELSE job[v].pc) /\ job'[v].row = job[v].row
  BY DEF Goto, JobTypes, Job
<1>2. \A v \in Worker, u \in User : OwedBy(v, u)' = 0 \/ OwedBy(v, u)' = OwedBy(v, u)
  BY <1>1 DEF OwedBy, Holding, Held
<1>3. \A v \in Worker, u \in User : OwedBy(v, u) \in Nat
  BY HeldTypes
<1> QED
  BY <1>2, <1>3 DEF JobsFall

(* Goroutine w begins or ends a job in which nothing is locked. *)
LEMMA BeginOwes ==
    ASSUME JobTypes, NEW w \in Worker, NEW j, job' = [job EXCEPT ![w] = j], j.pc \notin Held
    PROVE  JobsFall
<1>1. \A v \in Worker : job'[v] = IF v = w THEN j ELSE job[v]
  BY DEF JobTypes
<1>2. \A v \in Worker, u \in User : OwedBy(v, u)' = 0 \/ OwedBy(v, u)' = OwedBy(v, u)
  BY <1>1 DEF OwedBy, Holding, Held
<1>3. \A v \in Worker, u \in User : OwedBy(v, u) \in Nat
  BY HeldTypes
<1> QED
  BY <1>2, <1>3 DEF JobsFall

LEMMA FinishOwes ==
    ASSUME JobTypes, NEW w \in Worker, Finish(w)
    PROVE  JobsFall /\ JobsFallBut(w) /\ \A u \in User : OwedBy(w, u)' = 0
<1>1. JobsFall
  BY BeginOwes, IdleType DEF Finish, Held
<1>2. job'[w].pc = "idle"
  BY IdleType DEF Finish, JobTypes
<1> QED
  BY <1>1, <1>2 DEF JobsFall, JobsFallBut, OwedBy, Holding

LEMMA SameOwes ==
    ASSUME JobTypes, UNCHANGED job
    PROVE  JobsFall
BY HeldTypes DEF JobsFall, OwedBy, Holding

LEMMA SameRowsOwe ==
    ASSUME RowTypes, UNCHANGED pos
    PROVE  RowsFall
<1>1. \A x \in Position, u \in User : OwedAt(x, u)' = OwedAt(x, u)
  BY DEF OwedAt, IsOpen
<1>2. \A x \in Position, u \in User : OwedAt(x, u) \in Nat
  BY DEF OwedAt, RowTypes, Row
<1> QED
  BY <1>1, <1>2 DEF RowsFall

(* Unlocking gives back at most the amount. *)
LEMMA LockChanges ==
    ASSUME FundsTypes, NEW u \in User, NEW n \in Nat
    PROVE  /\ Lock(u, n) => lck'[u] = lck[u] + n /\ LocksGrow
           /\ Unlock(u, n) => /\ lck'[u] >= lck[u] - n
                              /\ \A v \in User \ {u} : lck'[v] = lck[v]
           /\ UNCHANGED wallet => LocksGrow
           /\ UNCHANGED lck => LocksGrow
<1>1. \A v \in User : lck[v] \in Nat
  BY DEF FundsTypes
<1>2. ASSUME Lock(u, n) PROVE lck'[u] = lck[u] + n /\ LocksGrow
  <2>1. \A v \in User : lck'[v] = IF v = u THEN lck[v] + n ELSE lck[v]
    BY <1>2 DEF Lock, FundsTypes
  <2> QED
    BY <1>1, <2>1 DEF LocksGrow
<1>3. ASSUME Unlock(u, n)
      PROVE  lck'[u] >= lck[u] - n /\ \A v \in User \ {u} : lck'[v] = lck[v]
  <2>1. \A v \in User : lck'[v] = IF v = u THEN Larger(lck[v] - n, 0) ELSE lck[v]
    BY <1>3 DEF Unlock, FundsTypes
  <2> QED
    BY <1>1, <2>1 DEF Larger
<1>4. UNCHANGED lck => LocksGrow
  BY <1>1 DEF LocksGrow
<1> QED
  BY <1>2, <1>3, <1>4 DEF wallet

(* A worker that gives up what it locked, unlocked or not. *)
LEMMA UnlockKeeps ==
    ASSUME TypeOK, TypeOK', MarginLocked, UNCHANGED pos, NEW w \in Worker, Holding(w),
           JobsFallBut(w), \A u \in User : OwedBy(w, u)' = 0,
           \/ Unlock(job[w].row.user, job[w].row.margin)
           \/ Fails(Unlock(job[w].row.user, job[w].row.margin))
    PROVE  MarginLocked'
<1> DEFINE r == job[w].row
<1>1. JobTypes /\ RowTypes /\ FundsTypes
  BY DEF TypeOK
<1>2. r.user \in User /\ r.margin \in Nat
  BY <1>1, JobRowType
<1>3. \A u \in User : lck[u] \in Nat /\ lck'[u] \in Nat
  BY DEF TypeOK, FundsTypes
<1>4. lck'[r.user] >= lck[r.user] - r.margin /\ \A v \in User \ {r.user} : lck'[v] >= lck[v]
  <2>1. Unlock(r.user, r.margin) \/ UNCHANGED wallet
    BY DEF Fails
  <2> HIDE DEF r
  <2>2. CASE UNCHANGED wallet
    BY <1>2, <1>3, <2>2 DEF wallet
  <2>3. CASE Unlock(r.user, r.margin)
    BY <1>1, <1>2, <1>3, <2>3, LockChanges
  <2> QED
    BY <2>1, <2>2, <2>3
<1>5. \A u \in User : OwedBy(w, u) = IF u = r.user THEN r.margin ELSE 0
  BY DEF OwedBy
<1> HIDE DEF r
<1>6. ASSUME NEW u \in User
      PROVE  OwedBy(w, u)' - OwedBy(w, u) <= lck'[u] - lck[u]
  <2>1. OwedBy(w, u)' = 0 /\ lck[u] \in Nat /\ lck'[u] \in Nat
    BY <1>3
  <2>2. CASE u = r.user
    BY <1>2, <1>4, <1>5, <2>1, <2>2
  <2>3. CASE u # r.user
    BY <1>4, <1>5, <2>1, <2>3
  <2> QED
    BY <2>2, <2>3
<1> QED
  BY <1>1, <1>6, SameRowsOwe, WorkerLocks

LEMMA GotoLetsGo ==
    ASSUME JobTypes, NEW w \in Worker, NEW l \in Label, Goto(w, l), l \notin Held
    PROVE  JobsFallBut(w) /\ \A u \in User : OwedBy(w, u)' = 0
<1>1. JobsFall
  BY GotoOwes
<1>2. job'[w].pc = l
  BY DEF Goto, JobTypes, Job
<1> QED
  BY <1>1, <1>2 DEF JobsFall, JobsFallBut, OwedBy, Holding, Held

LEMMA OpeningLocks ==
    ASSUME TypeOK, TypeOK', MarginLocked, NEW p \in Proc,
           \/ CheckBalance(p) \/ LockMargin(p) \/ DeductFee(p) \/ CreateRow(p)
           \/ RefundFee(p) \/ UndoLock(p) \/ AnnounceOpen(p)
    PROVE  MarginLocked'
<1> DEFINE r == job[p].row
<1> USE WorkerTypes
<1>1. JobTypes /\ RowTypes /\ FundsTypes
  BY DEF TypeOK
<1>2. r \in Row /\ r.user \in User /\ r.margin \in Nat
  BY <1>1, JobRowType
<1>3. \A u \in User, n \in Int : Add(u, n) => LocksGrow
  BY <1>1, LockChanges DEF Add
<1>4. UNCHANGED wallet => LocksGrow
  BY <1>1, <1>2, LockChanges
<1>5. CASE CheckBalance(p)
  <2>1. JobsFall
    BY <1>1, <1>5, GotoOwes, FinishOwes DEF CheckBalance, Label, Held
  <2> QED
    BY <1>1, <1>4, <1>5, <2>1, SameRowsOwe, QuietLocks DEF CheckBalance
<1>6. CASE LockMargin(p)
  <2>1. CASE Lock(r.user, r.margin) /\ Goto(p, "fee")
    <3>1. \A v \in Worker : /\ job'[v].pc = IF v = p THEN "fee" ELSE job[v].pc
                            /\ job'[v].row = job[v].row
      BY <1>1, <2>1 DEF Goto, JobTypes, Job
    <3>2. JobsFallBut(p)
      <4>1. \A v \in Worker \ {p}, u \in User : OwedBy(v, u)' = OwedBy(v, u)
        BY <3>1 DEF OwedBy, Holding
      <4> QED
        BY <1>1, <4>1, HeldTypes DEF JobsFallBut
    <3>3. \A u \in User : /\ OwedBy(p, u) = 0
                          /\ OwedBy(p, u)' = IF u = r.user THEN r.margin ELSE 0
      BY <1>6, <3>1 DEF OwedBy, Holding, LockMargin
    <3>4. lck'[r.user] = lck[r.user] + r.margin /\ LocksGrow
      BY <1>1, <1>2, <2>1, LockChanges
    <3>5. \A u \in User : lck[u] \in Nat /\ lck'[u] \in Nat
      BY DEF TypeOK, FundsTypes
    <3> HIDE DEF r
    <3>6. \A u \in User : OwedBy(p, u)' - OwedBy(p, u) <= lck'[u] - lck[u]
      BY <1>2, <3>3, <3>4, <3>5 DEF LocksGrow
    <3>7. RowsFall
      BY <1>1, <1>6, SameRowsOwe DEF LockMargin
    <3> QED
      BY <3>2, <3>6, <3>7, WorkerLocks
  <2>2. CASE (Lock(r.user, r.margin) \/ UNCHANGED wallet) /\ Finish(p)
    <3>1. LocksGrow
      BY <1>1, <1>2, <2>2, LockChanges
    <3> QED
      BY <1>1, <1>6, <2>2, <3>1, FinishOwes, SameRowsOwe, QuietLocks DEF LockMargin
  <2> QED
    BY <1>6, <2>1, <2>2 DEF LockMargin, Fails
<1>7. CASE DeductFee(p)
  <2>1. JobsFall
    BY <1>1, <1>7, GotoOwes DEF DeductFee, Label, Held, Holding
  <2>2. LocksGrow
    <3>1. -OpenFee(r) \in Int
      BY <1>2, OpenFeeType
    <3>2. Add(r.user, -OpenFee(r)) \/ UNCHANGED wallet
      BY <1>7 DEF DeductFee, Deduct, Fails
    <3> QED
      BY <1>2, <1>3, <1>4, <3>1, <3>2
  <2> QED
    BY <1>1, <1>7, <2>1, <2>2, SameRowsOwe, QuietLocks DEF DeductFee
<1>8. CASE CreateRow(p)
  <2>1. UNCHANGED lck
    BY <1>8 DEF CreateRow, wallet
  <2>2. CASE Goto(p, "refund") /\ UNCHANGED pos
    <3>1. JobsFall
      BY <1>1, <1>8, <2>2, GotoOwes DEF CreateRow, Label, Held, Holding
    <3> QED
      BY <1>1, <1>2, <2>1, <2>2, <3>1, LockChanges, SameRowsOwe, QuietLocks
  <2>3. ASSUME NEW x \in Position, pos[x].status = "NONE", pos' = [pos EXCEPT ![x] = r],
               job' = [job EXCEPT ![p].pc = "announce", ![p].pos = x]
        PROVE  MarginLocked'
    <3>1. pos'[x] = r /\ \A y \in Position \ {x} : pos'[y] = pos[y]
      BY <1>1, <2>3 DEF RowTypes
    <3>2. \A v \in Worker : /\ job'[v].pc = IF v = p THEN "announce" ELSE job[v].pc
                            /\ job'[v].row = job[v].row
      BY <1>1, <2>3 DEF JobTypes, Job
    <3>3. RowsFallBut(x)
      <4>1. \A y \in Position \ {x}, u \in User : OwedAt(y, u)' = OwedAt(y, u)
        BY <3>1 DEF OwedAt, IsOpen
      <4> QED
        BY <1>1, <4>1, OwedTypes DEF RowsFallBut
    <3>4. JobsFallBut(p)
      <4>1. \A v \in Worker \ {p}, u \in User : OwedBy(v, u)' = OwedBy(v, u)
        BY <3>2 DEF OwedBy, Holding
      <4> QED
        BY <1>1, <4>1, HeldTypes DEF JobsFallBut
    <3>5. ASSUME NEW u \in User
          PROVE  OwedBy(p, u)' + OwedAt(x, u)' <= OwedBy(p, u) + OwedAt(x, u)
      <4>1. OwedBy(p, u)' = 0
        <5>1. job'[p].pc = "announce"
          BY <3>2
        <5> QED
          BY <5>1 DEF OwedBy, Holding
      <4>2. OwedAt(x, u) = 0
        BY <2>3 DEF OwedAt, IsOpen
      <4>3. OwedBy(p, u) = IF u = r.user THEN r.margin ELSE 0
        BY <1>8 DEF OwedBy, Holding, CreateRow
      <4>4. OwedAt(x, u)' = 0 \/ (u = r.user /\ OwedAt(x, u)' = r.margin)
        BY <3>1 DEF OwedAt, IsOpen
      <4> HIDE DEF r
      <4> QED
        BY <1>2, <4>1, <4>2, <4>3, <4>4
    <3> QED
      BY <2>1, <3>3, <3>4, <3>5, HandoverLocks
  <2> QED
    BY <1>8, <2>2, <2>3 DEF CreateRow
<1>9. CASE RefundFee(p)
  <2>1. JobsFall
    BY <1>1, <1>9, GotoOwes DEF RefundFee, Label, Held, Holding
  <2>2. LocksGrow
    <3>1. OpenFee(r) \in Int
      BY <1>2, OpenFeeType
    <3> QED
      BY <1>2, <1>3, <1>4, <1>9, <3>1 DEF RefundFee, Fails
  <2> QED
    BY <1>1, <1>9, <2>1, <2>2, SameRowsOwe, QuietLocks DEF RefundFee
<1>10. CASE UndoLock(p)
  BY <1>1, <1>10, FinishOwes, UnlockKeeps DEF UndoLock, Holding
<1>11. CASE AnnounceOpen(p)
  <2>1. JobsFall
    BY <1>1, <1>11, FinishOwes DEF AnnounceOpen
  <2> QED
    BY <1>1, <1>4, <1>11, <2>1, SameRowsOwe, QuietLocks DEF AnnounceOpen
<1> QED
  BY <1>5, <1>6, <1>7, <1>8, <1>9, <1>10, <1>11

(* A closing takes the margin over from the row. *)
LEMMA CloseRowLocks ==
    ASSUME TypeOK, TypeOK', MarginLocked, NEW w \in Worker, ~Holding(w),
           NEW x \in Position, IsOpen(x), NEW kind, NEW status \in {"CLOSED", "LIQUIDATED"},
           NEW pnl, NEW delta, CloseRow(w, x, kind, status, pnl, delta)
    PROVE  MarginLocked'
<1>1. JobTypes /\ RowTypes
  BY DEF TypeOK
<1>2. /\ pos'[x].status = status /\ pos'[x].margin = pos[x].margin /\ pos'[x].user = pos[x].user
      /\ \A y \in Position \ {x} : pos'[y] = pos[y]
  BY <1>1 DEF CloseRow, RowTypes, Row
<1>3. /\ job'[w].pc = "unlock" /\ job'[w].row = pos'[x]
      /\ \A v \in Worker \ {w} : job'[v] = job[v]
  BY <1>1, IdleType DEF CloseRow, JobTypes, Job
<1>4. RowsFallBut(x)
  <2>1. \A y \in Position \ {x}, u \in User : OwedAt(y, u)' = OwedAt(y, u)
    BY <1>2 DEF OwedAt, IsOpen
  <2> QED
    BY <1>1, <2>1, OwedTypes DEF RowsFallBut
<1>5. JobsFallBut(w)
  <2>1. \A v \in Worker \ {w}, u \in User : OwedBy(v, u)' = OwedBy(v, u)
    BY <1>3 DEF OwedBy, Holding
  <2> QED
    BY <1>1, <2>1, HeldTypes DEF JobsFallBut
<1>6. ASSUME NEW u \in User
      PROVE  OwedBy(w, u)' + OwedAt(x, u)' <= OwedBy(w, u) + OwedAt(x, u)
  <2>1. OwedBy(w, u) = 0 /\ OwedAt(x, u)' = 0 /\ OwedBy(w, u)' = OwedAt(x, u)
    BY <1>2, <1>3 DEF OwedBy, Holding, OwedAt, IsOpen
  <2>2. OwedAt(x, u) \in Nat
    BY <1>1, OwedTypes
  <2> QED
    BY <2>1, <2>2
<1>7. UNCHANGED lck
  BY DEF CloseRow, wallet
<1> QED
  BY <1>4, <1>5, <1>6, <1>7, HandoverLocks

LEMMA SettlingLocks ==
    ASSUME TypeOK, TypeOK', MarginLocked, NEW w \in Worker, Settling(w)
    PROVE  MarginLocked'
<1> DEFINE u == job[w].row.user
           d == job[w].delta
<1>1. JobTypes /\ RowTypes /\ FundsTypes /\ u \in User
  BY JobRowType DEF TypeOK
<1>2. UNCHANGED lck => LocksGrow
  BY <1>1 DEF LocksGrow, FundsTypes
<1>3. CASE SettleUnlock(w)
  <2>1. JobsFallBut(w) /\ \A v \in User : OwedBy(w, v)' = 0
    BY <1>1, <1>3, GotoLetsGo DEF SettleUnlock, Label, Held
  <2> QED
    BY <1>3, <2>1, UnlockKeeps DEF SettleUnlock, Holding
<1>4. CASE SettleApply(w)
  <2>1. JobsFall
    BY <1>1, <1>4, GotoOwes DEF SettleApply, Label, Held
  <2>2. UNCHANGED lck
    BY <1>4 DEF SettleApply, Fails, Deduct, Add, wallet
  <2> QED
    BY <1>1, <1>2, <1>4, <2>1, <2>2, SameRowsOwe, QuietLocks DEF SettleApply
<1>5. CASE ReportClose(w) \/ ReportBalance(w)
  <2>1. JobsFall
    BY <1>1, <1>5, FinishOwes DEF ReportClose, ReportBalance
  <2>2. UNCHANGED <<pos, lck>>
    BY <1>5 DEF ReportClose, ReportBalance, wallet
  <2> QED
    BY <1>1, <1>2, <2>1, <2>2, SameRowsOwe, QuietLocks
<1> QED
  BY <1>3, <1>4, <1>5 DEF Settling

LEMMA ArriveLocks ==
    ASSUME TypeOK, TypeOK', MarginLocked, NEW p \in Proc, Arrive(p)
    PROVE  MarginLocked'
<1> USE WorkerTypes
<1>1. JobTypes /\ RowTypes /\ FundsTypes
  BY DEF TypeOK
<1>2. ASSUME NEW u \in User, NEW side \in Side, NEW size \in Size, NEW lev \in Leverage,
             NEW tp \in Trigger, NEW sl \in Trigger, OpenPosition(p, u, side, size, lev, tp, sl)
      PROVE  MarginLocked'
  <2> DEFINE j == [Idle EXCEPT !.pc = "check", !.kind = "open",
                               !.row = NewRow(u, side, size, lev, tp, sl)]
  <2>1. j.pc = "check"
    BY IdleType DEF Job
  <2>2. job' = [job EXCEPT ![p] = j]
    BY <1>2 DEF OpenPosition
  <2> HIDE DEF j
  <2>3. JobsFall
    BY <1>1, <2>1, <2>2, BeginOwes DEF Held
  <2>4. UNCHANGED <<pos, lck>>
    BY <1>2 DEF OpenPosition, wallet
  <2>5. LocksGrow
    BY <1>1, <2>4 DEF LocksGrow, FundsTypes
  <2> QED
    BY <1>1, <2>3, <2>4, <2>5, SameRowsOwe, QuietLocks
<1>3. ASSUME NEW x \in Position, ClosePosition(p, x)
      PROVE  MarginLocked'
  <2>1. ~Holding(p) /\ IsOpen(x)
    BY <1>3 DEF ClosePosition, Holding
  <2> QED
    BY <1>3, <2>1, CloseRowLocks DEF ClosePosition
<1> QED
  BY <1>2, <1>3 DEF Arrive

LEMMA EngineLocks ==
    ASSUME TypeOK, TypeOK', MarginLocked, EngineStep
    PROVE  MarginLocked'
<1> DEFINE x == job[Engine].pos
<1> USE WorkerTypes
<1>1. JobTypes /\ RowTypes /\ FundsTypes
  BY DEF TypeOK
<1>2. UNCHANGED lck => LocksGrow
  BY <1>1 DEF LocksGrow, FundsTypes
<1>3. job[Engine].pc = "tx" => x \in Position /\ ~Holding(Engine)
  BY <1>1 DEF JobTypes, Holding
<1>4. CASE EngineCheck
  BY <1>1, <1>2, <1>4, SameOwes, SameRowsOwe, QuietLocks DEF EngineCheck, wallet
<1>5. ASSUME NEW y \in Position, EngineVisit(y)
      PROVE  MarginLocked'
  <2>1. ASSUME NEW kind \in {"auto", "liq"},
               job' = [job EXCEPT ![Engine] = [Idle EXCEPT !.pc = "tx", !.kind = kind, !.pos = y, !.price = price]]
        PROVE  JobsFall
    <3> DEFINE k == [Idle EXCEPT !.pc = "tx", !.kind = kind, !.pos = y, !.price = price]
    <3>1. k.pc = "tx"
      BY IdleType DEF Job
    <3>2. job' = [job EXCEPT ![Engine] = k]
      BY <2>1
    <3> HIDE DEF k
    <3> QED
      BY <1>1, <3>1, <3>2, BeginOwes DEF Held
  <2>2. JobsFall
    BY <1>1, <1>5, <2>1, SameOwes DEF EngineVisit
  <2> QED
    BY <1>1, <1>2, <1>5, <2>2, SameRowsOwe, QuietLocks DEF EngineVisit, wallet
<1>6. CASE AutoClose
  BY <1>3, <1>6, CloseRowLocks DEF AutoClose
<1>7. CASE Liquidate
  BY <1>3, <1>7, CloseRowLocks DEF Liquidate
<1>8. CASE SparePosition
  <2>1. JobsFall
    BY <1>1, <1>8, FinishOwes DEF SparePosition
  <2> QED
    BY <1>1, <1>2, <1>8, <2>1, SameRowsOwe, QuietLocks DEF SparePosition, wallet
<1> QED
  BY <1>4, <1>5, <1>6, <1>7, <1>8, SettlingLocks DEF EngineStep

LEMMA FunderLocks ==
    ASSUME TypeOK, TypeOK', MarginLocked, FunderStep
    PROVE  MarginLocked'
<1> USE WorkerTypes
<1>1. JobTypes /\ RowTypes /\ FundsTypes
  BY DEF TypeOK
<1>2. UNCHANGED lck => LocksGrow
  BY <1>1 DEF LocksGrow, FundsTypes
<1>3. ASSUME NEW index \in Index \cup {price}, Settle(index)
      PROVE  MarginLocked'
  BY <1>1, <1>2, <1>3, SameOwes, SameRowsOwe, QuietLocks DEF Settle, wallet
<1>4. ASSUME NEW x \in Position, ApplyPayment(x)
      PROVE  MarginLocked'
  <2>1. JobsFall
    <3> DEFINE k == [Idle EXCEPT !.pc = "apply", !.kind = "funding", !.pos = x, !.row = pos[x],
                                 !.delta = FundingAmount(x)]
    <3>1. CASE job' = [job EXCEPT ![Funder] = k]
      <4>1. k.pc = "apply"
        BY IdleType DEF Job
      <4> HIDE DEF k
      <4> QED
        BY <1>1, <3>1, <4>1, BeginOwes DEF Held
    <3> QED
      BY <1>1, <1>4, <3>1, SameOwes DEF ApplyPayment
  <2> QED
    BY <1>1, <1>2, <1>4, <2>1, SameRowsOwe, QuietLocks DEF ApplyPayment, wallet
<1> QED
  BY <1>3, <1>4, SettlingLocks DEF FunderStep

(* The projector opens no row: by OpenedOnce, an OPEN event is about a row *)
(* that is open.                                                           *)
LEMMA WorldLocks ==
    ASSUME TypeOK, TypeOK', MarginLocked, OpenedOnce,
           \/ ProjectPosition \/ LoseEvent \/ PriceMoves \/ Restart
           \/ \E u \in User : OtherDebit(u)
           \/ \E x \in Position, tp, sl \in Trigger : UpdateTPSL(x, tp, sl)
    PROVE  MarginLocked'
<1>1. JobTypes /\ RowTypes /\ FundsTypes
  BY DEF TypeOK
<1>2. UNCHANGED lck => LocksGrow
  BY <1>1 DEF LocksGrow, FundsTypes
<1>3. CASE ProjectPosition
  <2> DEFINE e == Head(events)
  <2>1. e \in Event /\ e \in Entries /\ e = events[1] /\ 1 \in DOMAIN events /\ e.pos \in Position
    BY <1>1, <1>3, ReadElement DEF ProjectPosition, Event
  <2>2. e.status = "OPEN" => pos[e.pos].status = "OPEN"
    BY <2>1 DEF OpenedOnce, KeepsUp, Announcing, OpenRows, IsOpen
  <2>3. pos' = [pos EXCEPT ![e.pos] = [@ EXCEPT !.status = e.status, !.pnl = e.pnl]]
    BY <1>1, <1>3 DEF ProjectPosition, RowTypes
  <2> HIDE DEF e
  <2>4. \A y \in Position :
           /\ pos'[y].margin = pos[y].margin /\ pos'[y].user = pos[y].user
           /\ pos'[y].status = "OPEN" => pos[y].status = "OPEN"
    BY <1>1, <2>1, <2>2, <2>3 DEF RowTypes, Row
  <2>5. RowsFall
    <3>1. \A y \in Position, u \in User : OwedAt(y, u)' = 0 \/ OwedAt(y, u)' = OwedAt(y, u)
      BY <2>4 DEF OwedAt, IsOpen
    <3> QED
      BY <1>1, <3>1, OwedTypes DEF RowsFall
  <2> QED
    BY <1>1, <1>2, <1>3, <2>5, SameOwes, QuietLocks DEF ProjectPosition, wallet
<1>4. CASE LoseEvent \/ PriceMoves
  BY <1>1, <1>2, <1>4, SameOwes, SameRowsOwe, QuietLocks DEF LoseEvent, PriceMoves, wallet
<1>5. CASE Restart
  <2>1. \A v \in Worker, u \in User : OwedBy(v, u)' = 0
    BY <1>5, IdleType DEF Restart, OwedBy, Holding
  <2>2. JobsFall
    BY <1>1, <2>1, HeldTypes DEF JobsFall
  <2> QED
    BY <1>1, <1>2, <1>5, <2>2, SameRowsOwe, QuietLocks DEF Restart, wallet
<1>6. ASSUME NEW u \in User, OtherDebit(u)
      PROVE  MarginLocked'
  BY <1>1, <1>2, <1>6, SameOwes, SameRowsOwe, QuietLocks DEF OtherDebit, Add
<1>7. ASSUME NEW x \in Position, NEW tp \in Trigger, NEW sl \in Trigger, UpdateTPSL(x, tp, sl)
      PROVE  MarginLocked'
  <2>1. \A y \in Position : /\ pos'[y].margin = pos[y].margin /\ pos'[y].user = pos[y].user
                            /\ pos'[y].status = pos[y].status
    BY <1>1, <1>7 DEF UpdateTPSL, RowTypes, Row
  <2>2. RowsFall
    <3>1. \A y \in Position, u \in User : OwedAt(y, u)' = OwedAt(y, u)
      BY <2>1 DEF OwedAt, IsOpen
    <3> QED
      BY <1>1, <3>1, OwedTypes DEF RowsFall
  <2> QED
    BY <1>1, <1>2, <1>7, <2>2, SameOwes, QuietLocks DEF UpdateTPSL, wallet
<1> QED
  BY <1>3, <1>4, <1>5, <1>6, <1>7

LEMMA LocksInit == ASSUME Init PROVE MarginLocked
<1>1. TypeOK
  BY TypeInit
<1>2. MarginsAreOwed
  BY <1>1, Owed DEF TypeOK
<1>3. ASSUME NEW u \in User
      PROVE  MarginOf(u) + HeldBy(u) <= lck[u]
  <2>1. \A x \in Position : OwedAt(x, u) = 0
    BY NoRowType DEF Init, OwedAt, IsOpen
  <2>2. \A w \in Worker : OwedBy(w, u) = 0
    BY IdleType DEF Init, OwedBy, Holding
  <2>3. MarginOf(u) = 0
    BY <1>2, <2>1, SumZero, PositionAssumption DEF MarginsAreOwed
  <2>4. HeldBy(u) = 0
    BY <1>2, <2>2, SumZero, WorkersFinite DEF MarginsAreOwed
  <2> QED
    BY <1>3, <2>3, <2>4 DEF Init
<1> QED
  BY <1>3 DEF MarginLocked

LEMMA LocksStep ==
    ASSUME CloseInv, MarginLocked, [Next /\ KeepsUp']_vars
    PROVE  MarginLocked'
<1>1. TypeOK /\ TypeOK' /\ OpenedOnce
  BY TypeStep DEF CloseInv
<1>2. CASE UNCHANGED vars
  <2>1. RowsFall /\ JobsFall /\ LocksGrow
    <3>1. RowTypes /\ JobTypes /\ FundsTypes /\ UNCHANGED <<pos, job, lck>>
      BY <1>1, <1>2 DEF TypeOK, vars, wallet
    <3> QED
      BY <3>1, SameRowsOwe, SameOwes DEF LocksGrow, FundsTypes
  <2> QED
    BY <1>1, <2>1, QuietLocks
<1>3. ASSUME NEW p \in Proc, Arrive(p) \/ Serve(p)
      PROVE  MarginLocked'
  BY <1>1, <1>3, ArriveLocks, OpeningLocks, SettlingLocks, WorkerTypes DEF Serve
<1> QED
  BY <1>1, <1>2, <1>3, EngineLocks, FunderLocks, WorldLocks DEF Next

(* Under the conditions of ClosedOnce, the locked balance of every user    *)
(* covers the margins of all open positions and what goroutines have       *)
(* locked and not handed on, after any failure of wallet-service, the rows *)
(* or the process: closing one position never takes another's margin.      *)
THEOREM MarginStaysLocked == PromptSpec => []MarginLocked
<1>1. Init => CloseInv /\ MarginLocked
  BY CloseInit, LocksInit
<1>2. (CloseInv /\ MarginLocked) /\ [Next /\ KeepsUp']_vars => (CloseInv /\ MarginLocked)'
  BY CloseStep, LocksStep
<1> QED
  BY <1>1, <1>2, PTL DEF PromptSpec

-----------------------------------------------------------------------------
(* Funding: one rate and one price per settlement *)

(* Goroutines at these labels have found or created the row they name. *)
Naming == {"announce", "unlock", "apply", "report"}
IsRow(x) == pos[x].status # "NONE"

RowsNamed ==
    /\ \A w \in Worker : job[w].pc \in Naming => IsRow(job[w].pos)
    /\ \A e \in Entries : IsRow(e.pos)
    /\ \A x \in fund.todo : IsRow(x)
RowsSized ==
    /\ \A x \in Position : IsRow(x) => pos[x].size \in Size
    /\ \A w \in Worker : job[w].pc \in HasNewRow => job[w].row.size \in Size

(* Settlement n took unit / Basis per unit of size from every long         *)
(* position it reached, and gave it to every short one.                    *)
Charge(x, unit) == IF pos[x].side = "LONG" THEN -(pos[x].size * unit) ELSE pos[x].size * unit
Charged(n, unit) ==
    \A x \in Position :
        payments[x][n] # 0 => IsRow(x) /\ payments[x][n] * Basis = Charge(x, unit)
FundUnit == fund.rate * fund.mark

(* Earlier settlements were made at some rate and price, the present one   *)
(* at those that were read when it began, and its charges are exact.       *)
FundingInv ==
    /\ RowsNamed /\ RowsSized
    /\ \A n \in 1 .. MaxSettlements : \E unit \in Int : Charged(n, unit)
    /\ \A n \in 1 .. MaxSettlements, unit \in Int : n = fund.n /\ unit = FundUnit => Charged(n, unit)
    /\ \A x \in Position : \A n \in 1 .. MaxSettlements : n > fund.n => payments[x][n] = 0
    /\ fund.todo # {} => /\ fund.n \in 1 .. MaxSettlements
                         /\ \A size \in Size : (size * FundUnit) % Basis = 0

(* What most steps leave alone: the side and the size of every row, and    *)
(* that goroutines and events name rows.                                   *)
RowsStay ==
    \A x \in Position :
        \/ IsRow(x) /\ IsRow(x)' /\ pos'[x].side = pos[x].side /\ pos'[x].size = pos[x].size
        \/ ~IsRow(x) /\ (~IsRow(x)' \/ pos'[x].size \in Size)
JobsStay ==
    \A w \in Worker :
        /\ job'[w].pc \in Naming =>
              (job[w].pc \in Naming /\ job'[w].pos = job[w].pos) \/ pos'[job'[w].pos].status # "NONE"
        /\ job'[w].pc \in HasNewRow =>
              (job[w].pc \in HasNewRow /\ job'[w].row = job[w].row) \/ job'[w].row.size \in Size
EventsStay == BusRuns \/ \E e \in Event : Told(e) /\ IsRow(e.pos)
FundStays == fund' = fund \/ fund' = [fund EXCEPT !.todo = {}]

LEMMA RowsRemain ==
    ASSUME RowsStay, NEW x \in Position, IsRow(x)
    PROVE  pos'[x].status # "NONE"
BY DEF RowsStay, IsRow

LEMMA SameRows == ASSUME UNCHANGED pos PROVE RowsStay
BY DEF RowsStay, IsRow

LEMMA NamesStay ==
    ASSUME TypeOK, RowsNamed, RowsSized, RowsStay, JobsStay, EventsStay,
           fund'.todo \subseteq Position, \A x \in fund'.todo : IsRow(x)
    PROVE  RowsNamed' /\ RowsSized'
<1>1. RowTypes /\ JobTypes
  BY DEF TypeOK
<1>2. ASSUME NEW w \in Worker, job'[w].pc \in Naming
      PROVE  pos'[job'[w].pos].status # "NONE"
  <2>1. CASE job[w].pc \in Naming /\ job'[w].pos = job[w].pos
    <3>1. job[w].pos \in Position /\ IsRow(job[w].pos)
      BY <1>1, <2>1 DEF JobTypes, Naming, RowsNamed
    <3> QED
      BY <2>1, <3>1, RowsRemain
  <2> QED
    BY <1>2, <2>1 DEF JobsStay
<1>3. \A e \in Entries' : pos'[e.pos].status # "NONE"
  <2>1. ASSUME NEW e \in Event, IsRow(e.pos)
        PROVE  pos'[e.pos].status # "NONE"
    <3>1. e.pos \in Position
      BY DEF Event
    <3> QED
      BY <2>1, <3>1, RowsRemain
  <2>2. \A e \in Entries : e \in Event /\ IsRow(e.pos)
    BY <1>1, EntriesTyped DEF RowsNamed
  <2>3. CASE BusRuns
    BY <1>1, <2>1, <2>2, <2>3, FewerEntries
  <2>4. ASSUME NEW e \in Event, Told(e), IsRow(e.pos)
        PROVE  \A d \in Entries' : pos'[d.pos].status # "NONE"
    BY <1>1, <2>1, <2>2, <2>4, OneEntryMore
  <2> QED
    BY <2>3, <2>4 DEF EventsStay
<1>4. \A x \in fund'.todo : pos'[x].status # "NONE"
  BY RowsRemain
<1>5. RowsNamed'
  BY <1>2, <1>3, <1>4 DEF RowsNamed, IsRow
<1>6. RowsSized'
  BY DEF RowsSized, RowsStay, JobsStay, IsRow
<1> QED
  BY <1>5, <1>6

LEMMA ChargesStay ==
    ASSUME RowsStay, UNCHANGED payments, NEW n, NEW unit, Charged(n, unit)
    PROVE  Charged(n, unit)'
<1>1. ASSUME NEW x \in Position, payments[x][n] # 0
      PROVE  /\ pos'[x].status # "NONE" /\ pos'[x].side = pos[x].side /\ pos'[x].size = pos[x].size
             /\ payments[x][n] * Basis = Charge(x, unit)
  <2>1. IsRow(x) /\ payments[x][n] * Basis = Charge(x, unit)
    BY <1>1 DEF Charged
  <2> QED
    BY <2>1 DEF RowsStay, IsRow
<1>2. \A x \in Position : payments'[x][n] # 0 => /\ pos'[x].status # "NONE"
                                              /\ payments'[x][n] * Basis = Charge(x, unit)'
  BY <1>1 DEF Charge
<1> QED
  BY <1>2 DEF Charged, IsRow

(* A step that pays nothing keeps the invariant. *)
LEMMA FundingStays ==
    ASSUME TypeOK, FundingInv, RowsStay, JobsStay, EventsStay, FundStays, UNCHANGED payments
    PROVE  FundingInv'
<1>1. fund'.n = fund.n /\ fund'.rate = fund.rate /\ fund'.mark = fund.mark /\ fund'.todo \subseteq fund.todo
  BY DEF FundStays, TypeOK, TaskTypes, FundTask
<1>2. fund.todo \subseteq Position
  BY DEF TypeOK, TaskTypes, FundTask
<1>3. RowsNamed' /\ RowsSized'
  BY <1>1, <1>2, NamesStay DEF FundingInv, RowsNamed
<1>4. \A n \in 1 .. MaxSettlements : \E unit \in Int : Charged(n, unit)'
  BY ChargesStay DEF FundingInv
<1>5. FundUnit' = FundUnit
  BY <1>1 DEF FundUnit
<1>6. ASSUME NEW n \in 1 .. MaxSettlements, NEW unit \in Int, n = fund'.n, unit = FundUnit'
      PROVE  Charged(n, unit)'
  <2>1. Charged(n, unit)
    BY <1>1, <1>5, <1>6 DEF FundingInv
  <2> QED
    BY <2>1, ChargesStay
<1> QED
  BY <1>1, <1>3, <1>4, <1>5, <1>6 DEF FundingInv

-----------------------------------------------------------------------------
(* Steps that pay nothing *)

LEMMA GotoStays ==
    ASSUME JobTypes, NEW w \in Worker, NEW l \in Label, Goto(w, l),
           l \in Naming => job[w].pc \in Naming,
           l \in HasNewRow => job[w].pc \in HasNewRow
    PROVE  JobsStay
<1>1. \A v \in Worker : /\ job'[v].pos = job[v].pos /\ job'[v].row = job[v].row
                        /\ job'[v].pc = IF v = w THEN l ELSE job[v].pc
  BY DEF Goto, JobTypes, Job
<1> QED
  BY <1>1 DEF JobsStay

LEMMA FinishStays ==
    ASSUME JobTypes, NEW w \in Worker, Finish(w)
    PROVE  JobsStay
<1>1. \A v \in Worker : job'[v] = IF v = w THEN Idle ELSE job[v]
  BY DEF Finish, JobTypes
<1> QED
  BY <1>1, IdleType DEF JobsStay, Naming, HasNewRow

LEMMA BeginStays ==
    ASSUME JobTypes, NEW w \in Worker, NEW j, job' = [job EXCEPT ![w] = j],
           j.pc \in Naming => pos'[j.pos].status # "NONE",
           j.pc \in HasNewRow => j.row.size \in Size
    PROVE  JobsStay
<1>1. \A v \in Worker : job'[v] = IF v = w THEN j ELSE job[v]
  BY DEF JobTypes
<1> QED
  BY <1>1 DEF JobsStay

LEMMA SameJobs == ASSUME UNCHANGED job PROVE JobsStay
BY DEF JobsStay

LEMMA StatusStays ==
    ASSUME RowTypes, NEW x \in Position, NEW st \in {"OPEN", "CLOSED", "LIQUIDATED"}, NEW n, IsRow(x),
           pos' = [pos EXCEPT ![x].status = st, ![x].pnl = n]
    PROVE  RowsStay /\ pos'[x].status # "NONE"
<1>1. pos' = [pos EXCEPT ![x] = [@ EXCEPT !.status = st, !.pnl = n]]
  BY DEF RowTypes
<1>2. PICK r \in Row : r = pos[x]
  BY DEF RowTypes
<1>3. [r EXCEPT !.status = st, !.pnl = n].status = st /\ [r EXCEPT !.status = st, !.pnl = n].side = r.side
      /\ [r EXCEPT !.status = st, !.pnl = n].size = r.size
  BY DEF Row
<1>4. pos'[x] = [r EXCEPT !.status = st, !.pnl = n] /\ \A y \in Position \ {x} : pos'[y] = pos[y]
  BY <1>1, <1>2 DEF RowTypes
<1>5. pos'[x].status # "NONE"
  BY <1>3, <1>4
<1>6. ASSUME NEW y \in Position
      PROVE  \/ IsRow(y) /\ pos'[y].status # "NONE" /\ pos'[y].side = pos[y].side /\ pos'[y].size = pos[y].size
             \/ ~IsRow(y) /\ pos'[y].status = "NONE"
  BY ONLY <1>2, <1>3, <1>4, <1>5, IsRow(x), x \in Position, y \in Position DEF IsRow
<1> QED
  BY ONLY <1>5, <1>6 DEF RowsStay, IsRow

LEMMA CloseRowFunds ==
    ASSUME TypeOK, FundingInv, NEW w \in Worker, NEW x \in Position, NEW kind, NEW pnl, NEW delta,
           NEW status \in {"CLOSED", "LIQUIDATED"}, IsOpen(x), CloseRow(w, x, kind, status, pnl, delta)
    PROVE  FundingInv'
<1> DEFINE k == [Idle EXCEPT !.pc = "unlock", !.kind = kind, !.pos = x, !.row = pos'[x], !.delta = delta]
<1>1. RowsStay /\ pos'[x].status # "NONE"
  BY StatusStays DEF CloseRow, TypeOK, IsRow, IsOpen
<1>2. k.pc = "unlock" /\ k.pos = x
  BY DEF Idle
<1>3. job' = [job EXCEPT ![w] = k]
  BY DEF CloseRow
<1> HIDE DEF k
<1>4. JobsStay
  BY <1>1, <1>2, <1>3, BeginStays DEF HasNewRow, TypeOK
<1> QED
  BY <1>1, <1>4, FundingStays DEF CloseRow, EventsStay, BusRuns, FundStays, tasks

LEMMA SettlingFunds ==
    ASSUME TypeOK, FundingInv, NEW w \in Worker, Settling(w)
    PROVE  FundingInv'
<1>1. JobTypes
  BY DEF TypeOK
<1>2. CASE SettleUnlock(w)
  <2>1. JobsStay
    BY <1>1, <1>2, GotoStays DEF SettleUnlock, Label, Naming, HasNewRow
  <2> QED
    BY <1>2, <2>1, SameRows, FundingStays DEF SettleUnlock, EventsStay, BusRuns, FundStays, tasks
<1>3. CASE SettleApply(w)
  <2>1. JobsStay
    BY <1>1, <1>3, GotoStays DEF SettleApply, Label, Naming, HasNewRow
  <2> QED
    BY <1>3, <2>1, SameRows, FundingStays DEF SettleApply, EventsStay, BusRuns, FundStays, tasks
<1>4. CASE ReportClose(w)
  <2>1. JobsStay
    BY <1>1, <1>4, FinishStays DEF ReportClose
  <2>2. EventsStay
    <3>1. job[w].pos \in Position /\ job[w].row.pnl \in Int
      BY <1>1, <1>4, JobRowType DEF ReportClose, JobTypes, Row
    <3>2. [pos |-> job[w].pos, status |-> "CLOSED", pnl |-> job[w].row.pnl] \in Event
      BY <3>1 DEF Event
    <3>3. IsRow(job[w].pos)
      BY <1>4 DEF ReportClose, FundingInv, RowsNamed, Naming
    <3> QED
      BY <1>4, <3>2, <3>3 DEF ReportClose, Publish, EventsStay, BusRuns, Told
  <2> QED
    BY <1>4, <2>1, <2>2, SameRows, FundingStays DEF ReportClose, FundStays, tasks
<1>5. CASE ReportBalance(w)
  <2>1. JobsStay
    BY <1>1, <1>5, FinishStays DEF ReportBalance
  <2> QED
    BY <1>5, <2>1, SameRows, FundingStays DEF ReportBalance, EventsStay, BusRuns, FundStays, tasks
<1> QED
  BY <1>2, <1>3, <1>4, <1>5 DEF Settling

LEMMA OpeningFunds ==
    ASSUME TypeOK, FundingInv, NEW p \in Proc,
           \/ CheckBalance(p) \/ LockMargin(p) \/ DeductFee(p) \/ CreateRow(p)
           \/ RefundFee(p) \/ UndoLock(p) \/ AnnounceOpen(p)
    PROVE  FundingInv'
<1> USE WorkerTypes
<1>1. JobTypes /\ RowTypes
  BY DEF TypeOK
<1>2. CASE CheckBalance(p) \/ LockMargin(p) \/ DeductFee(p) \/ RefundFee(p) \/ UndoLock(p)
  <2>1. \/ Finish(p) \/ Goto(p, "undo")
        \/ job[p].pc \in HasNewRow /\ \E l \in {"lock", "fee", "create"} : Goto(p, l)
    BY <1>2 DEF CheckBalance, LockMargin, DeductFee, RefundFee, UndoLock, HasNewRow
  <2>2. JobsStay
    BY <1>1, <2>1, FinishStays, GotoStays DEF Label, Naming, HasNewRow
  <2>3. UNCHANGED <<pos, bus, fund, payments>>
    BY <1>2 DEF CheckBalance, LockMargin, DeductFee, RefundFee, UndoLock, tasks
  <2> QED
    BY <2>2, <2>3, SameRows, FundingStays DEF EventsStay, BusRuns, FundStays
<1>3. CASE AnnounceOpen(p)
  <2>1. JobsStay
    BY <1>1, <1>3, FinishStays DEF AnnounceOpen
  <2>2. EventsStay
    <3>1. job[p].pos \in Position /\ IsRow(job[p].pos)
      BY <1>1, <1>3 DEF AnnounceOpen, JobTypes, FundingInv, RowsNamed, Naming
    <3>2. [pos |-> job[p].pos, status |-> "OPEN", pnl |-> 0] \in Event
      BY <3>1 DEF Event
    <3> QED
      BY <1>3, <3>1, <3>2 DEF AnnounceOpen, Publish, EventsStay, BusRuns, Told
  <2> QED
    BY <1>3, <2>1, <2>2, SameRows, FundingStays DEF AnnounceOpen, FundStays, tasks
<1>4. CASE CreateRow(p)
  <2>1. job[p].row.size \in Size /\ job[p].row.status = "OPEN"
    BY <1>1, <1>4 DEF CreateRow, FundingInv, RowsSized, HasNewRow, JobTypes
  <2>2. ASSUME NEW x \in Position, pos[x].status = "NONE", pos' = [pos EXCEPT ![x] = job[p].row],
               job' = [job EXCEPT ![p].pc = "announce", ![p].pos = x]
        PROVE  RowsStay /\ JobsStay
    <3>1. \A y \in Position : pos'[y] = IF y = x THEN job[p].row ELSE pos[y]
      BY <1>1, <2>2 DEF RowTypes
    <3>2. RowsStay
      BY <2>1, <2>2, <3>1 DEF RowsStay, IsRow
    <3>3. /\ job'[p].pc = "announce" /\ job'[p].pos = x
          /\ \A v \in Worker \ {p} : job'[v] = job[v]
      BY <1>1, <2>2 DEF JobTypes, Job
    <3>4. JobsStay
      BY <2>1, <3>1, <3>3 DEF JobsStay, HasNewRow
    <3> QED
      BY <3>2, <3>4
  <2>3. CASE Goto(p, "refund") /\ UNCHANGED pos
    BY <1>1, <1>4, <2>3, SameRows, GotoStays, FundingStays
    DEF CreateRow, EventsStay, BusRuns, FundStays, tasks, Label, Naming, HasNewRow
  <2> QED
    BY <1>4, <2>2, <2>3, FundingStays DEF CreateRow, EventsStay, BusRuns, FundStays, tasks
<1> QED
  BY <1>2, <1>3, <1>4

LEMMA ArriveFunds ==
    ASSUME TypeOK, FundingInv, NEW p \in Proc, Arrive(p)
    PROVE  FundingInv'
<1> USE WorkerTypes
<1>1. JobTypes /\ RowTypes /\ price \in Nat
  BY DEF TypeOK
<1>2. ASSUME NEW u \in User, NEW side \in Side, NEW size \in Size, NEW lev \in Leverage,
             NEW tp \in Trigger, NEW sl \in Trigger, OpenPosition(p, u, side, size, lev, tp, sl)
      PROVE  FundingInv'
  <2> DEFINE j == [Idle EXCEPT !.pc = "check", !.kind = "open",
                               !.row = NewRow(u, side, size, lev, tp, sl)]
  <2>1. j.pc = "check" /\ j.row.size = size
    BY DEF Idle, NewRow
  <2>2. job' = [job EXCEPT ![p] = j]
    BY <1>2 DEF OpenPosition
  <2> HIDE DEF j
  <2>3. JobsStay
    BY <1>1, <2>1, <2>2, BeginStays DEF Naming
  <2> QED
    BY <1>2, <2>3, SameRows, FundingStays DEF OpenPosition, EventsStay, BusRuns, FundStays, tasks
<1>3. ASSUME NEW x \in Position, ClosePosition(p, x)
      PROVE  FundingInv'
  <2>1. IsOpen(x) /\ \E pnl, delta : CloseRow(p, x, "user", "CLOSED", pnl, delta)
    BY <1>3 DEF ClosePosition
  <2> QED
    BY <2>1, CloseRowFunds
<1> QED
  BY <1>2, <1>3 DEF Arrive

LEMMA EngineFunds ==
    ASSUME TypeOK, FundingInv, EngineStep
    PROVE  FundingInv'
<1> USE WorkerTypes
<1>1. JobTypes
  BY DEF TypeOK
<1>2. CASE EngineCheck
  BY <1>2, SameJobs, SameRows, FundingStays DEF EngineCheck, EventsStay, BusRuns, FundStays
<1>3. ASSUME NEW y \in Position, EngineVisit(y)
      PROVE  FundingInv'
  <2>1. ASSUME NEW kind,
               job' = [job EXCEPT ![Engine] = [Idle EXCEPT !.pc = "tx", !.kind = kind, !.pos = y, !.price = price]]
        PROVE  JobsStay
    <3> DEFINE k == [Idle EXCEPT !.pc = "tx", !.kind = kind, !.pos = y, !.price = price]
    <3>1. k.pc = "tx"
      BY DEF Idle
    <3>2. job' = [job EXCEPT ![Engine] = k]
      BY <2>1
    <3> HIDE DEF k
    <3> QED
      BY <1>1, <3>1, <3>2, BeginStays DEF Naming, HasNewRow
  <2>2. JobsStay
    BY <1>3, <2>1, SameJobs DEF EngineVisit
  <2> QED
    BY <1>3, <2>2, SameRows, FundingStays DEF EngineVisit, EventsStay, BusRuns, FundStays
<1>4. CASE AutoClose \/ Liquidate
  <2>1. job[Engine].pos \in Position
    BY <1>1, <1>4 DEF AutoClose, Liquidate, JobTypes
  <2>2. IsOpen(job[Engine].pos) /\ \E kind, pnl, delta : \E status \in {"CLOSED", "LIQUIDATED"} :
           CloseRow(Engine, job[Engine].pos, kind, status, pnl, delta)
    BY <1>4 DEF AutoClose, Liquidate
  <2> QED
    BY <2>1, <2>2, CloseRowFunds
<1>5. CASE SparePosition
  BY <1>1, <1>5, FinishStays, SameRows, FundingStays DEF SparePosition, EventsStay, BusRuns, FundStays, tasks
<1> QED
  BY <1>2, <1>3, <1>4, <1>5, SettlingFunds DEF EngineStep

LEMMA WorldFunds ==
    ASSUME TypeOK, FundingInv,
           \/ ProjectPosition \/ LoseEvent \/ PriceMoves \/ Restart
           \/ \E u \in User : OtherDebit(u)
           \/ \E x \in Position, tp, sl \in Trigger : UpdateTPSL(x, tp, sl)
    PROVE  FundingInv'
<1>1. RowTypes
  BY DEF TypeOK
<1>2. CASE ProjectPosition
  <2> DEFINE e == Head(events)
  <2>1. e \in Event /\ IsRow(e.pos)
    <3>1. e \in Event /\ e \in Entries
      BY <1>1, <1>2, ReadElement DEF ProjectPosition
    <3> QED
      BY <3>1 DEF FundingInv, RowsNamed
  <2>2. e.pos \in Position /\ e.status \in {"OPEN", "CLOSED"}
    BY <2>1 DEF Event
  <2>3. pos' = [pos EXCEPT ![e.pos].status = e.status, ![e.pos].pnl = e.pnl]
    BY <1>2 DEF ProjectPosition
  <2> HIDE DEF e
  <2>4. RowsStay
    BY <1>1, <2>1, <2>2, <2>3, StatusStays
  <2> QED
    BY <1>2, <2>4, SameJobs, FundingStays DEF ProjectPosition, EventsStay, BusRuns, FundStays, tasks
<1>3. CASE LoseEvent
  BY <1>3, SameJobs, SameRows, FundingStays DEF LoseEvent, EventsStay, BusRuns, FundStays, tasks
<1>4. CASE PriceMoves
  BY <1>4, SameJobs, SameRows, FundingStays DEF PriceMoves, EventsStay, BusRuns, FundStays, tasks
<1>5. CASE Restart
  <2>1. \A v \in Worker : job'[v].pc = "idle"
    BY <1>5, IdleType DEF Restart
  <2>2. JobsStay
    BY <2>1 DEF JobsStay, Naming, HasNewRow
  <2> QED
    BY <1>5, <2>2, SameRows, FundingStays DEF Restart, EventsStay, BusRuns, FundStays
<1>6. ASSUME NEW u \in User, OtherDebit(u)
      PROVE  FundingInv'
  BY <1>6, SameJobs, SameRows, FundingStays DEF OtherDebit, EventsStay, BusRuns, FundStays, tasks
<1>7. ASSUME NEW x \in Position, NEW tp \in Trigger, NEW sl \in Trigger, UpdateTPSL(x, tp, sl)
      PROVE  FundingInv'
  <2>1. \A y \in Position : /\ pos'[y].status = pos[y].status /\ pos'[y].side = pos[y].side
                            /\ pos'[y].size = pos[y].size
    BY <1>1, <1>7 DEF UpdateTPSL, RowTypes, Row
  <2>2. RowsStay
    BY <2>1 DEF RowsStay, IsRow
  <2> QED
    BY <1>7, <2>2, SameJobs, FundingStays DEF UpdateTPSL, EventsStay, BusRuns, FundStays, tasks
<1> QED
  BY <1>2, <1>3, <1>4, <1>5, <1>6, <1>7

-----------------------------------------------------------------------------
(* Settlements and payments *)

LEMMA ExactDivision ==
    ASSUME NEW a \in Int, a % Basis = 0
    PROVE  (a \div Basis) * Basis = a /\ ((-a) \div Basis) * Basis = -a
BY DEF Basis

LEMMA SignsMove ==
    ASSUME NEW s \in Int, NEW r \in Int, NEW m \in Int
    PROVE  r * s * m = s * (r * m) /\ (-r) * s * m = -(s * (r * m))
<1>1. r * s = s * r
  OBVIOUS
<1>2. (s * r) * m = s * (r * m)
  OBVIOUS
<1>3. (-r) * s = -(s * r)
  OBVIOUS
<1>4. (-(s * r)) * m = -((s * r) * m)
  OBVIOUS
<1> QED
  BY <1>1, <1>2, <1>3, <1>4

(* An exact payment is its share of the unit. *)
LEMMA PaymentIsCharge ==
    ASSUME TypeOK, FundingInv, NEW x \in fund.todo
    PROVE  /\ x \in Position /\ IsRow(x) /\ fund.n \in 1 .. MaxSettlements
           /\ FundingAmount(x) \in Int /\ FundingAmount(x) * Basis = Charge(x, FundUnit)
<1>1. x \in Position /\ fund.rate \in Int /\ fund.mark \in Int
  BY DEF TypeOK, TaskTypes, FundTask
<1>2. IsRow(x) /\ pos[x].size \in Size /\ fund.n \in 1 .. MaxSettlements
      /\ (pos[x].size * FundUnit) % Basis = 0
  BY <1>1 DEF FundingInv, RowsNamed, RowsSized
<1>3. pos[x].size \in Int
  <2>1. pos \in [Position -> Row]
    BY DEF TypeOK, RowTypes
  <2>2. pos[x] \in Row
    BY ONLY <1>1, <2>1
  <2> QED
    BY ONLY <2>2 DEF Row
<1> DEFINE s == pos[x].size  r == fund.rate  m == fund.mark
<1>4. FundUnit = r * m /\ s * (r * m) \in Int /\ (s * (r * m)) % Basis = 0
  BY <1>1, <1>2, <1>3 DEF FundUnit
<1>5. FundingAmount(x) = IF pos[x].side = "LONG" THEN ((-r) * s * m) \div Basis ELSE (r * s * m) \div Basis
  BY DEF FundingAmount, SignedRate
<1>6. Charge(x, FundUnit) = IF pos[x].side = "LONG" THEN -(s * (r * m)) ELSE s * (r * m)
  BY <1>4 DEF Charge
<1> HIDE DEF s, r, m
<1>7. s \in Int /\ r \in Int /\ m \in Int
  BY <1>1, <1>3 DEF s, r, m
<1>8. r * s * m = s * (r * m) /\ (-r) * s * m = -(s * (r * m))
  BY <1>7, SignsMove
<1> DEFINE a == s * (r * m)
<1>9. FundingAmount(x) = IF pos[x].side = "LONG" THEN (-a) \div Basis ELSE a \div Basis
  BY <1>5, <1>8
<1> HIDE DEF a
<1>10. a \in Int /\ a % Basis = 0
  BY <1>4 DEF a
<1>11. (a \div Basis) * Basis = a /\ ((-a) \div Basis) * Basis = -a
       /\ a \div Basis \in Int /\ (-a) \div Basis \in Int
  BY <1>10, ExactDivision DEF Basis
<1> QED
  BY <1>1, <1>2, <1>6, <1>9, <1>11 DEF a

LEMMA SettleFunds ==
    ASSUME TypeOK, price \in Price, FundingInv, NEW index \in Index \cup {price}, Settle(index)
    PROVE  FundingInv'
<1>1. /\ fund'.n = fund.n + 1 /\ fund'.mark = price /\ fund'.rate = FundingRate(price, index)
      /\ fund'.todo = OpenRows /\ fund.n < MaxSettlements /\ fund.n \in Nat /\ price # 0
      /\ UNCHANGED <<pos, bus, job, payments>>
  BY DEF Settle, TypeOK, TaskTypes, FundTask
<1>2. fund'.n \in 1 .. MaxSettlements
  BY <1>1, NumberAssumption
<1>3. RowsNamed' /\ RowsSized'
  <2>1. fund'.todo \subseteq Position /\ \A x \in fund'.todo : IsRow(x)
    BY <1>1 DEF OpenRows, IsOpen, IsRow
  <2> QED
    BY <1>1, <2>1, SameJobs, SameRows, NamesStay DEF FundingInv, EventsStay, BusRuns
<1>4. ASSUME NEW n \in 1 .. MaxSettlements
      PROVE  \E unit \in Int : Charged(n, unit)'
  BY <1>1, SameRows, ChargesStay DEF FundingInv
<1>5. ASSUME NEW n \in 1 .. MaxSettlements, NEW unit \in Int, n = fund'.n
      PROVE  Charged(n, unit)'
  <2>1. \A x \in Position : payments'[x][n] = 0
    BY <1>1, <1>5 DEF FundingInv
  <2> QED
    BY <2>1 DEF Charged
<1>6. \A x \in Position : \A n \in 1 .. MaxSettlements : n > fund'.n => payments'[x][n] = 0
  BY <1>1 DEF FundingInv
<1>7. \A size \in Size : (size * FundUnit') % Basis = 0
  BY <1>1, ExactAssumption DEF FundUnit
<1> QED
  BY <1>2, <1>3, <1>4, <1>5, <1>6, <1>7 DEF FundingInv

LEMMA PaymentFunds ==
    ASSUME TypeOK, FundingInv, NEW x \in Position, ApplyPayment(x)
    PROVE  FundingInv'
<1>1. JobTypes /\ fund \in FundTask /\ payments \in [Position -> [1 .. MaxSettlements -> Int]]
  BY DEF TypeOK, TaskTypes
<1>2. x \in fund.todo /\ UNCHANGED <<pos, bus>> /\ RowsStay
  BY SameRows DEF ApplyPayment
<1>3. /\ fund'.n = fund.n /\ fund'.rate = fund.rate /\ fund'.mark = fund.mark
      /\ fund'.todo = fund.todo \ {x} /\ fund.todo \subseteq Position /\ FundUnit' = FundUnit
  BY <1>1 DEF ApplyPayment, FundTask, FundUnit
<1> DEFINE amount == FundingAmount(x)
<1>4. IsRow(x) /\ fund.n \in 1 .. MaxSettlements /\ amount \in Int /\ amount * Basis = Charge(x, FundUnit)
  BY <1>2, PaymentIsCharge
<1>5. CASE UNCHANGED <<payments, job>>
  <2>1. RowsNamed' /\ RowsSized'
    BY <1>2, <1>3, <1>5, SameJobs, NamesStay DEF FundingInv, EventsStay, BusRuns, RowsNamed
  <2>2. \A n \in 1 .. MaxSettlements : \E unit \in Int : Charged(n, unit)'
    BY <1>2, <1>5, ChargesStay DEF FundingInv
  <2>3. ASSUME NEW n \in 1 .. MaxSettlements, NEW unit \in Int, n = fund'.n, unit = FundUnit'
        PROVE  Charged(n, unit)'
    <3>1. Charged(n, unit)
      BY <1>3, <2>3 DEF FundingInv
    <3> QED
      BY <1>2, <1>5, <3>1, ChargesStay
  <2> QED
    BY <1>3, <1>5, <2>1, <2>2, <2>3 DEF FundingInv
<1>6. CASE /\ payments' = [payments EXCEPT ![x][fund.n] = amount]
           /\ job' = [job EXCEPT ![Funder] =
                [Idle EXCEPT !.pc = "apply", !.kind = "funding", !.pos = x, !.row = pos[x], !.delta = amount]]
  <2> DEFINE k == [Idle EXCEPT !.pc = "apply", !.kind = "funding", !.pos = x, !.row = pos[x], !.delta = amount]
  <2>1. k.pc = "apply" /\ k.pos = x
    BY DEF Idle
  <2>2. job' = [job EXCEPT ![Funder] = k]
    BY <1>6
  <2> HIDE DEF k
  <2>3. pos'[x].status # "NONE"
    BY <1>2, <1>4 DEF IsRow
  <2>4. JobsStay
    BY <1>1, <2>1, <2>2, <2>3, BeginStays, WorkerTypes DEF HasNewRow
  <2>5. RowsNamed' /\ RowsSized'
    BY <1>2, <1>3, <2>4, NamesStay DEF FundingInv, EventsStay, BusRuns, RowsNamed
  <2> HIDE DEF amount
  <2>6. \A y \in Position : \A n \in 1 .. MaxSettlements :
           payments'[y][n] = IF y = x /\ n = fund.n THEN amount ELSE payments[y][n]
    BY <1>1, <1>4, <1>6
  <2>7. ASSUME NEW n \in 1 .. MaxSettlements, NEW unit \in Int, Charged(n, unit),
               n = fund.n => unit = FundUnit
        PROVE  Charged(n, unit)'
    <3>1. ASSUME NEW y \in Position, payments'[y][n] # 0
          PROVE  IsRow(y) /\ payments'[y][n] * Basis = Charge(y, unit)
      <4>1. CASE y = x /\ n = fund.n
        BY <1>4, <2>6, <2>7, <4>1
      <4>2. CASE ~(y = x /\ n = fund.n)
        BY <2>6, <2>7, <3>1, <4>2 DEF Charged
      <4> QED
        BY <4>1, <4>2
    <3> QED
      BY <1>2, <3>1 DEF Charged, IsRow, Charge
  <2>8. Charged(fund.n, FundUnit) /\ FundUnit \in Int
    BY <1>1, <1>4 DEF FundingInv, FundUnit, FundTask
  <2>9. \A n \in 1 .. MaxSettlements : \E unit \in Int : Charged(n, unit)'
    BY <2>7, <2>8 DEF FundingInv
  <2>10. ASSUME NEW n \in 1 .. MaxSettlements, NEW unit \in Int, n = fund'.n, unit = FundUnit'
         PROVE  Charged(n, unit)'
    BY <1>3, <2>7, <2>8, <2>10
  <2>11. \A y \in Position : \A n \in 1 .. MaxSettlements : n > fund'.n => payments'[y][n] = 0
    BY <1>3, <1>4, <2>6 DEF FundingInv
  <2>12. fund'.todo # {} => /\ fund'.n \in 1 .. MaxSettlements
                            /\ \A size \in Size : (size * FundUnit') % Basis = 0
    BY <1>3 DEF FundingInv
  <2> QED
    BY <2>5, <2>9, <2>10, <2>11, <2>12 DEF FundingInv
<1> QED
  BY <1>5, <1>6 DEF ApplyPayment

LEMMA FundingInit == ASSUME Init PROVE price \in Price /\ FundingInv
<1>1. /\ \A x \in Position : ~IsRow(x) /\ \A n \in 1 .. MaxSettlements : payments[x][n] = 0
      /\ \A w \in Worker : job[w].pc = "idle"
  BY NoRowType, IdleType DEF Init, IsRow
<1>2. RowsNamed /\ RowsSized
  <2>1. Entries = {}
    BY DEF Init, Entries
  <2> QED
    BY <1>1, <2>1 DEF Init, RowsNamed, RowsSized, Naming, HasNewRow
<1>3. \A n \in 1 .. MaxSettlements, unit \in Int : Charged(n, unit)
  BY <1>1 DEF Charged
<1> QED
  BY <1>1, <1>2, <1>3 DEF Init, FundingInv

LEMMA PriceStep == ASSUME price \in Price, [Next]_vars PROVE price' \in Price
<1>1. price' = price \/ price' \in Price
  BY DEF Next, vars, Arrive, Serve, Settling, EngineStep, FunderStep, OpenPosition, CheckBalance, LockMargin,
     DeductFee, CreateRow, RefundFee, UndoLock, AnnounceOpen, UpdateTPSL, CloseRow, ClosePosition, SettleUnlock,
     SettleApply, ReportClose, ReportBalance, EngineCheck, EngineVisit, AutoClose, Liquidate, SparePosition,
     Settle, ApplyPayment, ProjectPosition, LoseEvent, PriceMoves, OtherDebit, Restart
<1> QED
  BY <1>1

LEMMA FundingStep ==
    ASSUME TypeOK, price \in Price, FundingInv, [Next]_vars
    PROVE  FundingInv'
<1>1. CASE UNCHANGED vars
  BY <1>1, SameJobs, SameRows, FundingStays DEF vars, tasks, EventsStay, BusRuns, FundStays
<1>2. ASSUME NEW p \in Proc, Arrive(p) \/ Serve(p)
      PROVE  FundingInv'
  BY <1>2, ArriveFunds, OpeningFunds, SettlingFunds, WorkerTypes DEF Serve
<1>3. CASE FunderStep
  BY <1>3, SettleFunds, PaymentFunds, SettlingFunds, WorkerTypes DEF FunderStep
<1> QED
  BY <1>1, <1>2, <1>3, EngineFunds, WorldFunds DEF Next

(* Two payments of one unit are in the proportion of the sizes. *)
LEMMA Proportion ==
    ASSUME NEW a \in Int, NEW b \in Int, NEW s \in Int, NEW t \in Int, NEW u \in Int,
           a * Basis = s * u, b * Basis = t * u
    PROVE  a * t = b * s
<1>1. (a * Basis) * t = (s * u) * t /\ (b * Basis) * s = (t * u) * s
  OBVIOUS
<1>2. (s * u) * t = (t * u) * s
  OBVIOUS
<1>3. (a * Basis) * t = (a * t) * Basis /\ (b * Basis) * s = (b * s) * Basis
  BY DEF Basis
<1>4. (a * t) * Basis = (b * s) * Basis /\ a * t \in Int /\ b * s \in Int
  BY <1>1, <1>2, <1>3
<1> QED
  BY <1>4 DEF Basis

LEMMA Uniform ==
    ASSUME TypeOK, FundingInv
    PROVE  FundingIsUniform
<1> SUFFICES ASSUME NEW n \in 1 .. MaxSettlements, NEW x \in Position, NEW y \in Position,
                    payments[x][n] * pos[y].size # 0, payments[y][n] * pos[x].size # 0
             PROVE  payments[x][n] * pos[y].size =
                      IF pos[x].side = pos[y].side THEN payments[y][n] * pos[x].size
                                                   ELSE -(payments[y][n] * pos[x].size)
  BY DEF FundingIsUniform
<1> DEFINE a == payments[x][n]  b == payments[y][n]  s == pos[x].size  t == pos[y].size
<1>1. a \in Int /\ b \in Int /\ s \in Int /\ t \in Int /\ pos[x].side \in Side /\ pos[y].side \in Side
  <2>1. pos[x] \in Row /\ pos[y] \in Row
    BY DEF TypeOK, RowTypes
  <2>2. pos[x].size \in Int /\ pos[y].size \in Int /\ pos[x].side \in Side /\ pos[y].side \in Side
    BY <2>1 DEF Row
  <2>3. payments \in [Position -> [1 .. MaxSettlements -> Int]]
    BY DEF TypeOK, TaskTypes
  <2> QED
    BY <2>2, <2>3
<1>2. a # 0 /\ b # 0
  BY <1>1
<1>3. PICK u \in Int : Charged(n, u)
  BY DEF FundingInv
<1>4. a * Basis = Charge(x, u) /\ b * Basis = Charge(y, u)
  BY <1>2, <1>3 DEF Charged
<1>5. /\ a * Basis = IF pos[x].side = "LONG" THEN -(s * u) ELSE s * u
      /\ b * Basis = IF pos[y].side = "LONG" THEN -(t * u) ELSE t * u
  BY <1>4 DEF Charge
<1> HIDE DEF a, b, s, t
<1> DEFINE c == IF pos[x].side = "LONG" THEN -a ELSE a  d == IF pos[y].side = "LONG" THEN -b ELSE b
<1>6. c \in Int /\ d \in Int /\ c * Basis = s * u /\ d * Basis = t * u
  <2>1. c \in Int /\ d \in Int
    BY <1>1
  <2>2. s * u \in Int /\ t * u \in Int
    BY <1>1
  <2>3. (-a) * Basis = -(a * Basis) /\ (-b) * Basis = -(b * Basis)
    BY <1>1 DEF Basis
  <2> QED
    BY <1>5, <2>1, <2>2, <2>3
<1> HIDE DEF c, d
<1>7. c * t = d * s
  <2>1. s \in Int /\ t \in Int /\ u \in Int
    BY <1>1, <1>3
  <2> QED
    BY ONLY <1>6, <2>1, Proportion DEF Basis
<1>8. (-a) * t = -(a * t) /\ (-b) * s = -(b * s) /\ a * t \in Int /\ b * s \in Int
  BY <1>1
<1>9. c * t = (IF pos[x].side = "LONG" THEN -(a * t) ELSE a * t)
      /\ d * s = (IF pos[y].side = "LONG" THEN -(b * s) ELSE b * s)
  BY <1>8 DEF c, d
<1>10. a * t = IF pos[x].side = pos[y].side THEN b * s ELSE -(b * s)
  BY <1>1, <1>7, <1>8, <1>9 DEF Side
<1> QED
  BY <1>10 DEF a, b, s, t

(* Every two positions that a settlement reached pay it, or are paid, in   *)
(* proportion to their sizes and with the signs of their sides, at one     *)
(* rate and one price: in any interleaving of the payments with price      *)
(* moves, openings, closings and projected events, after failed payments   *)
(* and restarts, and whatever becomes of the rows later.                   *)
THEOREM FundingAtOneRate == Spec => []FundingIsUniform
<1>1. Init => TypeOK /\ price \in Price /\ FundingInv
  BY TypeInit, FundingInit
<1>2. TypeOK /\ price \in Price /\ FundingInv /\ [Next]_vars => (TypeOK /\ price \in Price /\ FundingInv)'
  BY TypeStep, PriceStep, FundingStep
<1>3. TypeOK /\ FundingInv => FundingIsUniform
  BY Uniform
<1> QED
  BY <1>1, <1>2, <1>3, PTL DEF Spec
=============================================================================
