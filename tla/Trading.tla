------------------------------ MODULE Trading ------------------------------
(***************************************************************************)
(* trading-service: one trading pair, BASE_QUOTE.                          *)
(*                                                                         *)
(* PlaceOrder locks the funds of a LIMIT order in Redis, creates the row,  *)
(* and calls ProcessOrder, which under the pair's mutex matches the order  *)
(* in memory, settles each trade by four Redis updates, rolls back what it *)
(* could not settle, rests what is left of a LIMIT order, and publishes.   *)
(* The orders table follows through order.updated events and through what  *)
(* the handlers write themselves.  CancelOrder works from the row and does *)
(* not take the mutex.                                                     *)
(*                                                                         *)
(* A request is served by a goroutine of Proc; a Redis command, a database *)
(* statement and a section under a mutex is one step each.  Redis keys are *)
(* warm (Wallet models how they come to be).  Prices are multiples of      *)
(* FeeScale, so that fees are whole numbers.                               *)
(***************************************************************************)
EXTENDS OrderBook, Totals

CONSTANTS
    User,         \* customers
    FeeWallet,    \* the platform fee wallet's user
    Proc,         \* goroutines serving requests
    MaxOrders,    \* bound: orders created in a behaviour
    Price,        \* limit prices, and prices market-service answers
    Amount,       \* amounts a request may carry
    FeeScale,     \* fees are rates per FeeScale
    MakerRate, TakerRate,
    LockRate,     \* allowance for fees in the lock of a LIMIT BUY (1 per 1000 in the code)
    CheckRate,    \* and in the balance check of a MARKET BUY       (2 per 1000)
    Situation,    \* what a behaviour is about: [users, procs, types, prices, amounts: which of
                  \* them occur; quotes: what market-service answers (0: no price); funds: what
                  \* every customer starts with; orders: bound; faults: which of FaultKind may
                  \* happen; calm: requests come one after another, the rows up to date]
    None          \* no order, no goroutine

(* "script"    a Redis update fails, before or after it took effect        *)
(* "db"        the INSERT of an order fails                                *)
(* "spend"     another service debits a customer (futures loss, other pair)*)
(* "crash"     the service restarts                                        *)
(* "admin"     an administrator cancels orders                             *)
FaultKind == {"script", "db", "spend", "crash", "admin"}

Currency == {"base", "quote"}
OrderType == {"LIMIT", "MARKET", "STOP_LIMIT"}
Order == 1 .. MaxOrders
Account == User \cup {FeeWallet}

ASSUME TradingAssumption ==
    /\ MaxOrders \in Nat
    /\ IsFiniteSet(User) /\ IsFiniteSet(Proc)
    /\ FeeWallet \notin User
    /\ FeeScale \in Nat \ {0}
    /\ MakerRate \in 0 .. FeeScale /\ TakerRate \in 0 .. FeeScale /\ LockRate \in Nat /\ CheckRate \in Nat
    /\ Price \subseteq Nat \ {0}
    /\ \A p \in Price : p % FeeScale = 0
    /\ Amount \subseteq Nat \ {0}
    /\ None \notin Order \cup Proc
(* No tier pays more than the allowance, 0.001 of the price.               *)
ASSUME RateAssumption == MakerRate <= LockRate /\ TakerRate <= LockRate
ASSUME SituationAssumption ==
    \A s \in Situation :
       /\ s.users \subseteq User /\ s.procs \subseteq Proc /\ s.types \subseteq OrderType
       /\ s.prices \subseteq Price /\ s.amounts \subseteq Amount /\ s.quotes \subseteq Price \cup {0}
       /\ s.funds \in [Currency -> Nat] /\ s.orders \in 0 .. MaxOrders
       /\ s.faults \subseteq FaultKind /\ s.calm \in BOOLEAN

VARIABLES
    bal, lck,   \* Redis: [Account -> [Currency -> Nat]]
    terms,      \* what each order is: user, side, type, price, amount
    mem,        \* model.Order in memory: filled, status
    row,        \* the orders table:      filled, status
    book,       \* the in-memory order book
    mutex,      \* holder of the pair's mutex, or None
    updates,    \* order.updated events the order projector has not read
    job,        \* [Proc -> Job]: what each goroutine is doing
    lastId,     \* orders created so far
    settled,    \* history: quantity of each order that was paid for
    posted,     \* history: balance changes published, per account
    outside,    \* history: what went to other services and the synthetic counterparty
    here        \* the situation; it never changes

redis   == <<bal, lck>>
orders  == <<terms, mem, row, lastId>>
engine  == <<book, mutex>>
history == <<settled, posted, outside, here>>
vars == <<redis, orders, engine, updates, job, history>>

-----------------------------------------------------------------------------
(* Types *)

Status == {"NONE", "OPEN", "PARTIAL", "FILLED", "CANCELLED"}
Terms == [user : Account, side : Side, type : OrderType, price : Nat, amount : Nat]
Progress == [filled : Int, status : Status]
NoProgress == [filled |-> 0, status |-> "NONE"]
NoTerms == [user |-> FeeWallet, side |-> "BUY", type |-> "LIMIT",
            price |-> 0, amount |-> 0]

Trade == [buy : Order \cup {None}, sell : Order \cup {None}, price : Nat, amt : Int]
Update == [order : Order, filled : Int, status : Status]

(* A goroutine: its order (terms before the row exists), the trades being  *)
(* settled, the one it is at, the leg of that one, and what it has read.   *)
Job == [pc : {"idle", "create", "match", "leg", "undo", "tail", "price", "rollback", "add",
              "publish", "syncRead", "syncWrite", "failed",
              "unlock", "save", "remove", "announce"},
        order : Order \cup {None}, what : Terms, by : {"user", "admin"},
        trades : Seq(Trade), at : Nat, leg : Nat, undo : Nat,
        out : Seq(Update), seen : Progress]

Idle == [pc |-> "idle", order |-> None, what |-> NoTerms, by |-> "user",
         trades |-> <<>>, at |-> 0, leg |-> 0, undo |-> 0, out |-> <<>>, seen |-> NoProgress]

Faults == here.faults
MarketPrice == here.quotes

(* A goroutine that may take a request: in a calm situation, when none is  *)
(* served and the rows are up to date.                                     *)
AllIdle == \A p \in Proc : job[p].pc = "idle"
Quiescent == AllIdle /\ updates = <<>>
Free(p) == p \in here.procs /\ job[p].pc = "idle" /\ (here.calm => Quiescent)

Goto(p, label) == job' = [job EXCEPT ![p].pc = label]
Finish(p) == job' = [job EXCEPT ![p] = Idle]

-----------------------------------------------------------------------------
(* Redis *)

Add(store, u, c, n) == [store EXCEPT ![u][c] = @ + n]
Lower(u, c, n) == [lck EXCEPT ![u][c] = IF @ > n THEN @ - n ELSE 0]

(* updateBalanceRedis: a debit compares with the balance, not with what of *)
(* it is locked.                                                           *)
CanApply(u, c, delta) == delta >= 0 \/ bal[u][c] + delta >= 0

(* The lock of qty of an order: base of a SELL, price and fees of a BUY.   *)
LockCurrency(t) == IF t.side = "BUY" THEN "quote" ELSE "base"
LockFor(t, qty) == IF t.side = "BUY" THEN (t.price * qty * (FeeScale + LockRate)) \div FeeScale
                                     ELSE qty

CheckFor(t) == IF t.side = "BUY" THEN (t.price * t.amount * (FeeScale + CheckRate)) \div FeeScale
                                 ELSE t.amount

-----------------------------------------------------------------------------
(* Trades: fees and the Redis updates that settle them *)

Value(t) == t.price * t.amt
Fee(t, o, taker) == (Value(t) * (IF o = taker THEN TakerRate ELSE MakerRate)) \div FeeScale
Leg(o, c, delta) == [user |-> terms[o].user, cur |-> c, delta |-> delta]

BuyLegsNoFee(t, taker) == IF t.buy = None THEN <<>>     \* mutant: the buyer pays no fee
    ELSE << Leg(t.buy, "quote", -Value(t)), Leg(t.buy, "base", t.amt) >>
BuyLegs(t, taker) == IF t.buy = None THEN <<>>
    ELSE << Leg(t.buy, "quote", -(Value(t) + Fee(t, t.buy, taker))), Leg(t.buy, "base", t.amt) >>
SellLegs(t, taker) == IF t.sell = None THEN <<>>
    ELSE << Leg(t.sell, "base", -t.amt), Leg(t.sell, "quote", Value(t) - Fee(t, t.sell, taker)) >>
Legs(t, taker) == BuyLegs(t, taker) \o SellLegs(t, taker)

Parties(t) == {t.buy, t.sell} \ {None}
TotalFee(t, taker) == (IF t.buy = None THEN 0 ELSE Fee(t, t.buy, taker))
                    + (IF t.sell = None THEN 0 ELSE Fee(t, t.sell, taker))
Synthetic(t) == t.buy = None \/ t.sell = None

(* What settling a trade moves: its legs, and its fees to the platform. *)
Movements(t, taker) == Append(Legs(t, taker),
    [user |-> FeeWallet, cur |-> "quote", delta |-> TotalFee(t, taker)])
Net(t, taker, u, c) ==
    LET moves == Movements(t, taker) IN
    Sum([j \in DOMAIN moves |-> moves[j].delta],
        {j \in DOMAIN moves : moves[j].user = u /\ moves[j].cur = c})

(* A store of balances after trades are settled. *)
Settle(store, trades, taker) ==
    [u \in Account |-> [c \in Currency |->
        store[u][c] + Sum([i \in DOMAIN trades |-> Net(trades[i], taker, u, c)], DOMAIN trades)]]

UpdateFor(m, o) == [order |-> o, filled |-> m[o].filled, status |-> m[o].status]

(* Two events per trade, of what the orders have become after all of them. *)
UpdatesOf(trades, m) ==
    [k \in 1 .. 2 * Len(trades) |->
        LET t == trades[(k + 1) \div 2] IN
        UpdateFor(m, IF k % 2 = 1 THEN t.buy ELSE t.sell)]

-----------------------------------------------------------------------------
(* PlaceOrder *)

(* A LIMIT order locks its funds; a MARKET order is let through when the   *)
(* available balance would pay for it at the price of the moment.  For a   *)
(* STOP_LIMIT order nothing is checked, and no code looks at its stop.     *)
PlaceOrder(p, t) ==
    /\ Free(p)
    /\ t.user \in here.users /\ t.type \in here.types
    /\ t.price \in here.prices \cup {0} /\ t.amount \in here.amounts
    /\ lastId + Cardinality({q \in Proc : job[q].pc = "create"}) < here.orders
    /\ \/ /\ t.type = "LIMIT"
          /\ bal[t.user][LockCurrency(t)] - lck[t.user][LockCurrency(t)] >= LockFor(t, t.amount)
          /\ lck' = Add(lck, t.user, LockCurrency(t), LockFor(t, t.amount))
       \/ /\ t.type = "MARKET"
          /\ \E price \in MarketPrice \ {0} :
                bal[t.user][LockCurrency(t)] - lck[t.user][LockCurrency(t)]
                  >= CheckFor([t EXCEPT !.price = price])
          /\ UNCHANGED lck
       \/ t.type = "STOP_LIMIT" /\ UNCHANGED lck
    /\ job' = [job EXCEPT ![p] = [Idle EXCEPT !.pc = "create", !.what = t]]
    /\ UNCHANGED <<bal, orders, engine, updates, history>>

CreateOrder(p) ==
    /\ job[p].pc = "create"
    /\ \/ /\ lastId' = lastId + 1
          /\ terms' = [terms EXCEPT ![lastId'] = job[p].what]
          /\ mem' = [mem EXCEPT ![lastId'].status = "OPEN"]
          /\ row' = [row EXCEPT ![lastId'].status = "OPEN"]
          /\ job' = [job EXCEPT ![p] = [Idle EXCEPT !.pc = "match", !.order = lastId']]
       \/ "db" \in Faults /\ Finish(p) /\ UNCHANGED orders
    /\ UNCHANGED <<redis, engine, updates, history>>


(* ProcessOrder takes the mutex and matches the order; the events of its   *)
(* trades carry what the orders have become by then.                       *)
MatchOrder(p) ==
    LET o == job[p].order
        m == Match(terms, mem, book, o) IN
    /\ job[p].pc = "match"
    /\ mutex = None
    /\ mutex' = p
    /\ mem' = m.mem
    /\ book' = [book EXCEPT ![Opposite(terms[o].side)] = m.rest]
    /\ job' = [job EXCEPT ![p].pc = IF m.trades = <<>> THEN "price" ELSE "leg",
                          ![p].trades = m.trades, ![p].at = 1, ![p].leg = 1,
                          ![p].out = UpdatesOf(m.trades, m.mem)]
    /\ UNCHANGED <<redis, terms, row, lastId, updates, history>>

CurrentTrade(p) == job[p].trades[job[p].at]
CurrentLegs(p) == Legs(CurrentTrade(p), job[p].order)

ApplyLeg(l) == bal' = Add(bal, l.user, l.cur, l.delta)

(* One of the updates that settle a trade. *)
SettleLeg(p) ==
    LET l == CurrentLegs(p)[job[p].leg] IN
    /\ job[p].pc = "leg"
    /\ CanApply(l.user, l.cur, l.delta)
    /\ ApplyLeg(l)
    /\ IF job[p].leg = Len(CurrentLegs(p)) THEN Goto(p, "tail")
                                           ELSE job' = [job EXCEPT ![p].leg = @ + 1]
    /\ UNCHANGED <<lck, orders, engine, updates, history>>

(* It is refused, or fails before or after it took effect: the legs before *)
(* it are undone, errors ignored.                                          *)
LegFails(p) ==
    LET l == CurrentLegs(p)[job[p].leg] IN
    /\ job[p].pc = "leg"
    /\ \/ ~CanApply(l.user, l.cur, l.delta) /\ UNCHANGED bal
       \/ "script" \in Faults /\ UNCHANGED bal
       \/ "script" \in Faults /\ CanApply(l.user, l.cur, l.delta) /\ ApplyLeg(l)
    /\ job' = [job EXCEPT ![p].pc = IF job[p].leg = 1 THEN "rollback" ELSE "undo", ![p].undo = 1]
    /\ UNCHANGED <<lck, orders, engine, updates, history>>

UndoLeg(p) ==
    LET l == CurrentLegs(p)[job[p].undo] IN
    /\ job[p].pc = "undo"
    /\ \/ CanApply(l.user, l.cur, -l.delta) /\ ApplyLeg([l EXCEPT !.delta = -@])
       \/ ~CanApply(l.user, l.cur, -l.delta) /\ UNCHANGED bal
       \/ "script" \in Faults /\ UNCHANGED bal
    /\ IF job[p].undo + 1 = job[p].leg THEN Goto(p, "rollback")
                                       ELSE job' = [job EXCEPT ![p].undo = @ + 1]
    /\ UNCHANGED <<lck, orders, engine, updates, history>>

(* The fee goes to the platform, the locks of the LIMIT parties shrink by  *)
(* what they paid; a MARKET order filled at the market price is done.      *)
PaidOf(t, o, taker) == IF o = t.buy THEN Value(t) + Fee(t, o, taker) ELSE t.amt

UnlockParty(store, t, o, taker) ==
    LET u == terms[o].user
        c == LockCurrency(terms[o])
        n == PaidOf(t, o, taker) IN
    IF terms[o].type # "LIMIT" THEN store
    ELSE [store EXCEPT ![u][c] = IF @ > n THEN @ - n ELSE 0]

SettleTail(p) ==
    LET t == CurrentTrade(p)
        o == job[p].order IN
    /\ job[p].pc = "tail"
    /\ bal' = Add(bal, FeeWallet, "quote", TotalFee(t, o))
    /\ lck' = IF Synthetic(t) THEN lck
              ELSE UnlockParty(UnlockParty(lck, t, t.buy, o), t, t.sell, o)
    /\ settled' = [x \in Order |-> IF x \in Parties(t) THEN settled[x] + t.amt ELSE settled[x]]
    /\ mem' = IF Synthetic(t) THEN Fill(terms, mem, o, t.amt) ELSE mem
    /\ outside' = IF ~Synthetic(t) THEN outside
                  ELSE IF t.buy = None
                       THEN [outside EXCEPT !.base = @ + t.amt, !.quote = @ - Value(t)]
                       ELSE [outside EXCEPT !.base = @ - t.amt, !.quote = @ + Value(t)]
    /\ job' = [job EXCEPT ![p].pc = IF Synthetic(t) THEN "publish"
                                    ELSE IF job[p].at = Len(job[p].trades) THEN "price" ELSE "leg",
                          ![p].at = @ + 1, ![p].leg = 1]
    /\ UNCHANGED <<terms, row, lastId, engine, updates, posted, here>>

(* What is left of a MARKET order is filled at the price market-service    *)
(* answers; without a price it stays as it is.                             *)
FillAtMarket(p) ==
    LET o == job[p].order
        left == Remaining(terms, mem, o) IN
    /\ job[p].pc = "price"
    /\ terms[o].type = "MARKET" /\ left > 0
    /\ \E price \in MarketPrice \ {0} :
          job' = [job EXCEPT ![p].pc = "leg", ![p].leg = 1, ![p].at = Len(job[p].trades) + 1,
                     ![p].trades = Append(@, [buy  |-> IF terms[o].side = "BUY" THEN o ELSE None,
                                              sell |-> IF terms[o].side = "SELL" THEN o ELSE None,
                                              price |-> price, amt |-> left])]
    /\ UNCHANGED <<redis, orders, engine, updates, history>>

(* What is left of a LIMIT order rests. *)
NoMarketFill(p) ==
    LET o == job[p].order IN
    /\ job[p].pc = "price"
    /\ terms[o].type = "MARKET" => IsFilled(terms, mem, o) \/ 0 \in MarketPrice
    /\ Goto(p, "add")
    /\ UNCHANGED <<redis, orders, engine, updates, history>>

RestOrder(p) ==
    LET o == job[p].order IN
    /\ job[p].pc = "add"
    /\ book' = IF IsFilled(terms, mem, o) \/ terms[o].type # "LIMIT" THEN book
               ELSE AddOrder(terms, book, o)
    /\ Goto(p, "publish")
    /\ UNCHANGED <<redis, orders, mutex, updates, history>>

PublishKeepsMutex(p) ==     \* mutant: the mutex is not released
    LET o == job[p].order IN
    /\ job[p].pc = "publish"
    /\ updates' = updates \o Append(job[p].out, UpdateFor(mem, o))
    /\ posted' = Settle(posted, job[p].trades, o)
    /\ job' = [job EXCEPT ![p] = [Idle EXCEPT !.pc = "syncRead", !.order = o]]
    /\ UNCHANGED <<redis, orders, engine, settled, outside, here>>
PublishUpdates(p) ==
    LET o == job[p].order IN
    /\ job[p].pc = "publish"
    /\ updates' = updates \o Append(job[p].out, UpdateFor(mem, o))
    /\ posted' = Settle(posted, job[p].trades, o)
    /\ mutex' = None
    /\ job' = [job EXCEPT ![p] = [Idle EXCEPT !.pc = "syncRead", !.order = o]]
    /\ UNCHANGED <<redis, orders, book, settled, outside, here>>

(* SyncOrderStatus writes what the handler reads of the order after the    *)
(* mutex is free.                                                          *)
SyncRead(p) ==
    /\ job[p].pc = "syncRead"
    /\ job' = [job EXCEPT ![p].pc = "syncWrite", ![p].seen = mem[job[p].order]]
    /\ UNCHANGED <<redis, orders, engine, updates, history>>

SyncWrite(p) ==
    /\ job[p].pc = "syncWrite"
    /\ row' = [row EXCEPT ![job[p].order] = job[p].seen]
    /\ Finish(p)
    /\ UNCHANGED <<redis, terms, mem, lastId, engine, updates, history>>

-----------------------------------------------------------------------------
(* rollbackTrades, and the handler's answer to a failed order *)

StatusAfter(filled) == IF filled <= 0 THEN "OPEN" ELSE "PARTIAL"
Revert(m, o, qty) == [m EXCEPT ![o] = [filled |-> @.filled - qty,
                                       status |-> StatusAfter(@.filled - qty)]]

(* Per unsettled trade: both orders are un-filled, and a resting order     *)
(* that is left with nothing filled is added to the book.                  *)
UnmatchTaker(acc, t, o) ==  \* mutant: only the incoming order is un-filled
    [mem |-> Revert(acc.mem, o, t.amt), book |-> acc.book]
Unmatch(acc, t, o) ==
    LET resting == IF terms[o].side = "BUY" THEN t.sell ELSE t.buy
        m == Revert(Revert(acc.mem, o, t.amt), resting, t.amt) IN
    [mem  |-> m,
     book |-> IF m[resting].status = "OPEN" THEN AddOrder(terms, acc.book, resting) ELSE acc.book]

Unmatched(trades, o) ==
    FoldLeft(LAMBDA acc, t : IF Synthetic(t) THEN acc ELSE Unmatch(acc, t, o),
             [mem |-> mem, book |-> book], trades)

RollbackTrades(p) ==
    LET o == job[p].order
        left == SubSeq(job[p].trades, job[p].at, Len(job[p].trades))
        paid == Sum([i \in DOMAIN job[p].trades |-> job[p].trades[i].amt], 1 .. job[p].at - 1)
        undone == Unmatched(left, o) IN
    /\ job[p].pc = "rollback"
    /\ mem' = [undone.mem EXCEPT ![o] = [filled |-> paid, status |-> StatusAfter(paid)]]
    /\ book' = undone.book
    /\ mutex' = None
    /\ job' = [job EXCEPT ![p] = [Idle EXCEPT !.pc = "failed", !.order = o]]
    /\ UNCHANGED <<redis, terms, row, lastId, updates, history>>

(* The row is saved as cancelled; no event is published, no lock released. *)
FailOrder(p) ==
    LET o == job[p].order IN
    /\ job[p].pc = "failed"
    /\ mem' = [mem EXCEPT ![o].status = "CANCELLED"]
    /\ row' = [row EXCEPT ![o] = mem'[o]]
    /\ Finish(p)
    /\ UNCHANGED <<redis, terms, lastId, engine, updates, history>>

-----------------------------------------------------------------------------
(* CancelOrder, by its user or by an administrator *)

CancelOrder(p, o, by) ==
    /\ Free(p)
    /\ row[o].status \in {"OPEN", "PARTIAL"}
    /\ job' = [job EXCEPT ![p] = [Idle EXCEPT !.pc = "unlock", !.order = o, !.by = by,
                                             !.seen = row[o]]]
    /\ UNCHANGED <<redis, orders, engine, updates, history>>

(* On behalf of the user, an administrator calls the same service, and not *)
(* the engine.                                                             *)
CancelUserOrder(p, o) == "admin" \in Faults /\ CancelOrder(p, o, "admin")

(* The remainder according to the row that was read is unlocked. *)
UnlockAll(p) ==             \* mutant: the whole amount is unlocked
    LET t == terms[job[p].order] IN
    /\ job[p].pc = "unlock"
    /\ lck' = Lower(t.user, LockCurrency(t), LockFor(t, t.amount))
    /\ Goto(p, "save")
    /\ UNCHANGED <<bal, orders, engine, updates, history>>
CancelUnlock(p) ==
    LET t == terms[job[p].order] IN
    /\ job[p].pc = "unlock"
    /\ \/ /\ t.type = "LIMIT"
          /\ lck' = Lower(t.user, LockCurrency(t), LockFor(t, t.amount - job[p].seen.filled))
       \/ /\ t.type # "LIMIT" \/ "script" \in Faults
          /\ UNCHANGED lck
    /\ Goto(p, "save")
    /\ UNCHANGED <<bal, orders, engine, updates, history>>

(* The whole row is saved as it was read; an administrator's cancellation  *)
(* ends there.                                                             *)
CancelSave(p) ==
    /\ job[p].pc = "save"
    /\ row' = [row EXCEPT ![job[p].order] = [job[p].seen EXCEPT !.status = "CANCELLED"]]
    /\ IF job[p].by = "user" THEN Goto(p, "remove") ELSE Finish(p)
    /\ UNCHANGED <<redis, terms, mem, lastId, engine, updates, history>>

CancelRemove(p) ==
    /\ job[p].pc = "remove"
    /\ book' = RemoveOrder(terms, book, job[p].order)
    /\ Goto(p, "announce")
    /\ UNCHANGED <<redis, orders, mutex, updates, history>>

CancelAnnounce(p) ==
    /\ job[p].pc = "announce"
    /\ updates' = Append(updates, [order |-> job[p].order, filled |-> job[p].seen.filled,
                                   status |-> "CANCELLED"])
    /\ Finish(p)
    /\ UNCHANGED <<redis, orders, engine, history>>

-----------------------------------------------------------------------------
(* Background *)

(* The order projector: an unconditional UPDATE. *)
ProjectStatusOnly ==        \* mutant: the filled amount is not written
    LET u == Head(updates) IN
    /\ updates # <<>>
    /\ row' = [row EXCEPT ![u.order].status = u.status]
    /\ updates' = Tail(updates)
    /\ UNCHANGED <<redis, terms, mem, lastId, engine, job, history>>
ProjectUpdate ==
    LET u == Head(updates) IN
    /\ updates # <<>>
    /\ row' = [row EXCEPT ![u.order] = [filled |-> u.filled, status |-> u.status]]
    /\ updates' = Tail(updates)
    /\ UNCHANGED <<redis, terms, mem, lastId, engine, job, history>>

(* Another service debits an account it shares with this one. *)
OtherDebit(u, c, n) ==
    /\ "spend" \in Faults
    /\ u \in here.users /\ n \in here.amounts
    /\ CanApply(u, c, -n)
    /\ bal' = Add(bal, u, c, -n)
    /\ posted' = Add(posted, u, c, -n)
    /\ outside' = [outside EXCEPT ![c] = @ + n]
    /\ UNCHANGED <<lck, orders, engine, updates, job, settled, here>>

(* The process dies; LoadOpenOrders fills the book from the rows, in the   *)
(* order the database returns them.                                        *)
OpenRows == {o \in 1 .. lastId : row[o].status \in {"OPEN", "PARTIAL"} /\ terms[o].type = "LIMIT"}

LoadOpenOrders(s) == FoldLeft(LAMBDA b, o : AddOrder(terms, b, o), EmptyBook, s)

Restart ==
    /\ "crash" \in Faults
    /\ \E s \in SetToSeqs(OpenRows) : book' = LoadOpenOrders(s)
    /\ mem' = row
    /\ mutex' = None
    /\ job' = [p \in Proc |-> Idle]
    /\ UNCHANGED <<redis, terms, row, lastId, updates, history>>

-----------------------------------------------------------------------------
(* Specifications *)

Init ==
    /\ here \in Situation
    /\ bal = [a \in Account |-> IF a = FeeWallet THEN [c \in Currency |-> 0] ELSE here.funds]
    /\ lck = [a \in Account |-> [c \in Currency |-> 0]]
    /\ terms = [o \in Order |-> NoTerms]
    /\ mem = [o \in Order |-> NoProgress]
    /\ row = [o \in Order |-> NoProgress]
    /\ lastId = 0
    /\ book = EmptyBook
    /\ mutex = None
    /\ updates = <<>>
    /\ job = [p \in Proc |-> Idle]
    /\ settled = [o \in Order |-> 0]
    /\ posted = bal
    /\ outside = [c \in Currency |-> 0]

(* A MARKET order's own price is not used. *)
Request == {t \in [user : User, side : Side, type : OrderType, price : Price \cup {0}, amount : Amount] :
               t.type = "MARKET" <=> t.price = 0}

Arrive(p) ==
    \/ \E t \in Request : PlaceOrder(p, t)
    \/ \E o \in Order : CancelOrder(p, o, "user") \/ CancelUserOrder(p, o)

Serve(p) ==
    \/ CreateOrder(p) \/ MatchOrder(p)
    \/ SettleLeg(p) \/ LegFails(p) \/ UndoLeg(p) \/ SettleTail(p)
    \/ FillAtMarket(p) \/ NoMarketFill(p) \/ RestOrder(p) \/ PublishUpdates(p)
    \/ SyncRead(p) \/ SyncWrite(p)
    \/ RollbackTrades(p) \/ FailOrder(p)
    \/ CancelUnlock(p) \/ CancelSave(p) \/ CancelRemove(p) \/ CancelAnnounce(p)

Others == \E u \in User, c \in Currency, n \in Amount : OtherDebit(u, c, n)

Next == (\E p \in Proc : Arrive(p) \/ Serve(p)) \/ ProjectUpdate \/ Others \/ Restart

Spec == Init /\ [][Next]_vars

(* Goroutines run, and sync.Mutex keeps no waiter out forever. *)
Fairness == /\ \A p \in Proc : WF_vars(Serve(p)) /\ SF_vars(MatchOrder(p))
            /\ WF_vars(ProjectUpdate)
FairSpec == Spec /\ Fairness
=============================================================================
