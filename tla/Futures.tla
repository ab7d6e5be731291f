------------------------------ MODULE Futures ------------------------------
(***************************************************************************)
(* futures-service: leveraged positions on one perpetual pair.             *)
(*                                                                         *)
(* Users open and close positions, the liquidation engine closes them at   *)
(* their triggers or liquidates them, the funding scheduler charges them   *)
(* every interval, and a projector copies position.changed events back     *)
(* into the rows.  Only the rows belong to this service: funds are locked, *)
(* deducted and credited by calls to wallet-service, each one step here    *)
(* (Wallet models what happens inside such a call).                        *)
(*                                                                         *)
(* Amounts are exact: prices and sizes are chosen so that margins and fees *)
(* are whole numbers, and so are the columns that round to cents.          *)
(***************************************************************************)
EXTENDS Integers, Sequences, FiniteSets

CONSTANTS
    User,
    Proc,             \* goroutines serving requests of users and administrators
    Engine,           \* the liquidation engine's goroutine
    Funder,           \* the funding scheduler's goroutine
    Position,         \* rows of futures_positions
    Size,             \* position sizes a request may carry
    Leverage,         \* leverages a request may carry
    Price,            \* mark prices; 0: price unavailable
    Index,            \* index prices
    Trigger,          \* take-profit and stop-loss prices; 0: none
    InitBal,          \* USDT every user starts with
    MaxRequests,      \* bound: requests to open a position in a behaviour
    MaxSettlements,   \* bound: funding settlements in a behaviour
    MaxUncommitted,   \* bound: entries read since the last commit
    Faults,           \* which of FaultKind may happen
    None              \* no position

(* "grpc"     a call to wallet-service fails, before or after its effect   *)
(* "db"       a statement or transaction on the rows fails                 *)
(* "publish"  an event is lost                                             *)
(* "spend"    the rest of the exchange debits the user                     *)
(* "crash"    the service restarts                                         *)
FaultKind == {"grpc", "db", "publish", "spend", "crash"}

Worker == Proc \cup {Engine, Funder}

ASSUME WorkerAssumption ==
    IsFiniteSet(Proc) /\ Engine \notin Proc /\ Funder \notin Proc /\ Engine # Funder
ASSUME PositionAssumption == IsFiniteSet(Position) /\ None \notin Position /\ User # {}
ASSUME NumberAssumption ==
    /\ Size \subseteq Nat \ {0} /\ Leverage \subseteq 1 .. 125
    /\ Price \subseteq Nat /\ Index \subseteq Nat \ {0} /\ Trigger \subseteq Nat
    /\ InitBal \in Nat /\ MaxRequests \in Nat /\ MaxSettlements \in Nat
    /\ MaxUncommitted \in Nat
ASSUME FaultsAssumption == Faults \subseteq FaultKind

VARIABLES
    price,       \* Redis price:<pair>
    bal, lck,    \* wallet-service: balance and locked balance in Redis
    posted,      \* net of the balance.changed events that change balances
    pos,         \* futures_positions
    events,      \* position.changed entries the projector has still to read
    uncommitted, \* the entries it has read last, which a restart may give again
    job,         \* [Worker -> Job]: what each goroutine is doing
    scan,        \* rows of the engine's current check it has not visited
    fund,        \* the funding settlement under way
    payments,    \* funding_payments: [Position -> [settlement -> amount]]
    requested,   \* requests to open so far        (counter for MaxRequests)
    closings,    \* how often a position was closed               (history)
    moved        \* what closing a position did to the balance    (history)

wallet  == <<bal, lck, posted>>
bus     == <<events, uncommitted>>
tasks   == <<scan, fund, payments>>
history == <<requested, closings, moved>>
vars    == <<price, wallet, pos, bus, job, tasks, history>>

-----------------------------------------------------------------------------
(* Positions *)

Basis == 10000
FeeRate == 5           \* 0.0005
Maintenance == 50      \* 0.005
MaxFundingRate == 50   \* 0.005

Side == {"LONG", "SHORT"}
Fee(notional) == (notional * FeeRate) \div Basis
Larger(x, y) == IF x > y THEN x ELSE y

CalcLiquidationPrice(side, entry, lev) ==
    LET distance == entry \div lev - (entry * Maintenance) \div Basis IN
    IF side = "LONG" THEN entry - distance ELSE entry + distance

CalcUnrealizedPnL(r, mark) ==
    r.size * (IF r.side = "LONG" THEN mark - r.entry ELSE r.entry - mark)

Row == [status : {"NONE", "OPEN", "CLOSED", "LIQUIDATED"}, user : User, side : Side,
        size : Nat, entry : Nat, margin : Nat, liq : Int, tp : Nat, sl : Nat, pnl : Int]
AnyUser == CHOOSE u \in User : TRUE
NoRow == [status |-> "NONE", user |-> AnyUser, side |-> "LONG", size |-> 0, entry |-> 0,
          margin |-> 0, liq |-> 0, tp |-> 0, sl |-> 0, pnl |-> 0]
NewRow(u, side, size, lev, tp, sl) ==
    [status |-> "OPEN", user |-> u, side |-> side, size |-> size, entry |-> price,
     margin |-> (size * price) \div lev, liq |-> CalcLiquidationPrice(side, price, lev),
     tp |-> tp, sl |-> sl, pnl |-> 0]

IsOpen(x) == pos[x].status = "OPEN"
OpenFee(r) == Fee(r.size * r.entry)

-----------------------------------------------------------------------------
(* Goroutines *)

Label == {"idle", "check", "lock", "fee", "create", "refund", "undo", "announce",
          "tx", "unlock", "apply", "report"}
Kind == {"none", "open", "user", "auto", "liq", "funding"}
(* row is the new row of an opening, the captured row of a closing or a    *)
(* payment; delta is what is left to apply to the balance.                 *)
Job == [pc : Label, kind : Kind, pos : Position \cup {None}, row : Row,
        price : Nat, delta : Int]
Idle == [pc |-> "idle", kind |-> "none", pos |-> None, row |-> NoRow, price |-> 0, delta |-> 0]
Event == [pos : Position, status : {"OPEN", "CLOSED"}, pnl : Int]

Goto(w, label) == job' = [job EXCEPT ![w].pc = label]
Finish(w) == job' = [job EXCEPT ![w] = Idle]

-----------------------------------------------------------------------------
(* Calls to wallet-service (external: Wallet has their steps) *)

Available(u) == bal[u] - lck[u]
Lock(u, n) == lck' = [lck EXCEPT ![u] = @ + n] /\ UNCHANGED <<bal, posted>>
Unlock(u, n) == lck' = [lck EXCEPT ![u] = Larger(@ - n, 0)] /\ UNCHANGED <<bal, posted>>
Add(u, n) == /\ bal' = [bal EXCEPT ![u] = @ + n]
             /\ posted' = [posted EXCEPT ![u] = @ + n]
             /\ UNCHANGED lck
CanDeductAny(u, n) == TRUE              \* mutant: the balance is not compared
CanDeduct(u, n) == bal[u] >= n          \* Deduct does not look at the lock
Deduct(u, n) == CanDeduct(u, n) /\ Add(u, -n)

(* An error the caller sees, whether or not the call took effect. *)
Fails(Call) == "grpc" \in Faults /\ (Call \/ UNCHANGED wallet)

-----------------------------------------------------------------------------
(* OpenPosition: check, lock the margin, deduct the fee, create the row *)

OpenPosition(p, u, side, size, lev, tp, sl) ==
    /\ job[p].pc = "idle"
    /\ price > 0
    /\ requested < MaxRequests /\ requested' = requested + 1
    /\ job' = [job EXCEPT ![p] = [Idle EXCEPT !.pc = "check", !.kind = "open",
                                     !.row = NewRow(u, side, size, lev, tp, sl)]]
    /\ UNCHANGED <<price, wallet, pos, bus, tasks, closings, moved>>

CheckBalance(p) ==
    LET r == job[p].row IN
    /\ job[p].pc = "check"
    /\ \/ Available(r.user) >= r.margin + OpenFee(r) /\ Goto(p, "lock")
       \/ Available(r.user) < r.margin + OpenFee(r) /\ Finish(p)
       \/ "grpc" \in Faults /\ Finish(p)
    /\ UNCHANGED <<price, wallet, pos, bus, tasks, history>>

LockMargin(p) ==
    LET r == job[p].row IN
    /\ job[p].pc = "lock"
    /\ \/ Available(r.user) >= r.margin /\ Lock(r.user, r.margin) /\ Goto(p, "fee")
       \/ Available(r.user) < r.margin /\ UNCHANGED wallet /\ Finish(p)
       \/ Fails(Available(r.user) >= r.margin /\ Lock(r.user, r.margin)) /\ Finish(p)
    /\ UNCHANGED <<price, pos, bus, tasks, history>>

DeductFee(p) ==
    LET r == job[p].row IN
    /\ job[p].pc = "fee"
    /\ \/ Deduct(r.user, OpenFee(r)) /\ Goto(p, "create")
       \/ ~CanDeduct(r.user, OpenFee(r)) /\ UNCHANGED wallet /\ Goto(p, "undo")
       \/ Fails(Deduct(r.user, OpenFee(r))) /\ Goto(p, "undo")
    /\ UNCHANGED <<price, pos, bus, tasks, history>>

CreateRow(p) ==
    /\ job[p].pc = "create"
    /\ \/ \E x \in Position :
             /\ pos[x].status = "NONE"
             /\ pos' = [pos EXCEPT ![x] = job[p].row]
             /\ job' = [job EXCEPT ![p].pc = "announce", ![p].pos = x]
       \/ "db" \in Faults /\ Goto(p, "refund") /\ UNCHANGED pos
    /\ UNCHANGED <<price, wallet, bus, tasks, history>>

RefundFee(p) ==
    LET r == job[p].row IN
    /\ job[p].pc = "refund"
    /\ Add(r.user, OpenFee(r)) \/ Fails(Add(r.user, OpenFee(r)))
    /\ Goto(p, "undo")
    /\ UNCHANGED <<price, pos, bus, tasks, history>>

UndoLock(p) ==
    LET r == job[p].row IN
    /\ job[p].pc = "undo"
    /\ Unlock(r.user, r.margin) \/ Fails(Unlock(r.user, r.margin))
    /\ Finish(p)
    /\ UNCHANGED <<price, pos, bus, tasks, history>>

Publish(e) ==
    /\ events' = Append(events, e) \/ ("publish" \in Faults /\ UNCHANGED events)
    /\ UNCHANGED uncommitted

AnnounceOpen(p) ==
    /\ job[p].pc = "announce"
    /\ Publish([pos |-> job[p].pos, status |-> "OPEN", pnl |-> 0])
    /\ Finish(p)
    /\ UNCHANGED <<price, wallet, pos, tasks, history>>

UpdateTPSL(x, tp, sl) ==
    /\ IsOpen(x)
    /\ pos' = [pos EXCEPT ![x].tp = tp, ![x].sl = sl]
    /\ UNCHANGED <<price, wallet, bus, job, tasks, history>>

-----------------------------------------------------------------------------
(* Closing: one transaction on the row, then the wallet calls *)

(* The transaction of a closing that found the row open: w goes on to      *)
(* settle delta, whatever becomes of the row.                              *)
CloseRow(w, x, kind, status, pnl, delta) ==
    /\ pos' = [pos EXCEPT ![x].status = status, ![x].pnl = pnl]
    /\ closings' = [closings EXCEPT ![x] = @ + 1]
    /\ job' = [job EXCEPT ![w] = [Idle EXCEPT !.pc = "unlock", !.kind = kind, !.pos = x,
                                             !.row = pos'[x], !.delta = delta]]
    /\ UNCHANGED <<price, wallet, bus, tasks, requested, moved>>

(* ClosePosition, by the user or by an administrator on the user's behalf: *)
(* the row stores the loss in full, the wallet bears at most the margin.   *)
CloseUncapped(p, x) ==    \* mutant: the loss is not capped
    LET r == pos[x]
        net == CalcUnrealizedPnL(r, price) - Fee(r.size * price) IN
    /\ job[p].pc = "idle"
    /\ IsOpen(x)
    /\ price > 0
    /\ CloseRow(p, x, "user", "CLOSED", net - OpenFee(r), net)
CloseNetOfOneFee(p, x) == \* mutant: the stored profit forgets the opening fee
    LET r == pos[x]
        net == CalcUnrealizedPnL(r, price) - Fee(r.size * price) IN
    /\ job[p].pc = "idle"
    /\ IsOpen(x)
    /\ price > 0
    /\ CloseRow(p, x, "user", "CLOSED", net, Larger(net, -r.margin))
CloseAnyStatus(p, x) ==   \* mutant: the row is not looked up by its status
    LET r == pos[x]
        net == CalcUnrealizedPnL(r, price) - Fee(r.size * price) IN
    /\ job[p].pc = "idle"
    /\ r.status # "NONE"
    /\ price > 0
    /\ CloseRow(p, x, "user", "CLOSED", net - OpenFee(r), Larger(net, -r.margin))
ClosePosition(p, x) ==
    LET r == pos[x]
        net == CalcUnrealizedPnL(r, price) - Fee(r.size * price) IN
    /\ job[p].pc = "idle"
    /\ IsOpen(x)
    /\ price > 0
    /\ CloseRow(p, x, "user", "CLOSED", net - OpenFee(r), Larger(net, -r.margin))

(* Wallet errors are ignored or logged; the settlement goes on. *)
SettleUnlock(w) ==
    LET r == job[w].row IN
    /\ job[w].pc = "unlock"
    /\ Unlock(r.user, r.margin) \/ Fails(Unlock(r.user, r.margin))
    /\ Goto(w, "apply")
    /\ UNCHANGED <<price, pos, bus, tasks, history>>

SettleApply(w) ==
    LET u == job[w].row.user  d == job[w].delta IN
    /\ job[w].pc = "apply"
    /\ \/ d >= 0 /\ Add(u, d)
       \/ d < 0 /\ Deduct(u, -d)
       \/ d < 0 /\ ~CanDeduct(u, -d) /\ UNCHANGED wallet
       \/ Fails((d < 0 => CanDeduct(u, -d)) /\ Add(u, d))
    /\ moved' = IF job[w].kind = "funding" THEN moved
                ELSE [moved EXCEPT ![job[w].pos] = @ + (bal'[u] - bal[u])]
    /\ Goto(w, "report")
    /\ UNCHANGED <<price, pos, bus, tasks, requested, closings>>

(* A user's closing publishes position.changed; the engine and the funding *)
(* scheduler publish the balance change once more instead, applied or not. *)
ReportClose(w) ==
    LET j == job[w] IN
    /\ j.pc = "report" /\ j.kind = "user"
    /\ Publish([pos |-> j.pos, status |-> "CLOSED", pnl |-> j.row.pnl])
    /\ Finish(w)
    /\ UNCHANGED <<price, wallet, pos, tasks, history>>

ReportBalance(w) ==
    LET j == job[w] IN
    /\ j.pc = "report" /\ j.kind # "user"
    /\ \/ posted' = [posted EXCEPT ![j.row.user] = @ + j.delta]
       \/ "publish" \in Faults /\ UNCHANGED posted
    /\ Finish(w)
    /\ UNCHANGED <<price, bal, lck, pos, bus, tasks, history>>

-----------------------------------------------------------------------------
(* The liquidation engine *)

(* check() reads the open rows once; each is then visited at the price of  *)
(* the moment, with the triggers it had when it was read.                  *)
OpenRows == {x \in Position : IsOpen(x)}
Scan == [todo : SUBSET Position, tp : [Position -> Nat], sl : [Position -> Nat]]
ScanDone == [todo |-> {}, tp |-> [x \in Position |-> 0], sl |-> [x \in Position |-> 0]]

EngineCheck ==
    /\ job[Engine].pc = "idle"
    /\ scan.todo = {}
    /\ OpenRows # {}
    /\ scan' = [todo |-> OpenRows,
                tp |-> [x \in Position |-> IF IsOpen(x) THEN pos[x].tp ELSE 0],
                sl |-> [x \in Position |-> IF IsOpen(x) THEN pos[x].sl ELSE 0]]
    /\ UNCHANGED <<price, wallet, pos, bus, job, fund, payments, history>>

ShouldTriggerTPSL(side, tp, sl, mark) ==
    LET Reached(up, t) == t > 0 /\ (IF up THEN mark >= t ELSE mark <= t) IN
    Reached(side = "LONG", tp) \/ Reached(side = "SHORT", sl)

UnderwaterStrictly(r, mark) ==   \* mutant: the liquidation price itself is spared
    IF r.side = "LONG" THEN mark < r.liq ELSE mark > r.liq
Underwater(r, mark) == IF r.side = "LONG" THEN mark <= r.liq ELSE mark >= r.liq

EngineVisit(x) ==
    LET triggered == ShouldTriggerTPSL(pos[x].side, scan.tp[x], scan.sl[x], price)
        Force(kind) == job' = [job EXCEPT ![Engine] =
                           [Idle EXCEPT !.pc = "tx", !.kind = kind, !.pos = x, !.price = price]] IN
    /\ job[Engine].pc = "idle"
    /\ x \in scan.todo
    /\ scan' = [scan EXCEPT !.todo = @ \ {x}, !.tp[x] = 0, !.sl[x] = 0]
    /\ \/ price > 0 /\ triggered /\ Force("auto")
       \/ price > 0 /\ ~triggered /\ Underwater(pos[x], price) /\ Force("liq")
       \/ price = 0 /\ UNCHANGED job
       \/ ~triggered /\ ~Underwater(pos[x], price) /\ UNCHANGED job
    /\ UNCHANGED <<price, wallet, pos, bus, fund, payments, history>>

(* autoClose: at the price of the visit, no closing fee. *)
AutoClose ==
    LET x == job[Engine].pos
        r == pos[x]
        pnl == Larger(CalcUnrealizedPnL(r, job[Engine].price), -r.margin) IN
    /\ job[Engine].pc = "tx" /\ job[Engine].kind = "auto"
    /\ IsOpen(x)
    /\ CloseRow(Engine, x, "auto", "CLOSED", pnl - OpenFee(r), pnl)

(* liquidate: looks at the price once more, inside the transaction. *)
CurrentPrice == IF price > 0 THEN price ELSE job[Engine].price
LiquidateAnyStatus ==     \* mutant: the row is not looked up by its status
    LET x == job[Engine].pos IN
    /\ job[Engine].pc = "tx" /\ job[Engine].kind = "liq"
    /\ Underwater(pos[x], CurrentPrice)
    /\ CloseRow(Engine, x, "liq", "LIQUIDATED", -pos[x].margin, -pos[x].margin)
Liquidate ==
    LET x == job[Engine].pos IN
    /\ job[Engine].pc = "tx" /\ job[Engine].kind = "liq"
    /\ IsOpen(x)
    /\ Underwater(pos[x], CurrentPrice)
    /\ CloseRow(Engine, x, "liq", "LIQUIDATED", -pos[x].margin, -pos[x].margin)

(* The row is not open any more, the price recovered, or the transaction   *)
(* failed.                                                                 *)
Spared(x) ==
    \/ ~IsOpen(x)
    \/ job[Engine].kind = "liq" /\ ~Underwater(pos[x], CurrentPrice)
    \/ "db" \in Faults
SparePosition ==
    /\ job[Engine].pc = "tx"
    /\ Spared(job[Engine].pos)
    /\ Finish(Engine)
    /\ UNCHANGED <<price, wallet, pos, bus, tasks, history>>

-----------------------------------------------------------------------------
(* Funding *)

FundTask == [n : Nat, mark : Nat, rate : Int, todo : SUBSET Position]
FundingRate(mark, index) ==
    LET premium == ((mark - index) * Basis) \div index IN
    IF premium > MaxFundingRate THEN MaxFundingRate ELSE Larger(premium, -MaxFundingRate)

ASSUME ExactAssumption ==    \* payments are whole numbers, like margins and fees
    \A mark \in Price \ {0}, size \in Size : \A index \in Index \cup {mark} :
        (size * (FundingRate(mark, index) * mark)) % Basis = 0

(* Settle: one rate and one price for all rows open at this moment.  A     *)
(* missing index counts as the mark price, that is a rate of zero.         *)
Settle(index) ==
    /\ job[Funder].pc = "idle"
    /\ fund.todo = {}
    /\ fund.n < MaxSettlements
    /\ price > 0
    /\ fund' = [n |-> fund.n + 1, mark |-> price, rate |-> FundingRate(price, index),
                todo |-> OpenRows]
    /\ UNCHANGED <<price, wallet, pos, bus, job, scan, payments, history>>

SignedRate(x) == IF pos[x].side = "LONG" THEN -fund.rate ELSE fund.rate
FundingAmountNow(x) ==      \* mutant: each payment at the price of its moment
    (SignedRate(x) * pos[x].size * price) \div Basis
FundingAmount(x) == (SignedRate(x) * pos[x].size * fund.mark) \div Basis

ApplyPayment(x) ==
    /\ job[Funder].pc = "idle"
    /\ x \in fund.todo
    /\ fund' = [fund EXCEPT !.todo = @ \ {x}]
    /\ \/ /\ FundingAmount(x) # 0
          /\ payments' = [payments EXCEPT ![x][fund.n] = FundingAmount(x)]
          /\ job' = [job EXCEPT ![Funder] =
                [Idle EXCEPT !.pc = "apply", !.kind = "funding", !.pos = x, !.row = pos[x],
                             !.delta = FundingAmount(x)]]
       \/ /\ FundingAmount(x) = 0 \/ "db" \in Faults
          /\ UNCHANGED <<payments, job>>
    /\ UNCHANGED <<price, wallet, pos, bus, scan, history>>

-----------------------------------------------------------------------------
(* The projector, the market, and the rest of the exchange *)

Recent(read) == IF Len(read) > MaxUncommitted THEN Tail(read) ELSE read
ReadEvent ==
    /\ events # <<>>
    /\ events' = Tail(events)
    /\ uncommitted' = Recent(Append(uncommitted, Head(events)))

(* UPDATE futures_positions SET status, unrealized_pn_l WHERE id: with no  *)
(* condition on what the row has become since.                             *)
ProjectPosition ==
    LET e == Head(events) IN
    /\ ReadEvent
    /\ pos' = [pos EXCEPT ![e.pos].status = e.status, ![e.pos].pnl = e.pnl]
    /\ UNCHANGED <<price, wallet, job, tasks, history>>

LoseEvent ==
    /\ "publish" \in Faults
    /\ ReadEvent
    /\ UNCHANGED <<price, wallet, pos, job, tasks, history>>

PriceMoves ==
    /\ price' \in Price \ {price}
    /\ UNCHANGED <<wallet, pos, bus, job, tasks, history>>

OtherDebit(u) ==
    /\ "spend" \in Faults
    /\ \E left \in {InitBal \div 2, 0} : bal[u] > left /\ Add(u, left - bal[u])
    /\ UNCHANGED <<price, pos, bus, job, tasks, history>>

(* Redis Streams go on with what was not read (k is the length); Kafka     *)
(* after the last commit, one a second (CommitInterval).                   *)
ReadOnAfter(k) ==
    /\ events' = SubSeq(uncommitted, k + 1, Len(uncommitted)) \o events
    /\ uncommitted' = <<>>

Restart ==
    /\ "crash" \in Faults
    /\ \E k \in 0 .. Len(uncommitted) : ReadOnAfter(k)
    /\ job' = [w \in Worker |-> Idle]
    /\ scan' = ScanDone
    /\ fund' = [fund EXCEPT !.todo = {}]
    /\ UNCHANGED <<price, wallet, pos, payments, history>>

-----------------------------------------------------------------------------
(* Specifications *)

Init ==
    /\ price \in Price
    /\ bal = [u \in User |-> InitBal]
    /\ lck = [u \in User |-> 0]
    /\ posted = [u \in User |-> 0]
    /\ pos = [x \in Position |-> NoRow]
    /\ events = <<>> /\ uncommitted = <<>>
    /\ job = [w \in Worker |-> Idle]
    /\ scan = ScanDone
    /\ fund = [n |-> 0, mark |-> 0, rate |-> 0, todo |-> {}]
    /\ payments = [x \in Position |-> [n \in 1 .. MaxSettlements |-> 0]]
    /\ requested = 0
    /\ closings = [x \in Position |-> 0]
    /\ moved = [x \in Position |-> 0]

Arrive(p) ==
    \/ \E u \in User, side \in Side, size \in Size, lev \in Leverage, tp, sl \in Trigger :
          OpenPosition(p, u, side, size, lev, tp, sl)
    \/ \E x \in Position : ClosePosition(p, x)

Settling(w) == SettleUnlock(w) \/ SettleApply(w) \/ ReportClose(w) \/ ReportBalance(w)

Serve(p) ==
    \/ CheckBalance(p) \/ LockMargin(p) \/ DeductFee(p) \/ CreateRow(p)
    \/ RefundFee(p) \/ UndoLock(p) \/ AnnounceOpen(p)
    \/ Settling(p)

EngineStep ==
    \/ EngineCheck \/ (\E x \in Position : EngineVisit(x))
    \/ AutoClose \/ Liquidate \/ SparePosition
    \/ Settling(Engine)

FunderStep ==
    \/ (\E index \in Index \cup {price} : Settle(index)) \/ (\E x \in Position : ApplyPayment(x))
    \/ Settling(Funder)

Next ==
    \/ \E p \in Proc : Arrive(p) \/ Serve(p)
    \/ \E x \in Position, tp, sl \in Trigger : UpdateTPSL(x, tp, sl)
    \/ EngineStep \/ FunderStep
    \/ ProjectPosition \/ LoseEvent \/ PriceMoves \/ Restart
    \/ \E u \in User : OtherDebit(u)

Spec == Init /\ [][Next]_vars

(* The projector keeps up with openings: nobody closes a position while    *)
(* the event that says it is open has still to be published or projected,  *)
(* and no restart gives that event again once the position is closed: over *)
(* Redis Streams none does, over Kafka one within a second of reading it.  *)
Announcing ==
    {job[p].pos : p \in {q \in Proc : job[q].pc = "announce"}}
      \cup {events[i].pos : i \in {k \in DOMAIN events : events[k].status = "OPEN"}}
KeepsUp == Announcing \subseteq OpenRows
PromptSpec == Init /\ [][Next /\ KeepsUp']_vars

(* The same, but a restart may give it again. *)
RedeliverySpec == Init /\ [][Next /\ (KeepsUp' \/ Restart)]_vars

(* Requests that were accepted, the ticker of the engine and the consumer  *)
(* of position.changed keep running.                                       *)
Fairness == /\ \A p \in Proc : WF_vars(Serve(p))
            /\ WF_vars(EngineStep) /\ WF_vars(ProjectPosition)
FairSpec == Spec /\ Fairness
FairPrompt == PromptSpec /\ Fairness
=============================================================================
