---------------------------- MODULE TradingProps ----------------------------
(***************************************************************************)
(* What trading-service promises about orders, the book and the funds of   *)
(* an order: properties of Trading.                                        *)
(***************************************************************************)
EXTENDS Trading

(* The situations a claim is made for. *)
Faultless == here.faults = {}
Surviving == "crash" \notin Faults
Orderly == here.calm /\ Faultless
OnlyLimits == Orderly /\ here.types = {"LIMIT"}

(* Types of all variables; no balance and no lock is ever below zero. *)
TypeOK ==
    /\ bal \in [Account -> [Currency -> Nat]] /\ lck \in [Account -> [Currency -> Nat]]
    /\ terms \in [Order -> Terms] /\ mem \in [Order -> Progress] /\ row \in [Order -> Progress]
    /\ lastId \in 0 .. MaxOrders
    /\ book \in [Side -> Seq(Order)] /\ mutex \in Proc \cup {None}
    /\ updates \in Seq(Update) /\ job \in [Proc -> Job]
    /\ settled \in [Order -> Nat] /\ outside \in [Currency -> Int]
    /\ posted \in [Account -> [Currency -> Int]]
    /\ here \in Situation

-----------------------------------------------------------------------------
(* The book *)

Bids == {book["BUY"][i] : i \in DOMAIN book["BUY"]}
Asks == {book["SELL"][i] : i \in DOMAIN book["SELL"]}
Resting == Bids \cup Asks

(* No bid reaches an ask: whatever was rested, rolled back, cancelled or   *)
(* failed, also beside another goroutine, two orders that could trade      *)
(* never both rest, until a restart loads the book from rows that lag.     *)
BookUncrossed == Surviving => \A b \in Bids, a \in Asks : terms[b].price < terms[a].price

(* An order rests once ("adding again would duplicate"). *)
RestsOnce == \A side \in Side : \A i, j \in DOMAIN book[side] :
                book[side][i] = book[side][j] => i = j

(* An order with a limit price never trades beyond it.                     *)
WithinLimit ==
    \A p \in Proc : \A i \in DOMAIN job[p].trades :
        LET t == job[p].trades[i] IN
        \A o \in Parties(t) : terms[o].type # "MARKET" =>
            AtLeastAsGood(terms[o].side, terms[o].price, t.price)

(* Among LIMIT orders, what trades is what price-time priority selects: an *)
(* order that rests on untouched is no better than one that traded, and    *)
(* not older at the same price (ids grow with arrival when requests come   *)
(* one after another).                                                     *)
TakesBest ==
    \A p \in Proc : (job[p].pc = "match" /\ job'[p].pc # "match") =>
         LET side == Opposite(terms[job[p].order].side)
             was(s) == {s[i] : i \in DOMAIN s}
             hit == {r \in was(book[side]) : mem'[r].filled > mem[r].filled}
             left == {r \in was(book[side]) : Remaining(terms, mem', r) > 0} IN
         \A r \in hit, s \in left \ hit :
            /\ AtLeastAsGood(side, terms[r].price, terms[s].price)
            /\ terms[r].price = terms[s].price => r < s
TradesBest == [][OnlyLimits => TakesBest]_vars

(* Refuted: an order that rollbackTrades puts back keeps its place; it is  *)
(* added like a new one, behind younger orders of its price.               *)
PlaceKept == [][Orderly => TakesBest]_vars

(* Once the mutex is free, an order is filled by exactly what was paid,    *)
(* and, whatever fails short of a restart, no order is paid for beyond its *)
(* amount.  (A restart takes the orders' progress from rows that lag: what *)
(* was paid for is matched and paid for again.)                            *)
NeverOverfilled == \A o \in Order : settled[o] <= terms[o].amount
FilledIsSettled ==
    Surviving => /\ mutex = None => \A o \in Order : mem[o].filled = settled[o]
                 /\ NeverOverfilled

(* What rests has something left to trade: a book loaded after a restart   *)
(* holds no order that was already paid for in full.                       *)
RestingIsOpen == \A o \in Resting : settled[o] < terms[o].amount

(* A failed order of which nothing was settled takes no resting order out  *)
(* of the book ("reverts orderbook state").                                *)
RollbackReverts ==
    [][\A p \in Proc :
         (job[p].pc = "rollback" /\ job[p].at = 1 /\ job'[p].pc = "failed")
            => \A t \in {job[p].trades[i] : i \in DOMAIN job[p].trades} :
                 \A r \in Parties(t) \ {job[p].order} :
                    r \in {book'[terms[r].side][i] : i \in DOMAIN book'[terms[r].side]}]_vars

-----------------------------------------------------------------------------
(* Funds *)

(* With no settlement under way, trading neither creates nor destroys      *)
(* money: what customers, the platform and the outside hold is constant.   *)
(* Whatever fails, no balance and no lock is below zero (TypeOK).          *)
MoneyStays ==
    mutex = None =>
        \A c \in Currency : Sum([a \in Account |-> bal[a][c]], Account) + outside[c]
                            = Cardinality(User) * here.funds[c]
FundsConserved == TypeOK /\ (Faultless => MoneyStays)

(* What is published about balances is what happened to them. *)
PublishedIsDone == Quiescent => posted = bal

RestingOf(u, c) == {o \in Resting : terms[o].user = u /\ LockCurrency(terms[o]) = c}
Needs(u, c) == Sum([o \in Order |-> LockFor(terms[o], Remaining(terms, mem, o))], RestingOf(u, c))

(* Among LIMIT orders, between requests, the lock of every customer covers *)
(* what still rests, and the balance covers the lock.                      *)
RestingIsBacked ==
    OnlyLimits /\ Quiescent => \A u \in User, c \in Currency :
        Needs(u, c) <= lck[u][c] /\ lck[u][c] <= bal[u][c]

(* A customer with no order resting has nothing locked: cancelling         *)
(* releases everything an order locked.                                    *)
CancelReleasesLock ==
    Quiescent => \A u \in User, c \in Currency : RestingOf(u, c) = {} => lck[u][c] = 0

-----------------------------------------------------------------------------
(* The orders table *)

(* Among LIMIT orders, with nothing under way, the rows of resting orders  *)
(* are what the engine holds, and a row that can be cancelled is an order  *)
(* that rests.                                                             *)
RowsFollowBook ==
    OnlyLimits /\ Quiescent => /\ \A o \in Resting : row[o] = mem[o]
                 /\ \A o \in OpenRows : o \in Resting

(* A cancelled order has left the book. *)
CancelledLeavesBook == Quiescent => \A o \in Order : row[o].status = "CANCELLED" => o \notin Resting

(* Every request is answered, even when all of them want the mutex. *)
EveryRequestAnswered == \A p \in Proc : job[p].pc # "idle" ~> job[p].pc = "idle"
=============================================================================
