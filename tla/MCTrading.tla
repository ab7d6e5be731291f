----------------------------- MODULE MCTrading -----------------------------
(***************************************************************************)
(* Instances of Trading for TLC.                                           *)
(***************************************************************************)
EXTENDS TradingProps, TLC

Start(base, quote) == [c \in Currency |-> IF c = "base" THEN base ELSE quote]
Singletons(S) == {{x} : x \in S}

Limits ==
    [users : {User}, procs : Singletons(Proc), types : {{"LIMIT"}}, prices : {{2, 4}},
     amounts : {{1, 2}}, quotes : {{0}}, funds : {Start(2, 12)}, orders : {3},
     faults : {{}}, calm : {TRUE}]
Markets ==
    {[s EXCEPT !.types = {"LIMIT", "MARKET"}, !.quotes = {0, 2}, !.funds = Start(2, 9)] : s \in Limits}
Concurrent ==
    {[s EXCEPT !.users = us, !.procs = Proc, !.prices = {2}, !.funds = Start(2, 6), !.orders = 2,
               !.calm = FALSE] : s \in Limits, us \in Singletons(User)}
Faulty ==
    {[s EXCEPT !.users = us, !.types = OrderType, !.prices = {2}, !.amounts = {1}, !.orders = 2,
               !.funds = Start(1, 3), !.faults = fs] :
        s \in Markets, us \in Singletons(User), fs \in {FaultKind, FaultKind \ {"crash"}}}

(* LIMIT orders, one request after another; MARKET orders among them, with *)
(* settlements that fail and roll back; two goroutines and a projector     *)
(* that lags; and every fault, with all types of orders.                   *)
Orders == Limits \cup Markets \cup Concurrent \cup Faulty

(* Two goroutines that want the mutex. *)
Contending == {[s EXCEPT !.amounts = {1}] : s \in Concurrent}

(* What the properties that are refuted need. *)
Racing == {[s EXCEPT !.users = User, !.amounts = {1}, !.funds = Start(2, 9)] : s \in Concurrent}
Requeued == {[s EXCEPT !.prices = {4}, !.orders = 4] : s \in Markets}
Stops == {[s EXCEPT !.types = {"LIMIT", "STOP_LIMIT"}] : s \in Limits}
Restarting ==
    {[s EXCEPT !.prices = {2}, !.amounts = {1}, !.funds = Start(1, 6), !.orders = 3,
               !.faults = {"crash"}] : s \in Limits}

(* Every set above is closed under permutations of users and goroutines. *)
MCSymmetry == Permutations(User) \cup Permutations(Proc)
=============================================================================
