----------------------------- MODULE OrderBook -----------------------------
(***************************************************************************)
(* engine.OrderBook: the resting LIMIT orders of one trading pair.         *)
(*                                                                         *)
(* Each side of the code's book is a list of price levels, best price      *)
(* first, each with its orders in order of arrival; here a side is the     *)
(* concatenation of its levels: a sequence of order ids.  Orders are       *)
(* shared pointers in the code, so what an order is (terms, which never    *)
(* change once it rests) and what has become of it (filled, status) are    *)
(* functions on ids that the operators take as parameters.                 *)
(***************************************************************************)
EXTENDS Integers, Sequences, FiniteSets, SequencesExt

Side == {"BUY", "SELL"}
Opposite(side) == IF side = "BUY" THEN "SELL" ELSE "BUY"
EmptyBook == [side \in Side |-> <<>>]

Least(x, y) == IF x < y THEN x ELSE y

(* A bid is better when it is higher, an ask when it is lower. *)
AtLeastAsGood(side, price, other) == IF side = "BUY" THEN price >= other ELSE price <= other

(* The orders of a side an order queues behind: those of its own level and *)
(* of the better ones.                                                     *)
AheadStrictly(terms, queue, o) ==      \* mutant: ahead of its own level
    Cardinality({i \in DOMAIN queue :
        ~AtLeastAsGood(terms[o].side, terms[o].price, terms[queue[i]].price)})
Ahead(terms, queue, o) ==
    Cardinality({i \in DOMAIN queue :
        AtLeastAsGood(terms[o].side, terms[queue[i]].price, terms[o].price)})

AddOrder(terms, book, o) ==
    LET side == terms[o].side IN
    [book EXCEPT ![side] = InsertAt(@, Ahead(terms, @, o) + 1, o)]

RemoveOrder(terms, book, o) == [book EXCEPT ![terms[o].side] = RemoveFirst(@, o)]

-----------------------------------------------------------------------------
(* Matching *)

CrossesStrictly(terms, o, r) ==        \* mutant: equal prices do not trade
    terms[o].type # "LIMIT" \/
    (terms[o].price # terms[r].price /\ AtLeastAsGood(terms[o].side, terms[o].price, terms[r].price))
Crosses(terms, o, r) ==
    \/ terms[o].type # "LIMIT"
    \/ AtLeastAsGood(terms[o].side, terms[o].price, terms[r].price)

Remaining(terms, mem, o) == terms[o].amount - mem[o].filled
IsFilled(terms, mem, o)  == mem[o].filled >= terms[o].amount

Fill(terms, mem, o, qty) ==
    LET filled == mem[o].filled + qty IN
    [mem EXCEPT ![o] = [filled |-> filled,
                        status |-> IF filled >= terms[o].amount THEN "FILLED"
                                   ELSE IF filled > 0 THEN "PARTIAL" ELSE @.status]]

TradeOf(terms, o, r, qty) ==
    [buy   |-> IF terms[o].side = "BUY" THEN o ELSE r,
     sell  |-> IF terms[o].side = "BUY" THEN r ELSE o,
     price |-> terms[r].price,
     amt   |-> qty]

(* One resting order r met by the incoming order o: it trades while o has  *)
(* something left and the prices cross, and leaves the queue when filled.  *)
Meet(terms, o, acc, r) ==
    LET qty == Least(Remaining(terms, acc.mem, o), Remaining(terms, acc.mem, r))
        met == Fill(terms, acc.mem, r, qty) IN
    IF Remaining(terms, acc.mem, o) > 0 /\ Crosses(terms, o, r)
    THEN [mem    |-> Fill(terms, met, o, qty),
          trades |-> Append(acc.trades, TradeOf(terms, o, r, qty)),
          rest   |-> IF IsFilled(terms, met, r) THEN acc.rest ELSE Append(acc.rest, r)]
    ELSE [acc EXCEPT !.rest = Append(@, r)]

(* Match: the trades, what the orders have become, what rests after it. *)
Match(terms, mem, book, o) ==
    FoldLeft(LAMBDA acc, r : Meet(terms, o, acc, r),
             [mem |-> mem, trades |-> <<>>, rest |-> <<>>],
             book[Opposite(terms[o].side)])
=============================================================================
