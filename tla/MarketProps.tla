---------------------------- MODULE MarketProps -----------------------------
(* What market-service owes those who read its candles, and its instance   *)
(* for TLC.                                                                *)
EXTENDS Market, Totals

Fed(feeders, fs, trades) == [feeders |-> feeders, faults |-> fs, trades |-> trades]
Scenarios ==
    {Fed({"bybit"}, {}, TRUE),
     Fed({"bybit"}, {"restart", "write", "backfill"}, TRUE),
     Fed({"bybit", "initial"}, {"expiry"}, FALSE),
     Fed({"bybit", "forex"}, {}, FALSE),
     Fed({"bybit"}, {"reads", "backfill"}, FALSE)}

VolumeOf(S) == Sum([t \in S |-> t.vol], S)
Numbers(S) == {t.n : t \in S}
CandleOf(b) == [time |-> b, open |-> Head(prices[b]).n, close |-> Last(prices[b]).n,
                seen |-> Numbers(Range(prices[b])), volume |-> VolumeOf(Range(prices[b]))]
Busy == \E f \in scenario.feeders : ~FeedAt(f, "idle")

(* With one goroutine feeding the pair, each candle is made of all the     *)
(* prices of its interval and of nothing else, in memory and, when a later *)
(* one has begun, in the table, although the lock is released in between.  *)
CandlesWhole ==
    Cardinality(scenario.feeders) = 1 /\ scenario.faults \subseteq {"reads"} /\ ~Busy =>
        \A b \in DOMAIN prices : prices[b] # <<>> =>
            IF \E c \in DOMAIN prices : c > b /\ prices[c] # <<>>
            THEN table[b] = CandleOf(b) ELSE live = CandleOf(b)

(* However goroutines overtake one another or the service restarts, no     *)
(* candle holds a price or a volume of another interval, and all of them   *)
(* together no more than was traded.                                       *)
NothingInvented ==
    /\ \A c \in {table[b] : b \in DOMAIN table} \cup {live} : c # NoCandle =>
          /\ c.seen \subseteq Numbers(Range(prices[c.time])) \cup {Exchange}
          /\ c.volume <= VolumeOf(Range(prices[c.time]))
    /\ VolumeOf(Ticks) <= traded

(* The candles are made of the prices of their interval. *)
CandlesTrue == CandlesWhole /\ NothingInvented

(* What GetCandles returns does not stay behind the table, although a copy *)
(* may be stored after the row it lacks was written and copies deleted.    *)
CopySettles == <>[](cached \in {NoRows, table})

-----------------------------------------------------------------------------
(* Refuted: see the README *)

(* CandlesWhole for the pairs of gold and currencies, which have two feeds.*)
TwoFeedsWhole ==
    scenario.faults = {} /\ ~scenario.trades /\ ~Busy =>
        \A b, c \in DOMAIN prices : prices[b] # <<>> /\ b < c /\ prices[c] # <<>> =>
            table[b] # NoCandle /\ table[b].seen = Numbers(Range(prices[b]))

(* "Invalidates Redis cache": a copy is never behind the table. *)
CopyIsCurrent == cached \in {NoRows, table}

(* A candle the exchange supplied is not replaced by what one process saw  *)
(* of its interval.                                                        *)
BackfillStays == [][\A b \in DOMAIN table :
    table[b] # NoCandle /\ Exchange \in table[b].seen => table'[b] = table[b]]_table

(* The volume of the candles is what was traded. *)
VolumeIsTraded ==
    ~Busy /\ scenario.faults = {} /\ prevVol = turnover /\ Len(prices[0]) > 1 => VolumeOf(Ticks) = traded
=============================================================================
