------------------------------- MODULE Market -------------------------------
(***************************************************************************)
(* market-service for one pair and one interval: the goroutines that feed  *)
(* prices, the candle they build in memory, the table of candles, the      *)
(* backfill at start, and the Redis copies that others read.               *)
(***************************************************************************)
EXTENDS Integers, Sequences, FiniteSets, SequencesExt, FiniteSetsExt

CONSTANTS
    Scenario,    \* [feeders, faults, trades]: who feeds the pair, what may happen,
                 \* whether the exchange's turnover changes
    MaxTicks,    \* bound: prices
    MaxTime,     \* bound: intervals
    MaxTrades,   \* bound: trades on the exchange
    MaxFaults    \* bound: restarts, failed writes

Feeder == {"bybit", "forex", "initial"}
ASSUME MarketAssumption ==
    /\ MaxTicks \in Nat /\ MaxTime \in Nat /\ MaxTrades \in Nat
    /\ \A s \in Scenario : s.feeders \subseteq Feeder

None == -1
Exchange == 0           \* stands for the prices of a candle the exchange supplied
NoCandle == [time |-> None]

VARIABLES
    scenario, faults,
    clock,     \* the current interval
    turnover,  \* of the exchange over the last day
    traded,    \* history: trades on the exchange
    prices,    \* history: [interval -> the ticks stamped with it, in order]
    prevVol,   \* turnover of the feed's last message, None: no message yet
    price,     \* Redis price:{pair}: [tick, expires]
    feed,      \* [Feeder -> place in ProcessTick, its tick, its interval, candle to flush]
    live,      \* the candle in memory
    table,     \* [interval -> candle in the table]
    cached,    \* Redis candles:{pair}:{interval}:{limit}, NoRows: no key
    reader,    \* rows a GetCandles has read and not yet cached, NoRows: none
    backfill   \* "due", "fetched", "done", with the interval of the fetch

NoRows == <<>>
world == <<clock, turnover, traded>>
candles == <<live, table>>
copies == <<cached, reader>>
marketVars == <<scenario, faults, world, prices, prevVol, price, feed, candles, copies, backfill>>

MayFault(f) == f \in scenario.faults /\ faults < MaxFaults
FaultHappened == faults' = faults + 1
FeedAt(f, label) == f \in scenario.feeders /\ feed[f].pc = label
Goto(f, label) == feed' = [feed EXCEPT ![f].pc = label]
Ticks == UNION {Range(prices[b]) : b \in DOMAIN prices}

-----------------------------------------------------------------------------
(* Outside *)
PassTime ==
    /\ clock < MaxTime /\ clock' = clock + 1
    /\ UNCHANGED <<scenario, faults, turnover, traded, prices, prevVol, price, feed, candles, copies, backfill>>
Trade ==
    /\ scenario.trades /\ traded < MaxTrades /\ traded' = traded + 1 /\ turnover' = turnover + 1
    /\ UNCHANGED <<scenario, faults, clock, prices, prevVol, price, feed, candles, copies, backfill>>
(* A trade is a day old. *)
RollOff ==
    /\ scenario.trades /\ turnover > 0 /\ turnover' = turnover - 1
    /\ UNCHANGED <<scenario, faults, clock, traded, prices, prevVol, price, feed, candles, copies, backfill>>

-----------------------------------------------------------------------------
(* The feeds *)

(* The volume of a message is what the turnover grew since the last one. *)
VolumeDelta == IF prevVol = None \/ turnover < prevVol THEN 0 ELSE turnover - prevVol

(* A message: the price goes to Redis, for five minutes unless it is a     *)
(* simulated one, then ProcessTick begins, and reads the clock.            *)
Tick(f, vol) ==
    /\ FeedAt(f, "idle") /\ Cardinality(Ticks) < MaxTicks
    /\ LET t == [n |-> Cardinality(Ticks) + 1, vol |-> vol] IN
       /\ price' = [tick |-> t.n, expires |-> f # "forex"]
       /\ prices' = [prices EXCEPT ![clock] = Append(@, t)]
       /\ feed' = [feed EXCEPT ![f] = [pc |-> "load", tick |-> t, at |-> clock, old |-> NoCandle]]
    /\ UNCHANGED <<scenario, faults, world, candles, copies, backfill>>

(* handleBybitMessage *)
HandleBybitMessage == Tick("bybit", VolumeDelta) /\ prevVol' = turnover
(* The simulated prices of gold and currencies, which the stream has too. *)
PollForexRates == Tick("forex", 0) /\ UNCHANGED prevVol
(* fetchInitialPrices, once, beside the stream. *)
FetchInitialPrices ==
    /\ feed["initial"].at = None /\ Tick("initial", 0) /\ UNCHANGED prevVol

(* Redis drops a price that was given five minutes. *)
ExpirePrice ==
    /\ "expiry" \in scenario.faults /\ price.expires
    /\ price' = [tick |-> None, expires |-> FALSE]
    /\ UNCHANGED <<scenario, faults, world, prices, prevVol, feed, candles, copies, backfill>>

-----------------------------------------------------------------------------
(* ProcessTick *)
Opened(t, b) == [time |-> b, open |-> t.n, close |-> t.n, seen |-> {t.n}, volume |-> t.vol]
AddedTo(c, t) == [c EXCEPT !.close = t.n, !.seen = @ \cup {t.n}, !.volume = @ + t.vol]

(* LoadOrStore: the first tick opens the candle, and is added below too. *)
LoadOrStore(f) ==
    /\ FeedAt(f, "load") /\ Goto(f, "lock")
    /\ live' = IF live = NoCandle THEN Opened(feed[f].tick, feed[f].at) ELSE live
    /\ UNCHANGED <<scenario, faults, world, prices, prevVol, price, table, copies, backfill>>

AddAnyway(f) ==   \* mutant: a tick of the next interval is added, too
    /\ FeedAt(f, "lock") /\ live' = AddedTo(live, feed[f].tick)
    /\ IF live.time = feed[f].at THEN Goto(f, "idle")
       ELSE feed' = [feed EXCEPT ![f].pc = "flush", ![f].old = live']
    /\ UNCHANGED <<scenario, faults, world, prices, prevVol, price, table, copies, backfill>>
(* Under the lock: the tick is added, or the candle of another interval is *)
(* copied, and the lock released to write it.                              *)
AddTick(f) ==
    /\ FeedAt(f, "lock")
    /\ IF live.time = feed[f].at
       THEN live' = AddedTo(live, feed[f].tick) /\ Goto(f, "idle")
       ELSE feed' = [feed EXCEPT ![f].pc = "flush", ![f].old = live] /\ UNCHANGED live
    /\ UNCHANGED <<scenario, faults, world, prices, prevVol, price, table, copies, backfill>>

(* flushCandle: the row is written over, an error logged; then the copies  *)
(* in Redis are deleted.                                                   *)
FlushCandle(f) ==
    /\ FeedAt(f, "flush") /\ Goto(f, "purge")
    /\ \/ table' = [table EXCEPT ![feed[f].old.time] = feed[f].old] /\ UNCHANGED faults
       \/ MayFault("write") /\ FaultHappened /\ UNCHANGED table
    /\ UNCHANGED <<scenario, world, prices, prevVol, price, live, copies, backfill>>
Purge(f) ==
    /\ FeedAt(f, "purge") /\ Goto(f, "reset") /\ cached' = NoRows
    /\ UNCHANGED <<scenario, faults, world, prices, prevVol, price, candles, reader, backfill>>

(* The lock again: the candle begins with this tick. *)
ResetCandle(f) ==
    /\ FeedAt(f, "reset") /\ Goto(f, "idle") /\ live' = Opened(feed[f].tick, feed[f].at)
    /\ UNCHANGED <<scenario, faults, world, prices, prevVol, price, table, copies, backfill>>

-----------------------------------------------------------------------------
(* GetCandles: without a copy the rows are read, and then cached for 30 s. *)
ReadRows ==
    /\ "reads" \in scenario.faults /\ cached = NoRows /\ reader = NoRows /\ reader' = table
    /\ UNCHANGED <<scenario, faults, world, prices, prevVol, price, feed, candles, cached, backfill>>
CacheRows ==
    /\ reader # NoRows /\ cached' = reader /\ reader' = NoRows
    /\ UNCHANGED <<scenario, faults, world, prices, prevVol, price, feed, candles, backfill>>
KeepRows == FALSE /\ UNCHANGED marketVars   \* mutant: the copy has no expiry
ExpireRows ==
    /\ cached # NoRows /\ cached' = NoRows
    /\ UNCHANGED <<scenario, faults, world, prices, prevVol, price, feed, candles, reader, backfill>>

-----------------------------------------------------------------------------
(* CandleBackfill.Run: what the exchange has, the current interval as far  *)
(* as it has come, over the rows; nothing in Redis is deleted.             *)
Supplied(b) ==
    [time |-> b, open |-> Exchange, close |-> Exchange, seen |-> {Exchange}, volume |-> 0]
FetchKlines ==
    /\ backfill.pc = "due" /\ "backfill" \in scenario.faults
    /\ backfill' = [pc |-> "fetched", at |-> clock]
    /\ UNCHANGED <<scenario, faults, world, prices, prevVol, price, feed, candles, copies>>
UpsertKlines ==
    /\ backfill.pc = "fetched" /\ backfill' = [backfill EXCEPT !.pc = "done"]
    /\ table' = [b \in DOMAIN table |-> IF b <= backfill.at THEN Supplied(b) ELSE table[b]]
    /\ UNCHANGED <<scenario, faults, world, prices, prevVol, price, feed, live, copies>>

NotYet == [pc |-> "due", at |-> None]
Ready == [pc |-> "idle", tick |-> [n |-> None, vol |-> 0], at |-> None, old |-> NoCandle]
(* What is in memory is lost. *)
Restart ==
    /\ MayFault("restart") /\ FaultHappened
    /\ live' = NoCandle /\ prevVol' = None /\ reader' = NoRows /\ backfill' = NotYet
    /\ feed' = [f \in Feeder |-> Ready]
    /\ UNCHANGED <<scenario, world, prices, price, table, cached>>

MarketInit ==
    /\ scenario \in Scenario /\ faults = 0 /\ clock = 0 /\ turnover = 0 /\ traded = 0
    /\ prices = [b \in 0..MaxTime |-> <<>>] /\ prevVol = None
    /\ price = [tick |-> None, expires |-> FALSE]
    /\ feed = [f \in Feeder |-> Ready]
    /\ live = NoCandle /\ table = [b \in 0..MaxTime |-> NoCandle]
    /\ cached = NoRows /\ reader = NoRows /\ backfill = NotYet

ProcessTick(f) ==
    LoadOrStore(f) \/ AddTick(f) \/ FlushCandle(f) \/ Purge(f) \/ ResetCandle(f)
MarketNext ==
    \/ PassTime \/ Trade \/ RollOff
    \/ HandleBybitMessage \/ PollForexRates \/ FetchInitialPrices \/ ExpirePrice
    \/ \E f \in Feeder : ProcessTick(f)
    \/ ReadRows \/ CacheRows \/ ExpireRows
    \/ FetchKlines \/ UpsertKlines \/ Restart

(* A goroutine that has begun goes on; a copy lives 30 s. *)
MarketSpec ==
    /\ MarketInit /\ [][MarketNext]_marketVars
    /\ \A f \in Feeder : WF_marketVars(ProcessTick(f))
    /\ WF_marketVars(CacheRows) /\ WF_marketVars(ExpireRows) /\ WF_marketVars(UpsertKlines)
=============================================================================
