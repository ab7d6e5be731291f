# Formal verification of go-exchange

go-exchange is a centralised exchange written as a set of Go services: wallets,
spot trading with an in-memory order book, leveraged futures, market data,
accounts, notifications, a search index and a gateway. This directory holds
TLA+ specifications of them, the TLC configurations that check them on small
instances, and proofs checked by TLAPS.

Contents: [the system](#1-the-system) - [plan](#2-plan) -
[modules](#3-modules-and-how-they-correspond-to-the-code) - [runs](#4-runs) -
[fairness](#5-fairness) - [proofs](#6-proofs) - [deviations](#7-where-the-code-deviates) -
[what is left out](#8-not-modelled)

To check something by hand:

    tlc -config Access.cfg AccessProps     # one of the runs of section 4
    tlapm MessageProofs.tla                # one of the proofs of section 6

## 1. The system

All services share one Redis, each has its own PostgreSQL database, and they
talk by gRPC and by events (`shared/eventbus`: Redis Streams, or Kafka).

| Component | State | Operations | Hard behaviour | Correct when | Module |
|---|---|---|---|---|---|
| **wallet-service** | per user and currency a balance and a lock, twice: Redis keys and the `wallets` table; deposits, withdrawals, cached VND rate | gRPC Check, Credit, Deduct, Lock, Unlock; deposits, withdrawals and their decisions; balance projector; cold-start warm-up | a Lua script and its event are two steps, lost and overtaking events, events given again after a restart, warm-up beside requests, partial failure between two stores | no balance or lock below zero; locks cover all claims; a deposit counts once; the stores agree when nothing is in flight | Wallet |
| **Provisioning** (auth-service, wallet-service, trading-service) | user rows, the topic `user.registered`, wallets, the fee wallet's key | sign-up, seeding at start, the provisioning consumer, the search for the fee wallet | several instances seed at once; a deposit may be faster; a stop between row and event | all wallets or none, the gift once, one announcement per user | Onboarding |
| **Redis balance cache** (`shared/redisutil`) | the balance keys | Lua scripts, EnsureBalanceCached, WarmIfMissing, LoadFromDB | GET and SET are separate commands | a key that exists is not overwritten by an older row | Wallet, Trading |
| **Order book** (`trading-service/internal/engine`) | bids and asks by price level | AddOrder, RemoveOrder, Match | partial fills over several levels | price-time priority, never crossed, no order overfilled | OrderBook |
| **Matching and settlement** (trading-service) | orders in memory, `orders` table, one mutex per pair | PlaceOrder, ProcessOrder, rollbackTrades, CancelOrder, SyncOrderStatus, order projector, LoadOpenOrders | four Redis updates per trade, any of which may be refused; rollback; cancellation without the mutex; rows behind memory | filled is what was paid; no money made or lost; what rests is backed by locked funds | Trading |
| **futures-service** | `futures_positions`, `funding_rates`, `funding_payments` | open, close, update triggers; liquidation engine every 5 s; funding every 8 h; position projector | three goroutines closing one position, remote wallet calls that fail half way, events applied late or again | a position is settled once, at most its margin is lost, locks cover margins, an underwater position is closed | Futures |
| **Event bus** (`shared/eventbus`) | streams, consumer groups, pending entries; offsets | Publish, StartConsumer | a failed handler's entry is never read again (Redis); commits past failures, duplicates (Kafka) | Delivery: once (Redis), without gaps (Kafka) | EventBus, Delivery |
| **notification-service, es-indexer** | rows and documents made from events | their handlers | redelivery, several loops in one group | no half of an effect, the last state last | Consumers |
| **auth-service: sessions, throttle, step-up** | `users`, `refresh_tokens`, counters, locks and challenges in Redis | register, login, Google, two-factor, refresh, logout, password, profile | two requests of one account, answers lost after a commit, whole rows saved over one another | one live token per rotation, guesses bounded, a lock ends sessions | Sessions |
| **auth-service: anomaly detection, audit log** | `audit_logs`, its copy in Elasticsearch, a counter in Redis | CheckLogin, in a goroutine beside the one that writes the row | the check reads what its own sign-in may not have written yet | a burst is found, a sign-in from afar is found | Anomaly |
| **auth-service: KYC and its gate** | step, status, documents; `kyc:<id>`, `user_locked:<id>` in Redis | verify, submit, upload, approve, reject, update; the gate of trading-service and futures-service | decisions beside uploads; row and key are two writes | nothing is let through that was never approved | Kyc |
| **Gateway, API keys, settings, rate limiter** | `api_keys`, `platform_settings` and its cached copy, sorted sets | limit, authenticate, check, create, revoke, read and update settings | two clocks, a key checked then used, a cache refilled with an old row | windows bounded, a dead key admits nothing new, a wrong copy is about to be replaced or expires | Access |
| **auth-service: referral, fee tiers, fraud counter** | codes, commissions, volume and tier, cached rates | OnTrade, RefreshTier, OnUserRegistered | the same event twice, a stop half way, two loops | one commission per trade, full volume, rates that settle | Rewards |
| **market-service** | price keys, candles in memory and in a table, cached rows | feeds, candle aggregation, flush, back-fill, GetCandles | concurrent ticks, flush and reset, several feeds | a candle has no half of a tick, nothing that was not traded | Market |
| **WebSocket hub** (`shared/ws`) | clients, channels, send buffers | register, subscribe, broadcast, fan-out through Redis, two pumps a client | slow clients, a channel closed by one goroutine and used by another | no send on a closed channel, order kept, no goroutine left | Hub |
| **auth-service: bonuses, administration; configuration, mail, SMS, generated code** | rows | queries and inserts | none that relates two pieces of state | | - |

Interactions: trading-service and futures-service change wallets, the first by
running the Lua scripts itself and publishing `balance.changed`, the second by
gRPC to wallet-service, which does both. wallet-service projects
`balance.changed` into its table; trading-service projects `order.updated`, and
futures-service `position.changed`, into theirs. auth-service publishes
`user.registered`, from which wallet-service makes wallets and auth-service binds
a referrer, and consumes `trade.executed` for fraud, fee tiers and referrals; it
writes the keys that gates, throttles and fee rates are read from.
market-service writes the prices the others read. es-indexer and
notification-service consume every topic, the gateway's hub fans out to clients.

The hazards of this code, each at its line with the properties aimed at it, are
listed under `hazards` in `PROJECT.json`; those without a property have a note
with the reason, mostly that the code does go wrong there, which section 7 shows.

## 2. Plan

The plan was made most money first. Done: Wallet, OrderBook and Trading, Futures with their
proofs; EventBus with its abstract specification Delivery, and a proof that it
implements it; Sessions with Anomaly; Kyc with Access; Rewards with Onboarding;
Market; Hub.

Proved as well: `TableIsSafe` and `QuiescentAgreement` of Wallet; `MarginLocked` and `FundingIsUniform`
of Futures for any number of positions; `EffectsAreWhole` of Consumers; of Trading
all six properties of the run TradingOrders; the four
properties of Access and Kyc; the three of Sessions and that of Anomaly; the four invariants of Rewards and
Onboarding; `CandlesTrue` of Market. Every invariant a run checks is now stated by a theorem.

Left:

1. **Ledger** - an abstract wallet (balance and holds per user) that Wallet
   implements under a refinement mapping, so that Futures, which uses wallet calls
   as single steps, composes with it.

## 3. Modules and how they correspond to the code

A component has a module with the state and one action per step, a module
`...Props` with its properties and the situations they are checked in, and,
where there are proofs, a module `...Proofs`; those of Trading go on in LimitProofs,
the event bus, the hub and the market's prices share MessageProofs, and Access, Kyc, Rewards and Onboarding
AccountProofs. Wallet and Trading have
`MC...` modules with their instances. `PROJECT.json` gives the source lines of every
definition. Definitions commented `mutant` are variants of the
definition after them with a plausible bug; each property is refuted for one of
them, which shows that it depends on the code it is about.

**Situations.** A property of many hazards needs many instances: two goroutines,
or faults, or a certain history. One run with all of them at once is too large, and many
runs repeat the same constants. So most modules have a constant `Situation` (`Scene` in Rewards and Onboarding, `Scenario` in Market), a set
of records that say who takes part, which requests are made, what may
fail and how often; `Init` chooses one, keeps it in `here` (`scene`), and it never changes. A
behaviour is a behaviour of one situation. Those of Wallet and Trading are in MCWallet
and MCTrading, those of the others beside their properties. A property that is
claimed for some situations only names them in its antecedent.

**Wallet.tla** (`wallet-service`, `shared/redisutil`). `bal`, `lck` are the Redis
keys (or `Absent`), `dbBal`, `dbLck` the columns, `events` the unread
`balance.changed` entries, `uncommitted` those read since Kafka's last commit, `redo` those a restart gives
again, `again` what the projector has released a second time, `req` what each goroutine is doing, `warm` the
warm-up. A Redis command, a transaction and a projector update is one step
each: `EnsureGet`/`EnsureFind`/`EnsureSetBal`/`EnsureSetLck` are
EnsureBalanceCached, `Script` the Lua script, `ScriptError` a call that fails
before or after its effect, `Publish` the event and the reply;
`CapGetBalance`/`CapGetLocked`/`WithdrawalTx`/`UndoLock` are CreateWithdrawal,
`RejectTx` and `ConfirmTx`/`ConfirmCredit` the transactions of rejection and
confirmation. `hold` is what an order or position of another service believes
it has locked.

**Totals.tla** defines the sum of a function over a finite set, a fold of the community
modules; TotalsProofs has the lemmas about it.

**OrderBook.tla** (`engine/orderbook.go`). A side of the book is a sequence of order
ids, best first; `AddOrder` inserts after equal prices, `Match` walks the other
side. Price levels with a queue each are this sequence, grouped.

**Trading.tla** (`trading-service`). One pair. `mem` is the order the engine
holds, `row` the row; `PlaceOrder` and `CreateOrder` are the handler up to the
row, `MatchOrder` takes the mutex and matches, `SettleLeg`/`LegFails`/`UndoLeg`
are the four updates of a trade and their compensation, `SettleTail` the
bookkeeping of a settled trade, `RollbackTrades` the reversal of the rest,
`FillAtMarket` the synthetic counterparty of a MARKET order, `RestOrder` and
`PublishUpdates` the end of ProcessOrder, `SyncRead`/`SyncWrite`
SyncOrderStatus. Cancellation has a step for each of its statements. `Movements` are what
a trade changes and `Net` what they come to for one key, which is what `Settle` does in one step
where nobody can come between.

**Futures.tla** (`futures-service`). `pos` are the rows, `job` what each request
goroutine, the engine and the funding scheduler are doing. Calls to
wallet-service are single steps (`Lock`, `Unlock`, `Add`, `Deduct`), which fail
as gRPC calls do, before or after their effect. Opening has a step per call;
a closing is one transaction (`ClosePosition`, `AutoClose`, `Liquidate`) and then
`SettleUnlock`, `SettleApply` and a report. `scan` is the snapshot `check()` works
on, with the triggers as they were. `events` are the unread `position.changed` entries and `uncommitted`
those read since the last commit: `Restart` puts any suffix of them back in front, none over Redis Streams.

**Delivery.tla, EventBus.tla, MessageProofs.tla, Consumers.tla**
(`shared/eventbus`, `notification-service`, `es-indexer`). `log` is the topic,
`cursor` a group's last-delivered ID or its committed offset, `pending` what was given
and not acknowledged, `loop` each consumer loop. `given` and `calls`
are history: which entries a group's handler was called with, how often.
Delivery says with three variables what a user of the bus may rely on in either mode;
`Promise` is Delivery under the mapping of mode, length of `log`, `given` and
`calls`. Rewards and Onboarding start from Delivery, not from a transport.
Consumers has the handlers, statement by statement, on top of EventBus:
`HandleOrder` and `HandleEvent` of the indexer, `PersistAndBroadcast`.

**Sessions.tla** (`auth-service` login, refresh, two-factor, password, lock).
`acct`, `token` are rows, `fails`, `lockout`, `challenge` Redis keys, `cookie` and
`temp` what devices hold; each request is a goroutine `job[p]` with a label per
statement. `SaveRow` is GORM's Save of a whole row, which writes every
column as it was read. A token knows its family and how it came about.

**Anomaly.tla** (EXTENDS Sessions). The two goroutines a password sign-in spawns:
`WriteRow`, `IndexAudit` for the audit row and its copy, `CountLogin`,
`CompareIP`, `CountAddresses` for CheckLogin's three heuristics.

**Kyc.tla, Access.tla** (EXTENDS Kyc). Kyc has one user's row, the documents and
the two keys; `Serve` is an endpoint of auth-service, `Decide` an
administrator's. Access is a request's way through the gateway: `limiter` the sorted set of
the Lua limiter, whose clocks and `math.random` are those of the code; `key` the API
keys; `settings` and `cached` the platform's settings and their copy; the
gates are Kyc's. AccessProps has the properties and AccountProofs the proofs of both.

**Rewards.tla, Onboarding.tla** (EXTENDS Rewards). Rewards is one handler of
`trade.executed` and what follows it, in the order of main.go: the counter of a
pair of traders and the flag of one address (`pairs`, `flags`), the volume and the goroutine that
caches the tier (`volume`, `refreshing`, `cache`), the commission (`commission`, `credits`); and
of `user.registered` (`binding`). Onboarding adds rows of users, the
start of auth-service (`EnsureFeeWallet`, `CreateUser`, `AnnounceUser`,
`SetKey`), wallet-service's loop (`Deliver`, `CountWallets`,
`CreateInBatches`), a deposit that creates a wallet itself, and the matching engine's
search for the fee wallet (`Poll`, `ChargeFee`).

**Market.tla** (`price-feed.go`, `candle-aggregator.go`, candle handlers). One pair, one interval.
`LoadOrStore`, `AddTick`, `FlushCandle`, `Purge`, `ResetCandle` are
processTick by lock; `FetchKlines`/`UpsertKlines` the back-fill;
`ReadRows`/`CacheRows` GetCandles. `prices` is history: the quotes stamped with each interval, numbered as they come.

**Hub.tla** (`shared/ws/hub.go`). Unbuffered channels are rendezvous
(`Register`, `Unregister`), `buffer` a client's send channel, `closed` those
closed. `Visit` is the loop over clients of a broadcast, with the read lock
held between its steps; `DropSlow` is what it does to a full buffer. Its situations are
`Setting`, and its specification is `HubSpec`, because MessageProofs, which proves what is
said of sends and of order, has both this module and EventBus in scope.

## 4. Runs

| Run | Question | Instance |
|---|---|---|
| WalletConcurrent | Two goroutines, failing scripts, lost events, failed transactions, a restart: does any store go negative (`TypeOK`), does the Redis lock cover what counts on it (`LockedCoversClaims`)? | `Storm`: 1 wallet, 2 goroutines, 3 requests, 1 restart |
| WalletStores | One request after another: do the stores agree when nothing is in flight (`QuiescentAgreement`) and for ever once requests stop (`EventuallyConsistent`)? When events overtake one another: is the table never below Redis? Also with missing keys, failing commands, a restart, and events given again after it: do its locks cover orders and withdrawals, but for what was released again, does a deposit count once (`TableIsSafe`)? | `Stores`: 1 wallet; deposits, a bonus and a rate that changes; 2 goroutines; cold keys with failing commands, a flush and a restart; `Redelivered`, where a restart gives the last two events again |
| TradingOrders | Are resting orders backed by locks (`RestingIsBacked`), do rows follow the book (`RowsFollowBook`), do trades of LIMIT orders respect price and time (`TradesBest`), is the book never crossed (`BookUncrossed`), is money conserved (`FundsConserved`), is an order filled by what was paid and never more (`FilledIsSettled`)? | `Orders`: 3 LIMIT orders; 3 orders LIMIT and MARKET with settlements that roll back; 2 goroutines and a lagging projector; all faults and types and an administrator, once with and once without a restart |
| TradingAnswers | Is every request answered although all want one mutex (`EveryRequestAnswered`)? | `Contending`: 2 orders, 2 goroutines, fair |
| FuturesClosing | Two goroutines, the engine and a funding settlement: is a position settled once (`SettledOnce`), do locks cover margins (`MarginLocked`), is the loss at most the margin (`LossCapped`), does a closing move what its row says or nothing (`SettlesAsStored`), does a settlement use one price (`FundingIsUniform`)? | 1 user, 2 positions, failing transactions, restarts that may give the last event again; `PromptSpec` |
| FuturesTriggers | Take-profit, stop-loss, no price, failing wallet calls, lost events, a wallet emptied by others: is an underwater position closed unless the price recovers (`UnderwaterIsClosed`)? | 1 position, fair |
| Sessions | Do failed passwords bound guesses although check and count are apart (`GuessesBounded`), does a rotation leave one live token (`RotatedIsDead`), does a lock end the sessions that refresh (`LockEndsSessions`), does a check that runs alone find bursts and sign-ins from afar (`AnomaliesAreFound`)? | 1 account, 2 goroutines, 11 situations with lost answers, failing writes, a restart |
| Access | Does the gate open only after an approval (`GateNeedsApproval`), does the limiter's window hold (`WindowBounded`), does a dead key admit nothing new and a live one only what was asked for (`KeysHold`), do the cached step, lock and settings follow their rows (`CachesFollowRows`)? | a user beside an administrator; 2 callers, 1 key, 4 requests, a window of 3 |
| Consumers | Is the bus Delivery (`Promise`), has no handler half an effect (`EffectsAreWhole`), does every group get every event (`EveryGroupServed`)? | 2 groups, 3 events, up to 2 loops, both transports, stops, lost answers, failing handlers |
| Rewards | Does a trade pay one commission (`CommissionOnce`) and count in full (`VolumeCounted`), do cached rates become those of the tier (`TierSettles`)? Is a user announced once (`UsersAnnouncedOnce`), has a user all wallets and the gift or none (`WalletsWhole`), does an announced one get them (`AnnouncedGetWallets`)? | up to 3 trades, 2 users and the fee account, 2 instances, stops, failed writes, redelivery |
| Market | Has a candle no half of a tick and nothing that was not traded (`CandlesTrue`), do cached rows become those of the table (`CopySettles`)? | 4 ticks, 3 intervals, 3 trades, 5 situations of feeds and faults |
| Hub | Is nothing sent on a closed channel (`NeverPanics`), are messages in order and not repeated (`InOrder`), does every goroutine of a lost connection end (`NothingLeaks`)? | 2 clients with buffers of 1, 2 messages, with and without Redis |

**Bounds.** Orders, positions, deposits and withdrawals are finite sets of
rows. `MaxRequests`, `MaxCalls`, `MaxOps`, `MaxPass`, `MaxWrong`, `MaxEvents`, `MaxTicks`,
`MaxTrades`, `MaxMessages`, `MaxChanges`, `MaxOrders`, `MaxSettlements` bound what is
asked, together with `requests` and `orders` of a situation; `MaxRestarts`, `MaxStops`, `MaxFaults`
and a situation's `restarts` and `limit` what goes wrong, `MaxUncommitted` and a situation's
`uncommitted` how many of the last events a restart may give again, `MaxTime` and `here.end` clocks. What they have to allow is an overtaking of two events, a failure between any
two steps, an order that takes a resting order of another price or a part of one,
a book with two orders on one side, two closings of one position with the margin
of another at stake, two rotations of one token, two ticks in one candle and one in the next, a
client whose buffer is full: two goroutines, two or three rows and amounts 1 and 2 do. That
each of them happens is what the mutants show: every property fails under
its run's own bounds for a bug in the code it is about.

Constants of the code are scaled where only their order matters: 5 wrong passwords of an
account and 20 of an address are 2 and 3, a limit of requests in a minute is 2 in 3 ticks, the
polls for a fee wallet are 2 (30), a client's buffer 1 (256), the burst of
sign-ins 1 (5). Trading's rates are scaled (`FeeScale` 2,
taker 1): a fee has to be a whole number. Futures uses prices of 400000 and
362000, at which a LONG with leverage 10 is exactly at its liquidation price and
a SHORT loses more than its margin.

**Assumptions of the runs.** Where a property is claimed for less than everything the
model does, its definition says so in its antecedent. In Wallet, `RedisHolds` is a start from
warm keys with neither failing GETs nor a flush, `OneByOne` one goroutine, `Orderly` that and no
fault, `RateStays` an exchange rate that does not change, `DepositsWarm` that deposits come up only where the
keys exist. In Trading, `Faultless` is a situation
with no fault, `Orderly` one that is calm as well (requests come one after another and find the
rows up to date), `OnlyLimits` such a one with nothing but LIMIT orders, `Surviving` one in which trading-service
does not stop, because a restart takes the progress of orders from rows that lag. `PromptSpec` of Futures says that nobody closes a position while the event
that announces it is unread, and that no restart gives that event again once the position is closed; its
plain `Spec` says neither. The first half asks the projector to be faster than a user or the market. The
second is empty over Redis Streams, where an entry is given once; over Kafka, the default of start-all.sh:14,
a consumer commits once a second (kafka-adapter.go:126) and goes on from its last commit, so it asks that
futures-service does not stop within a second of reading the OPEN event of a position that is closed
within that second. The events of other positions, and CLOSED events, may be given again as often as
the code does. `RedeliverySpec` drops the second half. In Wallet no such assumption is made:
what a release that is given again takes from other claims is counted (`again`) and is the bound of the property;
the agreement of balances is claimed without faults only.
Section 7 shows what breaks without these assumptions.

## 5. Fairness

Clients and administrators are never obliged to act, and no fault is ever fair.

* **Wallet, Futures**: a goroutine in a request keeps running (`WF` of its next
  step: Go schedules runnable goroutines, and calls return, with an error if
  need be). Projectors poll in a loop; the liquidation engine runs on a ticker; the
  warm-up is a loop over rows.
* **Trading**: the same, and `SF` of `MatchOrder` for sync.Mutex, whose starvation
  mode hands the lock to a waiter after a millisecond.
* **Consumers, Onboarding**: a consumer loop goes on as long as its service runs; a
  service that stops is started again, by an operator, and a stop is one step
  from the loop that ran to the loop that begins anew.
* **Rewards**: handlers and the goroutines of `RefreshTier` go on; a key with a
  time to live expires unless it is set again.
* **Market**: a goroutine that began a tick finishes it, `GetCandles` stores what it
  read, a copy expires after 30 s.
* **Hub**: Run and the subscriber go on; `SF` of `Register` and `Unregister`, because a
  select with several ready cases picks one at random and does not pass over a
  waiting sender for ever. A pump is fair only once its connection is
  closed: a peer that is there may be slow for ever.

Sessions, Access, Kyc and Anomaly have no liveness property and state no fairness.

## 6. Proofs

`tlapm` checks these for every value of the constants that satisfies the named
assumptions of the module.

For Wallet (finite sets, naturals, `Absent` not a number):

* **TypeCorrect** (WalletProofs): `Spec => []TypeOK`. It says
  that no balance and no lock is negative, in either store, whatever fails. It
  is inductive once it includes which kind of row a request carries
  (`RequestTypes`) and that lock events carry no negative amount
  (`EventTypes`): one lemma per group of actions, joined in `TypeStep`.
* **LocksCoverClaims** (WalletProofs): `Spec => []LockedCoversClaims`, which is `LocksCover` in every
  situation with `RedisHolds`; events, scripts, transactions and the process may
  fail. It is not inductive, and uses that the situation stays (`HereStays`). `LockInv`
  adds that keys stay present (else a lock could be overwritten from
  the table), which request is at which label (a
  request in flight counts as a claim only at certain labels), and `TypeOK`.
  `CoverStep` reduces a step to three totals that change at one place
  each; TotalsProofs supplies what changing one value does to a total, by
  counting, from the library's cardinality theorems.

* **TableStaysSafe** (WalletProofs): `Spec => []TableIsSafe`. What the projector has still to apply is a
  sum over a sequence (`Owed`), of which one lemma each says what publishing and projecting change. For the
  balances, `LedgerInv` bounds what Redis holds by the row, the events and what a request has done and not
  published (`Unposted`): the projector may skip a deduction, never a credit. For the locks, `ClaimInv` counts
  what the table covers, less what was released again after a restart; it needs what a withdrawal request works on (`RowInv`: a row nobody has taken, or one still
  live when it was read, with dong that convert back to what was locked). `DepositInv` is about the one
  goroutine there is: it found its deposit unconfirmed. Where the service does not restart nothing is given again
  (`NothingAgain`), which the first half and StoresStayEqual need.
* **StoresStayEqual** (WalletProofs): `Spec => []QuiescentAgreement`. `StoreInv` says of every wallet whose keys are
  loaded that Redis is the row, the events and what the one request has under way (`BalanceSound`,
  `LockSound`), and that what the row comes to after each of the first events is not negative: so no event is skipped
  or cut short. Of one whose keys are missing, nothing has happened to it yet (`Untouched`), so what a request
  selected is still true when it writes the keys (`AtKeys`). That a release meets enough lock is `ClaimInv` again.

For Futures (`None` is not a row, sizes and leverages are positive; `ExactAssumption`, for FundingAtOneRate alone:
payments are whole numbers of the unit, as margins and fees are):

* **TypeCorrect** (FuturesProofs): `TypeOK` under `Spec`. It contains which part of
  a job is filled at which label (`JobTypes`): without it a step could
  settle a row nobody found.
* **ClosedOnce**, **LossIsCapped** (FuturesProofs): `SettledOnce` and `LossCapped` under
  `PromptSpec`. Neither is inductive. `CloseInv` adds `OpenedOnce`
  (a row that is open, or may still become so, was never closed, and each
  unread or unpublished OPEN event is about an open row; this is where `KeepsUp`
  is needed, also of a restart, which puts events back) and `SettledByOne` (at most one goroutine still
  owes the settlement of a row, it owes no more than the margin, and nothing was
  moved before). Most steps leave all of that alone: `QuietKeeps` says so once, and
  `CreateKeeps`, `CloseRowKeeps` and `ApplyKeeps` are the three that do not.
* **ClosingAsStored** (FuturesProofs): `SettlesAsStored` under `PromptSpec`. The
  profit exists four times - in the row, in the closing's job as an amount to
  settle and as a captured row, and in its CLOSED event - and `StoredInv` says that
  the four agree from the transaction to the last projected event. `CloseInv` supplies
  that there is one closing, so nobody writes the row in between.
* **MarginStaysLocked** (FuturesProofs): `MarginLocked` under `PromptSpec`. A step moves a margin
  between the two sums of a user, over rows and over goroutines, or adds it to one of them
  together with the lock. `CloseInv` supplies that a row leaves the first when one goroutine
  takes it over.
* **FundingAtOneRate** (FuturesProofs): `Spec => []FundingIsUniform`, with closings, restarts and failures as the
  situation has them. The property says that one unit explains all payments of a settlement; `FundingInv` keeps such
  a unit for every settlement, and for the one under way it is the rate times the price `Settle` took (`Charged`,
  `FundUnit`), so later moves of the price do not matter. It includes that side and size of a row never change
  (`RowsSized`), that whoever works on a row names one that exists (`RowsNamed`), and that settlements to come have
  paid nothing. TLC checked it on FuturesClosing's constants first.

For Trading (finite sets of goroutines and customers, prices that the fee scale divides, rates within the allowance;
situations that have types, prices and funds):

* **TypeCorrect** and **WithinAmounts** (TradingProofs): `TypeOK`, and that no order in memory, row or
  event is filled beyond its amount and one goroutine at most is inside the mutex. `Shape` is
  inductive. A Nat balance rests on the scripts' guards, but a fill within the amount rests on a goroutine's
  trades: each is with a resting order of the other side at its price, their amounts sum up to
  what it has filled (`Settling`), and nobody else touches orders in the book meanwhile
  (`Exclusive`: an order to be matched is claimed by one goroutine).
* **FilledAsSettled** (TradingProofs): `Spec => []FilledIsSettled`. While the mutex is held, `mem` is ahead of what
  was paid, or behind while a rollback is under way; `SettledInv` says by how much: the
  amounts in the trades the goroutine has still to settle or revert (`Owed`). Match, settlement,
  rollback and the synthetic trade each keep it.
* **NothingLeftToTrade** (TradingProofs): `Spec => []BookUncrossed`. Not inductive: a rollback puts
  orders back, and a match may rest what it left. `Standing` says of the goroutine inside that no order it traded
  with reaches its own side, and that what is left of its order reaches none of the other.
* **MoneyIsKept** (TradingProofs): `Spec => []FundsConserved`. `Balanced` says that what all accounts and the outside hold is
  the endowment and what the goroutine inside has moved without its counterpart yet
  (`Outstanding`), from the sums of TotalsProofs over the movements of a trade; `Backed`
  that a compensation finds what it takes back, without which its ignored error would lose money.
* **TableFollowsBook**, **LocksCoverOrders** and **BestTradesFirst** (LimitProofs, which goes on from TradingProofs): `RowsFollowBook` and
  `RestingIsBacked` in all states and the action property `TradesBest`, all under `Spec`. They are about LIMIT orders
  that come one after another and find the rows up to date, and need each other. `LimitInv` says, of the one goroutine at
  work (`Alone`): queues are sorted by price and then age (`Queues`), because an id grows with
  arrival and nothing is put back; a row is right, or an update that makes it right waits or is still to be published
  (`RowsGood`, `UpdatesGood`, and per label of the goroutine `Fit`); what is locked covers what is left of every order that rests
  or is being worked on, at its own price and with its allowance (`Locked`), and no lock exceeds the balance
  but for what a settlement has just paid (`Funded`). The last two carry each other: a
  lock that covers the trades of the order in hand is why no step of its settlement is refused, so there
  is no rollback; and a cancellation releases what the row says, hence no more than its own claim, only because the row is right.
  A trade releases what was paid, at the price of the resting order, which is at most what its buyer locked
  per unit. This needs `RateAssumption`: no rate of a fee is above the
  allowance (main.go:83, and every tier of fee-tier.go:28-32). TLC checked `LimitInv` with 3 orders before it was proved.

The proofs about Match and the other folds go by the folds' functions: TotalsProofs proves induction over
natural numbers and finite sets (the property is a set, not an operator), that a
function computing a fold exists, and that `Sum` adds up however the fold picks its elements.

For EventBus (`BusAssumption`: every loop has a group, a batch is not empty, a stream
keeps at least one entry):

* **BusPromise** (MessageProofs): `Spec => Promise`, that is, EventBus implements
  Delivery, for any number of groups, loops and events and whatever stops or
  fails. The initial states map to Delivery's, a step of a loop that
  calls a handler to `Call`, a publication to `Publish`, and every other step to a
  stutter. The invariant `Inv` it needs says of Redis
  (`RedisInv`) that what was given, and what loops still hold of their batches, lies
  behind the group's cursor, and that no two loops hold the same and none what was
  given already (so an entry is given once); and of Kafka (`KafkaInv`) that all that
  precedes a loop's place, its mark or a committed offset was given, so that going
  back to an offset leaves no gap.
* **NothingSkipped** (MessageProofs): with Kafka every entry below a committed
  offset was given to the group. It is the part of `Inv` an operator relies on.

For Consumers (`ServiceAssumption`: the two services are two groups):

* **ServicesAreWhole** (MessageProofs): `SpecAll => []EffectsAreWhole`, for any number of loops, events and groups. A step
  of a service is a step of the bus with its effect (`HandleInv`), so `Inv` above carries over. `EffectInv` adds
  that what was given has its row or document (`RowsMade`, `DocumentsMade`), that over Redis without faults nothing
  is lost between cursor and loop (`Kept`), and, for a group with one loop, that the document of an order is at
  least as new as all the loop has passed (`UpToDate`): when a restart hands old entries over again, a document falls
  back, and the loop's place with it. "Caught up" then puts the place at the end of the topic (`AtTheEnd`,
  `LastIsShown`). Over Redis this needs that the topic is not trimmed (`Reliable`): a
  stream shorter than a loop's backlog loses entries, whoever works.

For Access and Kyc (`Absent` is no step; there is a key and a kind of document; every
situation starts from a row of the users table, and has finitely many goroutines and callers):

* **GateKept** (AccountProofs): `AccessSpec => []GateNeedsApproval`. The gate reads a cached
  step, which is written from a copy of the row a request loaded earlier, so the
  invariant follows the fourth step through all of them: before the first approval it
  is not in the row, not in a copy, not in Redis, and no request is about to write
  it (`Reviewed`).
* **KeysAreHeld** (AccountProofs): `AccessSpec => []KeysHold`. A key's columns do not change
  but for its state, which never goes back to live, and its permissions are the normalised ones of
  what was asked for (`KeyTypes`). A request made with a dead key stays before the
  look-up that sees why it is dead (`Signed`). This needs that nobody is unlocked: a
  save of a whole row that a lock prepared writes a lock (`LockStays`). What is proved about locked owners
  is therefore only about behaviours without unlocking, as `DeadKeysStayOut` says.
* **CachesAgree** (AccountProofs): `AccessSpec => []CachesFollowRows`. The property is about requests that
  come one after another, and so is the invariant: with one goroutine (`StepFollows`), what a job read
  from the row or wrote there is the row's step, and the key is absent or agrees, except where the job
  is about to write it; with one caller (`CopyFollows`) the same of the settings and their copy.
  Calls to Redis succeed in both, as the property says.
* **WindowKept** (AccountProofs): `AccessSpec => []WindowBounded`. The property is about situations in which a
  script runs in the millisecond its caller read. The limiter counts members of a sorted set, whose
  names a clock and `math.random` make up, so two admissions may be one member. `LimiterInv` says that
  the set still has a member for every admitted time of the current window (`Remembered`) and that a
  request about to ask the script carries the present time (`Prompt`); the bound follows by
  counting, a surjection from the members to the times (FS_Surjection).

For Sessions (there are users and devices, the devices of a situation are among them, finitely many
goroutines, limits are positive, the address is no user). All four are proved of `WatchSpec`, the
specification the run checks: the detector leaves the variables of Sessions alone (`WatchSteps`).
`Types` says what a job has in hand at which label, and `Turns` what any step of a goroutine does:
rows of tokens stay, flags are only set, and its job follows from the one before (`Follows`).

* **RotationKeeps** (SessionsProofs): `RotatedIsDead`. A successor's parent is marked (`Rotations`); the goroutines that read
  it unmarked and are still rotating it (`Rotating`) and its successors are together no more than all
  goroutines, because once it is marked a successor more is a goroutine less. The same for
  a challenge, which nobody has spent while it is there (`Openings`).
* **GuessesStayBounded** (SessionsProofs): `GuessesBounded`. `Throttled` follows a wrong password: it is in the counter, or with a
  goroutine that has still to count it, or a restart lost it; an unlocked key has a counter below the
  limit but for goroutines that are about to lock it; so a request that was let through
  adds at most what other goroutines do not. Each step is one of six changes of
  these numbers (`ThrottledStep`).
* **LocksEndSessions** (SessionsProofs): `LockEndsSessions`. Where nobody unlocks or saves a name, every row a goroutine is about to save is
  locked (`Marked`), so a lock stays; a successor is created by a goroutine at `owner`, which
  therefore finds the lock and goes to `endAll`, whose step revokes the token (`StillBehind`).
* **SuspicionsAreRaised** (SessionsProofs): `AnomaliesAreFound`. The counter of an account is at least the number of
  its sign-ins in the window that ends now, because it lasts as long as the window of each (`BurstInv`); so
  the sign-in that makes a burst finds it. A sign-in makes a row of each action at most, the
  goroutines not ended have still to (`RowsOnce`, `LoginsNoted`), and the rows of all that ended before a sign-in came
  precede its own (`InTurn`). Between the row of a sign-in and the comparison of the next are then at most
  six rows, four of the first and two of the second, so `lastSuccessIP` reads it (`FoundByCompare`): this is why
  `AnomalyAssumption` says `Recent >= 6`; the code reads ten rows (anomaly-detector.go:133).
  Rows of an account's other actions, which the model leaves out, take up those ten as well.

For Hub (buffers hold at least one message, the path is one of three):

* **NoPanic** (MessageProofs): `HubSpec => []NeverPanics`. Whom a fan-out still has to visit is
  registered, who is registered is not closed, and nobody registers again after that (`Safe`);
  Run cannot remove while someone is visited, because the read lock is held.
* **DeliveredInOrder** (MessageProofs): `HubSpec => []InOrder`. Messages move from the queue to the fan-out,
  the client's buffer and the connection, and numbers fall along that way: all
  that waits is above what is fanned out, that is above what a client who is still to be visited
  has, and the buffer is above what was received (`Queued`, `Behind`, `InLine`). It holds because a message has
  one way (`OneWay`); a broadcast that falls back to its own instance has two, and
  `InOrder` leaves that path out.

For Market (`MarketAssumption`: bounds are numbers, and who feeds a pair is one of the three goroutines that do):

* **CandlesAreTrue** (MessageProofs): `MarketSpec => []CandlesTrue`. A quote without volume opens a candle and is
  added to it once more, so the second half, that volumes are not made up, needs that no goroutine adds a quote with
  volume that its candle has seen (`OpenedEmpty`), which needs in turn that no two have the same quote (`Numbered`).
  `AllSound` then bounds the volume of a candle, in memory, in the table or in the hands of a goroutine
  that flushes it, by that of the quotes it has seen, and `VolumeBounded`, of the sum over all
  quotes, counts what the next message would add. The first half has one feed: `WholeSoFar` compares the candles with
  the quotes less the one the goroutine is about to add, at each label of `ProcessTick`; between the flush and the
  reset the old candle is in the table and in memory. Volumes are sums over finite sets (TotalsProofs).

For Rewards and Onboarding (`RewardsAssumption`: situations have types, thresholds of tiers are positive and, like the
loops, finite in number; `OnboardingAssumption`: there are demo accounts, and gifts are amounts). One invariant,
`OnboardingInv`, carries all four; TLC checked it on the constants of the run Rewards first:

* **CommissionPaidOnce** (AccountProofs): `OnboardingSpec => []CommissionOnce`. Look-up, row and payment are three
  steps that a stop may separate. With one loop, one that is about to create the row finds none, and
  one that is about to pay has made the row, with this trade's fee, and nobody was paid for the order yet (`PaidOnce`).
  The property says "one instance" because with two it is false (`RowPaysOnce`, section 7).
* **VolumesCount** (AccountProofs): `OnboardingSpec => []VolumeCounted`. `Counting` compares the volume with the trades given
  less those that handlers have still to add (`Pending`). Over Redis no two handlers have one trade, so an addition
  takes one trade out of `Pending`; over Kafka the place the group resumes from after a stop is
  below all of `Pending`, so what a stop forgets is given again. `Tiered` holds because volumes only grow and a goroutine
  carries a tier of an earlier volume, so it needs that `TierOf` is monotone.
* **AnnouncedByCreator** (AccountProofs): `OnboardingSpec => []UsersAnnouncedOnce`. Of two instances that look for one
  row the unique address lets one create it; `Announced` says that the one about to announce made the row,
  that no other is about to, and that nobody has.
* **WalletsAreWhole** (AccountProofs): `OnboardingSpec => []WalletsWhole`. `Whole` is the property and that without a row there is
  no deposit and no projected fee; a batch that finds a row creates nothing.

Only model-checked: everything under fairness (the prover has no ENABLED);
Hub's `NothingLeaks`;
and the action properties about several steps.

## 7. Where the code deviates

Each of these properties says what a comment or document of the repository says, or
what one would take for granted, and TLC finds a trace that violates it. They are defined in the
`...Props` modules under "Refuted" or beside the property that does hold.
To see a trace, use the configuration of the first column, with the module
named, and where a line says so, in a copy of it replace the lines `INVARIANT` and
`PROPERTY` by the property (I: as an invariant, P: as a property).

Wallet, in `MCWallet`:

| Configuration | Property | What happens |
|---|---|---|
| WalletDoubleConfirm | DepositCreditedOnce | Two notifications of one deposit pass the status check, which is outside the transaction. |
| WalletRejection | RejectionRefunds | A rejected withdrawal stays locked in Redis; wallet-service.go:488 says it is refunded. |
| WalletRejection, replaced | DecisionsAreFinal (P) | A rejection that read PENDING overwrites an approval. |
| WalletStores, replaced | TableLocksCoverClaims (I) | Two rejections of one withdrawal at a time unlock it twice. With one goroutine (`OneByOne => TableLocksCoverClaims`): after a change of the rate a rejection converts the dong at the new rate and unlocks more than was locked. |
| WalletStores, replaced, `Situation <- Repeated` | TableKeepsLocks (I) | Kafka gives a release again after a restart, and the table's lock of another claim is released with it: the projector does not remember what it applied (wallet-service main.go:121-141, kafka-adapter.go:126, 147-158). A deduction given again is taken twice in the same way. |
| WalletBonusRace | WithdrawalLeavesBonus | Two withdrawals within the cap together exceed it. |
| WalletWarmRace | WarmOnlyWhenMissing | The warm-up overwrites a key that appeared after its GET. |
| WalletStores, replaced, `Situation <- Missing` | DeductionsStay (I) | Two requests find no key; one loads it and deducts, the other then writes the balance it selected before (wallet-service.go:113, balance-cache.go:30): the deduction is undone in Redis, and the table is below it. |
| The same | CachedIsWhole (I) | A confirmed deposit credits a missing key, whose balance is then the deposit alone (wallet-service.go:195, lua-scripts.go:24). |
| WalletMissedEvent | ColdStartReconciles | A lost event is not reconciled by a restart (wallet-service.go:312), because the keys are still there. |

Trading, in `MCTrading`:

| Configuration | Property | What happens |
|---|---|---|
| TradingLostMaker | RollbackReverts | A popped order with an earlier fill is not put back by rollbackTrades. |
| TradingLostMaker, replaced | RestsOnce (I) | A half-taken order is put back although it never left (matching-engine.go:381). |
| TradingLostMaker, replaced | PublishedIsDone (I) | Trades settled before a failing one are never published. |
| TradingCancelRace | CancelledLeavesBook | A cancelled order rests: cancelled between its row and its place in the book. |
| TradingOrders, replaced | CancelledLeavesBook (I) | The same with one goroutine: an administrator's cancellation does not touch the book. |
| TradingLockLeft | CancelReleasesLock | Locks at the limit price, with an allowance for fees, are released at the price paid. |
| TradingLockLeft, replaced | WithinLimit (I) | A STOP_LIMIT order trades at once at any price. |
| TradingRecovery | RestingIsOpen | A restart loads rows the projector has not brought up to date. |
| TradingRecovery, replaced | NeverOverfilled (I) | An order loaded so was paid for already, matches again and is paid for again. |
| TradingOrders, replaced, with `MaxOrders = 4` and `Situation <- Requeued` | PlaceKept (P) | An order that rollbackTrades puts back is queued like a new one, behind younger orders of its price (matching-engine.go:372-382). |
| TradingOrders, replaced | MoneyStays (I) | A restart between the updates of a trade leaves it half settled; the same follows when a compensation is refused, because its error is ignored. |

Futures, in `FuturesProps`:

| Configuration | Property | What happens |
|---|---|---|
| FuturesGap | LocksBacked | Between unlocking a margin and deducting the loss, another request locks the margin; comment at liquidation-engine.go:412. |
| FuturesGap, replaced | LedgerFollows (I) | The engine and the funding scheduler publish a balance change that wallet-service published already; liquidation-engine.go:227. |
| FuturesGap, replaced, with `SPECIFICATION Spec` | SettledOnce (I) | The projector sets a status by id alone: an OPEN event read after the closing opens the row again, and it is closed and paid a second time. |
| FuturesClosing, replaced, with `SPECIFICATION RedeliverySpec` | SettledOnce (I) | The same after a prompt projection: the service stops before the offset of the OPEN event is committed, Kafka gives the event again, and the closed row is open once more (futures-service main.go:102-112, kafka-adapter.go:126, 147-158). `MarginLocked`, `LossCapped` and `SettlesAsStored` fail in the same way. |

Event bus and consumers, `Consumers.cfg` with `Consumers`, replaced:

| Property | What happens |
|---|---|
| FailedIsRetried (P) | Over Redis a failed entry stays pending for ever: a loop only reads new ones. |
| BalancedIsLatest (I) | Two loops of one group work on events of one order at the same time; the document may end with the older (eventbus.go:82-84). |
| OneRowPerEvent (I) | Kafka's redelivery makes a second notification: its insert has no key of the event. |

Sessions and anomaly detection, `Sessions.cfg` with `AnomalyProps`, replaced:

| Property | What happens |
|---|---|
| PasswordEndsSessions (I) | A refresh that read its token before a change of password creates its successor after the revocation. |
| ReplayEndsFamily (I) | The same with the revocation of a family whose token was replayed. |
| OneShot (I) | Two requests read one challenge before either deletes it, and both sign in. |
| SaveKeepsColumns (P) | Save writes every column as it was read: locking an account or changing a name brings back the password, or the second factor, that another request replaced meanwhile. |
| EveryTravelIsFound (I) | Of two sign-ins from afar at a time, each check may run before the other's row is written. |
| AddressesAreCounted (I) | The check's search does not see its own sign-in, which is not indexed yet. |
| OnlyBurstsAreFound (I), with `VelThresh = 2` | Every INCR is followed by EXPIRE, so a window that is never quiet never ends, and sign-ins far apart are a burst. |

KYC, gateway, keys and settings, `Access.cfg` with `AccessProps`, replaced:

| Property | What happens |
|---|---|
| GateBlocks (I) | A lock of the account or a rejection changes the row and not the key: the gate stays open until the next sign-in (kyc-gate.go:11). |
| ReuploadCounts (I) | A document that exists is set PENDING and then created once more with its id, which the primary key refuses: after a rejection (kyc-service.go:230) nothing brings the step back to 3. The shortest trace gets there by verifying the address again, as below. |
| StepAdvances (P) | Verifying the address writes step 1 and submitting the profile step 2, whatever the step was, also 4 (kyc-service.go:92, 113). |
| RequestsBounded (I) | Members of the limiter's set with the same millisecond and the same random number are one; a script that runs late counts a time before it. |
| LimitsAreSet (I) | The cached settings expire after a day, and a service that finds none takes its defaults instead of the administrator's (platform-settings.go:5). |
| CacheIsRow (I), with `{c1, c2}` in the last of the `Situations` | A reader that misses the cache stores the old row over the administrator's new one; it stays for a day. |

Trades and new users, `Rewards.cfg` with `OnboardingProps`, replaced:

| Property | What happens |
|---|---|
| EveryFeePaid (I), RowPaysOnce (I), RowIsPaid (I) | The key of a commission is the taker's order, so later fills of an order pay nothing; row and credit are two steps, and a stop or an overlap between them pays none or two. |
| AnnouncedOnce (I) | auth-service publishes the credit of a commission that wallet-service, which made it, has published. |
| TierIsCurrent (I) | Two refreshes overlap, and the older tier is cached last. |
| OneDefaultCode (I), UsageCounted (I) | Two requests find no code and create one each; the counter of uses is a second statement. |
| NoOneForgotten (I), SeedsComplete (I) | A stop between creating a row and publishing: the next start finds the row and publishes nothing. |
| FasterGetsRest (I) | A deposit that comes before the event creates one wallet, and provisioning then skips the others and the gift (wallet-service main.go:157-162). |
| GiftIsCached (I) | A key that exists is not refreshed by the gift. |
| FeesAreInTable (I) | The event of a fee that is projected before the fee account has its wallets changes no row, and is gone. |
| FeeWalletFound (I) | trading-service polls for the fee account a while and then goes on without (fee-resolver.go:52-72). |

Market, `Market.cfg` with `MarketProps`, replaced:

| Property | What happens |
|---|---|
| TwoFeedsWhole (I) | Some pairs are fed by Bybit and by the forex poller: one flushes and resets the candle while the other adds to it. |
| CopyIsCurrent (I) | Rows are cached for 30 s, and a reader may store them after a later flush. |
| BackfillStays (P) | A flush writes its candle, which saw a part of an interval, over the exchange's. |
| VolumeIsTraded (I) | Volume is a difference of a turnover over 24 hours, which also falls. |

Hub, `Hub.cfg` with `HubProps`, replaced:

| Property | What happens |
|---|---|
| SlowIsDropped (P) | Telling `Run` to drop a client with a full buffer is a send with a `default`: whenever `Run` is not just receiving, the client stays and misses messages (hub.go:186). |
| InOrderAtHome (I) | A broadcast whose publication was answered with an error is delivered here as well and may come twice. |

Two further observations need no trace. `liquidation-engine.go:107-264` (margin calls)
never sees an open position: `FindAllOpen` does not select `status`, which it
tests. `FeeTierService.Rates` has no caller, so five minutes after a refresh
trading-service is back at its default rate.

## 8. Not modelled

Amounts are whole numbers: float64 arithmetic and the rounding of decimal columns are
left out. Each module has one pair or currency relation at a time; pairs share only
wallets, whose other users appear as `OtherDebit`. By component:

* **trading-service**: the trades table and WebSocket messages. `SettleTail` is one step for the fee's
  credit and the two unlocks (matching-engine.go:182-200): all three run under the pair's mutex, their
  errors are ignored, and no property looks between them. After a restart Kafka may give `order.updated` again, which the
  projector applies as if it were new; that is left out of Trading, and what is claimed there of rows
  (`RowsFollowBook`, `RestingIsBacked`) is claimed without faults.
* **futures-service**: `checkAccountMargin` (see above), the mark_price column, the
  cached funding rate.
* **wallet-service**: fees and limits on amounts (Access has where limits come from).
* **Redis**: a command runs at most once. The clients leave go-redis' default `MaxRetries`, so a
  command whose answer was lost can be sent, and run, a second time: an entry or a message could then appear
  twice. What is said of "once" over Redis (EventBus, `VolumeCounted`, `UsersAnnouncedOnce`, `InOrder`) and of the effect of a Lua
  script, a credit for one, assumes it is not. In the same way a write of kafka-go that repeats
  itself is modelled as Kafka's duplicates in EventBus and Delivery, not in Wallet and Futures.
* **Event bus**: Kafka's rebalances and partitions: topics are created with one
  partition, and a group has one worker.
* **auth-service**: the counter of wrong codes of a challenge, failed sign-ins by
  address (`FailureBurstFromIP`), pruning of audit rows, the administrators' lists. Codes, hashes
  and tokens are right or wrong. Instances stop together in Onboarding. Bonuses have no
  caller: nothing grants, wagers or expires one.
* **Gateway**: proxying, CORS, the WebSocket ticket. A signature is right and an
  address allowed; the middleware `APIKeyAuth` of the shared package is mounted nowhere.
* **market-service**: a message of Bybit always carries `turnover24h`; one without it would be read as 0
  (price-feed.go:421-447), and the next one would count the turnover of a whole day. The dong's rate, the index price and the lists of coins, which are
  single values with one writer. Order book depth and recent trades are never written to Redis.
* **Mail, SMS, Google's keys, web application firewall**: input, output and pattern matching on
  one request. **Configuration, tracing, metrics, generated code**: no state of their own.
