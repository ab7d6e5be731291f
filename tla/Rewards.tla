------------------------------- MODULE Rewards -------------------------------
(***************************************************************************)
(* What auth-service does with each trade.executed event: it counts trades *)
(* between two users, flags users of one address, adds to the taker's      *)
(* volume and refreshes the cached fee tier in a goroutine, and pays the   *)
(* taker's referrer; and with user.registered, which binds the referrer.   *)
(* Events arrive as Delivery allows; a stop falls between any two steps.   *)
(***************************************************************************)
EXTENDS Integers, Sequences, FiniteSets, FiniteSetsExt

CONSTANTS
    User,
    Worker,      \* loops of the consumer group, one per instance of the service
    Thresholds,  \* volumes at which the next fee tier begins
    Scene        \* situations: [mode, workers, faults, limit, trades, bound, coded], the
                 \* bus, the loops, what may fail and how often in all, the trades, who is
                 \* bound, whose event has a code

None == -1
TradeEvent == [order : Nat, taker : User, maker : User \cup {None}, fee : Nat, total : Nat]
ASSUME RewardsAssumption ==
    /\ Thresholds \subseteq Nat \ {0} /\ IsFiniteSet(Thresholds) /\ IsFiniteSet(Worker)
    /\ \A s \in Scene : /\ s.mode \in {"once", "gapless"} /\ s.workers \subseteq Worker
                         /\ s.trades \in Seq(TradeEvent)

Detector == "auth-detector"
NoJob == [pc |-> "idle", at |-> 0, found |-> FALSE]

VARIABLES
    scene, stops,
    mode, sent, given, calls,  \* the topic trade.executed, as in Delivery
    next,       \* the event the group is given next
    task,       \* [Worker -> the handler's place, its event, what its last query found]
    pairs,      \* [event's two users -> trades counted], None: no row
    flags,      \* rows MULTI_ACCOUNT in fraud_logs
    volume,     \* user_volume30ds
    refreshing, \* goroutines of refreshUserCache: [id, user, pc, tier]
    cache,      \* Redis fee_tier:*: [User -> [maker, taker]], None: no key
    commission, \* referral_commissions: [order -> fee of its row], None: no row
    credits,    \* history: payments to referrers, [order, user, fee]
    announced,  \* balance.changed events about them
    bound,      \* referrals: users that have a referrer
    usage,      \* usage_count of the referrer's code
    binding,    \* [User -> place of the handler of user.registered]
    codes,      \* default codes of the referrer
    asking      \* requests for the code that found none

bus == <<mode, sent, given, calls>>
fraud == <<pairs, flags>>
tiers == <<volume, refreshing, cache>>
payout == <<commission, credits, announced>>
referral == <<bound, usage, binding, codes, asking>>
rewardsVars == <<scene, stops, bus, next, task, fraud, tiers, payout, referral>>

Bus == INSTANCE Delivery WITH Group <- {Detector}

May(f) == f \in scene.faults /\ stops < scene.limit
Happened == stops' = stops + 1
Trade(w) == scene.trades[task[w].at]
Stands(w, label) == w \in scene.workers /\ task[w].pc = label
Move(w, label) == task' = [task EXCEPT ![w].pc = label]
Finding(w, label, found) == task' = [task EXCEPT ![w].pc = label, ![w].found = found]

TierOf(v) == Cardinality({t \in Thresholds : t <= v})

(* The matching engine publishes a trade. *)
Publish ==
    /\ sent < Len(scene.trades) /\ sent' = sent + 1
    /\ UNCHANGED <<scene, stops, mode, given, calls, next, task, fraud, tiers, payout, referral>>

(* A loop calls the handler. *)
Receive(w) ==
    /\ Stands(w, "idle") /\ next <= sent /\ Bus!Give(Detector, next)
    /\ next' = next + 1
    /\ task' = [task EXCEPT ![w] = [pc |-> IF scene.trades[next].maker = None THEN "volume" ELSE "look",
                                  at |-> next, found |-> FALSE]]
    /\ UNCHANGED <<scene, stops, fraud, tiers, payout, referral>>

-----------------------------------------------------------------------------
(* OnTradeExecuted: the counter of the two users, whose row is looked up   *)
(* and then created (a second one is rejected) or raised in place.         *)
FindPair(w) ==
    /\ Stands(w, "look") /\ Finding(w, "count", pairs # None)
    /\ UNCHANGED <<scene, stops, bus, next, fraud, tiers, payout, referral>>
CountTrade(w) ==
    /\ Stands(w, "count") /\ Move(w, "address")
    /\ pairs' = IF task[w].found THEN pairs + 1 ELSE IF pairs = None THEN 1 ELSE pairs
    /\ UNCHANGED <<scene, stops, bus, next, flags, tiers, payout, referral>>

(* checkSameIP: one row for the two users, unless there is one. *)
FindFlag(w) ==
    /\ Stands(w, "address") /\ Move(w, IF scene.sameIP /\ flags = 0 THEN "flag" ELSE "volume")
    /\ UNCHANGED <<scene, stops, bus, next, fraud, tiers, payout, referral>>
Flag(w) ==
    /\ Stands(w, "flag") /\ flags' = flags + 1 /\ Move(w, "volume")
    /\ UNCHANGED <<scene, stops, bus, next, pairs, tiers, payout, referral>>

(* AddVolume: added in one statement, whose error is ignored; a goroutine  *)
(* refreshes the cache.                                                    *)
StartRefresh(u) == refreshing' = refreshing \cup
    {[id |-> calls[Detector], user |-> u, pc |-> "tier", tier |-> 0]}
SaveVolume(w) ==   \* mutant: the row is overwritten
    /\ Stands(w, "volume") /\ Move(w, "find")
    /\ volume' = [volume EXCEPT ![Trade(w).taker] = Trade(w).total]
    /\ StartRefresh(Trade(w).taker)
    /\ UNCHANGED <<scene, stops, bus, next, fraud, cache, payout, referral>>
AddVolume(w) ==
    /\ Stands(w, "volume") /\ Move(w, "find")
    /\ \/ /\ volume' = [volume EXCEPT ![Trade(w).taker] = @ + Trade(w).total]
          /\ StartRefresh(Trade(w).taker) /\ UNCHANGED stops
       \/ May("error") /\ Happened /\ UNCHANGED <<volume, refreshing>>
    /\ UNCHANGED <<scene, bus, next, fraud, cache, payout, referral>>

(* OnTradeFee: the commission is looked up under the taker's order, which  *)
(* stands for the trade; a new row is created if there is none.            *)
FindAlways(w) ==   \* mutant: no look-up, the unique index must do
    /\ Stands(w, "find")
    /\ Move(w, IF Trade(w).fee > 0 /\ Trade(w).taker \in bound THEN "create" ELSE "idle")
    /\ UNCHANGED <<scene, stops, bus, next, fraud, tiers, payout, referral>>
FindCommission(w) ==
    /\ Stands(w, "find")
    /\ Move(w, IF /\ Trade(w).fee > 0 /\ Trade(w).taker \in bound
                  /\ commission[Trade(w).order] = None
               THEN "create" ELSE "idle")
    /\ UNCHANGED <<scene, stops, bus, next, fraud, tiers, payout, referral>>

(* CreateCommission is FirstOrCreate: no error when the row exists. *)
CreateCommission(w) ==
    /\ Stands(w, "create")
    /\ \/ /\ commission' = [commission EXCEPT ![Trade(w).order] = IF @ = None THEN Trade(w).fee ELSE @]
          /\ Move(w, "pay") /\ UNCHANGED stops
       \/ May("error") /\ Happened /\ Move(w, "idle") /\ UNCHANGED commission
    /\ UNCHANGED <<scene, bus, next, fraud, tiers, credits, announced, referral>>

(* Credit: the wallet announces what it credits itself.  A call that fails *)
(* or times out is not repeated.                                           *)
Credited(w) ==
    /\ credits' = Append(credits, [order |-> Trade(w).order, fee |-> Trade(w).fee])
    /\ announced' = announced + 1
Pay(w) ==
    /\ Stands(w, "pay")
    /\ \/ Credited(w) /\ Move(w, "announce") /\ UNCHANGED stops
       \/ Credited(w) /\ Move(w, "idle") /\ May("timeout") /\ Happened
       \/ UNCHANGED <<credits, announced>> /\ Move(w, "idle") /\ May("error") /\ Happened
    /\ UNCHANGED <<scene, bus, next, fraud, tiers, commission, referral>>
Announce(w) ==
    /\ Stands(w, "announce") /\ announced' = announced + 1 /\ Move(w, "idle")
    /\ UNCHANGED <<scene, stops, bus, next, fraud, tiers, commission, credits, referral>>

-----------------------------------------------------------------------------
(* refreshUserCache: the tier of the volume as it is now, then two keys. *)
Instead(r, s) == refreshing' = (refreshing \ {r}) \cup s
MyTier(r) ==
    /\ r.pc = "tier"
    /\ Instead(r, {[r EXCEPT !.pc = "maker", !.tier = TierOf(volume[r.user])]})
    /\ UNCHANGED <<scene, stops, bus, next, task, fraud, volume, cache, payout, referral>>
SetMaker(r) ==
    /\ r.pc = "maker" /\ Instead(r, {[r EXCEPT !.pc = "taker"]})
    /\ cache' = [cache EXCEPT ![r.user].maker = r.tier]
    /\ UNCHANGED <<scene, stops, bus, next, task, fraud, volume, payout, referral>>
SetTaker(r) ==
    /\ r.pc = "taker" /\ Instead(r, {})
    /\ cache' = [cache EXCEPT ![r.user].taker = r.tier]
    /\ UNCHANGED <<scene, stops, bus, next, task, fraud, volume, payout, referral>>

(* The keys live five minutes. *)
ExpireMaker(u) ==   \* mutant: one key is set without an expiry
    /\ cache[u].maker # None /\ cache' = [cache EXCEPT ![u].maker = None]
    /\ UNCHANGED <<scene, stops, bus, next, task, fraud, volume, refreshing, payout, referral>>
Expire(u) ==
    /\ cache[u] # [maker |-> None, taker |-> None]
    /\ \/ cache' = [cache EXCEPT ![u].maker = None]
       \/ cache' = [cache EXCEPT ![u].taker = None]
    /\ UNCHANGED <<scene, stops, bus, next, task, fraud, volume, refreshing, payout, referral>>

-----------------------------------------------------------------------------
(* BindOnRegister: the referral, unless there is one, then the counter. *)
Bind(u) ==
    /\ binding[u] = "sent"
    /\ IF u \in bound THEN binding' = [binding EXCEPT ![u] = "done"] /\ UNCHANGED bound
       ELSE bound' = bound \cup {u} /\ binding' = [binding EXCEPT ![u] = "usage"]
    /\ UNCHANGED <<scene, stops, bus, next, task, fraud, tiers, payout, usage, codes, asking>>
IncrementUsage(u) ==
    /\ binding[u] = "usage" /\ binding' = [binding EXCEPT ![u] = "done"] /\ usage' = usage + 1
    /\ UNCHANGED <<scene, stops, bus, next, task, fraud, tiers, payout, bound, codes, asking>>

(* EnsureDefaultCode: a request looks for the code, then creates one. *)
FindDefaultCode ==
    /\ "codes" \in scene.faults /\ codes = 0 /\ asking < 2 /\ asking' = asking + 1
    /\ UNCHANGED <<scene, stops, bus, next, task, fraud, tiers, payout, bound, usage, binding, codes>>
CreateCode ==
    /\ asking > 0 /\ asking' = asking - 1 /\ codes' = codes + 1
    /\ UNCHANGED <<scene, stops, bus, next, task, fraud, tiers, payout, bound, usage, binding>>

(* The service stops: Kafka gives again what was not committed, the event  *)
(* at hand and perhaps some before it; goroutines are lost.                *)
Stop ==
    /\ May("stop") /\ Happened
    /\ task' = [w \in Worker |-> NoJob] /\ refreshing' = {} /\ asking' = 0
    /\ IF mode = "once"
       THEN /\ binding' = [u \in User |-> IF binding[u] = "usage" THEN "done" ELSE binding[u]]
            /\ UNCHANGED next
       ELSE /\ binding' = [u \in User |-> IF binding[u] = "usage" THEN "sent" ELSE binding[u]]
            /\ \E k \in 1..next : /\ \A w \in scene.workers : ~Stands(w, "idle") => k <= task[w].at
                                  /\ next' = k
    /\ UNCHANGED <<scene, bus, fraud, volume, cache, payout, bound, usage, codes>>

Orders == {scene.trades[k].order : k \in DOMAIN scene.trades}
RewardsInit ==
    /\ scene \in Scene /\ stops = 0
    /\ mode = scene.mode /\ sent = 0 /\ next = 1
    /\ given = [g \in {Detector} |-> {}] /\ calls = [g \in {Detector} |-> 0]
    /\ task = [w \in Worker |-> NoJob]
    /\ pairs = None /\ flags = 0
    /\ volume = [u \in User |-> 0] /\ refreshing = {}
    /\ cache = [u \in User |-> [maker |-> None, taker |-> None]]
    /\ commission = [o \in Orders |-> None] /\ credits = <<>> /\ announced = 0
    /\ bound = scene.bound /\ usage = Cardinality(scene.bound)
    /\ binding = [u \in User |-> IF u \in scene.coded THEN "sent" ELSE "done"]
    /\ codes = 0 /\ asking = 0

HandleTrade(w) ==
    \/ FindPair(w) \/ CountTrade(w) \/ FindFlag(w) \/ Flag(w) \/ AddVolume(w)
    \/ FindCommission(w) \/ CreateCommission(w) \/ Pay(w) \/ Announce(w)
Refresh == \E r \in refreshing : MyTier(r) \/ SetMaker(r) \/ SetTaker(r)
Register(u) == Bind(u) \/ IncrementUsage(u)
Work ==
    \/ Publish \/ Refresh \/ FindDefaultCode \/ CreateCode
    \/ \E w \in Worker : Receive(w) \/ HandleTrade(w)
    \/ \E u \in User : Expire(u) \/ Register(u)
RewardsNext == Work \/ Stop

(* A handler and a goroutine go on, and a key that is not set again        *)
(* expires.                                                                *)
Fairness == /\ \A w \in Worker : WF_rewardsVars(Receive(w) \/ HandleTrade(w))
            /\ WF_rewardsVars(Refresh)
            /\ \A u \in User : WF_rewardsVars(Expire(u)) /\ WF_rewardsVars(Register(u))
RewardsSpec == RewardsInit /\ [][RewardsNext]_rewardsVars /\ Fairness
=============================================================================
