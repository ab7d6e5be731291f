----------------------------- MODULE Onboarding -----------------------------
(***************************************************************************)
(* How an account gets its wallets.  auth-service creates the row of a     *)
(* user, at start those of the fee wallet and the demo accounts, and then  *)
(* publishes user.registered; wallet-service creates the wallets, with a   *)
(* gift, from that event, and for a bank transfer of which it is told; the *)
(* matching engine credits fees to the account whose ID auth-service left  *)
(* in Redis.  Rewards follows the same event to the user's referrer.       *)
(***************************************************************************)
EXTENDS Rewards

CONSTANTS
    Instance,  \* instances of auth-service
    System,    \* the user that collects fees
    Seeds,     \* the users SeedAdmin creates, in this order
    Gift,      \* [User -> USDT of the first wallets]
    MaxPolls   \* how often a starting matching engine looks for the key

ASSUME OnboardingAssumption ==
    System \in User /\ Seeds \in Seq(User) \ {<<>>} /\ Gift \in [User -> Nat] /\ MaxPolls \in Nat

VARIABLES
    rows,        \* users that have a row
    boot,        \* [Instance -> [pc, todo]]: place, users to create
    registered,  \* the topic user.registered
    prov,        \* [pc, at, next]: the loop wallet-user-projector
    usdt,        \* wallets: [User -> balance in USDT], None: no row
    coins,       \* wallets: users that have the rows of the other currencies
    bal,         \* Redis bal:*:USDT, None: no key
    deposit,     \* [User -> place of its deposit], one of 1 USDT
    feeKey,      \* Redis system:fee_wallet_id
    feeID,       \* platformFeeUserID
    polls,       \* how often it was looked for
    charged,     \* trades that paid a fee of 1
    owed,        \* their balance.changed events
    projected    \* history: those that changed a row

auth == <<rows, boot, registered, feeKey>>
wallets == <<prov, usdt, coins, bal, deposit>>
fees == <<feeID, polls, charged, owed, projected>>
all == <<rewardsVars, auth, wallets, fees>>

Is(p, label) == p \in scene.instances /\ boot[p].pc = label
Go(p, label, todo) == boot' = [boot EXCEPT ![p] = [pc |-> label, todo |-> todo]]

-----------------------------------------------------------------------------
(* auth-service *)

(* EnsureFeeWallet looks for the row; a second start finds it. *)
EnsureFeeWallet(p) ==
    /\ Is(p, "start")
    /\ IF System \in rows THEN Go(p, "key", <<>>) ELSE Go(p, "create", <<System>>)
    /\ UNCHANGED <<rewardsVars, rows, registered, feeKey, wallets, fees>>

(* SeedAdmin: unless there are users other than the fee wallet. *)
SeedAdmin(p) ==
    /\ Is(p, "seed")
    /\ IF scene.demo /\ rows \subseteq {System} THEN Go(p, "create", Seeds) ELSE Go(p, "serve", <<>>)
    /\ UNCHANGED <<rewardsVars, rows, registered, feeKey, wallets, fees>>

(* Register, or a first sign-in with Google: the address is not taken. *)
SignUp(p, u) ==
    /\ Is(p, "serve") /\ u \in scene.joining \ rows /\ Go(p, "create", <<u>>)
    /\ UNCHANGED <<rewardsVars, rows, registered, feeKey, wallets, fees>>

(* Create: the address is unique.  What was not created is not announced.  *)
After(p) == IF Len(boot[p].todo) > 1 THEN Go(p, "create", Tail(boot[p].todo)) ELSE Go(p, "serve", <<>>)
CreateOrNot(p) ==   \* mutant: announced whether it was created or not
    /\ Is(p, "create") /\ rows' = rows \cup {Head(boot[p].todo)}
    /\ Go(p, "announce", boot[p].todo)
    /\ UNCHANGED <<rewardsVars, registered, feeKey, wallets, fees>>
CreateUser(p) ==
    /\ Is(p, "create")
    /\ LET user == Head(boot[p].todo) IN
       IF user \notin rows THEN rows' = rows \cup {user} /\ Go(p, "announce", boot[p].todo)
       ELSE UNCHANGED rows /\ IF user = System THEN Go(p, "seed", <<>>) ELSE After(p)
    /\ UNCHANGED <<rewardsVars, registered, feeKey, wallets, fees>>

(* Publish: an error is ignored; Kafka may write twice when an answer is   *)
(* lost.  The event also has the code of the referrer.                     *)
AnnounceUser(p) ==
    /\ Is(p, "announce")
    /\ LET user == Head(boot[p].todo) IN
       /\ IF user = System THEN Go(p, "key", <<>>) ELSE After(p)
       /\ \/ /\ \/ registered' = Append(registered, user) /\ UNCHANGED stops
                \/ /\ mode = "gapless" /\ May("answer") /\ Happened
                   /\ registered' = registered \o <<user, user>>
             /\ binding' = IF user \in scene.invited THEN [binding EXCEPT ![user] = "sent"] ELSE binding
          \/ May("publish") /\ Happened /\ UNCHANGED <<registered, binding>>
    /\ UNCHANGED <<scene, bus, next, task, fraud, tiers, payout, bound, usage, codes, asking>>
    /\ UNCHANGED <<rows, feeKey, wallets, fees>>
SetKey(p) ==
    /\ Is(p, "key") /\ feeKey' = System /\ Go(p, "seed", <<>>)
    /\ UNCHANGED <<rewardsVars, rows, registered, wallets, fees>>

(* It stops, with all that Rewards does, and starts again. *)
AuthStops ==
    /\ Stop /\ boot' = [p \in Instance |-> [pc |-> "start", todo |-> <<>>]]
    /\ UNCHANGED <<rows, registered, feeKey, wallets, fees>>

-----------------------------------------------------------------------------
(* wallet-service *)

Newcomer == registered[prov.at]

(* The loop calls the handler, which counts the user's wallets. *)
Deliver ==
    /\ prov.pc = "idle" /\ prov.next <= Len(registered)
    /\ prov' = [pc |-> "count", at |-> prov.next, next |-> prov.next + 1]
    /\ UNCHANGED <<rewardsVars, auth, usdt, coins, bal, deposit, fees>>
CountWallets ==
    /\ prov.pc = "count"
    /\ prov' = [prov EXCEPT !.pc = IF usdt[Newcomer] = None THEN "create" ELSE "idle"]
    /\ UNCHANGED <<rewardsVars, auth, usdt, coins, bal, deposit, fees>>

(* CreateInBatches: all of them in one transaction, which fails if there   *)
(* is one of the same user and currency.  An event whose handler failed is *)
(* not given again while the service runs.                                 *)
CreateOneByOne ==   \* mutant: no transaction
    /\ prov.pc = "create" /\ prov' = [prov EXCEPT !.pc = "idle"]
    /\ \/ usdt[Newcomer] = None /\ usdt' = [usdt EXCEPT ![Newcomer] = Gift[Newcomer]]
          /\ \/ coins' = coins \cup {Newcomer} /\ UNCHANGED stops
             \/ May("error") /\ Happened /\ UNCHANGED coins
       \/ UNCHANGED <<usdt, coins, stops>>
    /\ UNCHANGED <<scene, bus, next, task, fraud, tiers, payout, referral, auth, bal, deposit, fees>>
CreateInBatches ==
    /\ prov.pc = "create" /\ prov' = [prov EXCEPT !.pc = "idle"]
    /\ \/ /\ IF usdt[Newcomer] = None
             THEN usdt' = [usdt EXCEPT ![Newcomer] = Gift[Newcomer]] /\ coins' = coins \cup {Newcomer}
             ELSE UNCHANGED <<usdt, coins>>
          /\ UNCHANGED stops
       \/ May("error") /\ Happened /\ UNCHANGED <<usdt, coins>>
    /\ UNCHANGED <<scene, bus, next, task, fraud, tiers, payout, referral, auth, bal, deposit, fees>>

(* ConfirmDeposit: Upsert updates the row or, when there was none, inserts *)
(* one, which fails if there is one now: the transaction is undone.        *)
UpsertUpdate(u) ==
    /\ deposit[u] = "pending" /\ u \in rows
    /\ IF usdt[u] = None THEN deposit' = [deposit EXCEPT ![u] = "insert"] /\ UNCHANGED usdt
       ELSE usdt' = [usdt EXCEPT ![u] = @ + 1] /\ deposit' = [deposit EXCEPT ![u] = "credit"]
    /\ UNCHANGED <<rewardsVars, auth, prov, coins, bal, fees>>
UpsertInsert(u) ==
    /\ deposit[u] = "insert"
    /\ IF usdt[u] = None
       THEN usdt' = [usdt EXCEPT ![u] = 1] /\ deposit' = [deposit EXCEPT ![u] = "credit"]
       ELSE UNCHANGED usdt /\ deposit' = [deposit EXCEPT ![u] = "pending"]
    /\ UNCHANGED <<rewardsVars, auth, prov, coins, bal, fees>>

(* BalanceCredit starts from nothing when there is no key. *)
CreditKey(u) == bal' = [bal EXCEPT ![u] = IF @ = None THEN 1 ELSE @ + 1]
CreditDeposit(u) ==
    /\ deposit[u] = "credit" /\ CreditKey(u) /\ deposit' = [deposit EXCEPT ![u] = "done"]
    /\ UNCHANGED <<rewardsVars, auth, prov, usdt, coins, fees>>

(* EnsureBalanceCached, by any request, and the start of the service. *)
EnsureBalanceCached(u) ==
    /\ u \in scene.active /\ bal[u] = None /\ usdt[u] # None /\ bal' = [bal EXCEPT ![u] = usdt[u]]
    /\ UNCHANGED <<rewardsVars, auth, prov, usdt, coins, deposit, fees>>

(* Where the loop resumes: Kafka gives again what was not committed. *)
ResumeNext(k) == k = prov.next   \* mutant: committed before it is handled
Resume(k) == IF mode = "once" THEN k = prov.next
             ELSE k \in 1..prov.next /\ (prov.pc # "idle" => k <= prov.at)
WalletStops ==
    /\ May("stop") /\ Happened
    /\ \E k \in 1..prov.next : Resume(k) /\ prov' = [pc |-> "idle", at |-> 0, next |-> k]
    /\ deposit' = [u \in User |-> CASE deposit[u] = "insert" -> "pending"
                                    [] deposit[u] = "credit" -> "done"
                                    [] OTHER -> deposit[u]]
    /\ UNCHANGED <<scene, bus, next, task, fraud, tiers, payout, referral, auth, usdt, coins, bal, fees>>

-----------------------------------------------------------------------------
(* The matching engine *)

(* ResolveFeeWalletID looks for the key a while, and then never again. *)
Poll ==
    /\ scene.fees > 0 /\ feeID = None /\ polls < MaxPolls
    /\ polls' = polls + 1 /\ feeID' = feeKey
    /\ UNCHANGED <<rewardsVars, auth, wallets, charged, owed, projected>>

(* A settled trade credits its fee, if the account is known. *)
ChargeFee ==
    /\ charged < scene.fees /\ charged' = charged + 1
    /\ IF feeID = None THEN UNCHANGED <<bal, owed>> ELSE CreditKey(feeID) /\ owed' = owed + 1
    /\ UNCHANGED <<rewardsVars, auth, prov, usdt, coins, deposit, feeID, polls, projected>>

(* The balance projector: an UPDATE, of no row if there is none. *)
ProjectFee ==
    /\ owed > 0 /\ owed' = owed - 1
    /\ IF usdt[System] = None THEN UNCHANGED <<usdt, projected>>
       ELSE usdt' = [usdt EXCEPT ![System] = @ + 1] /\ projected' = projected + 1
    /\ UNCHANGED <<rewardsVars, auth, prov, coins, bal, deposit, feeID, polls, charged>>
TradingStops ==
    /\ scene.fees > 0 /\ May("stop") /\ Happened /\ feeID' = None /\ polls' = 0
    /\ UNCHANGED <<scene, bus, next, task, fraud, tiers, payout, referral, auth, wallets>>
    /\ UNCHANGED <<charged, owed, projected>>

-----------------------------------------------------------------------------
OnboardingInit ==
    /\ RewardsInit
    /\ rows = scene.present /\ boot = [p \in Instance |-> [pc |-> "start", todo |-> <<>>]]
    /\ registered = <<>> /\ feeKey = None
    /\ prov = [pc |-> "idle", at |-> 0, next |-> 1]
    /\ usdt = [u \in User |-> None] /\ coins = {} /\ bal = [u \in User |-> None]
    /\ deposit = [u \in User |-> IF u \in scene.depositing THEN "pending" ELSE "none"]
    /\ feeID = None /\ polls = 0 /\ charged = 0 /\ owed = 0 /\ projected = 0

Provision == Deliver \/ CountWallets \/ CreateInBatches
(* What a bank transfer does. *)
SepayCallback(u) == UpsertUpdate(u) \/ UpsertInsert(u) \/ CreditDeposit(u)
OnboardingNext ==
    \/ Work /\ UNCHANGED <<auth, wallets, fees>>
    \/ AuthStops \/ Provision \/ WalletStops
    \/ Poll \/ ChargeFee \/ ProjectFee \/ TradingStops
    \/ \E p \in Instance :
          \/ EnsureFeeWallet(p) \/ SeedAdmin(p) \/ CreateUser(p) \/ AnnounceUser(p) \/ SetKey(p)
          \/ \E u \in User : SignUp(p, u)
    \/ \E u \in User :
          SepayCallback(u) \/ EnsureBalanceCached(u)

(* Rewards' fairness, and the loop of wallet-service goes on. *)
OnboardingSpec == OnboardingInit /\ [][OnboardingNext]_all /\ Fairness /\ WF_all(Provision)
=============================================================================
