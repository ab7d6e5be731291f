---------------------------- MODULE WalletProps ----------------------------
(***************************************************************************)
(* What wallet-service promises about the balances: properties of Wallet.  *)
(***************************************************************************)
EXTENDS Wallet, Totals

-----------------------------------------------------------------------------
(* Types; no store ever holds a negative balance or a negative lock. *)

RowTypes ==
    /\ rate \in Rate
    /\ deposit \in [Deposit -> DepositRow]
    /\ withdrawal \in [Withdrawal -> WithdrawalRow]
    /\ hold \in [Hold -> Nat]

(* A request only ever carries a row of the kind its handler works on. *)
RequestTypes ==
    /\ req \in [Proc -> Request]
    /\ \A p \in Proc :
          /\ req[p].op = "lock" => req[p].ref \in Hold
          /\ req[p].pc \in {"capBal", "capLck", "dbLock", "rejectTx"} => req[p].ref \in Withdrawal
          /\ req[p].op \in {"cap", "withdraw"} => req[p].ref \in Withdrawal
          /\ req[p].pc = "confirmTx" => req[p].ref \in Deposit

StoreTypes ==
    /\ bal \in [Account -> Nat \cup {Absent}]
    /\ lck \in [Account -> Nat \cup {Absent}]
    /\ dbBal \in [Account -> Nat]
    /\ dbLck \in [Account -> Nat]

(* Locks and releases carry no negative amount. *)
Entry == {e \in Event : e.reason # "grpc" => e.delta \in Nat}
EventTypes ==
    /\ events \in Seq(Entry) /\ uncommitted \in Seq(Entry) /\ redo \in Seq(Entry)
    /\ again \in [Account -> Nat]

(* Types of all variables: Redis values are absent or at least zero (the   *)
(* Lua scripts), table values at least zero (the WHERE clauses and GREATEST*)
(* of the projector and of wallet-repo).                                   *)
TypeOK ==
    /\ StoreTypes
    /\ EventTypes
    /\ warm \in Warmer
    /\ RowTypes
    /\ RequestTypes
    /\ started \in Nat
    /\ restarts \in Nat
    /\ here \in Situation

-----------------------------------------------------------------------------
(* Who counts on locked funds of wallet a *)

HoldsOn(a) == [h \in Hold |-> IF HoldAcct[h] = a THEN hold[h] ELSE 0]

Live == {"PENDING", "APPROVED"}
Reserved(row, a) == IF row.acct = a /\ row.status \in Live THEN row.usdt ELSE 0
WithdrawalsOn(a) == [w \in Withdrawal |-> Reserved(withdrawal[w], a)]

(* Locks taken in Redis whose owner has not been told yet, and locks a     *)
(* request has been told to release but has not released in Redis yet.     *)
Locking(r) == \/ r.op = "lock" /\ r.pc = "publish"
              \/ r.op = "unlock" /\ r.pc = "script"
              \/ r.pc \in {"dbLock", "undo"}
InFlight(r, a) == IF r.acct = a /\ Locking(r) THEN r.amt ELSE 0
InFlightOn(a) == [p \in Proc |-> InFlight(req[p], a)]

LocksCover ==
    \A a \in Account :
       Total(HoldsOn(a)) + Total(WithdrawalsOn(a)) + Total(InFlightOn(a)) <= Num(lck[a])

(* As long as Redis answers and keeps its data, the lock of a wallet there *)
(* covers everything that counts on it: the open orders and positions, the *)
(* withdrawals waiting or approved, and the requests in between, whatever  *)
(* else fails or is lost after the Lua scripts ran.                        *)
RedisHolds == here.warm /\ "get" \notin Faults /\ "flush" \notin Faults
LockedCoversClaims == RedisHolds => LocksCover

(* The same on the side of the table, counting what the projector has      *)
(* still to apply: releases eat into the locks of someone else by no more  *)
(* than was released again after a restart.                                *)
Pending(a, reason) == Total([i \in DOMAIN events |->
    IF events[i].acct = a /\ events[i].reason = reason THEN events[i].delta ELSE 0])
ReleasingOn(a) == [p \in Proc |->
    IF req[p].acct = a /\ req[p].op = "unlock" THEN req[p].amt ELSE 0]
TableLocksCoverClaims ==
    \A a \in Account :
       Total(HoldsOn(a)) + Total(WithdrawalsOn(a)) + Total(ReleasingOn(a)) + Pending(a, "unlock")
         <= dbLck[a] + Pending(a, "lock") + again[a]

-----------------------------------------------------------------------------
(* Redis against the table *)

OneByOne == Cardinality(here.procs) = 1
Orderly == OneByOne /\ Faults = {}
RateStays == \A x, y \in here.rates : x = y
Quiescent == events = <<>> /\ redo = <<>> /\ warm.pc = "off" /\ \A p \in Proc : req[p].pc = "idle"

(* One request after another: with nothing in flight, a cached balance is  *)
(* the balance of the row, and so is its lock unless a withdrawal was      *)
(* rejected: the projection lost, repeated and misread nothing.  Deposits  *)
(* only where the keys exist: confirming one does not load them first.     *)
DepositsWarm == here.warm \/ here.deposits = {}
CachedAgree(a) ==
    /\ bal[a] = dbBal[a]
    /\ (\A w \in Withdrawal : withdrawal[w].acct = a => withdrawal[w].status # "REJECTED")
          => Num(lck[a]) = dbLck[a]
QuiescentAgreement ==
    Orderly /\ DepositsWarm /\ Quiescent => \A a \in Account : bal[a] # Absent => CachedAgree(a)

(* Requests that overtake each other between their script and their event  *)
(* can make the projector skip a deduction, never invent one: the table    *)
(* may end up above Redis, not below, if no request had to load the keys.  *)
TableNeverBehind ==
    Quiescent => \A a \in Account : Num(bal[a]) <= dbBal[a]

(* Where the keys exist, every accepted change of a balance reaches the    *)
(* table, and the two stores stay equal once requests stop.                *)
StoresAgree == \A a \in Account : bal[a] = dbBal[a]
EventuallyConsistent == <>[](Orderly /\ here.warm => StoresAgree)

(* The end of a warm-up that ran with no request and no event in flight    *)
(* leaves Redis equal to the table ("a missed event will be reconciled at  *)
(* next cold-start sync").                                                 *)
ColdStartReconciles ==
    [][warm.pc # "off" /\ warm'.pc = "off" /\ Quiescent'
         => \A a \in Account : bal'[a] = dbBal'[a]]_vars

(* The warm-up writes Redis only where no value is cached (WarmIfMissing). *)
WarmOnlyWhenMissing ==
    [][\A a \in Account :
         (warm.pc = "setBal" /\ warm'.pc # "setBal" /\ bal'[a] # bal[a]) => bal[a] = Absent]_vars

-----------------------------------------------------------------------------
(* Deposits and withdrawals *)

(* A deposit reaches the wallets row when it is confirmed and never again. *)
DepositCreditedOnce ==
    \A d \in Deposit : /\ deposit[d].credits <= 1
                       /\ deposit[d].status = "CONFIRMED" <=> deposit[d].credits = 1

(* The table errs on the safe side: events that overtake each other leave *)
(* it above Redis, never below; its locks cover orders, withdrawals and    *)
(* what the projector has still to release, whatever else fails as long as *)
(* events arrive and the rate stays; and a deposit reaches it once, also   *)
(* beside failures and a restart.                                          *)
TableIsSafe ==
    /\ Faults = {} /\ here.warm => TableNeverBehind
    /\ OneByOne /\ RateStays /\ Faults \cap {"publish", "projector"} = {} => TableLocksCoverClaims
    /\ OneByOne => DepositCreditedOnce

(* A decided deposit or withdrawal stays as it was decided. *)
Decided(s) == s \in {"CONFIRMED", "FAILED", "APPROVED", "REJECTED"}
DecisionsAreFinal ==
    [][/\ \A d \in Deposit : Decided(deposit[d].status) => deposit'[d].status = deposit[d].status
       /\ \A w \in Withdrawal :
             Decided(withdrawal[w].status) => withdrawal'[w].status = withdrawal[w].status]_vars

(* Rejecting a withdrawal refunds the locked balance: with nothing in      *)
(* flight and no order or withdrawal left, no funds stay locked.           *)
RejectionRefunds ==
    (/\ Quiescent
     /\ \A h \in Hold : hold[h] = 0
     /\ \A w \in Withdrawal : withdrawal[w].status \in {"NONE", "REJECTED"})
       => \A a \in Account : Num(lck[a]) = 0

(* A balance in Redis is never more than the row's with what the projector *)
(* has still to apply: refuted where two requests find no key, one loads   *)
(* it and deducts, and the other writes what it had read before.           *)
DeductionsStay == Faults = {} => TableNeverBehind

(* The locks of the table cover what counts on them, restarts or not:      *)
(* refuted where Kafka gives a release again after a restart, and the      *)
(* projector releases a second time what another claim has locked.         *)
TableKeepsLocks ==
    \A a \in Account :
       Total(HoldsOn(a)) + Total(WithdrawalsOn(a)) + Total(ReleasingOn(a)) + Pending(a, "unlock")
         <= dbLck[a] + Pending(a, "lock")

(* Orderly requests leave the stores equal: refuted where a deposit is     *)
(* confirmed with no key there, whose balance is then the deposit alone.   *)
CachedIsWhole == Orderly /\ Quiescent => \A a \in Account : bal[a] # Absent => bal[a] = dbBal[a]

(* A withdrawal never reaches into the active bonus: the lock it takes     *)
(* leaves at least the bonus available.                                    *)
WithdrawalLeavesBonus ==
    [][\A p \in Proc :
         (/\ req[p].op = "withdraw" /\ req[p].pc = "script" /\ req'[p].pc = "dbLock")
            => LET a == req[p].acct IN
               Bonus > 0 => Num(bal'[a]) - Num(lck'[a]) >= Bonus]_vars
=============================================================================
