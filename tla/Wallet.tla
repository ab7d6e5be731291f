------------------------------- MODULE Wallet -------------------------------
(***************************************************************************)
(* wallet-service: the balances of the exchange.                           *)
(*                                                                         *)
(* Every balance lives twice.  Redis holds the keys bal:<user>:<currency>  *)
(* and locked:<user>:<currency>, changed by Lua scripts on the request     *)
(* path; PostgreSQL holds the wallets table.  A Redis mutation is followed *)
(* by a balance.changed event, and the balance projector applies the event *)
(* to the table later.  Deposits and withdrawals write the table directly  *)
(* and Redis before or after it.                                           *)
(*                                                                         *)
(* A request is served by a goroutine, a member of Proc; each of its Redis *)
(* commands and each of its database transactions is one step, so that     *)
(* requests, the projector and the cold-start warm-up interleave between   *)
(* them.  The wallets rows exist from the start (provisioned at signup).   *)
(***************************************************************************)
EXTENDS Integers, Sequences, FiniteSets

CONSTANTS
    Account,      \* the wallets rows: one per (user, currency)
    Proc,         \* goroutines serving requests
    Hold,         \* orders and positions of other services that lock funds
    Deposit,      \* deposit rows
    Withdrawal,   \* withdrawal rows
    HoldAcct,     \* [Hold -> Account]: the wallet an order or position locks in
    Amount,       \* amounts a request may carry (USDT)
    Rate,         \* VND per USDT: the values the exchange rate takes
    InitBal,      \* balance every wallet is provisioned with
    Situation,    \* what a behaviour is about: [warm: the keys exist at the start; procs,
                  \* deposits, amounts, rates: which of them occur; faults: which of FaultKind
                  \* may happen; bonus: user_bonus_remaining, as auth-service wrote it (0: none);
                  \* requests, restarts: bounds on balance requests and on restarts;
                  \* uncommitted: bound on the entries read since the last commit]
    Absent,       \* a Redis key that does not exist
    None          \* no row attached to a request

(* "get"      a Redis GET fails                                            *)
(* "script"   a Lua script fails, before or after it ran, or a SET fails   *)
(* "publish"  an event is not accepted by the bus                          *)
(* "projector" the projector's UPDATE fails or the process dies around it; *)
(*            the entry stays pending and is never read again              *)
(* "db"       a SELECT or a transaction of the service fails               *)
(* "crash"    the service restarts                                         *)
(* "flush"    Redis comes back empty                                       *)
FaultKind == {"get", "script", "publish", "projector", "db", "crash", "flush"}

ASSUME AccountAssumption == Account # {} /\ HoldAcct \in [Hold -> Account]
ASSUME NumberAssumption ==
    /\ Amount \subseteq Nat \ {0}
    /\ Rate \subseteq Nat \ {0} /\ Rate # {}
    /\ InitBal \in Nat
ASSUME SituationAssumption ==
    \A s \in Situation :
       /\ s.warm \in BOOLEAN /\ s.faults \subseteq FaultKind
       /\ s.procs \subseteq Proc /\ s.deposits \subseteq Deposit
       /\ s.amounts \subseteq Amount /\ s.rates \subseteq Rate /\ s.rates # {}
       /\ s.bonus \in Nat /\ s.requests \in Nat /\ s.restarts \in Nat
       /\ s.uncommitted \in Nat
ASSUME FiniteAssumption == IsFiniteSet(Proc) /\ IsFiniteSet(Hold) /\ IsFiniteSet(Withdrawal)
ASSUME AbsentAssumption == Absent \notin Nat /\ None \notin Hold \cup Deposit \cup Withdrawal

VARIABLES
    bal,         \* Redis bal:<a>
    lck,         \* Redis locked:<a>
    dbBal,       \* wallets.balance
    dbLck,       \* wallets.locked_balance
    events,      \* balance.changed entries the projector has not read
    uncommitted, \* the entries it has read last, which a restart may give again
    redo,        \* the entries given again that it has still to read
    again,       \* what it released in the table a second time  (history)
    req,         \* [Proc -> Request]: what each goroutine is doing
    warm,        \* the cold-start warm-up goroutine
    rate,        \* cached VND rate
    deposit,     \* deposits table
    withdrawal,  \* withdrawals table
    hold,        \* what each order or position believes it has locked
    started,     \* balance requests begun so far (bounded by the situation)
    restarts,    \* restarts so far (bounded by the situation)
    here         \* the member of Situation this behaviour is in

redis == <<bal, lck>>
table == <<dbBal, dbLck>>
bus   == <<events, uncommitted, redo, again>>
money == <<bal, lck, dbBal, dbLck, bus>>
rows  == <<rate, deposit, withdrawal>>
count == <<started, restarts, here>>
vars  == <<money, req, warm, rows, hold, count>>

Faults == here.faults
Bonus == here.bonus

-----------------------------------------------------------------------------
(* Types *)

Label == {"idle", "get", "find", "setBal", "setLck", "capBal", "capLck",
          "script", "publish", "dbLock", "undo", "confirmTx", "credit", "rejectTx"}
Op == {"none", "check", "credit", "deduct", "lock", "unlock",
       "cap", "withdraw", "confirm", "reject"}

Request == [pc : Label, op : Op, acct : Account, amt : Nat,
            ref : Hold \cup Deposit \cup Withdrawal \cup {None}, vnd : Nat,
            snapBal : Nat, snapLck : Nat]
Event == [acct : Account, reason : {"lock", "unlock", "grpc"}, delta : Int]
(* credits and usdt are history: how often a deposit was added to the      *)
(* wallets row, and the USDT a withdrawal locked when it was created.      *)
DepositRow == [status : {"NONE", "PENDING", "CONFIRMED", "FAILED"},
               acct : Account, usdt : Nat, credits : Nat]
WithdrawalRow == [status : {"NONE", "PENDING", "APPROVED", "REJECTED"},
                  acct : Account, vnd : Nat, usdt : Nat]
Warmer == [pc : {"off", "rows", "getBal", "setBal", "getLck", "setLck"},
           todo : SUBSET Account, acct : Account,
           rowBal : [Account -> Nat], rowLck : [Account -> Nat]]

AnyAccount == CHOOSE a \in Account : TRUE
Idle == [pc |-> "idle", op |-> "none", acct |-> AnyAccount, amt |-> 0,
         ref |-> None, vnd |-> 0, snapBal |-> 0, snapLck |-> 0]
WarmOff == [pc |-> "off", todo |-> {}, acct |-> AnyAccount,
            rowBal |-> [a \in Account |-> 0], rowLck |-> [a \in Account |-> 0]]

-----------------------------------------------------------------------------
(* Redis values and the Lua scripts *)

Num(v) == IF v = Absent THEN 0 ELSE v          \* tonumber(GET key or '0')
Monus(x, y) == IF x > y THEN x - y ELSE 0

CanDeductCached(a, n) == bal[a] # Absent       \* mutant: the amount is not compared
CanDeduct(a, n) == bal[a] # Absent /\ bal[a] >= n
CanLock(a, n)   == Num(bal[a]) - Num(lck[a]) >= n

BalanceCredit(a, n) == bal' = [bal EXCEPT ![a] = Num(@) + n] /\ UNCHANGED lck
BalanceDeduct(a, n) == bal' = [bal EXCEPT ![a] = @ - n] /\ UNCHANGED lck
BalanceLock(a, n)   == lck' = [lck EXCEPT ![a] = Num(@) + n] /\ UNCHANGED bal
BalanceUnlock(a, n) == lck' = [lck EXCEPT ![a] = Monus(Num(@), n)] /\ UNCHANGED bal

(* What the script of a request does when it does not refuse. *)
RunScript(r) ==
    \/ r.op = "credit" /\ BalanceCredit(r.acct, r.amt)
    \/ r.op = "deduct" /\ CanDeduct(r.acct, r.amt) /\ BalanceDeduct(r.acct, r.amt)
    \/ r.op \in {"lock", "withdraw"} /\ CanLock(r.acct, r.amt) /\ BalanceLock(r.acct, r.amt)
    \/ r.op = "unlock" /\ BalanceUnlock(r.acct, r.amt)

Refused(r) ==
    \/ r.op = "deduct" /\ ~CanDeduct(r.acct, r.amt)
    \/ r.op \in {"lock", "withdraw"} /\ ~CanLock(r.acct, r.amt)

-----------------------------------------------------------------------------
(* Requests *)

Goto(p, label) == req' = [req EXCEPT ![p].pc = label]
Finish(p) == req' = [req EXCEPT ![p] = Idle]
Begin(p, label, op, a, n, ref, vnd) ==
    /\ req[p].pc = "idle"
    /\ req' = [req EXCEPT ![p] = [Idle EXCEPT !.pc = label, !.op = op, !.acct = a,
                                             !.amt = n, !.ref = ref, !.vnd = vnd]]

CountRequest == started < here.requests /\ started' = started + 1

(* UpdateBalanceRedis (gRPC Credit, Deduct, UpdateBalance; admin adjust)   *)
(* and CheckBalanceRedis / GetBalanceRedis, which only read.               *)
UpdateBalanceRedis(p, op, a, n) ==
    /\ op \in {"credit", "deduct", "check"}
    /\ CountRequest
    /\ Begin(p, "get", op, a, n, None, 0)
    /\ UNCHANGED <<money, warm, rows, hold, restarts, here>>

(* LockBalanceRedis for an order or position that holds nothing yet. *)
LockBalanceRedis(p, h, n) ==
    /\ CountRequest
    /\ hold[h] = 0
    /\ \A q \in Proc : req[q].ref # h
    /\ Begin(p, "get", "lock", HoldAcct[h], n, h, 0)
    /\ UNCHANGED <<money, warm, rows, hold, restarts, here>>

(* UnlockBalanceRedis goes to the script without warming the cache. *)
UnlockBalanceRedis(p, h, n) ==
    /\ CountRequest
    /\ n <= hold[h]
    /\ Begin(p, "script", "unlock", HoldAcct[h], n, None, 0)
    /\ hold' = [hold EXCEPT ![h] = @ - n]
    /\ UNCHANGED <<money, warm, rows, restarts, here>>

(* EnsureBalanceCached: GET, then on a miss SELECT, SET, SET.  The cap     *)
(* check of a withdrawal goes on to read both keys, other requests to      *)
(* their script.                                                           *)
Cached(r) == IF r.op = "cap" THEN "capBal" ELSE "script"

EnsureGet(p) ==
    /\ req[p].pc = "get"
    /\ \/ bal[req[p].acct] # Absent /\ Goto(p, Cached(req[p]))
       \/ bal[req[p].acct] = Absent /\ Goto(p, "find")
       \/ "get" \in Faults /\ Goto(p, "find")
    /\ UNCHANGED <<money, warm, rows, hold, count>>

EnsureFind(p) ==
    /\ req[p].pc = "find"
    /\ \/ req' = [req EXCEPT ![p].pc = "setBal", ![p].snapBal = dbBal[req[p].acct],
                             ![p].snapLck = dbLck[req[p].acct]]
       \/ "db" \in Faults /\ Goto(p, Cached(req[p]))
    /\ UNCHANGED <<money, warm, rows, hold, count>>

EnsureSetBal(p) ==
    /\ req[p].pc = "setBal"
    /\ \/ bal' = [bal EXCEPT ![req[p].acct] = req[p].snapBal]
       \/ "script" \in Faults /\ UNCHANGED bal
    /\ Goto(p, "setLck")
    /\ UNCHANGED <<lck, table, bus, warm, rows, hold, count>>

EnsureSetLck(p) ==
    /\ req[p].pc = "setLck"
    /\ \/ lck' = [lck EXCEPT ![req[p].acct] = req[p].snapLck]
       \/ "script" \in Faults /\ UNCHANGED lck
    /\ Goto(p, Cached(req[p]))
    /\ UNCHANGED <<bal, table, bus, warm, rows, hold, count>>

(* The script ran: balance operations go on to publish, a withdrawal to    *)
(* its table update.                                                       *)
AfterScript(r) == IF r.op = "withdraw" THEN "dbLock" ELSE "publish"

(* Errors of Credit and Unlock are not looked at; those of Deduct and Lock *)
(* fail the request.  Mutant: that of Lock is not looked at either.         *)
AfterErrorUnlessLock(p) ==
    IF req[p].op \in {"credit", "unlock", "lock"} THEN Goto(p, "publish") ELSE Finish(p)
AfterError(p) ==
    IF req[p].op \in {"credit", "unlock"} THEN Goto(p, "publish") ELSE Finish(p)

Script(p) ==
    /\ req[p].pc = "script"
    /\ \/ RunScript(req[p]) /\ Goto(p, AfterScript(req[p]))
       \/ Refused(req[p]) /\ UNCHANGED redis /\ AfterError(p)
       \/ req[p].op = "check" /\ UNCHANGED redis /\ Finish(p)
    /\ UNCHANGED <<table, bus, warm, rows, hold, count>>

(* An error of the call, whether or not the script took effect. *)
ScriptError(p) ==
    /\ "script" \in Faults
    /\ req[p].pc = "script"
    /\ RunScript(req[p]) \/ UNCHANGED redis
    /\ AfterError(p)
    /\ UNCHANGED <<table, bus, warm, rows, hold, count>>

(* publishBalanceChange and the reply to the caller, who from then on      *)
(* counts on the lock.  Publish errors are swallowed.                      *)
EventUnsigned(r) ==       \* mutant: a deduction is published like a credit
    [acct |-> r.acct, delta |-> r.amt,
     reason |-> IF r.op \in {"lock", "unlock"} THEN r.op ELSE "grpc"]
EventOneReason(r) ==      \* mutant: a lock is published as a balance change
    [acct |-> r.acct, reason |-> IF r.op = "unlock" THEN r.op ELSE "grpc", delta |-> r.amt]
EventOf(r) ==
    [acct |-> r.acct,
     reason |-> IF r.op \in {"lock", "unlock"} THEN r.op ELSE "grpc",
     delta |-> IF r.op = "deduct" THEN -r.amt ELSE r.amt]

Publish(p) ==
    /\ req[p].pc = "publish"
    /\ \/ events' = Append(events, EventOf(req[p]))
       \/ "publish" \in Faults /\ UNCHANGED events
    /\ UNCHANGED <<uncommitted, redo, again>>
    /\ hold' = IF req[p].op = "lock"
               THEN [hold EXCEPT ![req[p].ref] = @ + req[p].amt] ELSE hold
    /\ Finish(p)
    /\ UNCHANGED <<redis, table, warm, rows, count>>

-----------------------------------------------------------------------------
(* Withdrawals *)

(* CreateWithdrawal: with an active bonus, the cap is checked on values    *)
(* read before the lock is taken; a GET that fails reads as zero.          *)
CreateWithdrawal(p, w, a, n) ==
    /\ withdrawal[w].status = "NONE"
    /\ \A q \in Proc : req[q].ref # w
    /\ \E op \in {"cap", "withdraw"} :
          /\ op = "cap" => Bonus > 0
          /\ op = "withdraw" => Bonus = 0 \/ "get" \in Faults
          /\ Begin(p, "get", op, a, n, w, n * rate)
    /\ UNCHANGED <<money, warm, rows, hold, count>>

Misread == IF "get" \in Faults THEN {0} ELSE {}

CapGetBalance(p) ==
    /\ req[p].pc = "capBal"
    /\ \E seen \in {Num(bal[req[p].acct])} \cup Misread :
          req' = [req EXCEPT ![p].pc = "capLck", ![p].snapBal = seen]
    /\ UNCHANGED <<money, warm, rows, hold, count>>

CapGetLocked(p) ==
    /\ req[p].pc = "capLck"
    /\ \E seen \in {Num(lck[req[p].acct])} \cup Misread :
          IF req[p].amt > Monus(req[p].snapBal - seen, Bonus)
          THEN Finish(p)
          ELSE req' = [req EXCEPT ![p].pc = "get", ![p].op = "withdraw"]
    /\ UNCHANGED <<money, warm, rows, hold, count>>

(* The transaction of CreateWithdrawal after its Redis lock: the table     *)
(* lock is conditional on the row; when it is refused the Redis lock is    *)
(* undone, when the INSERT or the COMMIT fails it is not.                  *)
WithdrawalTx(p) ==
    LET r == req[p]
        enough == dbBal[r.acct] - dbLck[r.acct] >= r.amt IN
    /\ r.pc = "dbLock"
    /\ \/ /\ enough
          /\ dbLck' = [dbLck EXCEPT ![r.acct] = @ + r.amt]
          /\ withdrawal' = [withdrawal EXCEPT ![r.ref] =
                 [status |-> "PENDING", acct |-> r.acct, vnd |-> r.vnd, usdt |-> r.amt]]
          /\ Finish(p)
       \/ /\ ~enough \/ "db" \in Faults
          /\ Goto(p, "undo")
          /\ UNCHANGED <<dbLck, withdrawal>>
       \/ /\ enough /\ "db" \in Faults
          /\ Finish(p)
          /\ UNCHANGED <<dbLck, withdrawal>>
    /\ UNCHANGED <<redis, dbBal, bus, warm, rate, deposit, hold, count>>

UndoLock(p) ==
    /\ req[p].pc = "undo"
    /\ BalanceUnlock(req[p].acct, req[p].amt) \/ ("script" \in Faults /\ UNCHANGED redis)
    /\ Finish(p)
    /\ UNCHANGED <<table, bus, warm, rows, hold, count>>

(* One conditional UPDATE; balances are not touched. *)
AdminApproveWithdrawal(w) ==
    /\ withdrawal[w].status = "PENDING"
    /\ withdrawal' = [withdrawal EXCEPT ![w].status = "APPROVED"]
    /\ UNCHANGED <<money, req, warm, rate, deposit, hold, count>>

(* Reads the row, converts at the current rate, then one transaction that  *)
(* unlocks the table and saves the row it read.                            *)
AdminRejectWithdrawal(p, w) ==
    /\ withdrawal[w].status = "PENDING"
    /\ Begin(p, "rejectTx", "reject", withdrawal[w].acct, withdrawal[w].vnd \div rate, w, 0)
    /\ UNCHANGED <<money, warm, rows, hold, count>>

RejectTx(p) ==
    /\ req[p].pc = "rejectTx"
    /\ \/ /\ dbLck' = [dbLck EXCEPT ![req[p].acct] = Monus(@, req[p].amt)]
          /\ withdrawal' = [withdrawal EXCEPT ![req[p].ref].status = "REJECTED"]
       \/ "db" \in Faults /\ UNCHANGED <<dbLck, withdrawal>>
    /\ Finish(p)
    /\ UNCHANGED <<redis, dbBal, bus, warm, rate, deposit, hold, count>>

-----------------------------------------------------------------------------
(* Deposits *)

CreateDeposit(d, a, n) ==
    /\ deposit[d].status = "NONE"
    /\ deposit' = [deposit EXCEPT ![d] = [status |-> "PENDING", acct |-> a,
                                          usdt |-> n, credits |-> 0]]
    /\ UNCHANGED <<money, req, warm, rate, withdrawal, hold, count>>

(* ConfirmDeposit reads the status outside the transaction; the            *)
(* transaction adds to the row and saves the deposit it read; Redis is     *)
(* credited after the commit.                                              *)
ConfirmDeposit(p, d) ==
    /\ deposit[d].status = "PENDING"
    /\ Begin(p, "confirmTx", "confirm", deposit[d].acct, deposit[d].usdt, d, 0)
    /\ UNCHANGED <<money, warm, rows, hold, count>>

ConfirmTx(p) ==
    /\ req[p].pc = "confirmTx"
    /\ \/ /\ dbBal' = [dbBal EXCEPT ![req[p].acct] = @ + req[p].amt]
          /\ deposit' = [deposit EXCEPT ![req[p].ref].status = "CONFIRMED",
                                        ![req[p].ref].credits = @ + 1]
          /\ Goto(p, "credit")
       \/ "db" \in Faults /\ UNCHANGED <<dbBal, deposit>> /\ Finish(p)
    /\ UNCHANGED <<redis, dbLck, bus, warm, rate, withdrawal, hold, count>>

ConfirmCredit(p) ==
    /\ req[p].pc = "credit"
    /\ \/ BalanceCredit(req[p].acct, req[p].amt)
       \/ "script" \in Faults /\ UNCHANGED redis
    /\ Finish(p)
    /\ UNCHANGED <<table, bus, warm, rows, hold, count>>

AdminRejectDeposit(d) ==
    /\ deposit[d].status = "PENDING"
    /\ deposit' = [deposit EXCEPT ![d].status = "FAILED"]
    /\ UNCHANGED <<money, req, warm, rate, withdrawal, hold, count>>

-----------------------------------------------------------------------------
(* Background: the projector, the rate refresh, restarts and warm-up *)

(* The balance projector: a negative delta larger than the row's balance   *)
(* updates no row, and is acknowledged all the same.                       *)
AppliedBelow(b, delta) == IF b + delta > 0 THEN b + delta ELSE b   \* mutant: > for >=
Applied(b, delta) == IF b + delta >= 0 THEN b + delta ELSE b

(* What a restart gave again comes first. *)
Given == IF redo # <<>> THEN Head(redo) ELSE Head(events)
Recent(read) == IF Len(read) > here.uncommitted THEN Tail(read) ELSE read
ReadEvent ==
    /\ \/ redo # <<>> /\ redo' = Tail(redo) /\ UNCHANGED events
       \/ redo = <<>> /\ events # <<>> /\ events' = Tail(events) /\ UNCHANGED redo
    /\ uncommitted' = Recent(Append(uncommitted, Given))

Project ==
    LET e == Given IN
    /\ ReadEvent
    /\ \/ /\ e.reason = "lock"
          /\ dbLck' = [dbLck EXCEPT ![e.acct] = @ + e.delta]
          /\ UNCHANGED <<dbBal, again>>
       \/ /\ e.reason = "unlock"
          /\ dbLck' = [dbLck EXCEPT ![e.acct] = Monus(@, e.delta)]
          /\ again' = IF redo # <<>> THEN [again EXCEPT ![e.acct] = @ + e.delta] ELSE again
          /\ UNCHANGED dbBal
       \/ /\ e.reason = "grpc"
          /\ dbBal' = [dbBal EXCEPT ![e.acct] = Applied(@, e.delta)]
          /\ UNCHANGED <<dbLck, again>>
    /\ UNCHANGED <<redis, req, warm, rows, hold, count>>

LoseEvent ==
    /\ "projector" \in Faults
    /\ ReadEvent
    /\ UNCHANGED <<redis, table, again, req, warm, rows, hold, count>>

RefreshRate ==
    /\ rate' \in here.rates \ {rate}
    /\ UNCHANGED <<money, req, warm, deposit, withdrawal, hold, count>>

(* Redis Streams go on with what was not read (k is the length); Kafka     *)
(* after the last commit, one a second (CommitInterval).                   *)
ReadOnAfter(k) ==
    /\ redo' = SubSeq(uncommitted, k + 1, Len(uncommitted)) \o redo
    /\ uncommitted' = <<>>
    /\ UNCHANGED <<events, again>>

(* The process dies with every request in it; main() starts the warm-up. *)
Restart ==
    /\ "crash" \in Faults
    /\ restarts < here.restarts
    /\ restarts' = restarts + 1
    /\ req' = [p \in Proc |-> Idle]
    /\ warm' = [WarmOff EXCEPT !.pc = "rows"]
    /\ \E k \in 0 .. Len(uncommitted) : ReadOnAfter(k)
    /\ UNCHANGED <<redis, table, rows, hold, started, here>>

RedisFlush ==
    /\ "flush" \in Faults
    /\ restarts < here.restarts
    /\ restarts' = restarts + 1
    /\ bal' = [a \in Account |-> Absent]
    /\ lck' = [a \in Account |-> Absent]
    /\ UNCHANGED <<table, bus, req, warm, rows, hold, started, here>>

(* The warm-up reads all rows once, then for each: GET bal, SET when that  *)
(* failed or found nothing, and the same for locked.                       *)
WarmRows ==
    /\ warm.pc = "rows"
    /\ warm' = [warm EXCEPT !.pc = "getBal", !.todo = Account,
                            !.rowBal = dbBal, !.rowLck = dbLck]
    /\ UNCHANGED <<money, req, rows, hold, count>>

WarmGetBal(a) ==
    /\ warm.pc = "getBal" /\ a \in warm.todo
    /\ \E next \in {"getLck", "setBal"} :
          /\ next = "getLck" => bal[a] # Absent
          /\ next = "setBal" => bal[a] = Absent \/ "get" \in Faults
          /\ warm' = [warm EXCEPT !.pc = next, !.acct = a, !.todo = @ \ {a}]
    /\ UNCHANGED <<money, req, rows, hold, count>>

WarmSetBal ==
    /\ warm.pc = "setBal"
    /\ \/ bal' = [bal EXCEPT ![warm.acct] = warm.rowBal[warm.acct]]
       \/ "script" \in Faults /\ UNCHANGED bal
    /\ warm' = [warm EXCEPT !.pc = "getLck"]
    /\ UNCHANGED <<lck, table, bus, req, rows, hold, count>>

WarmNext == IF warm.todo = {} THEN WarmOff ELSE [warm EXCEPT !.pc = "getBal"]

WarmGetLck ==
    /\ warm.pc = "getLck"
    /\ \/ lck[warm.acct] # Absent /\ warm' = WarmNext
       \/ /\ lck[warm.acct] = Absent \/ "get" \in Faults
          /\ warm' = [warm EXCEPT !.pc = "setLck"]
    /\ UNCHANGED <<money, req, rows, hold, count>>

WarmSetLck ==
    /\ warm.pc = "setLck"
    /\ \/ lck' = [lck EXCEPT ![warm.acct] = warm.rowLck[warm.acct]]
       \/ "script" \in Faults /\ UNCHANGED lck
    /\ warm' = WarmNext
    /\ UNCHANGED <<bal, table, bus, req, rows, hold, count>>

-----------------------------------------------------------------------------
(* Specifications *)

InitRows ==
    /\ here \in Situation
    /\ dbBal = [a \in Account |-> InitBal]
    /\ dbLck = [a \in Account |-> 0]
    /\ events = <<>> /\ uncommitted = <<>> /\ redo = <<>>
    /\ again = [a \in Account |-> 0]
    /\ req = [p \in Proc |-> Idle]
    /\ warm = WarmOff
    /\ rate \in here.rates
    /\ deposit = [d \in Deposit |-> [status |-> "NONE", acct |-> AnyAccount,
                                     usdt |-> 0, credits |-> 0]]
    /\ withdrawal = [w \in Withdrawal |-> [status |-> "NONE", acct |-> AnyAccount,
                                           vnd |-> 0, usdt |-> 0]]
    /\ hold = [h \in Hold |-> 0]
    /\ started = 0
    /\ restarts = 0

(* Every wallet has been warmed; or wallets were provisioned after the     *)
(* warm-up: rows, but no Redis keys.                                       *)
Init ==
    /\ InitRows
    /\ bal = [a \in Account |-> IF here.warm THEN InitBal ELSE Absent]
    /\ lck = [a \in Account |-> IF here.warm THEN 0 ELSE Absent]

(* Requests accepted, and the steps of the request p is in. *)
Arrive(p) ==
    /\ p \in here.procs
    /\ \/ \E a \in Account, n \in here.amounts, op \in Op : UpdateBalanceRedis(p, op, a, n)
       \/ \E h \in Hold, n \in here.amounts : LockBalanceRedis(p, h, n) \/ UnlockBalanceRedis(p, h, n)
       \/ \E w \in Withdrawal, a \in Account, n \in here.amounts : CreateWithdrawal(p, w, a, n)
       \/ \E w \in Withdrawal : AdminRejectWithdrawal(p, w)
       \/ \E d \in Deposit : ConfirmDeposit(p, d)

Serve(p) ==
    \/ EnsureGet(p) \/ EnsureFind(p) \/ EnsureSetBal(p) \/ EnsureSetLck(p)
    \/ Script(p) \/ ScriptError(p) \/ Publish(p)
    \/ CapGetBalance(p) \/ CapGetLocked(p)
    \/ WithdrawalTx(p) \/ UndoLock(p) \/ RejectTx(p)
    \/ ConfirmTx(p) \/ ConfirmCredit(p)

Admin ==
    \/ \E w \in Withdrawal : AdminApproveWithdrawal(w)
    \/ \E d \in Deposit : AdminRejectDeposit(d)
    \/ \E d \in here.deposits, a \in Account, n \in here.amounts : CreateDeposit(d, a, n)

WarmUp == WarmRows \/ (\E a \in Account : WarmGetBal(a)) \/ WarmSetBal \/ WarmGetLck \/ WarmSetLck

Background == Project \/ LoseEvent \/ RefreshRate \/ Restart \/ RedisFlush

Next == (\E p \in Proc : Arrive(p) \/ Serve(p)) \/ Admin \/ WarmUp \/ Background

Spec == Init /\ [][Next]_vars

(* A goroutine that is in a request keeps running, and so do the consumer  *)
(* of balance.changed and the warm-up; nothing obliges clients or          *)
(* administrators to act.                                                  *)
Fairness == /\ \A p \in Proc : WF_vars(Serve(p))
            /\ WF_vars(Project) /\ WF_vars(WarmUp)
FairSpec == Spec /\ Fairness
=============================================================================
