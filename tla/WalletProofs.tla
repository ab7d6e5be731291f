---------------------------- MODULE WalletProofs ----------------------------
(***************************************************************************)
(* Theorems about Wallet for all values of its constants.                  *)
(***************************************************************************)
EXTENDS WalletProps, TotalsProofs

USE DEF bus

-----------------------------------------------------------------------------
(* Types of the request transitions *)

LEMMA AnyAccountType == AnyAccount \in Account
BY AccountAssumption DEF AnyAccount

LEMMA IdleType == Idle \in Request /\ Idle.op = "none" /\ Idle.pc = "idle"
BY AnyAccountType DEF Idle, Request, Label, Op

LEMMA NumType == ASSUME NEW v \in Nat \cup {Absent} PROVE Num(v) \in Nat
BY DEF Num

LEMMA MonusType ==
    ASSUME NEW x \in Int, NEW y \in Nat PROVE Monus(x, y) \in Nat
BY DEF Monus

LEMMA AmountType == ASSUME NEW n \in Amount PROVE n \in Nat /\ n > 0
BY NumberAssumption

LEMMA GotoType ==
    ASSUME RequestTypes, NEW p \in Proc, NEW l \in Label, Goto(p, l),
           l \in {"capBal", "capLck", "dbLock", "rejectTx"} => req[p].ref \in Withdrawal,
           l = "confirmTx" => req[p].ref \in Deposit
    PROVE  RequestTypes'
<1>1. req' \in [Proc -> Request]
  BY DEF Goto, RequestTypes, Request
<1>2. ASSUME NEW q \in Proc
      PROVE  /\ req[q].op = req'[q].op /\ req[q].ref = req'[q].ref
             /\ req'[q].pc = IF q = p THEN l ELSE req[q].pc
  BY <1>2 DEF Goto, RequestTypes, Request
<1> QED
  BY <1>1, <1>2 DEF RequestTypes

LEMMA FinishType ==
    ASSUME RequestTypes, NEW p \in Proc, Finish(p)
    PROVE  RequestTypes'
<1>1. req' \in [Proc -> Request]
  BY IdleType DEF Finish, RequestTypes
<1>2. \A q \in Proc : req'[q] = IF q = p THEN Idle ELSE req[q]
  BY DEF Finish, RequestTypes
<1> QED
  BY <1>1, <1>2, IdleType DEF RequestTypes

LEMMA BeginType ==
    ASSUME RequestTypes, NEW p \in Proc, NEW l \in Label, NEW op \in Op, NEW a \in Account,
           NEW n \in Nat, NEW ref \in Hold \cup Deposit \cup Withdrawal \cup {None}, NEW vnd \in Nat,
           Begin(p, l, op, a, n, ref, vnd),
           op = "lock" => ref \in Hold,
           op \in {"cap", "withdraw"} \/ l \in {"capBal", "capLck", "dbLock", "rejectTx"} => ref \in Withdrawal,
           l = "confirmTx" => ref \in Deposit
    PROVE  RequestTypes'
<1> DEFINE r == [Idle EXCEPT !.pc = l, !.op = op, !.acct = a, !.amt = n, !.ref = ref, !.vnd = vnd]
<1>1. r \in Request /\ r.pc = l /\ r.op = op /\ r.ref = ref
  BY DEF Idle, Request
<1> HIDE DEF r
<1>2. req' = [req EXCEPT ![p] = r]
  BY DEF Begin, r
<1>3. req' \in [Proc -> Request]
  BY <1>1, <1>2 DEF RequestTypes
<1>4. \A q \in Proc : req'[q] = IF q = p THEN r ELSE req[q]
  BY <1>2 DEF RequestTypes
<1> QED
  BY <1>1, <1>3, <1>4 DEF RequestTypes

-----------------------------------------------------------------------------
(* Types of the stores *)

LEMMA ScriptTypes ==
    ASSUME StoreTypes, NEW r \in Request, RunScript(r), UNCHANGED table
    PROVE  StoreTypes'
<1>1. /\ r.acct \in Account /\ r.amt \in Nat
      /\ Num(bal[r.acct]) \in Nat /\ Num(lck[r.acct]) \in Nat
  BY NumType DEF Request, StoreTypes
<1>2. CASE BalanceCredit(r.acct, r.amt)
  <2>1. Num(bal[r.acct]) + r.amt \in Nat
    BY <1>1
  <2> QED
    BY <1>1, <1>2, <2>1 DEF BalanceCredit, StoreTypes, table
<1>3. CASE CanDeduct(r.acct, r.amt) /\ BalanceDeduct(r.acct, r.amt)
  BY <1>1, <1>3 DEF CanDeduct, BalanceDeduct, StoreTypes, table
<1>4. CASE BalanceLock(r.acct, r.amt)
  <2>1. Num(lck[r.acct]) + r.amt \in Nat
    BY <1>1
  <2> QED
    BY <1>1, <1>4, <2>1 DEF BalanceLock, StoreTypes, table
<1>5. CASE BalanceUnlock(r.acct, r.amt)
  <2>1. Monus(Num(lck[r.acct]), r.amt) \in Nat
    BY <1>1 DEF Monus
  <2> QED
    BY <1>1, <1>5, <2>1 DEF BalanceUnlock, StoreTypes, table
<1> QED
  BY <1>2, <1>3, <1>4, <1>5 DEF RunScript

LEMMA EventOfTypes ==
    ASSUME NEW r \in Request PROVE EventOf(r) \in Entry
BY DEF EventOf, Event, Request, Entry

LEMMA EntryEvents == ASSUME NEW s \in Seq(Entry) PROVE s \in Seq(Event)
<1>1. Entry \subseteq Event
  BY DEF Entry
<1> HIDE DEF Entry, Event
<1> QED
  BY <1>1

LEMMA AppendTypes ==
    ASSUME EventTypes, NEW e \in Entry, events' = Append(events, e), UNCHANGED <<uncommitted, redo, again>>
    PROVE  EventTypes'
<1>1. events' \in Seq(Entry)
  BY AppendElement DEF EventTypes
<1> QED
  BY <1>1 DEF EventTypes

(* Reading and reading again *)
LEMMA ReadTypes ==
    ASSUME EventTypes, ReadEvent, again' \in [Account -> Nat]
    PROVE  EventTypes' /\ Given \in Entry
<1>1. events \in Seq(Entry) /\ uncommitted \in Seq(Entry) /\ redo \in Seq(Entry)
  BY DEF EventTypes
<1>2. /\ events' \in Seq(Entry) /\ redo' \in Seq(Entry)
      /\ Given \in Entry
  <2>1. CASE redo # <<>> /\ redo' = Tail(redo) /\ UNCHANGED events
    BY <1>1, <2>1, HeadElement DEF Given
  <2>2. CASE redo = <<>> /\ events # <<>> /\ events' = Tail(events) /\ UNCHANGED redo
    BY <1>1, <2>2, HeadElement DEF Given
  <2> QED
    BY <2>1, <2>2 DEF ReadEvent
<1> DEFINE s == Append(uncommitted, Given)
<1>3. s \in Seq(Entry) /\ s # <<>>
  BY <1>1, <1>2, AppendElement
<1>4. uncommitted' = Recent(s)
  BY DEF ReadEvent
<1> HIDE DEF s
<1>5. Tail(s) \in Seq(Entry)
  BY <1>3, HeadElement
<1>6. uncommitted' \in Seq(Entry)
  BY <1>3, <1>4, <1>5 DEF Recent
<1> QED
  BY <1>2, <1>6 DEF EventTypes

LEMMA ReadOnTypes ==
    ASSUME EventTypes, NEW k \in 0 .. Len(uncommitted), ReadOnAfter(k)
    PROVE  EventTypes'
<1> DEFINE s == SubSeq(uncommitted, k + 1, Len(uncommitted))
<1>1. uncommitted \in Seq(Entry) /\ redo \in Seq(Entry)
  BY DEF EventTypes
<1>2. s \in Seq(Entry)
  BY <1>1, SuffixElement
<1>3. redo' = s \o redo /\ uncommitted' = <<>> /\ UNCHANGED <<events, again>>
  BY DEF ReadOnAfter
<1> HIDE DEF s
<1>4. redo' \in Seq(Entry)
  BY <1>1, <1>2, <1>3, JoinElement
<1> QED
  BY <1>3, <1>4 DEF EventTypes

(* Where the service does not restart, nothing is given again. *)
NothingAgain == "crash" \notin Faults => redo = <<>> /\ \A a \in Account : again[a] = 0

LEMMA NothingAgainStep == ASSUME NothingAgain, [Next]_vars PROVE NothingAgain'
<1>1. CASE UNCHANGED <<here, redo, again>>
  BY <1>1 DEF NothingAgain, Faults
<1>2. CASE Project \/ LoseEvent
  <2>1. here' = here /\ (redo = <<>> => UNCHANGED <<redo, again>>)
    BY <1>2 DEF Project, LoseEvent, ReadEvent, count
  <2> QED
    BY <2>1 DEF NothingAgain, Faults
<1>3. CASE Restart
  BY <1>3 DEF NothingAgain, Faults, Restart
<1>4. ASSUME NEW p \in Proc, Arrive(p) PROVE UNCHANGED <<here, redo, again>>
  BY <1>4 DEF Arrive, UpdateBalanceRedis, LockBalanceRedis, UnlockBalanceRedis, CreateWithdrawal,
     AdminRejectWithdrawal, ConfirmDeposit, money, count
<1>5. ASSUME NEW p \in Proc, Serve(p) PROVE UNCHANGED <<here, redo, again>>
  BY <1>5 DEF Serve, EnsureGet, EnsureFind, EnsureSetBal, EnsureSetLck, Script, ScriptError, Publish,
     CapGetBalance, CapGetLocked, WithdrawalTx, UndoLock, RejectTx, ConfirmTx, ConfirmCredit, money, count
<1>6. ASSUME Admin \/ WarmUp \/ RefreshRate \/ RedisFlush PROVE UNCHANGED <<here, redo, again>>
  BY <1>6 DEF Admin, WarmUp, AdminApproveWithdrawal, AdminRejectDeposit, CreateDeposit, WarmRows,
     WarmGetBal, WarmSetBal, WarmGetLck, WarmSetLck, RefreshRate, RedisFlush, money, count
<1>7. CASE UNCHANGED vars
  BY <1>1, <1>7 DEF vars, money, count
<1> QED
  BY <1>1, <1>2, <1>3, <1>4, <1>5, <1>6, <1>7 DEF Next, Background

(* The next entry where nothing is given again. *)
LEMMA ReadsOn ==
    ASSUME NothingAgain, "crash" \notin Faults, ReadEvent
    PROVE  Given = Head(events) /\ events # <<>> /\ events' = Tail(events)
BY DEF NothingAgain, ReadEvent, Given

(* What occurs in a behaviour is among what the constants name. *)
LEMMA HereTypes ==
    ASSUME TypeOK
    PROVE  here.amounts \subseteq Amount /\ here.rates \subseteq Rate /\ here.deposits \subseteq Deposit
BY SituationAssumption DEF TypeOK

(* A step that changes only what the request is doing. *)
LEMMA RequestOnly ==
    ASSUME TypeOK, RequestTypes', started' \in Nat,
           UNCHANGED <<money, warm, rows, hold, restarts, here>>
    PROVE  TypeOK'
BY DEF TypeOK, StoreTypes, EventTypes, RowTypes, money, rows

(* A step of the request that also changes a store. *)
LEMMA RequestAndStore ==
    ASSUME TypeOK, RequestTypes', StoreTypes', UNCHANGED <<bus, warm, rows, hold, count>>
    PROVE  TypeOK'
BY DEF TypeOK, EventTypes, RowTypes, rows, count

LEMMA AfterErrorTypes ==
    ASSUME RequestTypes, NEW p \in Proc, AfterError(p)
    PROVE  RequestTypes'
BY GotoType, FinishType DEF AfterError, Label

-----------------------------------------------------------------------------
(* Each group of actions preserves the types *)

LEMMA ArriveTypes ==
    ASSUME TypeOK, NEW p \in Proc, Arrive(p)
    PROVE  TypeOK'
<1> USE AmountType DEF Label, Op
<1>0. RequestTypes /\ RowTypes
  BY DEF TypeOK
<1>1. ASSUME NEW a \in Account, NEW n \in Amount, NEW op \in Op, UpdateBalanceRedis(p, op, a, n)
      PROVE  TypeOK'
  <2>1. RequestTypes'
    BY <1>0, <1>1, BeginType DEF UpdateBalanceRedis
  <2> QED
    BY <1>1, <2>1, RequestOnly DEF UpdateBalanceRedis, CountRequest, TypeOK
<1>2. ASSUME NEW h \in Hold, NEW n \in Amount, LockBalanceRedis(p, h, n)
      PROVE  TypeOK'
  <2>1. RequestTypes'
    BY <1>0, <1>2, BeginType, AccountAssumption DEF LockBalanceRedis
  <2> QED
    BY <1>2, <2>1, RequestOnly DEF LockBalanceRedis, CountRequest, TypeOK
<1>3. ASSUME NEW h \in Hold, NEW n \in Amount, UnlockBalanceRedis(p, h, n)
      PROVE  TypeOK'
  <2>1. RequestTypes'
    BY <1>0, <1>3, BeginType, AccountAssumption DEF UnlockBalanceRedis
  <2>2. hold' \in [Hold -> Nat]
    BY <1>0, <1>3 DEF UnlockBalanceRedis, RowTypes
  <2> QED
    BY <1>3, <2>1, <2>2 DEF UnlockBalanceRedis, CountRequest, TypeOK, StoreTypes, EventTypes,
                            RowTypes, money, rows
<1>4. ASSUME NEW w \in Withdrawal, NEW a \in Account, NEW n \in Amount, CreateWithdrawal(p, w, a, n)
      PROVE  TypeOK'
  <2>1. n * rate \in Nat
    BY <1>0, NumberAssumption DEF RowTypes
  <2>2. RequestTypes'
    BY <1>0, <1>4, <2>1, BeginType DEF CreateWithdrawal
  <2> QED
    BY <1>4, <2>2, RequestOnly DEF CreateWithdrawal, TypeOK, count
<1>5. ASSUME NEW w \in Withdrawal, AdminRejectWithdrawal(p, w)
      PROVE  TypeOK'
  <2>1. withdrawal[w].acct \in Account /\ withdrawal[w].vnd \div rate \in Nat
    BY <1>0, NumberAssumption DEF RowTypes, WithdrawalRow
  <2>2. RequestTypes'
    BY <1>0, <1>5, <2>1, BeginType DEF AdminRejectWithdrawal
  <2> QED
    BY <1>5, <2>2, RequestOnly DEF AdminRejectWithdrawal, TypeOK, count
<1>6. ASSUME NEW d \in Deposit, ConfirmDeposit(p, d)
      PROVE  TypeOK'
  <2>1. deposit[d].acct \in Account /\ deposit[d].usdt \in Nat
    BY <1>0 DEF RowTypes, DepositRow
  <2>2. RequestTypes'
    BY <1>0, <1>6, <2>1, BeginType DEF ConfirmDeposit
  <2> QED
    BY <1>6, <2>2, RequestOnly DEF ConfirmDeposit, TypeOK, count
<1> QED
  BY <1>1, <1>2, <1>3, <1>4, <1>5, <1>6, HereTypes DEF Arrive

LEMMA EnsureTypes ==
    ASSUME TypeOK, NEW p \in Proc,
           EnsureGet(p) \/ EnsureFind(p) \/ EnsureSetBal(p) \/ EnsureSetLck(p)
    PROVE  TypeOK'
<1> USE DEF Label
<1>0. RequestTypes /\ StoreTypes /\ req[p] \in Request
  BY DEF TypeOK, RequestTypes
<1>1. Cached(req[p]) \in {"capBal", "script"}
  BY DEF Cached
<1>01. Cached(req[p]) = "capBal" => req[p].ref \in Withdrawal
  BY <1>0 DEF Cached, RequestTypes
<1>2. CASE EnsureGet(p)
  <2>1. RequestTypes'
    BY <1>0, <1>1, <1>01, <1>2, GotoType DEF EnsureGet
  <2> QED
    BY <1>2, <2>1, RequestOnly DEF EnsureGet, TypeOK, count
<1>3. CASE EnsureFind(p)
  <2>1. RequestTypes'
    <3>1. CASE Goto(p, Cached(req[p]))
      BY <1>0, <1>1, <1>01, <3>1, GotoType
    <3>2. CASE req' = [req EXCEPT ![p].pc = "setBal", ![p].snapBal = dbBal[req[p].acct],
                                  ![p].snapLck = dbLck[req[p].acct]]
      BY <1>0, <3>2 DEF RequestTypes, StoreTypes, Request
    <3> QED
      BY <1>3, <3>1, <3>2 DEF EnsureFind
  <2> QED
    BY <1>3, <2>1, RequestOnly DEF EnsureFind, TypeOK, count
<1>4. CASE EnsureSetBal(p)
  <2>1. RequestTypes'
    BY <1>0, <1>4, GotoType DEF EnsureSetBal
  <2>2. StoreTypes'
    BY <1>0, <1>4 DEF EnsureSetBal, StoreTypes, Request, table
  <2> QED
    BY <1>4, <2>1, <2>2, RequestAndStore DEF EnsureSetBal
<1>5. CASE EnsureSetLck(p)
  <2>1. RequestTypes'
    BY <1>0, <1>1, <1>01, <1>5, GotoType DEF EnsureSetLck
  <2>2. StoreTypes'
    BY <1>0, <1>5 DEF EnsureSetLck, StoreTypes, Request, table
  <2> QED
    BY <1>5, <2>1, <2>2, RequestAndStore DEF EnsureSetLck
<1> QED
  BY <1>2, <1>3, <1>4, <1>5

LEMMA ScriptStepTypes ==
    ASSUME TypeOK, NEW p \in Proc, Script(p) \/ ScriptError(p) \/ Publish(p)
    PROVE  TypeOK'
<1> USE DEF Label
<1>0. RequestTypes /\ StoreTypes /\ req[p] \in Request
  BY DEF TypeOK, RequestTypes
<1>1. CASE Script(p)
  <2>1. StoreTypes'
    <3>1. CASE RunScript(req[p])
      BY <1>0, <1>1, <3>1, ScriptTypes DEF Script
    <3>2. CASE UNCHANGED redis
      BY <1>0, <1>1, <3>2 DEF Script, redis, table, StoreTypes
    <3> QED
      BY <1>1, <3>1, <3>2 DEF Script
  <2>2. RequestTypes'
    <3>1. CASE Goto(p, AfterScript(req[p]))
      BY <1>0, <3>1, GotoType DEF AfterScript, RequestTypes
    <3> QED
      BY <1>0, <1>1, <3>1, FinishType, AfterErrorTypes DEF Script
  <2> QED
    BY <1>1, <2>1, <2>2, RequestAndStore DEF Script
<1>2. CASE ScriptError(p)
  <2>1. StoreTypes'
    <3>1. CASE RunScript(req[p])
      BY <1>0, <1>2, <3>1, ScriptTypes DEF ScriptError
    <3>2. CASE UNCHANGED redis
      BY <1>0, <1>2, <3>2 DEF ScriptError, redis, table, StoreTypes
    <3> QED
      BY <1>2, <3>1, <3>2 DEF ScriptError
  <2>2. RequestTypes'
    BY <1>0, <1>2, AfterErrorTypes DEF ScriptError
  <2> QED
    BY <1>2, <2>1, <2>2, RequestAndStore DEF ScriptError
<1>3. CASE Publish(p)
  <2>1. RequestTypes'
    BY <1>0, <1>3, FinishType DEF Publish
  <2>2. EventTypes'
    BY <1>0, <1>3, EventOfTypes, AppendTypes DEF Publish, TypeOK, EventTypes
  <2>3. hold' \in [Hold -> Nat]
    BY <1>0, <1>3 DEF Publish, TypeOK, RowTypes, RequestTypes, Request
  <2> QED
    BY <1>3, <2>1, <2>2, <2>3 DEF Publish, TypeOK, RowTypes, StoreTypes, redis, table, rows, count
<1> QED
  BY <1>1, <1>2, <1>3

LEMMA WithdrawTypes ==
    ASSUME TypeOK, NEW p \in Proc,
           CapGetBalance(p) \/ CapGetLocked(p) \/ WithdrawalTx(p) \/ UndoLock(p) \/ RejectTx(p)
    PROVE  TypeOK'
<1> USE DEF Label, Op
<1>0. RequestTypes /\ StoreTypes /\ RowTypes /\ req[p] \in Request
  BY DEF TypeOK, RequestTypes
<1>1. CASE CapGetBalance(p)
  <2>1. Num(bal[req[p].acct]) \in Nat
    BY <1>0, NumType DEF StoreTypes, Request
  <2>2. PICK seen \in Nat : req' = [req EXCEPT ![p].pc = "capLck", ![p].snapBal = seen]
    BY <1>1, <2>1 DEF CapGetBalance, Misread
  <2>3. RequestTypes'
    <3>1. req[p].ref \in Withdrawal
      BY <1>0, <1>1 DEF CapGetBalance, RequestTypes
    <3> QED
      BY <1>0, <2>2, <3>1 DEF RequestTypes, Request
  <2> QED
    BY <1>1, <2>3, RequestOnly DEF CapGetBalance, TypeOK, count
<1>2. CASE CapGetLocked(p)
  <2>1. req[p].ref \in Withdrawal
    BY <1>0, <1>2 DEF CapGetLocked, RequestTypes
  <2>2. CASE Finish(p)
    <3>1. RequestTypes'
      BY <1>0, <2>2, FinishType
    <3> QED
      BY <1>2, <3>1, RequestOnly DEF CapGetLocked, TypeOK, count
  <2>3. CASE req' = [req EXCEPT ![p].pc = "get", ![p].op = "withdraw"]
    <3>1. RequestTypes'
      BY <1>0, <2>1, <2>3 DEF RequestTypes, Request
    <3> QED
      BY <1>2, <3>1, RequestOnly DEF CapGetLocked, TypeOK, count
  <2> QED
    BY <1>2, <2>2, <2>3 DEF CapGetLocked
<1>3. CASE WithdrawalTx(p)
  <2>1. RequestTypes'
    BY <1>0, <1>3, FinishType, GotoType DEF WithdrawalTx
  <2>2. req[p].acct \in Account /\ req[p].amt \in Nat /\ req[p].vnd \in Nat
    BY <1>0 DEF Request
  <2>3. dbLck' \in [Account -> Nat]
    BY <1>0, <1>3, <2>2 DEF WithdrawalTx, StoreTypes
  <2>4. withdrawal' \in [Withdrawal -> WithdrawalRow]
    BY <1>0, <1>3, <2>2 DEF WithdrawalTx, RowTypes, WithdrawalRow
  <2> QED
    BY <1>3, <2>1, <2>3, <2>4 DEF WithdrawalTx, TypeOK, StoreTypes, EventTypes, RowTypes, redis, count
<1>4. CASE UndoLock(p)
  <2>1. RequestTypes'
    BY <1>0, <1>4, FinishType DEF UndoLock
  <2>2. /\ req[p].acct \in Account /\ req[p].amt \in Nat
        /\ Num(lck[req[p].acct]) \in Nat
    BY <1>0, NumType DEF Request, StoreTypes
  <2>3. Monus(Num(lck[req[p].acct]), req[p].amt) \in Nat
    BY <2>2 DEF Monus
  <2>4. StoreTypes'
    BY <1>0, <1>4, <2>2, <2>3 DEF UndoLock, BalanceUnlock, StoreTypes, redis, table
  <2> QED
    BY <1>4, <2>1, <2>4, RequestAndStore DEF UndoLock
<1>5. CASE RejectTx(p)
  <2>1. RequestTypes'
    BY <1>0, <1>5, FinishType DEF RejectTx
  <2>2. req[p].acct \in Account /\ req[p].amt \in Nat /\ dbLck[req[p].acct] \in Nat
    BY <1>0 DEF Request, StoreTypes
  <2>3. Monus(dbLck[req[p].acct], req[p].amt) \in Nat
    BY <2>2 DEF Monus
  <2>4. dbLck' \in [Account -> Nat]
    BY <1>0, <1>5, <2>2, <2>3 DEF RejectTx, StoreTypes
  <2>5. withdrawal' \in [Withdrawal -> WithdrawalRow]
    BY <1>0, <1>5 DEF RejectTx, RowTypes, WithdrawalRow, RequestTypes
  <2> QED
    BY <1>5, <2>1, <2>4, <2>5 DEF RejectTx, TypeOK, StoreTypes, EventTypes, RowTypes, redis, count
<1> QED
  BY <1>1, <1>2, <1>3, <1>4, <1>5

LEMMA DepositTypes ==
    ASSUME TypeOK, NEW p \in Proc, ConfirmTx(p) \/ ConfirmCredit(p)
    PROVE  TypeOK'
<1> USE DEF Label
<1>0. RequestTypes /\ StoreTypes /\ RowTypes /\ req[p] \in Request
  BY DEF TypeOK, RequestTypes
<1>00. req[p].acct \in Account /\ req[p].amt \in Nat
  BY <1>0 DEF Request
<1>1. CASE ConfirmTx(p)
  <2>1. RequestTypes'
    BY <1>0, <1>1, FinishType, GotoType DEF ConfirmTx
  <2>2. dbBal' \in [Account -> Nat]
    BY <1>0, <1>00, <1>1 DEF ConfirmTx, StoreTypes
  <2>3. deposit' \in [Deposit -> DepositRow]
    BY <1>0, <1>1 DEF ConfirmTx, RowTypes, DepositRow, RequestTypes
  <2> QED
    BY <1>1, <2>1, <2>2, <2>3 DEF ConfirmTx, TypeOK, StoreTypes, EventTypes, RowTypes, redis, count
<1>2. CASE ConfirmCredit(p)
  <2>1. RequestTypes'
    BY <1>0, <1>2, FinishType DEF ConfirmCredit
  <2>2. Num(bal[req[p].acct]) \in Nat
    BY <1>0, <1>00, NumType DEF StoreTypes
  <2>3. Num(bal[req[p].acct]) + req[p].amt \in Nat
    BY <1>00, <2>2
  <2>4. StoreTypes'
    BY <1>0, <1>00, <1>2, <2>3 DEF ConfirmCredit, BalanceCredit, StoreTypes, redis, table
  <2> QED
    BY <1>2, <2>1, <2>4, RequestAndStore DEF ConfirmCredit
<1> QED
  BY <1>1, <1>2

LEMMA AdminTypes ==
    ASSUME TypeOK, Admin
    PROVE  TypeOK'
<1>0. RowTypes
  BY DEF TypeOK
<1>1. ASSUME NEW w \in Withdrawal, AdminApproveWithdrawal(w)
      PROVE  TypeOK'
  <2>1. withdrawal' \in [Withdrawal -> WithdrawalRow]
    BY <1>0, <1>1 DEF AdminApproveWithdrawal, RowTypes, WithdrawalRow
  <2> QED
    BY <1>1, <2>1 DEF AdminApproveWithdrawal, TypeOK, StoreTypes, EventTypes, RowTypes,
                      RequestTypes, money, count
<1>2. ASSUME NEW d \in Deposit, AdminRejectDeposit(d)
      PROVE  TypeOK'
  <2>1. deposit' \in [Deposit -> DepositRow]
    BY <1>0, <1>2 DEF AdminRejectDeposit, RowTypes, DepositRow
  <2> QED
    BY <1>2, <2>1 DEF AdminRejectDeposit, TypeOK, StoreTypes, EventTypes, RowTypes,
                      RequestTypes, money, count
<1>3. ASSUME NEW d \in Deposit, NEW a \in Account, NEW n \in Amount, CreateDeposit(d, a, n)
      PROVE  TypeOK'
  <2>1. deposit' \in [Deposit -> DepositRow]
    BY <1>0, <1>3, AmountType DEF CreateDeposit, RowTypes, DepositRow
  <2> QED
    BY <1>3, <2>1 DEF CreateDeposit, TypeOK, StoreTypes, EventTypes, RowTypes,
                      RequestTypes, money, count
<1> QED
  BY <1>1, <1>2, <1>3, HereTypes DEF Admin

LEMMA WarmUpTypes ==
    ASSUME TypeOK, WarmUp
    PROVE  TypeOK'
<1>0. StoreTypes /\ warm \in Warmer
  BY DEF TypeOK
<1>1. WarmOff \in Warmer
  BY AnyAccountType DEF WarmOff, Warmer
<1>2. WarmNext \in Warmer
  BY <1>0, <1>1 DEF WarmNext, Warmer
<1>3. warm' \in Warmer
  <2>1. CASE WarmRows
    BY <1>0, <2>1 DEF WarmRows, Warmer, StoreTypes
  <2>2. ASSUME NEW a \in Account, WarmGetBal(a) PROVE warm' \in Warmer
    <3>1. PICK next \in {"getLck", "setBal"} : warm' = [warm EXCEPT !.pc = next, !.acct = a, !.todo = @ \ {a}]
      BY <2>2 DEF WarmGetBal
    <3> QED
      BY <1>0, <3>1 DEF Warmer
  <2>3. CASE WarmSetBal
    BY <1>0, <2>3 DEF WarmSetBal, Warmer
  <2>4. CASE WarmGetLck
    BY <1>0, <1>2, <2>4 DEF WarmGetLck, Warmer
  <2>5. CASE WarmSetLck
    BY <1>2, <2>5 DEF WarmSetLck
  <2> QED
    BY <2>1, <2>2, <2>3, <2>4, <2>5 DEF WarmUp
<1>4. StoreTypes'
  BY <1>0 DEF WarmUp, WarmRows, WarmGetBal, WarmSetBal, WarmGetLck, WarmSetLck, Warmer, StoreTypes,
              money, table
<1>5. UNCHANGED <<bus, req, rows, hold, count>>
  BY DEF WarmUp, WarmRows, WarmGetBal, WarmSetBal, WarmGetLck, WarmSetLck, money
<1> QED
  BY <1>3, <1>4, <1>5 DEF TypeOK, EventTypes, RowTypes, RequestTypes, rows, count

LEMMA BackgroundTypes ==
    ASSUME TypeOK, Background
    PROVE  TypeOK'
<1>0. StoreTypes /\ EventTypes /\ RowTypes /\ RequestTypes /\ warm \in Warmer
  BY DEF TypeOK
<1>1. CASE Project
  <2> DEFINE e == Given
  <2>0. e \in Entry
    <3>1. events \in Seq(Entry) /\ redo \in Seq(Entry)
      BY <1>0 DEF EventTypes
    <3> QED
      BY <1>1, <3>1, HeadElement DEF Project, ReadEvent, Given
  <2> HIDE DEF e
  <2>1. e \in Event /\ (e.reason # "grpc" => e.delta \in Nat)
    BY <2>0 DEF Entry
  <2>2. e.acct \in Account /\ e.delta \in Int
    BY <2>1 DEF Event
  <2>3. dbBal' \in [Account -> Nat]
    <3>1. Applied(dbBal[e.acct], e.delta) \in Nat
      BY <1>0, <2>2 DEF Applied, StoreTypes
    <3> QED
      BY <1>0, <1>1, <2>2, <3>1 DEF Project, StoreTypes, e
  <2>4. dbLck' \in [Account -> Nat]
    <3>1. dbLck[e.acct] \in Nat
      BY <1>0, <2>2 DEF StoreTypes
    <3>2. e.reason # "grpc" => Monus(dbLck[e.acct], e.delta) \in Nat /\ dbLck[e.acct] + e.delta \in Nat
      BY <2>1, <3>1 DEF Monus
    <3> QED
      BY <1>0, <1>1, <2>2, <3>2 DEF Project, StoreTypes, e
  <2>5. again' \in [Account -> Nat]
    <3>1. again \in [Account -> Nat]
      BY <1>0 DEF EventTypes
    <3>2. e.reason = "unlock" => again[e.acct] + e.delta \in Nat
      BY <2>1, <2>2, <3>1
    <3> QED
      BY <1>1, <2>2, <3>1, <3>2 DEF Project, e
  <2>6. EventTypes'
    BY <1>0, <1>1, <2>5, ReadTypes DEF Project
  <2> QED
    BY <1>1, <2>3, <2>4, <2>6 DEF Project, TypeOK, StoreTypes, RowTypes, RequestTypes, redis, rows, count
<1>2. CASE LoseEvent
  <2>1. EventTypes'
    BY <1>0, <1>2, ReadTypes DEF LoseEvent, EventTypes
  <2> QED
    BY <1>2, <2>1 DEF LoseEvent, TypeOK, StoreTypes, RowTypes, RequestTypes, redis, table, rows, count
<1>3. CASE RefreshRate
  BY <1>3, HereTypes DEF RefreshRate, TypeOK, StoreTypes, EventTypes, RowTypes, RequestTypes, money, count
<1>4. CASE Restart
  <2>1. warm' \in Warmer
    BY <1>4, AnyAccountType DEF Restart, WarmOff, Warmer
  <2>2. req' = [q \in Proc |-> Idle] /\ RequestTypes'
    BY <1>4, IdleType DEF Restart, RequestTypes
  <2>3. restarts' \in Nat
    BY <1>4 DEF Restart, TypeOK
  <2>4. EventTypes'
    BY <1>0, <1>4, ReadOnTypes DEF Restart
  <2> QED
    BY <1>4, <2>1, <2>2, <2>3, <2>4 DEF Restart, TypeOK, StoreTypes, RowTypes, redis, table, rows
<1>5. CASE RedisFlush
  <2>1. StoreTypes'
    BY <1>0, <1>5 DEF RedisFlush, StoreTypes, table
  <2> QED
    BY <1>5, <2>1 DEF RedisFlush, TypeOK, EventTypes, RowTypes, RequestTypes, rows
<1> QED
  BY <1>1, <1>2, <1>3, <1>4, <1>5 DEF Background

LEMMA TypeInit == ASSUME InitRows, StoreTypes PROVE TypeOK
<1>1. RequestTypes
  BY IdleType DEF InitRows, RequestTypes
<1>2. RowTypes
  <2>1. rate \in Rate
    BY SituationAssumption DEF InitRows
  <2> QED
    BY <2>1, AnyAccountType DEF InitRows, RowTypes, DepositRow, WithdrawalRow
<1>3. warm \in Warmer
  BY AnyAccountType DEF InitRows, WarmOff, Warmer
<1>4. EventTypes
  BY DEF InitRows, EventTypes
<1> QED
  BY <1>1, <1>2, <1>3, <1>4 DEF TypeOK, InitRows

LEMMA TypeStep == ASSUME TypeOK, [Next]_vars PROVE TypeOK'
<1>1. CASE UNCHANGED vars
  BY <1>1 DEF vars, money, rows, count, TypeOK, StoreTypes, EventTypes, RowTypes, RequestTypes
<1>2. ASSUME NEW p \in Proc, Serve(p) PROVE TypeOK'
  BY <1>2, EnsureTypes, ScriptStepTypes, WithdrawTypes, DepositTypes DEF Serve
<1> QED
  BY <1>1, <1>2, ArriveTypes, AdminTypes, WarmUpTypes, BackgroundTypes DEF Next

(* Every variable keeps its type from a cold and from a warm start; in     *)
(* particular no balance and no lock, in Redis or in the table, becomes    *)
(* negative, whatever fails and however requests interleave.               *)
THEOREM TypeCorrect == Spec => []TypeOK
<1>1. Init => TypeOK
  <2>1. Init => StoreTypes
    BY NumberAssumption DEF Init, InitRows, StoreTypes
  <2> QED
    BY <2>1, TypeInit DEF Init
<1>2. TypeOK /\ [Next]_vars => TypeOK'
  BY TypeStep
<1> QED
  BY <1>1, <1>2, PTL DEF Spec

-----------------------------------------------------------------------------
(* The Redis locks cover what counts on them *)

(* When no GET fails and Redis is not emptied, a warm cache stays warm: no *)
(* key disappears and nobody is about to reload one from the table.        *)
KeysStayWarm ==
    /\ \A a \in Account : bal[a] \in Nat /\ lck[a] \in Nat
    /\ \A p \in Proc : req[p].pc \notin {"find", "setBal", "setLck"}
    /\ warm.pc \notin {"setBal", "setLck"}

(* A lock is taken in the wallet of its hold; an unlock is never waiting   *)
(* for the cache.                                                          *)
LockShape ==
    \A p \in Proc : /\ req[p].op = "lock" => req[p].acct = HoldAcct[req[p].ref]
                    /\ req[p].pc = "get" => req[p].op # "unlock"

LockInv == TypeOK /\ KeysStayWarm /\ LockShape /\ LocksCover

LEMMA ClaimTypes ==
    ASSUME TypeOK, NEW a \in Account
    PROVE  /\ HoldsOn(a) \in [Hold -> Nat] /\ Total(HoldsOn(a)) \in Nat
           /\ WithdrawalsOn(a) \in [Withdrawal -> Nat] /\ Total(WithdrawalsOn(a)) \in Nat
           /\ InFlightOn(a) \in [Proc -> Nat] /\ Total(InFlightOn(a)) \in Nat
<1>1. HoldsOn(a) \in [Hold -> Nat]
  BY DEF TypeOK, RowTypes, HoldsOn
<1>2. WithdrawalsOn(a) \in [Withdrawal -> Nat]
  BY DEF TypeOK, RowTypes, WithdrawalsOn, Reserved, WithdrawalRow
<1>3. InFlightOn(a) \in [Proc -> Nat]
  BY DEF TypeOK, RequestTypes, InFlightOn, InFlight, Request
<1> QED
  BY <1>1, <1>2, <1>3, TotalType, FiniteAssumption

(* A step of one request moves the claims by what it moves in the three    *)
(* totals; it keeps the invariant when the Redis lock moves at least as    *)
(* far.                                                                    *)
LEMMA CoverStep ==
    ASSUME LockInv, TypeOK', KeysStayWarm', NEW p \in Proc,
           \A q \in Proc \ {p} : req'[q] = req[q],
           \A a \in Account :
              Total(HoldsOn(a))' + Total(WithdrawalsOn(a))' + InFlight(req'[p], a) - lck'[a]
                <= Total(HoldsOn(a)) + Total(WithdrawalsOn(a)) + InFlight(req[p], a) - lck[a]
    PROVE  LocksCover'
<1> SUFFICES ASSUME NEW a \in Account
             PROVE  Total(HoldsOn(a))' + Total(WithdrawalsOn(a))' + Total(InFlightOn(a))' <= Num(lck'[a])
  BY DEF LocksCover
<1>1. /\ Total(HoldsOn(a)) \in Nat /\ Total(WithdrawalsOn(a)) \in Nat /\ Total(InFlightOn(a)) \in Nat
      /\ InFlightOn(a) \in [Proc -> Nat]
  BY ClaimTypes DEF LockInv
<1>2. /\ Total(HoldsOn(a))' \in Nat /\ Total(WithdrawalsOn(a))' \in Nat /\ Total(InFlightOn(a))' \in Nat
      /\ InFlightOn(a)' \in [Proc -> Nat]
  <2>1. /\ HoldsOn(a)' \in [Hold -> Nat]
        /\ WithdrawalsOn(a)' \in [Withdrawal -> Nat]
        /\ InFlightOn(a)' \in [Proc -> Nat]
    BY DEF TypeOK, RowTypes, HoldsOn, WithdrawalsOn, Reserved, WithdrawalRow,
           RequestTypes, InFlightOn, InFlight, Request
  <2> QED
    BY <2>1, TotalType, FiniteAssumption
<1>3. /\ lck[a] \in Nat /\ Num(lck[a]) = lck[a]
      /\ lck'[a] \in Nat /\ Num(lck'[a]) = lck'[a]
  BY AbsentAssumption DEF LockInv, KeysStayWarm, Num
<1>4. \A q \in Proc \ {p} : InFlightOn(a)'[q] = InFlightOn(a)[q]
  BY DEF InFlightOn
<1>5. InFlightOn(a)[p] = InFlight(req[p], a) /\ InFlightOn(a)'[p] = InFlight(req'[p], a)
  BY DEF InFlightOn
<1>6. Total(InFlightOn(a)') = Total(InFlightOn(a)) - InFlightOn(a)[p] + InFlightOn(a)'[p]
  BY <1>1, <1>2, <1>4, TotalChange, FiniteAssumption
<1>7. Total(HoldsOn(a)) + Total(WithdrawalsOn(a)) + Total(InFlightOn(a)) <= lck[a]
  BY <1>3 DEF LockInv, LocksCover
<1>8. InFlight(req[p], a) \in Nat /\ InFlight(req'[p], a) \in Nat
  BY <1>1, <1>2, <1>5
<1> QED
  BY <1>1, <1>2, <1>3, <1>5, <1>6, <1>7, <1>8

(* What the request transitions do to the record of the request. *)
OthersWait(p) == \A q \in Proc \ {p} : req'[q] = req[q]

LEMMA GotoShape ==
    ASSUME RequestTypes, NEW p \in Proc, NEW l, Goto(p, l)
    PROVE  /\ OthersWait(p)
           /\ req'[p].pc = l /\ req'[p].op = req[p].op /\ req'[p].acct = req[p].acct
           /\ req'[p].amt = req[p].amt /\ req'[p].ref = req[p].ref
BY DEF Goto, RequestTypes, Request, OthersWait

LEMMA FinishShape ==
    ASSUME RequestTypes, NEW p \in Proc, Finish(p)
    PROVE  OthersWait(p) /\ req'[p] = Idle
BY DEF Finish, RequestTypes, OthersWait

LEMMA BeginShape ==
    ASSUME RequestTypes, NEW p \in Proc, NEW l, NEW op, NEW a, NEW n, NEW ref, NEW vnd,
           Begin(p, l, op, a, n, ref, vnd)
    PROVE  /\ OthersWait(p) /\ req[p].pc = "idle"
           /\ req'[p].pc = l /\ req'[p].op = op /\ req'[p].acct = a
           /\ req'[p].amt = n /\ req'[p].ref = ref
BY DEF Begin, RequestTypes, Idle, OthersWait

LEMMA InFlightNothing ==
    ASSUME NEW r, ~Locking(r), NEW a PROVE InFlight(r, a) = 0
BY DEF InFlight

(* Steps that touch neither the Redis locks nor the claims.                *)
LEMMA QuietStep ==
    ASSUME LockInv, TypeOK', NEW p \in Proc, OthersWait(p),
           UNCHANGED <<lck, hold, withdrawal>>, bal' \in [Account -> Nat],
           UNCHANGED warm,
           req'[p].pc \notin {"find", "setBal", "setLck"},
           req'[p].op = "lock" => req'[p].acct = HoldAcct[req'[p].ref],
           req'[p].pc = "get" => req'[p].op # "unlock",
           ~Locking(req'[p])
    PROVE  KeysStayWarm' /\ LockShape' /\ LocksCover'
<1>1. KeysStayWarm'
  BY DEF LockInv, KeysStayWarm, OthersWait
<1>2. LockShape'
  BY DEF LockInv, LockShape, OthersWait
<1>3. ASSUME NEW a \in Account
      PROVE  Total(HoldsOn(a))' + Total(WithdrawalsOn(a))' + InFlight(req'[p], a) - lck'[a]
                <= Total(HoldsOn(a)) + Total(WithdrawalsOn(a)) + InFlight(req[p], a) - lck[a]
  <2>1. HoldsOn(a)' = HoldsOn(a) /\ WithdrawalsOn(a)' = WithdrawalsOn(a)
    BY DEF HoldsOn, WithdrawalsOn
  <2>2. InFlight(req'[p], a) = 0
    BY InFlightNothing
  <2>3. /\ InFlight(req[p], a) \in Nat /\ lck[a] \in Nat
        /\ Total(HoldsOn(a)) \in Nat /\ Total(WithdrawalsOn(a)) \in Nat
    BY ClaimTypes DEF LockInv, KeysStayWarm, TypeOK, RequestTypes, Request, InFlight
  <2> QED
    BY <2>1, <2>2, <2>3
<1> QED
  BY <1>1, <1>2, <1>3, CoverStep DEF OthersWait

LEMMA WarmBalances == ASSUME LockInv PROVE bal \in [Account -> Nat]
BY DEF LockInv, TypeOK, StoreTypes, KeysStayWarm

LEMMA ArriveKeeps ==
    ASSUME LockInv, TypeOK', NEW p \in Proc, Arrive(p)
    PROVE  KeysStayWarm' /\ LockShape' /\ LocksCover'
<1> USE DEF Locking
<1>0. RequestTypes /\ RowTypes
  BY DEF LockInv, TypeOK
<1>1. ASSUME NEW a \in Account, NEW n \in Amount, NEW op \in Op, UpdateBalanceRedis(p, op, a, n)
      PROVE  KeysStayWarm' /\ LockShape' /\ LocksCover'
  <2>1. OthersWait(p) /\ req'[p].pc = "get" /\ req'[p].op = op
    BY <1>0, <1>1, BeginShape DEF UpdateBalanceRedis
  <2> QED
    BY <1>1, <2>1, WarmBalances, QuietStep DEF UpdateBalanceRedis, money, rows
<1>2. ASSUME NEW h \in Hold, NEW n \in Amount, LockBalanceRedis(p, h, n)
      PROVE  KeysStayWarm' /\ LockShape' /\ LocksCover'
  <2>1. /\ OthersWait(p) /\ req'[p].pc = "get" /\ req'[p].op = "lock"
        /\ req'[p].acct = HoldAcct[h] /\ req'[p].ref = h
    BY <1>0, <1>2, BeginShape DEF LockBalanceRedis
  <2> QED
    BY <1>2, <2>1, WarmBalances, QuietStep DEF LockBalanceRedis, money, rows
<1>3. ASSUME NEW h \in Hold, NEW n \in Amount, UnlockBalanceRedis(p, h, n)
      PROVE  KeysStayWarm' /\ LockShape' /\ LocksCover'
  <2>1. /\ OthersWait(p) /\ req[p].pc = "idle"
        /\ req'[p].pc = "script" /\ req'[p].op = "unlock"
        /\ req'[p].acct = HoldAcct[h] /\ req'[p].amt = n
    BY <1>0, <1>3, BeginShape DEF UnlockBalanceRedis
  <2>2. KeysStayWarm' /\ LockShape'
    BY <1>3, <2>1 DEF UnlockBalanceRedis, money, LockInv, KeysStayWarm, LockShape, OthersWait
  <2>3. ASSUME NEW a \in Account
        PROVE  Total(HoldsOn(a))' + Total(WithdrawalsOn(a))' + InFlight(req'[p], a) - lck'[a]
                  <= Total(HoldsOn(a)) + Total(WithdrawalsOn(a)) + InFlight(req[p], a) - lck[a]
    <3>1. /\ n \in Nat /\ hold[h] \in Nat /\ n <= hold[h]
          /\ hold' = [hold EXCEPT ![h] = @ - n] /\ hold \in [Hold -> Nat]
          /\ WithdrawalsOn(a)' = WithdrawalsOn(a) /\ lck' = lck
      BY <1>0, <1>3, AmountType DEF UnlockBalanceRedis, RowTypes, WithdrawalsOn, money, rows
    <3>2. HoldsOn(a) \in [Hold -> Nat] /\ HoldsOn(a)' \in [Hold -> Nat]
      BY ClaimTypes DEF LockInv, TypeOK, RowTypes, HoldsOn
    <3>3. \A g \in Hold \ {h} : HoldsOn(a)'[g] = HoldsOn(a)[g]
      BY <3>1 DEF HoldsOn
    <3>4. Total(HoldsOn(a)') = Total(HoldsOn(a)) - HoldsOn(a)[h] + HoldsOn(a)'[h]
      BY <3>2, <3>3, TotalChange, FiniteAssumption
    <3>5. /\ HoldsOn(a)[h] = IF HoldAcct[h] = a THEN hold[h] ELSE 0
          /\ HoldsOn(a)'[h] = IF HoldAcct[h] = a THEN hold[h] - n ELSE 0
      BY <3>1 DEF HoldsOn
    <3>6. /\ InFlight(req[p], a) = 0
          /\ InFlight(req'[p], a) = IF HoldAcct[h] = a THEN n ELSE 0
      BY <2>1 DEF InFlight
    <3>7. /\ Total(HoldsOn(a)) \in Nat /\ Total(WithdrawalsOn(a)) \in Nat /\ lck[a] \in Nat
      BY ClaimTypes DEF LockInv, KeysStayWarm
    <3> QED
      BY <3>1, <3>4, <3>5, <3>6, <3>7
  <2> QED
    BY <2>1, <2>2, <2>3, CoverStep DEF OthersWait
<1>4. ASSUME NEW w \in Withdrawal, NEW a \in Account, NEW n \in Amount, CreateWithdrawal(p, w, a, n)
      PROVE  KeysStayWarm' /\ LockShape' /\ LocksCover'
  <2>1. OthersWait(p) /\ req'[p].pc = "get" /\ req'[p].op \in {"cap", "withdraw"}
    BY <1>0, <1>4, BeginShape DEF CreateWithdrawal
  <2> QED
    BY <1>4, <2>1, WarmBalances, QuietStep DEF CreateWithdrawal, money, rows
<1>5. ASSUME NEW w \in Withdrawal, AdminRejectWithdrawal(p, w)
      PROVE  KeysStayWarm' /\ LockShape' /\ LocksCover'
  <2>1. OthersWait(p) /\ req'[p].pc = "rejectTx" /\ req'[p].op = "reject"
    BY <1>0, <1>5, BeginShape DEF AdminRejectWithdrawal
  <2> QED
    BY <1>5, <2>1, WarmBalances, QuietStep DEF AdminRejectWithdrawal, money, rows
<1>6. ASSUME NEW d \in Deposit, ConfirmDeposit(p, d)
      PROVE  KeysStayWarm' /\ LockShape' /\ LocksCover'
  <2>1. OthersWait(p) /\ req'[p].pc = "confirmTx" /\ req'[p].op = "confirm"
    BY <1>0, <1>6, BeginShape DEF ConfirmDeposit
  <2> QED
    BY <1>6, <2>1, WarmBalances, QuietStep DEF ConfirmDeposit, money, rows
<1> QED
  BY <1>1, <1>2, <1>3, <1>4, <1>5, <1>6, HereTypes DEF Arrive, LockInv

LEMMA EnsureKeeps ==
    ASSUME LockInv, TypeOK', NEW p \in Proc, "get" \notin Faults,
           EnsureGet(p) \/ EnsureFind(p) \/ EnsureSetBal(p) \/ EnsureSetLck(p)
    PROVE  KeysStayWarm' /\ LockShape' /\ LocksCover'
<1>0. RequestTypes /\ req[p] \in Request
  BY DEF LockInv, TypeOK, RequestTypes
<1>1. req[p].pc = "get" /\ EnsureGet(p)
  BY DEF EnsureGet, EnsureFind, EnsureSetBal, EnsureSetLck, LockInv, KeysStayWarm
<1>2. bal[req[p].acct] # Absent
  BY <1>0, AbsentAssumption DEF LockInv, KeysStayWarm, Request
<1>3. Goto(p, Cached(req[p])) /\ UNCHANGED <<money, warm, rows, hold, count>>
  BY <1>1, <1>2 DEF EnsureGet
<1>4. /\ OthersWait(p) /\ req'[p].pc = Cached(req[p]) /\ req'[p].op = req[p].op
      /\ req'[p].acct = req[p].acct /\ req'[p].ref = req[p].ref
  BY <1>0, <1>3, GotoShape
<1>5. req[p].op # "unlock" /\ (req[p].op = "lock" => req[p].acct = HoldAcct[req[p].ref])
  BY <1>1 DEF LockInv, LockShape
<1>6. Cached(req[p]) \in {"capBal", "script"}
  BY DEF Cached
<1> QED
  BY <1>3, <1>4, <1>5, <1>6, WarmBalances, QuietStep DEF money, rows, Locking

(* How the scripts move the locks of a warm cache. *)
LockMove(r) == IF r.op \in {"lock", "withdraw"} THEN r.amt ELSE 0

LEMMA ScriptMovesLocks ==
    ASSUME LockInv, NEW r \in Request, RunScript(r)
    PROVE  /\ bal' \in [Account -> Nat]
           /\ lck' \in [Account -> Nat]
           /\ \A a \in Account \ {r.acct} : lck'[a] = lck[a]
           /\ r.op # "unlock" => lck'[r.acct] = lck[r.acct] + LockMove(r)
           /\ r.op = "unlock" => lck'[r.acct] >= lck[r.acct] - r.amt
<1>1. r.acct \in Account /\ r.amt \in Nat
  BY DEF Request
<1>2. bal \in [Account -> Nat] /\ lck \in [Account -> Nat]
  BY DEF LockInv, TypeOK, StoreTypes, KeysStayWarm
<1>3. Num(bal[r.acct]) = bal[r.acct] /\ Num(lck[r.acct]) = lck[r.acct]
  BY <1>1, <1>2, AbsentAssumption DEF Num
<1>4. CASE r.op = "credit" /\ BalanceCredit(r.acct, r.amt)
  BY <1>1, <1>2, <1>3, <1>4 DEF BalanceCredit, LockMove
<1>5. CASE r.op = "deduct" /\ CanDeduct(r.acct, r.amt) /\ BalanceDeduct(r.acct, r.amt)
  BY <1>1, <1>2, <1>5 DEF BalanceDeduct, CanDeduct, LockMove
<1>6. CASE r.op \in {"lock", "withdraw"} /\ BalanceLock(r.acct, r.amt)
  BY <1>1, <1>2, <1>3, <1>6 DEF BalanceLock, LockMove
<1>7. CASE r.op = "unlock" /\ BalanceUnlock(r.acct, r.amt)
  <2>1. /\ Monus(lck[r.acct], r.amt) \in Nat
        /\ Monus(lck[r.acct], r.amt) >= lck[r.acct] - r.amt
    BY <1>1, <1>2 DEF Monus
  <2> QED
    BY <1>1, <1>2, <1>3, <1>7, <2>1 DEF BalanceUnlock
<1> QED
  BY <1>4, <1>5, <1>6, <1>7 DEF RunScript

(* A step of a request that leaves hold and withdrawal alone keeps the     *)
(* invariant when its own claim and the lock move together.                *)
LEMMA LockStep ==
    ASSUME LockInv, TypeOK', NEW p \in Proc, OthersWait(p),
           UNCHANGED <<hold, withdrawal>>, UNCHANGED warm,
           bal' \in [Account -> Nat], lck' \in [Account -> Nat],
           req'[p].pc \notin {"find", "setBal", "setLck", "get"},
           req'[p].op = "lock" => req'[p].acct = HoldAcct[req'[p].ref],
           \A a \in Account : InFlight(req'[p], a) - lck'[a] <= InFlight(req[p], a) - lck[a]
    PROVE  KeysStayWarm' /\ LockShape' /\ LocksCover'
<1>1. KeysStayWarm'
  BY DEF LockInv, KeysStayWarm, OthersWait
<1>2. LockShape'
  BY DEF LockInv, LockShape, OthersWait
<1>3. ASSUME NEW a \in Account
      PROVE  Total(HoldsOn(a))' + Total(WithdrawalsOn(a))' + InFlight(req'[p], a) - lck'[a]
                <= Total(HoldsOn(a)) + Total(WithdrawalsOn(a)) + InFlight(req[p], a) - lck[a]
  <2>1. HoldsOn(a)' = HoldsOn(a) /\ WithdrawalsOn(a)' = WithdrawalsOn(a)
    BY DEF HoldsOn, WithdrawalsOn
  <2>2. /\ InFlight(req[p], a) \in Nat /\ lck[a] \in Nat /\ lck'[a] \in Nat
        /\ InFlight(req'[p], a) \in Nat
        /\ Total(HoldsOn(a)) \in Nat /\ Total(WithdrawalsOn(a)) \in Nat
    BY ClaimTypes DEF LockInv, KeysStayWarm, TypeOK, RequestTypes, Request, InFlight
  <2> QED
    BY <2>1, <2>2
<1> QED
  BY <1>1, <1>2, <1>3, CoverStep DEF OthersWait

LEMMA ScriptKeeps ==
    ASSUME LockInv, TypeOK', NEW p \in Proc, Script(p) \/ ScriptError(p)
    PROVE  KeysStayWarm' /\ LockShape' /\ LocksCover'
<1> DEFINE r == req[p]
<1>0. RequestTypes /\ r \in Request /\ r.pc = "script"
  BY DEF LockInv, TypeOK, RequestTypes, Script, ScriptError
<1>1. UNCHANGED <<hold, withdrawal>> /\ UNCHANGED warm
  BY DEF Script, ScriptError, rows
<1>2. bal \in [Account -> Nat] /\ lck \in [Account -> Nat]
  BY DEF LockInv, TypeOK, StoreTypes, KeysStayWarm
<1>3. r.op = "lock" => r.acct = HoldAcct[r.ref]
  BY DEF LockInv, LockShape
<1>4. r.acct \in Account /\ r.amt \in Nat
  BY <1>0 DEF Request
<1>5. \A a \in Account : InFlight(r, a) = IF r.acct = a /\ r.op = "unlock" THEN r.amt ELSE 0
  BY <1>0 DEF InFlight, Locking
<1>6. CASE RunScript(r) /\ Goto(p, AfterScript(r))
  <2>1. /\ OthersWait(p) /\ req'[p].pc = AfterScript(r) /\ req'[p].op = r.op
        /\ req'[p].acct = r.acct /\ req'[p].amt = r.amt /\ req'[p].ref = r.ref
    BY <1>0, <1>6, GotoShape
  <2>2. AfterScript(r) = IF r.op = "withdraw" THEN "dbLock" ELSE "publish"
    BY DEF AfterScript
  <2>3. \A a \in Account : InFlight(req'[p], a) = IF r.acct = a THEN LockMove(r) ELSE 0
    BY <2>1, <2>2 DEF InFlight, Locking, LockMove
  <2>4. /\ bal' \in [Account -> Nat] /\ lck' \in [Account -> Nat]
        /\ \A a \in Account \ {r.acct} : lck'[a] = lck[a]
        /\ r.op # "unlock" => lck'[r.acct] = lck[r.acct] + LockMove(r)
        /\ r.op = "unlock" => lck'[r.acct] >= lck[r.acct] - r.amt
    BY <1>0, <1>6, ScriptMovesLocks
  <2>5. \A a \in Account : InFlight(req'[p], a) - lck'[a] <= InFlight(r, a) - lck[a]
    <3> SUFFICES ASSUME NEW a \in Account
                 PROVE  InFlight(req'[p], a) - lck'[a] <= InFlight(r, a) - lck[a]
      OBVIOUS
    <3>1. LockMove(r) \in Nat /\ (r.op = "unlock" => LockMove(r) = 0)
      BY <1>4 DEF LockMove
    <3>2. lck[a] \in Nat /\ lck'[a] \in Nat
      BY <1>2, <2>4
    <3> QED
      BY <1>4, <1>5, <2>3, <2>4, <3>1, <3>2
  <2> QED
    BY <1>1, <1>3, <2>1, <2>2, <2>4, <2>5, LockStep
<1>7. ASSUME OthersWait(p), bal' \in [Account -> Nat], lck' \in [Account -> Nat],
             \A a \in Account : InFlight(r, a) - lck[a] >= -lck'[a],
             \/ req'[p] = Idle
             \/ /\ req'[p].pc = "publish" /\ req'[p].op = r.op /\ r.op # "lock"
      PROVE  KeysStayWarm' /\ LockShape' /\ LocksCover'
  <2>1. ~Locking(req'[p]) /\ req'[p].op # "lock"
        /\ req'[p].pc \notin {"find", "setBal", "setLck", "get"}
    BY <1>7, IdleType DEF Locking
  <2>2. \A a \in Account : InFlight(req'[p], a) = 0
    BY <2>1, InFlightNothing
  <2>3. \A a \in Account : InFlight(req'[p], a) - lck'[a] <= InFlight(r, a) - lck[a]
    BY <1>2, <1>4, <1>5, <1>7, <2>2
  <2> QED
    BY <1>1, <1>7, <2>1, <2>3, LockStep
<1>8. CASE AfterError(p) /\ (RunScript(r) \/ UNCHANGED redis)
  <2>1. OthersWait(p) /\ \/ req'[p] = Idle
                         \/ req'[p].pc = "publish" /\ req'[p].op = r.op /\ r.op # "lock"
    BY <1>0, <1>8, GotoShape, FinishShape DEF AfterError
  <2>2. CASE RunScript(r)
    <3>1. /\ bal' \in [Account -> Nat] /\ lck' \in [Account -> Nat]
          /\ \A a \in Account \ {r.acct} : lck'[a] = lck[a]
          /\ r.op # "unlock" => lck'[r.acct] = lck[r.acct] + LockMove(r)
          /\ r.op = "unlock" => lck'[r.acct] >= lck[r.acct] - r.amt
      BY <1>0, <2>2, ScriptMovesLocks
    <3>2. LockMove(r) \in Nat
      BY <1>4 DEF LockMove
    <3>3. \A a \in Account : InFlight(r, a) - lck[a] >= -lck'[a]
      BY <1>2, <1>4, <1>5, <3>1, <3>2
    <3> QED
      BY <1>7, <2>1, <3>1, <3>3
  <2>3. CASE UNCHANGED redis
    <3>1. bal' = bal /\ lck' = lck
      BY <2>3 DEF redis
    <3>2. \A a \in Account : InFlight(r, a) - lck[a] >= -lck'[a]
      BY <1>2, <1>4, <1>5, <3>1
    <3> QED
      BY <1>2, <1>7, <2>1, <3>1, <3>2
  <2> QED
    BY <1>8, <2>2, <2>3
<1>9. CASE Finish(p) /\ UNCHANGED redis
  <2>1. OthersWait(p) /\ req'[p] = Idle /\ bal' = bal /\ lck' = lck
    BY <1>0, <1>9, FinishShape DEF redis
  <2>2. \A a \in Account : InFlight(r, a) - lck[a] >= -lck'[a]
    BY <1>2, <1>4, <1>5, <2>1
  <2> QED
    BY <1>2, <1>7, <2>1, <2>2
<1> QED
  BY <1>6, <1>8, <1>9 DEF Script, ScriptError

LEMMA PublishKeeps ==
    ASSUME LockInv, TypeOK', NEW p \in Proc, Publish(p)
    PROVE  KeysStayWarm' /\ LockShape' /\ LocksCover'
<1> DEFINE r == req[p]
<1>0. RequestTypes /\ RowTypes /\ r \in Request /\ r.pc = "publish"
  BY DEF LockInv, TypeOK, RequestTypes, Publish
<1>1. OthersWait(p) /\ req'[p] = Idle /\ ~Locking(req'[p])
  BY <1>0, FinishShape, IdleType DEF Publish, Locking
<1>2. bal' = bal /\ lck' = lck /\ withdrawal' = withdrawal /\ warm' = warm
  BY DEF Publish, redis, rows
<1>3. CASE r.op # "lock"
  <2>1. hold' = hold
    BY <1>3 DEF Publish
  <2> QED
    BY <1>1, <1>2, <2>1, IdleType, WarmBalances, QuietStep
<1>4. CASE r.op = "lock"
  <2> DEFINE h == r.ref
  <2>1. h \in Hold /\ r.acct = HoldAcct[h] /\ r.amt \in Nat /\ hold \in [Hold -> Nat]
    BY <1>0, <1>4 DEF RequestTypes, RowTypes, LockInv, LockShape, Request
  <2>2. hold' = [hold EXCEPT ![h] = @ + r.amt]
    BY <1>4 DEF Publish
  <2>3. KeysStayWarm' /\ LockShape'
    BY <1>1, <1>2, IdleType DEF LockInv, KeysStayWarm, LockShape, OthersWait
  <2>4. ASSUME NEW a \in Account
        PROVE  Total(HoldsOn(a))' + Total(WithdrawalsOn(a))' + InFlight(req'[p], a) - lck'[a]
                  <= Total(HoldsOn(a)) + Total(WithdrawalsOn(a)) + InFlight(req[p], a) - lck[a]
    <3>1. WithdrawalsOn(a)' = WithdrawalsOn(a)
      BY <1>2 DEF WithdrawalsOn
    <3>2. HoldsOn(a) \in [Hold -> Nat] /\ HoldsOn(a)' \in [Hold -> Nat]
      BY <2>1, <2>2 DEF HoldsOn
    <3>3. \A g \in Hold \ {h} : HoldsOn(a)'[g] = HoldsOn(a)[g]
      BY <2>1, <2>2 DEF HoldsOn
    <3>4. Total(HoldsOn(a)') = Total(HoldsOn(a)) - HoldsOn(a)[h] + HoldsOn(a)'[h]
      BY <2>1, <3>2, <3>3, TotalChange, FiniteAssumption
    <3>5. /\ HoldsOn(a)[h] = IF HoldAcct[h] = a THEN hold[h] ELSE 0
          /\ HoldsOn(a)'[h] = IF HoldAcct[h] = a THEN hold[h] + r.amt ELSE 0
      BY <2>1, <2>2 DEF HoldsOn
    <3>6. /\ InFlight(req'[p], a) = 0
          /\ InFlight(r, a) = IF HoldAcct[h] = a THEN r.amt ELSE 0
      BY <1>0, <1>1, <1>4, <2>1, InFlightNothing DEF InFlight, Locking
    <3>7. /\ Total(HoldsOn(a)) \in Nat /\ Total(WithdrawalsOn(a)) \in Nat
          /\ lck[a] \in Nat /\ hold[h] \in Nat
      BY <2>1, ClaimTypes DEF LockInv, KeysStayWarm
    <3> HIDE DEF h, r
    <3> QED
      BY <1>2, <2>1, <3>1, <3>4, <3>5, <3>6, <3>7 DEF r
  <2> QED
    BY <1>1, <2>3, <2>4, CoverStep DEF OthersWait
<1> QED
  BY <1>3, <1>4

(* A step of a request p that writes the withdrawal w.                     *)
LEMMA RowStep ==
    ASSUME LockInv, TypeOK', NEW p \in Proc, OthersWait(p), NEW w \in Withdrawal,
           UNCHANGED <<bal, lck, hold, warm>>,
           \A v \in Withdrawal \ {w} : withdrawal'[v] = withdrawal[v],
           req'[p].pc \notin {"find", "setBal", "setLck", "get"}, req'[p].op # "lock",
           \A a \in Account : Reserved(withdrawal'[w], a) + InFlight(req'[p], a)
                                <= Reserved(withdrawal[w], a) + InFlight(req[p], a)
    PROVE  KeysStayWarm' /\ LockShape' /\ LocksCover'
<1>1. KeysStayWarm' /\ LockShape'
  BY DEF LockInv, KeysStayWarm, LockShape, OthersWait
<1>2. ASSUME NEW a \in Account
      PROVE  Total(HoldsOn(a))' + Total(WithdrawalsOn(a))' + InFlight(req'[p], a) - lck'[a]
                <= Total(HoldsOn(a)) + Total(WithdrawalsOn(a)) + InFlight(req[p], a) - lck[a]
  <2>1. HoldsOn(a)' = HoldsOn(a)
    BY DEF HoldsOn
  <2>2. WithdrawalsOn(a) \in [Withdrawal -> Nat] /\ WithdrawalsOn(a)' \in [Withdrawal -> Nat]
    BY ClaimTypes DEF LockInv, TypeOK, RowTypes, WithdrawalsOn, Reserved, WithdrawalRow
  <2>3. /\ WithdrawalsOn(a)[w] = Reserved(withdrawal[w], a)
        /\ WithdrawalsOn(a)'[w] = Reserved(withdrawal'[w], a)
        /\ \A v \in Withdrawal \ {w} : WithdrawalsOn(a)'[v] = WithdrawalsOn(a)[v]
    BY DEF WithdrawalsOn
  <2>4. Total(WithdrawalsOn(a)') = Total(WithdrawalsOn(a)) - WithdrawalsOn(a)[w] + WithdrawalsOn(a)'[w]
    BY <2>2, <2>3, TotalChange, FiniteAssumption
  <2>5. /\ InFlight(req[p], a) \in Nat /\ InFlight(req'[p], a) \in Nat /\ lck[a] \in Nat
        /\ Total(HoldsOn(a)) \in Nat /\ Total(WithdrawalsOn(a)) \in Nat
        /\ Reserved(withdrawal[w], a) \in Nat /\ Reserved(withdrawal'[w], a) \in Nat
    BY <2>2, <2>3, ClaimTypes DEF LockInv, KeysStayWarm, TypeOK, RequestTypes, Request, InFlight
  <2> QED
    BY <2>1, <2>3, <2>4, <2>5
<1> QED
  BY <1>1, <1>2, CoverStep DEF OthersWait

LEMMA WithdrawKeeps ==
    ASSUME LockInv, TypeOK', NEW p \in Proc,
           CapGetBalance(p) \/ CapGetLocked(p) \/ WithdrawalTx(p) \/ UndoLock(p) \/ RejectTx(p)
    PROVE  KeysStayWarm' /\ LockShape' /\ LocksCover'
<1> DEFINE r == req[p]
<1> USE DEF Locking
<1>0. RequestTypes /\ RowTypes /\ r \in Request /\ r.acct \in Account /\ r.amt \in Nat
  BY DEF LockInv, TypeOK, RequestTypes, Request
<1>00. bal \in [Account -> Nat] /\ lck \in [Account -> Nat]
  BY DEF LockInv, TypeOK, StoreTypes, KeysStayWarm
<1>1. CASE CapGetBalance(p)
  <2>1. /\ OthersWait(p) /\ req'[p].pc = "capLck" /\ req'[p].op = r.op
        /\ req'[p].acct = r.acct /\ req'[p].ref = r.ref
    BY <1>0, <1>1 DEF CapGetBalance, RequestTypes, Request, OthersWait
  <2>2. r.op = "lock" => r.acct = HoldAcct[r.ref]
    BY DEF LockInv, LockShape
  <2> QED
    BY <1>1, <2>1, <2>2, WarmBalances, QuietStep DEF CapGetBalance, money, rows
<1>2. CASE CapGetLocked(p)
  <2>1. OthersWait(p) /\ \/ req'[p] = Idle
                         \/ req'[p].pc = "get" /\ req'[p].op = "withdraw"
    BY <1>0, <1>2, FinishShape DEF CapGetLocked, RequestTypes, Request, OthersWait
  <2> QED
    BY <1>2, <2>1, IdleType, WarmBalances, QuietStep DEF CapGetLocked, money, rows
<1>3. CASE WithdrawalTx(p)
  <2> DEFINE w == r.ref
  <2>1. w \in Withdrawal /\ r.pc = "dbLock"
    BY <1>0, <1>3 DEF WithdrawalTx, RequestTypes
  <2>2. UNCHANGED <<bal, lck, hold, warm>>
    BY <1>3 DEF WithdrawalTx, redis
  <2>3. \A a \in Account : InFlight(r, a) = IF r.acct = a THEN r.amt ELSE 0
    BY <2>1 DEF InFlight
  <2>4. \A a \in Account : Reserved(withdrawal[w], a) \in Nat
    BY <1>0, <2>1 DEF RowTypes, WithdrawalRow, Reserved
  <2>5. CASE /\ withdrawal' = [withdrawal EXCEPT ![w] =
                   [status |-> "PENDING", acct |-> r.acct, vnd |-> r.vnd, usdt |-> r.amt]]
             /\ Finish(p)
    <3>1. OthersWait(p) /\ req'[p] = Idle /\ \A a \in Account : InFlight(req'[p], a) = 0
      BY <1>0, <2>5, FinishShape, IdleType, InFlightNothing
    <3>2. \A a \in Account : Reserved(withdrawal'[w], a) = IF r.acct = a THEN r.amt ELSE 0
      BY <1>0, <2>1, <2>5 DEF RowTypes, Reserved, Live
    <3>3. \A v \in Withdrawal \ {w} : withdrawal'[v] = withdrawal[v]
      BY <1>0, <2>5 DEF RowTypes
    <3>4. \A a \in Account : Reserved(withdrawal'[w], a) + InFlight(req'[p], a)
                                <= Reserved(withdrawal[w], a) + InFlight(req[p], a)
      BY <1>0, <2>3, <2>4, <3>1, <3>2
    <3> QED
      BY <2>1, <2>2, <3>1, <3>3, <3>4, IdleType, RowStep
  <2>6. CASE Goto(p, "undo") /\ UNCHANGED withdrawal
    <3>1. /\ OthersWait(p) /\ req'[p].pc = "undo" /\ req'[p].op = r.op
          /\ req'[p].acct = r.acct /\ req'[p].amt = r.amt /\ req'[p].ref = r.ref
      BY <1>0, <2>6, GotoShape
    <3>2. \A a \in Account : InFlight(req'[p], a) - lck'[a] <= InFlight(req[p], a) - lck[a]
      BY <1>00, <1>0, <2>2, <2>3, <3>1 DEF InFlight
    <3>3. r.op = "lock" => r.acct = HoldAcct[r.ref]
      BY DEF LockInv, LockShape
    <3> QED
      BY <1>00, <2>2, <2>6, <3>1, <3>2, <3>3, LockStep
  <2>7. CASE Finish(p) /\ UNCHANGED withdrawal
    <3>1. OthersWait(p) /\ req'[p] = Idle
      BY <1>0, <2>7, FinishShape
    <3> QED
      BY <2>2, <2>7, <3>1, IdleType, WarmBalances, QuietStep
  <2> QED
    BY <1>3, <2>5, <2>6, <2>7 DEF WithdrawalTx
<1>4. CASE UndoLock(p)
  <2>1. /\ OthersWait(p) /\ req'[p] = Idle /\ r.pc = "undo"
        /\ UNCHANGED <<hold, withdrawal>> /\ UNCHANGED warm
    BY <1>0, <1>4, FinishShape DEF UndoLock, rows
  <2>2. \A a \in Account : /\ InFlight(r, a) = IF r.acct = a THEN r.amt ELSE 0
                           /\ InFlight(req'[p], a) = 0
    BY <2>1, IdleType DEF InFlight
  <2>3. /\ bal' \in [Account -> Nat] /\ lck' \in [Account -> Nat]
        /\ \A a \in Account \ {r.acct} : lck'[a] = lck[a]
        /\ lck'[r.acct] >= lck[r.acct] - r.amt
    <3>1. CASE UNCHANGED redis
      BY <1>0, <1>00, <3>1 DEF redis
    <3>2. CASE BalanceUnlock(r.acct, r.amt)
      <4>1. Num(lck[r.acct]) = lck[r.acct]
        BY <1>0, <1>00, AbsentAssumption DEF Num
      <4>2. /\ Monus(lck[r.acct], r.amt) \in Nat
            /\ Monus(lck[r.acct], r.amt) >= lck[r.acct] - r.amt
        BY <1>0, <1>00 DEF Monus
      <4> QED
        BY <1>0, <1>00, <3>2, <4>1, <4>2 DEF BalanceUnlock
    <3> QED
      BY <1>4, <3>1, <3>2 DEF UndoLock
  <2>4. \A a \in Account : InFlight(req'[p], a) - lck'[a] <= InFlight(req[p], a) - lck[a]
    BY <1>0, <1>00, <2>2, <2>3
  <2> QED
    BY <2>1, <2>3, <2>4, IdleType, LockStep
<1>5. CASE RejectTx(p)
  <2> DEFINE w == r.ref
  <2>1. /\ w \in Withdrawal /\ OthersWait(p) /\ req'[p] = Idle /\ r.pc = "rejectTx"
        /\ UNCHANGED <<bal, lck, hold, warm>>
    BY <1>0, <1>5, FinishShape DEF RejectTx, RequestTypes, redis
  <2>2. /\ \A v \in Withdrawal \ {w} : withdrawal'[v] = withdrawal[v]
        /\ withdrawal'[w].status = "REJECTED" \/ withdrawal'[w] = withdrawal[w]
    BY <1>0, <1>5, <2>1 DEF RejectTx, RowTypes, WithdrawalRow
  <2>3. \A a \in Account : /\ InFlight(req'[p], a) = 0 /\ InFlight(r, a) \in Nat
                           /\ Reserved(withdrawal[w], a) \in Nat
    BY <1>0, <2>1, IdleType DEF InFlight, RowTypes, WithdrawalRow, Reserved
  <2>4. \A a \in Account : Reserved(withdrawal'[w], a) <= Reserved(withdrawal[w], a)
    BY <2>2, <2>3 DEF Reserved, Live
  <2>5. \A a \in Account : Reserved(withdrawal'[w], a) \in Nat
    BY <2>2, <2>3 DEF Reserved, Live
  <2>6. \A a \in Account : Reserved(withdrawal'[w], a) + InFlight(req'[p], a)
                                <= Reserved(withdrawal[w], a) + InFlight(req[p], a)
    BY <2>3, <2>4, <2>5
  <2> QED
    BY <2>1, <2>2, <2>6, IdleType, RowStep
<1> QED
  BY <1>1, <1>2, <1>3, <1>4, <1>5

LEMMA DepositKeeps ==
    ASSUME LockInv, TypeOK', NEW p \in Proc, ConfirmTx(p) \/ ConfirmCredit(p)
    PROVE  KeysStayWarm' /\ LockShape' /\ LocksCover'
<1> DEFINE r == req[p]
<1> USE DEF Locking
<1>0. RequestTypes /\ r \in Request /\ r.acct \in Account /\ r.amt \in Nat
  BY DEF LockInv, TypeOK, RequestTypes, Request
<1>1. CASE ConfirmTx(p)
  <2>1. OthersWait(p) /\ \/ req'[p] = Idle
                         \/ /\ req'[p].pc = "credit" /\ req'[p].op = r.op
                            /\ req'[p].acct = r.acct /\ req'[p].ref = r.ref
    BY <1>0, <1>1, GotoShape, FinishShape DEF ConfirmTx
  <2>2. r.op = "lock" => r.acct = HoldAcct[r.ref]
    BY DEF LockInv, LockShape
  <2>3. UNCHANGED <<lck, hold, withdrawal>> /\ bal' = bal /\ UNCHANGED warm
    BY <1>1 DEF ConfirmTx, redis
  <2> QED
    BY <2>1, <2>2, <2>3, IdleType, WarmBalances, QuietStep
<1>2. CASE ConfirmCredit(p)
  <2>1. OthersWait(p) /\ req'[p] = Idle
    BY <1>0, <1>2, FinishShape DEF ConfirmCredit
  <2>2. bal' \in [Account -> Nat]
    <3>1. CASE BalanceCredit(r.acct, r.amt)
      <4>1. bal \in [Account -> Nat] /\ Num(bal[r.acct]) = bal[r.acct]
        BY <1>0, WarmBalances, AbsentAssumption DEF Num
      <4> QED
        BY <1>0, <3>1, <4>1 DEF BalanceCredit
    <3> QED
      BY <1>2, <3>1, WarmBalances DEF ConfirmCredit, redis
  <2>3. UNCHANGED <<lck, hold, withdrawal>> /\ UNCHANGED warm
    BY <1>2 DEF ConfirmCredit, BalanceCredit, redis, rows
  <2> QED
    BY <2>1, <2>2, <2>3, IdleType, QuietStep
<1> QED
  BY <1>1, <1>2

(* Steps of nobody's request: nothing a claim depends on changes, except   *)
(* that an approval keeps what the withdrawal reserves.                    *)
LEMMA AdminKeeps ==
    ASSUME LockInv, Admin
    PROVE  KeysStayWarm' /\ LockShape' /\ LocksCover'
<1>1. UNCHANGED <<bal, lck, req, warm, hold>>
  BY DEF Admin, AdminApproveWithdrawal, AdminRejectDeposit, CreateDeposit, money
<1>2. \A w \in Withdrawal, a \in Account : Reserved(withdrawal'[w], a) = Reserved(withdrawal[w], a)
  <2>1. withdrawal \in [Withdrawal -> WithdrawalRow]
    BY DEF LockInv, TypeOK, RowTypes
  <2>2. ASSUME NEW w \in Withdrawal, AdminApproveWithdrawal(w)
        PROVE  \A v \in Withdrawal, a \in Account : Reserved(withdrawal'[v], a) = Reserved(withdrawal[v], a)
    <3>1. /\ withdrawal[w].status = "PENDING" /\ withdrawal'[w].status = "APPROVED"
          /\ withdrawal'[w].acct = withdrawal[w].acct /\ withdrawal'[w].usdt = withdrawal[w].usdt
          /\ \A v \in Withdrawal \ {w} : withdrawal'[v] = withdrawal[v]
      BY <2>1, <2>2 DEF AdminApproveWithdrawal, WithdrawalRow
    <3> QED
      BY <3>1 DEF Reserved, Live
  <2>3. CASE UNCHANGED withdrawal
    BY <2>3
  <2> QED
    BY <2>2, <2>3 DEF Admin, AdminRejectDeposit, CreateDeposit
<1>3. \A a \in Account : /\ HoldsOn(a)' = HoldsOn(a)
                         /\ WithdrawalsOn(a)' = WithdrawalsOn(a)
                         /\ InFlightOn(a)' = InFlightOn(a)
  BY <1>1, <1>2 DEF HoldsOn, WithdrawalsOn, InFlightOn
<1>4. LocksCover'
  BY <1>1, <1>3 DEF LockInv, LocksCover
<1> QED
  BY <1>1, <1>4 DEF LockInv, KeysStayWarm, LockShape

LEMMA WarmUpKeeps ==
    ASSUME LockInv, WarmUp, "get" \notin Faults
    PROVE  KeysStayWarm' /\ LockShape' /\ LocksCover'
<1>1. warm \in Warmer /\ \A a \in Account : bal[a] # Absent /\ lck[a] # Absent
  BY AbsentAssumption DEF LockInv, TypeOK, KeysStayWarm
<1>2. warm'.pc \notin {"setBal", "setLck"} /\ UNCHANGED <<bal, lck, req, hold, withdrawal>>
  <2>1. CASE WarmRows
    BY <1>1, <2>1 DEF WarmRows, Warmer, money, rows
  <2>2. ASSUME NEW a \in Account, WarmGetBal(a)
        PROVE  warm'.pc \notin {"setBal", "setLck"} /\ UNCHANGED <<bal, lck, req, hold, withdrawal>>
    BY <1>1, <2>2 DEF WarmGetBal, Warmer, money, rows
  <2>3. CASE WarmGetLck
    <3>1. warm' = WarmNext
      BY <1>1, <2>3 DEF WarmGetLck, Warmer
    <3> QED
      BY <1>1, <2>3, <3>1 DEF WarmGetLck, WarmNext, WarmOff, Warmer, money, rows
  <2>4. ~WarmSetBal /\ ~WarmSetLck
    BY DEF LockInv, KeysStayWarm, WarmSetBal, WarmSetLck
  <2> QED
    BY <2>1, <2>2, <2>3, <2>4 DEF WarmUp
<1>3. \A a \in Account : /\ HoldsOn(a)' = HoldsOn(a)
                         /\ WithdrawalsOn(a)' = WithdrawalsOn(a)
                         /\ InFlightOn(a)' = InFlightOn(a)
  BY <1>2 DEF HoldsOn, WithdrawalsOn, InFlightOn
<1> QED
  BY <1>2, <1>3 DEF LockInv, KeysStayWarm, LockShape, LocksCover

LEMMA BackgroundKeeps ==
    ASSUME LockInv, TypeOK', Background, "flush" \notin Faults
    PROVE  KeysStayWarm' /\ LockShape' /\ LocksCover'
<1>1. CASE Project \/ LoseEvent \/ RefreshRate
  <2>1. UNCHANGED <<bal, lck, req, warm, hold, withdrawal>>
    BY <1>1 DEF Project, LoseEvent, RefreshRate, redis, money, rows
  <2>2. \A a \in Account : /\ HoldsOn(a)' = HoldsOn(a)
                           /\ WithdrawalsOn(a)' = WithdrawalsOn(a)
                           /\ InFlightOn(a)' = InFlightOn(a)
    BY <2>1 DEF HoldsOn, WithdrawalsOn, InFlightOn
  <2> QED
    BY <2>1, <2>2 DEF LockInv, KeysStayWarm, LockShape, LocksCover
<1>2. CASE Restart
  <2>1. /\ UNCHANGED <<bal, lck, hold, withdrawal>> /\ warm'.pc = "rows"
        /\ \A p \in Proc : req'[p] = Idle
    BY <1>2 DEF Restart, WarmOff, redis, rows
  <2>2. KeysStayWarm' /\ LockShape'
    BY <2>1, IdleType DEF LockInv, KeysStayWarm, LockShape
  <2>3. ASSUME NEW a \in Account
        PROVE  Total(HoldsOn(a))' + Total(WithdrawalsOn(a))' + Total(InFlightOn(a))' <= Num(lck'[a])
    <3>1. HoldsOn(a)' = HoldsOn(a) /\ WithdrawalsOn(a)' = WithdrawalsOn(a)
      BY <2>1 DEF HoldsOn, WithdrawalsOn
    <3>2. InFlightOn(a)' \in [Proc -> Nat] /\ \A p \in Proc : InFlightOn(a)'[p] = 0
      BY <2>1, IdleType DEF InFlightOn, InFlight, Locking
    <3>3. Total(InFlightOn(a)') = 0
      BY <3>2, TotalZero, FiniteAssumption
    <3>4. /\ Total(HoldsOn(a)) \in Nat /\ Total(WithdrawalsOn(a)) \in Nat /\ Total(InFlightOn(a)) \in Nat
          /\ lck[a] \in Nat /\ Num(lck[a]) = lck[a]
      BY ClaimTypes, AbsentAssumption DEF LockInv, KeysStayWarm, Num
    <3>5. Total(HoldsOn(a)) + Total(WithdrawalsOn(a)) + Total(InFlightOn(a)) <= Num(lck[a])
      BY DEF LockInv, LocksCover
    <3> QED
      BY <2>1, <3>1, <3>3, <3>4, <3>5
  <2> QED
    BY <2>2, <2>3 DEF LocksCover
<1>3. ~RedisFlush
  BY DEF RedisFlush
<1> QED
  BY <1>1, <1>2, <1>3 DEF Background

LEMMA LockInit == ASSUME Init, here.warm PROVE LockInv
<1>1. TypeOK
  <2>1. StoreTypes
    BY NumberAssumption DEF Init, InitRows, StoreTypes
  <2> QED
    BY <2>1, TypeInit DEF Init
<1>2. KeysStayWarm /\ LockShape
  BY IdleType, NumberAssumption DEF Init, InitRows, KeysStayWarm, LockShape, WarmOff
<1>3. ASSUME NEW a \in Account
      PROVE  Total(HoldsOn(a)) + Total(WithdrawalsOn(a)) + Total(InFlightOn(a)) <= Num(lck[a])
  <2>1. /\ HoldsOn(a) \in [Hold -> Nat] /\ WithdrawalsOn(a) \in [Withdrawal -> Nat]
        /\ InFlightOn(a) \in [Proc -> Nat]
    BY <1>1, ClaimTypes
  <2>2. /\ \A h \in Hold : HoldsOn(a)[h] = 0
        /\ \A w \in Withdrawal : WithdrawalsOn(a)[w] = 0
        /\ \A p \in Proc : InFlightOn(a)[p] = 0
    BY IdleType DEF Init, InitRows, HoldsOn, WithdrawalsOn, Reserved, Live, InFlightOn, InFlight, Locking
  <2>3. Total(HoldsOn(a)) = 0 /\ Total(WithdrawalsOn(a)) = 0 /\ Total(InFlightOn(a)) = 0
    BY <2>1, <2>2, TotalZero, FiniteAssumption
  <2>4. Num(lck[a]) = 0
    BY AbsentAssumption DEF Init, Num
  <2> QED
    BY <2>3, <2>4
<1> QED
  BY <1>1, <1>2, <1>3 DEF LockInv, LocksCover

LEMMA LockInvStep ==
    ASSUME LockInv, [Next]_vars, RedisHolds
    PROVE  LockInv'
<1>0. "get" \notin Faults /\ "flush" \notin Faults
  BY DEF RedisHolds
<1>1. TypeOK'
  BY TypeStep DEF LockInv
<1>2. CASE UNCHANGED vars
  <2>1. UNCHANGED <<bal, lck, req, warm, hold, withdrawal>>
    BY <1>2 DEF vars, money, rows
  <2>2. \A a \in Account : /\ HoldsOn(a)' = HoldsOn(a)
                           /\ WithdrawalsOn(a)' = WithdrawalsOn(a)
                           /\ InFlightOn(a)' = InFlightOn(a)
    BY <2>1 DEF HoldsOn, WithdrawalsOn, InFlightOn
  <2> QED
    BY <1>1, <2>1, <2>2 DEF LockInv, KeysStayWarm, LockShape, LocksCover
<1>3. ASSUME NEW p \in Proc, Arrive(p) PROVE LockInv'
  BY <1>1, <1>3, ArriveKeeps DEF LockInv
<1>4. ASSUME NEW p \in Proc, Serve(p) PROVE LockInv'
  BY <1>1, <1>0, <1>4, EnsureKeeps, ScriptKeeps, PublishKeeps, WithdrawKeeps, DepositKeeps
     DEF LockInv, Serve
<1>5. CASE Admin
  BY <1>1, <1>5, AdminKeeps DEF LockInv
<1>6. CASE WarmUp
  BY <1>1, <1>0, <1>6, WarmUpKeeps DEF LockInv
<1>7. CASE Background
  BY <1>1, <1>0, <1>7, BackgroundKeeps DEF LockInv
<1> QED
  BY <1>2, <1>3, <1>4, <1>5, <1>6, <1>7 DEF Next

(* No step leaves the situation. *)
LEMMA HereStays == ASSUME [Next]_vars PROVE here' = here
<1>1. CASE UNCHANGED vars
  BY <1>1 DEF vars, count
<1>2. ASSUME NEW p \in Proc, Arrive(p) PROVE here' = here
  BY <1>2 DEF Arrive, UpdateBalanceRedis, LockBalanceRedis, UnlockBalanceRedis, CreateWithdrawal,
              AdminRejectWithdrawal, ConfirmDeposit, count
<1>3. ASSUME NEW p \in Proc, Serve(p) PROVE here' = here
  BY <1>3 DEF Serve, EnsureGet, EnsureFind, EnsureSetBal, EnsureSetLck, Script, ScriptError, Publish,
              CapGetBalance, CapGetLocked, WithdrawalTx, UndoLock, RejectTx, ConfirmTx, ConfirmCredit,
              count
<1>4. CASE Admin
  BY <1>4 DEF Admin, AdminApproveWithdrawal, AdminRejectDeposit, CreateDeposit, count
<1>5. CASE WarmUp
  BY <1>5 DEF WarmUp, WarmRows, WarmGetBal, WarmSetBal, WarmGetLck, WarmSetLck, count
<1>6. CASE Background
  BY <1>6 DEF Background, Project, LoseEvent, RefreshRate, Restart, RedisFlush, count
<1> QED
  BY <1>1, <1>2, <1>3, <1>4, <1>5, <1>6 DEF Next

(* Once Redis holds the wallets, and as long as it answers and keeps its   *)
(* data, the locks cover every open order, position and live withdrawal:   *)
(* for any number of requests, restarts, refused scripts, lost or late     *)
(* events and failed transactions, no sequence of wallet-service steps     *)
(* releases funds that someone still counts on.                            *)
THEOREM LocksCoverClaims == Spec => []LockedCoversClaims
<1> DEFINE Inv == RedisHolds => LockInv
<1>1. Init => Inv
  BY LockInit DEF RedisHolds
<1>2. Inv /\ [Next]_vars => Inv'
  BY LockInvStep, HereStays DEF RedisHolds, Faults
<1>3. Inv => LockedCoversClaims
  BY DEF LockInv, LockedCoversClaims
<1> QED
  BY <1>1, <1>2, <1>3, PTL DEF Spec

-----------------------------------------------------------------------------
(* Sums over the events in flight *)

(* The sum of the weights W of the first k members of a sequence. *)
SumTo(W, s, k) == Sum([i \in DOMAIN s |-> W[s[i]]], 1..k)

LEMMA SumToType ==
    ASSUME NEW E, NEW W \in [E -> Int], NEW s \in Seq(E), NEW k \in 0..Len(s)
    PROVE  SumTo(W, s, k) \in Int
<1>1. IsFiniteSet(1..k) /\ \A i \in 1..k : [j \in DOMAIN s |-> W[s[j]]][i] \in Int
  BY FS_Interval
<1> QED
  BY <1>1, SumType DEF SumTo

LEMMA SumToNone == ASSUME NEW W, NEW s PROVE SumTo(W, s, 0) = 0
<1>1. 1..0 = {}
  OBVIOUS
<1> QED
  BY <1>1, SumEmpty DEF SumTo

LEMMA SumToNext ==
    ASSUME NEW E, NEW W \in [E -> Int], NEW s \in Seq(E), NEW k \in 0..Len(s), k < Len(s)
    PROVE  SumTo(W, s, k + 1) = SumTo(W, s, k) + W[s[k + 1]]
<1> DEFINE f == [j \in DOMAIN s |-> W[s[j]]]
<1>1. IsFiniteSet(1..k) /\ \A i \in 1..k : f[i] \in Int
  <2>1. \A i \in 1..k : i \in DOMAIN s /\ s[i] \in E
    OBVIOUS
  <2>2. IsFiniteSet(1..k)
    BY FS_Interval
  <2> QED
    BY <2>1, <2>2
<1>2. k + 1 \notin 1..k /\ f[k + 1] \in Int /\ f[k + 1] = W[s[k + 1]] /\ (1..k) \cup {k + 1} = 1..(k + 1)
  OBVIOUS
<1> HIDE DEF f
<1>3. Sum(f, (1..k) \cup {k + 1}) = Sum(f, 1..k) + f[k + 1]
  <2>1. PICK S, x : S = 1..k /\ x = k + 1
    OBVIOUS
  <2>2. IsFiniteSet(S) /\ (\A y \in S : f[y] \in Int) /\ x \notin S /\ f[x] \in Int
    BY <1>1, <1>2, <2>1
  <2>3. Sum(f, S \cup {x}) = Sum(f, S) + f[x]
    BY ONLY <2>2, SumAdd
  <2> QED
    BY <2>1, <2>3
<1> QED
  BY <1>2, <1>3 DEF SumTo, f

(* The first members do not change when one is appended, and the members   *)
(* of the tail are those after the first.                                  *)
LEMMA SumToAppend ==
    ASSUME NEW E, NEW W \in [E -> Int], NEW s \in Seq(E), NEW e \in E, NEW k \in 0..Len(s)
    PROVE  SumTo(W, Append(s, e), k) = SumTo(W, s, k)
<1> DEFINE f == [j \in DOMAIN s |-> W[s[j]]]
           g == [j \in DOMAIN Append(s, e) |-> W[Append(s, e)[j]]]
<1>1. IsFiniteSet(1..k) /\ \A i \in 1..k : f[i] \in Int /\ f[i] = g[i]
  <2>1. \A i \in 1..k : /\ i \in DOMAIN s /\ s[i] \in E
                        /\ i \in DOMAIN Append(s, e) /\ Append(s, e)[i] = s[i]
    OBVIOUS
  <2>2. IsFiniteSet(1..k)
    BY FS_Interval
  <2>3. \A i \in 1..k : f[i] = W[s[i]] /\ g[i] = W[s[i]] /\ W[s[i]] \in Int
    BY <2>1
  <2> QED
    BY <2>2, <2>3
<1> HIDE DEF f, g
<1>2. Sum(f, 1..k) = Sum(g, 1..k)
  BY <1>1, SumSame
<1> QED
  BY <1>2 DEF SumTo, f, g

LEMMA SumToAll ==
    ASSUME NEW E, NEW W \in [E -> Int], NEW s \in Seq(E), NEW e \in E
    PROVE  SumTo(W, Append(s, e), Len(s) + 1) = SumTo(W, s, Len(s)) + W[e]
<1> DEFINE t == Append(s, e)
<1>1. t \in Seq(E) /\ Len(t) = Len(s) + 1 /\ t[Len(s) + 1] = e /\ Len(s) \in 0..Len(t)
  OBVIOUS
<1>2. SumTo(W, t, Len(s)) = SumTo(W, s, Len(s))
  <2>1. Len(s) \in 0..Len(s)
    OBVIOUS
  <2> QED
    BY <2>1, SumToAppend
<1> HIDE DEF t
<1>3. SumTo(W, t, Len(s) + 1) = SumTo(W, t, Len(s)) + W[t[Len(s) + 1]]
  <2>1. Len(s) < Len(t)
    BY <1>1
  <2> QED
    BY <1>1, <2>1, SumToNext
<1> QED
  BY <1>1, <1>2, <1>3 DEF t

LEMMA SumToTail ==
    ASSUME NEW E, NEW W \in [E -> Int], NEW s \in Seq(E), s # <<>>, NEW k \in 0..Len(Tail(s))
    PROVE  SumTo(W, s, k + 1) = W[Head(s)] + SumTo(W, Tail(s), k)
<1> DEFINE t == Tail(s)
           G == {n \in Nat : n <= Len(t) => SumTo(W, s, n + 1) = W[Head(s)] + SumTo(W, t, n)}
<1>1. t \in Seq(E) /\ Len(s) = Len(t) + 1 /\ Len(t) \in Nat /\ Head(s) = s[1] /\ s[1] \in E
      /\ W[Head(s)] \in Int
  OBVIOUS
<1>2. \A i \in 1..Len(t) : t[i] = s[i + 1]
  OBVIOUS
<1> HIDE DEF t
<1>3. 0 \in G
  <2>1. 0 \in 0..Len(s) /\ 0 < Len(s)
    BY <1>1
  <2>2. SumTo(W, s, 0 + 1) = SumTo(W, s, 0) + W[s[0 + 1]]
    BY <2>1, SumToNext
  <2>3. SumTo(W, s, 0) = 0 /\ SumTo(W, t, 0) = 0
    BY SumToNone
  <2>4. SumTo(W, s, 0 + 1) = W[Head(s)] + SumTo(W, t, 0)
    BY <1>1, <2>2, <2>3
  <2> QED
    BY <2>4
<1>4. ASSUME NEW n \in Nat, n \in G PROVE n + 1 \in G
  <2> SUFFICES ASSUME n + 1 <= Len(t) PROVE SumTo(W, s, (n + 1) + 1) = W[Head(s)] + SumTo(W, t, n + 1)
    OBVIOUS
  <2>1. SumTo(W, s, n + 1) = W[Head(s)] + SumTo(W, t, n)
    BY <1>1, <1>4
  <2>2. n + 1 \in 0..Len(s) /\ n + 1 < Len(s)
    BY <1>1
  <2>3. SumTo(W, s, (n + 1) + 1) = SumTo(W, s, n + 1) + W[s[(n + 1) + 1]]
    BY <2>2, SumToNext
  <2>4. n \in 0..Len(t) /\ n < Len(t)
    BY <1>1
  <2>5. SumTo(W, t, n + 1) = SumTo(W, t, n) + W[t[n + 1]]
    BY <1>1, <2>4, SumToNext
  <2>6. t[n + 1] = s[(n + 1) + 1] /\ W[t[n + 1]] \in Int
    BY <1>1, <1>2
  <2>7. SumTo(W, t, n) \in Int
    BY <1>1, <2>4, SumToType
  <2> HIDE DEF G
  <2> QED
    BY <1>1, <2>1, <2>3, <2>5, <2>6, <2>7
<1>5. k \in G
  <2>1. k \in Nat
    BY <1>1 DEF t
  <2> HIDE DEF G
  <2> QED
    BY <1>3, <1>4, <2>1, NatInduct
<1>6. k <= Len(t)
  BY DEF t
<1> QED
  BY <1>5, <1>6 DEF t

-----------------------------------------------------------------------------
(* Requests, step by step *)

Rest == {"check", "credit", "deduct", "lock", "withdraw"}
ShapeAt(r) ==
    /\ r.pc \in {"get", "find", "setBal", "setLck"} => r.op \in Rest \cup {"cap"}
    /\ r.pc \in {"capBal", "capLck"} => r.op = "cap"
    /\ r.pc = "script" => r.op \in Rest \cup {"unlock"}
    /\ r.pc = "publish" => r.op \in {"credit", "deduct", "lock", "unlock"}
    /\ r.pc \in {"dbLock", "undo"} => r.op = "withdraw"
    /\ r.pc \in {"confirmTx", "credit"} => r.op = "confirm"
    /\ r.pc = "rejectTx" => r.op = "reject"
    /\ r.pc = "idle" => r.op = "none"
Shape(r) ==
    /\ ShapeAt(r)
    /\ r.op = "lock" => r.acct = HoldAcct[r.ref]
    /\ r.op \in Rest \cup {"unlock", "cap"} => r.amt > 0
BaseInv ==
    TypeOK /\ \A p \in Proc : Shape(req[p]) /\ (req[p].pc # "idle" => p \in here.procs)

(* What a step of a request leaves of it, until it ends. *)
Keeps(r, t) == t.acct = r.acct /\ t.amt = r.amt /\ t.ref = r.ref /\ t.vnd = r.vnd
Advances(r, t) ==
    \/ t.op = r.op /\ <<r.pc, t.pc>> \in
          {<<"get", "find">>, <<"find", "setBal">>, <<"setBal", "setLck">>, <<"capBal", "capLck">>,
           <<"dbLock", "undo">>, <<"confirmTx", "credit">>}
    \/ /\ t.op = r.op /\ t.pc = Cached(r) /\ r.pc \in {"get", "find", "setLck"}
    \/ /\ t.op = r.op /\ r.pc = "script" /\ t.pc = "publish" /\ r.op \notin {"check", "withdraw"}
    \/ /\ t.op = r.op /\ r.pc = "script" /\ t.pc = "dbLock" /\ r.op = "withdraw"
    \/ r.pc = "capLck" /\ t.pc = "get" /\ t.op = "withdraw"
Served(p) ==
    /\ OthersWait(p) /\ req[p].pc # "idle"
    /\ req'[p] = Idle \/ (Keeps(req[p], req'[p]) /\ Advances(req[p], req'[p]))

LEMMA GotoKeeps ==
    ASSUME TypeOK, NEW p \in Proc, NEW l, Goto(p, l)
    PROVE  /\ OthersWait(p) /\ Keeps(req[p], req'[p])
           /\ req'[p].pc = l /\ req'[p].op = req[p].op
BY DEF Goto, TypeOK, RequestTypes, Request, OthersWait, Keeps

LEMMA FinishKeeps ==
    ASSUME TypeOK, NEW p \in Proc, Finish(p) PROVE OthersWait(p) /\ req'[p] = Idle
BY FinishShape DEF TypeOK

LEMMA AfterErrorKeeps ==
    ASSUME TypeOK, NEW p \in Proc, AfterError(p), req[p].pc = "script" PROVE Served(p)
BY GotoKeeps, FinishKeeps DEF AfterError, Served, Advances

LEMMA ServeStep == ASSUME TypeOK, NEW p \in Proc, Serve(p) PROVE Served(p)
<1>0. req \in [Proc -> Request] /\ req[p] \in Request
  BY DEF TypeOK, RequestTypes
<1>1. CASE EnsureGet(p)
  BY <1>1, GotoKeeps DEF EnsureGet, Served, Advances
<1>2. CASE EnsureFind(p)
  <2>1. CASE Goto(p, Cached(req[p]))
    BY <1>2, <2>1, GotoKeeps DEF EnsureFind, Served, Advances
  <2>2. CASE req' = [req EXCEPT ![p].pc = "setBal", ![p].snapBal = dbBal[req[p].acct],
                                ![p].snapLck = dbLck[req[p].acct]]
    <3>1. OthersWait(p) /\ Keeps(req[p], req'[p]) /\ req'[p].pc = "setBal" /\ req'[p].op = req[p].op
      BY <1>0, <2>2 DEF OthersWait, Keeps, Request
    <3> QED
      BY <1>2, <3>1 DEF EnsureFind, Served, Advances
  <2> QED
    BY <1>2, <2>1, <2>2 DEF EnsureFind
<1>3. CASE EnsureSetBal(p) \/ EnsureSetLck(p)
  BY <1>3, GotoKeeps DEF EnsureSetBal, EnsureSetLck, Served, Advances
<1>4. CASE Script(p)
  <2>1. CASE RunScript(req[p]) /\ Goto(p, AfterScript(req[p]))
    <3>1. req[p].op # "check" /\ req[p].pc = "script"
      BY <1>4, <2>1 DEF Script, RunScript
    <3>2. OthersWait(p) /\ Keeps(req[p], req'[p]) /\ req'[p].pc = AfterScript(req[p]) /\ req'[p].op = req[p].op
      BY <2>1, GotoKeeps
    <3> QED
      BY <3>1, <3>2 DEF Served, Advances, AfterScript
  <2>2. CASE AfterError(p)
    BY <1>4, <2>2, AfterErrorKeeps DEF Script
  <2>3. CASE Finish(p)
    BY <1>4, <2>3, FinishKeeps DEF Script, Served
  <2> QED
    BY <1>4, <2>1, <2>2, <2>3 DEF Script
<1>5. CASE ScriptError(p)
  BY <1>5, AfterErrorKeeps DEF ScriptError
<1>6. CASE Publish(p) \/ UndoLock(p) \/ RejectTx(p) \/ ConfirmCredit(p)
  BY <1>6, FinishKeeps DEF Publish, UndoLock, RejectTx, ConfirmCredit, Served
<1>7. CASE CapGetBalance(p)
  <2>1. PICK seen : req' = [req EXCEPT ![p].pc = "capLck", ![p].snapBal = seen]
    BY <1>7 DEF CapGetBalance
  <2>2. OthersWait(p) /\ Keeps(req[p], req'[p]) /\ req'[p].pc = "capLck" /\ req'[p].op = req[p].op
    BY <1>0, <2>1 DEF OthersWait, Keeps, Request
  <2> QED
    BY <1>7, <2>2 DEF CapGetBalance, Served, Advances
<1>8. CASE CapGetLocked(p)
  <2>1. CASE Finish(p)
    BY <1>8, <2>1, FinishKeeps DEF CapGetLocked, Served
  <2>2. CASE req' = [req EXCEPT ![p].pc = "get", ![p].op = "withdraw"]
    <3>1. OthersWait(p) /\ Keeps(req[p], req'[p]) /\ req'[p].pc = "get" /\ req'[p].op = "withdraw"
      BY <1>0, <2>2 DEF OthersWait, Keeps, Request
    <3> QED
      BY <1>8, <3>1 DEF CapGetLocked, Served, Advances
  <2> QED
    BY <1>8, <2>1, <2>2 DEF CapGetLocked
<1>9. CASE WithdrawalTx(p)
  BY <1>9, GotoKeeps, FinishKeeps DEF WithdrawalTx, Served, Advances
<1>10. CASE ConfirmTx(p)
  BY <1>10, GotoKeeps, FinishKeeps DEF ConfirmTx, Served, Advances
<1> QED
  BY <1>1, <1>2, <1>3, <1>4, <1>5, <1>6, <1>7, <1>8, <1>9, <1>10 DEF Serve

LEMMA ServedShape ==
    ASSUME BaseInv, TypeOK', NEW p \in Proc, Served(p), here' = here PROVE BaseInv'
<1>1. Shape(req[p]) /\ p \in here.procs
  BY DEF BaseInv, Served
<1>2. Shape(req'[p])
  <2>1. CASE req'[p] = Idle
    BY <2>1, IdleType DEF Shape, ShapeAt, Rest
  <2>2. CASE Keeps(req[p], req'[p]) /\ Advances(req[p], req'[p])
    <3>1. ShapeAt(req'[p])
      BY <1>1, <2>2 DEF Advances, Shape, ShapeAt, Rest, Cached
    <3>2. req'[p].op = req[p].op \/ (req[p].op = "cap" /\ req'[p].op = "withdraw")
      BY <1>1, <2>2 DEF Advances, Shape, ShapeAt
    <3> QED
      BY <1>1, <2>2, <3>1, <3>2 DEF Keeps, Shape, Rest
  <2> QED
    BY <2>1, <2>2 DEF Served
<1> QED
  BY <1>1, <1>2 DEF BaseInv, Served, OthersWait

(* A request that begins. *)
LEMMA BeginStep ==
    ASSUME TypeOK, NEW p \in Proc, NEW l, NEW op, NEW a, NEW n, NEW ref, NEW vnd,
           Begin(p, l, op, a, n, ref, vnd)
    PROVE  /\ OthersWait(p) /\ req[p].pc = "idle"
           /\ req'[p].pc = l /\ req'[p].op = op /\ req'[p].acct = a /\ req'[p].amt = n
           /\ req'[p].ref = ref /\ req'[p].vnd = vnd
<1>1. req'[p].vnd = vnd
  BY DEF Begin, TypeOK, RequestTypes, Idle
<1> QED
  BY <1>1, BeginShape DEF TypeOK

LEMMA ArriveBase ==
    ASSUME BaseInv, TypeOK', NEW p \in Proc, Arrive(p), here' = here PROVE BaseInv'
<1>1. p \in here.procs /\ TypeOK
  BY DEF Arrive, BaseInv
<1>2. ASSUME OthersWait(p), Shape(req'[p]) PROVE BaseInv'
  BY <1>1, <1>2 DEF OthersWait, BaseInv
<1>3. ASSUME NEW a \in Account, NEW n \in Amount, NEW op \in Op, UpdateBalanceRedis(p, op, a, n)
      PROVE  BaseInv'
  <2>1. OthersWait(p) /\ req'[p].pc = "get" /\ req'[p].op = op /\ req'[p].amt = n
    BY <1>1, <1>3, BeginStep DEF UpdateBalanceRedis
  <2>2. op \in {"credit", "deduct", "check"}
    BY <1>3 DEF UpdateBalanceRedis
  <2> QED
    BY <1>2, <2>1, <2>2, AmountType DEF Shape, ShapeAt, Rest
<1>4. ASSUME NEW h \in Hold, NEW n \in Amount, LockBalanceRedis(p, h, n)
      PROVE  BaseInv'
  <2>1. /\ OthersWait(p) /\ req'[p].pc = "get" /\ req'[p].op = "lock" /\ req'[p].amt = n
        /\ req'[p].acct = HoldAcct[h] /\ req'[p].ref = h
    BY <1>1, <1>4, BeginStep DEF LockBalanceRedis
  <2> QED
    BY <1>2, <2>1, AmountType DEF Shape, ShapeAt, Rest
<1>5. ASSUME NEW h \in Hold, NEW n \in Amount, UnlockBalanceRedis(p, h, n)
      PROVE  BaseInv'
  <2>1. OthersWait(p) /\ req'[p].pc = "script" /\ req'[p].op = "unlock" /\ req'[p].amt = n
    BY <1>1, <1>5, BeginStep DEF UnlockBalanceRedis
  <2> QED
    BY <1>2, <2>1, AmountType DEF Shape, ShapeAt, Rest
<1>6. ASSUME NEW w \in Withdrawal, NEW a \in Account, NEW n \in Amount, CreateWithdrawal(p, w, a, n)
      PROVE  BaseInv'
  <2>1. PICK op \in {"cap", "withdraw"} : Begin(p, "get", op, a, n, w, n * rate)
    BY <1>6 DEF CreateWithdrawal
  <2>2. OthersWait(p) /\ req'[p].pc = "get" /\ req'[p].op = op /\ req'[p].amt = n
    BY <1>1, <2>1, BeginStep
  <2> QED
    BY <1>2, <2>2, AmountType DEF Shape, ShapeAt, Rest
<1>7. ASSUME NEW w \in Withdrawal, AdminRejectWithdrawal(p, w)
      PROVE  BaseInv'
  <2>1. OthersWait(p) /\ req'[p].pc = "rejectTx" /\ req'[p].op = "reject"
    BY <1>1, <1>7, BeginStep DEF AdminRejectWithdrawal
  <2> QED
    BY <1>2, <2>1 DEF Shape, ShapeAt, Rest
<1>8. ASSUME NEW d \in Deposit, ConfirmDeposit(p, d)
      PROVE  BaseInv'
  <2>1. OthersWait(p) /\ req'[p].pc = "confirmTx" /\ req'[p].op = "confirm"
    BY <1>1, <1>8, BeginStep DEF ConfirmDeposit
  <2> QED
    BY <1>2, <2>1 DEF Shape, ShapeAt, Rest
<1> QED
  BY <1>1, <1>3, <1>4, <1>5, <1>6, <1>7, <1>8, HereTypes DEF Arrive

LEMMA BaseInit == ASSUME Init PROVE BaseInv
<1>1. TypeOK
  <2>1. StoreTypes
    BY NumberAssumption DEF Init, InitRows, StoreTypes
  <2> QED
    BY <2>1, TypeInit DEF Init
<1>2. \A p \in Proc : req[p] = Idle
  BY DEF Init, InitRows
<1> QED
  BY <1>1, <1>2, IdleType DEF BaseInv, Shape, ShapeAt, Rest

(* Steps of nobody's request. *)
Others == Admin \/ WarmUp \/ Background
LEMMA OthersBase == ASSUME Others PROVE req' = req \/ (Restart /\ req' = [p \in Proc |-> Idle])
BY DEF Others, Admin, AdminApproveWithdrawal, AdminRejectDeposit, CreateDeposit, WarmUp, WarmRows,
       WarmGetBal, WarmSetBal, WarmGetLck, WarmSetLck, Background, Project, LoseEvent, RefreshRate,
       Restart, RedisFlush

LEMMA BaseStep == ASSUME BaseInv, [Next]_vars PROVE BaseInv'
<1>1. TypeOK' /\ here' = here
  BY TypeStep, HereStays DEF BaseInv
<1>2. ASSUME NEW p \in Proc, Arrive(p) PROVE BaseInv'
  BY <1>1, <1>2, ArriveBase
<1>3. ASSUME NEW p \in Proc, Serve(p) PROVE BaseInv'
  BY <1>1, <1>3, ServeStep, ServedShape DEF BaseInv
<1>4. ASSUME req' = req PROVE BaseInv'
  BY <1>1, <1>4 DEF BaseInv
<1>5. ASSUME req' = [p \in Proc |-> Idle] PROVE BaseInv'
  BY <1>1, <1>5, IdleType DEF BaseInv, Shape, ShapeAt, Rest
<1>6. CASE UNCHANGED vars
  BY <1>4, <1>6 DEF vars
<1> QED
  BY <1>2, <1>3, <1>4, <1>5, <1>6, OthersBase DEF Next, Others

(* With one goroutine, nobody else is at work beside a request. *)
LEMMA OneWorks ==
    ASSUME BaseInv, OneByOne, NEW p \in Proc, p \in here.procs
    PROVE  \A q \in Proc \ {p} : req[q].pc = "idle"
<1>1. IsFiniteSet(here.procs)
  <2>1. here.procs \subseteq Proc
    BY SituationAssumption DEF BaseInv, TypeOK
  <2> QED
    BY <2>1, FiniteAssumption, FS_Subset
<1>2. PICK s : here.procs = {s}
  BY <1>1, FS_Singleton DEF OneByOne
<1> QED
  BY <1>2 DEF BaseInv

-----------------------------------------------------------------------------
(* A deposit counts once *)

(* The transaction that confirms a deposit finds it without a credit,      *)
(* though it may have been rejected since its status was read.             *)
Unconfirmed(d) == deposit[d].status \in {"PENDING", "FAILED"}
DepositInv ==
    /\ BaseInv /\ DepositCreditedOnce
    /\ \A p \in Proc : req[p].pc = "confirmTx" => Unconfirmed(req[p].ref)

LEMMA CreditsOf ==
    ASSUME DepositInv, NEW d \in Deposit
    PROVE  deposit[d].credits = IF deposit[d].status = "CONFIRMED" THEN 1 ELSE 0
<1>1. deposit[d] \in DepositRow
  BY DEF DepositInv, BaseInv, TypeOK, RowTypes
<1>2. PICK c \in Nat : c = deposit[d].credits
  BY <1>1 DEF DepositRow
<1>3. c <= 1 /\ (deposit[d].status = "CONFIRMED" <=> c = 1)
  BY <1>2 DEF DepositInv, DepositCreditedOnce
<1> QED
  BY <1>2, <1>3

LEMMA DepositsOnly ==
    ASSUME DepositInv, BaseInv', UNCHANGED deposit, NEW p \in Proc, OthersWait(p),
           req'[p].pc = "confirmTx" => Unconfirmed(req'[p].ref)
    PROVE  DepositInv'
BY DEF DepositInv, DepositCreditedOnce, Unconfirmed, OthersWait

LEMMA DepositArrive ==
    ASSUME DepositInv, BaseInv', NEW p \in Proc, Arrive(p) PROVE DepositInv'
<1>0. TypeOK
  BY DEF DepositInv, BaseInv
<1>1. ASSUME NEW a \in Account, NEW n \in Amount, NEW op \in Op, UpdateBalanceRedis(p, op, a, n)
      PROVE  DepositInv'
  <2>1. OthersWait(p) /\ req'[p].pc = "get" /\ UNCHANGED deposit
    BY <1>0, <1>1, BeginStep DEF UpdateBalanceRedis, rows
  <2> QED
    BY <2>1, DepositsOnly
<1>2. ASSUME NEW h \in Hold, NEW n \in Amount, LockBalanceRedis(p, h, n) \/ UnlockBalanceRedis(p, h, n)
      PROVE  DepositInv'
  <2>1. OthersWait(p) /\ req'[p].pc \in {"get", "script"} /\ UNCHANGED deposit
    BY <1>0, <1>2, BeginStep DEF LockBalanceRedis, UnlockBalanceRedis, rows
  <2> QED
    BY <2>1, DepositsOnly
<1>3. ASSUME NEW w \in Withdrawal, NEW a \in Account, NEW n \in Amount, CreateWithdrawal(p, w, a, n)
      PROVE  DepositInv'
  <2>1. PICK op \in {"cap", "withdraw"} : Begin(p, "get", op, a, n, w, n * rate)
    BY <1>3 DEF CreateWithdrawal
  <2>2. OthersWait(p) /\ req'[p].pc = "get" /\ UNCHANGED deposit
    BY <1>0, <1>3, <2>1, BeginStep DEF CreateWithdrawal, rows
  <2> QED
    BY <2>2, DepositsOnly
<1>4. ASSUME NEW w \in Withdrawal, AdminRejectWithdrawal(p, w)
      PROVE  DepositInv'
  <2>1. OthersWait(p) /\ req'[p].pc = "rejectTx" /\ UNCHANGED deposit
    BY <1>0, <1>4, BeginStep DEF AdminRejectWithdrawal, rows
  <2> QED
    BY <2>1, DepositsOnly
<1>5. ASSUME NEW d \in Deposit, ConfirmDeposit(p, d)
      PROVE  DepositInv'
  <2>1. OthersWait(p) /\ req'[p].ref = d /\ UNCHANGED deposit
    BY <1>0, <1>5, BeginStep DEF ConfirmDeposit, rows
  <2>2. Unconfirmed(d)
    BY <1>5 DEF ConfirmDeposit, Unconfirmed
  <2> QED
    BY <2>1, <2>2, DepositsOnly
<1> QED
  BY <1>0, <1>1, <1>2, <1>3, <1>4, <1>5, HereTypes DEF Arrive

LEMMA DepositServe ==
    ASSUME DepositInv, BaseInv', OneByOne, NEW p \in Proc, Serve(p) PROVE DepositInv'
<1>0. BaseInv /\ TypeOK /\ Served(p)
  BY ServeStep DEF DepositInv, BaseInv
<1>1. OthersWait(p) /\ req'[p].pc # "confirmTx"
  BY <1>0, IdleType DEF Served, Advances, Cached
<1>2. CASE UNCHANGED deposit
  BY <1>1, <1>2, DepositsOnly
<1>3. CASE ConfirmTx(p) /\ ~UNCHANGED deposit
  <2>1. PICK d \in Deposit : d = req[p].ref
    BY <1>0, <1>3 DEF ConfirmTx, TypeOK, RequestTypes
  <2>2. /\ deposit' = [deposit EXCEPT ![d].status = "CONFIRMED", ![d].credits = @ + 1]
        /\ deposit \in [Deposit -> DepositRow] /\ req[p].pc = "confirmTx"
    BY <1>0, <1>3, <2>1 DEF ConfirmTx, TypeOK, RowTypes
  <2>3. /\ deposit'[d].status = "CONFIRMED" /\ deposit'[d].credits = deposit[d].credits + 1
        /\ \A e \in Deposit \ {d} : deposit'[e] = deposit[e]
    BY <2>2 DEF DepositRow
  <2>4. deposit[d].credits = 0
    <3>1. deposit[d].status # "CONFIRMED"
      BY <2>1, <2>2 DEF DepositInv, Unconfirmed
    <3> QED
      BY <3>1, CreditsOf
  <2>5. DepositCreditedOnce'
    BY <2>3, <2>4 DEF DepositInv, DepositCreditedOnce
  <2>6. \A q \in Proc : req'[q].pc # "confirmTx"
    <3>1. p \in here.procs
      BY <1>0 DEF BaseInv, Served
    <3>2. \A q \in Proc \ {p} : req[q].pc = "idle"
      BY <1>0, <3>1, OneWorks
    <3> QED
      BY <1>1, <3>2 DEF OthersWait
  <2> QED
    BY <2>5, <2>6 DEF DepositInv
<1> QED
  BY <1>2, <1>3 DEF Serve, EnsureGet, EnsureFind, EnsureSetBal, EnsureSetLck, Script, ScriptError, Publish,
     CapGetBalance, CapGetLocked, WithdrawalTx, UndoLock, RejectTx, ConfirmTx, ConfirmCredit, rows

LEMMA DepositOthers ==
    ASSUME DepositInv, BaseInv', Others PROVE DepositInv'
<1>0. TypeOK /\ deposit \in [Deposit -> DepositRow]
  BY DEF DepositInv, BaseInv, TypeOK, RowTypes
<1>1. ASSUME UNCHANGED deposit PROVE DepositInv'
  BY <1>1, OthersBase, IdleType DEF DepositInv, DepositCreditedOnce, Unconfirmed
<1>2. ASSUME NEW d \in Deposit, NEW s \in {"PENDING", "FAILED"}, deposit[d].status \in {"NONE", "PENDING"},
             deposit'[d].status = s, deposit'[d].credits = 0 \/ deposit'[d].credits = deposit[d].credits,
             \A e \in Deposit \ {d} : deposit'[e] = deposit[e], req' = req
      PROVE  DepositInv'
  <2>1. deposit'[d].credits = 0
    BY <1>2, CreditsOf
  <2>2. DepositCreditedOnce'
    <3> SUFFICES ASSUME NEW e \in Deposit
                 PROVE  deposit'[e].credits <= 1 /\ (deposit'[e].status = "CONFIRMED" <=> deposit'[e].credits = 1)
      BY DEF DepositCreditedOnce
    <3>1. CASE e = d
      BY <1>2, <2>1, <3>1
    <3>2. CASE e # d
      BY <1>2, <3>2 DEF DepositInv, DepositCreditedOnce
    <3> QED
      BY <3>1, <3>2
  <2>3. \A e \in Deposit : Unconfirmed(e) => Unconfirmed(e)'
    BY <1>2 DEF Unconfirmed
  <2>4. \A q \in Proc : req[q].pc = "confirmTx" => req[q].ref \in Deposit
    BY <1>0 DEF TypeOK, RequestTypes
  <2> QED
    BY <1>2, <2>2, <2>3, <2>4 DEF DepositInv
<1>3. ASSUME NEW d \in Deposit, AdminRejectDeposit(d) PROVE DepositInv'
  <2>1. /\ deposit[d].status = "PENDING" /\ deposit'[d].status = "FAILED" /\ req' = req
        /\ deposit'[d].credits = deposit[d].credits /\ \A e \in Deposit \ {d} : deposit'[e] = deposit[e]
    BY <1>0, <1>3 DEF AdminRejectDeposit, DepositRow
  <2> QED
    BY <1>2, <2>1
<1>4. ASSUME NEW d \in Deposit, NEW a, NEW n, CreateDeposit(d, a, n) PROVE DepositInv'
  <2>1. /\ deposit[d].status = "NONE" /\ deposit'[d].status = "PENDING" /\ req' = req
        /\ deposit'[d].credits = 0 /\ \A e \in Deposit \ {d} : deposit'[e] = deposit[e]
    BY <1>0, <1>4 DEF CreateDeposit
  <2> QED
    BY <1>2, <2>1
<1> QED
  BY <1>0, <1>1, <1>3, <1>4, HereTypes DEF Others, Admin, AdminApproveWithdrawal, WarmUp, WarmRows,
     WarmGetBal, WarmSetBal, WarmGetLck, WarmSetLck, Background, Project, LoseEvent, RefreshRate,
     Restart, RedisFlush, rows

LEMMA DepositStep == ASSUME DepositInv, [Next]_vars, OneByOne PROVE DepositInv'
<1>1. BaseInv'
  BY BaseStep DEF DepositInv
<1>2. CASE UNCHANGED vars
  BY <1>1, <1>2 DEF vars, rows, DepositInv, DepositCreditedOnce, Unconfirmed
<1> QED
  BY <1>1, <1>2, DepositArrive, DepositServe, DepositOthers DEF Next, Others

LEMMA DepositInit == ASSUME Init PROVE DepositInv
<1>1. \A d \in Deposit : deposit[d].status = "NONE" /\ deposit[d].credits = 0
  BY DEF Init, InitRows
<1>2. \A p \in Proc : req[p].pc = "idle"
  BY IdleType DEF Init, InitRows
<1> QED
  BY <1>1, <1>2, BaseInit DEF DepositInv, DepositCreditedOnce

-----------------------------------------------------------------------------
(* The table is never behind Redis *)

(* What the events in flight will do to the wallet a, by their reason. *)
Weight(a, r) == [e \in Event |-> IF e.acct = a /\ e.reason = r THEN e.delta ELSE 0]
Owed(a, r) == SumTo(Weight(a, r), events, Len(events))

LEMMA WeightType == ASSUME NEW a, NEW r PROVE Weight(a, r) \in [Event -> Int]
BY DEF Weight, Event

LEMMA OwedType == ASSUME TypeOK, NEW a, NEW r PROVE Owed(a, r) \in Int
<1>1. events \in Seq(Event) /\ Len(events) \in 0..Len(events)
  BY EntryEvents DEF TypeOK, EventTypes
<1> QED
  BY <1>1, WeightType, SumToType DEF Owed

LEMMA OwedTypeNext == ASSUME TypeOK', NEW a, NEW r PROVE Owed(a, r)' \in Int
<1>1. events' \in Seq(Event) /\ Len(events') \in 0..Len(events')
  BY EntryEvents DEF TypeOK, EventTypes
<1>2. Weight(a, r)' = Weight(a, r)
  BY DEF Weight
<1> QED
  BY <1>1, <1>2, WeightType, SumToType DEF Owed

LEMMA OwedAppend ==
    ASSUME TypeOK, NEW e \in Event, events' = Append(events, e), NEW a, NEW r
    PROVE  Owed(a, r)' = Owed(a, r) + Weight(a, r)[e]
<1>1. events \in Seq(Event) /\ Len(events') = Len(events) + 1
  BY EntryEvents DEF TypeOK, EventTypes
<1>2. SumTo(Weight(a, r), Append(events, e), Len(events) + 1)
        = SumTo(Weight(a, r), events, Len(events)) + Weight(a, r)[e]
  BY <1>1, WeightType, SumToAll
<1>3. Weight(a, r)' = Weight(a, r)
  BY DEF Weight
<1> QED
  BY <1>1, <1>2, <1>3 DEF Owed

LEMMA OwedTail ==
    ASSUME TypeOK, events # <<>>, events' = Tail(events), NEW a, NEW r
    PROVE  Owed(a, r) = Weight(a, r)[Head(events)] + Owed(a, r)'
<1>1. events \in Seq(Event) /\ Len(events) = Len(Tail(events)) + 1 /\ Len(Tail(events)) \in 0..Len(Tail(events))
  BY EntryEvents DEF TypeOK, EventTypes
<1>2. SumTo(Weight(a, r), events, Len(Tail(events)) + 1)
        = Weight(a, r)[Head(events)] + SumTo(Weight(a, r), Tail(events), Len(Tail(events)))
  BY <1>1, WeightType, SumToTail
<1>3. Weight(a, r)' = Weight(a, r)
  BY DEF Weight
<1> QED
  BY <1>1, <1>2, <1>3 DEF Owed

LEMMA HeadEvent ==
    ASSUME TypeOK, events # <<>>
    PROVE  /\ Head(events) \in Event /\ Head(events) = events[1] /\ 1 \in DOMAIN events
           /\ Head(events).reason # "grpc" => Head(events).delta \in Nat
<1>1. events \in Seq(Entry)
  BY DEF TypeOK, EventTypes
<1>2. Head(events) \in Entry /\ Head(events) = events[1] /\ 1 \in DOMAIN events
  BY <1>1, HeadElement
<1> QED
  BY <1>2 DEF Entry

LEMMA OwedNothing == ASSUME events = <<>>, NEW a, NEW r PROVE Owed(a, r) = 0
BY SumToNone DEF Owed

(* What a request has changed in Redis and not reported, or has confirmed  *)
(* in the table and not credited in Redis.                                 *)
Move(r, a) ==
    IF r.acct # a THEN 0
    ELSE IF r.op = "credit" THEN r.amt ELSE IF r.op = "deduct" THEN -r.amt ELSE 0
Posting(r, a) ==
    IF r.pc = "publish" THEN Move(r, a)
    ELSE IF r.pc = "credit" /\ r.acct = a THEN -r.amt ELSE 0
PostingOn(a) == [p \in Proc |-> Posting(req[p], a)]
Unposted(a) == Sum(PostingOn(a), Proc)

LEMMA PostingType ==
    ASSUME NEW r \in Request, NEW a PROVE Posting(r, a) \in Int /\ Move(r, a) \in Int
BY DEF Posting, Move, Request

LEMMA UnpostedType == ASSUME TypeOK, NEW a PROVE Unposted(a) \in Int
<1>1. \A p \in Proc : PostingOn(a)[p] \in Int
  BY PostingType DEF TypeOK, RequestTypes, PostingOn
<1> QED
  BY <1>1, SumType, FiniteAssumption DEF Unposted

LEMMA UnpostedMoves ==
    ASSUME TypeOK, TypeOK', NEW p \in Proc, OthersWait(p), NEW a
    PROVE  Unposted(a)' = Unposted(a) - Posting(req[p], a) + Posting(req'[p], a)
<1> PICK f, g : f = PostingOn(a) /\ g = PostingOn(a)'
  OBVIOUS
<1>1. \A q \in Proc : f[q] \in Int /\ g[q] \in Int
  BY PostingType DEF TypeOK, RequestTypes, PostingOn
<1>2. \A q \in Proc \ {p} : g[q] = f[q]
  BY DEF OthersWait, PostingOn
<1>3. f[p] = Posting(req[p], a) /\ g[p] = Posting(req'[p], a)
  BY DEF PostingOn
<1>4. Sum(g, Proc) = Sum(f, Proc) - f[p] + g[p]
  BY <1>1, <1>2, SumChange, FiniteAssumption
<1> QED
  BY <1>3, <1>4 DEF Unposted

LEMMA UnpostedSame ==
    ASSUME TypeOK, TypeOK', NEW p \in Proc, OthersWait(p), NEW a, Posting(req'[p], a) = Posting(req[p], a)
    PROVE  Unposted(a)' = Unposted(a)
<1>1. Posting(req[p], a) \in Int
  BY PostingType DEF TypeOK, RequestTypes
<1> QED
  BY <1>1, UnpostedMoves, UnpostedType

(* What a script does to the balances, where keys exist. *)
LEMMA ScriptMovesBalances ==
    ASSUME KeysStayWarm, TypeOK, NEW r \in Request, RunScript(r), NEW a \in Account
    PROVE  bal'[a] = bal[a] + Move(r, a)
<1>1. r.acct \in Account /\ r.amt \in Nat
  BY DEF Request
<1>2. bal \in [Account -> Nat] /\ bal[a] \in Nat
  BY DEF TypeOK, StoreTypes, KeysStayWarm
<1>3. Num(bal[r.acct]) = bal[r.acct]
  BY <1>1, <1>2, AbsentAssumption DEF Num
<1>4. CASE r.op = "credit" /\ BalanceCredit(r.acct, r.amt)
  BY <1>1, <1>2, <1>3, <1>4 DEF BalanceCredit, Move
<1>5. CASE r.op = "deduct" /\ BalanceDeduct(r.acct, r.amt)
  BY <1>1, <1>2, <1>5 DEF BalanceDeduct, Move
<1>6. CASE r.op \in {"lock", "withdraw", "unlock"} /\ bal' = bal
  BY <1>1, <1>2, <1>6 DEF Move
<1> QED
  BY <1>4, <1>5, <1>6 DEF RunScript, BalanceLock, BalanceUnlock

Behind(a) == bal[a] <= dbBal[a] + Owed(a, "grpc") + Unposted(a)
LedgerInv == BaseInv /\ LockInv /\ NothingAgain /\ \A a \in Account : Behind(a)
Steady == Faults = {} /\ here.warm

LEMMA LedgerTypes ==
    ASSUME LedgerInv, NEW a \in Account
    PROVE  bal[a] \in Nat /\ dbBal[a] \in Nat /\ Owed(a, "grpc") \in Int /\ Unposted(a) \in Int
BY OwedType, UnpostedType DEF LedgerInv, BaseInv, LockInv, KeysStayWarm, TypeOK, StoreTypes

(* Steps that move neither the balances nor the events. *)
LEMMA LedgerQuiet ==
    ASSUME LedgerInv, TypeOK', UNCHANGED <<bal, dbBal, events>>, NEW p \in Proc, OthersWait(p),
           \A a \in Account : Posting(req'[p], a) = Posting(req[p], a)
    PROVE  \A a \in Account : Behind(a)'
<1> TAKE a \in Account
<1>1. Unposted(a)' = Unposted(a)
  BY UnpostedSame DEF LedgerInv, BaseInv
<1>2. Owed(a, "grpc")' = Owed(a, "grpc")
  BY DEF Owed, Weight
<1> QED
  BY <1>1, <1>2 DEF LedgerInv, Behind

LEMMA LedgerArrive ==
    ASSUME LedgerInv, TypeOK', NEW p \in Proc, Arrive(p) PROVE \A a \in Account : Behind(a)'
<1>0. TypeOK
  BY DEF LedgerInv, BaseInv
<1>1. OthersWait(p) /\ req[p].pc = "idle" /\ req'[p].pc \notin {"publish", "credit"}
  BY <1>0, BeginStep DEF Arrive, UpdateBalanceRedis, LockBalanceRedis, UnlockBalanceRedis, CreateWithdrawal,
              AdminRejectWithdrawal, ConfirmDeposit
<1>2. UNCHANGED <<bal, dbBal, events>>
  BY DEF Arrive, UpdateBalanceRedis, LockBalanceRedis, UnlockBalanceRedis, CreateWithdrawal,
         AdminRejectWithdrawal, ConfirmDeposit, money
<1> QED
  BY <1>1, <1>2, LedgerQuiet DEF Posting

LEMMA LedgerServe ==
    ASSUME LedgerInv, TypeOK', Steady, NEW p \in Proc, Serve(p) PROVE \A a \in Account : Behind(a)'
<1> DEFINE r == req[p]
<1>0. TypeOK /\ BaseInv /\ KeysStayWarm /\ Shape(r) /\ Served(p) /\ OthersWait(p) /\ r \in Request
  BY ServeStep DEF LedgerInv, BaseInv, LockInv, Served, TypeOK, RequestTypes
<1>1. \A a \in Account : Posting(Idle, a) = 0
  BY IdleType DEF Posting
<1>2. ASSUME UNCHANGED <<bal, dbBal, events>>, r.pc \notin {"publish", "credit"},
             req'[p].pc \notin {"publish", "credit"}
      PROVE  \A a \in Account : Behind(a)'
  BY <1>0, <1>2, LedgerQuiet DEF Posting
<1>3. CASE EnsureGet(p) \/ EnsureFind(p) \/ CapGetBalance(p) \/ CapGetLocked(p)
  <2>1. UNCHANGED <<bal, dbBal, events>> /\ r.pc \in {"get", "find", "capBal", "capLck"}
    BY <1>3 DEF EnsureGet, EnsureFind, CapGetBalance, CapGetLocked, money
  <2>2. req'[p].pc \notin {"publish", "credit"}
    BY <1>0, <2>1, IdleType DEF Served, Advances, Cached
  <2> QED
    BY <1>2, <2>1, <2>2
<1>4. CASE EnsureSetBal(p) \/ EnsureSetLck(p)
  BY <1>0, <1>4 DEF EnsureSetBal, EnsureSetLck, KeysStayWarm
<1>5. CASE Script(p)
  <2>1. UNCHANGED <<dbBal, events>> /\ r.pc = "script"
    BY <1>5 DEF Script, table
  <2>2. CASE RunScript(r) /\ Goto(p, AfterScript(r))
    <3> SUFFICES ASSUME NEW a \in Account PROVE Behind(a)'
      OBVIOUS
    <3>1. bal'[a] = bal[a] + Move(r, a)
      BY <1>0, <2>2, ScriptMovesBalances
    <3>2. Posting(r, a) = 0
      BY <2>1 DEF Posting
    <3>3. Posting(req'[p], a) = Move(r, a)
      <4>1. Keeps(r, req'[p]) /\ req'[p].pc = AfterScript(r) /\ req'[p].op = r.op
        BY <1>0, <2>2, GotoKeeps
      <4> QED
        BY <4>1 DEF Posting, Move, Keeps, AfterScript
    <3>4. Unposted(a)' = Unposted(a) - Posting(r, a) + Posting(req'[p], a)
      BY <1>0, UnpostedMoves
    <3>5. Owed(a, "grpc")' = Owed(a, "grpc")
      BY <2>1 DEF Owed, Weight
    <3>6. Move(r, a) \in Int
      BY <1>0, PostingType
    <3>7. bal[a] <= dbBal[a] + Owed(a, "grpc") + Unposted(a) /\ dbBal'[a] = dbBal[a]
      BY <2>1 DEF LedgerInv, Behind
    <3> HIDE DEF r
    <3> QED
      BY <3>1, <3>2, <3>3, <3>4, <3>5, <3>6, <3>7, LedgerTypes DEF Behind
  <2>3. CASE ~RunScript(r) \/ ~Goto(p, AfterScript(r))
    <3>1. UNCHANGED redis /\ (Refused(r) \/ Finish(p)) /\ (AfterError(p) \/ Finish(p))
      BY <1>5, <2>3 DEF Script
    <3>2. req'[p] = Idle
      BY <1>0, <3>1, FinishKeeps DEF Refused, AfterError
    <3> QED
      BY <1>2, <2>1, <3>1, <3>2, IdleType DEF redis
  <2> QED
    BY <2>2, <2>3
<1>6. CASE ScriptError(p)
  BY <1>6 DEF ScriptError, Steady
<1>7. CASE Publish(p)
  <2>1. /\ UNCHANGED <<bal, dbBal>> /\ req'[p] = Idle /\ r.pc = "publish"
        /\ events' = Append(events, EventOf(r))
    BY <1>0, <1>7, FinishKeeps DEF Publish, redis, table, Steady
  <2>2. EventOf(r) \in Event
    BY <1>0, EventOfTypes DEF Entry
  <2>3. r.op \in {"credit", "deduct", "lock", "unlock"} /\ r.amt \in Nat
    BY <1>0, <2>1 DEF Shape, ShapeAt, Request
  <2> SUFFICES ASSUME NEW a \in Account PROVE Behind(a)'
    OBVIOUS
  <2>4. Weight(a, "grpc")[EventOf(r)] = Move(r, a)
    BY <2>2, <2>3 DEF Weight, EventOf, Move
  <2>5. Owed(a, "grpc")' = Owed(a, "grpc") + Weight(a, "grpc")[EventOf(r)]
    BY <1>0, <2>1, <2>2, OwedAppend
  <2>6. Unposted(a)' = Unposted(a) - Move(r, a) + 0
    <3>1. Unposted(a)' = Unposted(a) - Posting(r, a) + Posting(req'[p], a)
      BY <1>0, UnpostedMoves
    <3> QED
      BY <1>1, <2>1, <3>1 DEF Posting
  <2>7. Move(r, a) \in Int
    BY <1>0, PostingType
  <2>8. bal[a] <= dbBal[a] + Owed(a, "grpc") + Unposted(a)
    BY DEF LedgerInv, Behind
  <2> HIDE DEF r
  <2> QED
    BY <2>1, <2>4, <2>5, <2>6, <2>7, <2>8, LedgerTypes DEF Behind
<1>8. CASE WithdrawalTx(p) \/ RejectTx(p)
  <2>1. UNCHANGED <<bal, dbBal, events>> /\ r.pc \in {"dbLock", "rejectTx"}
    BY <1>8 DEF WithdrawalTx, RejectTx, redis
  <2>2. req'[p].pc \notin {"publish", "credit"}
    BY <1>0, <2>1, IdleType DEF Served, Advances, Cached
  <2> QED
    BY <1>2, <2>1, <2>2
<1>9. CASE UndoLock(p)
  <2>1. UNCHANGED <<bal, dbBal, events>> /\ r.pc = "undo" /\ req'[p] = Idle
    BY <1>0, <1>9, FinishKeeps DEF UndoLock, redis, table, BalanceUnlock
  <2> QED
    BY <1>2, <2>1, IdleType
<1>10. CASE ConfirmTx(p)
  <2>1. /\ dbBal' = [dbBal EXCEPT ![r.acct] = @ + r.amt] /\ UNCHANGED <<bal, events>>
        /\ Keeps(r, req'[p]) /\ req'[p].pc = "credit" /\ r.pc = "confirmTx"
    BY <1>0, <1>10, GotoKeeps DEF ConfirmTx, redis, Steady
  <2>2. dbBal \in [Account -> Nat] /\ r.acct \in Account /\ r.amt \in Nat
    BY <1>0 DEF TypeOK, StoreTypes, Request
  <2> SUFFICES ASSUME NEW a \in Account PROVE Behind(a)'
    OBVIOUS
  <2> DEFINE n == IF r.acct = a THEN r.amt ELSE 0
  <2>3. dbBal'[a] = dbBal[a] + n /\ n \in Nat
    BY <2>1, <2>2
  <2>4. Posting(r, a) = 0 /\ Posting(req'[p], a) = -n
    BY <2>1, <2>2 DEF Posting, Keeps
  <2>5. Unposted(a)' = Unposted(a) - Posting(r, a) + Posting(req'[p], a)
    BY <1>0, UnpostedMoves
  <2>6. Owed(a, "grpc")' = Owed(a, "grpc")
    BY <2>1 DEF Owed, Weight
  <2>7. bal[a] <= dbBal[a] + Owed(a, "grpc") + Unposted(a) /\ bal'[a] = bal[a]
    BY <2>1 DEF LedgerInv, Behind
  <2> HIDE DEF n, r
  <2> QED
    BY <2>3, <2>4, <2>5, <2>6, <2>7, LedgerTypes DEF Behind
<1>11. CASE ConfirmCredit(p)
  <2>1. /\ BalanceCredit(r.acct, r.amt) /\ UNCHANGED <<dbBal, events>>
        /\ req'[p] = Idle /\ r.pc = "credit"
    BY <1>0, <1>11, FinishKeeps DEF ConfirmCredit, table, Steady
  <2>2. bal \in [Account -> Nat] /\ r.acct \in Account /\ r.amt \in Nat
    BY <1>0 DEF TypeOK, StoreTypes, Request, KeysStayWarm
  <2>21. Num(bal[r.acct]) = bal[r.acct]
    BY <2>2, AbsentAssumption DEF Num
  <2> SUFFICES ASSUME NEW a \in Account PROVE Behind(a)'
    OBVIOUS
  <2> DEFINE n == IF r.acct = a THEN r.amt ELSE 0
  <2>3. bal'[a] = bal[a] + n /\ n \in Nat
    BY <2>1, <2>2, <2>21 DEF BalanceCredit
  <2>4. Posting(r, a) = -n /\ Posting(req'[p], a) = 0
    BY <1>1, <2>1, <2>2 DEF Posting
  <2>5. Unposted(a)' = Unposted(a) - Posting(r, a) + Posting(req'[p], a)
    BY <1>0, UnpostedMoves
  <2>6. Owed(a, "grpc")' = Owed(a, "grpc")
    BY <2>1 DEF Owed, Weight
  <2>7. bal[a] <= dbBal[a] + Owed(a, "grpc") + Unposted(a) /\ dbBal'[a] = dbBal[a]
    BY <2>1 DEF LedgerInv, Behind
  <2> HIDE DEF n, r
  <2> QED
    BY <2>3, <2>4, <2>5, <2>6, <2>7, LedgerTypes DEF Behind
<1> QED
  BY <1>3, <1>4, <1>5, <1>6, <1>7, <1>8, <1>9, <1>10, <1>11 DEF Serve

LEMMA LedgerOthers ==
    ASSUME LedgerInv, TypeOK', Steady, Others PROVE \A a \in Account : Behind(a)'
<1>0. TypeOK /\ KeysStayWarm /\ Faults = {} /\ NothingAgain
  BY DEF LedgerInv, BaseInv, LockInv, Steady
<1>1. ASSUME UNCHANGED <<bal, dbBal, events, req>> PROVE \A a \in Account : Behind(a)'
  BY <1>1 DEF LedgerInv, Behind, Owed, Weight, Unposted, PostingOn
<1>2. CASE Project
  <2> SUFFICES ASSUME NEW a \in Account PROVE Behind(a)'
    OBVIOUS
  <2> DEFINE e == Head(events)
  <2>1. events # <<>> /\ events' = Tail(events) /\ UNCHANGED <<bal, req>> /\ e = Given
    BY <1>0, <1>2, ReadsOn DEF Project, redis
  <2>2. e \in Event /\ dbBal \in [Account -> Nat] /\ e.acct \in Account /\ e.delta \in Int
    BY <1>0, <2>1, HeadEvent DEF TypeOK, StoreTypes, Event
  <2>3. Owed(a, "grpc") = Weight(a, "grpc")[e] + Owed(a, "grpc")'
    BY <1>0, <2>1, OwedTail
  <2>4. dbBal'[a] >= dbBal[a] + Weight(a, "grpc")[e]
    <3>1. CASE e.reason = "grpc" /\ dbBal' = [dbBal EXCEPT ![e.acct] = Applied(@, e.delta)]
      BY <2>2, <3>1 DEF Applied, Weight
    <3>2. CASE e.reason # "grpc" /\ dbBal' = dbBal
      BY <2>2, <3>2 DEF Weight
    <3> QED
      BY <1>2, <2>1, <3>1, <3>2 DEF Project
  <2>5. Unposted(a)' = Unposted(a)
    BY <2>1 DEF Unposted, PostingOn
  <2>6. bal[a] <= dbBal[a] + Owed(a, "grpc") + Unposted(a) /\ bal'[a] = bal[a]
    BY <2>1 DEF LedgerInv, Behind
  <2>7. Weight(a, "grpc")[e] \in Int /\ dbBal'[a] \in Int /\ Owed(a, "grpc")' \in Int
    <3>1. Weight(a, "grpc")[e] \in Int
      BY <2>2, WeightType
    <3>2. dbBal'[a] \in Int
      BY DEF TypeOK, StoreTypes
    <3> QED
      BY <3>1, <3>2, OwedTypeNext
  <2> HIDE DEF e
  <2> QED
    BY <2>3, <2>4, <2>5, <2>6, <2>7, LedgerTypes DEF Behind
<1>3. ~LoseEvent /\ ~Restart /\ ~RedisFlush
  BY <1>0 DEF LoseEvent, Restart, RedisFlush
<1>4. CASE Admin \/ RefreshRate
  BY <1>1, <1>4 DEF Admin, AdminApproveWithdrawal, AdminRejectDeposit, CreateDeposit, RefreshRate, money
<1>5. CASE WarmUp
  <2>1. ~WarmSetBal
    BY <1>0 DEF WarmSetBal, KeysStayWarm
  <2> QED
    BY <1>1, <1>5, <2>1 DEF WarmUp, WarmRows, WarmGetBal, WarmGetLck, WarmSetLck, table, money
<1> QED
  BY <1>2, <1>3, <1>4, <1>5 DEF Others, Background

LEMMA LedgerStep == ASSUME LedgerInv, [Next]_vars, Steady PROVE LedgerInv'
<1>1. BaseInv' /\ LockInv' /\ TypeOK' /\ NothingAgain'
  BY BaseStep, LockInvStep, NothingAgainStep DEF LedgerInv, Steady, RedisHolds, BaseInv
<1>2. CASE UNCHANGED vars
  <2>1. UNCHANGED <<bal, dbBal, events, req>>
    BY <1>2 DEF vars, money
  <2> QED
    BY <1>1, <2>1 DEF LedgerInv, Behind, Owed, Weight, Unposted, PostingOn
<1> QED
  BY <1>1, <1>2, LedgerArrive, LedgerServe, LedgerOthers DEF LedgerInv, Next, Others

LEMMA LedgerInit == ASSUME Init, here.warm PROVE LedgerInv
<1>1. BaseInv /\ LockInv /\ NothingAgain
  BY BaseInit, LockInit DEF Init, InitRows, NothingAgain
<1>2. ASSUME NEW a \in Account PROVE Behind(a)
  <2>1. bal[a] = InitBal /\ dbBal[a] = InitBal /\ InitBal \in Nat
    BY NumberAssumption DEF Init, InitRows
  <2>2. Owed(a, "grpc") = 0
    BY OwedNothing DEF Init, InitRows
  <2>3. Unposted(a) = 0
    <3>1. \A p \in Proc : PostingOn(a)[p] = 0
      BY IdleType DEF Init, InitRows, PostingOn, Posting
    <3> QED
      BY <3>1, SumZero, FiniteAssumption DEF Unposted
  <2> QED
    BY <2>1, <2>2, <2>3 DEF Behind
<1> QED
  BY <1>1, <1>2 DEF LedgerInv

LEMMA LedgerHolds == ASSUME LedgerInv PROVE TableNeverBehind
<1> SUFFICES ASSUME Quiescent, NEW a \in Account PROVE Num(bal[a]) <= dbBal[a]
  BY DEF TableNeverBehind
<1>1. Owed(a, "grpc") = 0
  BY OwedNothing DEF Quiescent
<1>2. Unposted(a) = 0
  <2>1. \A p \in Proc : PostingOn(a)[p] = 0
    BY DEF Quiescent, PostingOn, Posting
  <2> QED
    BY <2>1, SumZero, FiniteAssumption DEF Unposted
<1>3. Num(bal[a]) = bal[a]
  BY LedgerTypes, AbsentAssumption DEF Num
<1>4. bal[a] <= dbBal[a] + Owed(a, "grpc") + Unposted(a)
  BY DEF LedgerInv, Behind
<1> QED
  BY <1>1, <1>2, <1>3, <1>4, LedgerTypes


-----------------------------------------------------------------------------
(* The locks of the table cover what counts on them *)

(* A withdrawal request works on a row nobody else has taken: it creates   *)
(* the row, or rejects one that was still live when its status was read.   *)
OnRow(r) ==
    /\ r.op \in {"cap", "withdraw"} => withdrawal[r.ref].status = "NONE"
    /\ r.pc = "rejectTx" => withdrawal[r.ref].status \in Live /\ withdrawal[r.ref].acct = r.acct

(* What a rejection will ask back is what the withdrawal locked, as long   *)
(* as the rate stays.                                                      *)
Priced(r) ==
    /\ r.op \in {"cap", "withdraw"} => r.vnd = r.amt * rate
    /\ r.pc = "rejectTx" => withdrawal[r.ref].usdt = r.amt
RowPriced(w) == withdrawal[w].status # "NONE" => withdrawal[w].vnd = withdrawal[w].usdt * rate
RowInv ==
    /\ BaseInv
    /\ rate \in here.rates
    /\ \A p \in Proc : OnRow(req[p])
    /\ RateStays => /\ \A w \in Withdrawal : RowPriced(w)
                    /\ \A p \in Proc : Priced(req[p])

LEMMA DivExact == ASSUME NEW x \in Nat, NEW y \in Nat, y > 0 PROVE (x * y) \div y = x
OBVIOUS

LEMMA RowsSame ==
    ASSUME RowInv, BaseInv', UNCHANGED <<withdrawal, rate, here>>, NEW p \in Proc, OthersWait(p),
           OnRow(req'[p]), RateStays => Priced(req'[p])
    PROVE  RowInv'
BY DEF RowInv, OthersWait, OnRow, Priced, RowPriced, RateStays

LEMMA RowArrive ==
    ASSUME RowInv, BaseInv', NEW p \in Proc, Arrive(p), here' = here PROVE RowInv'
<1>0. TypeOK
  BY DEF RowInv, BaseInv
<1>1. ASSUME NEW a \in Account, NEW n \in Amount, NEW op \in Op, UpdateBalanceRedis(p, op, a, n)
      PROVE  RowInv'
  <2>1. OthersWait(p) /\ req'[p].pc = "get" /\ req'[p].op \in {"credit", "deduct", "check"}
        /\ UNCHANGED <<withdrawal, rate>>
    BY <1>0, <1>1, BeginStep DEF UpdateBalanceRedis, rows
  <2> QED
    BY <2>1, RowsSame DEF OnRow, Priced
<1>2. ASSUME NEW h \in Hold, NEW n \in Amount, LockBalanceRedis(p, h, n) \/ UnlockBalanceRedis(p, h, n)
      PROVE  RowInv'
  <2>1. /\ OthersWait(p) /\ req'[p].pc \in {"get", "script"} /\ req'[p].op \in {"lock", "unlock"}
        /\ UNCHANGED <<withdrawal, rate>>
    BY <1>0, <1>2, BeginStep DEF LockBalanceRedis, UnlockBalanceRedis, rows
  <2> QED
    BY <2>1, RowsSame DEF OnRow, Priced
<1>3. ASSUME NEW w \in Withdrawal, NEW a \in Account, NEW n \in Amount, CreateWithdrawal(p, w, a, n)
      PROVE  RowInv'
  <2>1. PICK op \in {"cap", "withdraw"} : Begin(p, "get", op, a, n, w, n * rate)
    BY <1>3 DEF CreateWithdrawal
  <2>2. /\ OthersWait(p) /\ req'[p].pc = "get" /\ req'[p].amt = n /\ req'[p].vnd = n * rate
        /\ req'[p].ref = w /\ withdrawal[w].status = "NONE" /\ UNCHANGED <<withdrawal, rate>>
    BY <1>0, <1>3, <2>1, BeginStep DEF CreateWithdrawal, rows
  <2> QED
    BY <2>2, RowsSame DEF OnRow, Priced
<1>4. ASSUME NEW w \in Withdrawal, AdminRejectWithdrawal(p, w)
      PROVE  RowInv'
  <2>1. /\ OthersWait(p) /\ req'[p].ref = w /\ req'[p].acct = withdrawal[w].acct
        /\ req'[p].op = "reject" /\ req'[p].amt = withdrawal[w].vnd \div rate
        /\ UNCHANGED <<withdrawal, rate>> /\ withdrawal[w].status = "PENDING"
    BY <1>0, <1>4, BeginStep DEF AdminRejectWithdrawal, rows
  <2>2. OnRow(req'[p])
    BY <2>1 DEF OnRow, Live
  <2>3. ASSUME RateStays PROVE Priced(req'[p])
    <3>1. PICK u \in Nat, r \in Nat : u = withdrawal[w].usdt /\ r = rate /\ r > 0
      BY <1>0, NumberAssumption DEF TypeOK, RowTypes, WithdrawalRow
    <3>2. withdrawal[w].vnd = u * r
      BY <2>1, <2>3, <3>1 DEF RowInv, RowPriced
    <3>3. req'[p].amt = u
      BY <2>1, <3>1, <3>2, DivExact
    <3> QED
      BY <2>1, <3>1, <3>3 DEF Priced
  <2> QED
    BY <2>1, <2>2, <2>3, RowsSame
<1>5. ASSUME NEW d \in Deposit, ConfirmDeposit(p, d)
      PROVE  RowInv'
  <2>1. OthersWait(p) /\ req'[p].pc = "confirmTx" /\ req'[p].op = "confirm" /\ UNCHANGED <<withdrawal, rate>>
    BY <1>0, <1>5, BeginStep DEF ConfirmDeposit, rows
  <2> QED
    BY <2>1, RowsSame DEF OnRow, Priced
<1> QED
  BY <1>0, <1>1, <1>2, <1>3, <1>4, <1>5, HereTypes DEF Arrive

LEMMA RowServe ==
    ASSUME RowInv, BaseInv', OneByOne, NEW p \in Proc, Serve(p), here' = here PROVE RowInv'
<1>0. BaseInv /\ TypeOK /\ Served(p) /\ Shape(req[p])
  BY ServeStep DEF RowInv, BaseInv
<1>1. OthersWait(p) /\ req'[p].pc # "rejectTx"
  BY <1>0, IdleType DEF Served, Advances, Cached
<1>2. CASE UNCHANGED withdrawal /\ UNCHANGED rate
  <2>1. CASE req'[p] = Idle
    BY <1>1, <1>2, <2>1, IdleType, RowsSame DEF OnRow, Priced
  <2>2. CASE Keeps(req[p], req'[p]) /\ Advances(req[p], req'[p])
    <3>1. req'[p].op \in {"cap", "withdraw"} => req[p].op \in {"cap", "withdraw"}
      BY <1>0, <2>2 DEF Advances, Shape, ShapeAt
    <3>2. OnRow(req'[p])
      BY <1>1, <2>2, <3>1 DEF Keeps, RowInv, OnRow
    <3>3. RateStays => Priced(req'[p])
      BY <1>1, <2>2, <3>1 DEF Keeps, RowInv, Priced
    <3> QED
      BY <1>1, <1>2, <3>2, <3>3, RowsSame
  <2> QED
    BY <1>0, <2>1, <2>2 DEF Served
<1>3. ASSUME req'[p] = Idle, UNCHANGED rate, RateStays => \A w \in Withdrawal : RowPriced(w)'
      PROVE  RowInv'
  <2>1. p \in here.procs
    BY <1>0 DEF BaseInv, Served
  <2>2. \A q \in Proc : req'[q].pc = "idle" /\ req'[q].op = "none"
    BY <1>0, <1>1, <1>3, <2>1, OneWorks, IdleType DEF OthersWait, BaseInv, Shape, ShapeAt
  <2> QED
    BY <1>3, <2>2 DEF RowInv, OnRow, Priced, RateStays
<1>4. CASE WithdrawalTx(p) /\ ~UNCHANGED withdrawal
  <2>1. PICK w \in Withdrawal : w = req[p].ref
    BY <1>0, <1>4 DEF WithdrawalTx, TypeOK, RequestTypes
  <2>2. /\ withdrawal' = [withdrawal EXCEPT ![w] = [status |-> "PENDING", acct |-> req[p].acct,
                                                    vnd |-> req[p].vnd, usdt |-> req[p].amt]]
        /\ req[p].pc = "dbLock" /\ UNCHANGED rate /\ withdrawal \in [Withdrawal -> WithdrawalRow]
        /\ Finish(p)
    BY <1>0, <1>4, <2>1 DEF WithdrawalTx, TypeOK, RowTypes
  <2>3. RateStays => req[p].vnd = req[p].amt * rate
    BY <1>0, <2>2 DEF RowInv, Priced, Shape, ShapeAt
  <2>4. RateStays => \A v \in Withdrawal : RowPriced(v)'
    BY <2>2, <2>3 DEF RowInv, RowPriced
  <2> QED
    BY <1>0, <1>3, <2>2, <2>4, FinishKeeps
<1>5. CASE RejectTx(p) /\ ~UNCHANGED withdrawal
  <2>1. PICK w \in Withdrawal : w = req[p].ref
    BY <1>0, <1>5 DEF RejectTx, TypeOK, RequestTypes
  <2>2. /\ withdrawal' = [withdrawal EXCEPT ![w].status = "REJECTED"]
        /\ req[p].pc = "rejectTx" /\ UNCHANGED rate /\ withdrawal \in [Withdrawal -> WithdrawalRow]
        /\ Finish(p)
    BY <1>0, <1>5, <2>1 DEF RejectTx, TypeOK, RowTypes
  <2>3. /\ \A v \in Withdrawal : /\ withdrawal'[v].vnd = withdrawal[v].vnd
                                 /\ withdrawal'[v].usdt = withdrawal[v].usdt
        /\ \A v \in Withdrawal \ {w} : withdrawal'[v].status = withdrawal[v].status
    BY <2>2 DEF WithdrawalRow
  <2>4. withdrawal[w].status # "NONE"
    BY <2>1, <2>2 DEF RowInv, OnRow, Live
  <2>5. RateStays => \A v \in Withdrawal : RowPriced(v)'
    BY <2>2, <2>3, <2>4 DEF RowInv, RowPriced
  <2> QED
    BY <1>0, <1>3, <2>2, <2>5, FinishKeeps
<1> QED
  BY <1>2, <1>4, <1>5 DEF Serve, EnsureGet, EnsureFind, EnsureSetBal, EnsureSetLck, Script, ScriptError,
     Publish, CapGetBalance, CapGetLocked, WithdrawalTx, UndoLock, RejectTx, ConfirmTx, ConfirmCredit, rows

LEMMA RowOthers ==
    ASSUME RowInv, BaseInv', Others, here' = here PROVE RowInv'
<1>0. TypeOK /\ withdrawal \in [Withdrawal -> WithdrawalRow]
  BY DEF RowInv, BaseInv, TypeOK, RowTypes
<1>1. rate' \in here.rates /\ (RateStays => rate' = rate)
  BY DEF Others, Admin, AdminApproveWithdrawal, AdminRejectDeposit, CreateDeposit, WarmUp, WarmRows,
         WarmGetBal, WarmSetBal, WarmGetLck, WarmSetLck, Background, Project, LoseEvent, RefreshRate,
         Restart, RedisFlush, rows, RowInv, RateStays
<1>2. CASE UNCHANGED withdrawal
  <2>1. CASE req' = req
    BY <1>1, <1>2, <2>1 DEF RowInv, OnRow, Priced, RowPriced, RateStays
  <2>2. CASE req' = [p \in Proc |-> Idle]
    BY <1>1, <1>2, <2>2, IdleType DEF RowInv, OnRow, Priced, RowPriced, RateStays
  <2> QED
    BY <2>1, <2>2, OthersBase
<1>3. ASSUME NEW w \in Withdrawal, AdminApproveWithdrawal(w) PROVE RowInv'
  <2>1. /\ withdrawal[w].status = "PENDING" /\ withdrawal'[w].status = "APPROVED" /\ req' = req
        /\ \A v \in Withdrawal : /\ withdrawal'[v].vnd = withdrawal[v].vnd
                                 /\ withdrawal'[v].usdt = withdrawal[v].usdt
                                 /\ withdrawal'[v].acct = withdrawal[v].acct
        /\ \A v \in Withdrawal \ {w} : withdrawal'[v].status = withdrawal[v].status
    BY <1>0, <1>3 DEF AdminApproveWithdrawal, WithdrawalRow
  <2>2. RateStays => \A v \in Withdrawal : RowPriced(v)'
    BY <1>1, <2>1 DEF RowInv, RowPriced
  <2>3. ASSUME NEW p \in Proc PROVE OnRow(req[p])' /\ (RateStays => Priced(req[p])')
    <3>1. req[p].op \in {"cap", "withdraw"} \/ req[p].pc = "rejectTx" => req[p].ref \in Withdrawal
      BY <1>0 DEF TypeOK, RequestTypes
    <3>2. OnRow(req[p]) /\ (RateStays => Priced(req[p]))
      BY DEF RowInv
    <3>3. OnRow(req[p])'
      BY <2>1, <3>1, <3>2 DEF OnRow, Live
    <3>4. RateStays => Priced(req[p])'
      BY <1>1, <2>1, <3>1, <3>2 DEF Priced
    <3> QED
      BY <3>3, <3>4
  <2> QED
    BY <1>1, <2>1, <2>2, <2>3 DEF RowInv, RateStays
<1> QED
  BY <1>2, <1>3 DEF Others, Admin, AdminRejectDeposit, CreateDeposit, WarmUp, WarmRows,
     WarmGetBal, WarmSetBal, WarmGetLck, WarmSetLck, Background, Project, LoseEvent, RefreshRate,
     Restart, RedisFlush, rows

LEMMA RowInvStep == ASSUME RowInv, [Next]_vars, OneByOne PROVE RowInv'
<1>1. BaseInv' /\ here' = here
  BY BaseStep, HereStays DEF RowInv
<1>2. CASE UNCHANGED vars
  BY <1>1, <1>2 DEF vars, rows, RowInv, OnRow, Priced, RowPriced, RateStays
<1> QED
  BY <1>1, <1>2, RowArrive, RowServe, RowOthers DEF Next, Others

LEMMA RowInit == ASSUME Init PROVE RowInv
<1>1. \A w \in Withdrawal : withdrawal[w].status = "NONE"
  BY DEF Init, InitRows
<1>2. \A p \in Proc : req[p].pc = "idle" /\ req[p].op = "none"
  BY IdleType DEF Init, InitRows
<1> QED
  BY <1>1, <1>2, BaseInit DEF RowInv, OnRow, Priced, RowPriced, Init, InitRows

(* A rejected withdrawal stays rejected. *)
Unrejected(a) == \A w \in Withdrawal : withdrawal[w].acct = a => withdrawal[w].status # "REJECTED"

LEMMA RejectedStays ==
    ASSUME RowInv, [Next]_vars, NEW a, Unrejected(a)' PROVE Unrejected(a)
<1>0. TypeOK /\ withdrawal \in [Withdrawal -> WithdrawalRow]
  BY DEF RowInv, BaseInv, TypeOK, RowTypes
<1>1. CASE UNCHANGED withdrawal
  BY <1>1 DEF Unrejected
<1>2. ASSUME NEW w \in Withdrawal, withdrawal[w].status # "REJECTED",
             \A v \in Withdrawal \ {w} : withdrawal'[v] = withdrawal[v]
      PROVE  Unrejected(a)
  BY <1>2 DEF Unrejected
<1>3. ASSUME NEW w \in Withdrawal, AdminApproveWithdrawal(w) PROVE Unrejected(a)
  BY <1>0, <1>2, <1>3 DEF AdminApproveWithdrawal
<1>4. ASSUME NEW p \in Proc, WithdrawalTx(p), ~UNCHANGED withdrawal PROVE Unrejected(a)
  <2>1. PICK w \in Withdrawal : w = req[p].ref
    BY <1>0, <1>4 DEF WithdrawalTx, TypeOK, RequestTypes
  <2>2. req[p].op = "withdraw" /\ OnRow(req[p])
    BY <1>4 DEF WithdrawalTx, RowInv, BaseInv, Shape, ShapeAt
  <2> QED
    BY <1>0, <1>2, <1>4, <2>1, <2>2 DEF WithdrawalTx, OnRow
<1>5. ASSUME NEW p \in Proc, RejectTx(p), ~UNCHANGED withdrawal PROVE Unrejected(a)
  <2>1. PICK w \in Withdrawal : w = req[p].ref
    BY <1>0, <1>5 DEF RejectTx, TypeOK, RequestTypes
  <2>2. OnRow(req[p]) /\ req[p].pc = "rejectTx"
    BY <1>5 DEF RejectTx, RowInv
  <2> QED
    BY <1>0, <1>2, <1>5, <2>1, <2>2 DEF RejectTx, OnRow, Live
<1>6. ASSUME NEW p \in Proc, Arrive(p) PROVE UNCHANGED withdrawal
  BY <1>6 DEF Arrive, UpdateBalanceRedis, LockBalanceRedis, UnlockBalanceRedis, CreateWithdrawal,
              AdminRejectWithdrawal, ConfirmDeposit, rows
<1>7. ASSUME NEW p \in Proc, Serve(p), ~WithdrawalTx(p), ~RejectTx(p) PROVE UNCHANGED withdrawal
  BY <1>7 DEF Serve, EnsureGet, EnsureFind, EnsureSetBal, EnsureSetLck, Script, ScriptError,
     Publish, CapGetBalance, CapGetLocked, UndoLock, ConfirmTx, ConfirmCredit, rows
<1>8. ASSUME Others, \A w \in Withdrawal : ~AdminApproveWithdrawal(w) PROVE UNCHANGED withdrawal
  BY <1>8 DEF Others, Admin, AdminRejectDeposit, CreateDeposit, WarmUp, WarmRows,
     WarmGetBal, WarmSetBal, WarmGetLck, WarmSetLck, Background, Project, LoseEvent, RefreshRate,
     Restart, RedisFlush, rows
<1>9. CASE UNCHANGED vars
  BY <1>1, <1>9 DEF vars, rows
<1> QED
  BY <1>1, <1>3, <1>4, <1>5, <1>6, <1>7, <1>8, <1>9 DEF Next, Others

Releasing(r, a) == IF r.acct = a /\ r.op = "unlock" THEN r.amt ELSE 0
TableCovers(a) ==
    Total(HoldsOn(a)) + Total(WithdrawalsOn(a)) + Total(ReleasingOn(a)) + Owed(a, "unlock")
      <= dbLck[a] + Owed(a, "lock") + again[a]
Whole(a) == RateStays \/ Unrejected(a)
ClaimInv == RowInv /\ \A a \in Account : Whole(a) => TableCovers(a)
Onward == RowInv' /\ here' = here /\ \A a \in Account : Whole(a)' => Whole(a)
Reported == Faults \cap {"publish", "projector"} = {}

LEMMA ReleasingType ==
    ASSUME TypeOK, NEW a PROVE ReleasingOn(a) \in [Proc -> Nat] /\ Total(ReleasingOn(a)) \in Nat
<1>1. ReleasingOn(a) \in [Proc -> Nat]
  BY DEF TypeOK, RequestTypes, ReleasingOn, Request
<1> QED
  BY <1>1, TotalType, FiniteAssumption

LEMMA TableTypes ==
    ASSUME TypeOK, NEW a \in Account
    PROVE  /\ Total(HoldsOn(a)) \in Nat /\ Total(WithdrawalsOn(a)) \in Nat
           /\ Total(ReleasingOn(a)) \in Nat /\ dbLck[a] \in Nat
           /\ Owed(a, "unlock") \in Int /\ Owed(a, "lock") \in Int /\ again[a] \in Nat
BY ClaimTypes, ReleasingType, OwedType DEF TypeOK, StoreTypes, EventTypes

(* The three totals after a step. *)
LEMMA ReleasingMoves ==
    ASSUME TypeOK, TypeOK', NEW p \in Proc, OthersWait(p), NEW a \in Account
    PROVE  /\ Total(ReleasingOn(a))' = Total(ReleasingOn(a)) - Releasing(req[p], a) + Releasing(req'[p], a)
           /\ Releasing(req[p], a) \in Nat /\ Releasing(req'[p], a) \in Nat
<1> PICK f, g : f = ReleasingOn(a) /\ g = ReleasingOn(a)'
  OBVIOUS
<1>1. f \in [Proc -> Nat] /\ g \in [Proc -> Nat]
  BY DEF TypeOK, RequestTypes, ReleasingOn, Request
<1>2. \A q \in Proc \ {p} : g[q] = f[q]
  BY DEF OthersWait, ReleasingOn
<1>3. f[p] = Releasing(req[p], a) /\ g[p] = Releasing(req'[p], a)
  BY DEF ReleasingOn, Releasing
<1>4. Total(g) = Total(f) - f[p] + g[p]
  BY <1>1, <1>2, TotalChange, FiniteAssumption
<1> QED
  BY <1>1, <1>3, <1>4

LEMMA HoldsMove ==
    ASSUME TypeOK, NEW h \in Hold, NEW n \in Nat, hold' = [hold EXCEPT ![h] = n], NEW a \in Account
    PROVE  Total(HoldsOn(a))' = Total(HoldsOn(a)) + (IF HoldAcct[h] = a THEN n - hold[h] ELSE 0)
<1> PICK f, g : f = HoldsOn(a) /\ g = HoldsOn(a)'
  OBVIOUS
<1>0. hold \in [Hold -> Nat]
  BY DEF TypeOK, RowTypes
<1>1. f \in [Hold -> Nat] /\ g \in [Hold -> Nat]
  BY <1>0 DEF HoldsOn
<1>2. \A q \in Hold \ {h} : g[q] = f[q]
  BY <1>0 DEF HoldsOn
<1>3. g[h] - f[h] = IF HoldAcct[h] = a THEN n - hold[h] ELSE 0
  BY <1>0 DEF HoldsOn
<1>4. Total(g) = Total(f) - f[h] + g[h]
  BY <1>1, <1>2, TotalChange, FiniteAssumption
<1>5. Total(f) \in Nat /\ f[h] \in Nat /\ g[h] \in Nat
  BY <1>1, TotalType, FiniteAssumption
<1> QED
  BY <1>3, <1>4, <1>5

LEMMA WithdrawalsMove ==
    ASSUME TypeOK, TypeOK', NEW w \in Withdrawal, \A v \in Withdrawal \ {w} : withdrawal'[v] = withdrawal[v],
           NEW a \in Account
    PROVE  /\ Total(WithdrawalsOn(a))'
                = Total(WithdrawalsOn(a)) - Reserved(withdrawal[w], a) + Reserved(withdrawal'[w], a)
           /\ Reserved(withdrawal[w], a) \in Nat /\ Reserved(withdrawal'[w], a) \in Nat
<1> PICK f, g : f = WithdrawalsOn(a) /\ g = WithdrawalsOn(a)'
  OBVIOUS
<1>1. f \in [Withdrawal -> Nat] /\ g \in [Withdrawal -> Nat]
  BY DEF TypeOK, RowTypes, WithdrawalsOn, Reserved, WithdrawalRow
<1>2. \A q \in Withdrawal \ {w} : g[q] = f[q]
  BY DEF WithdrawalsOn
<1>3. f[w] = Reserved(withdrawal[w], a) /\ g[w] = Reserved(withdrawal'[w], a)
  BY DEF WithdrawalsOn
<1>4. Total(g) = Total(f) - f[w] + g[w]
  BY <1>1, <1>2, TotalChange, FiniteAssumption
<1> QED
  BY <1>1, <1>3, <1>4

(* A step that moves nothing but requests, and begins no release. *)
LEMMA ClaimQuiet ==
    ASSUME ClaimInv, Onward, UNCHANGED <<hold, withdrawal, dbLck, events, again>>, NEW p \in Proc, OthersWait(p),
           req'[p].op = "unlock" => req'[p].acct = req[p].acct /\ req'[p].amt = req[p].amt
                                      /\ req[p].op = "unlock"
    PROVE  ClaimInv'
<1> SUFFICES ASSUME NEW a \in Account, TableCovers(a), Whole(a)' PROVE TableCovers(a)'
  BY DEF ClaimInv, Onward
<1>0. TypeOK /\ TypeOK'
  BY DEF ClaimInv, Onward, RowInv, BaseInv
<1>1. Total(HoldsOn(a))' = Total(HoldsOn(a)) /\ Total(WithdrawalsOn(a))' = Total(WithdrawalsOn(a))
  BY DEF HoldsOn, WithdrawalsOn
<1>2. Owed(a, "unlock")' = Owed(a, "unlock") /\ Owed(a, "lock")' = Owed(a, "lock")
  BY DEF Owed, Weight
<1>3. /\ Total(ReleasingOn(a))' = Total(ReleasingOn(a)) - Releasing(req[p], a) + Releasing(req'[p], a)
      /\ Releasing(req[p], a) \in Nat /\ Releasing(req'[p], a) \in Nat
  BY <1>0, ReleasingMoves
<1>4. Releasing(req'[p], a) <= Releasing(req[p], a)
  BY <1>3 DEF Releasing
<1> QED
  BY <1>0, <1>1, <1>2, <1>3, <1>4, TableTypes DEF TableCovers

LEMMA ClaimArrive ==
    ASSUME ClaimInv, Onward, NEW p \in Proc, Arrive(p) PROVE ClaimInv'
<1>0. TypeOK /\ TypeOK'
  BY DEF ClaimInv, Onward, RowInv, BaseInv
<1>1. ASSUME NEW a \in Account, NEW n \in Amount, NEW op \in Op, UpdateBalanceRedis(p, op, a, n)
      PROVE  ClaimInv'
  <2>1. /\ OthersWait(p) /\ req'[p].op \in {"credit", "deduct", "check"}
        /\ UNCHANGED <<hold, withdrawal, dbLck, events, again>>
    BY <1>0, <1>1, BeginStep DEF UpdateBalanceRedis, rows, money
  <2> QED
    BY <2>1, ClaimQuiet
<1>2. ASSUME NEW h \in Hold, NEW n \in Amount, LockBalanceRedis(p, h, n)
      PROVE  ClaimInv'
  <2>1. /\ OthersWait(p) /\ req'[p].op = "lock"
        /\ UNCHANGED <<hold, withdrawal, dbLck, events, again>>
    BY <1>0, <1>2, BeginStep DEF LockBalanceRedis, rows, money
  <2> QED
    BY <2>1, ClaimQuiet
<1>3. ASSUME NEW w \in Withdrawal, NEW a \in Account, NEW n \in Amount, CreateWithdrawal(p, w, a, n)
      PROVE  ClaimInv'
  <2>1. PICK op \in {"cap", "withdraw"} : Begin(p, "get", op, a, n, w, n * rate)
    BY <1>3 DEF CreateWithdrawal
  <2>2. OthersWait(p) /\ req'[p].op # "unlock" /\ UNCHANGED <<hold, withdrawal, dbLck, events, again>>
    BY <1>0, <1>3, <2>1, BeginStep DEF CreateWithdrawal, rows, money
  <2> QED
    BY <2>2, ClaimQuiet
<1>4. ASSUME NEW w \in Withdrawal, AdminRejectWithdrawal(p, w)
      PROVE  ClaimInv'
  <2>1. /\ OthersWait(p) /\ req'[p].op = "reject"
        /\ UNCHANGED <<hold, withdrawal, dbLck, events, again>>
    BY <1>0, <1>4, BeginStep DEF AdminRejectWithdrawal, rows, money
  <2> QED
    BY <2>1, ClaimQuiet
<1>5. ASSUME NEW d \in Deposit, ConfirmDeposit(p, d)
      PROVE  ClaimInv'
  <2>1. /\ OthersWait(p) /\ req'[p].op = "confirm"
        /\ UNCHANGED <<hold, withdrawal, dbLck, events, again>>
    BY <1>0, <1>5, BeginStep DEF ConfirmDeposit, rows, money
  <2> QED
    BY <2>1, ClaimQuiet
<1>6. ASSUME NEW h \in Hold, NEW n \in Amount, UnlockBalanceRedis(p, h, n)
      PROVE  ClaimInv'
  <2>1. /\ OthersWait(p) /\ req'[p].op = "unlock" /\ req'[p].acct = HoldAcct[h] /\ req'[p].amt = n
        /\ req[p].pc = "idle" /\ hold' = [hold EXCEPT ![h] = hold[h] - n]
        /\ UNCHANGED <<withdrawal, dbLck, events, again>> /\ n <= hold[h]
    BY <1>0, <1>6, BeginStep DEF UnlockBalanceRedis, rows, money
  <2>2. hold[h] \in Nat /\ n \in Nat /\ hold[h] - n \in Nat
    BY <1>0, <2>1, AmountType DEF TypeOK, RowTypes
  <2> SUFFICES ASSUME NEW a \in Account, TableCovers(a), Whole(a)' PROVE TableCovers(a)'
    BY DEF ClaimInv, Onward
  <2>3. Total(HoldsOn(a))' = Total(HoldsOn(a)) + (IF HoldAcct[h] = a THEN (hold[h] - n) - hold[h] ELSE 0)
    BY <1>0, <2>1, <2>2, HoldsMove
  <2>4. Total(WithdrawalsOn(a))' = Total(WithdrawalsOn(a))
    BY <2>1 DEF WithdrawalsOn
  <2>5. Owed(a, "unlock")' = Owed(a, "unlock") /\ Owed(a, "lock")' = Owed(a, "lock")
    BY <2>1 DEF Owed, Weight
  <2>6. Total(ReleasingOn(a))' = Total(ReleasingOn(a)) - Releasing(req[p], a) + Releasing(req'[p], a)
    BY <1>0, <2>1, ReleasingMoves
  <2>7. Releasing(req[p], a) = 0
    BY <2>1 DEF Releasing, ClaimInv, RowInv, BaseInv, Shape, ShapeAt
  <2>8. Releasing(req'[p], a) = IF HoldAcct[h] = a THEN n ELSE 0
    BY <2>1 DEF Releasing
  <2> QED
    BY <1>0, <2>1, <2>2, <2>3, <2>4, <2>5, <2>6, <2>7, <2>8, TableTypes DEF TableCovers
<1> QED
  BY <1>0, <1>1, <1>2, <1>3, <1>4, <1>5, <1>6, HereTypes DEF Arrive

LEMMA ClaimPublish ==
    ASSUME ClaimInv, Onward, Reported, NEW p \in Proc, Publish(p) PROVE ClaimInv'
<1> DEFINE r == req[p]
<1>0. /\ TypeOK /\ TypeOK' /\ r \in Request /\ Shape(r) /\ r.acct \in Account /\ r.amt \in Nat
  BY DEF ClaimInv, Onward, RowInv, BaseInv, TypeOK, RequestTypes, Request
<1>1. /\ OthersWait(p) /\ req'[p] = Idle /\ events' = Append(events, EventOf(r))
      /\ UNCHANGED <<withdrawal, dbLck>> /\ r.pc = "publish"
  BY <1>0, FinishKeeps DEF Publish, Reported, rows, table
<1>2. EventOf(r) \in Event
  BY <1>0, EventOfTypes DEF Entry
<1> SUFFICES ASSUME NEW a \in Account, TableCovers(a), Whole(a)' PROVE TableCovers(a)'
  BY DEF ClaimInv, Onward
<1>3. Total(WithdrawalsOn(a))' = Total(WithdrawalsOn(a))
  BY <1>1 DEF WithdrawalsOn
<1>4. /\ Total(ReleasingOn(a))' = Total(ReleasingOn(a)) - Releasing(r, a)
      /\ Releasing(r, a) \in Nat
  <2>1. Releasing(Idle, a) = 0
    BY IdleType DEF Releasing
  <2>2. Total(ReleasingOn(a))' = Total(ReleasingOn(a)) - Releasing(req[p], a) + Releasing(req'[p], a)
        /\ Releasing(req[p], a) \in Nat
    BY <1>0, <1>1, ReleasingMoves
  <2> QED
    BY <1>0, <1>1, <2>1, <2>2, TableTypes
<1>5. /\ Owed(a, "lock")' = Owed(a, "lock") + Weight(a, "lock")[EventOf(r)]
      /\ Owed(a, "unlock")' = Owed(a, "unlock") + Weight(a, "unlock")[EventOf(r)]
  BY <1>0, <1>1, <1>2, OwedAppend
<1>6. /\ Weight(a, "lock")[EventOf(r)] = IF r.acct = a /\ r.op = "lock" THEN r.amt ELSE 0
      /\ Weight(a, "unlock")[EventOf(r)] = Releasing(r, a)
  BY <1>2 DEF Weight, EventOf, Releasing
<1>7. Total(HoldsOn(a))' = Total(HoldsOn(a)) + (IF r.acct = a /\ r.op = "lock" THEN r.amt ELSE 0)
  <2>1. CASE r.op = "lock"
    <3>1. PICK h \in Hold : h = r.ref /\ r.acct = HoldAcct[h]
      BY <1>0, <2>1 DEF TypeOK, RequestTypes, Shape
    <3>2. hold[h] \in Nat /\ hold[h] + r.amt \in Nat /\ hold' = [hold EXCEPT ![h] = hold[h] + r.amt]
      BY <1>0, <2>1, <3>1 DEF Publish, TypeOK, RowTypes
    <3>3. Total(HoldsOn(a))' = Total(HoldsOn(a))
                                 + (IF HoldAcct[h] = a THEN (hold[h] + r.amt) - hold[h] ELSE 0)
      BY <1>0, <3>2, HoldsMove
    <3> QED
      BY <1>0, <2>1, <3>1, <3>2, <3>3
  <2>2. CASE r.op # "lock"
    <3>1. HoldsOn(a)' = HoldsOn(a)
      BY <2>2 DEF Publish, HoldsOn
    <3> QED
      BY <1>0, <2>2, <3>1, TableTypes
  <2> QED
    BY <2>1, <2>2
<1>9. PICK n \in Nat, m \in Nat : /\ n = IF r.acct = a /\ r.op = "lock" THEN r.amt ELSE 0
                                 /\ m = Releasing(r, a)
  BY <1>0, <1>4
<1>10. /\ Owed(a, "lock")' = Owed(a, "lock") + n
       /\ Owed(a, "unlock")' = Owed(a, "unlock") + m
  BY <1>5, <1>6, <1>9
<1>11. /\ Total(HoldsOn(a))' = Total(HoldsOn(a)) + n
       /\ Total(ReleasingOn(a))' = Total(ReleasingOn(a)) - m
  BY <1>4, <1>7, <1>9
<1>12. dbLck'[a] = dbLck[a] /\ again'[a] = again[a]
  BY <1>1 DEF Publish
<1>13. /\ Total(HoldsOn(a)) \in Nat /\ Total(WithdrawalsOn(a)) \in Nat
       /\ Total(ReleasingOn(a)) \in Nat /\ dbLck[a] \in Nat
       /\ Owed(a, "unlock") \in Int /\ Owed(a, "lock") \in Int /\ again[a] \in Nat
  BY <1>0, TableTypes
<1>14. TableCovers(a)
  OBVIOUS
<1> HIDE DEF r
<1> QED
  BY ONLY <1>3, <1>14, <1>10, <1>11, <1>12, <1>13 DEF TableCovers

(* The transactions of a withdrawal lock and release what it reserves. *)
LEMMA ClaimRow ==
    ASSUME ClaimInv, Onward, NEW p \in Proc, OthersWait(p), UNCHANGED <<hold, events, again>>,
           req[p].op # "unlock", req'[p] = Idle,
           NEW w \in Withdrawal, \A v \in Withdrawal \ {w} : withdrawal'[v] = withdrawal[v],
           \A a \in Account : Whole(a)' => Reserved(withdrawal'[w], a) - dbLck'[a]
                                            <= Reserved(withdrawal[w], a) - dbLck[a]
    PROVE  ClaimInv'
<1> SUFFICES ASSUME NEW a \in Account, TableCovers(a), Whole(a)' PROVE TableCovers(a)'
  BY DEF ClaimInv, Onward
<1>0. TypeOK /\ TypeOK'
  BY DEF ClaimInv, Onward, RowInv, BaseInv
<1>1. Total(HoldsOn(a))' = Total(HoldsOn(a))
  BY DEF HoldsOn
<1>2. Owed(a, "unlock")' = Owed(a, "unlock") /\ Owed(a, "lock")' = Owed(a, "lock")
  BY DEF Owed, Weight
<1>3. Total(ReleasingOn(a))' = Total(ReleasingOn(a)) - Releasing(req[p], a) + Releasing(req'[p], a)
  BY <1>0, ReleasingMoves
<1>4. Releasing(req[p], a) = 0 /\ Releasing(req'[p], a) = 0
  BY IdleType DEF Releasing
<1>5. /\ Total(WithdrawalsOn(a))'
            = Total(WithdrawalsOn(a)) - Reserved(withdrawal[w], a) + Reserved(withdrawal'[w], a)
      /\ Reserved(withdrawal[w], a) \in Nat /\ Reserved(withdrawal'[w], a) \in Nat
  BY <1>0, WithdrawalsMove
<1>6. dbLck'[a] \in Nat
  BY <1>0 DEF TypeOK, StoreTypes
<1>7. TableCovers(a) /\ Reserved(withdrawal'[w], a) - dbLck'[a] <= Reserved(withdrawal[w], a) - dbLck[a]
  OBVIOUS
<1> QED
  BY <1>0, <1>1, <1>2, <1>3, <1>4, <1>5, <1>6, <1>7, TableTypes DEF TableCovers

LEMMA ClaimServe ==
    ASSUME ClaimInv, Onward, Reported, NEW p \in Proc, Serve(p) PROVE ClaimInv'
<1> DEFINE r == req[p]
<1>0. /\ TypeOK /\ TypeOK' /\ Served(p) /\ Shape(r) /\ r \in Request /\ r.acct \in Account /\ r.amt \in Nat
  BY ServeStep DEF ClaimInv, Onward, RowInv, BaseInv, TypeOK, RequestTypes, Request
<1>1. CASE UNCHANGED <<hold, withdrawal, dbLck, events, again>>
  <2>1. OthersWait(p)
    BY <1>0 DEF Served
  <2>2. req'[p].op = "unlock" => req'[p].acct = r.acct /\ req'[p].amt = r.amt /\ r.op = "unlock"
    BY <1>0, IdleType DEF Served, Keeps, Advances
  <2> QED
    BY <1>1, <2>1, <2>2, ClaimQuiet
<1>2. CASE Publish(p)
  BY <1>2, ClaimPublish
<1>3. CASE WithdrawalTx(p) /\ ~UNCHANGED <<hold, withdrawal, dbLck, events, again>>
  <2>1. PICK w \in Withdrawal : w = r.ref
    BY <1>0, <1>3 DEF WithdrawalTx, TypeOK, RequestTypes
  <2>2. /\ withdrawal' = [withdrawal EXCEPT ![w] = [status |-> "PENDING", acct |-> r.acct,
                                                    vnd |-> r.vnd, usdt |-> r.amt]]
        /\ dbLck' = [dbLck EXCEPT ![r.acct] = @ + r.amt] /\ dbLck \in [Account -> Nat]
        /\ r.pc = "dbLock" /\ UNCHANGED <<hold, events, again>> /\ Finish(p)
        /\ withdrawal \in [Withdrawal -> WithdrawalRow]
    BY <1>0, <1>3, <2>1 DEF WithdrawalTx, TypeOK, RowTypes, StoreTypes
  <2>3. r.op = "withdraw" /\ OthersWait(p) /\ req'[p] = Idle
    BY <1>0, <2>2, FinishKeeps DEF Shape, ShapeAt
  <2>4. \A v \in Withdrawal \ {w} : withdrawal'[v] = withdrawal[v]
    BY <2>2
  <2>5. ASSUME NEW a \in Account
        PROVE  Reserved(withdrawal'[w], a) - dbLck'[a] <= Reserved(withdrawal[w], a) - dbLck[a]
    <3>1. Reserved(withdrawal'[w], a) = IF r.acct = a THEN r.amt ELSE 0
      BY <2>2 DEF Reserved, Live
    <3>2. Reserved(withdrawal[w], a) \in Nat
      BY <2>2 DEF Reserved, WithdrawalRow
    <3>3. dbLck'[a] = dbLck[a] + (IF r.acct = a THEN r.amt ELSE 0) /\ dbLck[a] \in Nat
      BY <1>0, <2>2
    <3> HIDE DEF r
    <3> QED
      BY <1>0, <3>1, <3>2, <3>3
  <2> QED
    BY <2>2, <2>3, <2>4, <2>5, ClaimRow
<1>4. CASE RejectTx(p) /\ ~UNCHANGED <<hold, withdrawal, dbLck, events, again>>
  <2>1. PICK w \in Withdrawal : w = r.ref
    BY <1>0, <1>4 DEF RejectTx, TypeOK, RequestTypes
  <2>2. /\ withdrawal' = [withdrawal EXCEPT ![w].status = "REJECTED"]
        /\ dbLck' = [dbLck EXCEPT ![r.acct] = Monus(@, r.amt)] /\ dbLck \in [Account -> Nat]
        /\ r.pc = "rejectTx" /\ UNCHANGED <<hold, events, again>> /\ Finish(p)
        /\ withdrawal \in [Withdrawal -> WithdrawalRow]
    BY <1>0, <1>4, <2>1 DEF RejectTx, TypeOK, RowTypes, StoreTypes
  <2>3. r.op = "reject" /\ OthersWait(p) /\ req'[p] = Idle
    BY <1>0, <2>2, FinishKeeps DEF Shape, ShapeAt
  <2>4. \A v \in Withdrawal \ {w} : withdrawal'[v] = withdrawal[v]
    BY <2>2
  <2>5. withdrawal[w].status \in Live /\ withdrawal[w].acct = r.acct
    BY <2>1, <2>2 DEF ClaimInv, RowInv, OnRow
  <2>6. RateStays => withdrawal[w].usdt = r.amt
    BY <2>1, <2>2 DEF ClaimInv, RowInv, Priced
  <2>7. ASSUME NEW a \in Account, Whole(a)'
        PROVE  Reserved(withdrawal'[w], a) - dbLck'[a] <= Reserved(withdrawal[w], a) - dbLck[a]
    <3>1. withdrawal'[w].status = "REJECTED" /\ withdrawal'[w].acct = r.acct
      BY <2>2, <2>5 DEF WithdrawalRow
    <3>2. Reserved(withdrawal'[w], a) = 0
      BY <3>1 DEF Reserved, Live
    <3>3. r.acct = a => RateStays
      BY <2>7, <3>1 DEF Whole, Unrejected, RateStays, Onward, ClaimInv
    <3>4. Reserved(withdrawal[w], a) = IF r.acct = a THEN r.amt ELSE 0
      BY <2>5, <2>6, <3>3 DEF Reserved
    <3>5. dbLck[a] \in Nat /\ dbLck'[a] \in Nat /\ dbLck'[a] >= dbLck[a] - (IF r.acct = a THEN r.amt ELSE 0)
      BY <1>0, <2>2 DEF Monus
    <3> HIDE DEF r
    <3> QED
      BY <1>0, <3>2, <3>4, <3>5
  <2> QED
    BY <2>2, <2>3, <2>4, <2>7, ClaimRow
<1> QED
  BY <1>1, <1>2, <1>3, <1>4 DEF Serve, EnsureGet, EnsureFind, EnsureSetBal, EnsureSetLck, Script,
     ScriptError, Publish, CapGetBalance, CapGetLocked, WithdrawalTx, UndoLock, RejectTx, ConfirmTx,
     ConfirmCredit, rows, money, table

LEMMA ClaimOthers ==
    ASSUME ClaimInv, Onward, Reported, Others PROVE ClaimInv'
<1>0. TypeOK /\ TypeOK'
  BY DEF ClaimInv, Onward, RowInv, BaseInv
<1>1. CASE UNCHANGED <<hold, withdrawal, dbLck, events, again, req>>
  BY <1>1 DEF ClaimInv, Onward, TableCovers, HoldsOn, WithdrawalsOn, ReleasingOn, Owed, Weight
<1>2. CASE Restart
  <2>1. req' = [p \in Proc |-> Idle] /\ UNCHANGED <<hold, withdrawal, dbLck, events, again>>
    BY <1>2 DEF Restart, ReadOnAfter, table, rows
  <2> SUFFICES ASSUME NEW a \in Account, TableCovers(a), Whole(a)' PROVE TableCovers(a)'
    BY DEF ClaimInv, Onward
  <2>2. /\ Total(HoldsOn(a))' = Total(HoldsOn(a)) /\ Total(WithdrawalsOn(a))' = Total(WithdrawalsOn(a))
        /\ Owed(a, "unlock")' = Owed(a, "unlock") /\ Owed(a, "lock")' = Owed(a, "lock")
    BY <2>1 DEF HoldsOn, WithdrawalsOn, Owed, Weight
  <2>3. Total(ReleasingOn(a))' = 0
    <3>1. ReleasingOn(a)' \in [Proc -> Nat] /\ \A q \in Proc : ReleasingOn(a)'[q] = 0
      BY <2>1, IdleType DEF ReleasingOn
    <3> QED
      BY <3>1, TotalZero, FiniteAssumption
  <2> QED
    BY <1>0, <2>1, <2>2, <2>3, TableTypes DEF TableCovers
<1>3. ASSUME NEW w \in Withdrawal, AdminApproveWithdrawal(w) PROVE ClaimInv'
  <2>1. /\ UNCHANGED <<hold, dbLck, events, again, req>> /\ withdrawal \in [Withdrawal -> WithdrawalRow]
        /\ withdrawal[w].status = "PENDING" /\ withdrawal' = [withdrawal EXCEPT ![w].status = "APPROVED"]
    BY <1>0, <1>3 DEF AdminApproveWithdrawal, money, TypeOK, RowTypes
  <2> SUFFICES ASSUME NEW a \in Account, TableCovers(a), Whole(a)' PROVE TableCovers(a)'
    BY DEF ClaimInv, Onward
  <2>2. \A v \in Withdrawal : Reserved(withdrawal'[v], a) = Reserved(withdrawal[v], a)
    BY <2>1 DEF Reserved, Live, WithdrawalRow
  <2>3. WithdrawalsOn(a)' = WithdrawalsOn(a)
    BY <2>2 DEF WithdrawalsOn
  <2> QED
    BY <2>1, <2>3 DEF ClaimInv, TableCovers, HoldsOn, ReleasingOn, Owed, Weight
<1>4. CASE Project
  <2> DEFINE e == Given
  <2> SUFFICES ASSUME NEW a \in Account, TableCovers(a), Whole(a)' PROVE TableCovers(a)'
    BY DEF ClaimInv, Onward
  <2>1. UNCHANGED <<hold, withdrawal, req>>
    BY <1>4 DEF Project, rows
  <2>2. /\ dbLck \in [Account -> Nat] /\ again \in [Account -> Nat]
        /\ events \in Seq(Entry) /\ redo \in Seq(Entry) /\ ReadEvent
    BY <1>0, <1>4 DEF TypeOK, StoreTypes, EventTypes, Project
  <2>3. e \in Entry
    BY <2>2, HeadElement DEF ReadEvent, Given
  <2> HIDE DEF e
  <2>4. e \in Event /\ e.acct \in Account /\ (e.reason # "grpc" => e.delta \in Nat)
    BY <2>3 DEF Entry, Event
  <2> DEFINE m == Weight(a, "lock")[e]
             n == Weight(a, "unlock")[e]
  <2>5. /\ m \in Int /\ n \in Int /\ dbLck'[a] \in Nat /\ dbLck[a] \in Nat
        /\ again[a] \in Nat /\ again'[a] \in Nat
        /\ Owed(a, "lock")' \in Int /\ Owed(a, "unlock")' \in Int
        /\ Owed(a, "lock") \in Int /\ Owed(a, "unlock") \in Int
    <3>1. m \in Int /\ n \in Int
      BY <2>4, WeightType
    <3>2. dbLck'[a] \in Nat /\ again'[a] \in Nat
      BY <1>0 DEF TypeOK, StoreTypes, EventTypes
    <3> QED
      BY <1>0, <2>2, <3>1, <3>2, OwedTypeNext, TableTypes
  <2>6. dbLck'[a] + n >= dbLck[a] + m /\ m >= 0 /\ n >= 0
    <3>1. CASE e.reason = "lock" /\ dbLck' = [dbLck EXCEPT ![e.acct] = @ + e.delta]
      BY <2>2, <2>4, <3>1 DEF Weight
    <3>2. CASE e.reason = "unlock" /\ dbLck' = [dbLck EXCEPT ![e.acct] = Monus(@, e.delta)]
      BY <2>2, <2>4, <3>2 DEF Monus, Weight
    <3>3. CASE e.reason = "grpc" /\ dbLck' = dbLck
      BY <2>2, <2>4, <3>3 DEF Weight
    <3> QED
      BY <1>4, <3>1, <3>2, <3>3 DEF Project, e
  <2>7. /\ Total(HoldsOn(a))' = Total(HoldsOn(a)) /\ Total(WithdrawalsOn(a))' = Total(WithdrawalsOn(a))
        /\ Total(ReleasingOn(a))' = Total(ReleasingOn(a))
    BY <2>1 DEF HoldsOn, WithdrawalsOn, ReleasingOn
  <2>9. CASE redo # <<>>
    <3>1. UNCHANGED events
      BY <2>2, <2>9 DEF ReadEvent
    <3>2. Owed(a, "lock")' = Owed(a, "lock") /\ Owed(a, "unlock")' = Owed(a, "unlock")
      BY <3>1 DEF Owed, Weight
    <3>3. again'[a] = again[a] + n
      <4>1. CASE e.reason = "unlock"
        <5>1. again' = [again EXCEPT ![e.acct] = @ + e.delta]
          BY <1>4, <2>9, <4>1 DEF Project, e
        <5> QED
          BY <2>2, <2>4, <4>1, <5>1 DEF Weight
      <4>2. CASE e.reason # "unlock"
        <5>1. again' = again
          BY <1>4, <4>2 DEF Project, e
        <5> QED
          BY <2>2, <2>4, <4>2, <5>1 DEF Weight
      <4> QED
        BY <4>1, <4>2
    <3>4. TableCovers(a) /\ /\ Total(HoldsOn(a)) \in Nat /\ Total(WithdrawalsOn(a)) \in Nat
                            /\ Total(ReleasingOn(a)) \in Nat
      BY <1>0, TableTypes
    <3>5. dbLck[a] + again[a] <= dbLck'[a] + again'[a]
      <4> HIDE DEF m, n
      <4> QED
        BY <2>5, <2>6, <3>3
    <3> HIDE DEF m, n
    <3> QED
      BY ONLY <2>5, <2>7, <3>2, <3>4, <3>5 DEF TableCovers
  <2>10. CASE redo = <<>>
    <3>1. events # <<>> /\ events' = Tail(events) /\ e = Head(events) /\ again' = again
      BY <1>4, <2>2, <2>10 DEF ReadEvent, Given, Project, e
    <3>2. Owed(a, "lock") = m + Owed(a, "lock")' /\ Owed(a, "unlock") = n + Owed(a, "unlock")'
      BY <1>0, <3>1, OwedTail
    <3>3. TableCovers(a) /\ /\ Total(HoldsOn(a)) \in Nat /\ Total(WithdrawalsOn(a)) \in Nat
                            /\ Total(ReleasingOn(a)) \in Nat
      BY <1>0, TableTypes
    <3>4. again'[a] = again[a]
      BY <3>1
    <3> HIDE DEF m, n
    <3> QED
      BY ONLY <2>5, <2>6, <2>7, <3>2, <3>3, <3>4 DEF TableCovers
  <2> QED
    BY <2>9, <2>10
<1> QED
  BY <1>1, <1>2, <1>3, <1>4 DEF Others, Admin, AdminRejectDeposit, CreateDeposit, WarmUp, WarmRows,
     WarmGetBal, WarmSetBal, WarmGetLck, WarmSetLck, Background, LoseEvent, RefreshRate,
     RedisFlush, rows, money, table, Reported

LEMMA ClaimStep ==
    ASSUME ClaimInv, [Next]_vars, OneByOne, Reported PROVE ClaimInv'
<1>1. Onward
  BY RowInvStep, RejectedStays, HereStays DEF ClaimInv, Onward, Whole, RateStays
<1>2. CASE UNCHANGED vars
  <2>1. UNCHANGED <<hold, withdrawal, dbLck, events, again, req>>
    BY <1>2 DEF vars, money, rows
  <2> QED
    BY <1>1, <2>1 DEF Onward, ClaimInv, TableCovers, HoldsOn, WithdrawalsOn, ReleasingOn, Owed, Weight
<1> QED
  BY <1>1, <1>2, ClaimArrive, ClaimServe, ClaimOthers DEF Next, Others

LEMMA ClaimInit == ASSUME Init PROVE ClaimInv
<1>1. RowInv /\ TypeOK
  BY RowInit DEF RowInv, BaseInv
<1> SUFFICES ASSUME NEW a \in Account PROVE TableCovers(a)
  BY <1>1 DEF ClaimInv
<1>2. Total(HoldsOn(a)) = 0
  <2>1. HoldsOn(a) \in [Hold -> Nat] /\ \A h \in Hold : HoldsOn(a)[h] = 0
    BY DEF Init, InitRows, HoldsOn
  <2> QED
    BY <2>1, TotalZero, FiniteAssumption
<1>3. Total(WithdrawalsOn(a)) = 0
  <2>1. WithdrawalsOn(a) \in [Withdrawal -> Nat] /\ \A w \in Withdrawal : WithdrawalsOn(a)[w] = 0
    BY DEF Init, InitRows, WithdrawalsOn, Reserved, Live
  <2> QED
    BY <2>1, TotalZero, FiniteAssumption
<1>4. Total(ReleasingOn(a)) = 0
  <2>1. ReleasingOn(a) \in [Proc -> Nat] /\ \A q \in Proc : ReleasingOn(a)[q] = 0
    BY IdleType DEF Init, InitRows, ReleasingOn
  <2> QED
    BY <2>1, TotalZero, FiniteAssumption
<1>5. Owed(a, "unlock") = 0 /\ Owed(a, "lock") = 0 /\ dbLck[a] = 0 /\ again[a] = 0
  BY OwedNothing DEF Init, InitRows
<1> QED
  BY <1>2, <1>3, <1>4, <1>5 DEF TableCovers

LEMMA PendingIsOwed == ASSUME TypeOK, NEW a, NEW r PROVE Pending(a, r) = Owed(a, r)
<1>1. events \in Seq(Event) /\ DOMAIN events = 1..Len(events)
  BY EntryEvents DEF TypeOK, EventTypes
<1>2. \A i \in DOMAIN events : Weight(a, r)[events[i]]
         = IF events[i].acct = a /\ events[i].reason = r THEN events[i].delta ELSE 0
  BY <1>1 DEF Weight
<1>3. [i \in DOMAIN events |->
         IF events[i].acct = a /\ events[i].reason = r THEN events[i].delta ELSE 0]
        = [i \in DOMAIN events |-> Weight(a, r)[events[i]]]
  BY <1>2
<1> QED
  BY <1>1, <1>3 DEF Pending, Owed, SumTo, Total

LEMMA ClaimHolds == ASSUME ClaimInv, RateStays PROVE TableLocksCoverClaims
BY PendingIsOwed DEF ClaimInv, Whole, RowInv, BaseInv, TableCovers, TableLocksCoverClaims

(* The table errs on the safe side, for any number of accounts, requests,  *)
(* orders, deposits and withdrawals: the projector skips a deduction at    *)
(* most, its locks cover what counts on them and what it has still to      *)
(* release, except for what it released again after a restart, and a       *)
(* deposit is added to a row once.                                         *)
THEOREM TableStaysSafe == Spec => []TableIsSafe
<1> DEFINE Inv == /\ Steady => LedgerInv
                  /\ OneByOne /\ Reported => ClaimInv
                  /\ OneByOne => DepositInv
<1>1. Init => Inv
  BY LedgerInit, ClaimInit, DepositInit DEF Steady
<1>2. Inv /\ [Next]_vars => Inv'
  <2> SUFFICES ASSUME Inv, [Next]_vars PROVE Inv'
    OBVIOUS
  <2>1. here' = here
    BY HereStays
  <2>2. Steady' = Steady /\ OneByOne' = OneByOne /\ Reported' = Reported
    BY <2>1 DEF Steady, OneByOne, Reported, Faults
  <2> QED
    BY <2>2, LedgerStep, ClaimStep, DepositStep
<1>3. Inv => TableIsSafe
  BY LedgerHolds, ClaimHolds DEF TableIsSafe, Steady, Reported, DepositInv
<1> QED
  BY <1>1, <1>2, <1>3, PTL DEF Spec

-----------------------------------------------------------------------------
(* One request after another: the stores differ by what is under way *)

OwedTo(a, r, k) == SumTo(Weight(a, r), events, k)

(* What a request has locked or released in Redis and not in the table. *)
Taking(r, a) ==
    IF r.acct # a THEN 0
    ELSE IF (r.pc = "publish" /\ r.op = "lock") \/ r.pc \in {"dbLock", "undo"} THEN r.amt
    ELSE IF r.pc = "publish" /\ r.op = "unlock" THEN -r.amt ELSE 0

(* Where a request stands, its keys are loaded, or missing and about to be *)
(* written with what the row still holds.                                  *)
AtKeys(r) ==
    /\ r.pc \in {"find", "setBal"} => bal[r.acct] = Absent
    /\ r.pc = "setLck" => bal[r.acct] # Absent /\ lck[r.acct] = Absent
    /\ r.pc \in {"capBal", "capLck", "script", "publish", "dbLock", "undo", "rejectTx", "confirmTx", "credit"}
         => lck[r.acct] # Absent
    /\ r.pc = "setBal" => r.snapBal = dbBal[r.acct]
    /\ r.pc \in {"setBal", "setLck"} => r.snapLck = dbLck[r.acct]

(* Nothing has happened to a wallet whose keys nobody has loaded. *)
Untouched(a) ==
    /\ \A i \in DOMAIN events : events[i].acct # a
    /\ dbLck[a] = 0
    /\ \A h \in Hold : HoldAcct[h] = a => hold[h] = 0
    /\ \A w \in Withdrawal : withdrawal[w].acct = a => withdrawal[w].status = "NONE"
KeysSound(a) ==
    /\ bal[a] = Absent => lck[a] = Absent
    /\ here.warm => lck[a] # Absent
    /\ bal[a] # Absent /\ lck[a] = Absent
         => \E p \in here.procs : req[p].pc = "setLck" /\ req[p].acct = a
    /\ lck[a] = Absent => Untouched(a)

(* The row will hold what Redis holds, and no event on the way to that is  *)
(* skipped or cut short.                                                   *)
BalanceSound(a) ==
    bal[a] # Absent =>
      /\ \A p \in here.procs : bal[a] = dbBal[a] + Owed(a, "grpc") + Posting(req[p], a)
      /\ \A k \in 0..Len(events) : dbBal[a] + OwedTo(a, "grpc", k) >= 0
LockSound(a) ==
    lck[a] # Absent /\ Unrejected(a) =>
      /\ \A p \in here.procs :
           lck[a] = dbLck[a] + Owed(a, "lock") - Owed(a, "unlock") + Taking(req[p], a)
      /\ \A k \in 0..Len(events) : dbLck[a] + OwedTo(a, "lock", k) - OwedTo(a, "unlock", k) >= 0
Sound(a) == KeysSound(a) /\ BalanceSound(a) /\ LockSound(a)

NoDeposits ==
    /\ \A d \in Deposit : deposit[d].status = "NONE"
    /\ \A p \in Proc : req[p].op # "confirm"
StoreInv ==
    /\ ClaimInv /\ NothingAgain
    /\ warm.pc = "off"
    /\ ~here.warm => NoDeposits
    /\ \A p \in Proc : AtKeys(req[p])
    /\ \A a \in Account : Sound(a)

(* What a step of the one request there is may rely on. *)
Alone(p) ==
    /\ p \in Proc /\ p \in here.procs /\ OthersWait(p) /\ here' = here
    /\ \A q \in here.procs : q = p
    /\ TypeOK /\ TypeOK'
    /\ \A a \in Account : Unrejected(a)' => Unrejected(a)

LEMMA OwedToType ==
    ASSUME TypeOK, NEW a, NEW r, NEW k \in 0..Len(events) PROVE OwedTo(a, r, k) \in Int
<1>1. events \in Seq(Event)
  BY EntryEvents DEF TypeOK, EventTypes
<1> QED
  BY <1>1, WeightType, SumToType DEF OwedTo

LEMMA OwedToNextType ==
    ASSUME TypeOK', NEW a, NEW r, NEW k \in 0..Len(events') PROVE OwedTo(a, r, k)' \in Int
<1>1. events' \in Seq(Event) /\ Weight(a, r)' = Weight(a, r)
  BY EntryEvents DEF TypeOK, EventTypes, Weight
<1> QED
  BY <1>1, WeightType, SumToType DEF OwedTo

LEMMA OwedToNone ==
    ASSUME TypeOK, NEW a, \A i \in DOMAIN events : events[i].acct # a
    PROVE  \A r : /\ Owed(a, r) = 0
                  /\ \A k \in 0..Len(events) : OwedTo(a, r, k) = 0
<1> SUFFICES ASSUME NEW r, NEW k \in 0..Len(events) PROVE OwedTo(a, r, k) = 0
  <2>1. events \in Seq(Event)
    BY EntryEvents DEF TypeOK, EventTypes
  <2> QED
    BY <2>1 DEF Owed, OwedTo
<1> DEFINE f == [i \in DOMAIN events |-> Weight(a, r)[events[i]]]
<1>1. \A i \in 1..k : f[i] = 0
  <2>1. events \in Seq(Event)
    BY EntryEvents DEF TypeOK, EventTypes
  <2> QED
    BY <2>1 DEF Weight
<1>2. IsFiniteSet(1..k)
  BY FS_Interval
<1> HIDE DEF f
<1>3. Sum(f, 1..k) = 0
  BY <1>1, <1>2, SumZero
<1> QED
  BY <1>3 DEF OwedTo, SumTo, f

LEMMA OwedToAppend ==
    ASSUME TypeOK, NEW e \in Event, events' = Append(events, e), NEW a, NEW r, NEW k \in 0..Len(events')
    PROVE  OwedTo(a, r, k)' = IF k <= Len(events) THEN OwedTo(a, r, k) ELSE Owed(a, r) + Weight(a, r)[e]
<1>1. events \in Seq(Event) /\ Len(events') = Len(events) + 1 /\ Weight(a, r)' = Weight(a, r)
  BY EntryEvents DEF TypeOK, EventTypes, Weight
<1>2. CASE k <= Len(events)
  <2>1. k \in 0..Len(events)
    BY <1>1, <1>2
  <2>2. SumTo(Weight(a, r), Append(events, e), k) = SumTo(Weight(a, r), events, k)
    BY <1>1, <2>1, WeightType, SumToAppend
  <2> QED
    BY <1>1, <1>2, <2>2 DEF OwedTo
<1>3. CASE k = Len(events) + 1
  <2>1. SumTo(Weight(a, r), Append(events, e), Len(events) + 1)
          = SumTo(Weight(a, r), events, Len(events)) + Weight(a, r)[e]
    BY <1>1, WeightType, SumToAll
  <2> QED
    BY <1>1, <1>3, <2>1 DEF OwedTo, Owed
<1> QED
  BY <1>1, <1>2, <1>3

LEMMA OwedToRest ==
    ASSUME TypeOK, events # <<>>, events' = Tail(events), NEW a, NEW r, NEW k \in 0..Len(events')
    PROVE  /\ k + 1 \in 0..Len(events)
           /\ OwedTo(a, r, k + 1) = Weight(a, r)[Head(events)] + OwedTo(a, r, k)'
<1>1. events \in Seq(Event) /\ Len(events) = Len(Tail(events)) + 1 /\ Weight(a, r)' = Weight(a, r)
  BY EntryEvents DEF TypeOK, EventTypes, Weight
<1>2. SumTo(Weight(a, r), events, k + 1) = Weight(a, r)[Head(events)] + SumTo(Weight(a, r), Tail(events), k)
  BY <1>1, WeightType, SumToTail
<1> QED
  BY <1>1, <1>2 DEF OwedTo

(* What a step leaves alone. *)
LEMMA UntouchedSame ==
    ASSUME NEW a, UNCHANGED <<events, hold, withdrawal>>, dbLck'[a] = dbLck[a]
    PROVE  Untouched(a)' = Untouched(a)
BY DEF Untouched

LEMMA KeysSame ==
    ASSUME NEW p, Alone(p), NEW a \in Account, KeysSound(a), req[p].pc # "setLck",
           bal'[a] = Absent <=> bal[a] = Absent, lck'[a] = Absent <=> lck[a] = Absent,
           lck[a] = Absent /\ Untouched(a) => Untouched(a)'
    PROVE  KeysSound(a)'
BY DEF KeysSound, Alone

LEMMA BalanceSame ==
    ASSUME NEW p, Alone(p), NEW a \in Account, BalanceSound(a),
           bal'[a] = bal[a], dbBal'[a] = dbBal[a], events' = events,
           Posting(req'[p], a) = Posting(req[p], a)
    PROVE  BalanceSound(a)'
BY DEF BalanceSound, Alone, Owed, OwedTo, Weight

LEMMA LockSame ==
    ASSUME NEW p, Alone(p), NEW a \in Account, LockSound(a),
           lck'[a] = lck[a], dbLck'[a] = dbLck[a], events' = events,
           Taking(req'[p], a) = Taking(req[p], a)
    PROVE  LockSound(a)'
BY DEF LockSound, Alone, Owed, OwedTo, Weight

(* A step of a request that moves no funds. *)
LEMMA OnlyRequest ==
    ASSUME StoreInv, NEW p, Alone(p), UNCHANGED <<bal, lck, dbBal, dbLck, events>>,
           req[p].pc # "setLck",
           \A a \in Account : /\ lck[a] = Absent /\ Untouched(a) => Untouched(a)'
                              /\ Posting(req'[p], a) = Posting(req[p], a)
                              /\ Taking(req'[p], a) = Taking(req[p], a)
    PROVE  \A a \in Account : Sound(a)'
<1> SUFFICES ASSUME NEW a \in Account PROVE Sound(a)'
  OBVIOUS
<1>1. Sound(a)
  BY DEF StoreInv
<1>2. KeysSound(a)'
  BY <1>1, KeysSame DEF Sound
<1>3. BalanceSound(a)'
  BY <1>1, BalanceSame DEF Sound
<1>4. LockSound(a)'
  BY <1>1, LockSame DEF Sound
<1> QED
  BY <1>2, <1>3, <1>4 DEF Sound

LEMMA NothingMoves ==
    ASSUME NEW r, r.pc \notin {"publish", "credit", "dbLock", "undo"}, NEW a
    PROVE  Posting(r, a) = 0 /\ Taking(r, a) = 0
BY DEF Posting, Taking

(* Requests that arrive *)
LEMMA StoreArrive ==
    ASSUME StoreInv, NEW p, Alone(p), Arrive(p)
    PROVE  AtKeys(req[p])' /\ \A a \in Account : Sound(a)'
<1>0. TypeOK /\ p \in Proc
  BY DEF Alone
<1>1. ASSUME UNCHANGED <<bal, lck, dbBal, dbLck, events, withdrawal>>, req[p].pc = "idle",
             req'[p].pc \in {"get", "script", "rejectTx", "confirmTx"},
             \A h \in Hold : lck[HoldAcct[h]] = Absent /\ hold[h] = 0 => hold'[h] = 0
      PROVE  \A a \in Account : Sound(a)'
  <2>1. \A a \in Account : Posting(req'[p], a) = 0 /\ Taking(req'[p], a) = 0
    BY <1>1, NothingMoves
  <2>2. \A a \in Account : Posting(req[p], a) = 0 /\ Taking(req[p], a) = 0
    BY <1>1, NothingMoves
  <2>3. \A a \in Account : lck[a] = Absent /\ Untouched(a) => Untouched(a)'
    BY <1>1 DEF Untouched
  <2> QED
    BY <1>1, <2>1, <2>2, <2>3, OnlyRequest
<1>2. ASSUME NEW a \in Account, NEW n \in Amount, NEW op \in Op, UpdateBalanceRedis(p, op, a, n)
      PROVE  AtKeys(req[p])' /\ \A b \in Account : Sound(b)'
  <2>1. /\ req[p].pc = "idle" /\ req'[p].pc = "get"
        /\ UNCHANGED <<bal, lck, dbBal, dbLck, events, withdrawal, hold>>
    BY <1>0, <1>2, BeginStep DEF UpdateBalanceRedis, rows, money
  <2> QED
    BY <1>1, <2>1 DEF AtKeys
<1>3. ASSUME NEW h \in Hold, NEW n \in Amount, LockBalanceRedis(p, h, n)
      PROVE  AtKeys(req[p])' /\ \A b \in Account : Sound(b)'
  <2>1. /\ req[p].pc = "idle" /\ req'[p].pc = "get"
        /\ UNCHANGED <<bal, lck, dbBal, dbLck, events, withdrawal, hold>>
    BY <1>0, <1>3, BeginStep DEF LockBalanceRedis, rows, money
  <2> QED
    BY <1>1, <2>1 DEF AtKeys
<1>4. ASSUME NEW h \in Hold, NEW n \in Amount, UnlockBalanceRedis(p, h, n)
      PROVE  AtKeys(req[p])' /\ \A b \in Account : Sound(b)'
  <2>1. /\ req[p].pc = "idle" /\ req'[p].pc = "script" /\ req'[p].acct = HoldAcct[h]
        /\ UNCHANGED <<bal, lck, dbBal, dbLck, events, withdrawal>>
        /\ n <= hold[h] /\ hold' = [hold EXCEPT ![h] = @ - n]
    BY <1>0, <1>4, BeginStep DEF UnlockBalanceRedis, rows, money
  <2>2. hold \in [Hold -> Nat] /\ n \in Nat /\ n > 0 /\ HoldAcct[h] \in Account
    BY <1>0, AmountType, AccountAssumption DEF TypeOK, RowTypes
  <2>3. lck[HoldAcct[h]] # Absent
    <3>1. KeysSound(HoldAcct[h])
      BY <2>2 DEF StoreInv, Sound
    <3>2. ~Untouched(HoldAcct[h])
      BY <2>1, <2>2 DEF Untouched
    <3> QED
      BY <3>1, <3>2 DEF KeysSound
  <2>4. \A g \in Hold : lck[HoldAcct[g]] = Absent /\ hold[g] = 0 => hold'[g] = 0
    BY <2>1, <2>2, <2>3
  <2> QED
    BY <1>1, <2>1, <2>3, <2>4 DEF AtKeys
<1>5. ASSUME NEW w \in Withdrawal, NEW a \in Account, NEW n \in Amount, CreateWithdrawal(p, w, a, n)
      PROVE  AtKeys(req[p])' /\ \A b \in Account : Sound(b)'
  <2>1. PICK op \in {"cap", "withdraw"} : Begin(p, "get", op, a, n, w, n * rate)
    BY <1>5 DEF CreateWithdrawal
  <2>2. /\ req[p].pc = "idle" /\ req'[p].pc = "get"
        /\ UNCHANGED <<bal, lck, dbBal, dbLck, events, withdrawal, hold>>
    BY <1>0, <1>5, <2>1, BeginStep DEF CreateWithdrawal, rows, money
  <2> QED
    BY <1>1, <2>2 DEF AtKeys
<1>6. ASSUME NEW w \in Withdrawal, AdminRejectWithdrawal(p, w)
      PROVE  AtKeys(req[p])' /\ \A b \in Account : Sound(b)'
  <2>1. /\ req[p].pc = "idle" /\ req'[p].pc = "rejectTx" /\ req'[p].acct = withdrawal[w].acct
        /\ UNCHANGED <<bal, lck, dbBal, dbLck, events, withdrawal, hold>>
        /\ withdrawal[w].status = "PENDING"
    BY <1>0, <1>6, BeginStep DEF AdminRejectWithdrawal, rows, money
  <2>2. withdrawal[w].acct \in Account
    BY <1>0 DEF TypeOK, RowTypes, WithdrawalRow
  <2>3. lck[withdrawal[w].acct] # Absent
    <3>1. KeysSound(withdrawal[w].acct)
      BY <2>2 DEF StoreInv, Sound
    <3>2. ~Untouched(withdrawal[w].acct)
      BY <2>1 DEF Untouched
    <3> QED
      BY <3>1, <3>2 DEF KeysSound
  <2> QED
    BY <1>1, <2>1, <2>3 DEF AtKeys
<1>7. ASSUME NEW d \in Deposit, ConfirmDeposit(p, d)
      PROVE  AtKeys(req[p])' /\ \A b \in Account : Sound(b)'
  <2>1. /\ req[p].pc = "idle" /\ req'[p].pc = "confirmTx" /\ req'[p].acct = deposit[d].acct
        /\ UNCHANGED <<bal, lck, dbBal, dbLck, events, withdrawal, hold>>
        /\ deposit[d].status = "PENDING"
    BY <1>0, <1>7, BeginStep DEF ConfirmDeposit, rows, money
  <2>2. deposit[d].acct \in Account /\ here.warm
    BY <1>0, <2>1 DEF TypeOK, RowTypes, DepositRow, StoreInv, NoDeposits
  <2>3. lck[deposit[d].acct] # Absent
    BY <2>2 DEF StoreInv, Sound, KeysSound
  <2> QED
    BY <1>1, <2>1, <2>3 DEF AtKeys
<1> QED
  BY <1>0, <1>2, <1>3, <1>4, <1>5, <1>6, <1>7, HereTypes DEF Arrive

(* Loading a wallet *)
LEMMA StoreEnsure ==
    ASSUME StoreInv, NEW p, Alone(p), Faults = {},
           EnsureGet(p) \/ EnsureFind(p) \/ EnsureSetBal(p) \/ EnsureSetLck(p)
    PROVE  AtKeys(req[p])' /\ \A a \in Account : Sound(a)'
<1> DEFINE r == req[p]
<1>0. /\ TypeOK /\ p \in Proc /\ r \in Request /\ r.acct \in Account /\ AtKeys(r)
      /\ KeysSound(r.acct) /\ req \in [Proc -> Request]
  BY DEF Alone, TypeOK, RequestTypes, Request, StoreInv, Sound
<1>1. ASSUME UNCHANGED <<bal, lck, dbBal, dbLck, events, hold, withdrawal>>,
             r.pc \in {"get", "find"}, req'[p].pc \in {"find", "setBal", "capBal", "script"}
      PROVE  \A a \in Account : Sound(a)'
  <2>1. \A a \in Account : /\ Posting(req'[p], a) = 0 /\ Taking(req'[p], a) = 0
                           /\ Posting(req[p], a) = 0 /\ Taking(req[p], a) = 0
    BY <1>1, NothingMoves
  <2> QED
    BY <1>1, <2>1, UntouchedSame, OnlyRequest
<1>2. CASE EnsureGet(p)
  <2>1. UNCHANGED <<bal, lck, dbBal, dbLck, events, hold, withdrawal>> /\ r.pc = "get"
    BY <1>2 DEF EnsureGet, money, rows
  <2>2. CASE bal[r.acct] # Absent /\ Goto(p, Cached(r))
    <3>1. req'[p].pc \in {"capBal", "script"} /\ req'[p].acct = r.acct
      BY <1>0, <2>2, GotoKeeps DEF Cached, Keeps
    <3>2. lck[r.acct] # Absent
      BY <1>0, <2>1, <2>2 DEF KeysSound, Alone
    <3> QED
      BY <1>1, <2>1, <3>1, <3>2 DEF AtKeys
  <2>3. CASE bal[r.acct] = Absent /\ Goto(p, "find")
    <3>1. req'[p].pc = "find" /\ req'[p].acct = r.acct
      BY <1>0, <2>3, GotoKeeps DEF Keeps
    <3> QED
      BY <1>1, <2>1, <2>3, <3>1 DEF AtKeys
  <2> QED
    BY <1>2, <2>2, <2>3 DEF EnsureGet
<1>3. CASE EnsureFind(p)
  <2>1. UNCHANGED <<bal, lck, dbBal, dbLck, events, hold, withdrawal>> /\ r.pc = "find"
    BY <1>3 DEF EnsureFind, money, rows
  <2>2. /\ req'[p].pc = "setBal" /\ req'[p].acct = r.acct
        /\ req'[p].snapBal = dbBal[r.acct] /\ req'[p].snapLck = dbLck[r.acct]
    BY <1>0, <1>3 DEF EnsureFind, Request
  <2> QED
    BY <1>0, <1>1, <2>1, <2>2 DEF AtKeys
<1>4. CASE EnsureSetBal(p)
  <2>1. /\ bal' = [bal EXCEPT ![r.acct] = r.snapBal] /\ Goto(p, "setLck") /\ r.pc = "setBal"
        /\ UNCHANGED <<lck, dbBal, dbLck, events, hold, withdrawal>>
    BY <1>4 DEF EnsureSetBal, table, rows
  <2>2. /\ req'[p].pc = "setLck" /\ req'[p].acct = r.acct /\ req'[p].snapLck = r.snapLck
    BY <1>0, <2>1, GotoKeeps DEF Keeps, Goto, Request
  <2>3. /\ bal \in [Account -> Nat \cup {Absent}] /\ dbBal \in [Account -> Nat]
    BY <1>0 DEF TypeOK, StoreTypes
  <2>4. /\ bal'[r.acct] = dbBal[r.acct] /\ bal'[r.acct] \in Nat /\ lck[r.acct] = Absent
        /\ Untouched(r.acct) /\ r.snapLck = dbLck[r.acct] /\ bal[r.acct] = Absent
    BY <1>0, <2>1, <2>3 DEF AtKeys, KeysSound
  <2>5. AtKeys(req[p])'
    BY <2>1, <2>2, <2>4, AbsentAssumption DEF AtKeys
  <2> SUFFICES ASSUME NEW a \in Account PROVE Sound(a)'
    BY <2>5
  <2>6. Sound(a) /\ bal'[a] = (IF a = r.acct THEN dbBal[a] ELSE bal[a])
    BY <2>1, <2>3, <2>4 DEF StoreInv
  <2>7. Untouched(a)' = Untouched(a)
    BY <2>1, UntouchedSame
  <2>8. Posting(r, a) = 0 /\ Taking(r, a) = 0 /\ Posting(req'[p], a) = 0 /\ Taking(req'[p], a) = 0
    BY <2>1, <2>2, NothingMoves
  <2>9. LockSound(a)'
    BY <2>1, <2>6, <2>8, LockSame DEF Sound
  <2>10. CASE a # r.acct
    <3>1. BalanceSound(a)'
      BY <2>1, <2>6, <2>8, <2>10, BalanceSame DEF Sound
    <3>2. KeysSound(a)'
      BY <2>1, <2>6, <2>7, <2>10, KeysSame DEF Sound
    <3> QED
      BY <2>9, <3>1, <3>2 DEF Sound
  <2>11. CASE a = r.acct
    <3>1. KeysSound(a)'
      BY <1>0, <2>1, <2>2, <2>4, <2>7, <2>11, AbsentAssumption DEF KeysSound, Alone
    <3>2. BalanceSound(a)'
      <4>1. Owed(a, "grpc") = 0 /\ \A k \in 0..Len(events) : OwedTo(a, "grpc", k) = 0
        BY <1>0, <2>4, <2>11, OwedToNone DEF Untouched
      <4>2. Owed(a, "grpc")' = 0 /\ \A k \in 0..Len(events)' : OwedTo(a, "grpc", k)' = 0
        BY <2>1, <4>1 DEF Owed, OwedTo, Weight
      <4>3. bal'[a] = dbBal'[a] /\ dbBal'[a] \in Nat
        BY <2>1, <2>3, <2>4, <2>11
      <4> QED
        BY <2>8, <4>2, <4>3 DEF BalanceSound, Alone
    <3> QED
      BY <2>9, <3>1, <3>2 DEF Sound
  <2> QED
    BY <2>10, <2>11
<1>5. CASE EnsureSetLck(p)
  <2>1. /\ lck' = [lck EXCEPT ![r.acct] = r.snapLck] /\ Goto(p, Cached(r)) /\ r.pc = "setLck"
        /\ UNCHANGED <<bal, dbBal, dbLck, events, hold, withdrawal>>
    BY <1>5 DEF EnsureSetLck, table, rows
  <2>2. /\ req'[p].pc \in {"capBal", "script"} /\ req'[p].acct = r.acct
    BY <1>0, <2>1, GotoKeeps DEF Keeps, Cached
  <2>3. /\ lck \in [Account -> Nat \cup {Absent}] /\ dbLck \in [Account -> Nat]
    BY <1>0 DEF TypeOK, StoreTypes
  <2>4. /\ lck'[r.acct] = dbLck[r.acct] /\ lck'[r.acct] \in Nat /\ lck[r.acct] = Absent
        /\ Untouched(r.acct) /\ bal[r.acct] # Absent
    BY <1>0, <2>1, <2>3 DEF AtKeys, KeysSound
  <2>5. AtKeys(req[p])'
    BY <2>1, <2>2, <2>4, AbsentAssumption DEF AtKeys
  <2> SUFFICES ASSUME NEW a \in Account PROVE Sound(a)'
    BY <2>5
  <2>6. Sound(a) /\ lck'[a] = (IF a = r.acct THEN dbLck[a] ELSE lck[a])
    BY <2>1, <2>3, <2>4 DEF StoreInv
  <2>7. Untouched(a)' = Untouched(a)
    BY <2>1, UntouchedSame
  <2>8. Posting(r, a) = 0 /\ Taking(r, a) = 0 /\ Posting(req'[p], a) = 0 /\ Taking(req'[p], a) = 0
    BY <2>1, <2>2, NothingMoves
  <2>9. BalanceSound(a)'
    BY <2>1, <2>6, <2>8, BalanceSame DEF Sound
  <2>10. CASE a # r.acct
    <3>1. LockSound(a)'
      BY <2>1, <2>6, <2>8, <2>10, LockSame DEF Sound
    <3>2. KeysSound(a)'
      BY <2>1, <2>6, <2>7, <2>10 DEF Sound, KeysSound, Alone
    <3> QED
      BY <2>9, <3>1, <3>2 DEF Sound
  <2>11. CASE a = r.acct
    <3>1. KeysSound(a)'
      BY <2>1, <2>4, <2>11, AbsentAssumption DEF KeysSound
    <3>2. LockSound(a)'
      <4>1. \A e : Owed(a, e) = 0 /\ \A k \in 0..Len(events) : OwedTo(a, e, k) = 0
        BY <1>0, <2>4, <2>11, OwedToNone DEF Untouched
      <4>2. /\ Owed(a, "lock")' = 0 /\ \A k \in 0..Len(events)' : OwedTo(a, "lock", k)' = 0
            /\ Owed(a, "unlock")' = 0 /\ \A k \in 0..Len(events)' : OwedTo(a, "unlock", k)' = 0
        BY <2>1, <4>1 DEF Owed, OwedTo, Weight
      <4>3. lck'[a] = dbLck'[a] /\ dbLck'[a] \in Nat
        BY <2>1, <2>3, <2>4, <2>11
      <4> QED
        BY <2>8, <4>2, <4>3 DEF LockSound, Alone
    <3> QED
      BY <2>9, <3>1, <3>2 DEF Sound
  <2> QED
    BY <2>10, <2>11
<1> QED
  BY <1>2, <1>3, <1>4, <1>5

(* A script that runs *)
LEMMA StoreScript ==
    ASSUME StoreInv, NEW p, Alone(p), Faults = {}, Script(p)
    PROVE  AtKeys(req[p])' /\ \A a \in Account : Sound(a)'
<1> DEFINE r == req[p]
<1>0. /\ TypeOK /\ TypeOK' /\ p \in Proc /\ r \in Request /\ r.acct \in Account /\ r.amt \in Nat /\ AtKeys(r)
      /\ KeysSound(r.acct) /\ Shape(r)
  BY DEF Alone, TypeOK, RequestTypes, Request, StoreInv, Sound, ClaimInv, RowInv, BaseInv
<1>1. /\ UNCHANGED <<dbBal, dbLck, events, hold, withdrawal>> /\ r.pc = "script"
      /\ lck[r.acct] # Absent /\ bal[r.acct] # Absent
  BY <1>0 DEF Script, table, rows, AtKeys, KeysSound
<1>2. /\ bal \in [Account -> Nat \cup {Absent}] /\ lck \in [Account -> Nat \cup {Absent}]
      /\ bal[r.acct] \in Nat /\ Num(bal[r.acct]) = bal[r.acct]
      /\ lck[r.acct] \in Nat /\ Num(lck[r.acct]) = lck[r.acct]
  BY <1>0, <1>1 DEF TypeOK, StoreTypes, Num
<1>3. \A a \in Account : Posting(r, a) = 0 /\ Taking(r, a) = 0
  BY <1>1, NothingMoves
<1>4. CASE UNCHANGED redis /\ (AfterError(p) \/ Finish(p)) /\ (Refused(r) \/ Finish(p))
  <2>1. req'[p] = Idle
    BY <1>0, <1>4, FinishKeeps DEF Refused, AfterError
  <2>2. \A a \in Account : Posting(req'[p], a) = 0 /\ Taking(req'[p], a) = 0
    BY <2>1, IdleType, NothingMoves
  <2>3. \A a \in Account : Sound(a)'
    BY <1>1, <1>3, <1>4, <2>2, UntouchedSame, OnlyRequest DEF redis
  <2> QED
    BY <2>1, <2>3, IdleType DEF AtKeys
<1>5. CASE RunScript(r) /\ Goto(p, AfterScript(r))
  <2>1. /\ Keeps(r, req'[p]) /\ req'[p].pc = AfterScript(r) /\ req'[p].op = r.op
    BY <1>0, <1>5, GotoKeeps
  <2>2. ASSUME NEW a \in Account
        PROVE  Posting(req'[p], a) = Move(r, a)
    BY <2>1 DEF Posting, Move, Keeps, AfterScript
  <2>3. ASSUME NEW a \in Account
        PROVE  Taking(req'[p], a) = IF r.acct # a THEN 0
                                    ELSE IF r.op \in {"lock", "withdraw"} THEN r.amt
                                    ELSE IF r.op = "unlock" THEN -r.amt ELSE 0
    BY <2>1 DEF Taking, Keeps, AfterScript
  <2>4. \A a \in Account : bal'[a] = IF a = r.acct THEN bal[a] + Move(r, a) ELSE bal[a]
    BY <1>0, <1>2, <1>5 DEF RunScript, BalanceCredit, BalanceDeduct, BalanceLock, BalanceUnlock, Move
  <2>5. \A a \in Account : lck'[a] =
           IF a # r.acct THEN lck[a]
           ELSE IF r.op \in {"lock", "withdraw"} THEN lck[a] + r.amt
           ELSE IF r.op = "unlock" THEN Monus(lck[a], r.amt) ELSE lck[a]
    BY <1>0, <1>2, <1>5 DEF RunScript, BalanceCredit, BalanceDeduct, BalanceLock, BalanceUnlock
  <2>6. lck'[r.acct] \in Nat /\ bal'[r.acct] \in Nat
    <3>1. lck'[r.acct] \in Nat
      <4>1. Monus(lck[r.acct], r.amt) \in Nat
        BY <1>0, <1>2 DEF Monus
      <4>2. lck[r.acct] + r.amt \in Nat
        BY <1>0, <1>2
      <4> HIDE DEF r
      <4> QED
        BY <1>0, <1>2, <2>5, <4>1, <4>2
    <3>2. bal'[r.acct] \in Nat
      BY <1>0, <1>2, <1>5, <2>4 DEF RunScript, CanDeduct, Move
    <3> QED
      BY <3>1, <3>2
  <2>7. AtKeys(req[p])'
    BY <2>1, <2>6, AbsentAssumption DEF AtKeys, AfterScript, Keeps
  <2> SUFFICES ASSUME NEW a \in Account PROVE Sound(a)'
    BY <2>7
  <2>8. Sound(a) /\ Untouched(a)' = Untouched(a)
    BY <1>1, UntouchedSame DEF StoreInv
  <2>9. CASE a # r.acct
    <3>1. Posting(req'[p], a) = Posting(r, a) /\ Taking(req'[p], a) = Taking(r, a)
      BY <1>3, <2>2, <2>3, <2>9 DEF Move
    <3>2. bal'[a] = bal[a] /\ lck'[a] = lck[a]
      BY <2>4, <2>5, <2>9
    <3>3. KeysSound(a)'
      BY <1>1, <2>8, <3>2, KeysSame DEF Sound
    <3>4. BalanceSound(a)'
      BY <1>1, <2>8, <3>1, <3>2, BalanceSame DEF Sound
    <3>5. LockSound(a)'
      BY <1>1, <2>8, <3>1, <3>2, LockSame DEF Sound
    <3> QED
      BY <3>3, <3>4, <3>5 DEF Sound
  <2>10. CASE a = r.acct
    <3>1. bal'[a] # Absent /\ lck'[a] # Absent
      BY <2>6, <2>10, AbsentAssumption
    <3>2. KeysSound(a)'
      BY <3>1 DEF KeysSound
    <3>3. BalanceSound(a)'
      <4>1. /\ bal[a] = dbBal[a] + Owed(a, "grpc") + 0
            /\ \A k \in 0..Len(events) : dbBal[a] + OwedTo(a, "grpc", k) >= 0
        BY <1>1, <1>3, <2>8, <2>10 DEF Sound, BalanceSound, Alone
      <4>2. Owed(a, "grpc")' = Owed(a, "grpc") /\ Owed(a, "grpc") \in Int /\ dbBal[a] \in Nat
        <5>1. Owed(a, "grpc")' = Owed(a, "grpc")
          BY <1>1 DEF Owed, Weight
        <5> QED
          BY <1>0, <5>1, OwedType DEF TypeOK, StoreTypes
      <4>3. bal'[a] = dbBal'[a] + Owed(a, "grpc")' + Posting(req'[p], a)
        <5>1. bal'[a] = bal[a] + Move(r, a) /\ Move(r, a) \in Int
          BY <1>0, <2>4, <2>10, PostingType
        <5> HIDE DEF r
        <5> QED
          BY <1>1, <2>2, <4>1, <4>2, <5>1
      <4>4. \A k \in 0..Len(events)' : dbBal'[a] + OwedTo(a, "grpc", k)' >= 0
        BY <1>1, <4>1 DEF OwedTo, Weight
      <4> QED
        BY <4>3, <4>4 DEF BalanceSound, Alone
    <3>4. ASSUME Unrejected(a)' PROVE LockSound(a)'
      <4>0. Unrejected(a)
        BY <3>4 DEF Alone
      <4>1. /\ lck[a] = dbLck[a] + Owed(a, "lock") - Owed(a, "unlock") + 0
            /\ \A k \in 0..Len(events) : dbLck[a] + OwedTo(a, "lock", k) - OwedTo(a, "unlock", k) >= 0
        BY <1>1, <1>3, <2>8, <2>10, <4>0 DEF Sound, LockSound, Alone
      <4>2. /\ Owed(a, "lock")' = Owed(a, "lock") /\ Owed(a, "lock") \in Int /\ dbLck[a] \in Nat
            /\ Owed(a, "unlock")' = Owed(a, "unlock") /\ Owed(a, "unlock") \in Int
        <5>1. Owed(a, "lock")' = Owed(a, "lock") /\ Owed(a, "unlock")' = Owed(a, "unlock")
          BY <1>1 DEF Owed, Weight
        <5> QED
          BY <1>0, <5>1, TableTypes
      <4>3. r.op = "unlock" => lck[a] >= r.amt
        <5> SUFFICES ASSUME r.op = "unlock" PROVE lck[a] >= r.amt
          OBVIOUS
        <5>1. TableCovers(a)
          BY <4>0 DEF StoreInv, ClaimInv, Whole
        <5>2. Total(ReleasingOn(a)) >= r.amt
          <6>1. ReleasingOn(a) \in [Proc -> Nat] /\ ReleasingOn(a)[p] = r.amt
            BY <1>0, <2>10, ReleasingType DEF ReleasingOn
          <6>2. [q \in Proc |-> IF q = p THEN 0 ELSE ReleasingOn(a)[q]] \in [Proc -> Nat]
            BY <6>1
          <6>3. PICK g \in [Proc -> Nat] : g = [q \in Proc |-> IF q = p THEN 0 ELSE ReleasingOn(a)[q]]
            BY <6>2
          <6>4. Total(ReleasingOn(a)) = Total(g) - g[p] + ReleasingOn(a)[p]
            BY <1>0, <6>1, <6>3, TotalChange, FiniteAssumption
          <6>5. Total(g) \in Nat /\ g[p] = 0
            BY <1>0, <6>3, TotalType, FiniteAssumption
          <6> QED
            BY <1>0, <6>1, <6>4, <6>5
        <5>3. again[a] = 0
          BY DEF StoreInv, NothingAgain
        <5> HIDE DEF r
        <5> QED
          BY <1>0, <4>1, <4>2, <5>1, <5>2, <5>3, TableTypes DEF TableCovers
      <4>4. lck'[a] = dbLck'[a] + Owed(a, "lock")' - Owed(a, "unlock")' + Taking(req'[p], a)
        <5>1. Taking(req'[p], a) = lck'[a] - lck[a]
          <6>1. lck[a] \in Nat /\ r.amt \in Nat
            BY <1>0, <1>2, <2>10
          <6>2. lck'[a] = IF r.op \in {"lock", "withdraw"} THEN lck[a] + r.amt
                          ELSE IF r.op = "unlock" THEN lck[a] - r.amt ELSE lck[a]
            <7>1. r.op = "unlock" => Monus(lck[a], r.amt) = lck[a] - r.amt
              BY <4>3, <6>1 DEF Monus
            <7> QED
              BY <2>5, <2>10, <7>1
          <6>3. Taking(req'[p], a) = IF r.op \in {"lock", "withdraw"} THEN r.amt
                                     ELSE IF r.op = "unlock" THEN -r.amt ELSE 0
            BY <2>3, <2>10
          <6> HIDE DEF r
          <6> QED
            BY <6>1, <6>2, <6>3
        <5> HIDE DEF r
        <5> QED
          BY <1>1, <1>2, <2>6, <2>10, <4>1, <4>2, <5>1
      <4>5. \A k \in 0..Len(events)' : dbLck'[a] + OwedTo(a, "lock", k)' - OwedTo(a, "unlock", k)' >= 0
        BY <1>1, <4>1 DEF OwedTo, Weight
      <4> QED
        BY <4>4, <4>5 DEF LockSound, Alone
    <3> QED
      BY <3>2, <3>3, <3>4 DEF Sound, LockSound
  <2> QED
    BY <2>9, <2>10
<1> QED
  BY <1>4, <1>5 DEF Script

(* The event of a request *)
LEMMA StorePublish ==
    ASSUME StoreInv, NEW p, Alone(p), Faults = {}, Publish(p)
    PROVE  AtKeys(req[p])' /\ \A a \in Account : Sound(a)'
<1> DEFINE r == req[p]
<1>0. /\ TypeOK /\ TypeOK' /\ p \in Proc /\ r \in Request /\ r.acct \in Account /\ r.amt \in Nat /\ AtKeys(r)
      /\ KeysSound(r.acct) /\ Shape(r)
  BY DEF Alone, TypeOK, RequestTypes, Request, StoreInv, Sound, ClaimInv, RowInv, BaseInv
<1>1. /\ req'[p] = Idle /\ events' = Append(events, EventOf(r)) /\ r.pc = "publish"
      /\ UNCHANGED <<bal, lck, dbBal, dbLck, withdrawal>>
      /\ hold' = IF r.op = "lock" THEN [hold EXCEPT ![r.ref] = @ + r.amt] ELSE hold
  BY <1>0, FinishKeeps DEF Publish, redis, table, rows
<1>2. EventOf(r) \in Event /\ EventOf(r).acct = r.acct /\ events \in Seq(Event)
      /\ r.op \in {"credit", "deduct", "lock", "unlock"}
      /\ lck[r.acct] # Absent /\ bal[r.acct] # Absent
  BY <1>0, <1>1, EventOfTypes, EntryEvents DEF TypeOK, EventTypes, AtKeys, KeysSound, Shape, ShapeAt, EventOf, Entry
<1>3. AtKeys(req[p])'
  BY <1>1, IdleType DEF AtKeys
<1> SUFFICES ASSUME NEW a \in Account PROVE Sound(a)'
  BY <1>3
<1>4. Sound(a)
  BY DEF StoreInv
<1>5. Posting(Idle, a) = 0 /\ Taking(Idle, a) = 0
  BY IdleType, NothingMoves
<1>6. KeysSound(a)'
  <2>1. CASE a = r.acct
    BY <1>1, <1>2, <2>1 DEF KeysSound
  <2>2. CASE a # r.acct
    <3>1. ASSUME Untouched(a) PROVE Untouched(a)'
      <4>1. \A i \in DOMAIN events' : events'[i].acct # a
        BY <1>1, <1>2, <2>2, <3>1 DEF Untouched
      <4>2. \A h \in Hold : HoldAcct[h] = a => hold'[h] = 0
        BY <1>0, <1>1, <2>2, <3>1 DEF Untouched, TypeOK, RowTypes, Shape
      <4> QED
        BY <1>1, <3>1, <4>1, <4>2 DEF Untouched
    <3> QED
      BY <1>1, <1>4, <3>1, KeysSame DEF Sound
  <2> QED
    BY <2>1, <2>2
<1>7. BalanceSound(a)'
  <2> SUFFICES ASSUME bal[a] # Absent PROVE BalanceSound(a)'
    BY <1>1 DEF BalanceSound
  <2>1. Weight(a, "grpc")[EventOf(r)] = Posting(r, a)
    BY <1>1, <1>2 DEF Weight, EventOf, Posting, Move
  <2>2. /\ bal[a] = dbBal[a] + Owed(a, "grpc") + Posting(r, a)
        /\ \A k \in 0..Len(events) : dbBal[a] + OwedTo(a, "grpc", k) >= 0
    BY <1>4 DEF Sound, BalanceSound, Alone
  <2>3. Owed(a, "grpc")' = Owed(a, "grpc") + Posting(r, a)
    BY <1>0, <1>1, <1>2, <2>1, OwedAppend
  <2>4. Posting(r, a) \in Int /\ Owed(a, "grpc") \in Int /\ dbBal[a] \in Nat /\ bal[a] \in Nat
    BY <1>0, PostingType, OwedType DEF TypeOK, StoreTypes
  <2>5. bal'[a] = dbBal'[a] + Owed(a, "grpc")' + Posting(req'[p], a)
    <3> HIDE DEF r
    <3> QED
      BY <1>1, <1>5, <2>2, <2>3, <2>4
  <2>6. ASSUME NEW k \in 0..Len(events') PROVE dbBal'[a] + OwedTo(a, "grpc", k)' >= 0
    <3>1. OwedTo(a, "grpc", k)' = IF k <= Len(events) THEN OwedTo(a, "grpc", k)
                                  ELSE Owed(a, "grpc") + Posting(r, a)
      BY <1>0, <1>1, <1>2, <2>1, OwedToAppend
    <3>2. k <= Len(events) => k \in 0..Len(events)
      BY <1>2
    <3> HIDE DEF r
    <3> QED
      BY <1>1, <2>2, <2>4, <3>1, <3>2
  <2> QED
    BY <1>1, <2>5, <2>6 DEF BalanceSound, Alone
<1>8. LockSound(a)'
  <2> SUFFICES ASSUME lck[a] # Absent, Unrejected(a) PROVE LockSound(a)'
    BY <1>1 DEF LockSound, Alone
  <2>1. PICK m \in Int, n \in Int : /\ m = Weight(a, "lock")[EventOf(r)]
                                    /\ n = Weight(a, "unlock")[EventOf(r)]
    BY <1>2, WeightType
  <2>2. m - n = Taking(r, a)
    BY <1>0, <1>1, <1>2, <2>1 DEF Weight, EventOf, Taking
  <2>3. /\ lck[a] = dbLck[a] + Owed(a, "lock") - Owed(a, "unlock") + Taking(r, a)
        /\ \A k \in 0..Len(events) : dbLck[a] + OwedTo(a, "lock", k) - OwedTo(a, "unlock", k) >= 0
    BY <1>4 DEF Sound, LockSound, Alone
  <2>4. Owed(a, "lock")' = Owed(a, "lock") + m /\ Owed(a, "unlock")' = Owed(a, "unlock") + n
    BY <1>0, <1>1, <1>2, <2>1, OwedAppend
  <2>5. Owed(a, "lock") \in Int /\ Owed(a, "unlock") \in Int /\ dbLck[a] \in Nat /\ lck[a] \in Nat
    BY <1>0, TableTypes DEF TypeOK, StoreTypes
  <2>6. lck'[a] = dbLck'[a] + Owed(a, "lock")' - Owed(a, "unlock")' + Taking(req'[p], a)
    <3> HIDE DEF r
    <3> QED
      BY <1>1, <1>5, <2>2, <2>3, <2>4, <2>5
  <2>7. ASSUME NEW k \in 0..Len(events')
        PROVE  dbLck'[a] + OwedTo(a, "lock", k)' - OwedTo(a, "unlock", k)' >= 0
    <3>1. /\ OwedTo(a, "lock", k)' = IF k <= Len(events) THEN OwedTo(a, "lock", k)
                                     ELSE Owed(a, "lock") + m
          /\ OwedTo(a, "unlock", k)' = IF k <= Len(events) THEN OwedTo(a, "unlock", k)
                                       ELSE Owed(a, "unlock") + n
      BY <1>0, <1>1, <1>2, <2>1, OwedToAppend
    <3>2. k <= Len(events) => k \in 0..Len(events)
      BY <1>2
    <3> HIDE DEF r
    <3> QED
      BY <1>1, <2>2, <2>3, <2>5, <3>1, <3>2
  <2> QED
    BY <1>1, <2>6, <2>7 DEF LockSound, Alone
<1> QED
  BY <1>6, <1>7, <1>8 DEF Sound

(* The transactions and commands of withdrawals *)
LEMMA StoreWithdraw ==
    ASSUME StoreInv, NEW p, Alone(p), Faults = {},
           CapGetBalance(p) \/ CapGetLocked(p) \/ WithdrawalTx(p) \/ UndoLock(p) \/ RejectTx(p)
    PROVE  AtKeys(req[p])' /\ \A a \in Account : Sound(a)'
<1> DEFINE r == req[p]
<1>0. /\ TypeOK /\ TypeOK' /\ p \in Proc /\ r \in Request /\ r.acct \in Account /\ r.amt \in Nat /\ AtKeys(r)
      /\ KeysSound(r.acct) /\ Shape(r) /\ req \in [Proc -> Request] /\ OnRow(r)
  BY DEF Alone, TypeOK, RequestTypes, Request, StoreInv, Sound, ClaimInv, RowInv, BaseInv
<1>1. ASSUME UNCHANGED <<bal, lck, dbBal, dbLck, events, hold, withdrawal>>,
             r.pc \in {"capBal", "capLck"}, req'[p].pc \in {"capLck", "get", "idle"}
      PROVE  \A a \in Account : Sound(a)'
  <2>1. \A a \in Account : /\ Posting(req'[p], a) = 0 /\ Taking(req'[p], a) = 0
                           /\ Posting(req[p], a) = 0 /\ Taking(req[p], a) = 0
    BY <1>1, NothingMoves
  <2> QED
    BY <1>1, <2>1, UntouchedSame, OnlyRequest
<1>2. CASE CapGetBalance(p)
  <2>1. /\ UNCHANGED <<bal, lck, dbBal, dbLck, events, hold, withdrawal>> /\ r.pc = "capBal"
        /\ req'[p].pc = "capLck" /\ req'[p].acct = r.acct
    BY <1>0, <1>2 DEF CapGetBalance, Request, money, rows
  <2> QED
    BY <1>0, <1>1, <2>1 DEF AtKeys
<1>3. CASE CapGetLocked(p)
  <2>1. /\ UNCHANGED <<bal, lck, dbBal, dbLck, events, hold, withdrawal>> /\ r.pc = "capLck"
        /\ Finish(p) \/ req' = [req EXCEPT ![p].pc = "get", ![p].op = "withdraw"]
    BY <1>3 DEF CapGetLocked, money, rows
  <2>2. req'[p].pc \in {"get", "idle"}
    <3>1. CASE Finish(p)
      BY <1>0, <3>1, FinishKeeps, IdleType
    <3>2. CASE req' = [req EXCEPT ![p].pc = "get", ![p].op = "withdraw"]
      BY <1>0, <3>2 DEF Request
    <3> QED
      BY <2>1, <3>1, <3>2
  <2> QED
    BY <1>1, <2>1, <2>2 DEF AtKeys
<1>4. CASE WithdrawalTx(p) /\ UNCHANGED <<dbLck, withdrawal>>
  <2>1. UNCHANGED <<bal, lck, dbBal, dbLck, events, hold, withdrawal>> /\ r.pc = "dbLock"
    BY <1>4 DEF WithdrawalTx, redis
  <2>2. CASE Goto(p, "undo")
    <3>1. req'[p].pc = "undo" /\ req'[p].op = r.op /\ Keeps(r, req'[p])
      BY <1>0, <2>2, GotoKeeps
    <3>2. ASSUME NEW a \in Account
          PROVE  Posting(req'[p], a) = Posting(r, a) /\ Taking(req'[p], a) = Taking(r, a)
      BY <2>1, <3>1 DEF Posting, Taking, Keeps
    <3>3. \A a \in Account : Sound(a)'
      BY <2>1, <3>2, UntouchedSame, OnlyRequest
    <3> QED
      BY <1>0, <2>1, <3>1, <3>3 DEF AtKeys, Keeps
  <2>3. CASE Finish(p) /\ dbLck' = [dbLck EXCEPT ![r.acct] = @ + r.amt]
    <3>1. r.amt = 0
      BY <1>0, <1>4, <2>3 DEF TypeOK, StoreTypes
    <3>2. r.op = "withdraw" /\ r.amt > 0
      BY <1>0, <2>1 DEF Shape, ShapeAt, Rest
    <3> QED
      BY <3>1, <3>2
  <2> QED
    BY <1>4, <2>2, <2>3 DEF WithdrawalTx
<1>5. CASE WithdrawalTx(p) /\ ~UNCHANGED <<dbLck, withdrawal>>
  <2>1. /\ UNCHANGED <<bal, lck, dbBal, events, hold>> /\ r.pc = "dbLock" /\ req'[p] = Idle
        /\ dbLck' = [dbLck EXCEPT ![r.acct] = @ + r.amt] /\ dbLck \in [Account -> Nat]
        /\ lck[r.acct] # Absent /\ bal[r.acct] # Absent
    BY <1>0, <1>5, FinishKeeps DEF WithdrawalTx, redis, TypeOK, StoreTypes, AtKeys, KeysSound
  <2>2. PICK w \in Withdrawal : w = r.ref
    BY <1>0, <2>1 DEF TypeOK, RequestTypes
  <2>3. /\ withdrawal'[w].acct = r.acct /\ \A v \in Withdrawal \ {w} : withdrawal'[v] = withdrawal[v]
    BY <1>0, <1>5, <2>2 DEF WithdrawalTx, TypeOK, RowTypes
  <2>4. AtKeys(req[p])'
    BY <2>1, IdleType DEF AtKeys
  <2> SUFFICES ASSUME NEW a \in Account PROVE Sound(a)'
    BY <2>4
  <2>5. Sound(a)
    BY DEF StoreInv
  <2>6. Posting(req'[p], a) = 0 /\ Taking(req'[p], a) = 0 /\ Posting(r, a) = 0
    BY <2>1, IdleType, NothingMoves DEF Posting
  <2>7. BalanceSound(a)'
    BY <2>1, <2>5, <2>6, BalanceSame DEF Sound
  <2>8. CASE a # r.acct
    <3>1. dbLck'[a] = dbLck[a] /\ Taking(r, a) = 0
      BY <2>1, <2>8 DEF Taking
    <3>2. Untouched(a) => Untouched(a)'
      BY <2>1, <2>3, <2>8, <3>1 DEF Untouched
    <3>3. KeysSound(a)'
      BY <2>1, <2>5, <3>2, KeysSame DEF Sound
    <3>4. LockSound(a)'
      BY <2>1, <2>5, <2>6, <3>1, LockSame DEF Sound
    <3> QED
      BY <2>7, <3>3, <3>4 DEF Sound
  <2>9. CASE a = r.acct
    <3>1. KeysSound(a)'
      BY <2>1, <2>9 DEF KeysSound
    <3>2. ASSUME Unrejected(a)' PROVE LockSound(a)'
      <4>1. /\ lck[a] = dbLck[a] + Owed(a, "lock") - Owed(a, "unlock") + r.amt
            /\ \A k \in 0..Len(events) : dbLck[a] + OwedTo(a, "lock", k) - OwedTo(a, "unlock", k) >= 0
        <5>1. Taking(r, a) = r.amt /\ Unrejected(a)
          BY <2>1, <2>9, <3>2 DEF Taking, Alone
        <5> QED
          BY <2>1, <2>5, <2>9, <5>1 DEF Sound, LockSound, Alone
      <4>2. dbLck'[a] = dbLck[a] + r.amt /\ dbLck[a] \in Nat
            /\ Owed(a, "lock") \in Int /\ Owed(a, "unlock") \in Int
        BY <1>0, <2>1, <2>9, TableTypes
      <4>3. /\ Owed(a, "lock")' = Owed(a, "lock") /\ Owed(a, "unlock")' = Owed(a, "unlock")
        BY <2>1 DEF Owed, Weight
      <4>4. lck'[a] = dbLck'[a] + Owed(a, "lock")' - Owed(a, "unlock")' + Taking(req'[p], a)
        <5> HIDE DEF r
        <5> QED
          BY <1>0, <2>1, <2>6, <4>1, <4>2, <4>3
      <4>5. ASSUME NEW k \in 0..Len(events)'
            PROVE  dbLck'[a] + OwedTo(a, "lock", k)' - OwedTo(a, "unlock", k)' >= 0
        <5>1. k \in 0..Len(events) /\ OwedTo(a, "lock", k)' = OwedTo(a, "lock", k)
              /\ OwedTo(a, "unlock", k)' = OwedTo(a, "unlock", k)
          BY <2>1 DEF OwedTo, Weight
        <5>2. OwedTo(a, "lock", k) \in Int /\ OwedTo(a, "unlock", k) \in Int
          BY <1>0, <5>1, OwedToType
        <5> HIDE DEF r
        <5> QED
          BY <1>0, <4>1, <4>2, <5>1, <5>2
      <4> QED
        BY <4>4, <4>5 DEF LockSound, Alone
    <3> QED
      BY <2>7, <3>1, <3>2 DEF Sound, LockSound
  <2> QED
    BY <2>8, <2>9
<1>6. CASE UndoLock(p)
  <2>1. /\ UNCHANGED <<bal, dbBal, dbLck, events, hold, withdrawal>> /\ r.pc = "undo" /\ req'[p] = Idle
        /\ lck' = [lck EXCEPT ![r.acct] = Monus(Num(@), r.amt)]
        /\ lck[r.acct] # Absent /\ bal[r.acct] # Absent
    BY <1>0, <1>6, FinishKeeps DEF UndoLock, BalanceUnlock, table, rows, AtKeys, KeysSound
  <2>2. /\ lck \in [Account -> Nat \cup {Absent}] /\ lck[r.acct] \in Nat /\ Num(lck[r.acct]) = lck[r.acct]
        /\ lck'[r.acct] = Monus(lck[r.acct], r.amt) /\ lck'[r.acct] \in Nat
    BY <1>0, <2>1 DEF TypeOK, StoreTypes, Num, Monus
  <2>4. AtKeys(req[p])'
    BY <2>1, IdleType DEF AtKeys
  <2> SUFFICES ASSUME NEW a \in Account PROVE Sound(a)'
    BY <2>4
  <2>5. Sound(a) /\ Untouched(a)' = Untouched(a)
    BY <2>1, UntouchedSame DEF StoreInv
  <2>6. Posting(req'[p], a) = 0 /\ Taking(req'[p], a) = 0 /\ Posting(r, a) = 0
    BY <2>1, IdleType, NothingMoves DEF Posting
  <2>7. BalanceSound(a)'
    BY <2>1, <2>5, <2>6, BalanceSame DEF Sound
  <2>8. CASE a # r.acct
    <3>1. lck'[a] = lck[a] /\ Taking(r, a) = 0
      BY <2>1, <2>8 DEF Taking
    <3>3. KeysSound(a)'
      BY <2>1, <2>5, <3>1, KeysSame DEF Sound
    <3>4. LockSound(a)'
      BY <2>1, <2>5, <2>6, <3>1, LockSame DEF Sound
    <3> QED
      BY <2>7, <3>3, <3>4 DEF Sound
  <2>9. CASE a = r.acct
    <3>1. KeysSound(a)'
      BY <2>1, <2>2, <2>9, AbsentAssumption DEF KeysSound
    <3>2. ASSUME Unrejected(a)' PROVE LockSound(a)'
      <4>1. /\ lck[a] = dbLck[a] + Owed(a, "lock") - Owed(a, "unlock") + r.amt
            /\ \A k \in 0..Len(events) : dbLck[a] + OwedTo(a, "lock", k) - OwedTo(a, "unlock", k) >= 0
        <5>1. Taking(r, a) = r.amt /\ Unrejected(a)
          BY <2>1, <2>9, <3>2 DEF Taking, Alone
        <5> QED
          BY <2>1, <2>5, <2>9, <5>1 DEF Sound, LockSound, Alone
      <4>2. dbLck[a] \in Nat /\ Owed(a, "lock") \in Int /\ Owed(a, "unlock") \in Int
        BY <1>0, TableTypes
      <4>3. dbLck[a] + Owed(a, "lock") - Owed(a, "unlock") >= 0
        <5>1. Len(events) \in 0..Len(events)
          BY <1>0 DEF TypeOK, EventTypes
        <5> QED
          BY <4>1, <5>1 DEF OwedTo, Owed
      <4>4. /\ Owed(a, "lock")' = Owed(a, "lock") /\ Owed(a, "unlock")' = Owed(a, "unlock")
            /\ dbLck'[a] = dbLck[a]
        BY <2>1 DEF Owed, Weight
      <4>5. lck'[a] = lck[a] - r.amt
        BY <1>0, <2>2, <2>9, <4>1, <4>2, <4>3 DEF Monus
      <4>6. lck'[a] = dbLck'[a] + Owed(a, "lock")' - Owed(a, "unlock")' + Taking(req'[p], a)
        <5> HIDE DEF r
        <5> QED
          BY <1>0, <2>6, <4>1, <4>2, <4>4, <4>5
      <4>7. \A k \in 0..Len(events)' : dbLck'[a] + OwedTo(a, "lock", k)' - OwedTo(a, "unlock", k)' >= 0
        BY <2>1, <4>1 DEF OwedTo, Weight
      <4> QED
        BY <4>6, <4>7 DEF LockSound, Alone
    <3> QED
      BY <2>7, <3>1, <3>2 DEF Sound, LockSound
  <2> QED
    BY <2>8, <2>9
<1>7. CASE RejectTx(p)
  <2>1. /\ UNCHANGED <<bal, lck, dbBal, events, hold>> /\ r.pc = "rejectTx" /\ req'[p] = Idle
        /\ dbLck' = [dbLck EXCEPT ![r.acct] = Monus(@, r.amt)]
        /\ lck[r.acct] # Absent /\ bal[r.acct] # Absent
    BY <1>0, <1>7, FinishKeeps DEF RejectTx, redis, AtKeys, KeysSound
  <2>2. PICK w \in Withdrawal : w = r.ref
    BY <1>0, <2>1 DEF TypeOK, RequestTypes
  <2>3. /\ withdrawal'[w].acct = r.acct /\ withdrawal'[w].status = "REJECTED"
        /\ \A v \in Withdrawal \ {w} : withdrawal'[v] = withdrawal[v]
    BY <1>0, <1>7, <2>1, <2>2 DEF RejectTx, OnRow, TypeOK, RowTypes, WithdrawalRow
  <2>4. AtKeys(req[p])'
    BY <2>1, IdleType DEF AtKeys
  <2> SUFFICES ASSUME NEW a \in Account PROVE Sound(a)'
    BY <2>4
  <2>5. Sound(a)
    BY DEF StoreInv
  <2>6. /\ Posting(req'[p], a) = 0 /\ Taking(req'[p], a) = 0 /\ Posting(r, a) = 0 /\ Taking(r, a) = 0
    BY <2>1, IdleType, NothingMoves
  <2>7. BalanceSound(a)'
    BY <2>1, <2>5, <2>6, BalanceSame DEF Sound
  <2>8. CASE a # r.acct
    <3>1. dbLck'[a] = dbLck[a]
      BY <1>0, <2>1, <2>8 DEF TypeOK, StoreTypes
    <3>2. Untouched(a) => Untouched(a)'
      BY <2>1, <2>3, <2>8, <3>1 DEF Untouched
    <3>3. KeysSound(a)'
      BY <2>1, <2>5, <3>2, KeysSame DEF Sound
    <3>4. LockSound(a)'
      BY <2>1, <2>5, <2>6, <3>1, LockSame DEF Sound
    <3> QED
      BY <2>7, <3>3, <3>4 DEF Sound
  <2>9. CASE a = r.acct
    <3>1. KeysSound(a)'
      BY <2>1, <2>9 DEF KeysSound
    <3>2. LockSound(a)'
      BY <2>3, <2>9 DEF LockSound, Unrejected
    <3> QED
      BY <2>7, <3>1, <3>2 DEF Sound
  <2> QED
    BY <2>8, <2>9
<1> QED
  BY <1>2, <1>3, <1>4, <1>5, <1>6, <1>7

(* Deposits, where the keys exist *)
LEMMA StoreDeposits ==
    ASSUME StoreInv, NEW p, Alone(p), Faults = {}, ConfirmTx(p) \/ ConfirmCredit(p)
    PROVE  AtKeys(req[p])' /\ \A a \in Account : Sound(a)'
<1> DEFINE r == req[p]
<1>0. /\ TypeOK /\ TypeOK' /\ p \in Proc /\ r \in Request /\ r.acct \in Account /\ r.amt \in Nat /\ AtKeys(r)
      /\ KeysSound(r.acct)
  BY DEF Alone, TypeOK, RequestTypes, Request, StoreInv, Sound
<1>1. CASE ConfirmTx(p)
  <2>1. /\ dbBal' = [dbBal EXCEPT ![r.acct] = @ + r.amt] /\ Goto(p, "credit") /\ r.pc = "confirmTx"
        /\ UNCHANGED <<bal, lck, dbLck, events, hold, withdrawal>>
        /\ lck[r.acct] # Absent /\ bal[r.acct] # Absent
    BY <1>0, <1>1 DEF ConfirmTx, redis, AtKeys, KeysSound
  <2>2. req'[p].pc = "credit" /\ Keeps(r, req'[p])
    BY <1>0, <2>1, GotoKeeps
  <2>3. AtKeys(req[p])'
    BY <2>1, <2>2 DEF AtKeys, Keeps
  <2> SUFFICES ASSUME NEW a \in Account PROVE Sound(a)'
    BY <2>3
  <2> DEFINE n == IF r.acct = a THEN r.amt ELSE 0
  <2>4. Sound(a) /\ Untouched(a)' = Untouched(a)
    BY <2>1, UntouchedSame DEF StoreInv
  <2>5. n \in Nat /\ dbBal'[a] = dbBal[a] + n /\ dbBal[a] \in Nat
    BY <1>0, <2>1 DEF TypeOK, StoreTypes
  <2>6. Posting(r, a) = 0 /\ Posting(req'[p], a) = -n
    BY <1>0, <2>1, <2>2 DEF Posting, Keeps
  <2>7. Taking(r, a) = 0 /\ Taking(req'[p], a) = 0
    BY <2>1, <2>2 DEF Taking
  <2>8. KeysSound(a)'
    BY <2>1, <2>4, KeysSame DEF Sound
  <2>9. LockSound(a)'
    BY <2>1, <2>4, <2>7, LockSame DEF Sound
  <2>10. BalanceSound(a)'
    <3> SUFFICES ASSUME bal[a] # Absent PROVE BalanceSound(a)'
      BY <2>1 DEF BalanceSound
    <3>1. /\ bal[a] = dbBal[a] + Owed(a, "grpc") + Posting(r, a)
          /\ \A k \in 0..Len(events) : dbBal[a] + OwedTo(a, "grpc", k) >= 0
      BY <2>4 DEF Sound, BalanceSound, Alone
    <3>2. Owed(a, "grpc")' = Owed(a, "grpc")
      BY <2>1 DEF Owed, Weight
    <3>3. Owed(a, "grpc") \in Int
      BY <1>0, OwedType
    <3>4. bal'[a] = dbBal'[a] + Owed(a, "grpc")' + Posting(req'[p], a)
      <4> HIDE DEF n, r
      <4> QED
        BY <2>1, <2>5, <2>6, <3>1, <3>2, <3>3
    <3>5. ASSUME NEW k \in 0..Len(events)' PROVE dbBal'[a] + OwedTo(a, "grpc", k)' >= 0
      <4>1. k \in 0..Len(events) /\ OwedTo(a, "grpc", k)' = OwedTo(a, "grpc", k)
        BY <2>1 DEF OwedTo, Weight
      <4>2. OwedTo(a, "grpc", k) \in Int
        BY <1>0, <4>1, OwedToType
      <4> HIDE DEF n, r
      <4> QED
        BY <2>5, <3>1, <4>1, <4>2
    <3> QED
      BY <3>4, <3>5 DEF BalanceSound, Alone
  <2> QED
    BY <2>8, <2>9, <2>10 DEF Sound
<1>2. CASE ConfirmCredit(p)
  <2>1. /\ bal' = [bal EXCEPT ![r.acct] = Num(@) + r.amt] /\ req'[p] = Idle /\ r.pc = "credit"
        /\ UNCHANGED <<lck, dbBal, dbLck, events, hold, withdrawal>>
        /\ lck[r.acct] # Absent /\ bal[r.acct] # Absent
    BY <1>0, <1>2, FinishKeeps DEF ConfirmCredit, BalanceCredit, table, rows, AtKeys, KeysSound
  <2>2. /\ bal \in [Account -> Nat \cup {Absent}] /\ bal[r.acct] \in Nat /\ Num(bal[r.acct]) = bal[r.acct]
        /\ bal'[r.acct] = bal[r.acct] + r.amt
    BY <1>0, <2>1 DEF TypeOK, StoreTypes, Num
  <2>3. AtKeys(req[p])'
    BY <2>1, IdleType DEF AtKeys
  <2> SUFFICES ASSUME NEW a \in Account PROVE Sound(a)'
    BY <2>3
  <2>4. Sound(a) /\ Untouched(a)' = Untouched(a)
    BY <2>1, UntouchedSame DEF StoreInv
  <2>5. Posting(req'[p], a) = 0 /\ Taking(req'[p], a) = 0 /\ Taking(r, a) = 0
    BY <2>1, IdleType, NothingMoves DEF Taking
  <2>6. LockSound(a)'
    BY <2>1, <2>4, <2>5, LockSame DEF Sound
  <2>7. CASE a # r.acct
    <3>1. bal'[a] = bal[a] /\ Posting(r, a) = 0
      BY <2>1, <2>7 DEF Posting, Move
    <3>2. KeysSound(a)'
      BY <2>1, <2>4, <3>1, KeysSame DEF Sound
    <3>3. BalanceSound(a)'
      BY <2>1, <2>4, <2>5, <3>1, BalanceSame DEF Sound
    <3> QED
      BY <2>6, <3>2, <3>3 DEF Sound
  <2>8. CASE a = r.acct
    <3>1. KeysSound(a)'
      BY <1>0, <2>1, <2>2, <2>8, AbsentAssumption DEF KeysSound
    <3>2. BalanceSound(a)'
      <4>1. /\ bal[a] = dbBal[a] + Owed(a, "grpc") + (-r.amt)
            /\ \A k \in 0..Len(events) : dbBal[a] + OwedTo(a, "grpc", k) >= 0
        <5>1. Posting(r, a) = -r.amt
          BY <2>1, <2>8 DEF Posting
        <5> QED
          BY <2>1, <2>4, <2>8, <5>1 DEF Sound, BalanceSound, Alone
      <4>2. Owed(a, "grpc")' = Owed(a, "grpc")
        BY <2>1 DEF Owed, Weight
      <4>3. Owed(a, "grpc") \in Int /\ dbBal[a] \in Nat
        BY <1>0, OwedType DEF TypeOK, StoreTypes
      <4>4. bal'[a] = dbBal'[a] + Owed(a, "grpc")' + Posting(req'[p], a)
        <5>1. PICK n \in Nat : n = r.amt
          BY <1>0
        <5> HIDE DEF r
        <5> QED
          BY <2>1, <2>2, <2>5, <2>8, <4>1, <4>2, <4>3, <5>1
      <4>5. \A k \in 0..Len(events)' : dbBal'[a] + OwedTo(a, "grpc", k)' >= 0
        BY <2>1, <4>1 DEF OwedTo, Weight
      <4> QED
        BY <4>4, <4>5 DEF BalanceSound, Alone
    <3> QED
      BY <2>6, <3>1, <3>2 DEF Sound
  <2> QED
    BY <2>7, <2>8
<1> QED
  BY <1>1, <1>2

(* The projector *)
LEMMA StoreProject ==
    ASSUME StoreInv, TypeOK', Faults = {}, here' = here, Project PROVE \A a \in Account : Sound(a)'
<1> DEFINE e == Head(events)
<1>0. TypeOK /\ NothingAgain
  BY DEF StoreInv, ClaimInv, RowInv, BaseInv
<1>1. /\ events # <<>> /\ events' = Tail(events) /\ e = Given
      /\ UNCHANGED <<bal, lck, req, hold, withdrawal>>
  BY <1>0, ReadsOn DEF Project, redis, rows
<1>2. /\ e \in Event /\ e.acct \in Account /\ e.delta \in Int /\ (e.reason # "grpc" => e.delta \in Nat)
      /\ dbBal \in [Account -> Nat] /\ dbLck \in [Account -> Nat] /\ events \in Seq(Event)
  BY <1>0, <1>1, HeadEvent, EntryEvents DEF TypeOK, StoreTypes, EventTypes, Event
<1>3. Len(events') \in Nat /\ 0 \in 0..Len(events') /\ 1 \in 0..Len(events)
  BY <1>1, <1>2
<1>4. \A a, r : OwedTo(a, r, 1) = Weight(a, r)[e]
  <2> SUFFICES ASSUME NEW a, NEW r PROVE OwedTo(a, r, 1) = Weight(a, r)[e]
    OBVIOUS
  <2>1. OwedTo(a, r, 0 + 1) = Weight(a, r)[e] + OwedTo(a, r, 0)'
    BY <1>0, <1>1, <1>3, OwedToRest
  <2>2. OwedTo(a, r, 0)' = 0
    BY SumToNone DEF OwedTo
  <2>3. Weight(a, r)[e] \in Int
    BY <1>2, WeightType
  <2> HIDE DEF e
  <2> QED
    BY <2>1, <2>2, <2>3
<1> SUFFICES ASSUME NEW a \in Account PROVE Sound(a)'
  OBVIOUS
<1>5. Sound(a)
  BY DEF StoreInv
<1>6. PICK b \in Int, m \in Int, n \in Int :
        b = Weight(a, "grpc")[e] /\ m = Weight(a, "lock")[e] /\ n = Weight(a, "unlock")[e]
  BY <1>2, WeightType
<1>7. KeysSound(a)'
  <2>1. ASSUME Untouched(a) PROVE Untouched(a)'
    <3>1. \A i \in DOMAIN events' : events'[i].acct # a
      <4>1. \A i \in DOMAIN events' : i + 1 \in DOMAIN events /\ events'[i] = events[i + 1]
        BY <1>1, <1>2
      <4> QED
        BY <2>1, <4>1 DEF Untouched
    <3>2. dbLck'[a] = dbLck[a]
      <4>1. e.acct # a
        BY <1>1, <1>2, <2>1 DEF Untouched
      <4> QED
        BY <1>1, <1>2, <4>1 DEF Project
    <3> QED
      BY <1>1, <2>1, <3>1, <3>2 DEF Untouched
  <2> QED
    BY <1>1, <1>5, <2>1 DEF Sound, KeysSound
<1>8. BalanceSound(a)'
  <2> SUFFICES ASSUME bal[a] # Absent PROVE BalanceSound(a)'
    BY <1>1 DEF BalanceSound
  <2>1. /\ \A p \in here.procs : bal[a] = dbBal[a] + Owed(a, "grpc") + Posting(req[p], a)
        /\ \A k \in 0..Len(events) : dbBal[a] + OwedTo(a, "grpc", k) >= 0
    BY <1>5 DEF Sound, BalanceSound
  <2>2. dbBal[a] + b >= 0
    BY <1>3, <1>4, <1>6, <2>1
  <2>3. dbBal'[a] = dbBal[a] + b
    BY <1>1, <1>2, <1>6, <2>2 DEF Project, Weight, Applied
  <2>4. Owed(a, "grpc") = b + Owed(a, "grpc")'
    BY <1>0, <1>1, <1>6, OwedTail
  <2>5. Owed(a, "grpc")' \in Int /\ dbBal[a] \in Nat
    BY <1>2, OwedTypeNext
  <2>6. ASSUME NEW p \in here.procs'
        PROVE  bal'[a] = dbBal'[a] + Owed(a, "grpc")' + Posting(req[p], a)'
    <3>1. bal[a] = dbBal[a] + Owed(a, "grpc") + Posting(req[p], a) /\ Posting(req[p], a)' = Posting(req[p], a)
      BY <1>1, <2>1, <2>6
    <3>2. dbBal[a] + Owed(a, "grpc") = dbBal'[a] + Owed(a, "grpc")'
      BY <2>3, <2>4, <2>5
    <3> QED
      BY <1>1, <3>1, <3>2
  <2>7. ASSUME NEW k \in 0..Len(events') PROVE dbBal'[a] + OwedTo(a, "grpc", k)' >= 0
    <3>1. k + 1 \in 0..Len(events) /\ OwedTo(a, "grpc", k + 1) = b + OwedTo(a, "grpc", k)'
      BY <1>0, <1>1, <1>6, OwedToRest
    <3>2. dbBal[a] + OwedTo(a, "grpc", k + 1) >= 0
      BY <2>1, <3>1
    <3>3. OwedTo(a, "grpc", k)' \in Int
      BY OwedToNextType
    <3> QED
      BY <2>3, <2>5, <3>1, <3>2, <3>3
  <2> QED
    BY <2>6, <2>7 DEF BalanceSound
<1>9. LockSound(a)'
  <2> SUFFICES ASSUME lck[a] # Absent, Unrejected(a) PROVE LockSound(a)'
    BY <1>1 DEF LockSound, Unrejected
  <2>1. /\ \A p \in here.procs :
             lck[a] = dbLck[a] + Owed(a, "lock") - Owed(a, "unlock") + Taking(req[p], a)
        /\ \A k \in 0..Len(events) : dbLck[a] + OwedTo(a, "lock", k) - OwedTo(a, "unlock", k) >= 0
    BY <1>5 DEF Sound, LockSound
  <2>2. dbLck[a] + m - n >= 0
    BY <1>3, <1>4, <1>6, <2>1
  <2>3. dbLck'[a] = dbLck[a] + m - n
    <3>1. CASE e.reason = "lock" /\ dbLck' = [dbLck EXCEPT ![e.acct] = @ + e.delta]
      <4>1. m = (IF e.acct = a THEN e.delta ELSE 0) /\ n = 0
        BY <1>2, <1>6, <3>1 DEF Weight
      <4>2. dbLck'[a] = IF e.acct = a THEN dbLck[a] + e.delta ELSE dbLck[a]
        BY <1>2, <3>1
      <4> HIDE DEF e
      <4> QED
        BY <1>2, <4>1, <4>2
    <3>2. CASE e.reason = "unlock" /\ dbLck' = [dbLck EXCEPT ![e.acct] = Monus(@, e.delta)]
      BY <1>2, <1>6, <2>2, <3>2 DEF Weight, Monus
    <3>3. CASE e.reason = "grpc" /\ dbLck' = dbLck
      BY <1>2, <1>6, <3>3 DEF Weight
    <3> QED
      BY <1>1, <3>1, <3>2, <3>3 DEF Project
  <2>4. Owed(a, "lock") = m + Owed(a, "lock")' /\ Owed(a, "unlock") = n + Owed(a, "unlock")'
    BY <1>0, <1>1, <1>6, OwedTail
  <2>5. Owed(a, "lock")' \in Int /\ Owed(a, "unlock")' \in Int /\ dbLck[a] \in Nat
    BY <1>2, OwedTypeNext
  <2>6. ASSUME NEW p \in here.procs'
        PROVE  lck'[a] = dbLck'[a] + Owed(a, "lock")' - Owed(a, "unlock")' + Taking(req[p], a)'
    <3>1. /\ lck[a] = dbLck[a] + Owed(a, "lock") - Owed(a, "unlock") + Taking(req[p], a)
          /\ Taking(req[p], a)' = Taking(req[p], a)
      BY <1>1, <2>1, <2>6
    <3>2. dbLck[a] + Owed(a, "lock") - Owed(a, "unlock") = dbLck'[a] + Owed(a, "lock")' - Owed(a, "unlock")'
      BY <2>3, <2>4, <2>5
    <3> QED
      BY <1>1, <3>1, <3>2
  <2>7. ASSUME NEW k \in 0..Len(events')
        PROVE  dbLck'[a] + OwedTo(a, "lock", k)' - OwedTo(a, "unlock", k)' >= 0
    <3>1. /\ k + 1 \in 0..Len(events) /\ OwedTo(a, "lock", k + 1) = m + OwedTo(a, "lock", k)'
          /\ OwedTo(a, "unlock", k + 1) = n + OwedTo(a, "unlock", k)'
      BY <1>0, <1>1, <1>6, OwedToRest
    <3>2. dbLck[a] + OwedTo(a, "lock", k + 1) - OwedTo(a, "unlock", k + 1) >= 0
      BY <2>1, <3>1
    <3>3. OwedTo(a, "lock", k)' \in Int /\ OwedTo(a, "unlock", k)' \in Int
      BY OwedToNextType
    <3> QED
      BY <2>3, <2>5, <3>1, <3>2, <3>3
  <2> QED
    BY <2>6, <2>7 DEF LockSound
<1> QED
  BY <1>7, <1>8, <1>9 DEF Sound

(* Steps of nobody's request: with no fault, the projector, administrators *)
(* and the rate.                                                           *)
LEMMA StoreOthers ==
    ASSUME StoreInv, TypeOK', Faults = {}, here' = here, Others,
           \A a \in Account : Unrejected(a)' => Unrejected(a)
    PROVE  /\ req' = req /\ warm' = warm
           /\ \A p \in Proc : AtKeys(req[p])'
           /\ \A a \in Account : Sound(a)'
<1>0. TypeOK /\ warm.pc = "off" /\ NothingAgain
  BY DEF StoreInv, ClaimInv, RowInv, BaseInv
<1>1. ~WarmUp /\ ~LoseEvent /\ ~Restart /\ ~RedisFlush
  BY <1>0 DEF WarmUp, WarmRows, WarmGetBal, WarmSetBal, WarmGetLck, WarmSetLck, LoseEvent, Restart, RedisFlush
<1>2. /\ UNCHANGED <<bal, lck, req, warm, hold>>
      /\ UNCHANGED <<dbBal, dbLck, events>> \/ Project
  BY <1>1 DEF Others, Admin, AdminApproveWithdrawal, AdminRejectDeposit, CreateDeposit, Background,
              Project, RefreshRate, money, redis
<1>3. ASSUME NEW a \in Account, Untouched(a) PROVE dbLck'[a] = dbLck[a] /\ dbBal'[a] = dbBal[a]
  <2>1. CASE Project
    <3>1. Head(events) = events[1] /\ 1 \in DOMAIN events /\ Head(events) = Given
      BY <1>0, <2>1, HeadEvent, ReadsOn DEF Project
    <3>2. Head(events).acct # a
      BY <1>3, <3>1 DEF Untouched
    <3> QED
      <4>1. dbBal \in [Account -> Nat] /\ dbLck \in [Account -> Nat]
        BY <1>0 DEF TypeOK, StoreTypes
      <4> DEFINE e == Given
      <4>2. /\ dbLck' = dbLck \/ \E n : dbLck' = [dbLck EXCEPT ![e.acct] = n]
            /\ dbBal' = dbBal \/ \E n : dbBal' = [dbBal EXCEPT ![e.acct] = n]
        BY <2>1 DEF Project
      <4> HIDE DEF e
      <4>3. e.acct # a
        BY <3>1, <3>2 DEF e
      <4> QED
        BY <4>1, <4>2, <4>3
  <2> QED
    BY <1>2, <2>1
<1>4. ASSUME NEW p \in Proc PROVE AtKeys(req[p])'
  <2> DEFINE r == req[p]
  <2>1. r.acct \in Account /\ AtKeys(r)
    BY <1>0 DEF TypeOK, RequestTypes, Request, StoreInv
  <2>2. KeysSound(r.acct)
    BY <2>1 DEF StoreInv, Sound
  <2>3. r.pc \in {"setBal", "setLck"} => Untouched(r.acct)
    BY <2>1, <2>2 DEF AtKeys, KeysSound
  <2> QED
    BY <1>2, <1>3, <2>1, <2>3 DEF AtKeys
<1>5. CASE Project
  BY <1>2, <1>4, <1>5, StoreProject
<1>6. CASE UNCHANGED <<dbBal, dbLck, events>>
  <2> SUFFICES ASSUME NEW a \in Account PROVE Sound(a)'
    BY <1>2, <1>4
  <2>1. Sound(a)
    BY DEF StoreInv
  <2>2. Untouched(a) => Untouched(a)'
    <3>1. CASE UNCHANGED withdrawal
      BY <1>2, <1>6, <3>1 DEF Untouched
    <3>2. ASSUME NEW w \in Withdrawal, AdminApproveWithdrawal(w), Untouched(a) PROVE Untouched(a)'
      <4>1. withdrawal[w].acct # a /\ withdrawal \in [Withdrawal -> WithdrawalRow]
        BY <1>0, <3>2 DEF AdminApproveWithdrawal, Untouched, TypeOK, RowTypes
      <4>2. \A v \in Withdrawal : /\ withdrawal'[v].acct = withdrawal[v].acct
                                  /\ v # w => withdrawal'[v] = withdrawal[v]
        BY <3>2, <4>1 DEF AdminApproveWithdrawal, WithdrawalRow
      <4> QED
        BY <1>2, <1>6, <3>2, <4>1, <4>2 DEF Untouched
    <3> QED
      BY <1>1, <3>1, <3>2 DEF Others, Admin, AdminRejectDeposit, CreateDeposit, Background, Project,
                              RefreshRate, rows
  <2>3. KeysSound(a)'
    BY <1>2, <2>1, <2>2 DEF Sound, KeysSound
  <2>4. BalanceSound(a)'
    BY <1>2, <1>6, <2>1 DEF Sound, BalanceSound, Owed, OwedTo, Weight
  <2>5. LockSound(a)'
    BY <1>2, <1>6, <2>1 DEF Sound, LockSound, Owed, OwedTo, Weight
  <2> QED
    BY <2>3, <2>4, <2>5 DEF Sound
<1> QED
  BY <1>2, <1>5, <1>6

(* Where the keys do not exist from the start, no deposit comes up. *)
LEMMA StoreDepositless ==
    ASSUME StoreInv, [Next]_vars, here' = here, DepositsWarm, ~here.warm PROVE NoDeposits'
<1>0. TypeOK /\ BaseInv /\ here.deposits = {} /\ NoDeposits
  BY DEF StoreInv, ClaimInv, RowInv, BaseInv, DepositsWarm
<1>1. ASSUME NEW p \in Proc, Arrive(p) PROVE NoDeposits'
  <2>1. UNCHANGED deposit
    BY <1>1 DEF Arrive, UpdateBalanceRedis, LockBalanceRedis, UnlockBalanceRedis, CreateWithdrawal,
                AdminRejectWithdrawal, ConfirmDeposit, rows
  <2>2. \A d \in Deposit : ~ConfirmDeposit(p, d)
    BY <1>0 DEF ConfirmDeposit, NoDeposits
  <2>3. OthersWait(p) /\ req'[p].op # "confirm"
    <3>1. ASSUME NEW a \in Account, NEW n \in Amount, NEW op \in Op, UpdateBalanceRedis(p, op, a, n)
          PROVE  OthersWait(p) /\ req'[p].op # "confirm"
      BY <1>0, <3>1, BeginStep DEF UpdateBalanceRedis
    <3>2. ASSUME NEW h \in Hold, NEW n \in Amount, LockBalanceRedis(p, h, n) \/ UnlockBalanceRedis(p, h, n)
          PROVE  OthersWait(p) /\ req'[p].op # "confirm"
      BY <1>0, <3>2, BeginStep DEF LockBalanceRedis, UnlockBalanceRedis
    <3>3. ASSUME NEW w \in Withdrawal, NEW a \in Account, NEW n \in Amount, CreateWithdrawal(p, w, a, n)
          PROVE  OthersWait(p) /\ req'[p].op # "confirm"
      <4>1. PICK op \in {"cap", "withdraw"} : Begin(p, "get", op, a, n, w, n * rate)
        BY <3>3 DEF CreateWithdrawal
      <4> QED
        BY <1>0, <4>1, BeginStep
    <3>4. ASSUME NEW w \in Withdrawal, AdminRejectWithdrawal(p, w)
          PROVE  OthersWait(p) /\ req'[p].op # "confirm"
      BY <1>0, <3>4, BeginStep DEF AdminRejectWithdrawal
    <3> QED
      BY <1>0, <1>1, <2>2, <3>1, <3>2, <3>3, <3>4, HereTypes DEF Arrive
  <2> QED
    BY <1>0, <2>1, <2>3 DEF NoDeposits, OthersWait
<1>2. ASSUME NEW p \in Proc, Serve(p) PROVE NoDeposits'
  <2>1. Served(p) /\ Shape(req[p]) /\ req[p].op # "confirm"
    BY <1>0, <1>2, ServeStep DEF BaseInv, NoDeposits
  <2>2. UNCHANGED deposit
    BY <1>2, <2>1 DEF Serve, EnsureGet, EnsureFind, EnsureSetBal, EnsureSetLck, Script, ScriptError, Publish,
       CapGetBalance, CapGetLocked, WithdrawalTx, UndoLock, RejectTx, ConfirmTx, ConfirmCredit, rows, Shape, ShapeAt
  <2>3. OthersWait(p) /\ req'[p].op # "confirm"
    BY <2>1, IdleType DEF Served, Advances
  <2> QED
    BY <1>0, <2>2, <2>3 DEF NoDeposits, OthersWait
<1>3. ASSUME Others PROVE NoDeposits'
  <2>1. \A p \in Proc : req'[p].op # "confirm"
    BY <1>0, <1>3, OthersBase, IdleType DEF NoDeposits
  <2>2. UNCHANGED deposit
    BY <1>0, <1>3 DEF Others, Admin, AdminApproveWithdrawal, AdminRejectDeposit, CreateDeposit, WarmUp, WarmRows,
       WarmGetBal, WarmSetBal, WarmGetLck, WarmSetLck, Background, Project, LoseEvent, RefreshRate,
       Restart, RedisFlush, rows, NoDeposits
  <2> QED
    BY <1>0, <2>1, <2>2 DEF NoDeposits
<1>4. CASE UNCHANGED vars
  BY <1>0, <1>4 DEF vars, rows, NoDeposits
<1> QED
  BY <1>1, <1>2, <1>3, <1>4 DEF Next, Others

LEMMA AloneHolds ==
    ASSUME StoreInv, TypeOK', OneByOne, here' = here, NEW p \in Proc, p \in here.procs, OthersWait(p),
           \A a \in Account : Unrejected(a)' => Unrejected(a)
    PROVE  /\ Alone(p)
           /\ AtKeys(req[p])' => \A q \in Proc : AtKeys(req[q])'
<1>0. BaseInv /\ TypeOK
  BY DEF StoreInv, ClaimInv, RowInv, BaseInv
<1>1. PICK s : here.procs = {s}
  <2>1. here.procs \subseteq Proc
    BY <1>0, SituationAssumption DEF TypeOK
  <2>2. IsFiniteSet(here.procs)
    BY <2>1, FiniteAssumption, FS_Subset
  <2> QED
    BY <2>2, FS_Singleton DEF OneByOne
<1>2. \A q \in Proc \ {p} : req[q].pc = "idle" /\ req'[q] = req[q]
  BY <1>0, OneWorks DEF OthersWait
<1> QED
  BY <1>0, <1>1, <1>2 DEF Alone, AtKeys

LEMMA StoreServe ==
    ASSUME StoreInv, NEW p, Alone(p), Faults = {}, Serve(p)
    PROVE  AtKeys(req[p])' /\ \A a \in Account : Sound(a)'
<1>1. ~ScriptError(p)
  BY DEF ScriptError
<1> QED
  BY <1>1, StoreEnsure, StoreScript, StorePublish, StoreWithdraw, StoreDeposits DEF Serve

LEMMA StoreStep == ASSUME StoreInv, [Next]_vars, Orderly, DepositsWarm PROVE StoreInv'
<1>0. here' = here /\ BaseInv /\ RowInv
  BY HereStays DEF StoreInv, ClaimInv, RowInv
<1>1. ClaimInv' /\ TypeOK' /\ NothingAgain'
  <2>1. ClaimInv'
    BY ClaimStep DEF StoreInv, Orderly, Reported
  <2> QED
    BY <2>1, NothingAgainStep DEF StoreInv, ClaimInv, RowInv, BaseInv
<1>2. \A a \in Account : Unrejected(a)' => Unrejected(a)
  BY <1>0, RejectedStays
<1>3. (~here.warm => NoDeposits)'
  BY <1>0, StoreDepositless
<1>4. ASSUME NEW p \in Proc, Arrive(p) PROVE StoreInv'
  <2>1. p \in here.procs /\ warm' = warm
    BY <1>4 DEF Arrive, UpdateBalanceRedis, LockBalanceRedis, UnlockBalanceRedis, CreateWithdrawal,
                AdminRejectWithdrawal, ConfirmDeposit
  <2>2. OthersWait(p)
    <3>1. PICK r : req' = [req EXCEPT ![p] = r]
      BY <1>4 DEF Arrive, UpdateBalanceRedis, LockBalanceRedis, UnlockBalanceRedis, CreateWithdrawal,
                  AdminRejectWithdrawal, ConfirmDeposit, Begin
    <3>2. req \in [Proc -> Request]
      BY <1>0 DEF BaseInv, TypeOK, RequestTypes
    <3> QED
      BY <3>1, <3>2 DEF OthersWait
  <2>3. Alone(p) /\ (AtKeys(req[p])' => \A q \in Proc : AtKeys(req[q])')
    BY <1>0, <1>1, <1>2, <2>1, <2>2, AloneHolds DEF Orderly
  <2>4. AtKeys(req[p])' /\ \A a \in Account : Sound(a)'
    BY <1>4, <2>3, StoreArrive
  <2> QED
    BY <1>1, <1>3, <2>1, <2>3, <2>4 DEF StoreInv
<1>5. ASSUME NEW p \in Proc, Serve(p) PROVE StoreInv'
  <2>1. Served(p) /\ p \in here.procs
    BY <1>0, <1>5, ServeStep DEF BaseInv, Served
  <2>2. warm' = warm
    BY <1>5 DEF Serve, EnsureGet, EnsureFind, EnsureSetBal, EnsureSetLck, Script, ScriptError, Publish,
       CapGetBalance, CapGetLocked, WithdrawalTx, UndoLock, RejectTx, ConfirmTx, ConfirmCredit
  <2>3. Alone(p) /\ (AtKeys(req[p])' => \A q \in Proc : AtKeys(req[q])')
    BY <1>0, <1>1, <1>2, <2>1, AloneHolds DEF Orderly, Served
  <2>4. AtKeys(req[p])' /\ \A a \in Account : Sound(a)'
    BY <1>5, <2>3, StoreServe DEF Orderly
  <2> QED
    BY <1>1, <1>3, <2>2, <2>3, <2>4 DEF StoreInv
<1>6. ASSUME Others PROVE StoreInv'
  <2>1. warm' = warm /\ (\A p \in Proc : AtKeys(req[p])') /\ \A a \in Account : Sound(a)'
    BY <1>0, <1>1, <1>2, <1>6, StoreOthers DEF Orderly
  <2> QED
    BY <1>1, <1>3, <2>1 DEF StoreInv
<1>7. CASE UNCHANGED vars
  <2>1. UNCHANGED <<bal, lck, dbBal, dbLck, events, req, warm, hold, withdrawal>>
    BY <1>7 DEF vars, money, rows
  <2>2. \A p \in Proc : AtKeys(req[p])'
    BY <2>1 DEF StoreInv, AtKeys
  <2>3. \A a \in Account : Sound(a)'
    <3> SUFFICES ASSUME NEW a \in Account PROVE Sound(a)'
      OBVIOUS
    <3>1. Sound(a) /\ KeysSound(a)' = KeysSound(a)
      BY <1>0, <2>1 DEF StoreInv, KeysSound, Untouched
    <3>2. BalanceSound(a)' = BalanceSound(a)
      BY <1>0, <2>1 DEF BalanceSound, Owed, OwedTo, Weight
    <3>3. LockSound(a)' = LockSound(a)
      BY <1>0, <2>1 DEF LockSound, Unrejected, Owed, OwedTo, Weight
    <3> QED
      BY <3>1, <3>2, <3>3 DEF Sound
  <2> QED
    BY <1>1, <1>3, <2>1, <2>2, <2>3 DEF StoreInv
<1> QED
  BY <1>4, <1>5, <1>6, <1>7 DEF Next, Others

LEMMA StoreInit == ASSUME Init, DepositsWarm PROVE StoreInv
<1>1. ClaimInv /\ TypeOK /\ NothingAgain
  BY ClaimInit DEF ClaimInv, RowInv, BaseInv, Init, InitRows, NothingAgain
<1>2. /\ events = <<>> /\ warm.pc = "off"
      /\ \A p \in Proc : req[p].pc = "idle" /\ req[p].op = "none"
      /\ \A w \in Withdrawal : withdrawal[w].status = "NONE"
      /\ \A d \in Deposit : deposit[d].status = "NONE"
      /\ \A h \in Hold : hold[h] = 0
      /\ \A a \in Account : dbBal[a] = InitBal /\ dbLck[a] = 0
  BY IdleType DEF Init, InitRows, WarmOff
<1>3. \A a \in Account : Untouched(a)
  BY <1>2, AccountAssumption DEF Untouched
<1>4. here.warm \in BOOLEAN /\ here.procs \subseteq Proc
  BY SituationAssumption DEF Init, InitRows
<1>5. \A a \in Account : /\ bal[a] = IF here.warm THEN InitBal ELSE Absent
                         /\ lck[a] = IF here.warm THEN 0 ELSE Absent
  BY DEF Init
<1>6. ASSUME NEW a \in Account PROVE Sound(a)
  <2>1. \A r : Owed(a, r) = 0 /\ \A k \in 0..Len(events) : OwedTo(a, r, k) = 0
    BY <1>1, <1>3, OwedToNone DEF Untouched
  <2>2. \A p \in Proc : Posting(req[p], a) = 0 /\ Taking(req[p], a) = 0
    BY <1>2, NothingMoves
  <2>3. InitBal \in Nat /\ InitBal # Absent /\ 0 # Absent
    BY NumberAssumption, AbsentAssumption
  <2>4. KeysSound(a)
    BY <1>3, <1>5, <2>3 DEF KeysSound
  <2>5. BalanceSound(a)
    BY <1>2, <1>4, <1>5, <2>1, <2>2, <2>3 DEF BalanceSound
  <2>6. LockSound(a)
    BY <1>2, <1>4, <1>5, <2>1, <2>2, <2>3 DEF LockSound
  <2> QED
    BY <2>4, <2>5, <2>6 DEF Sound
<1> QED
  BY <1>1, <1>2, <1>6 DEF StoreInv, NoDeposits, AtKeys

LEMMA StoreHolds == ASSUME StoreInv, Orderly PROVE QuiescentAgreement
<1> SUFFICES ASSUME Quiescent, NEW a \in Account, bal[a] # Absent PROVE CachedAgree(a)
  BY DEF QuiescentAgreement
<1>0. TypeOK /\ Sound(a)
  BY DEF StoreInv, ClaimInv, RowInv, BaseInv
<1>1. PICK p : p \in Proc /\ here.procs = {p}
  <2>1. here.procs \subseteq Proc
    BY <1>0, SituationAssumption DEF TypeOK
  <2>2. IsFiniteSet(here.procs)
    BY <2>1, FiniteAssumption, FS_Subset
  <2> QED
    BY <2>1, <2>2, FS_Singleton DEF OneByOne, Orderly
<1>2. Posting(req[p], a) = 0 /\ Taking(req[p], a) = 0 /\ \A r : Owed(a, r) = 0
  BY <1>1, NothingMoves, OwedNothing DEF Quiescent
<1>3. /\ dbBal[a] \in Nat /\ dbLck[a] \in Nat
      /\ lck[a] # Absent => lck[a] \in Nat
  BY <1>0 DEF TypeOK, StoreTypes
<1>4. bal[a] = dbBal[a]
  <2>1. bal[a] = dbBal[a] + Owed(a, "grpc") + Posting(req[p], a)
    BY <1>0, <1>1 DEF Sound, BalanceSound
  <2> QED
    BY <1>2, <1>3, <2>1
<1>5. ASSUME Unrejected(a) PROVE Num(lck[a]) = dbLck[a]
  <2>1. CASE lck[a] = Absent
    BY <1>0, <2>1 DEF Sound, KeysSound, Untouched, Num
  <2>2. CASE lck[a] # Absent
    <3>1. lck[a] = dbLck[a] + Owed(a, "lock") - Owed(a, "unlock") + Taking(req[p], a)
      BY <1>0, <1>1, <1>5, <2>2 DEF Sound, LockSound
    <3> QED
      BY <1>2, <1>3, <2>2, <3>1 DEF Num
  <2> QED
    BY <2>1, <2>2
<1> QED
  BY <1>4, <1>5 DEF CachedAgree, Unrejected

(* One request after another and without failures, the projection loses,   *)
(* repeats and misreads nothing: with nothing in flight, what Redis holds  *)
(* of a wallet is what its row holds, from warm and from missing keys.     *)
THEOREM StoresStayEqual == Spec => []QuiescentAgreement
<1> DEFINE Inv == Orderly /\ DepositsWarm => StoreInv
<1>1. Init => Inv
  BY StoreInit
<1>2. Inv /\ [Next]_vars => Inv'
  <2> SUFFICES ASSUME Inv, [Next]_vars PROVE Inv'
    OBVIOUS
  <2>1. here' = here
    BY HereStays
  <2>2. Orderly' = Orderly /\ DepositsWarm' = DepositsWarm
    BY <2>1 DEF Orderly, OneByOne, Faults, DepositsWarm
  <2> QED
    BY <2>2, StoreStep
<1>3. Inv => QuiescentAgreement
  BY StoreHolds DEF QuiescentAgreement
<1> QED
  BY <1>1, <1>2, <1>3, PTL DEF Spec
=============================================================================
