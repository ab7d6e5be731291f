---------------------------- MODULE FuturesProps ----------------------------
(***************************************************************************)
(* What futures-service promises about positions and the funds behind      *)
(* them: properties of Futures, and its instance for TLC.                  *)
(***************************************************************************)
EXTENDS Futures, Totals, TLC

MCSymmetry == Permutations(User) \cup Permutations(Proc) \cup Permutations(Position)

FundsTypes == bal \in [User -> Nat] /\ lck \in [User -> Nat] /\ posted \in [User -> Int]

RowTypes == pos \in [Position -> Row] /\ events \in Seq(Event) /\ uncommitted \in Seq(Event)

(* A job carries an open row until it is created, and names its row after. *)
JobTypes ==
    /\ job \in [Worker -> Job]
    /\ \A w \in Worker :
          /\ job[w].pc \in {"check", "lock", "fee", "create"} => job[w].row.status = "OPEN"
          /\ job[w].pc \in {"announce", "tx", "unlock", "apply", "report"} => job[w].pos \in Position

TaskTypes ==
    /\ scan \in Scan
    /\ fund \in FundTask
    /\ payments \in [Position -> [1 .. MaxSettlements -> Int]]

HistoryTypes ==
    requested \in Nat /\ closings \in [Position -> Nat] /\ moved \in [Position -> Int]

(* Types of all variables; no balance and no lock is ever below zero, and  *)
(* no goroutine settles a row it has not found.                            *)
TypeOK == price \in Nat /\ FundsTypes /\ RowTypes /\ JobTypes /\ TaskTypes /\ HistoryTypes

Quiescent == events = <<>> /\ \A w \in Worker : job[w].pc = "idle"

-----------------------------------------------------------------------------
(* A position and the margin behind it *)

(* A position is closed and settled at most once, whoever closes it: user, *)
(* administrator, trigger or liquidation (SELECT ... FOR UPDATE).          *)
SettledOnce == \A x \in Position : closings[x] <= 1

(* What a worker has locked for a position that has no row yet, or has     *)
(* still to unlock for a position it closed.                               *)
Holding(w) == job[w].pc \in {"fee", "create", "refund", "undo", "unlock"}
HeldBy(u) == Sum([w \in Worker |-> job[w].row.margin],
                 {w \in Worker : Holding(w) /\ job[w].row.user = u})
MarginOf(u) == Sum([x \in Position |-> pos[x].margin],
                   {x \in Position : IsOpen(x) /\ pos[x].user = u})

(* The lock of a user covers the margins of all open positions: none is    *)
(* released for another one, or twice, whatever fails in between.          *)
MarginLocked == \A u \in User : MarginOf(u) + HeldBy(u) <= lck[u]

(* Closing takes at most the margin ("so the user can never go negative    *)
(* from a close"), at any price and by any sequence of closings.           *)
LossCapped == \A x \in Position : moved[x] >= -pos[x].margin

(* A closing moves what its row says or, when the wallet refuses a loss or *)
(* the service dies, nothing: the profit stored with the row plus the fee  *)
(* that was paid at the opening, a loss beyond the margin excepted; a      *)
(* liquidated row stores the margin.                                       *)
SettlesAsStored ==
    \A x \in Position :
        LET r == pos[x]
            due == IF r.status = "LIQUIDATED" THEN r.pnl ELSE Larger(r.pnl + OpenFee(r), -r.margin) IN
        r.status \in {"CLOSED", "LIQUIDATED"} => moved[x] \in {0, due}

(* The locked balance is there: what unlocking and deducting a loss does   *)
(* leaves the available balance unchanged, so it never drops below zero.   *)
LocksBacked == \A u \in User : lck[u] <= bal[u]

(* The events about balances add up to what happened to them. *)
LedgerFollows == Quiescent => \A u \in User : posted[u] = bal[u] - InitBal

-----------------------------------------------------------------------------
(* The engine and funding *)

(* A position whose liquidation price was reached is closed, unless the    *)
(* price recovers.                                                         *)
Reached(x) == /\ IsOpen(x) /\ price > 0
              /\ (pos[x].side = "LONG" => price <= pos[x].liq)
              /\ (pos[x].side = "SHORT" => price >= pos[x].liq)
UnderwaterIsClosed == \A x \in Position : Reached(x) ~> ~Reached(x)

(* Positions pay a settlement at one rate and one price, longs what shorts *)
(* of the same size receive, although prices move between the payments.    *)
FundingIsUniform ==
    \A n \in 1 .. MaxSettlements : \A x, y \in Position :
        LET a == payments[x][n] * pos[y].size
            b == payments[y][n] * pos[x].size IN
        (a # 0 /\ b # 0) => a = IF pos[x].side = pos[y].side THEN b ELSE -b
=============================================================================
