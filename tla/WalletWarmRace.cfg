SPECIFICATION Spec
CONSTANTS
    Account = {a1}
    a1 = a1
    h1 = h1
    p1 = p1
    p2 = p2
    HoldAcct <- MCHoldAcct
    Absent = Absent
    None = None
    Proc = {p1}
    Hold = {}
    Deposit = {d1}
    Withdrawal = {}
    Amount = {1}
    Rate = {1}
    InitBal = 2
    Situation <- WarmingUp
PROPERTY WarmOnlyWhenMissing
CHECK_DEADLOCK FALSE
