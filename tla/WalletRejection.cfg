SPECIFICATION Spec
CONSTANTS
    Account = {a1}
    a1 = a1
    h1 = h1
    p1 = p1
    p2 = p2
    HoldAcct <- MCHoldAcct
    Absent = Absent
    None = None
    Proc = {p1}
    Hold = {}
    Deposit = {}
    Withdrawal = {w1}
    Amount = {1}
    Rate = {1}
    InitBal = 2
    Situation <- OneAtATime
INVARIANT RejectionRefunds
CHECK_DEADLOCK FALSE
