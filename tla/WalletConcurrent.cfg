SPECIFICATION Spec
CONSTANTS
    Account = {a1}
    a1 = a1
    h1 = h1
    p1 = p1
    p2 = p2
    HoldAcct <- MCHoldAcct
    Absent = Absent
    None = None
    Proc = {p1, p2}
    Hold = {h1}
    Deposit = {}
    Withdrawal = {w1}
    Amount = {1, 2}
    Rate = {1}
    InitBal = 2
    Situation <- Storm
SYMMETRY MCSymmetry
INVARIANT TypeOK
INVARIANT LockedCoversClaims
CHECK_DEADLOCK FALSE
