SPECIFICATION Spec
CONSTANTS
    User = {u1, u2}
    FeeWallet = fee
    Proc = {p1, p2}
    MaxOrders = 3
    Price = {2, 4}
    Amount = {1, 2}
    FeeScale = 2
    MakerRate = 0
    TakerRate = 1
    LockRate = 1
    CheckRate = 1
    Situation <- Orders
    None = None
SYMMETRY MCSymmetry
INVARIANT RestingIsBacked
INVARIANT RowsFollowBook
INVARIANT BookUncrossed
INVARIANT FundsConserved
INVARIANT FilledIsSettled
PROPERTY TradesBest
CHECK_DEADLOCK FALSE
