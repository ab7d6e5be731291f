SPECIFICATION FairSpec
CONSTANTS
    User = {u1}
    FeeWallet = fee
    Proc = {p1, p2}
    MaxOrders = 2
    Price = {2, 4}
    Amount = {1, 2}
    FeeScale = 2
    MakerRate = 0
    TakerRate = 1
    LockRate = 1
    CheckRate = 1
    Situation <- Contending
    None = None
PROPERTY EveryRequestAnswered
CHECK_DEADLOCK FALSE
