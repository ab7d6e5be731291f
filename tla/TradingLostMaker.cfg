SPECIFICATION Spec
CONSTANTS
    User = {u1, u2}
    FeeWallet = fee
    Proc = {p1}
    MaxOrders = 3
    Price = {2, 4}
    Amount = {1, 2}
    FeeScale = 2
    MakerRate = 0
    TakerRate = 1
    LockRate = 1
    CheckRate = 1
    Situation <- Markets
    None = None
SYMMETRY MCSymmetry
PROPERTY RollbackReverts
CHECK_DEADLOCK FALSE
