SPECIFICATION PromptSpec
CONSTANTS
    User = {u1}
    Proc = {p1}
    Engine = engine
    Funder = funder
    Position = {x1, x2}
    Size = {1}
    Leverage = {10}
    Price = {362000, 400000}
    Index = {362000}
    Trigger = {0}
    InitBal = 41000
    MaxSettlements = 0
    MaxUncommitted = 0
    MaxRequests = 2
    Faults = {}
    None = None
SYMMETRY MCSymmetry
INVARIANT LocksBacked
CHECK_DEADLOCK FALSE
