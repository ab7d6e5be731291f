SPECIFICATION FairPrompt
CONSTANTS
    User = {u1}
    Proc = {p1}
    Engine = engine
    Funder = funder
    Position = {x1}
    Size = {1}
    Leverage = {10}
    Price = {0, 362000, 400000}
    Index = {362000}
    Trigger = {0, 362000}
    InitBal = 81000
    MaxSettlements = 0
    MaxUncommitted = 0
    MaxRequests = 1
    Faults = {"grpc", "publish","spend"}
    None = None
PROPERTY UnderwaterIsClosed
CHECK_DEADLOCK FALSE
