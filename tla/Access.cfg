SPECIFICATION AccessSpec
CONSTANTS
    Proc = {p1, p2}
    p1 = p1
    p2 = p2
    c1 = c1
    c2 = c2
    DocType = {front, back, selfie}
    front = front
    back = back
    selfie = selfie
    Caller = {c1, c2}
    ApiKey = {k}
    MaxReq = 2
    Window = 3
    Skew = 1
    Life = 2
    MaxCalls = 4
    Draw = {0, 1}
    Value = {v, w}
    Default = d
    Situation <- Situations
    MaxOps = 7
    Absent = Absent
SYMMETRY Symmetry
INVARIANT GateNeedsApproval
INVARIANT WindowBounded
INVARIANT KeysHold
INVARIANT CachesFollowRows
CHECK_DEADLOCK FALSE
