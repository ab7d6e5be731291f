SPECIFICATION WatchSpec
CONSTANTS
    User = {u1}
    u1 = u1
    Device = {d1, d2}
    d1 = d1
    d2 = d2
    Proc = {p1, p2}
    Ip = ip
    ip = ip
    Tries <- FewTries
    Situation <- Situations
    MaxPass = 2
    MaxWrong = 6
    MaxRestarts = 1
    Region <- Abroad
    Private = 0
    VelThresh = 1
    VelWindow = 2
    GeoWindow = 1
    Spread = 1
    Recent = 10
    MaxTime = 2
SYMMETRY Symmetry
INVARIANT GuessesBounded
INVARIANT RotatedIsDead
INVARIANT LockEndsSessions
INVARIANT AnomaliesAreFound
CHECK_DEADLOCK FALSE
