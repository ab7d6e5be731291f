SPECIFICATION FairSpec
CONSTANTS
    es = es
    nt = nt
    e1 = e1
    e2 = e2
    n1 = n1
    ord1 = ord1
    ord2 = ord2
    Event = {ord1, ord2}
    Group = {es, nt}
    Worker = {e1, e2, n1}
    GroupOf <- Service
    Situation <- Situations
    Count = 2
    MaxEvents = 3
    MaxStops = 2
INVARIANT EffectsAreWhole
PROPERTY Promise
PROPERTY EveryGroupServed
CHECK_DEADLOCK FALSE
