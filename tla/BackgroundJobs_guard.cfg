SPECIFICATION FairSpec
CONSTANTS
    j1 = j1  j2 = j2  alice = alice  bob = bob
    w1 = w1  w2 = w2  r1 = r1  r2 = r2
    NoRow = NoRow  NoAsk = NoAsk
    Jobs = {j1}
    Submitter <- AliceSubmits
    Principals = {alice, bob}
    Requests = {r1}
    Workers = {w1, w2}
    Local = FALSE
    Durable = TRUE
    MaxAge = 2
    DeliverySpan = 2
    MaxTime = 4
    MaxCrashes = 1
    StoreMayFail = TRUE
INVARIANTS NoReplay OnlyOwnerReaches
PROPERTY EveryJobEnds
CHECK_DEADLOCK FALSE
