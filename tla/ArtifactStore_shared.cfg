SPECIFICATION FairSpec
CONSTANTS
    w1 = w1  w2 = w2
    i1 = i1  i2 = i2
    p1 = p1  p2 = p2
    None = None
    Workers = {w1, w2}
    Ids = {i1}
    Principals = {p1, p2}
    Ttl = 1
    EndOfTime = 2
    MaxAttempts = 2
    MaxRedirects = 1
    MaxCrashes = 1
INVARIANT OrphansAreCutPuts
PROPERTIES ImplementsStore ExpiredIsSwept
CHECK_DEADLOCK FALSE
