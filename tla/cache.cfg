SPECIFICATION FairSpec
CONSTANTS
    Callers = {c1, c2}
    Ttl = 4
    JitterPercent = 25
    MaxLag = 1
    MaxWrites = 2
    Nothing = Nothing
INVARIANTS BoundedStaleness StaleForAReason
PROPERTY EventuallyFresh
