SPECIFICATION FairSpec
CONSTANTS
    Age = 1
    BatchSize = 2
    FillRatio = 75
    NoLimit = NoLimit
    MaxTime = 3
    MaxFaults = 1
    s1 = s1
    s2 = s2
    Senders = {s1, s2}
    Bulk <- TwoAndOne
INVARIANTS OneProducer BulkInOrder NothingSkipped OlderBelowLimit
PROPERTIES EventuallyHandled ImplementsDelivery
