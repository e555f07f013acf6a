SPECIFICATION PromptFairSpec
CONSTANTS
    Workers = {w1, w2}
    NoOne = NoOne
    Orphan = Orphan
    Timeout = 2
    BatchSize = 2
    MinFill = 1
    Poison <- NoPoison
    MaxLog = 6
    MaxFaults = 2
INVARIANTS MutualExclusion RedeliveryWindow
PROPERTIES CommitMonotone ImplementsWindow EventuallyCommitted
