SPECIFICATION Spec
CONSTANTS
    Workers = {w1, w2}
    NoOne = NoOne
    Orphan = Orphan
    Timeout = 1
    BatchSize = 2
    MinFill = 1
    Poison <- LastRecord
    MaxLog = 4
    MaxFaults = 1
SYMMETRY WorkerSymmetry
INVARIANTS TypeOK AtLeastOnce PoisonBlocks LockHoldBound
PROPERTIES ImplementsDelivery
