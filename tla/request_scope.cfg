SPECIFICATION Spec
CONSTANTS
    t1 = t1
    t2 = t2
    Tasks <- TwoTasks
    Mixes <- TwoOfAKind
    MaxDepth = 2
    MaxBlocks = 2
    MaxWrites = 2
    MaxFaults = 2
SYMMETRY TaskSymmetry
INVARIANTS AllOrNothing FailedBlocksLeaveNothing CommittedUnlessSwallowed LogsCarryProperties NothingLeftBehind LogTellsOutcome
PROPERTY ImplementsAtomicBlocks
