CONSTANTS
    b1 = b1
    b2 = b2
    b3 = b3
    TempBlock = TempBlock
    Blocks <- MCBlocks
    Deps <- MCDeps
    MaxTime = 3
    StaleTtl = 1
    PruneInterval = 1
    MaxPruneBatch = 1
    MaxApproxNodes = 2
SPECIFICATION Spec
INVARIANTS
    TypeOK
    AdjacencySymmetric
    PendantsHaveNoParents
    ParentlessDependencyIsPendant
    
    FirstSeenOnlyOfTracked
    RebuildIsFoldOfAdd
