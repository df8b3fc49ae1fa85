CONSTANTS
    b1 = b1
    b2 = b2
    b3 = b3
    TempBlock = TempBlock
    NoBlock = NoBlock
    Boot = Boot
    Blocks <- PairBlocks
    Deps <- PairDeps
    Verdicts <- AnyVerdict
    StorageFails = TRUE
    Tasks = {t1, t2}
    Handlers = {h1}
    QueueCapacity = 2
    MaxInFlight = 2
    AttemptsMax = 2
    Malformed = {b1}
    MaxRestarts = 0
SPECIFICATION FairSpec
INVARIANTS
    MarkedBlocksHaveOneOwner
PROPERTY MarksReleased
