CONSTANTS
    b1 = b1
    b2 = b2
    b3 = b3
    TempBlock = TempBlock
    NoBlock = NoBlock
    Boot = Boot
    Blocks <- MCBlocks
    Deps <- MCDeps
    Verdicts <- AllValid
    StorageFails = FALSE
    Tasks = {t1, t2}
    Handlers = {h1}
    QueueCapacity = 2
    MaxInFlight = 2
    AttemptsMax = 2
    Malformed = {}
    MaxRestarts = 0
SYMMETRY ActorSymmetry
SPECIFICATION Spec
PROPERTY LeavesBufferIntoDag
