CONSTANTS
    b0 = b0
    b1 = b1
    b2 = b2
    b3 = b3
    Genesis = b0
    Blocks <- MCBlocks
    Parents <- MCParents
    Height <- MCHeight
    Sender <- MCSender
    Finalizable = {b1, b3}
    Task = Task
    Queries = {q1}
    Rate = 1
    MaxFt = 2
    CacheMax = 3
    CacheRetain = 1
    MaxRestarts = 1
SPECIFICATION Spec
INVARIANTS
    TypeOK
    FinalizedHaveEffects
    FinalizedClosed
    LfbIsHighestDirect
    SecondPassFindsNothing
PROPERTIES
    LfbNeverRegresses
    FtNeverFalls
    ImplementsFinality
