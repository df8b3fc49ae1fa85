CONSTANTS
    g = g
    e1 = e1
    e2 = e2
    f1 = f1
    c2 = c2
    d3 = d3
    k3 = k3
    n2 = n2
    v1 = v1
    v2 = v2
    v3 = v3
    v4 = v4
    p1 = p1
    None = None
    NoRecord = NoRecord
    Blocks <- MCBlocks
    Genesis = g
    Validators <- MCValidators
    Deploys = {p1}
    Sender <- MCSender
    SeqNum <- MCSeqNum
    BlockNumber <- MCBlockNumber
    Justifications <- MCJustifications
    Bonds <- MCBonds
    DeploysOf <- MCDeploysOf
    CarriesSlash = {d3}
    Tasks = {t1, t2}
    MaxFailures = 1
SYMMETRY TaskSymmetry
SPECIFICATION Spec
INVARIANTS
    IndexesNameStoredBlocks
    LatestMessageIsHighest
    
    AdmissibleIsRecorded
    ValidSiblingsOnlyByRace
    
