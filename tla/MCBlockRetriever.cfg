CONSTANTS
    p1 = p1
    p2 = p2
    None = None
    x1 = x1
    x2 = x2
    Hashes <- MCHashes
    Inputs <- MCInputs
    Peers <- MCPeers
    Connections <- MCConnections
    Callers = {c1}
    Maintenance = Maintenance
    AgeThreshold = 1
    MAX_REQUESTED_BLOCKS_ENTRIES = 1
    MAX_WAITING_LIST_PER_HASH = 1
    MAX_RETRIES_PER_HASH = 2
    KNOWN_PEER_REQUERY_SOFT_LIMIT = 1
    STALE_REQUEST_LIFETIME_MULTIPLIER = 1
    MIN_REREQUEST_INTERVAL = 2
    PEER_REQUERY_COOLDOWN = 2
    BROADCAST_ONLY_COOLDOWN = 2
    DEPENDENCY_RECOVERY_COOLDOWN = 1
    RETRY_BUDGET_QUARANTINE = 2
    CursorModulus = 2
    MaxLag = 1
    MaxCalls = 3
    MaxFailures = 1
SPECIFICATION FairSpec
INVARIANTS
    WaitingPeersAreFresh
    RetryOvershootBounded
    ExpiredRetryIsSent
    
 
