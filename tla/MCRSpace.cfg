CONSTANTS
    x0 = x0
    x1 = x1
    x2 = x2
    y1 = y1
    y2 = y2
    kj = kj
    k1 = k1
    ki = ki
    kc = kc
    Channels = {1, 2}
    Datums = {x0, x1, x2, y1, y2}
    Conts = {kj, kc, k1, ki}
    Channel <- MCChannel
    Group <- MCGroup
    Accepts <- MCAccepts
    Persistent = {ki, x1}
    Installed = {ki}
    InHistory = {x0, kj}
    NotCached = NotCached
    Free = Free
SPECIFICATION Spec
INVARIANTS
    
    NoMatchMissed
PROPERTIES
    EveryCallReturns
