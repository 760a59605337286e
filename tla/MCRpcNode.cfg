SPECIFICATION Spec
CONSTANTS
    None = None
    Accounts <- MCAccounts
    Txs <- MCTxs
    PeerBlocks <- MCPeerBlocks
    StartBalance <- MCBalance
    AccountSlots = 2
    GlobalQueue = 1
    PriceBump = 10
    PriceLimit = 1
    GasLimit = 3
    MaxNonce = 2
    MaxHeight = 2
    MaxBlocks = 4
    Clients = {"c"}
    Connections = {r1, r2}
    Burst = 2
    RequestsPerSecond = 1
    MaxConcurrent = 1
    ClientTTL = 2
    Batches = {1, 2}
    MaxTime = 4
    Polls = {p1, p2}
    Sides = {"pool", "limits", "filters"}
    EmptyBlocks <- MCEmptyBlocks
    FilterTTL = 0
    MaxFilters = 1
CHECK_DEADLOCK FALSE
SYMMETRY Symmetry
INVARIANTS
    PoolIsConsistent
    LimitsHold
    

    
