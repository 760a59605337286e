CONSTANTS
    Parts = {"gossip", "peers", "rounds"}
    Nodes = {"a", "b", "c"}
    Starts <- AllStarts
    Voters = {"a"}
    Txs = {"t"}
    MaxBlocksPerRequest = 2
    MaxBackfillStep = 4
    SeenLimit = 3
    NoBatch = NoBatch
    Conns = {"c1", "c2", "c3"}
    Ids = {"i", "j"}
    IdOf <- MCIdOf
    MaxPeers = 1
    InitialScore = 3
    PenaltyBadMessage = 1
    PenaltyInvalidBlock = 2
    PenaltyFlood = 2
    BanDuration = 1
    RecoveryInterval = 1
    RecoveryAmount = 1
    MaxClock = 1
    NoConn = NoConn
    Order <- TwoOrder
    Draws <- Rotation
    NoDraw = NoDraw
    Period = 1
    RoundTimeout = 3
    Drift = 2
    Skew <- TwoSkew
    Reliable = {"a"}
    MaxHeight = 2
    MaxTime = 9
    MaxCrashes = 1
    Nobody = Nobody
SPECIFICATION FairSpec
INVARIANTS EntriesAreLive 
PROPERTIES  GossipSettles StopReturns
CHECK_DEADLOCK FALSE
