CONSTANTS
    Validators = {"v1", "v2", "v3", "v5", "v6"}
    Keyless = {}
    Retain = 0
    Order <- FiveOrder
    EpochLength = 2
    Leavers = {"v6"}
    Exits <- BranchExit
    Turns <- BranchTurns
    Online = {"v1", "v2", "v3", "v5"}
    Listeners = {"v5"}
    NoBlock = NoBlock
SPECIFICATION HandoverSpec
INVARIANT FinalsHaveTheirQuorum
CHECK_DEADLOCK FALSE
