CONSTANTS
    Validators = {"v1", "v2"}
    Keyless = {}
    Retain = 256
    Order <- TwoOrder
    EpochLength = 2
    Leavers = {}
    Exits = {}
    Turns <- LongTurns
    Online = {"v1", "v2"}
    Listeners = {"v1", "v2"}
    NoBlock = NoBlock
SPECIFICATION HandoverSpec
INVARIANT SameFinalizedEpoch
CHECK_DEADLOCK FALSE
