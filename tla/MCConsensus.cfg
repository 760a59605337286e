SPECIFICATION MCSpec
CONSTANTS
    Label <- MCLabel
    Blocks <- MCBlocks
    MaxHeight = 4
    Txs <- MCTxs
    None = None
    TxsOf <- MCTxsOf
    Justification <- MCJustification
    Certified <- MCCertified
    BadHeader <- MCBadHeader
    BadRoot <- MCBadRoot
    Voters = {v1, v2, v3, v4}
    Slots = {1, 2}
    Choices = {"a", "b", "c"}
    SlotOf <- MCSlotOf
    Validators = {"v1", "v2", "v3", "v4", "v5", "v6"}
    Keyless = {"v4"}
    Retain = 0
    InitSet <- Before
    Sets <- MCSets
    Votes <- MCVotes
    Order <- FiveOrder
    EpochLength = 2
    Leavers = {"v6"}
    Exits <- BranchExit
    Turns <- BranchTurns
    Online = {"v1", "v2", "v3", "v5"}
    Listeners = {"v5"}
    NoBlock = NoBlock
INVARIANTS
    CanonicalIndexMatchesHead
    LookupsMatchCanonical
    ReorgNeverFails
    ConflictsAreAccountable
    CertificateIsAQuorum
    EvidenceIsGenuine
PROPERTIES
    
    FinalityOnlyAdvances
    VotesLostOnlyForCause
    EventuallyFinal
CHECK_DEADLOCK FALSE
