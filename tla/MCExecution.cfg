SPECIFICATION Spec
CONSTANTS
    None = None
    Addresses = {"s", "c", "p", "n", "x", "k"}
    Keys = {1}
    Precompiles = {"x"}
    Targets = {"c", "n"}
    Deployments = {"n"}
    Values = {0, 1}
    Amounts = {0, 1}
    Requests = {100000}
    MaxCallDepth = 2
    MaxOps = 3
    Candidates <- MCCandidates
    Coinbase = "p"
    StakingAddress = "k"
    BaseFee = 1
    GasLimit = 200000
    Genesis <- MCGenesis
INVARIANTS FailureLeavesNoTrace StaticChangesNothing
PROPERTIES TransactionsSettle GasNeverGrows
CHECK_DEADLOCK FALSE
