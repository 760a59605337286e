CONSTANTS
    Addresses = {"a", "b", "c"}
    Genesis <- TwoValidators
    MinDeposit = 4
    MaxEffectiveBalance = 4
    EffectiveBalanceIncrement = 1
    EjectionBalance = 2
    MinActivationDelay = 1
    WithdrawalDelay = 2
    SlashingWindow = 2
    CorrelationPenaltyEpochOffset = 1
    MinChurnLimit = 1
    ChurnLimitQuotient = 8
    SlashPenaltyQuotient = 4
    CorrelationPenaltyMultiplier = 3
    BaseRewardFactor = 3
    ProposerRewardQuotient = 1
    InactivityLeakThreshold = 1
    InactivityPenaltyQuotient = 4
    Amounts = {4}
    Gifts = {0, 1}
    Depositors = {"c"}
    Offenders = {"b"}
    Leavers = {"a", "c"}
    KeyChoices = {TRUE, FALSE}
    Proposers = {"a"}
    MaxEpoch = 3
    MaxBalance = 8
    MaxStranded = 1
SPECIFICATION Spec
INVARIANTS AccountCoversRegistry MembersAnswerable RequestedExitsAreSpread NoOffenceForgotten
PROPERTIES WithdrawalsAreDelayed
CHECK_DEADLOCK FALSE
