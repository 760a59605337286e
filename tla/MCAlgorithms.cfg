SPECIFICATION MCSpec
CONSTANTS
    Keys <- MCKeys
    Values = {1, 40}
    Starts <- MCStarts
    MaxOps = 4
    Programs <- MCPrograms
    ByteOf <- MCByteOf
    U64 = 262144
    MemLimit = 16352
    StackLimit = 8
    MaxInitCodeSize = 1000
    ReturnSizes = {0, 2, 40}
    Limbs = 3
    BitsPerLimb = 4
    BitsPerByte = 2
    Samples <- MCSamples
    Moduli <- MCModuli
    Single = 2
    Short = 3
    LenBytes = 2
    DynamicTxType = 1
    MaxInput = 3
    Types <- MCTypes
    Messages <- MCMessages
    ElasticityMultiplier = 2
    BaseFeeChangeDenominator = 8
    MinBaseFee = 20
    GasLimitBoundDivisor = 6
    MinGasLimit = 24
    GenesisLimits = {24, 31}
    GenesisFees = {0, 7, 20, 26}
    MaxHeight = 4
INVARIANTS
    TablesAgree
    AtInstruction
    ArithmeticIsExact
    EncodingIsOneToOne
PROPERTIES
    
    FeesAreRegular
CHECK_DEADLOCK FALSE
