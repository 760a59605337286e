SPECIFICATION MCSpec
CONSTANTS
    None = None
    Blocks <- MCBlocks
    Slots <- MCSlots
    Justification <- MCJustification
    Offers <- MCOffers
    Finalizable <- MCFinalizable
    MaxHeight = 2
    Retain = 1
    MaxPrunes = 1
    Threshold = 2
    MaxRequestBatch = 2
    MaxFaults = 1
    MaxSyncs = 1
    Keys = {1, 2}
    Vals = {"x", "y"}
    Absent = Absent
    Batches <- MCBatches
    DeadFloor = 0
    MaxCrashes = 1
    MaxCompactions = 1
    MaxFailures = 1
    MaxRecords = 4
INVARIANTS
    EveryCrashLoads
    
    
PROPERTIES
    ImplementsCrashMap
CHECK_DEADLOCK FALSE
