\* All tasks, with one cancelled new_peak.
SPECIFICATION Spec
CONSTANTS
    Blocks <- MCBlocks
    Prev <- MCPrev
    None = "none"
    Block <- MCBlock
    Txs <- MCTxs
    Tx <- MCTx
    StartPeaks = {"g", "b2"}
    MaxPoolCost = 3
    MaxCacheCost = 3
    MaxBundleCost = 3
    MinFpc = 1
    MinFeeIncrease = 2
    SeenSize = 1
    MaxFlight = 2
    MaxReports = 1
    MaxCancels = 1
INVARIANTS NoDoubleSpend BundleIsValid WithinCapacity SeenIsExplained
PROPERTY LeavesForAReason
CHECK_DEADLOCK FALSE
