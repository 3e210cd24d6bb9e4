\* Cancelled tasks, crashes, and fork points that are out of date.
CONSTANTS
    Blocks <- MCBlocks
    Height <- MCHeight
    Chain <- MCChain
    Weight <- MCWeight
    IsTx <- MCIsTx
    Coins <- MCCoins
    Removals <- MCRemovals
    Additions <- MCAdditions
    Claims <- MCClaims
    Reward <- MCReward
    ParentCoin <- MCParentCoin
    HeightLock <- MCHeightLock
    NoBlock = NoBlock
    CacheSize = 2
    ForkArgs = {1, 3}
    StaleForkArgs = TRUE
    Interrupts = {"cancel", "crash"}
SPECIFICATION Spec
INVARIANTS
    PathIsStored
CHECK_DEADLOCK FALSE
