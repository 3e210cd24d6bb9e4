\* Forks, orphans, crashes, and a window of block records as small as possible.
CONSTANTS
    Blocks <- MCBlocks
    Height <- MCHeight
    Chain <- MCChain
    Weight <- MCWeight
    IsTx <- MCIsTx
    Coins <- MCCoins
    Removals <- MCRemovals
    Additions <- MCAdditions
    Claims <- MCClaims
    Reward <- MCReward
    ParentCoin <- MCParentCoin
    HeightLock <- MCHeightLock
    NoBlock = NoBlock
    CacheSize = 2
    ForkArgs = {0, 1, 2, 3}
    StaleForkArgs = FALSE
    Interrupts = {"crash"}
SPECIFICATION Spec
INVARIANTS
    CoinTableIsReplay
    MainChainIsPath
    PeakIsHeaviest
    AcceptedBlocksApply
    ValidationIsExact
    MemoryMatchesDatabase
    AvailableUnlessReorg
CHECK_DEADLOCK FALSE
