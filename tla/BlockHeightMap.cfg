\* Restarts, crashes in the middle of a flush, files that cannot be written.
CONSTANTS
    Blocks <- MCBlocks
    Height <- MCHeight
    Chain <- MCChain
    Weight <- MCWeight
    Summary <- MCSummary
    NoBlock = NoBlock
    NoSummary = "none"
    FlushLimit = 3
    Interrupts = {"restart", "crash", "disk"}
SPECIFICATION Spec
INVARIANTS
    MapIsPath
    CompleteUnlessTorn
PROPERTIES
    ReorgKeepsOnPath
CHECK_DEADLOCK FALSE
