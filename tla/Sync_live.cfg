SPECIFICATION Spec
CONSTANTS
    Blocks <- MCBlocks
    None = "none"
    Prev <- MCPrev
    Height <- MCHeight
    Weight <- MCWeight
    Invalid = {"c2"}
    StartPeak = "a2"
    Peers = {"p", "q"}
    Journey <- ShortJourney
    Handlers = {h1}
    Syncs = {s1, s2}
    BatchSize = 2
    BufferSize = 1
    ShortThreshold = 0
    SyncThreshold = 3
    RecentBlocks = 2
    BacktrackDepth = 2
    BatchMargin = 0
    MaxPeaks = 2
    ClearEvery = 3
    MaxFaults = 1
CHECK_DEADLOCK FALSE
PROPERTIES LongSyncEnds CatchesUp
