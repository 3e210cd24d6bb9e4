SPECIFICATION Spec
CONSTANTS
    Hashes <- TwoHashes
    Terminals <- TwoLeaves
    Key <- TwoKey
    Left <- TwoLeft
    Right <- TwoRight
    Nodes <- TwoNodes
    Empty = "none"
    MaxHeight = 1
    Hosts = {"o", "m"}
    Owner = "o"
    Leaves <- OneLeaf
    Requests = {"offer", "cancel", "keys"}
    Calls = {1}
    MaxGeneration = 2
    MaxChanges = 1
    MaxEvents = 2
    MaxFaults = 1
CHECK_DEADLOCK FALSE
INVARIANTS LocalIsChain
PROPERTY CatchesUp
