SPECIFICATION Spec
CONSTANTS
    Hashes <- ThreeHashes
    Terminals <- ThreeLeaves
    Key <- ThreeKey
    Left <- ThreeLeft
    Right <- ThreeRight
    Nodes <- ThreeNodes
    Empty = "none"
    MaxHeight = 2
    Hosts = {"o"}
    Owner = "o"
    Leaves <- ThreeLeaves
    Requests = {"batch", "offer", "take", "cancel_secure", "value", "keys"}
    Calls = {1, 2}
    MaxGeneration = 2
    MaxChanges = 2
    MaxEvents = 2
    MaxFaults = 1
CHECK_DEADLOCK FALSE
INVARIANTS LineageIsExact HintIsTree DeltaSuffices
PROPERTY RequestsEnd
