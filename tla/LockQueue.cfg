\* Cancellation and closing at any moment.
CONSTANTS
    c0 = c0
    c1 = c1
    c2 = c2
    c3 = c3
    c4 = c4
    Calls <- MCCalls
    Priority <- MCPriority
    MayCancel = TRUE
SPECIFICATION HeapSpec
INVARIANTS
    MutualExclusion
PROPERTIES
    ReleasedUnlessLost
    TopPriorityServed
    RefinesLockQueue
CHECK_DEADLOCK FALSE
