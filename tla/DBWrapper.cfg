\* Two tasks that nest transactions and readers, cancelled at any await.
CONSTANTS
    t1 = t1
    t2 = t2
    Tasks <- MCTasks
    NoTask = NoTask
    ReadConnections = 1
    MaxContexts = 4
    MaxDepth = 3
    MaxWrites = 2
SPECIFICATION FairSpec
INVARIANTS
    AllOrNothing
    WriterSeesItsWrites
    DurableUnlessOrphaned
PROPERTIES
    WriterServed
CHECK_DEADLOCK FALSE
