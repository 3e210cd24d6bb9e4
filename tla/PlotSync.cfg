\* Any two of: an answer too late, a connection lost, a file changed.
SPECIFICATION Spec
CONSTANTS
    Files <- MCFiles
    Lists = {"invalid"}
    StartDisks <- MCStartDisks
    BatchSize = 1
    MaxClock = 1
    MaxFaults = 2
    MaxFails = 1
    MaxAsserts = 1
INVARIANTS DeltaIsPrefix SettledInStep
PROPERTY ComesInStep
CHECK_DEADLOCK FALSE
