CONSTANTS
    Keys <- MCKeys
    Fields <- MCFields
    Values <- MCSpacedValues
    MaxListLen = 2
    MaxClock = 1
    MaxBatch = 1
    MaxCommands = 1
    Batches <- MCBatches
    Counts <- MCCounts
    TTLs <- MCTTLs
    Empty <- MCEmpty
    Shorter <- MCShorter
SPECIFICATION Spec
INVARIANT FileMatchesDump
