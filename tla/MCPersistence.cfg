CONSTANTS
    Keys <- MCKeys
    Fields <- MCFields
    Values <- MCPlainValues
    MaxListLen = 2
    MaxClock = 1
    MaxBatch = 2
    MaxCommands = 3
    Batches <- MCBatches
    Counts <- MCCounts
    TTLs <- MCTTLs
    Empty <- MCEmpty
    Shorter <- MCShorter
SPECIFICATION Spec
INVARIANTS TypeOK FileMatchesDump TornFileDamagesOneEntry
