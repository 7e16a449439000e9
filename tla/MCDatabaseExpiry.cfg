CONSTANTS
    Keys = {k1, k2}
    Fields = {f1}
    Values = {a}
    MaxListLen = 1
    MaxClock = 2
    MaxBatch = 1
    MaxDeadlines = 2
    Batches <- MCBatches
    Counts <- MCCounts
    TTLs <- MCTTLs
SPECIFICATION DBSpec
INVARIANT ExpiredKeysAreGone
