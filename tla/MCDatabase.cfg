CONSTANTS
    Keys = {k1, k2}
    Fields = {f1}
    Values = {a, b}
    MaxListLen = 3
    MaxClock = 1
    MaxBatch = 2
    MaxDeadlines = 1
    Batches <- MCBatches
    Counts <- MCCounts
    TTLs <- MCTTLs
SPECIFICATION DBSpec
CONSTRAINT FewDeadlines
SYMMETRY Symmetry
INVARIANT DBTypeOK
PROPERTY ImplementsKeyspaces
