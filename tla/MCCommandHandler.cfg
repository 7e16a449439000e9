CONSTANTS
    Keys = {k1, k2}
    Fields = {f1}
    Values = {a, nothing}
    EmptyString = nothing
    MaxListLen = 2
    MaxClock = 1
    MaxPairs = 2
    MaxRequests = 3
    Batches <- MCBatches
    Counts <- MCCounts
    TTLs <- MCTTLs
    Indexes <- MCIndexes
    UnknownNames <- MCUnknownNames
CHECK_DEADLOCK FALSE
SPECIFICATION Spec
SYMMETRY Symmetry
INVARIANTS HandlerTypeOK CountersAgree
PROPERTIES ErrorsChangeNothing PopsReturnWhatTheyRemove
