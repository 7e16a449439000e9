CONSTANTS
    Values = {a, b}
    INT_MAX = 7
    MaxListLen = 5
CHECK_DEADLOCK FALSE
SPECIFICATION Spec
INVARIANTS RemovesWhatItShould
PROPERTIES Returns
