CONSTANTS
    Connections = {c1}
    c1 = c1
    c2 = c1
    c3 = c1
    MaxFd = 4
    MaxEvents = 2
    DumpInterval = 1
    MaxRequests = 1
    MaxSignals = 2
CHECK_DEADLOCK FALSE
SPECIFICATION Spec
INVARIANT GracefulShutdownSaves
