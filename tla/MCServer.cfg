CONSTANTS
    Connections = {c1, c2, c3}
    c1 = c1
    c2 = c2
    c3 = c3
    MaxFd = 4
    MaxEvents = 2
    DumpInterval = 1
    MaxRequests = 2
    MaxSignals = 1
CHECK_DEADLOCK FALSE
SPECIFICATION MCSpec
INVARIANTS TypeOK NobodyIsForgotten EventsAreCurrent GaugeIsRight GracefulShutdownSaves ExceptionKeepsTheFile
PROPERTIES RequestsAreAnswered ShutdownCompletes WritesReachTheFile
