SPECIFICATION FairSpec
CONSTANTS
    Logging <- LoggingThreads
    MaxSignals = 1
PROPERTIES
    CtrlCStops
CHECK_DEADLOCK FALSE
