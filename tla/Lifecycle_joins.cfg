SPECIFICATION FairSpec
CONSTANTS
    Logging <- LoggingThreads
    MaxSignals = 1
INVARIANTS
    QueuesOutliveProducers
    NoThreadLeft
PROPERTIES
    SafeSignalStops
CHECK_DEADLOCK FALSE
