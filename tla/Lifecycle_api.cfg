SPECIFICATION FairSpec
CONSTANTS
    Logging = {}
    MaxSignals = 1
PROPERTIES
    ApiReturns
CHECK_DEADLOCK FALSE
