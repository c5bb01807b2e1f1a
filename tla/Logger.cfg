SPECIFICATION FairSpec
CONSTANTS
    Thread = {t1, t2}
    Level <- Levels
    min_level = 2
    MaxCalls = 3
CHECK_DEADLOCK FALSE
INVARIANTS
    WrittenInOrder
    LossIsLate
PROPERTIES
    EntriesGetWritten
    ShutdownReturns
