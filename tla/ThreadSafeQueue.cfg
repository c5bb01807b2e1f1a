SPECIFICATION FairSpec
CONSTANTS
    Item = {i1, i2}
    Producer = {p1, p2}
    Consumer = {c1, c2}
    Closer = {m1}
    MaxItems = 3
INVARIANTS
    NoLostWakeup
PROPERTIES
    ImplementsFifo
    ShutdownReleases
    WaitersGetItems
