\* One chain: two messages, a fault, both sides may stop.
SPECIFICATION DockFairSpec
CONSTANTS
    Words = {"virtual", "wrong", "request"}
    MaxSent = 2
    MaxFaults = 1
CHECK_DEADLOCK FALSE
INVARIANTS
    DockTypeOK
    OnlyItsToken
PROPERTIES
    ChainEnds
    StopEnds
