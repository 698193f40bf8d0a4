SPECIFICATION FairSpec
CONSTANTS
    IPs = {a}
    Cap = 2
    Window = 2
    MaxTime = 2
    MaxLines = 3
    MaxStepBacks = 1
    ZoneOffset <- West
INVARIANTS
    TypeOK
    RingIndexInBounds
    RingHoldsNewest
    YoungNotForgotten
    ReportedConnections
    ReportedUsers
PROPERTIES
    LinesMerged
    ImplementsSlidingWindow
