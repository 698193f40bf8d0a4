SPECIFICATION Spec
CONSTANTS
    IPs = {a}
    Cap = 3
    Window = 2
    MaxTime = 3
    MaxLines = 3
    MaxStepBacks = 1
    ZoneOffset <- West
INVARIANT RemainingSizeIsCount
CHECK_DEADLOCK FALSE
