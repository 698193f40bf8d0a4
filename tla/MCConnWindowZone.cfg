SPECIFICATION Spec
CONSTANTS
    IPs = {a}
    Cap = 2
    Window = 1
    MaxTime = 2
    MaxLines = 2
    MaxStepBacks = 0
    ZoneOffset <- West
INVARIANT WindowReported
CHECK_DEADLOCK FALSE
