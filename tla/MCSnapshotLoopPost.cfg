SPECIFICATION Spec
CONSTANTS
    Retention = 1
    MaxTime = 2
    MaxSnapshots = 3
    MaxCrashes = 1
    ClockStepsBack = FALSE
INVARIANT EverySavedPosted
CHECK_DEADLOCK FALSE
