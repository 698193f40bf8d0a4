SPECIFICATION FairPagesSpec
CONSTANTS
    Retention = 1
    MaxTime = 2
    MaxSnapshots = 3
    MaxCrashes = 1
    ClockStepsBack = TRUE
    Limit = 1
    Windows <- MCWindows
INVARIANTS
    TypeOK
    RetentionKept
    PostedIsDurable
    StartupReadsStore
    PagesTypeOK
    DeliveredOnce
    NoneMissedUnlessTied
PROPERTY CollectionGoesOn
