SPECIFICATION FairSpec
CONSTANTS
    Inodes = {1, 2}
    MaxLines = 3
    MaxRotations = 1
    MaxTruncations = 1
    InodeReuse = TRUE
INVARIANTS
    TypeOK
    RecordedInOrder
    NothingSkippedUnlessRegrown
PROPERTY LinesRecorded
