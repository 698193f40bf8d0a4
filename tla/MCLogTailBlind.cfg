SPECIFICATION Spec
CONSTANTS
    Inodes = {1, 2}
    MaxLines = 3
    MaxRotations = 1
    MaxTruncations = 1
    InodeReuse = TRUE
INVARIANT NothingSkipped
CHECK_DEADLOCK FALSE
