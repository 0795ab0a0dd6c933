SPECIFICATION Spec
CONSTANTS
    N = 3
    BufferSize = 1
    CheckpointInterval = 1
    SkipBackfill = FALSE
    MaxGens = 1
    MaxBoots = 1
INVARIANT SomePromiseKept
CHECK_DEADLOCK FALSE
