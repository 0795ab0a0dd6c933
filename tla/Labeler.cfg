SPECIFICATION Spec
CONSTANTS
    N = 2
    BufferSize = 1
    CheckpointInterval = 1
    SkipBackfill = FALSE
    MaxGens = 2
    MaxBoots = 2
INVARIANTS TypeOK CursorCovered BackfillCovered GenerationsStopped
PROPERTIES ImplementsCursorLog
CHECK_DEADLOCK FALSE
