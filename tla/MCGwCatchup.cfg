\* A catch-up from block 0 in two batches, one failure.
SPECIFICATION Spec
CONSTANTS
    MaxBlock = 4
    Activations = {1, 2, 3}
    Corrupt = {}
    CatchupConf = 0
    BatchSize = 1
    StoredAtStart = {0}
    MaxFailures = 1
    None = none
INVARIANT CatchupLosesNothing
CHECK_DEADLOCK FALSE
