\* Several activations in one batch, two failures or crashes.
SPECIFICATION Spec
CONSTANTS
    MaxBlock = 6
    Activations = {1, 2, 4, 5, 6}
    Corrupt = {4}
    CatchupConf = none
    BatchSize = 3
    StoredAtStart = {none, 0}
    MaxFailures = 2
    None = none
INVARIANT NoActivationSkipped
INVARIANT KeyNotBehindCursor
PROPERTY KeyInstalled
CHECK_DEADLOCK FALSE
