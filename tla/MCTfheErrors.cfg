\* One worker, no rollback: a result is asked for before the input is verified.
SPECIFICATION Spec
CONSTANTS
    a = a
    b = b
    g = g
    h = h
    d = d
    x = x
    t1 = t1
    t2 = t2
    t3 = t3
CONSTANTS
    Rows = {a, b, g, h, d}
    Inputs = {x}
    TxOf <- MCTxOf
    BlockOf <- MCBlockOf
    Deps <- MCDeps
    AllowedRows = {b, h, d}
    BadRows = {g}
    Workers = {w1}
    BatchSize = 2
    MaxFailures = 0
INVARIANT ErrorsOnlyFromOperations
CHECK_DEADLOCK FALSE
