\* Two decryptions and a PRSS init, two listeners, two workers, two faults.
SPECIFICATION Spec
CONSTANTS
    d1 = d1
    d2 = d2
    prss = prss
    l1 = l1
    l2 = l2
CONSTANTS
    Requests = {d1, d2, prss}
    Kinds = {"decryption", "prssInit"}
    KindOf <- MCKindOf
    BatchKinds = {"decryption"}
    NoResponse = {prss}
    Listeners = {l1, l2}
    Watched <- MCWatched
    Workers = {w1, w2}
    Senders = {x1}
    BatchSize = 2
    TaskLimit = 1
    MaxFaults = 2
 
PROPERTY RowsMoveOn
 
CHECK_DEADLOCK FALSE
