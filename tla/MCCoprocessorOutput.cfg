SPECIFICATION OutputSpec
CONSTANTS
    Handles = {1}
    Inconvertible = {}
    TaskBatch = 2
    Capacity = 1
    MaxUploads = 2
    UploadBatch = 2
    MaxUploadFaults = 1
    Rows = {1, 11, 12}
    Ops = {"add_ciphertext", "verify_proof"}
    OpOf <- MCOpOf
    CountingOps = {"verify_proof"}
    Reverting = {12}
    BatchLimit = 2
    MaxRetries = 1
    MaxTxFaults = 1
    NoNonce = NoNonce
    MaxFaults = 1
INVARIANT AcceptedIsFetchable
INVARIANT ConvertedIsKept
 
 
CHECK_DEADLOCK FALSE
