\* Reconfigurations between the answers to one proof request.
SPECIFICATION Spec
CONSTANTS
    t1 = t1
    t2 = t2
    t3 = t3
    t4 = t4
    s1 = s1
    s2 = s2
    s3 = s3
    s4 = s4
CONSTANTS
    Address <- MCAddress
    CoprocessorLists <- MCCoprocessorLists
    CoprocessorThresholds = {0, 1, 2, 3}
    KmsNodeLists <- MCKmsNodeLists
    KmsThresholdChoices <- MCKmsThresholdChoices
    HostChains = {chain}
    Handles = {}
    ChainOf <- MCChainOf
    Digests = {d1, d2}
    NoDigest = noDigest
    MaxProofRequests = 1
INVARIANT TypeOK
INVARIANT OneResponsePerSigner
INVARIANT RejectionsCounted
INVARIANT VerifyRejectExclusive
PROPERTY DecidedByThreshold
PROPERTY ConsensusSendersOnlyGrow
PROPERTY DecidedOnce
