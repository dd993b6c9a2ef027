\* Two keys in a row under rotating KMS nodes.
SPECIFICATION Spec
CONSTANTS
    t1 = t1
    t2 = t2
    s1 = s1
    s2 = s2
    c1 = c1
    c2 = c2
CONSTANTS
    Address <- MCAddress
    CoprocessorLists <- MCCoprocessorLists
    CoprocessorThresholds = {1}
    KmsNodeLists <- MCKmsNodeLists
    KmsThresholdChoices <- MCKmsThresholdChoices
    HostChains = {}
    Handles = {}
    ChainOf <- MCChainOf
    IdSpan = 10
    Contents = {c1, c2}
    NoContent = noContent
    MaxKeys = 2
    MaxCrs = 1
    MaxReshares = 1
INVARIANT OneGenerationAtATime
INVARIANT GenerationAnswersCounted
INVARIANT ActivationNamesANode
PROPERTY GeneratedByThreshold
PROPERTY GeneratedOnce
SYMMETRY MCSymmetry
