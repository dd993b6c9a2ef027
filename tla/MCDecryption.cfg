\* One public or one user decryption of one or two handles.
SPECIFICATION OneKindSpec
CONSTANTS
    t1 = t1
    t2 = t2
    t3 = t3
    t4 = t4
    s1 = s1
    s2 = s2
    s3 = s3
    chain1 = chain1
    h1 = h1
    h2 = h2
    m1 = m1
    m2 = m2
    user = user
    contract = contract
CONSTANTS
    Address <- MCAddress
    CoprocessorLists <- MCCoprocessorLists
    CoprocessorThresholds = {1}
    KmsNodeLists <- MCKmsNodeLists
    KmsThresholdChoices <- MCThresholds
    HostChains = {chain1}
    Handles = {h1, h2}
    ChainOf <- MCChainOf
    Materials = {m1, m2}
    NoMaterial = noMaterial
    Accounts = {user, contract}
    Public = public
    Delegations = {}
    DelegationCounters = {}
    ExpirationDates = {}
    IdSpan = 10
    KeyIdOf <- MCKeyIdOf
    BitSize <- MCBitSize
    MaxDecryptionRequestBits = 16
    HandleLists <- MCHandleLists
    UserRequests <- MCUserRequests
    MaxDurationDays = 1
    MaxContractAddresses = 1
    Timestamps = {0, 1, 3}
    DecryptDigests = {d1, d2}
    NoDecryptDigest = noDigest
    MaxPublicRequests = 1
    MaxUserRequests = 1
 
INVARIANT RequestsStayAuthorised
INVARIANT AnswersCounted
PROPERTY DoneByThreshold
PROPERTY DecryptedOnce
