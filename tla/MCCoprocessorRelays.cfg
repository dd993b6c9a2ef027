\* Two handles with two materials; one right, and two changes of a delegation.
SPECIFICATION RelaysSpec
CONSTANTS
    t1 = t1
    t2 = t2
    t3 = t3
    s1 = s1
    s2 = s2
    s3 = s3
    chain1 = chain1
    h1 = h1
    h2 = h2
CONSTANTS
    Address <- MCAddress
    CoprocessorLists <- MCCoprocessorLists
    CoprocessorThresholds = {1, 2}
    KmsNodeLists <- MCKmsNodeLists
    KmsThresholdChoices <- MCKmsThresholdChoices
    HostChains = {chain1}
    Handles = {h1, h2}
    ChainOf <- MCChainOf
    Materials = {m1, m2}
    NoMaterial = noMaterial
    Accounts = {}
    Public = public
    Delegations = {d1}
    DelegationCounters = {1, 2}
    ExpirationDates = {5}
INVARIANT SubmissionsCounted
INVARIANT MaterialOfConsensus
PROPERTY MaterialSetOnce
INVARIANT VotesCounted
INVARIANT LatestChangeStands
PROPERTY RightsOnlyByConsensus
