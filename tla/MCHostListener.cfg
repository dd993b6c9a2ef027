SPECIFICATION HostSpec
CONSTANTS
    Blocks <- MCBlocks
    Genesis = 0
    Parent <- MCParent
    Number <- MCNumber
    Eventful = {2, 3, 12, 13, 14}
    FirstHead = 1
    StoredAtStart <- MCStoredAtStart
    Margin = 1
    Paging = 1
    MaxReorg = 2
    MaxReorgs = 1
    MaxFaults = 2
    None = None
PROPERTY NewBranchFollowed
 
PROPERTY CanonicalIngested
CHECK_DEADLOCK FALSE
