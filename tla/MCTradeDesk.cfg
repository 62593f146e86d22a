\* Two runs of the setup, three writes, a fault.
CONSTANTS
    op1 = op1
    op2 = op2
    usdy = usdy
    usdc = usdc
    raw1 = raw1
    raw2 = raw2
    None = None
    Admin = Admin
    Operators <- MCOperators
    Listed = op1
    Labels <- MCLabels
    Raw <- MCRaw
    Prices = {1}
    Tabs <- MCTabs
    MaxTime = 1
    MaxFaults = 1
    MaxRuns = 2
    MaxWrites = 3
SYMMETRY MCSymmetry
SPECIFICATION TradeDeskSpec
INVARIANTS
    
    FileNamesFeeds
    
CHECK_DEADLOCK FALSE
