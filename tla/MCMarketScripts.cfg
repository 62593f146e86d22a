\* Two runs that create accounts, any number of the others, one fault.
CONSTANTS
    MaxAddress = 14
    MaxRuns = 2
    MaxFaults = 1
SPECIFICATION MSFairSpec
INVARIANTS
    
    
    NamedMarketExists

    
